---------------------------- MODULE MCImageQueue ----------------------------
(* ImageQueue for model checking. *)
EXTENDS ImageQueue, TLC
=============================================================================
