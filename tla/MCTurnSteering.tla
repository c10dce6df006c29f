---------------------------- MODULE MCTurnSteering ----------------------------
(* TurnSteering for model checking. *)
EXTENDS TurnSteering, TLC
=============================================================================
