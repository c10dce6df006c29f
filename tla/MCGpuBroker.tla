----------------------------- MODULE MCGpuBroker -----------------------------
(* GpuBroker for model checking. *)
EXTENDS GpuBroker, TLC
=============================================================================
