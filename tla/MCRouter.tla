------------------------------ MODULE MCRouter ------------------------------
(***************************************************************************)
(* EmeryRouter for TLC: a portal chat that preempts image generation, and  *)
(* content jobs of a lower priority, one of each kind with a key.          *)
(***************************************************************************)
EXTENDS Router, TLC

CONSTANTS portal_interactive, emerychat_content

MCPolicy == portal_interactive :> 0 @@ emerychat_content :> 10

Symmetry == Permutations(Clients)
=============================================================================
