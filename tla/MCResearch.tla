------------------------------ MODULE MCResearch ------------------------------
(* The research modes, side by side: every behaviour is one of a single       *)
(* component, chosen by its first state.                                      *)
EXTENDS ExpertSessions, Debates

VARIABLE component

MCInit == ExpertInit /\ DebateInit /\ component \in {"sessions", "debates"}

MCNext ==
    /\ UNCHANGED component
    /\ \/ component = "sessions" /\ ExpertNext /\ UNCHANGED debateVars
       \/ component = "debates" /\ DebateNext /\ UNCHANGED expertVars

MCSpec ==
    /\ MCInit /\ [][MCNext]_<<component, expertVars, debateVars>>
    /\ ExpertFairness /\ DebateFairness   \* of a component that was not chosen nothing is enabled
===============================================================================
