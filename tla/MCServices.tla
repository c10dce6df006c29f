------------------------------ MODULE MCServices ------------------------------
(* Components that share no state, side by side: every behaviour is one of   *)
(* a single component, chosen by its first state.                            *)
EXTENDS CommandApproval, ModelQueue, ImageHandoff, TLC

CONSTANTS u1, u2, c1, c2, k1, p1, p2, v1

MCAskers == {[user |-> u1, chat |-> c1, key |-> k1], [user |-> u1, chat |-> c2, key |-> k1],
             [user |-> u2, chat |-> c1, key |-> k1], [user |-> NoUser, chat |-> c1, key |-> k1]}

VARIABLE component

MCVars == <<component, approvalVars, queueVars, handoffVars>>

MCInit ==
    /\ ApprovalInit /\ QueueInit /\ HandoffInit
    /\ component \in {"approval", "queue", "handoff"}
    /\ component # "handoff" => client.at = "done" /\ ~client.edit   \* no batch that waits to run

MCNext ==
    /\ UNCHANGED component
    /\ \/ component = "approval" /\ ApprovalNext /\ UNCHANGED <<queueVars, handoffVars>>
       \/ component = "queue" /\ QueueNext /\ UNCHANGED <<approvalVars, handoffVars>>
       \/ component = "handoff" /\ HandoffNext /\ UNCHANGED <<approvalVars, queueVars>>

\* HandoffFairness: the router may resume from the start.
MCHandoffFairness ==
    /\ WF_handoffVars(component = "handoff" /\ JobEnds) /\ WF_handoffVars(component = "handoff" /\ Resume)
    /\ \A t \in Pausers :
        WF_handoffVars(component = "handoff" /\ PauseAlone(t)) /\ WF_handoffVars(component = "handoff" /\ HandedOff(t))
    /\ \A v \in Viewers : WF_handoffVars(component = "handoff" /\ Finishing(v))
    /\ WF_handoffVars(component = "handoff" /\ ClientNext) /\ WF_handoffVars(component = "handoff" /\ PollGivesUp)

MCSpec ==
    /\ MCInit /\ [][MCNext]_MCVars
    /\ ApprovalFairness /\ QueueFairness   \* nothing of them is enabled until they are chosen
    /\ MCHandoffFairness

\* Whoever waits for an owner, for the fast model or for the other side of a hand-off is answered.
ServicesEnd == RequestEnds /\ CallEnds /\ HandoffEnds
=============================================================================
