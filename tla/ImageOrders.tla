----------------------------- MODULE ImageOrders -----------------------------
(***************************************************************************)
(* What a chat that asks for images is promised, without the worker, the   *)
(* pipeline lock, the pauses, the preemptions and the batches that are put *)
(* back: its requests get their images one after the other, in the order   *)
(* they were made, none too many, and a request leaves the line with all   *)
(* of them or because it failed, was cancelled or was left in a pause of   *)
(* the user's.                                                             *)
(***************************************************************************)
EXTENDS Naturals

CONSTANTS Chats, MaxJobs, Batch

VARIABLES
    pending,    \* the requests of each chat that are still in its line
    requested,  \* number of requests
    delivered,  \* images sent, for each request
    excused,    \* requests that failed or were cancelled
    disturbed   \* a user has paused or resumed a queue

orderVars == <<pending, requested, delivered, excused, disturbed>>

Init ==
    /\ pending = [c \in Chats |-> {}] /\ requested = 0
    /\ delivered = [j \in 1..MaxJobs |-> 0]
    /\ excused = {} /\ disturbed = FALSE

Accept(c) ==
    /\ requested < MaxJobs
    /\ requested' = requested + 1
    /\ pending' = [pending EXCEPT ![c] = @ \cup {requested + 1}]
    /\ UNCHANGED <<delivered, excused, disturbed>>

\* The next image of the request that was made first.
Deliver(c) ==
    /\ \E j \in pending[c] :
        /\ \A k \in pending[c] : j <= k
        /\ delivered[j] < Batch
        /\ delivered' = [delivered EXCEPT ![j] = @ + 1]
    /\ UNCHANGED <<pending, requested, excused, disturbed>>

\* Requests are given up, a user pauses or resumes, and some leave the line.
Settle(c) ==
    /\ \E given \in SUBSET pending[c] : excused' = excused \cup given
    /\ disturbed => disturbed'
    /\ \E kept \in SUBSET pending[c] :
        /\ pending' = [pending EXCEPT ![c] = kept]
        /\ \A j \in pending[c] \ kept : disturbed' \/ j \in excused' \/ delivered[j] = Batch
    /\ UNCHANGED <<requested, delivered>>

Next == \E c \in Chats : Accept(c) \/ Deliver(c) \/ Settle(c)

Spec == Init /\ [][Next]_orderVars
=============================================================================
