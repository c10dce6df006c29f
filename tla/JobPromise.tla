----------------------------- MODULE JobPromise -----------------------------
(***************************************************************************)
(* What EmeryRouter promises about each accepted job, without the worker,  *)
(* the handlers, the lock, the retry limit or the broker: it waits, is     *)
(* executed alone, may be put back (a retry or a restart), and gets one    *)
(* outcome, for good.  Only an execution completes a job.                  *)
(***************************************************************************)
EXTENDS Integers

CONSTANT MaxJobs

VARIABLE state

JobIds    == 1..MaxJobs
Outcomes  == {"complete", "failed", "cancelled"}
Executing == {i \in JobIds : state[i] = "running"}

Init == state = [i \in JobIds |-> "absent"]

Accept(i) == /\ state[i] = "absent"
             /\ state' = [state EXCEPT ![i] = "queued"]

\* Waiting jobs may be given up; at most one job starts, and only when no
\* other is executing.
Choose ==
    \E lost \in SUBSET {i \in JobIds : state[i] = "queued"} :
        LET kept == [i \in JobIds |-> IF i \in lost THEN "failed" ELSE state[i]]
        IN  \/ state' = kept
            \/ /\ Executing = {}
               /\ \E i \in JobIds : /\ kept[i] = "queued"
                                    /\ state' = [kept EXCEPT ![i] = "running"]

PutBack(i) == /\ state[i] = "running"
              /\ state' = [state EXCEPT ![i] = "queued"]

Finish(i, outcome) ==
    /\ \/ state[i] = "running"
       \/ state[i] = "queued" /\ outcome # "complete"
    /\ state' = [state EXCEPT ![i] = outcome]

Next == \/ Choose
        \/ \E i \in JobIds : \/ Accept(i) \/ PutBack(i)
                             \/ \E outcome \in Outcomes : Finish(i, outcome)

Spec == Init /\ [][Next]_state
=============================================================================
