------------------------------- MODULE ModelQueue -------------------------------
(***************************************************************************)
(* PriorityModelScheduler (emery/globals.py): calls to the fast model, one *)
(* at a time, those of users before those in the background.               *)
(***************************************************************************)
EXTENDS Naturals, FiniteSets

CONSTANTS Calls  \* the calls of submit

VARIABLES
    call,    \* each call: where its operation is, its heap key, its future
    seq,     \* _sequence
    started, \* _drain tasks that have not looked at the queue yet
    worker   \* whether _worker is a task that has not ended

queueVars == <<call, seq, started, worker>>

Priorities == {0, 10}   \* user, background

Call == [at: {"new", "queued", "running", "done"}, priority: Priorities, seq: Nat,
         cancelled: BOOLEAN]

QueueInit ==
    /\ call = [c \in Calls |-> [at |-> "new", priority |-> 0, seq |-> 0, cancelled |-> FALSE]]
    /\ seq = 0 /\ started = 0 /\ worker = FALSE

Before(c, d) ==
    \/ call[c].priority < call[d].priority
    \/ call[c].priority = call[d].priority /\ call[c].seq < call[d].seq

\* Seeded fault: every submit starts a worker.
NeedsWorker_Always == TRUE
NeedsWorker == ~worker

NextSeq == seq + 1

SubmitCall(c, priority) ==
    /\ call[c].at = "new"
    /\ call' = [call EXCEPT ![c] = [at |-> "queued", priority |-> priority, seq |-> seq,
                                    cancelled |-> FALSE]]
    /\ seq' = NextSeq
    /\ started' = IF NeedsWorker THEN started + 1 ELSE started
    /\ worker' = TRUE

\* The caller's task is cancelled; a running operation is not.
CancelCall(c) ==
    /\ call[c].at \in {"queued", "running"} /\ ~call[c].cancelled
    /\ call' = [call EXCEPT ![c].cancelled = TRUE]
    /\ UNCHANGED <<seq, started, worker>>

Waiting == {c \in Calls : call[c].at = "queued" /\ ~call[c].cancelled}

\* Seeded fault: a worker looks no further than a cancelled call at the head.
NextCall_Head == {c \in Waiting : \A d \in Calls \ {c} : call[d].at = "queued" => Before(c, d)}
\* What the heap yields once it has dropped the cancelled calls in front.
NextCall == {c \in Waiting : \A d \in Waiting \ {c} : Before(c, d)}

\* A worker that goes round, ended being the call it has just finished: it
\* starts the next operation or ends, before anything else runs.
GoesRound(ended) ==
    LET next == NextCall
        dropped == {d \in Calls : /\ call[d].at = "queued" /\ call[d].cancelled
                                  /\ \A c \in next : Before(d, c)}
    IN  /\ call' = [d \in Calls |->
             [call[d] EXCEPT !.at = IF d \in ended \cup dropped THEN "done"
                                    ELSE IF d \in next THEN "running" ELSE @]]
        /\ worker' = (next # {})

Starts == started > 0 /\ started' = started - 1 /\ GoesRound({}) /\ UNCHANGED seq

\* The operation returns or raises an exception.
Ends(c) == call[c].at = "running" /\ GoesRound({c}) /\ UNCHANGED <<seq, started>>

QueueNext ==
    \/ \E c \in Calls :
         (\E priority \in Priorities : SubmitCall(c, priority)) \/ CancelCall(c) \/ Ends(c)
    \/ Starts

QueueSpec == QueueInit /\ [][QueueNext]_queueVars

\* Created tasks run, and every HTTP call of an operation has a timeout.
QueueFairness == WF_queueVars(Starts) /\ \A c \in Calls : WF_queueVars(Ends(c))

-----------------------------------------------------------------------------

\* Types, and heap keys that differ: a tie would make heapq compare futures.
QueueTypeOK ==
    /\ \A c, d \in Calls : call[c].at = "queued" /\ call[d].at = "queued" /\ c # d =>
         call[c].seq # call[d].seq
    /\ call \in [Calls -> Call]
    /\ seq \in Nat /\ worker \in BOOLEAN
    /\ started \in 0..Cardinality(Calls)

\* "Serialize local-model work": one operation at a time, whatever is submitted
\* while workers end and start.
Serialized == Cardinality({c \in Calls : call[c].at = "running"}) <= 1

\* No call is left behind by a worker that ends: a call that waits is run,
\* unless its caller gives up.
CallEnds == \A c \in Calls :
    call[c].at = "queued" ~> call[c].at = "done" \/ call[c].cancelled
=============================================================================
