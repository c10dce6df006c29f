------------------------------- MODULE Router -------------------------------
(***************************************************************************)
(* EmeryRouter: a durable queue in front of one language-model backend.    *)
(*                                                                         *)
(*   - the job table kept in SQLite (emeryrouter/storage.py),              *)
(*   - the only worker thread (emeryrouter/scheduler.py),                  *)
(*   - the HTTP handler threads that admit, follow and cancel jobs         *)
(*     (emeryrouter/service.py).                                           *)
(*                                                                         *)
(* Every store call is one SQLite transaction and is one step here.  The   *)
(* admission lock is held by a handler from the enqueue to the end of the  *)
(* hand-off call to the image broker, and by the worker from the idle      *)
(* check to next_job, so what can happen in between is what a step of      *)
(* another thread can do without that lock: a DELETE, a chunk, a crash.    *)
(***************************************************************************)
EXTENDS Integers, FiniteSets, Sequences

CONSTANTS
    Clients,        \* HTTP handler threads
    MaxJobs,        \* bound: rows the table may hold
    MaxAttempts,    \* ROUTER_MAX_ATTEMPTS
    MaxChunks,      \* bound: chunks the backend streams in one attempt
    MaxCrashes,     \* bound: times the process dies and restarts
    Callers,        \* the source:request_type labels callers present
    InteractiveType,\* the labels whose request_type is "interactive"
    Interactive,    \* those of them whose source is portal or jellyfin
    Policy,         \* the priority of each label, smaller first
    Keys,           \* idempotency keys, NoKey apart
    NoKey,
    Modes,          \* the ways a POST waits, within {"stream","sync","async"}
    ImageBroker,    \* FALSE when the image endpoint answers 404
    Faults,         \* how a broker call can fail, see BrokerFault
    Free            \* the owner of a lock nobody holds

AllModes  == {"stream", "sync", "async"}
AllFaults == {"refused", "answer_lost"}

ASSUME BoundsAssumption ==
    /\ MaxJobs \in Nat /\ MaxAttempts \in Nat \ {0}
    /\ MaxChunks \in Nat /\ MaxCrashes \in Nat
ASSUME CallersAssumption ==
    /\ Interactive # {} /\ Interactive \subseteq InteractiveType
    /\ InteractiveType \subseteq Callers
    /\ Policy \in [Callers -> Nat]
ASSUME ChoicesAssumption ==
    /\ Modes \subseteq AllModes
    /\ Faults \subseteq AllFaults
    /\ ImageBroker \in BOOLEAN
    /\ NoKey \notin Keys
    /\ Free \notin Clients /\ "sched" \notin Clients /\ Free # "sched"

VARIABLES
    jobs,       \* the table; the row's index is its sequence number
    lock,       \* owner of Scheduler.admission_lock
    sched,      \* the worker thread
    holdMaybe,  \* Scheduler._image_hold_maybe
    post,       \* the POST each handler thread serves
    queue,      \* the subscriber queue of each streaming handler
    sent,       \* what the handler has written to its client
    brokerHold, \* the image broker's priority_hold
    crashes

vars == <<jobs, lock, sched, holdMaybe, post, queue, sent,
          brokerHold, crashes>>
stream == <<queue, sent>>

-----------------------------------------------------------------------------
(* The job table *)

Ids      == 1..MaxJobs
Terminal == {"complete", "failed", "cancelled"}
Statuses == {"absent", "queued", "running"} \cup Terminal

Job == [status: Statuses, caller: Callers, key: Keys \cup {NoKey},
        attempts: Nat, cancel: BOOLEAN, delayed: BOOLEAN,
        result: Seq(Nat)]      \* the chunks of the response that was stored

Rows == {i \in Ids : jobs[i].status # "absent"}

Row(caller, key) ==
    [status |-> "queued", caller |-> caller, key |-> key, attempts |-> 0,
     cancel |-> FALSE, delayed |-> FALSE, result |-> <<>>]

Pending(i) == jobs[i].status \in {"queued", "running"}
\* Seeded fault: a queued interactive row is not counted.
PendingInteractive_Running ==
    {i \in Ids : jobs[i].status = "running" /\ jobs[i].caller \in Interactive}

PendingInteractive == {i \in Ids : Pending(i) /\ jobs[i].caller \in Interactive}

\* The row an idempotent request finds, if any.
Existing(caller, key) ==
    {i \in Rows : key # NoKey /\ jobs[i].key = key /\ jobs[i].caller = caller}

\* sequence = MAX(sequence) + 1; rows are never deleted.
IsNext(i) == \A j \in Ids : jobs[j].status = "absent" <=> j >= i


\* next_job: a queued row whose attempts are spent is failed before any row is
\* chosen.
Expire(row) ==
    IF row.status = "queued" /\ row.attempts >= MaxAttempts
    THEN [row EXCEPT !.status = "failed"] ELSE row

Startable(row) == row.status = "queued" /\ ~row.cancel /\ ~row.delayed

\* ORDER BY priority, sequence
Before(i, j) ==
    LET p == Policy[jobs[i].caller]  q == Policy[jobs[j].caller]
    IN  p < q \/ (p = q /\ i < j)

Start(row) == [row EXCEPT !.status = "running", !.attempts = @ + 1]

\* Seeded fault: cancel_requested is not read.
Complete_Uncancelled(row, chunks) ==
    IF row.status = "running"
    THEN [row EXCEPT !.status = "complete", !.result = [k \in 1..chunks |-> row.attempts]]
    ELSE row

\* A chunk stands for the attempt it was streamed in.
Complete(row, chunks) ==
    IF row.status = "running"
    THEN [row EXCEPT !.status = IF row.cancel THEN "cancelled" ELSE "complete",
                     !.result = [k \in 1..chunks |-> row.attempts]]
    ELSE row

\* Seeded fault: the second UPDATE, for a cancelled row, is missing.
RetryOrFail_Once(row, delay) ==
    IF row.attempts < MaxAttempts
    THEN IF row.status = "running" /\ ~row.cancel
         THEN [row EXCEPT !.status = "queued", !.delayed = delay] ELSE row
    ELSE IF row.status = "running" THEN [row EXCEPT !.status = "failed"] ELSE row

\* Whether the error was retryable plays no part.  A cancelled row is failed
\* by a second UPDATE that does not ask for its status.
RetryOrFail(row, delay) ==
    IF row.attempts < MaxAttempts
    THEN IF row.cancel THEN [row EXCEPT !.status = "failed"]
         ELSE IF row.status = "running"
              THEN [row EXCEPT !.status = "queued", !.delayed = delay] ELSE row
    ELSE IF row.status = "running" THEN [row EXCEPT !.status = "failed"] ELSE row

\* A running row is only marked: its response is discarded at the end.
CancelRow(row) ==
    IF row.status = "queued"
    THEN [row EXCEPT !.status = "cancelled", !.cancel = TRUE]
    ELSE [row EXCEPT !.cancel = TRUE]

\* Seeded fault: WHERE status='queued' is missing.
FailPending_Always(row) == [row EXCEPT !.status = "failed"]

FailPending(row) ==
    IF row.status = "queued" THEN [row EXCEPT !.status = "failed"] ELSE row

\* Seeded fault: the interrupted row stays as the dead process left it.
Recover_Nothing(row) == row

\* JobStore.__init__ on the table a dead process left behind.
Recover(row) ==
    IF row.status = "running"
    THEN [row EXCEPT !.status = "queued", !.delayed = FALSE] ELSE row

-----------------------------------------------------------------------------
(* Threads *)

InteractivePriority ==
    CHOOSE p \in {Policy[c] : c \in Interactive} :
        \A c \in Interactive : p <= Policy[c]

\* Whether admitting a job for this label takes the GPU from the image broker.
Preempts(caller) == Policy[caller] = InteractivePriority

SchedPcs == {"top", "resume", "pick", "run", "after", "resume_after", "sleep"}
PostPcs  == {"idle", "handoff", "stream", "wait", "done"}
Replies  == {"none", "result", "handle", "refused", "error", "gone"}

SchedState == [pc: SchedPcs, job: Ids \cup {0}, retry: BOOLEAN, chunks: Nat]
PostState  == [pc: PostPcs, job: Ids \cup {0}, mode: AllModes, reply: Replies]

Idle == [pc |-> "idle", job |-> 0, mode |-> "async", reply |-> "none"]
Top  == [pc |-> "top", job |-> 0, retry |-> FALSE, chunks |-> 0]

Init ==
    /\ jobs = [i \in Ids |-> [status |-> "absent", caller |-> CHOOSE c \in Callers : TRUE,
                              key |-> NoKey, attempts |-> 0, cancel |-> FALSE,
                              delayed |-> FALSE, result |-> <<>>]]
    /\ lock = Free
    /\ sched = Top
    /\ holdMaybe = TRUE
    /\ post = [c \in Clients |-> Idle]
    /\ queue = [c \in Clients |-> <<>>]
    /\ sent = [c \in Clients |-> <<>>]
    /\ brokerHold = FALSE
    /\ crashes = 0

\* What a call to the broker that ends in an exception may have done: nothing,
\* or its whole effect, with the answer lost or an error sent after it.
BrokerFault(kind) ==
    \/ /\ "refused" \in Faults
       /\ UNCHANGED brokerHold
    \/ /\ "answer_lost" \in Faults
       /\ brokerHold' = (ImageBroker /\ kind = "pause")

-----------------------------------------------------------------------------
(* do_POST *)

\* The handler leaves the admission lock and waits the way the caller asked.
Followed(i, mode) ==
    CASE mode = "stream" -> [pc |-> "stream", job |-> i, mode |-> mode, reply |-> "none"]
      [] mode = "sync"   -> [pc |-> "wait", job |-> i, mode |-> mode, reply |-> "none"]
      [] mode = "async"  -> [pc |-> "done", job |-> i, mode |-> mode, reply |-> "handle"]

Follow(c, i, mode) ==
    /\ post' = [post EXCEPT ![c] = Followed(i, mode)]
    /\ queue' = [queue EXCEPT ![c] = <<>>]
    /\ sent' = [sent EXCEPT ![c] = <<>>]

Answer(c, reply) ==
    post' = [post EXCEPT ![c] = [@ EXCEPT !.pc = "done", !.reply = reply]]

\* enqueue makes a row; an interactive one keeps the lock for the hand-off.
Admit(c, caller, key, mode) ==
    /\ post[c].pc \in {"idle", "done"}
    /\ lock = Free
    /\ Existing(caller, key) = {}
    /\ \E i \in Ids :
         /\ IsNext(i)
         /\ jobs' = [jobs EXCEPT ![i] = Row(caller, key)]
         /\ IF Preempts(caller)
            THEN /\ lock' = c
                 /\ post' = [post EXCEPT ![c] = [pc |-> "handoff", job |-> i,
                                                 mode |-> mode, reply |-> "none"]]
                 /\ UNCHANGED stream
            ELSE /\ Follow(c, i, mode)
                 /\ UNCHANGED lock
    /\ UNCHANGED <<sched, holdMaybe, brokerHold, crashes>>

\* enqueue finds the row of an earlier request with the same key.
Duplicate(c, caller, key, mode) ==
    /\ post[c].pc \in {"idle", "done"}
    /\ lock = Free
    /\ \E i \in Existing(caller, key) :
         IF mode = "stream"
         THEN /\ post' = [post EXCEPT ![c] =
                   [pc |-> "done", job |-> i, mode |-> mode,
                    reply |-> IF jobs[i].status = "complete" THEN "result" ELSE "handle"]]
              /\ queue' = [queue EXCEPT ![c] = <<>>]
              /\ sent' = [sent EXCEPT ![c] = jobs[i].result]
         ELSE Follow(c, i, mode)
    /\ UNCHANGED <<jobs, lock, sched, holdMaybe, brokerHold, crashes>>

\* Seeded fault: the worker is not told that the broker holds.
NoteHold_Forgotten == UNCHANGED holdMaybe

\* A broker that answered 404 holds nothing.
NoteHold == holdMaybe' = (holdMaybe \/ ImageBroker)

\* /priority/pause answered: the broker has given the GPU back.
HandoffAnswered(c) ==
    /\ post[c].pc = "handoff"
    /\ brokerHold' = ImageBroker
    /\ NoteHold
    /\ lock' = Free
    /\ Follow(c, post[c].job, post[c].mode)
    /\ UNCHANGED <<jobs, sched, crashes>>

\* The call failed: the row is failed, unless it was cancelled meanwhile.
HandoffFails(c) ==
    /\ post[c].pc = "handoff"
    /\ BrokerFault("pause")
    /\ jobs' = [jobs EXCEPT ![post[c].job] = FailPending(@)]
    /\ Answer(c, "refused")
    /\ lock' = Free
    /\ UNCHANGED <<sched, holdMaybe, stream, crashes>>

\* The synchronous wait sees a terminal row, or gives up after WAIT_SECONDS.
WaitEnds(c) ==
    /\ post[c].pc = "wait"
    /\ LET s == jobs[post[c].job].status IN
       \/ s = "complete" /\ Answer(c, "result")
       \/ s \in {"failed", "cancelled"} /\ Answer(c, "error")
       \/ s \notin Terminal /\ Answer(c, "handle")
    /\ UNCHANGED <<jobs, lock, sched, holdMaybe, stream, brokerHold, crashes>>

\* _send_stream: one chunk from the subscriber queue to the socket.
StreamTake(c) ==
    /\ post[c].pc = "stream"
    /\ queue[c] # <<>>
    /\ sent' = [sent EXCEPT ![c] = Append(@, Head(queue[c]))]
    /\ queue' = [queue EXCEPT ![c] = Tail(@)]
    /\ UNCHANGED <<jobs, lock, sched, holdMaybe, post, brokerHold, crashes>>

\* Seeded fault: the stream is closed without emptying the queue.
Drained_Not(c) == sent[c]

\* What the client has when the queue has been emptied.
Drained(c) == sent[c] \o queue[c]

\* A terminal row: the rest of the queue is drained, then the stream is closed
\* with an error frame unless the job completed.
StreamEnds(c) ==
    /\ post[c].pc = "stream"
    /\ jobs[post[c].job].status \in Terminal
    /\ sent' = [sent EXCEPT ![c] = Drained(c)]
    /\ queue' = [queue EXCEPT ![c] = <<>>]
    /\ Answer(c, IF jobs[post[c].job].status = "complete" THEN "result" ELSE "error")
    /\ UNCHANGED <<jobs, lock, sched, holdMaybe, brokerHold, crashes>>

\* BrokenPipeError or ConnectionResetError while streaming.
ClientGone(c) ==
    /\ post[c].pc = "stream"
    /\ Answer(c, "gone")
    /\ queue' = [queue EXCEPT ![c] = <<>>]
    /\ UNCHANGED <<jobs, lock, sched, holdMaybe, sent, brokerHold, crashes>>

\* do_DELETE takes no admission lock.
Cancel(i) ==
    /\ Pending(i)
    /\ jobs' = [jobs EXCEPT ![i] = CancelRow(@)]
    /\ UNCHANGED <<lock, sched, holdMaybe, post, stream, brokerHold, crashes>>

-----------------------------------------------------------------------------
(* The worker thread, Scheduler._run *)

SchedEnter ==
    /\ sched.pc = "top"
    /\ lock = Free
    /\ lock' = "sched"
    /\ sched' = [Top EXCEPT !.pc =
                   IF holdMaybe /\ PendingInteractive = {} THEN "resume" ELSE "pick"]
    /\ UNCHANGED <<jobs, holdMaybe, post, stream, brokerHold, crashes>>

\* Where the worker goes after a resume call, whatever came of it.
AfterResume ==
    IF sched.pc = "resume"
    THEN /\ sched' = [sched EXCEPT !.pc = "pick"]
         /\ UNCHANGED lock
    ELSE /\ sched' = [sched EXCEPT !.pc = IF sched.retry THEN "sleep" ELSE "top"]
         /\ lock' = Free

ResumeAnswered ==
    /\ sched.pc \in {"resume", "resume_after"}
    /\ brokerHold' = FALSE
    /\ holdMaybe' = FALSE
    /\ AfterResume
    /\ UNCHANGED <<jobs, post, stream, crashes>>

ResumeFails ==
    /\ sched.pc \in {"resume", "resume_after"}
    /\ BrokerFault("resume")
    /\ AfterResume
    /\ UNCHANGED <<jobs, holdMaybe, post, stream, crashes>>

\* next_job, then the lock is released.
SchedPick ==
    /\ sched.pc = "pick"
    /\ lock' = Free
    /\ LET expired   == [i \in Ids |-> Expire(jobs[i])]
           startable == {i \in Ids : Startable(expired[i])}
       IN  \/ /\ startable = {}
              /\ jobs' = expired
              /\ sched' = Top
           \/ \E i \in startable :
                /\ \A j \in startable \ {i} : Before(i, j)
                /\ jobs' = [expired EXCEPT ![i] = Start(@)]
                /\ sched' = [Top EXCEPT !.pc = "run", !.job = i]
    /\ UNCHANGED <<holdMaybe, post, stream, brokerHold, crashes>>

\* publish_chunk to the handler that created the job, if it still listens.
BackendChunk ==
    /\ sched.pc = "run"
    /\ sched.chunks < MaxChunks
    /\ sched' = [sched EXCEPT !.chunks = @ + 1]
    /\ queue' = [c \in Clients |->
                   IF post[c].pc = "stream" /\ post[c].job = sched.job
                   THEN Append(queue[c], jobs[sched.job].attempts) ELSE queue[c]]
    /\ UNCHANGED <<jobs, lock, holdMaybe, post, sent, brokerHold, crashes>>

\* An interactive job is followed by the resume check, a retry by its delay.
Processed(retry) ==
    sched' = [sched EXCEPT
        !.retry = retry,
        !.pc = CASE jobs[sched.job].caller \in InteractiveType -> "after"
                 [] jobs[sched.job].caller \notin InteractiveType /\ retry -> "sleep"
                 [] OTHER -> "top"]

BackendDone ==
    /\ sched.pc = "run"
    /\ jobs' = [jobs EXCEPT ![sched.job] = Complete(@, sched.chunks)]
    /\ Processed(FALSE)
    /\ UNCHANGED <<lock, holdMaybe, post, stream, brokerHold, crashes>>

\* BackendError, retryable or not; one that follows a chunk is made
\* non-retryable, which only decides whether the worker sleeps the delay.
BackendFails(retryable) ==
    /\ sched.pc = "run"
    /\ jobs' = [jobs EXCEPT ![sched.job] = RetryOrFail(@, TRUE)]
    /\ Processed(/\ retryable /\ sched.chunks = 0
                 /\ jobs[sched.job].attempts < MaxAttempts)
    /\ UNCHANGED <<lock, holdMaybe, post, stream, brokerHold, crashes>>

\* Any other exception: no delay before the next attempt.
InternalError ==
    /\ sched.pc = "run"
    /\ jobs' = [jobs EXCEPT ![sched.job] = RetryOrFail(@, FALSE)]
    /\ Processed(FALSE)
    /\ UNCHANGED <<lock, holdMaybe, post, stream, brokerHold, crashes>>

\* The image runtime is released once no interactive job is pending.
SchedAfter ==
    /\ sched.pc = "after"
    /\ lock = Free
    /\ IF PendingInteractive = {}
       THEN /\ lock' = "sched"
            /\ sched' = [sched EXCEPT !.pc = "resume_after"]
       ELSE /\ sched' = [sched EXCEPT !.pc = IF sched.retry THEN "sleep" ELSE "top"]
            /\ UNCHANGED lock
    /\ UNCHANGED <<jobs, holdMaybe, post, stream, brokerHold, crashes>>

\* time.sleep(retry): the job's own delay is over when it ends.
SchedWakes ==
    /\ sched.pc = "sleep"
    /\ jobs' = [jobs EXCEPT ![sched.job] = [@ EXCEPT !.delayed = FALSE]]
    /\ sched' = Top
    /\ UNCHANGED <<lock, holdMaybe, post, stream, brokerHold, crashes>>

\* updated_at, set in the future by a retry, is reached.
DelayElapses(i) ==
    /\ jobs[i].delayed
    /\ jobs' = [jobs EXCEPT ![i] = [@ EXCEPT !.delayed = FALSE]]
    /\ UNCHANGED <<lock, sched, holdMaybe, post, stream, brokerHold, crashes>>

-----------------------------------------------------------------------------
(* The environment *)

UnderWay ==
    (IF \E c \in Clients : post[c].pc = "handoff" THEN {"pause"} ELSE {})
    \cup (IF sched.pc \in {"resume", "resume_after"} THEN {"resume"} ELSE {})

\* The process dies and restarts on the same table; the broker lives on, and
\* a call that was under way may still reach it.
Crash ==
    /\ crashes < MaxCrashes
    /\ crashes' = crashes + 1
    /\ jobs' = [i \in Ids |-> Recover(jobs[i])]
    /\ lock' = Free
    /\ sched' = Top
    /\ holdMaybe' = TRUE
    /\ post' = [c \in Clients |->
                  IF post[c].pc \in {"idle", "done"} THEN post[c]
                  ELSE [post[c] EXCEPT !.pc = "done", !.reply = "gone"]]
    /\ queue' = [c \in Clients |-> <<>>]
    /\ UNCHANGED sent
    /\ \/ UNCHANGED brokerHold
       \/ \E kind \in UnderWay : BrokerFault(kind)

Next ==
    \/ \E c \in Clients, caller \in Callers, key \in Keys \cup {NoKey}, mode \in Modes :
         Admit(c, caller, key, mode) \/ Duplicate(c, caller, key, mode)
    \/ \E c \in Clients :
         \/ HandoffAnswered(c) \/ HandoffFails(c)
         \/ WaitEnds(c)
         \/ StreamTake(c) \/ StreamEnds(c) \/ ClientGone(c)
    \/ \E i \in Ids : Cancel(i) \/ DelayElapses(i)
    \/ SchedEnter \/ ResumeAnswered \/ ResumeFails \/ SchedPick
    \/ BackendChunk \/ BackendDone \/ InternalError
    \/ \E retryable \in BOOLEAN : BackendFails(retryable)
    \/ SchedAfter \/ SchedWakes
    \/ Crash

\* The worker thread keeps running, every call it or a handler makes ends
\* (urlopen has a timeout), clocks advance, and a broker that is asked again
\* and again to resume answers in the end.
Fairness ==
    /\ WF_vars(SchedEnter) /\ WF_vars(SchedAfter)
    /\ WF_vars(SchedPick) /\ WF_vars(SchedWakes)
    /\ WF_vars(ResumeAnswered \/ ResumeFails) /\ SF_vars(ResumeAnswered)
    /\ WF_vars(BackendDone \/ InternalError \/ \E r \in BOOLEAN : BackendFails(r))
    /\ \A c \in Clients :
         /\ WF_vars(HandoffAnswered(c) \/ HandoffFails(c))
         /\ WF_vars(WaitEnds(c))
         /\ WF_vars(StreamTake(c) \/ StreamEnds(c) \/ ClientGone(c))
    /\ \A i \in Ids : WF_vars(DelayElapses(i))

Spec == Init /\ [][Next]_vars
FairSpec == Spec /\ Fairness

-----------------------------------------------------------------------------
(* Properties *)

\* The shape of the table, of the threads' locals and of the broker's state.
TypeOK ==
    /\ jobs \in [Ids -> Job]
    /\ lock \in Clients \cup {"sched", Free}
    /\ sched \in SchedState
    /\ holdMaybe \in BOOLEAN
    /\ post \in [Clients -> PostState]
    /\ queue \in [Clients -> Seq(Nat)]
    /\ sent \in [Clients -> Seq(Nat)]
    /\ brokerHold \in BOOLEAN
    /\ crashes \in Nat

\* One job at a time reaches the backend, and the table and the worker agree
\* on which, through cancellations, failures and restarts: a row is "running"
\* exactly while the worker is inside _process_job with it.
WorkerOwnsRunning ==
    \A i \in Ids : jobs[i].status = "running" <=> (sched.pc = "run" /\ sched.job = i)

\* A caller told "Image runtime handoff failed before model execution" can
\* rely on it: that row never reaches the backend, then or later, though
\* cancels and duplicates of the same key go on around it.
RefusedNeverRuns ==
    \A c \in Clients : post[c].reply = "refused" =>
        /\ jobs[post[c].job].attempts = 0
        /\ jobs[post[c].job].status \in {"failed", "cancelled"}

\* No row is sent to the backend more often than ROUTER_MAX_ATTEMPTS, the
\* attempts a crash interrupted included.
AttemptsBounded ==
    \A i \in Ids : jobs[i].attempts <= MaxAttempts

\* One row per idempotency key and caller, however requests with that key
\* interleave with the job's execution, failure or a restart.
KeysUnique ==
    \A i, j \in Rows : /\ jobs[i].key # NoKey
                       /\ jobs[i].key = jobs[j].key
                       /\ jobs[i].caller = jobs[j].caller
                       => i = j

\* A DELETE accepted before the job ended is never followed by a completed
\* job: it wins against the response, a retry and a restart.
CancelHonoured ==
    \A i \in Ids : jobs[i].cancel => jobs[i].status # "complete"

\* While an interactive job that its handler has finished admitting is waiting
\* or running, the broker holds image generation back.  The lock carries this:
\* the worker cannot resume the image runtime between a row's insertion and
\* the answer to its hand-off.  A process that dies between the two breaks it:
\* the row is requeued and its hand-off is not repeated.
HoldCoversInteractive ==
    (ImageBroker /\ crashes = 0) =>
        \A i \in PendingInteractive :
            \/ ~Preempts(jobs[i].caller)
            \/ brokerHold
            \/ \E c \in Clients : post[c].pc = "handoff" /\ post[c].job = i

\* A stream that ends well carried the whole response of the attempt that
\* completed: the handler subscribes before the job can start, and drains the
\* queue after it has seen the terminal row.
StreamCarriesResult ==
    \A c \in Clients :
        post[c].mode = "stream" /\ post[c].reply = "result" =>
            LET s == sent[c]
                r == jobs[post[c].job].result
            IN  \E n \in 0..Len(s) : SubSeq(s, n + 1, Len(s)) = r

\* "Requeue accepted work": every job that was accepted ends, whatever happens.
EveryJobEnds ==
    \A i \in Ids : Pending(i) ~> (jobs[i].status \in Terminal)

\* Every job that was accepted ends, through failures, cancels and restarts;
\* the only exception is one that was cancelled before a restart.
JobEnds ==
    \A i \in Ids :
        Pending(i) ~> (jobs[i].status \in Terminal \/ (jobs[i].cancel /\ crashes > 0))

\* Image generation is let go again after the last interactive job, until the
\* process first dies.
HoldReleased == brokerHold ~> (~brokerHold \/ crashes > 0)

\* A row only moves forward: see JobPromise.
Promise == INSTANCE JobPromise WITH
    state <- [i \in Ids |-> jobs[i].status]
JobPromise == Promise!Spec
=============================================================================
