---------------------------- MODULE RouterProofs ----------------------------
(***************************************************************************)
(* Theorems about Router, for every number of handlers, rows, attempts,    *)
(* chunks and restarts and for every priority policy.                      *)
(***************************************************************************)
EXTENDS Router, SequenceTheorems, TLAPS

\* The row functions keep a row a row.
LEMMA RowTypes ==
    /\ \A row \in Job : /\ Expire(row) \in Job
                        /\ Start(row) \in Job
                        /\ CancelRow(row) \in Job
                        /\ FailPending(row) \in Job
                        /\ Recover(row) \in Job
                        /\ [row EXCEPT !.delayed = FALSE] \in Job
    /\ \A row \in Job, chunks \in Nat : Complete(row, chunks) \in Job
    /\ \A row \in Job : /\ RetryOrFail(row, TRUE) \in Job
                        /\ RetryOrFail(row, FALSE) \in Job
  <1> SUFFICES ASSUME NEW row \in Job, NEW chunks \in Nat
               PROVE  /\ Expire(row) \in Job
                      /\ Start(row) \in Job
                      /\ CancelRow(row) \in Job
                      /\ FailPending(row) \in Job
                      /\ Recover(row) \in Job
                      /\ [row EXCEPT !.delayed = FALSE] \in Job
                      /\ Complete(row, chunks) \in Job
                      /\ RetryOrFail(row, TRUE) \in Job
                      /\ RetryOrFail(row, FALSE) \in Job
    OBVIOUS
  <1> USE DEF Job, Statuses, Terminal
  <1>1. [k \in 1..chunks |-> row.attempts] \in Seq(Nat)
    OBVIOUS
  <1>2. row.attempts + 1 \in Nat
    OBVIOUS
  <1>3. Expire(row) \in Job  BY DEF Expire
  <1>4. Start(row) \in Job  BY <1>2 DEF Start
  <1>5. Complete(row, chunks) \in Job  BY <1>1 DEF Complete
  <1>6. RetryOrFail(row, TRUE) \in Job  BY DEF RetryOrFail
  <1>7. RetryOrFail(row, FALSE) \in Job  BY DEF RetryOrFail
  <1>8. CancelRow(row) \in Job  BY DEF CancelRow
  <1>9. FailPending(row) \in Job  BY DEF FailPending
  <1>10. Recover(row) \in Job  BY DEF Recover
  <1>11. [row EXCEPT !.delayed = FALSE] \in Job  OBVIOUS
  <1> QED BY <1>3, <1>4, <1>5, <1>6, <1>7, <1>8, <1>9, <1>10, <1>11

LEMMA InitType == Init => TypeOK
  <1> SUFFICES ASSUME Init PROVE TypeOK
    OBVIOUS
  <1>1. (CHOOSE c \in Callers : TRUE) \in Callers
    BY CallersAssumption
  <1>2. jobs \in [Ids -> Job]
    BY <1>1 DEF Init, Job, Statuses, Terminal
  <1>3. <<>> \in Seq(Nat)
    OBVIOUS
  <1>4. Idle \in PostState /\ Top \in SchedState
    BY DEF Idle, Top, PostState, SchedState, PostPcs, SchedPcs, Replies, AllModes
  <1> QED BY <1>2, <1>3, <1>4 DEF Init, TypeOK

\* A thread that is past its first step names a row.
JobsNamed ==
    /\ sched.pc \in {"run", "after", "resume_after", "sleep"} => sched.job \in Ids
    /\ \A c \in Clients : \/ post[c].job \in Ids
                          \/ post[c].pc = "idle" /\ post[c].reply = "none"

\* The threads' locals keep their shape.
LEMMA FollowedType ==
    ASSUME NEW i \in Ids, NEW mode \in AllModes
    PROVE  Followed(i, mode) \in PostState /\ Followed(i, mode).job = i
  BY ChoicesAssumption DEF Followed, PostState, AllModes, PostPcs, Replies

LEMMA PostTypes ==
    \A i \in Ids, mode \in AllModes, pc \in PostPcs, reply \in Replies :
        [pc |-> pc, job |-> i, mode |-> mode, reply |-> reply] \in PostState
  BY DEF PostState

LEMMA SchedTypes ==
    /\ Top \in SchedState
    /\ \A pc \in SchedPcs : [Top EXCEPT !.pc = pc] \in SchedState
    /\ \A i \in Ids : [Top EXCEPT !.pc = "run", !.job = i] \in SchedState
    /\ \A st \in SchedState, pc \in SchedPcs : [st EXCEPT !.pc = pc] \in SchedState
    /\ \A st \in SchedState, pc \in SchedPcs :
         /\ [st EXCEPT !.retry = TRUE, !.pc = pc] \in SchedState
         /\ [st EXCEPT !.retry = FALSE, !.pc = pc] \in SchedState
    /\ \A st \in SchedState : [st EXCEPT !.chunks = @ + 1] \in SchedState
  <1> USE DEF SchedState
  <1>1. \A st \in SchedState : st.chunks + 1 \in Nat
    OBVIOUS
  <1>2. Top \in SchedState
    BY DEF Top, SchedPcs
  <1> QED BY <1>1, <1>2 DEF SchedPcs

LEMMA NextType == TypeOK /\ JobsNamed /\ [Next]_vars => TypeOK'
  <1> SUFFICES ASSUME TypeOK, JobsNamed, [Next]_vars PROVE TypeOK'
    OBVIOUS
  <1> USE ChoicesAssumption DEF TypeOK, JobsNamed, stream
  <1>e. <<>> \in Seq(Nat)
    OBVIOUS
  <1>f. ASSUME NEW c \in Clients, NEW i \in Ids, NEW mode \in AllModes, Follow(c, i, mode)
        PROVE  /\ post' \in [Clients -> PostState]
               /\ queue' \in [Clients -> Seq(Nat)]
               /\ sent' \in [Clients -> Seq(Nat)]
    BY <1>f, <1>e, FollowedType DEF Follow
  <1>a. ASSUME NEW c \in Clients, NEW reply \in Replies, Answer(c, reply)
        PROVE  post' \in [Clients -> PostState]
    <2>1. [post[c] EXCEPT !.pc = "done", !.reply = reply] \in PostState
      BY DEF PostState, PostPcs
    <2> QED BY <1>a, <2>1 DEF Answer
  <1>b. ASSUME NEW kind \in {"pause", "resume"}, BrokerFault(kind)
        PROVE  brokerHold' \in BOOLEAN
    BY <1>b DEF BrokerFault
  <1>r. ASSUME AfterResume
        PROVE  /\ lock' \in Clients \cup {"sched", Free}
               /\ sched' \in SchedState
    BY <1>r, SchedTypes DEF AfterResume, SchedPcs
  <1>p. ASSUME NEW retry \in BOOLEAN, Processed(retry)
        PROVE  sched' \in SchedState
    <2>1. CASE retry = TRUE
      BY <1>p, <2>1, SchedTypes DEF Processed, SchedPcs
    <2>2. CASE retry = FALSE
      BY <1>p, <2>2, SchedTypes DEF Processed, SchedPcs
    <2> QED BY <2>1, <2>2
  <1>1. ASSUME NEW c \in Clients, NEW caller \in Callers, NEW key \in Keys \cup {NoKey},
               NEW mode \in Modes, Admit(c, caller, key, mode)
        PROVE  TypeOK'
    <2>1. Row(caller, key) \in Job
      BY DEF Row, Job, Statuses
    <2>2. mode \in AllModes
      OBVIOUS
    <2>3. \A i \in Ids : [pc |-> "handoff", job |-> i, mode |-> mode, reply |-> "none"] \in PostState
      BY <2>2, PostTypes DEF PostPcs, Replies
    <2>4. CASE Preempts(caller)
      BY <1>1, <2>1, <2>3, <2>4 DEF Admit
    <2>5. CASE ~Preempts(caller)
      BY <1>1, <1>f, <2>1, <2>2, <2>5 DEF Admit
    <2> QED BY <2>4, <2>5
  <1>2. ASSUME NEW c \in Clients, NEW caller \in Callers, NEW key \in Keys \cup {NoKey},
               NEW mode \in Modes, Duplicate(c, caller, key, mode)
        PROVE  TypeOK'
    <2>1. PICK i \in Ids : IF mode = "stream"
         THEN /\ post' = [post EXCEPT ![c] =
                   [pc |-> "done", job |-> i, mode |-> mode,
                    reply |-> IF jobs[i].status = "complete" THEN "result" ELSE "handle"]]
              /\ queue' = [queue EXCEPT ![c] = <<>>]
              /\ sent' = [sent EXCEPT ![c] = jobs[i].result]
         ELSE Follow(c, i, mode)
      BY <1>2 DEF Duplicate, Existing, Rows
    <2>2. jobs[i].result \in Seq(Nat)
      BY DEF Job
    <2>3. mode \in AllModes
      OBVIOUS
    <2>4. CASE mode = "stream"
      <3>2. \A reply \in {"result", "handle"} :
              [pc |-> "done", job |-> i, mode |-> mode, reply |-> reply] \in PostState
        BY <2>3, PostTypes DEF PostPcs, Replies
      <3>1. post' \in [Clients -> PostState]
        BY <2>1, <2>4, <3>2
      <3>3. queue' \in [Clients -> Seq(Nat)] /\ sent' \in [Clients -> Seq(Nat)]
        BY <1>e, <2>1, <2>2, <2>4
      <3>4. UNCHANGED <<jobs, lock, sched, holdMaybe, brokerHold, crashes>>
        BY <1>2 DEF Duplicate
      <3> QED BY <3>1, <3>3, <3>4
    <2>5. CASE mode # "stream"
      BY <1>2, <1>f, <2>1, <2>3, <2>5 DEF Duplicate
    <2> QED BY <2>4, <2>5
  <1>3. ASSUME NEW c \in Clients, HandoffAnswered(c)
        PROVE  TypeOK'
    <2>1. post[c].job \in Ids /\ post[c].mode \in AllModes
      BY <1>3 DEF HandoffAnswered, PostState
    <2> QED BY <1>3, <1>f, <2>1 DEF HandoffAnswered, NoteHold
  <1>4. ASSUME NEW c \in Clients, HandoffFails(c)
        PROVE  TypeOK'
    BY <1>4, <1>a, <1>b, RowTypes DEF HandoffFails, Replies
  <1>5. ASSUME NEW c \in Clients, WaitEnds(c)
        PROVE  TypeOK'
    BY <1>5, <1>a DEF WaitEnds, Replies
  <1>6. ASSUME NEW c \in Clients, StreamTake(c) \/ StreamEnds(c) \/ ClientGone(c)
        PROVE  TypeOK'
    <2>1. CASE StreamTake(c)
      BY <2>1 DEF StreamTake
    <2>2. CASE StreamEnds(c)
      BY <2>2, <1>a DEF StreamEnds, Drained, Replies
    <2>3. CASE ClientGone(c)
      BY <2>3, <1>a DEF ClientGone, Replies
    <2> QED BY <1>6, <2>1, <2>2, <2>3
  <1>7. ASSUME NEW i \in Ids, Cancel(i)
        PROVE  TypeOK'
    BY <1>7, RowTypes DEF Cancel
  <1>8. ASSUME NEW i \in Ids, DelayElapses(i)
        PROVE  TypeOK'
    BY <1>8, RowTypes DEF DelayElapses
  <1>9. CASE SchedEnter
    BY <1>9, SchedTypes DEF SchedEnter, SchedPcs
  <1>10. CASE ResumeAnswered
    BY <1>10, <1>r DEF ResumeAnswered
  <1>11. CASE ResumeFails
    BY <1>11, <1>r, <1>b DEF ResumeFails
  <1>12. CASE SchedPick
    <2> DEFINE expired == [i \in Ids |-> Expire(jobs[i])]
    <2>1. expired \in [Ids -> Job]
      BY RowTypes
    <2>2. CASE jobs' = expired /\ sched' = Top
      BY <1>12, <2>1, <2>2, SchedTypes DEF SchedPick
    <2>3. ASSUME NEW i \in Ids, jobs' = [expired EXCEPT ![i] = Start(@)],
                 sched' = [Top EXCEPT !.pc = "run", !.job = i]
          PROVE  TypeOK'
      <3>1. jobs' \in [Ids -> Job]
        BY <2>1, <2>3, RowTypes
      <3> QED BY <1>12, <2>3, <3>1, SchedTypes DEF SchedPick
    <2> QED BY <1>12, <2>2, <2>3 DEF SchedPick
  <1>13. CASE BackendChunk
    <2>1. \A i \in Ids : jobs[i].attempts \in Nat
      BY DEF Job
    <2>2. sched' \in SchedState
      BY <1>13, SchedTypes DEF BackendChunk
    <2> QED BY <1>13, <2>1, <2>2 DEF BackendChunk
  <1>14. CASE BackendDone
    <2>1. sched.chunks \in Nat
      BY DEF SchedState
    <2> QED BY <1>14, <2>1, <1>p, RowTypes DEF BackendDone
  <1>15. CASE InternalError
    BY <1>15, <1>p, RowTypes DEF InternalError
  <1>16. ASSUME NEW retryable \in BOOLEAN, BackendFails(retryable)
         PROVE  TypeOK'
    <2>1. sched' \in SchedState
      BY <1>16, <1>p DEF BackendFails
    <2> QED BY <1>16, <2>1, RowTypes DEF BackendFails
  <1>17. CASE SchedAfter
    BY <1>17, SchedTypes DEF SchedAfter, SchedPcs
  <1>18. CASE SchedWakes
    BY <1>18, RowTypes, SchedTypes DEF SchedWakes
  <1>19. CASE Crash
    <2>1. \A c \in Clients : [post[c] EXCEPT !.pc = "done", !.reply = "gone"] \in PostState
      BY DEF PostState, PostPcs, Replies
    <2>2. brokerHold' \in BOOLEAN
      BY <1>19, <1>b DEF Crash, UnderWay
    <2>3. jobs' \in [Ids -> Job]
      BY <1>19, RowTypes DEF Crash
    <2>4. post' \in [Clients -> PostState]
      BY <1>19, <2>1 DEF Crash
    <2>5. crashes' = crashes + 1
      BY <1>19 DEF Crash
    <2>6. crashes' \in Nat
      BY <2>5
    <2>7. queue' = [c \in Clients |-> <<>>]
      BY <1>19 DEF Crash
    <2>8. queue' \in [Clients -> Seq(Nat)]
      BY <1>e, <2>7
    <2> QED BY <1>19, <2>2, <2>3, <2>4, <2>6, <2>8, SchedTypes DEF Crash
  <1>20. CASE UNCHANGED vars
    BY <1>20 DEF vars
  <1> QED BY <1>1, <1>2, <1>3, <1>4, <1>5, <1>6, <1>7, <1>8, <1>9, <1>10, <1>11,
             <1>12, <1>13, <1>14, <1>15, <1>16, <1>17, <1>18, <1>19, <1>20 DEF Next

-----------------------------------------------------------------------------
\* The admission lock is held by the handler that hands off, or by the worker
\* between its idle check and next_job and around the resume that follows a job.
Locking ==
    /\ \A c \in Clients : post[c].pc = "handoff" <=> lock = c
    /\ sched.pc \in {"resume", "pick", "resume_after"} <=> lock = "sched"

LEMMA InitNamed == Init => JobsNamed /\ Locking
  BY ChoicesAssumption DEF Init, JobsNamed, Locking, Idle, Top

LEMMA NextNamed == TypeOK /\ JobsNamed /\ Locking /\ [Next]_vars => JobsNamed' /\ Locking'
  <1> SUFFICES ASSUME TypeOK, JobsNamed, Locking, [Next]_vars PROVE JobsNamed' /\ Locking'
    OBVIOUS
  <1> USE ChoicesAssumption DEF JobsNamed, Locking
  <1>t. /\ post \in [Clients -> PostState]
        /\ sched \in SchedState
        /\ \A st \in PostState : st = [pc |-> st.pc, job |-> st.job, mode |-> st.mode, reply |-> st.reply]
    BY DEF TypeOK, PostState
  <1>f. ASSUME NEW c \in Clients, NEW i \in Ids, NEW mode \in AllModes, Follow(c, i, mode)
        PROVE  /\ post'[c].pc \notin {"idle", "handoff"} /\ post'[c].job = i
               /\ \A d \in Clients \ {c} : post'[d] = post[d]
    <2>1. post'[c] = Followed(i, mode)
      BY <1>f, <1>t DEF Follow
    <2>2. Followed(i, mode).pc \notin {"idle", "handoff"}
      BY DEF Followed, AllModes
    <2> QED BY <1>f, <1>t, <2>1, <2>2, FollowedType DEF Follow
  <1>a. ASSUME NEW c \in Clients, NEW reply \in Replies, Answer(c, reply), post[c].pc # "idle"
        PROVE  /\ post'[c].pc = "done" /\ post'[c].job = post[c].job
               /\ \A d \in Clients \ {c} : post'[d] = post[d]
    BY <1>a, <1>t DEF Answer, PostState
  <1>1. ASSUME NEW c \in Clients, NEW caller \in Callers, NEW key \in Keys \cup {NoKey},
               NEW mode \in Modes, Admit(c, caller, key, mode)
        PROVE  JobsNamed' /\ Locking'
    <2>1. mode \in AllModes
      OBVIOUS
    <2>2. CASE Preempts(caller)
      BY <1>1, <1>t, <2>2 DEF Admit
    <2>3. CASE ~Preempts(caller)
      BY <1>1, <1>f, <2>1, <2>3 DEF Admit
    <2> QED BY <2>2, <2>3
  <1>2. ASSUME NEW c \in Clients, NEW caller \in Callers, NEW key \in Keys \cup {NoKey},
               NEW mode \in Modes, Duplicate(c, caller, key, mode)
        PROVE  JobsNamed' /\ Locking'
    <2>1. mode \in AllModes
      OBVIOUS
    <2>2. /\ post'[c].pc \notin {"idle", "handoff"} /\ post'[c].job \in Ids
          /\ \A d \in Clients \ {c} : post'[d] = post[d]
      BY <1>2, <1>f, <1>t, <2>1 DEF Duplicate, Existing, Rows
    <2> QED BY <1>2, <2>2 DEF Duplicate
  <1>3. ASSUME NEW c \in Clients, HandoffAnswered(c)
        PROVE  JobsNamed' /\ Locking'
    <2>1. post[c].job \in Ids /\ post[c].mode \in AllModes
      BY <1>3, <1>t DEF HandoffAnswered, PostState
    <2> QED BY <1>3, <1>f, <2>1 DEF HandoffAnswered
  <1>4. ASSUME NEW c \in Clients, HandoffFails(c)
        PROVE  JobsNamed' /\ Locking'
    BY <1>4, <1>a DEF HandoffFails, Replies
  <1>5. ASSUME NEW c \in Clients, WaitEnds(c)
        PROVE  JobsNamed' /\ Locking'
    BY <1>5, <1>a DEF WaitEnds, Replies
  <1>6. ASSUME NEW c \in Clients, StreamTake(c) \/ StreamEnds(c) \/ ClientGone(c)
        PROVE  JobsNamed' /\ Locking'
    <2>1. CASE StreamTake(c)
      BY <2>1 DEF StreamTake
    <2>2. CASE StreamEnds(c)
      BY <2>2, <1>a DEF StreamEnds, Replies
    <2>3. CASE ClientGone(c)
      BY <2>3, <1>a DEF ClientGone, Replies
    <2> QED BY <1>6, <2>1, <2>2, <2>3
  <1>7. ASSUME NEW i \in Ids, Cancel(i) \/ DelayElapses(i)
        PROVE  JobsNamed' /\ Locking'
    BY <1>7 DEF Cancel, DelayElapses
  <1>8. CASE SchedEnter
    BY <1>8 DEF SchedEnter, Top
  <1>9. CASE ResumeAnswered \/ ResumeFails
    <2>1. /\ sched.pc \in {"resume", "resume_after"} /\ AfterResume /\ UNCHANGED post
      BY <1>9 DEF ResumeAnswered, ResumeFails
    <2>2. lock = "sched"
      BY <2>1
    <2>3. CASE sched.pc = "resume"
      BY <1>t, <2>1, <2>2, <2>3 DEF AfterResume, SchedState
    <2>4. CASE sched.pc = "resume_after"
      BY <1>t, <2>1, <2>2, <2>4 DEF AfterResume, SchedState
    <2> QED BY <2>1, <2>3, <2>4
  <1>10. CASE SchedPick
    <2>1. lock = "sched" /\ lock' = Free /\ UNCHANGED post
      BY <1>10 DEF SchedPick
    <2>2. CASE sched' = Top
      BY <2>1, <2>2 DEF Top
    <2>3. ASSUME NEW i \in Ids, sched' = [Top EXCEPT !.pc = "run", !.job = i]
          PROVE  JobsNamed' /\ Locking'
      BY <2>1, <2>3 DEF Top
    <2> QED BY <1>10, <2>2, <2>3 DEF SchedPick
  <1>11. CASE BackendChunk
    BY <1>11, <1>t DEF BackendChunk, SchedState
  <1>12. CASE BackendDone \/ InternalError \/ \E r \in BOOLEAN : BackendFails(r)
    <2>1. /\ sched.pc = "run"
          /\ sched'.pc \in {"after", "sleep", "top"} /\ sched'.job = sched.job
          /\ UNCHANGED <<lock, post>>
      BY <1>12, <1>t DEF BackendDone, InternalError, BackendFails, Processed, SchedState
    <2> QED BY <2>1
  <1>13. CASE SchedAfter
    BY <1>13, <1>t DEF SchedAfter, SchedState
  <1>14. CASE SchedWakes
    BY <1>14 DEF SchedWakes, Top
  <1>15. CASE Crash
    <2>1. \A c \in Clients : /\ post'[c].pc \in {"idle", "done"}
                             /\ post[c].pc = "idle" => post'[c] = post[c]
                             /\ post'[c].job = post[c].job
      BY <1>15, <1>t DEF Crash, PostState
    <2> QED BY <1>15, <2>1 DEF Crash, Top
  <1>16. CASE UNCHANGED vars
    BY <1>16 DEF vars
  <1> QED BY <1>1, <1>2, <1>3, <1>4, <1>5, <1>6, <1>7, <1>8, <1>9, <1>10, <1>11,
             <1>12, <1>13, <1>14, <1>15, <1>16 DEF Next

-----------------------------------------------------------------------------
\* All that a step can do to one row.
RowStep(i) ==
    \/ jobs'[i] = jobs[i]
    \/ /\ jobs[i].status = "absent"
       /\ lock = Free
       /\ \A j \in Ids \ {i} : jobs'[j] = jobs[j]
       /\ \E caller \in Callers, key \in Keys \cup {NoKey} :
            /\ Existing(caller, key) = {}
            /\ jobs'[i] = Row(caller, key)
            /\ Preempts(caller) =>
                 \E c \in Clients : post'[c].pc = "handoff" /\ post'[c].job = i
    \/ /\ jobs[i].status = "queued"
       /\ \/ jobs'[i] = [jobs[i] EXCEPT !.status = "failed"]
          \/ /\ jobs[i].attempts < MaxAttempts /\ ~jobs[i].cancel /\ sched.pc = "pick"
             /\ jobs'[i] = Start(jobs[i])
    \/ /\ jobs[i].status = "running"
       /\ \/ jobs'[i] = Complete(jobs[i], sched.chunks)
          \/ jobs'[i] = RetryOrFail(jobs[i], TRUE)
          \/ jobs'[i] = RetryOrFail(jobs[i], FALSE)
          \/ jobs'[i] = Recover(jobs[i])
    \/ Pending(i) /\ jobs'[i] = CancelRow(jobs[i])
    \/ jobs'[i] = [jobs[i] EXCEPT !.delayed = FALSE]

\* The worker and the table agree on the running row, so what the worker
\* writes at the end of an attempt it writes to a running row.
LEMMA RowSteps ==
    TypeOK /\ JobsNamed /\ WorkerOwnsRunning /\ [Next]_vars => \A i \in Ids : RowStep(i)
  <1> SUFFICES ASSUME TypeOK, JobsNamed, WorkerOwnsRunning, [Next]_vars, NEW i \in Ids
               PROVE  RowStep(i)
    OBVIOUS
  <1> USE DEF RowStep
  <1>t. jobs \in [Ids -> Job] /\ jobs[i] \in Job /\ post \in [Clients -> PostState]
    BY DEF TypeOK
  <1>u. ASSUME UNCHANGED jobs PROVE RowStep(i)
    BY <1>u
  <1>1. ASSUME NEW c \in Clients, NEW caller \in Callers, NEW key \in Keys \cup {NoKey},
               NEW mode \in Modes, Admit(c, caller, key, mode)
        PROVE  RowStep(i)
    <2>1. PICK j \in Ids :
            /\ IsNext(j)
            /\ jobs' = [jobs EXCEPT ![j] = Row(caller, key)]
            /\ Preempts(caller) => post' = [post EXCEPT ![c] = [pc |-> "handoff", job |-> j,
                                                       mode |-> mode, reply |-> "none"]]
      BY <1>1 DEF Admit
    <2>2. jobs[j].status = "absent" /\ lock = Free /\ Existing(caller, key) = {}
      BY <1>1, <2>1 DEF IsNext, Ids, Admit
    <2>3. CASE i = j
      <3>1. jobs'[i] = Row(caller, key) /\ \A k \in Ids \ {i} : jobs'[k] = jobs[k]
        BY <1>t, <2>1, <2>3
      <3>2. Preempts(caller) => post'[c].pc = "handoff" /\ post'[c].job = i
        BY <1>t, <2>1, <2>3
      <3> QED BY <2>2, <2>3, <3>1, <3>2
    <2>4. CASE i # j
      BY <1>t, <2>1, <2>4
    <2> QED BY <2>3, <2>4
  <1>2. ASSUME NEW c \in Clients, NEW caller \in Callers, NEW key \in Keys \cup {NoKey},
               NEW mode \in Modes, Duplicate(c, caller, key, mode)
        PROVE  RowStep(i)
    BY <1>2, <1>u DEF Duplicate
  <1>3. ASSUME NEW c \in Clients, HandoffFails(c)
        PROVE  RowStep(i)
    BY <1>3, <1>t DEF HandoffFails, FailPending
  <1>4. ASSUME NEW c \in Clients,
               \/ HandoffAnswered(c) \/ WaitEnds(c)
               \/ StreamTake(c) \/ StreamEnds(c) \/ ClientGone(c)
        PROVE  RowStep(i)
    BY <1>4, <1>u DEF HandoffAnswered, WaitEnds, StreamTake, StreamEnds, ClientGone
  <1>5. ASSUME NEW j \in Ids, Cancel(j) \/ DelayElapses(j)
        PROVE  RowStep(i)
    BY <1>5, <1>t DEF Cancel, DelayElapses
  <1>6. CASE SchedPick
    <2> DEFINE expired == [k \in Ids |-> Expire(jobs[k])]
    <2>1. \/ expired[i] = jobs[i] /\ ~(jobs[i].status = "queued" /\ jobs[i].attempts >= MaxAttempts)
          \/ jobs[i].status = "queued" /\ expired[i] = [jobs[i] EXCEPT !.status = "failed"]
      BY DEF Expire
    <2>s. sched.pc = "pick"
      BY <1>6 DEF SchedPick
    <2>2. CASE jobs' = expired
      BY <2>1, <2>2
    <2>3. ASSUME NEW j \in Ids, Startable(expired[j]), jobs' = [expired EXCEPT ![j] = Start(@)]
          PROVE  RowStep(i)
      <3>1. CASE i # j
        BY <2>1, <2>3, <3>1
      <3>2. CASE i = j
        <4>1. expired[i] = jobs[i] /\ jobs[i].status = "queued" /\ ~jobs[i].cancel
          BY <1>t, <2>1, <2>3, <3>2 DEF Startable, Job
        <4>2. jobs[i].attempts < MaxAttempts
          BY <1>t, <2>1, <4>1, BoundsAssumption DEF Job
        <4>3. jobs'[i] = Start(jobs[i])
          BY <1>t, <2>3, <3>2, <4>1
        <4> QED BY <2>s, <4>1, <4>2, <4>3
      <3> QED BY <3>1, <3>2
    <2> QED BY <1>6, <2>2, <2>3 DEF SchedPick
  <1>7. CASE BackendDone \/ InternalError \/ \E r \in BOOLEAN : BackendFails(r)
    <2>1. jobs[sched.job].status = "running"
      BY <1>7 DEF BackendDone, InternalError, BackendFails, WorkerOwnsRunning, JobsNamed
    <2> QED BY <1>7, <1>t, <2>1 DEF BackendDone, InternalError, BackendFails
  <1>8. CASE SchedWakes
    BY <1>8, <1>t DEF SchedWakes
  <1>9. CASE Crash
    BY <1>9 DEF Crash, Recover
  <1>10. CASE SchedEnter \/ ResumeAnswered \/ ResumeFails \/ BackendChunk \/ SchedAfter
    BY <1>10, <1>u DEF SchedEnter, ResumeAnswered, ResumeFails, BackendChunk, SchedAfter
  <1>11. CASE UNCHANGED vars
    BY <1>11, <1>u DEF vars
  <1> QED BY <1>1, <1>2, <1>3, <1>4, <1>5, <1>6, <1>7, <1>8, <1>9, <1>10, <1>11 DEF Next

LEMMA NextOwns ==
    TypeOK /\ JobsNamed /\ Locking /\ WorkerOwnsRunning /\ [Next]_vars => WorkerOwnsRunning'
  <1> SUFFICES ASSUME TypeOK, JobsNamed, Locking, WorkerOwnsRunning, [Next]_vars
               PROVE  WorkerOwnsRunning'
    OBVIOUS
  <1> USE DEF WorkerOwnsRunning
  <1>t. jobs \in [Ids -> Job] /\ sched \in SchedState
    BY DEF TypeOK
  <1>q. ASSUME UNCHANGED sched, NEW j \in Ids, NEW row, row.status # "running",
               jobs[j].status # "running", jobs' = [jobs EXCEPT ![j] = row]
        PROVE  WorkerOwnsRunning'
    BY <1>q, <1>t
  <1>1. ASSUME NEW c \in Clients, NEW caller \in Callers, NEW key \in Keys \cup {NoKey},
               NEW mode \in Modes, Admit(c, caller, key, mode)
        PROVE  WorkerOwnsRunning'
    <2>1. PICK j \in Ids : IsNext(j) /\ jobs' = [jobs EXCEPT ![j] = Row(caller, key)]
      BY <1>1 DEF Admit
    <2>2. jobs[j].status = "absent"
      BY <2>1 DEF IsNext, Ids
    <2> QED BY <1>1, <1>q, <2>1, <2>2 DEF Admit, Row
  <1>2. ASSUME NEW c \in Clients, NEW caller \in Callers, NEW key \in Keys \cup {NoKey},
               NEW mode \in Modes, Duplicate(c, caller, key, mode)
        PROVE  WorkerOwnsRunning'
    BY <1>2 DEF Duplicate
  <1>3. ASSUME NEW c \in Clients, HandoffFails(c)
        PROVE  WorkerOwnsRunning'
    <2>1. post[c].job \in Ids /\ UNCHANGED sched
      BY <1>3 DEF HandoffFails, JobsNamed
    <2>2. jobs' = [jobs EXCEPT ![post[c].job] = FailPending(@)]
      BY <1>3 DEF HandoffFails
    <2> QED BY <1>t, <2>1, <2>2 DEF FailPending, Job
  <1>4. ASSUME NEW c \in Clients,
               \/ HandoffAnswered(c) \/ WaitEnds(c)
               \/ StreamTake(c) \/ StreamEnds(c) \/ ClientGone(c)
        PROVE  WorkerOwnsRunning'
    BY <1>4 DEF HandoffAnswered, WaitEnds, StreamTake, StreamEnds, ClientGone
  <1>5. ASSUME NEW j \in Ids, Cancel(j) \/ DelayElapses(j)
        PROVE  WorkerOwnsRunning'
    BY <1>5, <1>t DEF Cancel, DelayElapses, CancelRow, Job
  <1>6. CASE SchedPick
    <2> DEFINE expired == [k \in Ids |-> Expire(jobs[k])]
    <2>1. \A i \in Ids : expired[i].status # "running"
      <3>1. \A i \in Ids : jobs[i] \in Job /\ jobs[i].status # "running"
        BY <1>6, <1>t DEF SchedPick
      <3>2. \A row \in Job : row.status # "running" => Expire(row).status # "running"
        BY DEF Expire, Job
      <3> QED BY <3>1, <3>2
    <2>2. CASE jobs' = expired /\ sched' = Top
      BY <2>1, <2>2 DEF Top
    <2>3. ASSUME NEW j \in Ids, jobs' = [expired EXCEPT ![j] = Start(@)],
                 sched' = [Top EXCEPT !.pc = "run", !.job = j]
          PROVE  WorkerOwnsRunning'
      <3>1. expired \in [Ids -> Job]
        BY <1>t, RowTypes
      <3>2. jobs'[j].status = "running" /\ sched'.pc = "run" /\ sched'.job = j
        <4>1. Start(expired[j]).status = "running"
          BY <3>1 DEF Start, Job
        <4>2. jobs'[j] = Start(expired[j])
          BY <2>3, <3>1
        <4> QED BY <2>3, <4>1, <4>2 DEF Top
      <3>3. \A i \in Ids \ {j} : jobs'[i] = expired[i]
        BY <2>3, <3>1
      <3> QED BY <2>1, <3>2, <3>3
    <2> QED BY <1>6, <2>2, <2>3 DEF SchedPick
  <1>7. CASE BackendDone \/ InternalError \/ \E r \in BOOLEAN : BackendFails(r)
    <2>1. /\ sched.pc = "run" /\ sched.job \in Ids /\ sched'.pc # "run"
          /\ \E row \in {Complete(jobs[sched.job], sched.chunks),
                         RetryOrFail(jobs[sched.job], TRUE),
                         RetryOrFail(jobs[sched.job], FALSE)} :
                jobs' = [jobs EXCEPT ![sched.job] = row]
      BY <1>7, <1>t DEF BackendDone, InternalError, BackendFails, JobsNamed, Processed, SchedState
    <2>2. jobs[sched.job] \in Job /\ jobs[sched.job].status = "running"
      BY <1>t, <2>1
    <2>3. \A row \in {Complete(jobs[sched.job], sched.chunks),
                      RetryOrFail(jobs[sched.job], TRUE),
                      RetryOrFail(jobs[sched.job], FALSE)} : row.status # "running"
      BY <2>2 DEF Complete, RetryOrFail, Job
    <2> QED BY <1>t, <2>1, <2>3
  <1>8. CASE SchedWakes
    <2>1. jobs[sched.job].status # "running" /\ sched.job \in Ids
      BY <1>8 DEF SchedWakes, JobsNamed
    <2> QED BY <1>8, <1>t, <2>1 DEF SchedWakes, Top, Job
  <1>9. CASE Crash
    <2>1. \A i \in Ids : jobs'[i].status # "running"
      BY <1>9, <1>t DEF Crash, Recover, Job
    <2> QED BY <1>9, <2>1 DEF Crash, Top
  <1>10. CASE SchedEnter \/ ResumeAnswered \/ ResumeFails \/ BackendChunk \/ SchedAfter
    <2>1. /\ UNCHANGED jobs
          /\ sched'.pc = "run" <=> sched.pc = "run"
          /\ sched.pc = "run" => sched'.job = sched.job
      BY <1>10, <1>t DEF SchedEnter, ResumeAnswered, ResumeFails, BackendChunk, SchedAfter,
                         AfterResume, Top, SchedState
    <2> QED BY <2>1
  <1>11. CASE UNCHANGED vars
    BY <1>11 DEF vars
  <1> QED BY <1>1, <1>2, <1>3, <1>4, <1>5, <1>6, <1>7, <1>8, <1>9, <1>10, <1>11 DEF Next

-----------------------------------------------------------------------------
\* A row that is being handed off has not run, and waits or was cancelled.
HandoffFresh ==
    \A c \in Clients : post[c].pc = "handoff" =>
        /\ jobs[post[c].job].attempts = 0
        /\ jobs[post[c].job].status \in {"queued", "cancelled", "failed"}

\* While the worker resumes the image runtime no interactive job is pending.
ResumeQuiet == sched.pc \in {"resume", "resume_after"} => PendingInteractive = {}

LEMMA NextAttempts ==
    TypeOK /\ AttemptsBounded /\ (\A i \in Ids : RowStep(i)) => AttemptsBounded'
  <1> SUFFICES ASSUME TypeOK, AttemptsBounded, NEW i \in Ids, RowStep(i)
               PROVE  jobs'[i].attempts <= MaxAttempts
    BY DEF AttemptsBounded
  <1>1. jobs[i] \in Job /\ jobs[i].attempts <= MaxAttempts /\ jobs[i].attempts \in Nat
    BY DEF TypeOK, AttemptsBounded, Job
  <1> DEFINE Within(row) == row.attempts <= MaxAttempts
  <1>2. Within(jobs[i]) /\ Within([jobs[i] EXCEPT !.delayed = FALSE])
        /\ Within([jobs[i] EXCEPT !.status = "failed"])
    BY <1>1 DEF Job
  <1>3. \A caller \in Callers, key \in Keys \cup {NoKey} : Within(Row(caller, key))
    BY BoundsAssumption DEF Row
  <1>4. jobs[i].attempts < MaxAttempts => Within(Start(jobs[i]))
    BY <1>1, BoundsAssumption DEF Start, Job
  <1>5. Within(Complete(jobs[i], sched.chunks))
    BY <1>1 DEF Complete, Job
  <1>6. Within(RetryOrFail(jobs[i], TRUE)) /\ Within(RetryOrFail(jobs[i], FALSE))
    BY <1>1 DEF RetryOrFail, Job
  <1>7. Within(Recover(jobs[i])) /\ Within(CancelRow(jobs[i]))
    BY <1>1 DEF Recover, CancelRow, Job
  <1>8. Within(jobs'[i])
    BY <1>2, <1>3, <1>4, <1>5, <1>6, <1>7 DEF RowStep
  <1> QED BY <1>8

LEMMA NextCancel ==
    TypeOK /\ CancelHonoured /\ (\A i \in Ids : RowStep(i)) => CancelHonoured'
  <1> SUFFICES ASSUME TypeOK, CancelHonoured, NEW i \in Ids, RowStep(i)
               PROVE  jobs'[i].cancel => jobs'[i].status # "complete"
    BY DEF CancelHonoured
  <1>1. jobs[i] \in Job /\ (jobs[i].cancel => jobs[i].status # "complete")
    BY DEF TypeOK, CancelHonoured
  <1> DEFINE Honours(row) == row.cancel => row.status # "complete"
  <1>2. Honours(jobs[i]) /\ Honours([jobs[i] EXCEPT !.delayed = FALSE])
        /\ Honours([jobs[i] EXCEPT !.status = "failed"])
    BY <1>1 DEF Job
  <1>3. \A caller \in Callers, key \in Keys \cup {NoKey} : Honours(Row(caller, key))
    BY DEF Row
  <1>4. Honours(Start(jobs[i]))
    BY <1>1 DEF Start, Job
  <1>5. Honours(Complete(jobs[i], sched.chunks))
    BY <1>1 DEF Complete, Job
  <1>6. Honours(RetryOrFail(jobs[i], TRUE)) /\ Honours(RetryOrFail(jobs[i], FALSE))
    BY <1>1 DEF RetryOrFail, Job
  <1>7. Honours(Recover(jobs[i])) /\ (Pending(i) => Honours(CancelRow(jobs[i])))
    BY <1>1 DEF Recover, CancelRow, Pending, Job
  <1>8. Honours(jobs'[i])
    BY <1>2, <1>3, <1>4, <1>5, <1>6, <1>7 DEF RowStep
  <1> QED BY <1>8

\* A row that ended keeps its outcome, its attempts and its response.
LEMMA EndedStays ==
    ASSUME TypeOK, NEW i \in Ids, RowStep(i), jobs[i].status \in Terminal
    PROVE  /\ jobs'[i].status = jobs[i].status
           /\ jobs'[i].attempts = jobs[i].attempts
           /\ jobs'[i].result = jobs[i].result
  <1>1. jobs[i] \in Job
    BY DEF TypeOK
  <1>2. \/ jobs'[i] = jobs[i]
        \/ jobs'[i] = [jobs[i] EXCEPT !.delayed = FALSE]
    BY DEF RowStep, Pending, Terminal
  <1> QED BY <1>1, <1>2 DEF Job

\* What names a row never changes once the row exists.
LEMMA NamesStay ==
    ASSUME TypeOK, NEW i \in Ids, RowStep(i), jobs[i].status # "absent"
    PROVE  /\ jobs'[i].caller = jobs[i].caller
           /\ jobs'[i].key = jobs[i].key
           /\ jobs'[i].status # "absent"
  <1>1. jobs[i] \in Job
    BY DEF TypeOK
  <1> DEFINE Keeps(row) == /\ row.caller = jobs[i].caller
                           /\ row.key = jobs[i].key
                           /\ row.status # "absent"
  <1>2. Keeps(jobs[i]) /\ Keeps([jobs[i] EXCEPT !.delayed = FALSE])
    BY <1>1 DEF Job
  <1>3. Keeps([jobs[i] EXCEPT !.status = "failed"]) /\ Keeps(Start(jobs[i]))
    BY <1>1 DEF Start, Job
  <1>4. Keeps(Complete(jobs[i], sched.chunks))
    BY <1>1 DEF Complete, Job
  <1>5. Keeps(RetryOrFail(jobs[i], TRUE)) /\ Keeps(RetryOrFail(jobs[i], FALSE))
    BY <1>1 DEF RetryOrFail, Job
  <1>6. Keeps(Recover(jobs[i])) /\ Keeps(CancelRow(jobs[i]))
    BY <1>1 DEF Recover, CancelRow, Job
  <1>7. Keeps(jobs'[i])
    BY <1>2, <1>3, <1>4, <1>5, <1>6 DEF RowStep
  <1> QED BY <1>7

LEMMA NextKeys ==
    TypeOK /\ KeysUnique /\ (\A i \in Ids : RowStep(i)) => KeysUnique'
  <1> SUFFICES ASSUME TypeOK, KeysUnique, \A i \in Ids : RowStep(i),
                      NEW i \in Ids, NEW j \in Ids, i # j,
                      jobs'[i].status # "absent", jobs'[j].status # "absent",
                      jobs'[i].key # NoKey, jobs'[i].key = jobs'[j].key,
                      jobs'[i].caller = jobs'[j].caller
               PROVE  FALSE
    BY DEF KeysUnique, Rows
  <1>t. \A k \in Ids : jobs[k] \in Job
    BY DEF TypeOK
  <1>1. ASSUME NEW k \in Ids, jobs[k].status = "absent", jobs'[k].status # "absent"
        PROVE  /\ \A l \in Ids \ {k} : jobs'[l] = jobs[l]
               /\ \E caller \in Callers, key \in Keys \cup {NoKey} :
                    Existing(caller, key) = {} /\ jobs'[k] = Row(caller, key)
    <2>1. /\ jobs'[k] # jobs[k]
          /\ jobs'[k] # [jobs[k] EXCEPT !.delayed = FALSE]
      BY <1>1, <1>t DEF Job
    <2>2. RowStep(k) /\ ~Pending(k)
      BY <1>1 DEF Pending
    <2> QED BY <1>1, <2>1, <2>2 DEF RowStep
  <1>2. ASSUME NEW k \in Ids, NEW l \in Ids, k # l, jobs[k].status = "absent",
               jobs'[k].status # "absent", jobs'[l].status # "absent",
               jobs'[k].key # NoKey, jobs'[k].key = jobs'[l].key,
               jobs'[k].caller = jobs'[l].caller
        PROVE  FALSE
    <2>1. PICK caller \in Callers, key \in Keys \cup {NoKey} :
            Existing(caller, key) = {} /\ jobs'[k] = Row(caller, key)
      BY <1>1, <1>2
    <2>2. jobs'[l] = jobs[l] /\ jobs'[k].key = key /\ jobs'[k].caller = caller
      BY <1>1, <1>2, <2>1 DEF Row
    <2> QED BY <1>2, <2>1, <2>2 DEF Existing, Rows
  <1>3. jobs[i].status # "absent" /\ jobs[j].status # "absent"
    BY <1>2
  <1>4. /\ jobs'[i].caller = jobs[i].caller /\ jobs'[i].key = jobs[i].key
        /\ jobs'[j].caller = jobs[j].caller /\ jobs'[j].key = jobs[j].key
    BY <1>3, NamesStay
  <1> QED BY <1>3, <1>4 DEF KeysUnique, Rows

\* All that a step can do to one handler.
PostStep(c) ==
    \/ post'[c] = post[c]
    \/ /\ post[c].pc # "handoff"
       /\ post'[c].pc = "handoff" /\ post'[c].reply = "none"
       /\ jobs'[post'[c].job].attempts = 0
       /\ jobs'[post'[c].job].status = "queued"
    \/ /\ post'[c].pc # "handoff" /\ post'[c].reply # "refused"
       /\ post[c].pc = "handoff" => HandoffAnswered(c) \/ Crash
    \/ /\ HandoffFails(c)
       /\ post'[c].pc = "done" /\ post'[c].job = post[c].job

LEMMA PostSteps ==
    TypeOK /\ JobsNamed /\ Locking /\ [Next]_vars => \A c \in Clients : PostStep(c)
  <1> SUFFICES ASSUME TypeOK, JobsNamed, Locking, [Next]_vars, NEW c \in Clients
               PROVE  PostStep(c)
    OBVIOUS
  <1> USE DEF PostStep
  <1>t. /\ post \in [Clients -> PostState] /\ jobs \in [Ids -> Job]
    BY DEF TypeOK
  <1>u. ASSUME UNCHANGED post PROVE PostStep(c)
    BY <1>u
  <1>f. ASSUME NEW d \in Clients, NEW i \in Ids, NEW mode \in AllModes, Follow(d, i, mode),
               post[d].pc # "handoff" \/ HandoffAnswered(d)
        PROVE  PostStep(c)
    <2>1. Followed(i, mode).pc # "handoff" /\ Followed(i, mode).reply # "refused"
      BY DEF Followed, AllModes
    <2> QED BY <1>f, <1>t, <2>1 DEF Follow
  <1>a. ASSUME NEW d \in Clients, NEW reply \in Replies \ {"refused"}, Answer(d, reply),
               post[d].pc # "handoff"
        PROVE  PostStep(c)
    <2>1. post'[d].pc = "done" /\ post'[d].reply = reply
      BY <1>a, <1>t DEF Answer, PostState
    <2> QED BY <1>a, <1>t, <2>1 DEF Answer
  <1>1. ASSUME NEW d \in Clients, NEW caller \in Callers, NEW key \in Keys \cup {NoKey},
               NEW mode \in Modes, Admit(d, caller, key, mode)
        PROVE  PostStep(c)
    <2>1. mode \in AllModes
      BY ChoicesAssumption
    <2>2. CASE Preempts(caller)
      <3>1. PICK i \in Ids :
              /\ jobs' = [jobs EXCEPT ![i] = Row(caller, key)]
              /\ post' = [post EXCEPT ![d] = [pc |-> "handoff", job |-> i,
                                              mode |-> mode, reply |-> "none"]]
        BY <1>1, <2>2 DEF Admit
      <3>2. CASE c = d
        <4>1. /\ post'[c].pc = "handoff" /\ post'[c].reply = "none" /\ post'[c].job = i
              /\ jobs'[i] = Row(caller, key) /\ post[c].pc # "handoff"
          BY <1>1, <1>t, <3>1, <3>2 DEF Admit
        <4> QED BY <4>1 DEF Row
      <3>3. CASE c # d
        BY <1>t, <3>1, <3>3
      <3> QED BY <3>2, <3>3
    <2>3. CASE ~Preempts(caller)
      BY <1>1, <1>f, <2>1, <2>3 DEF Admit
    <2> QED BY <2>2, <2>3
  <1>2. ASSUME NEW d \in Clients, NEW caller \in Callers, NEW key \in Keys \cup {NoKey},
               NEW mode \in Modes, Duplicate(d, caller, key, mode)
        PROVE  PostStep(c)
    <2>1. mode \in AllModes /\ post[d].pc \in {"idle", "done"}
      BY <1>2, ChoicesAssumption DEF Duplicate
    <2>2. PICK i \in Ids : IF mode = "stream"
            THEN post' = [post EXCEPT ![d] =
                   [pc |-> "done", job |-> i, mode |-> mode,
                    reply |-> IF jobs[i].status = "complete" THEN "result" ELSE "handle"]]
            ELSE Follow(d, i, mode)
      BY <1>2 DEF Duplicate, Existing, Rows
    <2>3. CASE mode = "stream"
      BY <1>t, <2>1, <2>2, <2>3
    <2>4. CASE mode # "stream"
      BY <1>f, <2>1, <2>2, <2>4
    <2> QED BY <2>3, <2>4
  <1>3. ASSUME NEW d \in Clients, HandoffAnswered(d)
        PROVE  PostStep(c)
    <2>1. post[d].job \in Ids /\ post[d].mode \in AllModes
      BY <1>3, <1>t DEF HandoffAnswered, PostState, JobsNamed
    <2> QED BY <1>3, <1>f, <2>1 DEF HandoffAnswered
  <1>4. ASSUME NEW d \in Clients, HandoffFails(d)
        PROVE  PostStep(c)
    <2>1. post'[d].pc = "done" /\ post'[d].job = post[d].job
      BY <1>4, <1>t DEF HandoffFails, Answer, PostState
    <2>2. c # d => post'[c] = post[c]
      BY <1>4, <1>t DEF HandoffFails, Answer
    <2> QED BY <1>4, <2>1, <2>2
  <1>5. ASSUME NEW d \in Clients, WaitEnds(d)
        PROVE  PostStep(c)
    BY <1>5, <1>a DEF WaitEnds, Replies
  <1>6. ASSUME NEW d \in Clients, StreamTake(d) \/ StreamEnds(d) \/ ClientGone(d)
        PROVE  PostStep(c)
    <2>1. CASE StreamTake(d)
      BY <2>1, <1>u DEF StreamTake
    <2>2. CASE StreamEnds(d)
      BY <2>2, <1>a DEF StreamEnds, Replies
    <2>3. CASE ClientGone(d)
      BY <2>3, <1>a DEF ClientGone, Replies
    <2> QED BY <1>6, <2>1, <2>2, <2>3
  <1>7. CASE Crash
    <2>1. \/ post'[c] = post[c]
          \/ post'[c].pc = "done" /\ post'[c].reply = "gone"
      BY <1>7, <1>t DEF Crash, PostState
    <2> QED BY <1>7, <2>1
  <1>8. ASSUME NEW i \in Ids, Cancel(i) \/ DelayElapses(i)
        PROVE  PostStep(c)
    BY <1>8, <1>u DEF Cancel, DelayElapses
  <1>9. CASE \/ SchedEnter \/ ResumeAnswered \/ ResumeFails \/ SchedPick \/ BackendChunk
             \/ BackendDone \/ InternalError \/ (\E r \in BOOLEAN : BackendFails(r))
             \/ SchedAfter \/ SchedWakes \/ UNCHANGED vars
    BY <1>9, <1>u DEF SchedEnter, ResumeAnswered, ResumeFails, SchedPick, BackendChunk,
       BackendDone, InternalError, BackendFails, SchedAfter, SchedWakes, vars
  <1> QED BY <1>1, <1>2, <1>3, <1>4, <1>5, <1>6, <1>7, <1>8, <1>9 DEF Next

\* A fresh row stays fresh as long as its hand-off lasts: the worker could only
\* start it between its own idle check and next_job, and has not the lock.
LEMMA FreshStays ==
    ASSUME TypeOK, JobsNamed, Locking, HandoffFresh, NEW c \in Clients,
           post[c].pc = "handoff", RowStep(post[c].job)
    PROVE  /\ jobs'[post[c].job].attempts = 0
           /\ jobs'[post[c].job].status \in {"queued", "cancelled", "failed"}
  <1> DEFINE i == post[c].job
  <1>1. i \in Ids /\ jobs[i] \in Job /\ sched.pc # "pick"
    BY ChoicesAssumption DEF TypeOK, JobsNamed, Locking
  <1>2. jobs[i].attempts = 0 /\ jobs[i].status \in {"queued", "cancelled", "failed"}
    BY DEF HandoffFresh
  <1>3. CASE jobs[i].status = "queued"
    <2>1. \/ jobs'[i] = jobs[i]
          \/ jobs'[i] = [jobs[i] EXCEPT !.status = "failed"]
          \/ jobs'[i] = CancelRow(jobs[i])
          \/ jobs'[i] = [jobs[i] EXCEPT !.delayed = FALSE]
      BY <1>1, <1>3 DEF RowStep
    <2> QED BY <1>1, <1>2, <1>3, <2>1 DEF CancelRow, Job
  <1>4. CASE jobs[i].status \in {"cancelled", "failed"}
    BY <1>1, <1>2, <1>4, EndedStays DEF Terminal
  <1> QED BY <1>2, <1>3, <1>4

LEMMA NextFresh ==
    TypeOK /\ JobsNamed /\ Locking /\ HandoffFresh
    /\ (\A i \in Ids : RowStep(i)) /\ (\A c \in Clients : PostStep(c)) => HandoffFresh'
  <1> SUFFICES ASSUME TypeOK, JobsNamed, Locking, HandoffFresh,
                      \A i \in Ids : RowStep(i), NEW c \in Clients, PostStep(c),
                      post'[c].pc = "handoff"
               PROVE  /\ jobs'[post'[c].job].attempts = 0
                      /\ jobs'[post'[c].job].status \in {"queued", "cancelled", "failed"}
    BY DEF HandoffFresh
  <1>1. CASE post'[c] = post[c]
    <2>1. post[c].job \in Ids
      BY <1>1 DEF JobsNamed
    <2> QED BY <1>1, <2>1, FreshStays
  <1>2. CASE post'[c] # post[c]
    BY <1>2 DEF PostStep
  <1> QED BY <1>1, <1>2

LEMMA NextRefused ==
    TypeOK /\ JobsNamed /\ Locking /\ HandoffFresh /\ RefusedNeverRuns /\ WorkerOwnsRunning
    /\ [Next]_vars => RefusedNeverRuns'
  <1> SUFFICES ASSUME TypeOK, JobsNamed, Locking, HandoffFresh, RefusedNeverRuns,
                      WorkerOwnsRunning, [Next]_vars, NEW c \in Clients,
                      post'[c].reply = "refused"
               PROVE  /\ jobs'[post'[c].job].attempts = 0
                      /\ jobs'[post'[c].job].status \in {"failed", "cancelled"}
    BY DEF RefusedNeverRuns
  <1>1. (\A i \in Ids : RowStep(i)) /\ PostStep(c)
    BY RowSteps, PostSteps
  <1>2. CASE post'[c] = post[c]
    <2>1. /\ post[c].job \in Ids
          /\ jobs[post[c].job].attempts = 0
          /\ jobs[post[c].job].status \in {"failed", "cancelled"}
      BY <1>2 DEF JobsNamed, RefusedNeverRuns
    <2> QED BY <1>1, <1>2, <2>1, EndedStays DEF Terminal
  <1>3. CASE HandoffFails(c) /\ post'[c].job = post[c].job
    <2> DEFINE i == post[c].job
    <2>1. i \in Ids /\ jobs[i] \in Job /\ jobs'[i] = FailPending(jobs[i])
      BY <1>3 DEF HandoffFails, JobsNamed, TypeOK
    <2>2. jobs[i].attempts = 0 /\ jobs[i].status \in {"queued", "cancelled", "failed"}
      BY <1>3 DEF HandoffFails, HandoffFresh
    <2> QED BY <1>3, <2>1, <2>2 DEF FailPending, Job
  <1> QED BY <1>1, <1>2, <1>3 DEF PostStep

\* A row becomes pending only by being admitted, which needs the lock.
LEMMA PendingStays ==
    ASSUME TypeOK, NEW i \in Ids, RowStep(i), lock # Free, Pending(i)'
    PROVE  Pending(i) /\ jobs'[i].caller = jobs[i].caller
  <1>1. jobs[i] \in Job
    BY DEF TypeOK
  <1>2. CASE jobs[i].status \in Terminal
    BY <1>2, EndedStays DEF Pending, Terminal
  <1>3. CASE jobs[i].status = "absent"
    BY <1>1, <1>3 DEF RowStep, Pending, Job
  <1>4. CASE Pending(i)
    BY <1>4, NamesStay DEF Pending
  <1> QED BY <1>1, <1>2, <1>3, <1>4 DEF Job, Statuses, Pending

LEMMA NextQuiet ==
    TypeOK /\ JobsNamed /\ Locking /\ WorkerOwnsRunning /\ ResumeQuiet /\ [Next]_vars => ResumeQuiet'
  <1> SUFFICES ASSUME TypeOK, JobsNamed, Locking, WorkerOwnsRunning, ResumeQuiet, [Next]_vars,
                      sched'.pc \in {"resume", "resume_after"}
               PROVE  PendingInteractive' = {}
    BY DEF ResumeQuiet
  <1>t. sched \in SchedState
    BY DEF TypeOK
  <1>1. CASE sched' = sched
    <2>1. lock = "sched" /\ lock # Free /\ PendingInteractive = {}
      BY <1>1, ChoicesAssumption DEF Locking, ResumeQuiet
    <2>2. \A i \in Ids : RowStep(i)
      BY RowSteps
    <2> QED BY <2>1, <2>2, PendingStays DEF PendingInteractive
  <1>2. CASE SchedEnter
    <2>1. PendingInteractive = {} /\ jobs' = jobs
      BY <1>2 DEF SchedEnter, Top
    <2> QED BY <2>1 DEF PendingInteractive, Pending
  <1>3. CASE SchedAfter
    <2>1. PendingInteractive = {} /\ jobs' = jobs
      BY <1>3, <1>t DEF SchedAfter, SchedState
    <2> QED BY <2>1 DEF PendingInteractive, Pending
  <1>4. CASE ResumeAnswered \/ ResumeFails
    <2>1. sched.pc \in {"resume", "resume_after"} /\ AfterResume
      BY <1>4 DEF ResumeAnswered, ResumeFails
    <2>2. CASE sched.pc = "resume"
      BY <1>t, <2>1, <2>2 DEF AfterResume, SchedState
    <2>3. CASE sched.pc = "resume_after"
      BY <1>t, <2>1, <2>3 DEF AfterResume, SchedState
    <2> QED BY <2>1, <2>2, <2>3
  <1>5. CASE SchedPick \/ SchedWakes \/ Crash
    <2>1. CASE sched' = Top
      BY <2>1 DEF Top
    <2>2. ASSUME NEW i \in Ids, sched' = [Top EXCEPT !.pc = "run", !.job = i] PROVE FALSE
      BY <2>2 DEF Top
    <2>3. CASE SchedPick
      BY <2>1, <2>2, <2>3 DEF SchedPick
    <2> QED BY <1>5, <2>1, <2>3 DEF SchedWakes, Crash
  <1>6. CASE BackendDone \/ InternalError \/ \E r \in BOOLEAN : BackendFails(r)
    BY <1>6, <1>t DEF BackendDone, InternalError, BackendFails, Processed, SchedState
  <1>7. CASE BackendChunk
    BY <1>7, <1>t DEF BackendChunk, SchedState
  <1>8. CASE UNCHANGED vars
    BY <1>1, <1>8 DEF vars
  <1> QED BY <1>1, <1>2, <1>3, <1>4, <1>5, <1>6, <1>7, <1>8
       DEF Next, Admit, Duplicate, HandoffAnswered, HandoffFails, WaitEnds, StreamTake,
           StreamEnds, ClientGone, Cancel, DelayElapses

LEMMA NextCovers ==
    TypeOK /\ JobsNamed /\ Locking /\ WorkerOwnsRunning /\ ResumeQuiet /\ HandoffFresh
    /\ HoldCoversInteractive /\ [Next]_vars => HoldCoversInteractive'
  <1> SUFFICES ASSUME TypeOK, JobsNamed, Locking, WorkerOwnsRunning, ResumeQuiet, HandoffFresh,
                      HoldCoversInteractive, [Next]_vars,
                      ImageBroker, crashes' = 0,
                      NEW i \in Ids, Pending(i)', jobs'[i].caller \in Interactive,
                      Preempts(jobs'[i].caller)
               PROVE  \/ brokerHold'
                      \/ \E c \in Clients : post'[c].pc = "handoff" /\ post'[c].job = i
    BY DEF HoldCoversInteractive, PendingInteractive, Preempts, InteractivePriority
  <1> DEFINE Covered == \/ brokerHold'
                        \/ \E c \in Clients : post'[c].pc = "handoff" /\ post'[c].job = i
  <1>t. /\ jobs \in [Ids -> Job] /\ post \in [Clients -> PostState]
        /\ crashes \in Nat /\ sched \in SchedState
    BY DEF TypeOK
  <1>s. \A j \in Ids : RowStep(j)
    BY RowSteps
  <1>c. ~Crash /\ crashes = 0
    <2>1. ~Crash
      <3>1. ASSUME Crash PROVE FALSE
        <4>1. crashes' = crashes + 1
          BY <3>1 DEF Crash
        <4> QED BY <1>t, <4>1
      <3> QED BY <3>1
    <2>2. crashes' = crashes
      BY <2>1 DEF Next, vars, Admit, Duplicate, HandoffAnswered, HandoffFails, WaitEnds,
         StreamTake, StreamEnds, ClientGone, Cancel, DelayElapses, SchedEnter, ResumeAnswered,
         ResumeFails, SchedPick, BackendChunk, BackendDone, InternalError, BackendFails,
         SchedAfter, SchedWakes
    <2> QED BY <2>1, <2>2
  <1>1. CASE ~Pending(i)
    <2>1. jobs[i].status = "absent"
      BY <1>1, <1>s, <1>t, EndedStays DEF Pending, Job, Statuses, Terminal
    <2>2. PICK caller \in Callers, key \in Keys \cup {NoKey} :
            /\ jobs'[i] = Row(caller, key)
            /\ Preempts(caller) =>
                 \E c \in Clients : post'[c].pc = "handoff" /\ post'[c].job = i
      BY <1>s, <1>t, <2>1 DEF RowStep, Pending, Job
    <2>3. jobs'[i].caller = caller
      BY <2>2 DEF Row
    <2> QED BY <2>2, <2>3
  <1>2. CASE Pending(i)
    <2>1. i \in PendingInteractive /\ Preempts(jobs[i].caller)
      BY <1>2, <1>s, NamesStay DEF PendingInteractive, Pending, Preempts, InteractivePriority
    <2>2. CASE brokerHold
      <3>1. ~ResumeAnswered /\ ~ResumeFails
        BY <2>1 DEF ResumeQuiet, ResumeAnswered, ResumeFails
      <3>2. ASSUME NEW c \in Clients, HandoffAnswered(c) \/ HandoffFails(c)
            PROVE  brokerHold'
        BY <2>2, <3>2 DEF HandoffAnswered, HandoffFails, BrokerFault
      <3>3. \/ brokerHold' = brokerHold
            \/ \E c \in Clients : HandoffAnswered(c) \/ HandoffFails(c)
        BY <1>c, <3>1 DEF Next, vars, Admit, Duplicate, WaitEnds,
           StreamTake, StreamEnds, ClientGone, Cancel, DelayElapses, SchedEnter,
           SchedPick, BackendChunk, BackendDone, InternalError, BackendFails,
           SchedAfter, SchedWakes
      <3> QED BY <2>2, <3>2, <3>3
    <2>3. ASSUME NEW c \in Clients, post[c].pc = "handoff", post[c].job = i
          PROVE  Covered
      <3>1. PostStep(c)
        BY PostSteps
      <3>2. ASSUME HandoffFails(c) PROVE FALSE
        <4>1. jobs'[i] = FailPending(jobs[i])
          BY <1>t, <2>3, <3>2 DEF HandoffFails
        <4>2. jobs[i] \in Job /\ jobs[i].status \in {"queued", "cancelled", "failed"}
          BY <1>t, <2>3 DEF HandoffFresh
        <4>3. FailPending(jobs[i]).status \in {"cancelled", "failed"}
          BY <4>2 DEF FailPending, Job
        <4> QED BY <4>1, <4>3 DEF Pending
      <3>3. HandoffAnswered(c) => brokerHold'
        BY DEF HandoffAnswered
      <3> QED BY <1>c, <2>3, <3>1, <3>2, <3>3 DEF PostStep
    <2> QED BY <2>1, <2>2, <2>3, <1>c DEF HoldCoversInteractive
  <1> QED BY <1>1, <1>2

-----------------------------------------------------------------------------
\* The inductive invariant: the agreement of the worker, the handlers and the
\* lock, on which each of the safety invariants rests.
IInv ==
    /\ TypeOK /\ JobsNamed /\ Locking /\ WorkerOwnsRunning
    /\ HandoffFresh /\ ResumeQuiet
    /\ AttemptsBounded /\ CancelHonoured /\ KeysUnique
    /\ RefusedNeverRuns /\ HoldCoversInteractive

LEMMA InitIInv == Init => IInv
  <1> SUFFICES ASSUME Init PROVE IInv
    OBVIOUS
  <1>1. TypeOK /\ JobsNamed /\ Locking
    BY InitType, InitNamed
  <1>2. \A i \in Ids : /\ jobs[i].status = "absent" /\ jobs[i].attempts = 0
                       /\ ~jobs[i].cancel
    BY DEF Init
  <1>3. \A c \in Clients : post[c].pc = "idle" /\ post[c].reply = "none"
    BY DEF Init, Idle
  <1>4. sched.pc = "top"
    BY DEF Init, Top
  <1>5. WorkerOwnsRunning /\ AttemptsBounded /\ CancelHonoured /\ KeysUnique
    BY <1>2, <1>4, BoundsAssumption
       DEF WorkerOwnsRunning, AttemptsBounded, CancelHonoured, KeysUnique, Rows
  <1>6. HandoffFresh /\ ResumeQuiet /\ RefusedNeverRuns
    BY <1>3, <1>4 DEF HandoffFresh, ResumeQuiet, RefusedNeverRuns
  <1>7. HoldCoversInteractive
    BY <1>2 DEF HoldCoversInteractive, PendingInteractive, Pending
  <1> QED BY <1>1, <1>5, <1>6, <1>7 DEF IInv

LEMMA NextIInv == IInv /\ [Next]_vars => IInv'
  <1> SUFFICES ASSUME IInv, [Next]_vars PROVE IInv'
    OBVIOUS
  <1> USE DEF IInv
  <1>1. (\A i \in Ids : RowStep(i)) /\ (\A c \in Clients : PostStep(c))
    BY RowSteps, PostSteps
  <1>2. TypeOK' /\ JobsNamed' /\ Locking'
    BY NextType, NextNamed
  <1>3. WorkerOwnsRunning' /\ ResumeQuiet'
    BY NextOwns, NextQuiet
  <1>4. AttemptsBounded' /\ CancelHonoured' /\ KeysUnique' /\ HandoffFresh'
    BY <1>1, NextAttempts, NextCancel, NextKeys, NextFresh
  <1>5. RefusedNeverRuns' /\ HoldCoversInteractive'
    BY NextRefused, NextCovers
  <1> QED BY <1>2, <1>3, <1>4, <1>5

LEMMA Inductive == Spec => []IInv
  BY InitIInv, NextIInv, PTL DEF Spec

\* The table, the threads' locals and the broker's state keep their shape.
THEOREM TypeCorrect == Spec => []TypeOK
  <1>1. IInv => TypeOK
    BY DEF IInv
  <1> QED BY <1>1, Inductive, PTL

\* The worker is alone at the backend, and the table knows with which row.
THEOREM OneRunning == Spec => []WorkerOwnsRunning
  <1>1. IInv => WorkerOwnsRunning
    BY DEF IInv
  <1> QED BY <1>1, Inductive, PTL

\* A row whose hand-off failed never reaches the backend.
THEOREM RefusedIsFinal == Spec => []RefusedNeverRuns
  <1>1. IInv => RefusedNeverRuns
    BY DEF IInv
  <1> QED BY <1>1, Inductive, PTL

\* The retry limit holds across restarts.
THEOREM RetryLimit == Spec => []AttemptsBounded
  <1>1. IInv => AttemptsBounded
    BY DEF IInv
  <1> QED BY <1>1, Inductive, PTL

\* An idempotency key names one row.
THEOREM IdempotentAdmission == Spec => []KeysUnique
  <1>1. IInv => KeysUnique
    BY DEF IInv
  <1> QED BY <1>1, Inductive, PTL

\* A cancelled job is never completed.
THEOREM CancelIsFinal == Spec => []CancelHonoured
  <1>1. IInv => CancelHonoured
    BY DEF IInv
  <1> QED BY <1>1, Inductive, PTL

\* Until a restart, image generation is held back while an interactive job is
\* pending.
THEOREM HoldCovers == Spec => []HoldCoversInteractive
  <1>1. IInv => HoldCoversInteractive
    BY DEF IInv
  <1> QED BY <1>1, Inductive, PTL

-----------------------------------------------------------------------------
(* What a stream carries *)

\* The sequence s ends with r.
EndsWith(s, r) == Len(r) <= Len(s) /\ \A k \in 1..Len(r) : s[Len(s) - Len(r) + k] = r[k]

\* What an attempt has streamed so far.
Chunks(n, attempt) == [k \in 1..n |-> attempt]

\* A handler p with queue q that has written s, and its row: it has followed the
\* attempt that runs from its first chunk, so it has the whole of the response.
Carries(p, q, s, row, chunks) ==
    /\ p.reply = "result" => p.pc = "done"
    /\ p.pc = "wait" => p.mode # "stream"
    /\ p.pc = "stream" /\ row.status = "running" => EndsWith(s \o q, Chunks(chunks, row.attempts))
    /\ p.pc = "stream" /\ row.status = "complete" => EndsWith(s \o q, row.result)
    /\ p.mode = "stream" /\ p.reply = "result" => row.status = "complete" /\ EndsWith(s, row.result)

StreamsCarry == \A c \in Clients : Carries(post[c], queue[c], sent[c], jobs[post[c].job], sched.chunks)

LEMMA EndsWithNothing == ASSUME NEW s \in Seq(Nat), NEW attempt PROVE EndsWith(s, Chunks(0, attempt))
  <1>1. Chunks(0, attempt) = <<>>  BY DEF Chunks
  <1>2. Len(<<>>) = 0 /\ Len(s) \in Nat  BY LenProperties, EmptySeq
  <1> QED  BY <1>1, <1>2 DEF EndsWith

LEMMA EndsWithItself == \A s \in Seq(Nat) : EndsWith(s, s)
  <1> SUFFICES ASSUME NEW s \in Seq(Nat) PROVE EndsWith(s, s)
    OBVIOUS
  <1>1. Len(s) \in Nat  BY LenProperties
  <1>2. \A k \in 1..Len(s) : Len(s) - Len(s) + k = k  BY <1>1
  <1> QED  BY <1>1, <1>2 DEF EndsWith

LEMMA EndsWithOneMore ==
    ASSUME NEW s \in Seq(Nat), NEW q \in Seq(Nat), NEW n \in Nat, NEW attempt \in Nat,
           EndsWith(s \o q, Chunks(n, attempt))
    PROVE  EndsWith(s \o Append(q, attempt), Chunks(n + 1, attempt))
  <1>1. s \o q \in Seq(Nat)  BY ConcatProperties
  <1> DEFINE t == s \o q
             u == Append(t, attempt)
  <1>2. s \o Append(q, attempt) = u
    <2>1. Append(q, attempt) = q \o <<attempt>> /\ u = t \o <<attempt>>  BY <1>1, AppendIsConcat
    <2>2. <<attempt>> \in Seq(Nat)  OBVIOUS
    <2> QED  BY <2>1, <2>2, ConcatAssociative
  <1>3. u \in Seq(Nat) /\ Len(u) = Len(t) + 1 /\ (\A i \in 1..Len(t) : u[i] = t[i]) /\ u[Len(t) + 1] = attempt
    BY <1>1, AppendProperties
  <1>4. Len(t) \in Nat  BY <1>1, LenProperties
  <1>5. Len(Chunks(n, attempt)) = n /\ Len(Chunks(n + 1, attempt)) = n + 1
        /\ (\A k \in 1..n : Chunks(n, attempt)[k] = attempt) /\ (\A k \in 1..(n + 1) : Chunks(n + 1, attempt)[k] = attempt)
    BY DEF Chunks
  <1>6. n <= Len(t) /\ \A k \in 1..n : t[Len(t) - n + k] = attempt  BY <1>5 DEF EndsWith
  <1> HIDE DEF t, u
  <1>7. ASSUME NEW k \in 1..(n + 1) PROVE u[(Len(t) + 1) - (n + 1) + k] = attempt
    <2>1. (Len(t) + 1) - (n + 1) + k = Len(t) - n + k  BY <1>4
    <2>2. CASE k = n + 1
      <3>1. Len(t) - n + k = Len(t) + 1  BY <1>4, <2>2
      <3> QED  BY <1>3, <2>1, <3>1
    <2>3. CASE k \in 1..n
      <3>1. Len(t) - n + k \in 1..Len(t)  BY <1>4, <1>6, <2>3
      <3> QED  BY <1>3, <1>6, <2>1, <2>3, <3>1
    <2> QED  BY <2>2, <2>3
  <1>8. n + 1 <= Len(t) + 1  BY <1>4, <1>6
  <1>9. Len(u) = Len(t) + 1 /\ \A k \in 1..(n + 1) : Chunks(n + 1, attempt)[k] = attempt  BY <1>3, <1>5
  <1>10. EndsWith(u, Chunks(n + 1, attempt))
    BY <1>5, <1>7, <1>8, <1>9 DEF EndsWith
  <1> QED  BY <1>2, <1>10

LEMMA TakenFromQueue ==
    ASSUME NEW s \in Seq(Nat), NEW q \in Seq(Nat), q # <<>>
    PROVE  Append(s, Head(q)) \o Tail(q) = s \o q
  <1>1. Head(q) \in Nat /\ Tail(q) \in Seq(Nat) /\ <<Head(q)>> \in Seq(Nat)  BY HeadTailProperties
  <1>2. Append(s, Head(q)) = s \o <<Head(q)>>  BY <1>1, AppendIsConcat
  <1>3. <<Head(q)>> \o Tail(q) = q
    <2>1. Len(q) \in Nat \ {0}  BY EmptySeq
    <2>2. Head(SubSeq(q, 1, Len(q))) = q[1] /\ SubSeq(q, 1, Len(q)) = <<q[1]>> \o SubSeq(q, 2, Len(q))
      <3>1. 1 \in 1..Len(q) /\ Len(q) \in 1..Len(q) /\ 1 + 1 = 2  BY <2>1
      <3> QED  BY <3>1, SubSeqRecursiveFirst, HeadTailOfSubSeq
    <2>3. SubSeq(q, 1, Len(q)) = q  BY SubSeqFull
    <2>4. Tail(q) = SubSeq(q, 2, Len(q))  BY TailIsSubSeq
    <2> QED  BY <2>2, <2>3, <2>4
  <1> DEFINE h == <<Head(q)>>
  <1>4. h \in Seq(Nat) /\ Append(s, Head(q)) = s \o h /\ h \o Tail(q) = q  BY <1>1, <1>2, <1>3
  <1> HIDE DEF h
  <1> DEFINE q2 == Tail(q)
  <1>5. q2 \in Seq(Nat)  BY <1>1
  <1> HIDE DEF q2
  <1>6. (s \o h) \o q2 = s \o (h \o q2)  BY <1>4, <1>5, ConcatAssociative
  <1> QED  BY <1>4, <1>6 DEF q2

LEMMA EndIsSubSeq ==
    ASSUME NEW s \in Seq(Nat), NEW r \in Seq(Nat), EndsWith(s, r)
    PROVE  \E n \in 0..Len(s) : SubSeq(s, n + 1, Len(s)) = r
  <1>1. Len(s) \in Nat /\ Len(r) \in Nat /\ Len(r) <= Len(s)  BY LenProperties DEF EndsWith
  <1> DEFINE n == Len(s) - Len(r)
             t == SubSeq(s, n + 1, Len(s))
  <1>2. n \in 0..Len(s) /\ n + 1 \in Int /\ Len(s) \in Int  BY <1>1
  <1>3. \A i \in (n + 1)..Len(s) : s[i] \in Nat
    <2>1. \A i \in (n + 1)..Len(s) : i \in 1..Len(s)  BY <1>1
    <2> QED  BY <2>1, ElementOfSeq
  <1>4. /\ t \in Seq(Nat) /\ Len(t) = IF n + 1 <= Len(s) THEN Len(s) - (n + 1) + 1 ELSE 0
        /\ \A i \in 1..Len(s) - (n + 1) + 1 : t[i] = s[(n + 1) + i - 1]
    BY <1>2, <1>3, SubSeqProperties
  <1>5. Len(t) = Len(r)  BY <1>1, <1>4
  <1>6. ASSUME NEW i \in 1..Len(r) PROVE t[i] = r[i]
    <2>1. i \in 1..Len(s) - (n + 1) + 1 /\ (n + 1) + i - 1 = Len(s) - Len(r) + i  BY <1>1
    <2>2. t[i] = s[Len(s) - Len(r) + i]  BY <1>4, <2>1
    <2> QED  BY <2>2 DEF EndsWith
  <1>7. t = r  BY <1>4, <1>5, <1>6, SeqEqual
  <1> QED  BY <1>2, <1>7

\* Where the handler and what it carries stay as they are, whatever happens to its row.
LEMMA CarriesStays ==
    ASSUME IInv, [Next]_vars, ~BackendChunk, NEW c \in Clients, Carries(post[c], queue[c], sent[c], jobs[post[c].job], sched.chunks),
           post'[c] = post[c],
           post[c].pc = "stream" => sent'[c] \o queue'[c] = sent[c] \o queue[c] /\ sent'[c] \o queue'[c] \in Seq(Nat),
           post[c].pc = "done" => sent'[c] = sent[c]
    PROVE  Carries(post'[c], queue'[c], sent'[c], jobs'[post'[c].job], sched'.chunks)
  <1> DEFINE i == post[c].job
             p == post[c]
  <1>1. CASE i \notin Ids
    <2>1. p.pc = "idle" /\ p.reply = "none"  BY <1>1 DEF IInv, JobsNamed
    <2> QED  BY <2>1 DEF Carries
  <1>2. CASE i \in Ids
    <2>1. jobs[i] \in Job /\ jobs'[i] \in Job  BY <1>2, NextType DEF IInv, TypeOK
    <2>2. RowStep(i)  BY <1>2, RowSteps DEF IInv
    <2>3. (jobs[i].status = "running" <=> sched.pc = "run" /\ sched.job = i) /\ (jobs'[i].status = "running" <=> sched'.pc = "run" /\ sched'.job = i)
      BY <1>2, NextOwns DEF IInv, WorkerOwnsRunning
    <2>4. jobs[i].status = "complete" => jobs'[i].status = "complete" /\ jobs'[i].result = jobs[i].result
      BY <1>2, <2>2, EndedStays DEF IInv, Terminal
    <2>5. ASSUME jobs'[i].status = "complete", jobs[i].status # "complete"
          PROVE  jobs[i].status = "running" /\ jobs'[i].result = Chunks(sched.chunks, jobs[i].attempts)
      <3>1. \A row \in Job : /\ row.status # "complete" => RetryOrFail(row, TRUE).status # "complete" /\ RetryOrFail(row, FALSE).status # "complete"
                                                        /\ Recover(row).status # "complete" /\ CancelRow(row).status # "complete"
                                                        /\ [row EXCEPT !.delayed = FALSE].status # "complete"
                             /\ Start(row).status # "complete" /\ [row EXCEPT !.status = "failed"].status # "complete"
        BY DEF RetryOrFail, Recover, CancelRow, Start, Job
      <3>2. \A caller \in Callers, key \in Keys \cup {NoKey} : Row(caller, key).status # "complete"  BY DEF Row
      <3>3. jobs[i].status = "running" /\ jobs'[i] = Complete(jobs[i], sched.chunks)
        BY <2>1, <2>2, <2>5, <3>1, <3>2 DEF RowStep
      <3> QED  BY <2>1, <2>5, <3>3 DEF Complete, Chunks, Job
    <2>6. ASSUME jobs'[i].status = "running", jobs[i].status = "running"
          PROVE  jobs'[i].attempts = jobs[i].attempts /\ sched'.chunks = sched.chunks
      <3>1. sched.pc = "run" /\ sched'.pc = "run"  BY <2>3, <2>6
      <3>2. sched' = sched
        <4>1. sched \in SchedState  BY DEF IInv, TypeOK
        <4>2. ASSUME NEW retry \in BOOLEAN, Processed(retry) PROVE FALSE
          <5>1. sched'.pc # "run"  BY <4>1, <4>2 DEF Processed, SchedState
          <5> QED  BY <3>1, <5>1
        <4>3. ~(BackendDone \/ InternalError \/ \E r \in BOOLEAN : BackendFails(r))
          BY <3>1, <4>1 DEF BackendDone, InternalError, BackendFails, Processed, SchedState
        <4>4. ~Crash
          <5>1. Crash => sched' = Top  BY DEF Crash
          <5>2. Top.pc = "top"  BY DEF Top
          <5> QED  BY <3>1, <5>1, <5>2
        <4>5. ~(SchedEnter \/ ResumeAnswered \/ ResumeFails \/ SchedPick \/ SchedAfter \/ SchedWakes)
          BY <3>1 DEF SchedEnter, ResumeAnswered, ResumeFails, SchedPick, SchedAfter, SchedWakes
        <4> QED  BY <4>3, <4>4, <4>5 DEF Next, vars, Admit, Duplicate, HandoffAnswered, HandoffFails, WaitEnds, StreamTake,
                    StreamEnds, ClientGone, Cancel, DelayElapses
      <3>3. jobs'[i] \in {jobs[i], Complete(jobs[i], sched.chunks), RetryOrFail(jobs[i], TRUE), RetryOrFail(jobs[i], FALSE),
                          Recover(jobs[i]), CancelRow(jobs[i])} \/ jobs'[i] = [jobs[i] EXCEPT !.delayed = FALSE]
        BY <2>6, <2>2 DEF RowStep
      <3> DEFINE Keeps(row) == row.attempts = jobs[i].attempts
      <3>4. Keeps(jobs[i]) /\ Keeps([jobs[i] EXCEPT !.delayed = FALSE])  BY <2>1 DEF Job
      <3>5. Keeps(Complete(jobs[i], sched.chunks))  BY <2>1 DEF Complete, Job
      <3>6. Keeps(RetryOrFail(jobs[i], TRUE)) /\ Keeps(RetryOrFail(jobs[i], FALSE))  BY <2>1 DEF RetryOrFail, Job
      <3>7. Keeps(Recover(jobs[i])) /\ Keeps(CancelRow(jobs[i]))  BY <2>1 DEF Recover, CancelRow, Job
      <3>8. Keeps(jobs'[i])
        <4> HIDE DEF Keeps
        <4> QED  BY <3>3, <3>4, <3>5, <3>6, <3>7
      <3>9. jobs'[i].attempts = jobs[i].attempts  BY <3>8
      <3> QED  BY <3>2, <3>9
    <2>7. ASSUME jobs'[i].status = "running", jobs[i].status # "running" PROVE sched'.chunks = 0
      <3>1. \A row \in Job : row.status # "running" =>
                 /\ CancelRow(row).status # "running" /\ [row EXCEPT !.delayed = FALSE].status # "running"
                 /\ [row EXCEPT !.status = "failed"].status # "running"
        BY DEF CancelRow, Job
      <3>2. \A caller \in Callers, key \in Keys \cup {NoKey} : Row(caller, key).status # "running"  BY DEF Row
      <3>3. sched.pc = "pick" /\ sched'.pc = "run"  BY <2>1, <2>2, <2>3, <2>7, <3>1, <3>2 DEF RowStep
      <3>4. SchedPick
        <4>1. ~(SchedEnter \/ BackendDone \/ InternalError \/ (\E r \in BOOLEAN : BackendFails(r)) \/ SchedAfter \/ SchedWakes \/ ResumeAnswered \/ ResumeFails)
          BY <3>3 DEF SchedEnter, BackendDone, InternalError, BackendFails, SchedAfter, SchedWakes, ResumeAnswered, ResumeFails
        <4>2. ~Crash
          <5>1. Crash => sched' = Top  BY DEF Crash
          <5>2. Top.pc = "top"  BY DEF Top
          <5> QED  BY <3>3, <5>1, <5>2
        <4>3. sched' # sched  BY <3>3
        <4> QED  BY <4>1, <4>2, <4>3 DEF Next, vars, Admit, Duplicate, HandoffAnswered, HandoffFails, WaitEnds, StreamTake,
                    StreamEnds, ClientGone, Cancel, DelayElapses
      <3>5. sched' = Top \/ \E j \in Ids : sched' = [Top EXCEPT !.pc = "run", !.job = j]  BY <3>4 DEF SchedPick
      <3>6. Top \in SchedState /\ Top.chunks = 0  BY SchedTypes DEF Top
      <3>7. \A j \in Ids : [Top EXCEPT !.pc = "run", !.job = j].chunks = Top.chunks  BY <3>6 DEF SchedState
      <3> QED  BY <3>5, <3>6, <3>7
    <2>8. p.pc = "stream" /\ jobs'[i].status = "running" => EndsWith(sent'[c] \o queue'[c], Chunks(sched'.chunks, jobs'[i].attempts))
      <3>1. CASE jobs[i].status = "running"  BY <2>6, <3>1 DEF Carries
      <3>2. CASE jobs[i].status # "running"  BY <2>7, <3>2, EndsWithNothing
      <3> QED  BY <3>1, <3>2
    <2>9. p.pc = "stream" /\ jobs'[i].status = "complete" => EndsWith(sent'[c] \o queue'[c], jobs'[i].result)
      <3>1. CASE jobs[i].status = "complete"  BY <2>4, <3>1 DEF Carries
      <3>2. CASE jobs[i].status # "complete"  BY <2>5, <3>2 DEF Carries
      <3> QED  BY <3>1, <3>2
    <2>10. p.mode = "stream" /\ p.reply = "result" => jobs'[i].status = "complete" /\ EndsWith(sent'[c], jobs'[i].result)
      BY <2>4 DEF Carries
    <2> HIDE DEF i, p
    <2>11. post'[c] = p /\ p.job = i  BY DEF p, i
    <2>12. (p.reply = "result" => p.pc = "done") /\ (p.pc = "wait" => p.mode # "stream")  BY DEF Carries, p
    <2> QED  BY <2>8, <2>9, <2>10, <2>11, <2>12 DEF Carries
  <1> QED  BY <1>1, <1>2

LEMMA NextCarries == IInv /\ StreamsCarry /\ [Next]_vars => StreamsCarry'
  <1> SUFFICES ASSUME IInv, StreamsCarry, [Next]_vars, NEW c \in Clients
               PROVE  Carries(post'[c], queue'[c], sent'[c], jobs'[post'[c].job], sched'.chunks)
    BY DEF StreamsCarry
  <1> DEFINE Goal == Carries(post'[c], queue'[c], sent'[c], jobs'[post'[c].job], sched'.chunks)
             i == post[c].job
  <1>c. Carries(post[c], queue[c], sent[c], jobs[i], sched.chunks)
    BY DEF StreamsCarry
  <1>t. /\ post \in [Clients -> PostState] /\ queue \in [Clients -> Seq(Nat)] /\ sent \in [Clients -> Seq(Nat)]
        /\ jobs \in [Ids -> Job] /\ sched \in SchedState /\ sched.chunks \in Nat
        /\ post[c] = [pc |-> post[c].pc, job |-> i, mode |-> post[c].mode, reply |-> post[c].reply]
    BY DEF IInv, TypeOK, PostState, SchedState
  <1>j. post[c].pc # "idle" => i \in Ids
    BY DEF IInv, JobsNamed
  <1>q. queue[c] \in Seq(Nat) /\ sent[c] \in Seq(Nat) /\ sent[c] \o queue[c] \in Seq(Nat)
    BY <1>t, ConcatProperties
  <1>u. ASSUME ~BackendChunk, post'[c] = post[c], queue'[c] = queue[c], sent'[c] = sent[c] PROVE Goal
    BY <1>c, <1>q, <1>u, CarriesStays
  <1>0. ASSUME NEW row, row.status \notin {"running", "complete"}, post'[c].pc = "stream", post'[c].reply = "none", jobs'[post'[c].job] = row
        PROVE  Goal
    BY <1>0 DEF Carries
  <1>f. ASSUME NEW k \in Ids, NEW mode \in AllModes, Follow(c, k, mode),
               mode # "stream" \/ jobs'[k].status \notin {"running", "complete"}
        PROVE  Goal
    <2>1. post'[c] = Followed(k, mode)  BY <1>f, <1>t DEF Follow
    <2>2. post'[c].job = k  BY <2>1, FollowedType
    <2>3. CASE mode = "stream"
      <3>1. post'[c].pc = "stream" /\ post'[c].reply = "none"  BY <2>1, <2>3 DEF Followed
      <3> QED  BY <1>0, <1>f, <2>2, <2>3, <3>1
    <2>4. CASE mode = "sync"
      <3>1. post'[c].pc = "wait" /\ post'[c].reply = "none" /\ post'[c].mode = "sync"  BY <2>1, <2>4 DEF Followed
      <3> QED  BY <3>1 DEF Carries
    <2>5. CASE mode = "async"
      <3>1. post'[c].pc = "done" /\ post'[c].reply = "handle"  BY <2>1, <2>5 DEF Followed
      <3> QED  BY <3>1 DEF Carries
    <2> QED  BY <2>3, <2>4, <2>5 DEF AllModes
  <1>a. ASSUME NEW reply \in Replies, Answer(c, reply), reply = "result" => post[c].mode # "stream"
        PROVE  Goal
    <2>1. post'[c].pc = "done" /\ post'[c].reply = reply /\ post'[c].mode = post[c].mode
      BY <1>a, <1>t DEF Answer, PostState
    <2> QED  BY <1>a, <2>1 DEF Carries
  <1>1. ASSUME NEW d \in Clients, NEW caller \in Callers, NEW key \in Keys \cup {NoKey}, NEW mode \in Modes, Admit(d, caller, key, mode)
        PROVE  Goal
    <2>1. mode \in AllModes  BY ChoicesAssumption
    <2>2. PICK k \in Ids :
            /\ jobs' = [jobs EXCEPT ![k] = Row(caller, key)]
            /\ IF Preempts(caller)
               THEN /\ post' = [post EXCEPT ![d] = [pc |-> "handoff", job |-> k, mode |-> mode, reply |-> "none"]]
                    /\ UNCHANGED stream
               ELSE Follow(d, k, mode)
      BY <1>1 DEF Admit
    <2>3. sched' = sched /\ ~BackendChunk
      <3>1. sched' = sched  BY <1>1 DEF Admit
      <3>2. BackendChunk => sched' = [sched EXCEPT !.chunks = sched.chunks + 1]  BY DEF BackendChunk
      <3>3. [sched EXCEPT !.chunks = sched.chunks + 1].chunks # sched.chunks  BY <1>t DEF SchedState
      <3> QED  BY <3>1, <3>2, <3>3
    <2>4. CASE d # c
      <3>1. post'[c] = post[c] /\ queue'[c] = queue[c] /\ sent'[c] = sent[c]
        BY <1>t, <2>2, <2>4 DEF Follow, stream
      <3> QED  BY <1>u, <2>3, <3>1
    <2>5. CASE d = c
      <3>1. CASE Preempts(caller)
        <4>1. post'[c].pc = "handoff" /\ post'[c].reply = "none"  BY <1>t, <2>2, <2>5, <3>1
        <4> QED  BY <4>1 DEF Carries
      <3>2. CASE ~Preempts(caller)
        <4>1. jobs'[k].status = "queued"  BY <1>t, <2>2 DEF Row
        <4> QED  BY <1>f, <2>1, <2>2, <2>5, <3>2, <4>1
      <3> QED  BY <3>1, <3>2
    <2> QED  BY <2>4, <2>5
  <1>n. ASSUME UNCHANGED sched PROVE ~BackendChunk
    <2>1. BackendChunk => sched' = [sched EXCEPT !.chunks = sched.chunks + 1]  BY DEF BackendChunk
    <2>2. [sched EXCEPT !.chunks = sched.chunks + 1].chunks # sched.chunks  BY <1>t DEF SchedState
    <2> QED  BY <1>n, <2>1, <2>2
  <1>2. ASSUME NEW d \in Clients, NEW caller \in Callers, NEW key \in Keys \cup {NoKey}, NEW mode \in Modes, Duplicate(d, caller, key, mode)
        PROVE  Goal
    <2>1. mode \in AllModes  BY ChoicesAssumption
    <2>2. UNCHANGED <<jobs, sched>>  BY <1>2 DEF Duplicate
    <2>3. PICK k \in Ids : IF mode = "stream"
            THEN /\ post' = [post EXCEPT ![d] =
                      [pc |-> "done", job |-> k, mode |-> mode,
                       reply |-> IF jobs[k].status = "complete" THEN "result" ELSE "handle"]]
                 /\ queue' = [queue EXCEPT ![d] = <<>>]
                 /\ sent' = [sent EXCEPT ![d] = jobs[k].result]
            ELSE Follow(d, k, mode)
      BY <1>2 DEF Duplicate, Existing, Rows
    <2>4. CASE d # c
      <3>1. post'[c] = post[c] /\ queue'[c] = queue[c] /\ sent'[c] = sent[c]
        <4>1. CASE mode = "stream"  BY <1>t, <2>3, <2>4, <4>1
        <4>2. CASE mode # "stream"  BY <1>t, <2>3, <2>4, <4>2 DEF Follow
        <4> QED  BY <4>1, <4>2
      <3> QED  BY <1>n, <1>u, <2>2, <3>1
    <2>5. CASE d = c /\ mode = "stream"
      <3> DEFINE reply == IF jobs[k].status = "complete" THEN "result" ELSE "handle"
      <3>1. post'[c] = [pc |-> "done", job |-> k, mode |-> mode, reply |-> reply] /\ sent'[c] = jobs[k].result
        BY <1>t, <2>3, <2>5
      <3>2. reply = "result" => jobs[k].status = "complete"  OBVIOUS
      <3> HIDE DEF reply
      <3>3. post'[c].pc = "done" /\ post'[c].job = k /\ post'[c].reply = reply  BY <3>1
      <3>4. EndsWith(jobs[k].result, jobs[k].result)
        <4>1. jobs[k].result \in Seq(Nat)  BY <1>t DEF Job
        <4> QED  BY <4>1, EndsWithItself
      <3> QED  BY <2>2, <3>1, <3>2, <3>3, <3>4 DEF Carries
    <2>6. CASE d = c /\ mode # "stream"  BY <1>f, <2>1, <2>3, <2>6
    <2> QED  BY <2>4, <2>5, <2>6
  <1>3. ASSUME NEW d \in Clients, HandoffAnswered(d) PROVE Goal
    <2>1. UNCHANGED <<jobs, sched>> /\ post[d].pc = "handoff" /\ Follow(d, post[d].job, post[d].mode)  BY <1>3 DEF HandoffAnswered
    <2>2. post[d].job \in Ids /\ post[d].mode \in AllModes  BY <1>t, <2>1 DEF IInv, JobsNamed, PostState
    <2>3. CASE d # c
      <3>1. post'[c] = post[c] /\ queue'[c] = queue[c] /\ sent'[c] = sent[c]  BY <1>t, <2>1, <2>3 DEF Follow
      <3> QED  BY <1>n, <1>u, <2>1, <3>1
    <2>4. CASE d = c
      <3>1. jobs'[post[d].job].status \in {"queued", "cancelled", "failed"}  BY <2>1 DEF IInv, HandoffFresh
      <3> QED  BY <1>f, <2>1, <2>2, <2>4, <3>1
    <2> QED  BY <2>3, <2>4
  <1>4. ASSUME NEW d \in Clients, HandoffFails(d) \/ WaitEnds(d) PROVE Goal
    <2>1. UNCHANGED <<sched, queue, sent>> /\ post[d].pc \in {"handoff", "wait"}  BY <1>4 DEF HandoffFails, WaitEnds, stream
    <2>2. \E reply \in Replies : Answer(d, reply) /\ (reply = "result" => WaitEnds(d) /\ post[d].pc = "wait")
      BY <1>4 DEF HandoffFails, WaitEnds, Replies
    <2>3. PICK reply \in Replies : Answer(d, reply) /\ (reply = "result" => WaitEnds(d) /\ post[d].pc = "wait")  BY <2>2
    <2>4. CASE d # c
      <3>1. post'[c] = post[c]  BY <1>t, <2>3, <2>4 DEF Answer
      <3> QED  BY <1>n, <1>u, <2>1, <3>1
    <2>5. CASE d = c
      <3>1. reply = "result" => post[c].mode # "stream"  BY <1>c, <2>3, <2>5 DEF Carries
      <3> QED  BY <1>a, <2>3, <2>5, <3>1
    <2> QED  BY <2>4, <2>5
  <1>5. ASSUME NEW d \in Clients, StreamTake(d) PROVE Goal
    <2>1. UNCHANGED <<jobs, sched, post>> /\ post[d].pc = "stream" /\ queue[d] # <<>>
          /\ sent' = [sent EXCEPT ![d] = Append(sent[d], Head(queue[d]))] /\ queue' = [queue EXCEPT ![d] = Tail(queue[d])]
      BY <1>5 DEF StreamTake
    <2>2. CASE d # c
      <3>1. queue'[c] = queue[c] /\ sent'[c] = sent[c]  BY <1>t, <2>1, <2>2
      <3> QED  BY <1>n, <1>u, <2>1, <3>1
    <2>3. CASE d = c
      <3>1. sent'[c] = Append(sent[c], Head(queue[c])) /\ queue'[c] = Tail(queue[c])  BY <1>t, <2>1, <2>3
      <3>2. sent'[c] \o queue'[c] = sent[c] \o queue[c]  BY <1>q, <2>1, <2>3, <3>1, TakenFromQueue
      <3>3. post'[c] = post[c] /\ post[c].pc # "done"  BY <2>1, <2>3
      <3> QED  BY <1>c, <1>n, <1>q, <2>1, <3>2, <3>3, CarriesStays
    <2> QED  BY <2>2, <2>3
  <1>6. ASSUME NEW d \in Clients, StreamEnds(d) PROVE Goal
    <2> DEFINE reply == IF jobs[post[d].job].status = "complete" THEN "result" ELSE "error"
    <2>1. UNCHANGED <<jobs, sched>> /\ post[d].pc = "stream" /\ Answer(d, reply)
          /\ sent' = [sent EXCEPT ![d] = sent[d] \o queue[d]] /\ queue' = [queue EXCEPT ![d] = <<>>]
      BY <1>6 DEF StreamEnds, Drained
    <2>2. reply = "result" => jobs[post[d].job].status = "complete"  OBVIOUS
    <2> HIDE DEF reply
    <2>3. CASE d # c
      <3>1. post'[c] = post[c] /\ queue'[c] = queue[c] /\ sent'[c] = sent[c]  BY <1>t, <2>1, <2>3 DEF Answer
      <3> QED  BY <1>n, <1>u, <2>1, <3>1
    <2>4. CASE d = c
      <3>1. post'[c].pc = "done" /\ post'[c].job = i /\ post'[c].reply = reply  BY <1>t, <2>1, <2>4 DEF Answer, PostState
      <3>2. sent'[c] = sent[c] \o queue[c]  BY <1>t, <2>1, <2>4
      <3>3. jobs[i].status = "complete" => EndsWith(sent'[c], jobs[i].result)  BY <1>c, <2>1, <2>4, <3>2 DEF Carries
      <3> HIDE DEF i
      <3>4. jobs'[post'[c].job] = jobs[i]  BY <2>1, <3>1
      <3>5. reply = "result" => jobs[i].status = "complete"  BY <2>2, <2>4 DEF i
      <3> QED  BY <3>1, <3>3, <3>4, <3>5 DEF Carries
    <2> QED  BY <2>3, <2>4
  <1>7. ASSUME NEW d \in Clients, ClientGone(d) PROVE Goal
    <2>1. UNCHANGED <<sched, sent>> /\ Answer(d, "gone") /\ queue' = [queue EXCEPT ![d] = <<>>]  BY <1>7 DEF ClientGone
    <2>2. CASE d # c
      <3>1. post'[c] = post[c] /\ queue'[c] = queue[c] /\ sent'[c] = sent[c]  BY <1>t, <2>1, <2>2 DEF Answer
      <3> QED  BY <1>n, <1>u, <2>1, <3>1
    <2>3. CASE d = c  BY <1>a, <2>1, <2>3 DEF Replies
    <2> QED  BY <2>2, <2>3
  <1>8. CASE BackendChunk
    <2>1. /\ sched.pc = "run" /\ UNCHANGED <<jobs, post, sent>> /\ sched' = [sched EXCEPT !.chunks = sched.chunks + 1]
          /\ queue'[c] = IF post[c].pc = "stream" /\ i = sched.job
                         THEN Append(queue[c], jobs[sched.job].attempts) ELSE queue[c]
      BY <1>8 DEF BackendChunk
    <2>2. sched'.chunks = sched.chunks + 1  BY <1>t, <2>1 DEF SchedState
    <2>3. CASE post[c].pc # "stream"  BY <1>c, <2>1, <2>3 DEF Carries
    <2>4. CASE post[c].pc = "stream" /\ i # sched.job
      <3>1. jobs[i].status # "running"  BY <1>j, <2>4 DEF IInv, WorkerOwnsRunning
      <3>2. queue'[c] = queue[c] /\ sent'[c] = sent[c] /\ post'[c] = post[c] /\ jobs' = jobs  BY <2>1, <2>4
      <3> QED  BY <1>c, <3>1, <3>2 DEF Carries
    <2>5. CASE post[c].pc = "stream" /\ i = sched.job
      <3>1. i \in Ids /\ jobs[i].status = "running" /\ jobs[i].attempts \in Nat  BY <1>j, <1>t, <2>1, <2>5 DEF IInv, WorkerOwnsRunning, Job
      <3>2. queue'[c] = Append(queue[c], jobs[i].attempts) /\ sent'[c] = sent[c] /\ post'[c] = post[c] /\ jobs' = jobs  BY <2>1, <2>5
      <3>3. EndsWith(sent[c] \o queue[c], Chunks(sched.chunks, jobs[i].attempts))  BY <1>c, <2>5, <3>1 DEF Carries
      <3>4. EndsWith(sent[c] \o Append(queue[c], jobs[i].attempts), Chunks(sched.chunks + 1, jobs[i].attempts))
        BY <1>q, <1>t, <3>1, <3>3, EndsWithOneMore
      <3>5. post[c].reply # "result"  BY <1>c, <2>5 DEF Carries
      <3> QED  BY <2>2, <2>5, <3>1, <3>2, <3>4, <3>5 DEF Carries
    <2> QED  BY <2>3, <2>4, <2>5
  <1>9. CASE Crash
    <2>1. /\ sent' = sent
          /\ post'[c] = IF post[c].pc \in {"idle", "done"} THEN post[c] ELSE [post[c] EXCEPT !.pc = "done", !.reply = "gone"]
          /\ sched' = Top
      BY <1>9 DEF Crash
    <2>2. CASE post[c].pc \in {"idle", "done"}
      <3>1. ~BackendChunk
        <4>1. crashes' = crashes + 1 /\ crashes \in Nat  BY <1>9 DEF Crash, IInv, TypeOK
        <4>2. BackendChunk => crashes' = crashes  BY DEF BackendChunk
        <4> QED  BY <4>1, <4>2
      <3> QED  BY <1>c, <2>1, <2>2, <3>1, CarriesStays
    <2>3. CASE post[c].pc \notin {"idle", "done"}
      <3>1. post'[c].pc = "done" /\ post'[c].reply = "gone"  BY <1>t, <2>1, <2>3
      <3> QED  BY <3>1 DEF Carries
    <2> QED  BY <2>2, <2>3
  <1>10. ASSUME ~BackendChunk,
                \/ (\E k \in Ids : Cancel(k) \/ DelayElapses(k)) \/ SchedEnter \/ ResumeAnswered \/ ResumeFails \/ SchedPick
                \/ BackendDone \/ InternalError \/ (\E r \in BOOLEAN : BackendFails(r)) \/ SchedAfter \/ SchedWakes \/ UNCHANGED vars
         PROVE  Goal
    <2>1. UNCHANGED <<post, queue, sent>>
      BY <1>10 DEF Cancel, DelayElapses, SchedEnter, ResumeAnswered, ResumeFails, SchedPick, BackendDone, InternalError,
         BackendFails, SchedAfter, SchedWakes, vars, stream
    <2> QED  BY <1>10, <1>u, <2>1
  <1> QED  BY <1>1, <1>2, <1>3, <1>4, <1>5, <1>6, <1>7, <1>8, <1>9, <1>10 DEF Next

LEMMA CarriesIsResult == IInv /\ StreamsCarry => StreamCarriesResult
  <1> SUFFICES ASSUME IInv, StreamsCarry, NEW c \in Clients, post[c].mode = "stream", post[c].reply = "result"
               PROVE  \E n \in 0..Len(sent[c]) : SubSeq(sent[c], n + 1, Len(sent[c])) = jobs[post[c].job].result
    BY DEF StreamCarriesResult
  <1>1. Carries(post[c], queue[c], sent[c], jobs[post[c].job], sched.chunks)  BY DEF StreamsCarry
  <1>2. post[c].pc = "done" /\ EndsWith(sent[c], jobs[post[c].job].result)  BY <1>1 DEF Carries
  <1>3. post[c].job \in Ids  BY <1>2 DEF IInv, JobsNamed
  <1>4. sent[c] \in Seq(Nat) /\ jobs[post[c].job].result \in Seq(Nat)  BY <1>3 DEF IInv, TypeOK, Job
  <1> QED  BY <1>2, <1>4, EndIsSubSeq

LEMMA InitCarries == Init => StreamsCarry
  <1> SUFFICES ASSUME Init, NEW c \in Clients
               PROVE  Carries(post[c], queue[c], sent[c], jobs[post[c].job], sched.chunks)
    BY DEF StreamsCarry
  <1>1. post[c].pc = "idle" /\ post[c].reply = "none"  BY DEF Init, Idle
  <1> QED  BY <1>1 DEF Carries

\* A stream that ends well carried the whole response of the attempt that completed,
\* through retries, restarts and cancels: it was there from that attempt's first chunk.
THEOREM StreamsCarryResults == Spec => []StreamCarriesResult
  BY Inductive, InitCarries, NextCarries, CarriesIsResult, PTL DEF Spec

-----------------------------------------------------------------------------
(* Router implements JobPromise *)

St == [i \in Ids |-> jobs[i].status]

LEMMA PromiseInit == Init => Promise!Init
  BY DEF Init, Promise!Init, Promise!JobIds, Ids

LEMMA PromiseStep == IInv /\ [Next]_vars => [Promise!Next]_St
  <1> SUFFICES ASSUME IInv, [Next]_vars PROVE [Promise!Next]_St
    OBVIOUS
  <1> USE DEF St, Ids, Promise!JobIds
  <1>t. /\ jobs \in [Ids -> Job] /\ \A i \in Ids : jobs[i] \in Job
        /\ WorkerOwnsRunning /\ JobsNamed
    BY DEF IInv, TypeOK
  <1>h. ASSUME NEW j \in Ids, NEW row, jobs' = [jobs EXCEPT ![j] = row]
        PROVE  St' = [St EXCEPT ![j] = row.status]
    BY <1>h, <1>t
  <1>p. ASSUME NEW j \in Ids, jobs[j].status = "running", St' = [St EXCEPT ![j] = "queued"]
        PROVE  Promise!Next
    <2>1. Promise!PutBack(j)
      BY <1>p DEF Promise!PutBack
    <2> QED BY <2>1 DEF Promise!Next
  <1>e. ASSUME NEW j \in Ids, NEW outcome \in {"complete", "failed", "cancelled"},
               \/ jobs[j].status = "running"
               \/ jobs[j].status = "queued" /\ outcome # "complete",
               St' = [St EXCEPT ![j] = outcome]
        PROVE  Promise!Next
    <2>1. Promise!Finish(j, outcome)
      BY <1>e DEF Promise!Finish
    <2> QED BY <2>1 DEF Promise!Next, Promise!Outcomes
  <1>u. ASSUME NEW j \in Ids, NEW row, row.status = jobs[j].status, jobs' = [jobs EXCEPT ![j] = row]
        PROVE  St' = St
    BY <1>u, <1>t
  <1>1. ASSUME NEW c \in Clients, NEW caller \in Callers, NEW key \in Keys \cup {NoKey},
               NEW mode \in Modes, Admit(c, caller, key, mode)
        PROVE  Promise!Next
    <2>1. PICK j \in Ids : IsNext(j) /\ jobs' = [jobs EXCEPT ![j] = Row(caller, key)]
      BY <1>1 DEF Admit
    <2>2. jobs[j].status = "absent"
      BY <2>1 DEF IsNext
    <2>3. Row(caller, key).status = "queued"
      BY DEF Row
    <2>4. St' = [St EXCEPT ![j] = "queued"]
      BY <1>h, <2>1, <2>3
    <2>5. Promise!Accept(j)
      BY <2>2, <2>4 DEF Promise!Accept
    <2> QED BY <2>5 DEF Promise!Next
  <1>2. ASSUME NEW c \in Clients, HandoffFails(c)
        PROVE  [Promise!Next]_St
    <2>1. /\ post[c].job \in Ids
          /\ jobs' = [jobs EXCEPT ![post[c].job] = FailPending(@)]
      BY <1>2, <1>t DEF HandoffFails, JobsNamed
    <2>2. CASE jobs[post[c].job].status = "queued"
      <3>1. FailPending(jobs[post[c].job]).status = "failed"
        BY <1>t, <2>1, <2>2 DEF FailPending, Job
      <3>2. St' = [St EXCEPT ![post[c].job] = "failed"]
        BY <1>h, <2>1, <3>1
      <3> QED BY <1>e, <2>1, <2>2, <3>2
    <2>3. CASE jobs[post[c].job].status # "queued"
      BY <1>u, <2>1, <2>3 DEF FailPending
    <2> QED BY <2>2, <2>3
  <1>3. ASSUME NEW i \in Ids, Cancel(i)
        PROVE  [Promise!Next]_St
    <2>1. jobs' = [jobs EXCEPT ![i] = CancelRow(@)]
      BY <1>3 DEF Cancel
    <2>2. CASE jobs[i].status = "queued"
      <3>1. CancelRow(jobs[i]).status = "cancelled"
        BY <1>t, <2>2 DEF CancelRow, Job
      <3>2. St' = [St EXCEPT ![i] = "cancelled"]
        BY <1>h, <2>1, <3>1
      <3> QED BY <1>e, <2>2, <3>2
    <2>3. CASE jobs[i].status # "queued"
      <3>1. CancelRow(jobs[i]).status = jobs[i].status
        BY <1>t, <2>3 DEF CancelRow, Job
      <3> QED BY <1>u, <2>1, <3>1
    <2> QED BY <2>2, <2>3
  <1>4. ASSUME NEW i \in Ids, jobs' = [jobs EXCEPT ![i] = [@ EXCEPT !.delayed = FALSE]]
        PROVE  St' = St
    <2>1. [jobs[i] EXCEPT !.delayed = FALSE].status = jobs[i].status
      BY <1>t DEF Job
    <2> QED BY <1>4, <1>u, <2>1
  <1>5. CASE SchedPick
    <2> DEFINE expired == [k \in Ids |-> Expire(jobs[k])]
               lost    == {k \in Ids : jobs[k].status = "queued" /\ jobs[k].attempts >= MaxAttempts}
               kept    == [k \in Ids |-> IF k \in lost THEN "failed" ELSE St[k]]
    <2>1. \A k \in Ids : expired[k].status = kept[k] /\ expired[k] \in Job
      <3> SUFFICES ASSUME NEW k \in Ids
                   PROVE  expired[k].status = kept[k] /\ expired[k] \in Job
        OBVIOUS
      <3>1. jobs[k] \in Job /\ expired[k] = Expire(jobs[k]) /\ expired[k] \in Job
        BY <1>t, RowTypes
      <3>2. Expire(jobs[k]).status = IF k \in lost THEN "failed" ELSE jobs[k].status
        BY <3>1 DEF Expire, Job
      <3> QED BY <3>1, <3>2
    <2>2. lost \in SUBSET {k \in Ids : St[k] = "queued"}
      OBVIOUS
    <2>3. CASE jobs' = expired
      <3>1. St' = kept
        BY <2>1, <2>3
      <3>2. Promise!Choose
        BY <2>2, <3>1 DEF Promise!Choose
      <3> QED BY <3>2 DEF Promise!Next
    <2>4. ASSUME NEW j \in Ids, Startable(expired[j]), jobs' = [expired EXCEPT ![j] = Start(@)]
          PROVE  Promise!Next
      <3>1. Start(expired[j]).status = "running" /\ kept[j] = "queued"
        BY <2>1, <2>4 DEF Start, Startable, Job
      <3>2. St' = [kept EXCEPT ![j] = "running"]
        BY <2>1, <2>4, <3>1
      <3>3. \A k \in Ids : St[k] # "running"
        BY <1>5, <1>t DEF SchedPick, WorkerOwnsRunning
      <3>4. Promise!Choose
        BY <2>2, <3>1, <3>2, <3>3 DEF Promise!Choose, Promise!Executing
      <3> QED BY <3>4 DEF Promise!Next
    <2> QED BY <1>5, <2>3, <2>4 DEF SchedPick
  <1>7. CASE BackendDone \/ InternalError \/ \E r \in BOOLEAN : BackendFails(r)
    <2>1. sched.pc = "run" /\ sched.job \in Ids
      BY <1>7, <1>t DEF BackendDone, InternalError, BackendFails, JobsNamed
    <2>2. jobs[sched.job] \in Job /\ jobs[sched.job].status = "running"
      BY <1>t, <2>1 DEF WorkerOwnsRunning
    <2>3. \A row \in {Complete(jobs[sched.job], sched.chunks),
                      RetryOrFail(jobs[sched.job], TRUE),
                      RetryOrFail(jobs[sched.job], FALSE)} :
            row.status \in {"queued", "complete", "failed", "cancelled"}
      BY <2>2 DEF Complete, RetryOrFail, Job
    <2>4. PICK row \in {Complete(jobs[sched.job], sched.chunks),
                       RetryOrFail(jobs[sched.job], TRUE),
                       RetryOrFail(jobs[sched.job], FALSE)} :
            jobs' = [jobs EXCEPT ![sched.job] = row]
      BY <1>7 DEF BackendDone, InternalError, BackendFails
    <2>5. row.status \in {"queued", "complete", "failed", "cancelled"}
      BY <2>3, <2>4
    <2>6. St' = [St EXCEPT ![sched.job] = row.status]
      BY <1>h, <2>1, <2>4
    <2>7. CASE row.status = "queued"
      BY <1>p, <2>1, <2>2, <2>6, <2>7
    <2>8. CASE row.status \in {"complete", "failed", "cancelled"}
      BY <1>e, <2>1, <2>2, <2>6, <2>8
    <2> QED BY <2>5, <2>7, <2>8
  <1>8. CASE Crash
    <2>1. \A i \in Ids : jobs'[i].status = IF jobs[i].status = "running" THEN "queued"
                                           ELSE jobs[i].status
      BY <1>8, <1>t DEF Crash, Recover, Job
    <2>2. CASE \A i \in Ids : jobs[i].status # "running"
      BY <2>1, <2>2
    <2>3. ASSUME NEW j \in Ids, jobs[j].status = "running"
          PROVE  Promise!Next
      <3>1. \A i \in Ids \ {j} : jobs[i].status # "running"
        BY <1>t, <2>3 DEF WorkerOwnsRunning
      <3>2. St' = [St EXCEPT ![j] = "queued"]
        BY <2>1, <2>3, <3>1
      <3> QED BY <1>p, <2>3, <3>2
    <2> QED BY <2>2, <2>3
  <1>9. ASSUME UNCHANGED jobs PROVE St' = St
    BY <1>9
  <1>10. ASSUME NEW i \in Ids, DelayElapses(i) PROVE St' = St
    BY <1>4, <1>10 DEF DelayElapses
  <1>11. CASE SchedWakes
    BY <1>4, <1>11, <1>t DEF SchedWakes, JobsNamed
  <1>12. ASSUME \/ \E c \in Clients, caller \in Callers, key \in Keys \cup {NoKey}, mode \in Modes :
                     Duplicate(c, caller, key, mode)
                \/ \E c \in Clients : \/ HandoffAnswered(c) \/ WaitEnds(c) \/ StreamTake(c)
                                      \/ StreamEnds(c) \/ ClientGone(c)
                \/ SchedEnter \/ ResumeAnswered \/ ResumeFails \/ BackendChunk \/ SchedAfter
                \/ UNCHANGED vars
         PROVE  St' = St
    BY <1>9, <1>12 DEF Duplicate, HandoffAnswered, WaitEnds, StreamTake, StreamEnds, ClientGone,
       SchedEnter, ResumeAnswered, ResumeFails, BackendChunk, SchedAfter, vars
  <1> HIDE DEF St
  <1> QED BY <1>1, <1>2, <1>3, <1>5, <1>7, <1>8, <1>10, <1>11, <1>12 DEF Next

\* Every behaviour of the queue is one of the promise's: one job executes at a
\* time, only an execution completes a job, and an outcome is for good.
THEOREM Implements == Spec => JobPromise
  <1>1. Spec => Promise!Init /\ [][Promise!Next]_St
    BY PromiseInit, PromiseStep, Inductive, PTL DEF Spec
  <1> QED BY <1>1, PTL DEF JobPromise, Promise!Spec, St
=============================================================================
