----------------------------- MODULE BrokerProofs -----------------------------
(***************************************************************************)
(* Theorems about GpuBroker, for any number of handler threads, prompts,   *)
(* pauses and uploads, and whatever may fail outside the broker, and about *)
(* its hand-off to the router and the image client (ImageHandoff); and     *)
(* about the queue of the fast model (ModelQueue), for every set of calls. *)
(***************************************************************************)
EXTENDS ImageHandoff, ModelQueue, FiniteSetTheorems, TLAPS

\* Runtimes in which ComfyUI and the model do not both claim the GPU, and
\* those of them without a ComfyUI process.
Owned == {r \in RuntimeState : ~(r.process # "none" /\ r.model # "off")}
Stopped == {r \in Owned : r.process = "none"}

\* Results of a private operation, and answers of an endpoint.
Results(R) == [rt : R, ok : BOOLEAN]
Answers == {"ok", "busy", "preempted", "not_found", "error"}
Answered == [rt : Owned, ans : Answers]

USE BrokerAssumption

-----------------------------------------------------------------------------
\* The endpoints' changes of the other fields keep a runtime owned.
LEMMA FieldChanges ==
    /\ \A r \in Owned, p \in PromptIds \cup {NoPrompt} :
         [r EXCEPT !.active = p] \in Owned /\ [r EXCEPT !.preempted = p] \in Owned
    /\ \A r \in Owned, b \in BOOLEAN :
         /\ [r EXCEPT !.hold = b] \in Owned /\ [r EXCEPT !.upload = b] \in Owned
         /\ [r EXCEPT !.preempt = b] \in Owned /\ [r EXCEPT !.done = b] \in Owned
    /\ \A r \in Owned : StopComfy(r) \in Stopped
    /\ \A r \in Stopped : [r EXCEPT !.active = NoPrompt] \in Stopped
    /\ \A r \in RuntimeState : [r EXCEPT !.process = "up", !.model = "off", !.active = NoPrompt] \in Owned
    /\ \A r \in RuntimeState : [r EXCEPT !.model = "off"] \in Owned
    /\ \A r \in RuntimeState : [r EXCEPT !.model = "off", !.active = NoPrompt] \in Owned
    /\ \A r \in Stopped, m \in {"on", "sick", "off"} : [r EXCEPT !.model = m] \in Stopped
  BY DEF Owned, Stopped, RuntimeState, StopComfy

LEMMA OwnedIsState == Owned \subseteq RuntimeState /\ Stopped \subseteq Owned
  BY DEF Owned, Stopped

LEMMA ResultRecords ==
    /\ \A r \in Owned : Ok(r) \in Results(Owned) /\ Raised(r) \in Results(Owned)
    /\ \A r \in Stopped : Ok(r) \in Results(Stopped) /\ Raised(r) \in Results(Stopped)
    /\ \A r \in Owned, a \in Answers : Answer(r, a) \in Answered
    /\ \A m \in Results(Owned) : m.rt \in Owned /\ m.ok \in BOOLEAN
    /\ \A m \in Results(Stopped) : m.rt \in Stopped
    /\ \A m \in Results(Owned), r \in Owned : [m EXCEPT !.rt = r] \in Results(Owned)
    /\ \A m \in Answered : m.rt \in Owned /\ m.ans \in Answers
  BY DEF Results, Answered, Ok, Raised, Answer

\* The model comes back only where no ComfyUI process is left.
LEMMA RestoreStopped == \A r \in Stopped : Restore(r) \subseteq Results(Stopped)
  <1> SUFFICES ASSUME NEW r \in Stopped, NEW m \in Restore(r) PROVE m \in Results(Stopped)
    OBVIOUS
  <1>1. /\ Ok(r) \in Results(Stopped) /\ Raised(r) \in Results(Stopped)
        /\ Ok([r EXCEPT !.model = "on"]) \in Results(Stopped)
        /\ Raised([r EXCEPT !.model = "sick"]) \in Results(Stopped)
    BY FieldChanges, ResultRecords
  <1> QED  BY <1>1 DEF Restore, If

LEMMA CleanupOwned == \A r \in Owned : Cleanup(r) \subseteq Results(Owned)
  <1> SUFFICES ASSUME NEW r \in Owned, NEW m \in Cleanup(r) PROVE m \in Results(Owned)
    OBVIOUS
  <1>1. [r EXCEPT !.upload = FALSE] \in Owned  BY FieldChanges
  <1> QED  BY <1>1, ResultRecords DEF Cleanup, If

LEMMA TeardownOwned == \A r \in Owned : Teardown(r) \subseteq Results(Owned)
  <1> SUFFICES ASSUME NEW r \in Owned, NEW t \in Teardown(r) PROVE t \in Results(Owned)
    OBVIOUS
  <1> DEFINE stopped(c) == IF c.ok THEN Restore(StopComfy(c.rt)) ELSE {c}
  <1>0. PICK c \in Cleanup(r) : \E m \in stopped(c) : t = [m EXCEPT !.rt.active = NoPrompt]
    BY DEF Teardown
  <1>1. PICK m \in stopped(c) : t = [m EXCEPT !.rt.active = NoPrompt]
    BY <1>0
  <1>2. c \in Results(Owned)  BY CleanupOwned
  <1>3. m \in Results(Owned)
    <2>1. CASE c.ok
      <3>1. StopComfy(c.rt) \in Stopped  BY <1>2, ResultRecords, FieldChanges
      <3>2. m \in Results(Stopped)  BY <2>1, <3>1, RestoreStopped
      <3> QED  BY <3>2, OwnedIsState DEF Results
    <2>2. CASE ~c.ok  BY <1>2, <2>2
    <2> QED  BY <2>1, <2>2
  <1>4. m.rt \in Owned  BY <1>3, ResultRecords
  <1>5. [m.rt EXCEPT !.active = NoPrompt] \in Owned  BY <1>4, FieldChanges DEF NoPrompt
  <1>6. t = [m EXCEPT !.rt = [m.rt EXCEPT !.active = NoPrompt]]  BY <1>1
  <1> QED  BY <1>3, <1>5, <1>6, ResultRecords

LEMMA GiveUpOwned == \A r \in Owned : GiveUp(r) \subseteq Owned
  <1> SUFFICES ASSUME NEW r \in Owned, NEW g \in GiveUp(r) PROVE g \in Owned
    OBVIOUS
  <1>1. PICK t \in Teardown(r) : g \in IF t.ok THEN {t.rt} ELSE {u.rt : u \in Teardown(t.rt)}
    BY DEF GiveUp
  <1>2. t.rt \in Owned  BY TeardownOwned, ResultRecords
  <1>3. \A u \in Teardown(t.rt) : u.rt \in Owned  BY <1>2, TeardownOwned, ResultRecords
  <1> QED  BY <1>1, <1>2, <1>3

LEMMA StartOwned == \A r \in Owned : Start(r) \subseteq Results(Owned)
  <1> SUFFICES ASSUME NEW r \in Owned, NEW s \in Start(r) PROVE s \in Results(Owned)
    OBVIOUS
  <1>1. /\ Ok(r) \in Results(Owned) /\ Raised(r) \in Results(Owned)
        /\ Ok([r EXCEPT !.process = "up", !.model = "off", !.active = NoPrompt]) \in Results(Owned)
        /\ Raised([r EXCEPT !.model = "off"]) \in Results(Owned)
    BY FieldChanges, ResultRecords, OwnedIsState
  <1>2. ASSUME NEW m \in Restore(StopComfy([r EXCEPT !.model = "off", !.active = NoPrompt]))
        PROVE  Raised(m.rt) \in Results(Owned)
    <2>1. StopComfy([r EXCEPT !.model = "off", !.active = NoPrompt]) \in Stopped
      BY FieldChanges, OwnedIsState
    <2>2. m.rt \in Stopped  BY <2>1, RestoreStopped, ResultRecords
    <2> QED  BY <2>2, ResultRecords, OwnedIsState
  <1> QED  BY <1>1, <1>2 DEF Start, If

-----------------------------------------------------------------------------
(* Every endpoint leaves an owned runtime, however it ends *)

LEMMA UploadOwned == \A r \in Owned : Upload(r) \subseteq Answered
  <1> SUFFICES ASSUME NEW r \in Owned, NEW o \in Upload(r) PROVE o \in Answered
    OBVIOUS
  <1>1. Answer(r, "busy") \in Answered  BY ResultRecords DEF Answers
  <1>2. ASSUME NEW s \in Start(r)
        PROVE  /\ Answer([s.rt EXCEPT !.upload = TRUE], "ok") \in Answered
               /\ \A g \in GiveUp(s.rt) : Answer(g, "error") \in Answered
               /\ \A t \in Teardown(s.rt) : Answer(t.rt, "error") \in Answered
    <2>1. s.rt \in Owned  BY StartOwned, ResultRecords
    <2>2. [s.rt EXCEPT !.upload = TRUE] \in Owned  BY <2>1, FieldChanges
    <2>3. \A t \in Teardown(s.rt) : t.rt \in Owned  BY <2>1, TeardownOwned, ResultRecords
    <2> QED  BY <2>1, <2>2, <2>3, GiveUpOwned, ResultRecords DEF Answers
  <1> DEFINE after(s) == IF s.ok THEN {Answer([s.rt EXCEPT !.upload = TRUE], "ok")}
                                      \cup If("reject", {Answer(g, "error") : g \in GiveUp(s.rt)})
                         ELSE {Answer(t.rt, "error") : t \in Teardown(s.rt)}
  <1>3. ASSUME NEW s \in Start(r) PROVE after(s) \subseteq Answered
    BY <1>2 DEF If
  <1>4. CASE r.active # NoPrompt
    <2>1. Upload(r) = {Answer(r, "busy")}  BY <1>4 DEF Upload
    <2> QED  BY <2>1, <1>1
  <1>5. CASE r.active = NoPrompt
    <2>1. Upload(r) = UNION {after(s) : s \in Start(r)}  BY <1>5 DEF Upload
    <2> HIDE DEF after
    <2> QED  BY <2>1, <1>3
  <1> QED  BY <1>4, <1>5

LEMMA PromptOwned == \A r \in Owned, p \in PromptIds : Prompt(r, p) \subseteq Answered
  <1> SUFFICES ASSUME NEW r \in Owned, NEW p \in PromptIds, NEW o \in Prompt(r, p)
               PROVE  o \in Answered
    OBVIOUS
  <1> DEFINE fresh == IF r.process = "exited" THEN Teardown(r) ELSE {Ok(r)}
             after(s) == IF s.ok THEN {Answer([s.rt EXCEPT !.active = p], "ok")}
                                      \cup If("reject", {Answer(g, "error") : g \in GiveUp(s.rt)})
                         ELSE {Answer(t.rt, "error") : t \in Teardown(s.rt)}
  <1>1. /\ Answer(r, "preempted") \in Answered /\ Answer(r, "busy") \in Answered
        /\ Answer([r EXCEPT !.preempted = NoPrompt], "preempted") \in Answered
    BY ResultRecords, FieldChanges DEF Answers
  <1>2. \A f \in fresh : f.rt \in Owned /\ Answer(f.rt, "error") \in Answered
    BY TeardownOwned, ResultRecords DEF Answers
  <1>3. ASSUME NEW f \in fresh, NEW s \in Start(f.rt), NEW a \in after(s) PROVE a \in Answered
    <2>1. s.rt \in Owned  BY <1>2, StartOwned, ResultRecords
    <2>2. [s.rt EXCEPT !.active = p] \in Owned  BY <2>1, FieldChanges
    <2>3. \A t \in Teardown(s.rt) : t.rt \in Owned  BY <2>1, TeardownOwned, ResultRecords
    <2>4. /\ Answer([s.rt EXCEPT !.active = p], "ok") \in Answered
          /\ \A g \in GiveUp(s.rt) : Answer(g, "error") \in Answered
          /\ \A t \in Teardown(s.rt) : Answer(t.rt, "error") \in Answered
      BY <2>1, <2>2, <2>3, GiveUpOwned, ResultRecords DEF Answers
    <2> QED  BY <2>4 DEF If
  <1>4. CASE r.hold \/ r.preempted # NoPrompt \/ r.active # NoPrompt
    BY <1>1, <1>4 DEF Prompt
  <1>5. CASE ~r.hold /\ r.preempted = NoPrompt /\ r.active = NoPrompt
    <2>1. Prompt(r, p) = UNION {IF f.ok THEN UNION {after(s) : s \in Start(f.rt)}
                                ELSE {Answer(f.rt, "error")} : f \in fresh}
      BY <1>5 DEF Prompt
    <2> HIDE DEF after, fresh
    <2>2. PICK f \in fresh : o \in IF f.ok THEN UNION {after(s) : s \in Start(f.rt)}
                                  ELSE {Answer(f.rt, "error")}
      BY <2>1
    <2> QED  BY <2>2, <1>2, <1>3
  <1> QED  BY <1>4, <1>5

LEMMA PreemptedOwned == \A r \in Owned : Preempted(r) \subseteq Answered
  <1> SUFFICES ASSUME NEW r \in Owned, NEW t \in Teardown(r)
               PROVE  (IF t.ok THEN Answer([t.rt EXCEPT !.preempt = FALSE, !.done = TRUE], "preempted")
                               ELSE Answer(t.rt, "error")) \in Answered
    BY DEF Preempted
  <1>1. t.rt \in Owned  BY TeardownOwned, ResultRecords
  <1>2. [t.rt EXCEPT !.preempt = FALSE, !.done = TRUE] \in Owned
    BY <1>1 DEF Owned, RuntimeState
  <1> QED  BY <1>1, <1>2, ResultRecords DEF Answers

LEMMA HistoryOwned == \A r \in Owned : \A p : History(r, p) \subseteq Answered
  <1> SUFFICES ASSUME NEW r \in Owned, NEW p, NEW o \in History(r, p)
               PROVE  o \in Answered
    OBVIOUS
  <1>1. /\ Answer(r, "not_found") \in Answered /\ Answer(r, "ok") \in Answered
        /\ Answer([r EXCEPT !.preempted = NoPrompt], "preempted") \in Answered
    BY ResultRecords, FieldChanges DEF Answers
  <1>2. \A t \in Teardown(r) : Answer(t.rt, "error") \in Answered
    BY TeardownOwned, ResultRecords DEF Answers
  <1> QED  BY <1>1, <1>2, PreemptedOwned DEF History

LEMMA ViewOwned == \A r \in Owned : \A p : View(r, p) \subseteq Answered
  <1> SUFFICES ASSUME NEW r \in Owned, NEW p, NEW o \in View(r, p)
               PROVE  o \in Answered
    OBVIOUS
  <1>1. Answer(r, "not_found") \in Answered /\ Answer(r, "ok") \in Answered
    BY ResultRecords DEF Answers
  <1>2. \A t \in Teardown(r) : Answer(t.rt, "error") \in Answered
    BY TeardownOwned, ResultRecords DEF Answers
  <1> QED  BY <1>1, <1>2, PreemptedOwned DEF View, If

LEMMA FinishOwned == \A r \in Owned, keep \in BOOLEAN : FinishViewOf(r, keep) \subseteq Owned
  <1> SUFFICES ASSUME NEW r \in Owned, NEW keep \in BOOLEAN, NEW f \in FinishViewOf(r, keep)
               PROVE  f \in Owned
    OBVIOUS
  <1>1. PICK c \in Cleanup(r) :
          f \in IF ~c.ok THEN {c.rt}
                ELSE IF keep THEN {[c.rt EXCEPT !.active = NoPrompt]}
                ELSE IF c.rt.process = "none" THEN {c.rt}
                ELSE {t.rt : t \in Teardown(c.rt)}
    BY DEF FinishViewOf
  <1>2. c.rt \in Owned  BY CleanupOwned, ResultRecords
  <1>3. [c.rt EXCEPT !.active = NoPrompt] \in Owned  BY <1>2, FieldChanges
  <1>4. \A t \in Teardown(c.rt) : t.rt \in Owned  BY <1>2, TeardownOwned, ResultRecords
  <1> QED  BY <1>1, <1>2, <1>3, <1>4

LEMMA TeardownIfUpOwned == \A r \in Owned : \A t \in TeardownIfUp(r) : t.rt \in Owned
  BY TeardownOwned, ResultRecords DEF TeardownIfUp

-----------------------------------------------------------------------------
(* The invariant: types, and a runtime that is owned *)

PauserPlaces == {"idle", "interrupt", "waiting", "late", "granted", "refused"}
ViewerPlaces == {"idle", "sending"}
Thread == [at : PauserPlaces \cup ViewerPlaces, target : PromptIds \cup {NoPrompt}, keep : BOOLEAN]

Threads == /\ pc \in [Pausers \cup Viewers -> Thread]
           /\ \A t \in Pausers : pc[t].at \in PauserPlaces
           /\ \A v \in Viewers : pc[v].at \in ViewerPlaces
Counters == /\ prompts \in 0..MaxPrompts /\ pauses \in 0..MaxPauses
            /\ uploads \in 0..MaxUploads
BrokerInv == rt \in Owned /\ Threads /\ Counters

\* A thread's record is replaced by another one of its kind.
LEMMA ThreadSet ==
    ASSUME Threads, NEW t \in Pausers \cup Viewers, NEW q \in Thread,
           t \in Pausers => q.at \in PauserPlaces, t \in Viewers => q.at \in ViewerPlaces,
           pc' = [pc EXCEPT ![t] = q]
    PROVE  Threads'
  <1>1. pc' \in [Pausers \cup Viewers -> Thread]  BY DEF Threads
  <1>2. \A u \in Pausers \cup Viewers : pc'[u] = IF u = t THEN q ELSE pc[u]  BY DEF Threads
  <1> QED  BY <1>1, <1>2 DEF Threads

LEMMA PauserAt ==
    ASSUME Threads, NEW t \in Pausers, NEW a \in PauserPlaces, pc' = [pc EXCEPT ![t].at = a]
    PROVE  Threads'
  <1>1. pc[t] \in Thread  BY DEF Threads
  <1>2. [pc[t] EXCEPT !.at = a] \in Thread /\ [pc[t] EXCEPT !.at = a].at = a
    BY <1>1 DEF Thread
  <1>3. pc' = [pc EXCEPT ![t] = [pc[t] EXCEPT !.at = a]]  BY DEF Threads
  <1> QED  BY <1>2, <1>3, ThreadSet

LEMMA IdleThread == Idle \in Thread /\ Idle.at = "idle"
  BY DEF Idle, Thread, PauserPlaces, ViewerPlaces

LEMMA BrokerInitial == BrokerInit => BrokerInv
  <1> SUFFICES ASSUME BrokerInit PROVE BrokerInv
    OBVIOUS
  <1>1. rt \in Owned  BY DEF BrokerInit, InitialRuntime, Owned, RuntimeState
  <1>2. Threads
    BY IdleThread DEF BrokerInit, Threads, PauserPlaces, ViewerPlaces
  <1>3. Counters  BY DEF BrokerInit, Counters
  <1> QED  BY <1>1, <1>2, <1>3 DEF BrokerInv

LEMMA BrokerSteps == BrokerInv /\ [BrokerNext]_brokerVars => BrokerInv'
  <1> SUFFICES ASSUME BrokerInv, [BrokerNext]_brokerVars PROVE BrokerInv'
    OBVIOUS
  <1> USE DEF BrokerInv
  <1>1. CASE UploadCall
    <2>1. rt' \in Owned  BY <1>1, UploadOwned, ResultRecords DEF UploadCall
    <2>2. uploads' \in 0..MaxUploads  BY <1>1 DEF UploadCall, Counters
    <2> QED  BY <1>1, <2>1, <2>2 DEF UploadCall, Threads, Counters
  <1>2. CASE PromptCall
    <2>1. prompts + 1 \in PromptIds  BY <1>2 DEF PromptCall, Counters, PromptIds
    <2>2. rt' \in Owned  BY <1>2, <2>1, PromptOwned, ResultRecords DEF PromptCall
    <2>3. prompts' \in 0..MaxPrompts  BY <1>2 DEF PromptCall, Counters
    <2> QED  BY <1>2, <2>2, <2>3 DEF PromptCall, Threads, Counters
  <1>3. CASE ReleaseCall \/ ExpireIdle
    <2>1. rt' \in Owned  BY <1>3, TeardownIfUpOwned DEF ReleaseCall, ExpireIdle
    <2> QED  BY <1>3, <2>1 DEF ReleaseCall, ExpireIdle, Threads, Counters
  <1>4. CASE ResumeCall
    BY <1>4, FieldChanges DEF ResumeCall, Threads, Counters
  <1>5. CASE ComfyExits
    <2>1. rt' \in Owned  BY <1>5 DEF ComfyExits, Owned, RuntimeState
    <2> QED  BY <1>5, <2>1 DEF ComfyExits, Threads, Counters
  <1>6. CASE ModelRecovers
    <2>1. rt' \in Owned  BY <1>6 DEF ModelRecovers, Owned, RuntimeState
    <2> QED  BY <1>6, <2>1 DEF ModelRecovers, Threads, Counters
  <1>7. CASE ClientsLeave
    BY <1>7 DEF ClientsLeave, Threads, Counters
  <1>8. ASSUME NEW p \in PromptIds, HistoryCall(p) PROVE BrokerInv'
    <2>1. rt' \in Owned  BY <1>8, HistoryOwned, ResultRecords DEF HistoryCall
    <2> QED  BY <1>8, <2>1 DEF HistoryCall, Threads, Counters
  <1>9. ASSUME NEW v \in Viewers, NEW p \in PromptIds, NEW keep \in BOOLEAN, ViewCall(v, p, keep)
        PROVE  BrokerInv'
    <2>1. rt' \in Owned  BY <1>9, ViewOwned, ResultRecords DEF ViewCall
    <2> DEFINE q == [at |-> "sending", target |-> p, keep |-> keep]
    <2>2. q \in Thread /\ q.at \in ViewerPlaces  BY DEF Thread, ViewerPlaces
    <2>3. v \notin Pausers  BY DEF BrokerAssumption
    <2>4. pc' = pc \/ pc' = [pc EXCEPT ![v] = q]  BY <1>9 DEF ViewCall
    <2> HIDE DEF q
    <2>5. Threads'  
      <3>1. CASE pc' = pc  BY <3>1 DEF Threads
      <3>2. CASE pc' = [pc EXCEPT ![v] = q]  BY <2>2, <2>3, <3>2, ThreadSet
      <3> QED  BY <2>4, <3>1, <3>2
    <2> QED  BY <1>9, <2>1, <2>5 DEF ViewCall, Counters
  <1>10. ASSUME NEW v \in Viewers, FinishView(v) PROVE BrokerInv'
    <2>1. pc[v].keep \in BOOLEAN  BY DEF Threads, Thread
    <2>2. rt' \in Owned  BY <1>10, <2>1, FinishOwned DEF FinishView
    <2>3. pc' = [pc EXCEPT ![v] = Idle]  BY <1>10 DEF FinishView
    <2>4. Threads'  BY <2>3, ThreadSet, IdleThread DEF PauserPlaces, ViewerPlaces
    <2> QED  BY <1>10, <2>2, <2>4 DEF FinishView, Counters
  <1>11. ASSUME NEW t \in Pausers, PauseStep(t) PROVE BrokerInv'
    <2>0. pc[t] \in Thread /\ t \notin Viewers  BY DEF Threads, BrokerAssumption
    <2>1. CASE PauseCall(t)
      <3>1. pauses' \in 0..MaxPauses  BY <2>1 DEF PauseCall, Counters
      <3>2. [rt EXCEPT !.hold = TRUE] \in Owned  BY FieldChanges
      <3>3. \A o \in Teardown([rt EXCEPT !.hold = TRUE]) : o.rt \in Owned
        BY <3>2, TeardownOwned, ResultRecords
      <3>4. [rt EXCEPT !.hold = TRUE, !.preempt = TRUE, !.done = FALSE] \in Owned
        BY DEF Owned, RuntimeState
      <3>5. rt' \in Owned  BY <2>1, <3>2, <3>3, <3>4 DEF PauseCall
      <3>6. Threads'
        <4> DEFINE q == [at |-> "interrupt", target |-> rt.active, keep |-> FALSE]
        <4>1. q \in Thread /\ q.at \in PauserPlaces
          BY DEF Thread, PauserPlaces, Owned, RuntimeState
        <4>2. \/ \E a \in PauserPlaces : pc' = [pc EXCEPT ![t].at = a]
              \/ pc' = [pc EXCEPT ![t] = q]
          BY <2>1 DEF PauseCall, PauserPlaces
        <4> HIDE DEF q
        <4> QED  BY <2>0, <4>1, <4>2, PauserAt, ThreadSet
      <3> QED  BY <2>1, <3>1, <3>5, <3>6 DEF PauseCall, Counters
    <2>2. CASE PauseInterrupt(t) \/ PauseWoken(t) \/ PauseTimesOut(t)
      <3>1. \E a \in PauserPlaces : pc' = [pc EXCEPT ![t].at = a]
        BY <2>2 DEF PauseInterrupt, PauseWoken, PauseTimesOut, PauserPlaces
      <3>2. Threads'  BY <3>1, PauserAt
      <3> QED  BY <2>2, <3>2 DEF PauseInterrupt, PauseWoken, PauseTimesOut, Counters
    <2>3. CASE PauseFinish(t)
      <3> DEFINE marked == [rt EXCEPT !.preempted = pc[t].target]
      <3>1. marked \in Owned  BY <2>0, FieldChanges DEF Thread
      <3> HIDE DEF marked
      <3>2. \A o \in Teardown(marked) : o.rt \in Owned  BY <3>1, TeardownOwned, ResultRecords
      <3>3. Ok(rt).rt \in Owned  BY ResultRecords
      <3>4. PICK o \in (IF rt.process = "none" THEN {Ok(rt)} ELSE Teardown(marked)) :
              rt' = IF o.ok THEN [o.rt EXCEPT !.preempt = FALSE, !.done = TRUE] ELSE o.rt
        BY <2>3 DEF PauseFinish, marked
      <3>5. o.rt \in Owned  BY <3>2, <3>3, <3>4
      <3>6. [o.rt EXCEPT !.preempt = FALSE, !.done = TRUE] \in Owned
        BY <3>5 DEF Owned, RuntimeState
      <3>7. \E a \in PauserPlaces : pc' = [pc EXCEPT ![t].at = a]
        BY <2>3 DEF PauseFinish, PauserPlaces
      <3>8. Threads'  BY <3>7, PauserAt
      <3> QED  BY <2>3, <3>4, <3>5, <3>6, <3>8 DEF PauseFinish, Counters
    <2>4. CASE PauseAnswered(t)
      <3>1. pc' = [pc EXCEPT ![t] = Idle]  BY <2>4 DEF PauseAnswered
      <3>2. Threads'  BY <3>1, ThreadSet, IdleThread DEF PauserPlaces, ViewerPlaces
      <3> QED  BY <2>4, <3>2 DEF PauseAnswered, Counters
    <2> QED  BY <1>11, <2>1, <2>2, <2>3, <2>4 DEF PauseStep
  <1>12. CASE UNCHANGED brokerVars
    BY <1>12 DEF brokerVars, Threads, Counters
  <1> QED  BY <1>1, <1>2, <1>3, <1>4, <1>5, <1>6, <1>7, <1>8, <1>9, <1>10, <1>11, <1>12 DEF BrokerNext

\* The runtime, the handler threads and the counters have their types.
THEOREM BrokerTypes == BrokerSpec => []BrokerTypeOK
  <1>1. BrokerInv => BrokerTypeOK
    BY DEF BrokerInv, BrokerTypeOK, Owned, Threads, Counters, PauserPlaces, ViewerPlaces
  <1> QED  BY <1>1, BrokerInitial, BrokerSteps, PTL DEF BrokerSpec

\* ComfyUI and the model server never claim the GPU together
\* (_start_locked, _restore_model_locked, _teardown_locked), whatever the
\* endpoints are called with and whatever fails in the middle of them.
THEOREM GpuHasOneOwner == BrokerSpec => []OneOwner
  <1>1. BrokerInv => OneOwner  BY DEF BrokerInv, Owned, OneOwner
  <1> QED  BY <1>1, BrokerInitial, BrokerSteps, PTL DEF BrokerSpec

-----------------------------------------------------------------------------
(***************************************************************************)
(* What a pause leaves behind.  The flag, the mark and every pause that    *)
(* has not finished may each still cost one image_preempted answer; this   *)
(* debt and the answers given never exceed two per pause.                  *)
(***************************************************************************)

Marks(r) == <<r.preempt, r.preempted>>
Debt(r) == (IF r.preempt THEN 1 ELSE 0) + (IF r.preempted # NoPrompt THEN 1 ELSE 0)
Cost(r, a) == IF a = "preempted" /\ ~r.hold THEN 1 ELSE 0
UnfinishedPlaces == {"interrupt", "waiting", "late"}
Unfinished(c) == {t \in Pausers : c[t].at \in UnfinishedPlaces}
Left(c) == Cardinality(Unfinished(c))

Paid == conflicts \in Nat /\ conflicts + Debt(rt) + Left(pc) <= 2 * pauses

LEMMA FieldMarks ==
    \A r \in RuntimeState :
      /\ \A m \in {"on", "sick", "off"} : Marks([r EXCEPT !.model = m]) = Marks(r)
      /\ \A p \in PromptIds \cup {NoPrompt} : Marks([r EXCEPT !.active = p]) = Marks(r)
      /\ \A b \in BOOLEAN : Marks([r EXCEPT !.upload = b]) = Marks(r)
      /\ Marks(StopComfy(r)) = Marks(r)
      /\ Marks([r EXCEPT !.process = "up", !.model = "off", !.active = NoPrompt]) = Marks(r)
      /\ Marks([r EXCEPT !.model = "off", !.active = NoPrompt]) = Marks(r)
  BY DEF RuntimeState, Marks, StopComfy

LEMMA ResultFields ==
    /\ \A r : Ok(r).rt = r /\ Raised(r).rt = r
    /\ \A r, a : Answer(r, a).rt = r /\ Answer(r, a).ans = a
  BY DEF Ok, Raised, Answer

LEMMA RestoreMarks == \A r \in Stopped : \A m \in Restore(r) : Marks(m.rt) = Marks(r)
  <1> SUFFICES ASSUME NEW r \in Stopped, NEW m \in Restore(r) PROVE Marks(m.rt) = Marks(r)
    OBVIOUS
  <1>1. r \in RuntimeState  BY OwnedIsState
  <1>2. m.rt \in {r, [r EXCEPT !.model = "on"], [r EXCEPT !.model = "sick"]}
    BY ResultFields DEF Restore, If
  <1> QED  BY <1>1, <1>2, FieldMarks

LEMMA CleanupMarks == \A r \in Owned : \A m \in Cleanup(r) : Marks(m.rt) = Marks(r)
  <1> SUFFICES ASSUME NEW r \in Owned, NEW m \in Cleanup(r) PROVE Marks(m.rt) = Marks(r)
    OBVIOUS
  <1>1. m.rt = [r EXCEPT !.upload = FALSE]  BY ResultFields DEF Cleanup, If
  <1> QED  BY <1>1, FieldMarks, OwnedIsState

LEMMA TeardownMarks == \A r \in Owned : \A t \in Teardown(r) : Marks(t.rt) = Marks(r)
  <1> SUFFICES ASSUME NEW r \in Owned, NEW t \in Teardown(r) PROVE Marks(t.rt) = Marks(r)
    OBVIOUS
  <1> DEFINE stopped(c) == IF c.ok THEN Restore(StopComfy(c.rt)) ELSE {c}
  <1>1. PICK c \in Cleanup(r) : \E m \in stopped(c) : t = [m EXCEPT !.rt.active = NoPrompt]
    BY DEF Teardown
  <1>2. PICK m \in stopped(c) : t = [m EXCEPT !.rt.active = NoPrompt]
    BY <1>1
  <1>3. c \in Results(Owned)  BY CleanupOwned
  <1>4. StopComfy(c.rt) \in Stopped /\ Marks(StopComfy(c.rt)) = Marks(r)
    BY <1>3, ResultRecords, FieldChanges, FieldMarks, OwnedIsState, CleanupMarks
  <1>5. m \in Results(Owned) /\ Marks(m.rt) = Marks(r)
    <2>1. CASE c.ok
      <3>1. m \in Restore(StopComfy(c.rt))  BY <2>1
      <3>2. m \in Results(Stopped)  BY <1>4, <3>1, RestoreStopped
      <3>3. Marks(m.rt) = Marks(r)  BY <1>4, <3>1, RestoreMarks
      <3> QED  BY <3>2, <3>3, OwnedIsState DEF Results
    <2>2. CASE ~c.ok  BY <1>3, <2>2, CleanupMarks
    <2> QED  BY <2>1, <2>2
  <1>6. t.rt = [m.rt EXCEPT !.active = NoPrompt]  BY <1>2, <1>5 DEF Results
  <1>7. m.rt \in RuntimeState  BY <1>5, ResultRecords, OwnedIsState
  <1>8. Marks([m.rt EXCEPT !.active = NoPrompt]) = Marks(m.rt)  BY <1>7, FieldMarks
  <1> QED  BY <1>5, <1>6, <1>8

LEMMA GiveUpMarks == \A r \in Owned : \A g \in GiveUp(r) : Marks(g) = Marks(r)
  <1> SUFFICES ASSUME NEW r \in Owned, NEW g \in GiveUp(r) PROVE Marks(g) = Marks(r)
    OBVIOUS
  <1>1. PICK t \in Teardown(r) : g \in IF t.ok THEN {t.rt} ELSE {u.rt : u \in Teardown(t.rt)}
    BY DEF GiveUp
  <1>2. t.rt \in Owned /\ Marks(t.rt) = Marks(r)  BY TeardownOwned, TeardownMarks, ResultRecords
  <1>3. \A u \in Teardown(t.rt) : Marks(u.rt) = Marks(r)  BY <1>2, TeardownMarks
  <1> QED  BY <1>1, <1>2, <1>3

LEMMA StartMarks == \A r \in Owned : \A s \in Start(r) : Marks(s.rt) = Marks(r)
  <1> SUFFICES ASSUME NEW r \in Owned, NEW s \in Start(r) PROVE Marks(s.rt) = Marks(r)
    OBVIOUS
  <1> DEFINE down == [r EXCEPT !.model = "off", !.active = NoPrompt]
  <1>1. StopComfy(down) \in Stopped /\ Marks(StopComfy(down)) = Marks(r)
    <2>1. down \in Owned /\ Marks(down) = Marks(r)  BY FieldChanges, FieldMarks, OwnedIsState
    <2> HIDE DEF down
    <2> QED  BY <2>1, FieldChanges, FieldMarks, OwnedIsState
  <1>2. \A m \in Restore(StopComfy(down)) : Marks(m.rt) = Marks(r)  BY <1>1, RestoreMarks
  <1>3. \/ s.rt \in {r, [r EXCEPT !.process = "up", !.model = "off", !.active = NoPrompt],
                     [r EXCEPT !.model = "off"]}
        \/ \E m \in Restore(StopComfy(down)) : s.rt = m.rt
    BY ResultFields DEF Start, If
  <1> HIDE DEF down
  <1> QED  BY <1>2, <1>3, FieldMarks, OwnedIsState

LEMMA DebtOf == /\ \A r, s : Marks(s) = Marks(r) => Debt(s) = Debt(r)
                /\ \A r : Debt(r) \in {0, 1, 2}
  BY DEF Marks, Debt

\* What each endpoint answers is paid for by what it clears.
LEMMA UploadPays ==
    \A r \in Owned : \A o \in Upload(r) : Debt(o.rt) = Debt(r)
  <1> SUFFICES ASSUME NEW r \in Owned, NEW o \in Upload(r) PROVE Marks(o.rt) = Marks(r)
    BY DebtOf
  <1> DEFINE after(s) == IF s.ok THEN {Answer([s.rt EXCEPT !.upload = TRUE], "ok")}
                                      \cup If("reject", {Answer(g, "error") : g \in GiveUp(s.rt)})
                         ELSE {Answer(t.rt, "error") : t \in Teardown(s.rt)}
  <1>1. CASE r.active # NoPrompt
    <2>1. Upload(r) = {Answer(r, "busy")}  BY <1>1 DEF Upload
    <2> QED  BY <2>1, ResultFields
  <1>2. CASE r.active = NoPrompt
    <2>1. Upload(r) = UNION {after(s) : s \in Start(r)}  BY <1>2 DEF Upload
    <2>2. PICK s \in Start(r) : o \in after(s)
      <3> HIDE DEF after
      <3> QED  BY <2>1
    <2>3. s.rt \in Owned /\ Marks(s.rt) = Marks(r)  BY StartOwned, StartMarks, ResultRecords
    <2>4. Marks([s.rt EXCEPT !.upload = TRUE]) = Marks(s.rt)  BY <2>3, FieldMarks, OwnedIsState
    <2>5. \/ o.rt = [s.rt EXCEPT !.upload = TRUE]
          \/ o.rt \in GiveUp(s.rt)
          \/ \E t \in Teardown(s.rt) : o.rt = t.rt
      BY <2>2, ResultFields DEF If
    <2> QED  BY <2>3, <2>4, <2>5, GiveUpMarks, TeardownMarks
  <1> QED  BY <1>1, <1>2

LEMMA PromptPays ==
    \A r \in Owned, p \in PromptIds : \A o \in Prompt(r, p) : Debt(o.rt) + Cost(r, o.ans) <= Debt(r)
  <1> SUFFICES ASSUME NEW r \in Owned, NEW p \in PromptIds, NEW o \in Prompt(r, p)
               PROVE  Debt(o.rt) + Cost(r, o.ans) <= Debt(r)
    OBVIOUS
  <1> DEFINE fresh == IF r.process = "exited" THEN Teardown(r) ELSE {Ok(r)}
             after(s) == IF s.ok THEN {Answer([s.rt EXCEPT !.active = p], "ok")}
                                      \cup If("reject", {Answer(g, "error") : g \in GiveUp(s.rt)})
                         ELSE {Answer(t.rt, "error") : t \in Teardown(s.rt)}
  <1>0. Debt(r) \in {0, 1, 2}  BY DebtOf
  <1>1. CASE r.hold
    <2>1. o = Answer(r, "preempted")  BY <1>1 DEF Prompt
    <2> QED  BY <1>0, <1>1, <2>1, ResultFields DEF Cost
  <1>2. CASE ~r.hold /\ r.preempted # NoPrompt
    <2>1. o = Answer([r EXCEPT !.preempted = NoPrompt], "preempted")  BY <1>2 DEF Prompt
    <2>2. o.rt = [r EXCEPT !.preempted = NoPrompt]  BY <2>1, ResultFields
    <2>3. o.rt.preempted = NoPrompt /\ o.rt.preempt = r.preempt
      BY <2>2 DEF Owned, RuntimeState
    <2>4. Debt(o.rt) + 1 = Debt(r)  BY <1>2, <2>3 DEF Debt
    <2>5. Cost(r, o.ans) \in {0, 1}  BY DEF Cost
    <2>6. Debt(o.rt) \in {0, 1, 2}  BY DebtOf
    <2> QED  BY <1>0, <2>4, <2>5, <2>6
  <1>3. CASE ~r.hold /\ r.preempted = NoPrompt /\ r.active # NoPrompt
    <2>1. o = Answer(r, "busy")  BY <1>3 DEF Prompt
    <2> QED  BY <1>0, <2>1, ResultFields DEF Cost
  <1>4. CASE ~r.hold /\ r.preempted = NoPrompt /\ r.active = NoPrompt
    <2>1. Prompt(r, p) = UNION {IF f.ok THEN UNION {after(s) : s \in Start(f.rt)}
                                ELSE {Answer(f.rt, "error")} : f \in fresh}
      BY <1>4 DEF Prompt
    <2>2. PICK f \in fresh : o \in IF f.ok THEN UNION {after(s) : s \in Start(f.rt)}
                                  ELSE {Answer(f.rt, "error")}
      <3> HIDE DEF after, fresh
      <3> QED  BY <2>1
    <2>3. f.rt \in Owned /\ Marks(f.rt) = Marks(r)
      BY TeardownOwned, TeardownMarks, ResultRecords, ResultFields
    <2>4. Marks(o.rt) = Marks(r) /\ o.ans \in {"ok", "error"}
      <3>1. CASE ~f.ok  BY <2>2, <2>3, <3>1, ResultFields
      <3>2. CASE f.ok
        <4>1. PICK s \in Start(f.rt) : o \in after(s)
          <5> HIDE DEF after, fresh
          <5> QED  BY <2>2, <3>2
        <4>2. s.rt \in Owned /\ Marks(s.rt) = Marks(r)
          BY <2>3, StartOwned, StartMarks, ResultRecords
        <4>3. Marks([s.rt EXCEPT !.active = p]) = Marks(s.rt)  BY <4>2, FieldMarks, OwnedIsState
        <4>4. /\ \/ o.rt = [s.rt EXCEPT !.active = p]
                 \/ o.rt \in GiveUp(s.rt)
                 \/ \E t \in Teardown(s.rt) : o.rt = t.rt
              /\ o.ans \in {"ok", "error"}
          BY <4>1, ResultFields DEF If
        <4> QED  BY <4>2, <4>3, <4>4, GiveUpMarks, TeardownMarks
      <3> QED  BY <3>1, <3>2
    <2>5. Debt(o.rt) = Debt(r) /\ Cost(r, o.ans) = 0  BY <2>4, DebtOf DEF Cost
    <2> QED  BY <1>0, <2>5
  <1> QED  BY <1>1, <1>2, <1>3, <1>4

LEMMA PreemptedPays ==
    \A r \in Owned : r.preempt =>
       \A o \in Preempted(r) : Debt(o.rt) + Cost(r, o.ans) <= Debt(r)
  <1> SUFFICES ASSUME NEW r \in Owned, r.preempt, NEW o \in Preempted(r)
               PROVE  Debt(o.rt) + Cost(r, o.ans) <= Debt(r)
    OBVIOUS
  <1>0. Debt(r) \in {0, 1, 2} /\ Cost(r, o.ans) \in {0, 1}  BY DebtOf DEF Cost
  <1>1. PICK t \in Teardown(r) :
          o = IF t.ok THEN Answer([t.rt EXCEPT !.preempt = FALSE, !.done = TRUE], "preempted")
              ELSE Answer(t.rt, "error")
    BY DEF Preempted
  <1>2. t.rt \in Owned /\ Marks(t.rt) = Marks(r)  BY TeardownOwned, TeardownMarks, ResultRecords
  <1>3. CASE t.ok
    <2>1. o.rt = [t.rt EXCEPT !.preempt = FALSE, !.done = TRUE]  BY <1>1, <1>3, ResultFields
    <2>2. ~o.rt.preempt /\ o.rt.preempted = r.preempted
      BY <1>2, <2>1 DEF Owned, RuntimeState, Marks
    <2>3. Debt(o.rt) + 1 = Debt(r)  BY <2>2 DEF Debt
    <2>4. Debt(o.rt) \in {0, 1, 2}  BY DebtOf
    <2> QED  BY <1>0, <2>3, <2>4
  <1>4. CASE ~t.ok
    <2>1. o.rt = t.rt /\ o.ans = "error"  BY <1>1, <1>4, ResultFields
    <2>2. Debt(o.rt) = Debt(r) /\ Cost(r, o.ans) = 0  BY <1>2, <2>1, DebtOf DEF Cost
    <2> QED  BY <1>0, <2>2
  <1> QED  BY <1>3, <1>4

LEMMA HistoryPays ==
    \A r \in Owned, p \in PromptIds : \A o \in History(r, p) : Debt(o.rt) + Cost(r, o.ans) <= Debt(r)
  <1> SUFFICES ASSUME NEW r \in Owned, NEW p \in PromptIds, NEW o \in History(r, p)
               PROVE  Debt(o.rt) + Cost(r, o.ans) <= Debt(r)
    OBVIOUS
  <1>0. Debt(r) \in {0, 1, 2} /\ Cost(r, o.ans) \in {0, 1}  BY DebtOf DEF Cost
  <1>1. \/ p = r.preempted /\ o = Answer([r EXCEPT !.preempted = NoPrompt], "preempted")
        \/ r.preempt /\ o \in Preempted(r)
        \/ \E t \in Teardown(r) : o = Answer(t.rt, "error")
        \/ o = Answer(r, "not_found") \/ o = Answer(r, "ok")
    BY DEF History
  <1>2. CASE p = r.preempted /\ o = Answer([r EXCEPT !.preempted = NoPrompt], "preempted")
    <2>1. o.rt = [r EXCEPT !.preempted = NoPrompt]  BY <1>2, ResultFields
    <2>2. o.rt.preempted = NoPrompt /\ o.rt.preempt = r.preempt
      BY <2>1 DEF Owned, RuntimeState
    <2>3. r.preempted # NoPrompt  BY <1>2 DEF PromptIds, NoPrompt
    <2>4. Debt(o.rt) + 1 = Debt(r)  BY <2>2, <2>3 DEF Debt
    <2>5. Debt(o.rt) \in {0, 1, 2}  BY DebtOf
    <2> QED  BY <1>0, <2>4, <2>5
  <1>3. CASE r.preempt /\ o \in Preempted(r)  BY <1>3, PreemptedPays
  <1>4. CASE \E t \in Teardown(r) : o = Answer(t.rt, "error")
    <2>1. Marks(o.rt) = Marks(r) /\ o.ans = "error"  BY <1>4, TeardownMarks, ResultFields
    <2>2. Debt(o.rt) = Debt(r) /\ Cost(r, o.ans) = 0  BY <2>1, DebtOf DEF Cost
    <2> QED  BY <1>0, <2>2
  <1>5. CASE o = Answer(r, "not_found") \/ o = Answer(r, "ok")
    <2>1. o.rt = r /\ Cost(r, o.ans) = 0  BY <1>5, ResultFields DEF Cost
    <2> QED  BY <1>0, <2>1
  <1> QED  BY <1>1, <1>2, <1>3, <1>4, <1>5

LEMMA ViewPays ==
    \A r \in Owned, p \in PromptIds : \A o \in View(r, p) : Debt(o.rt) + Cost(r, o.ans) <= Debt(r)
  <1> SUFFICES ASSUME NEW r \in Owned, NEW p \in PromptIds, NEW o \in View(r, p)
               PROVE  Debt(o.rt) + Cost(r, o.ans) <= Debt(r)
    OBVIOUS
  <1>0. Debt(r) \in {0, 1, 2} /\ Cost(r, o.ans) \in {0, 1}  BY DebtOf DEF Cost
  <1>1. \/ r.preempt /\ o \in Preempted(r)
        \/ \E t \in Teardown(r) : o = Answer(t.rt, "error")
        \/ o = Answer(r, "not_found") \/ o = Answer(r, "ok")
    BY DEF View, If
  <1>2. CASE r.preempt /\ o \in Preempted(r)  BY <1>2, PreemptedPays
  <1>3. CASE \E t \in Teardown(r) : o = Answer(t.rt, "error")
    <2>1. Marks(o.rt) = Marks(r) /\ o.ans = "error"  BY <1>3, TeardownMarks, ResultFields
    <2>2. Debt(o.rt) = Debt(r) /\ Cost(r, o.ans) = 0  BY <2>1, DebtOf DEF Cost
    <2> QED  BY <1>0, <2>2
  <1>4. CASE o = Answer(r, "not_found") \/ o = Answer(r, "ok")
    <2>1. o.rt = r /\ Cost(r, o.ans) = 0  BY <1>4, ResultFields DEF Cost
    <2> QED  BY <1>0, <2>1
  <1> QED  BY <1>1, <1>2, <1>3, <1>4

LEMMA FinishPays ==
    \A r \in Owned, keep \in BOOLEAN : \A f \in FinishViewOf(r, keep) : Debt(f) = Debt(r)
  <1> SUFFICES ASSUME NEW r \in Owned, NEW keep \in BOOLEAN, NEW f \in FinishViewOf(r, keep)
               PROVE  Marks(f) = Marks(r)
    BY DebtOf
  <1>1. PICK c \in Cleanup(r) :
          f \in IF ~c.ok THEN {c.rt}
                ELSE IF keep THEN {[c.rt EXCEPT !.active = NoPrompt]}
                ELSE IF c.rt.process = "none" THEN {c.rt}
                ELSE {t.rt : t \in Teardown(c.rt)}
    BY DEF FinishViewOf
  <1>2. c.rt \in Owned /\ Marks(c.rt) = Marks(r)  BY CleanupOwned, CleanupMarks, ResultRecords
  <1>3. Marks([c.rt EXCEPT !.active = NoPrompt]) = Marks(c.rt)  BY <1>2, FieldMarks, OwnedIsState
  <1>4. \A t \in Teardown(c.rt) : Marks(t.rt) = Marks(r)  BY <1>2, TeardownMarks
  <1> QED  BY <1>1, <1>2, <1>3, <1>4

LEMMA TeardownIfUpPays == \A r \in Owned : \A t \in TeardownIfUp(r) : Debt(t.rt) = Debt(r)
  BY TeardownMarks, ResultFields, DebtOf DEF TeardownIfUp

-----------------------------------------------------------------------------
(* The pauses that have not finished, counted *)

LEMMA LeftType == \A c : Left(c) \in Nat /\ IsFiniteSet(Unfinished(c))
  <1> SUFFICES ASSUME NEW c PROVE Left(c) \in Nat /\ IsFiniteSet(Unfinished(c))
    OBVIOUS
  <1>1. Unfinished(c) \in SUBSET Pausers /\ IsFiniteSet(Pausers)
    BY DEF Unfinished, BrokerAssumption
  <1>2. IsFiniteSet(Unfinished(c))  BY <1>1, FS_Subset
  <1> QED  BY <1>2, FS_CardinalityType DEF Left

\* A handler that does not pause is not counted.
LEMMA LeftOther ==
    ASSUME Threads, NEW v \in Viewers, NEW q, pc' = [pc EXCEPT ![v] = q]
    PROVE  Left(pc') = Left(pc)
  <1>1. v \notin Pausers  BY DEF BrokerAssumption
  <1>2. \A u \in Pausers : pc'[u] = pc[u]  BY <1>1 DEF Threads
  <1>3. Unfinished(pc') = Unfinished(pc)  BY <1>2 DEF Unfinished
  <1> QED  BY <1>3 DEF Left

\* One that pauses enters, leaves or stays.
LEMMA LeftMoves ==
    ASSUME Threads, NEW t \in Pausers, NEW q, pc' = [pc EXCEPT ![t] = q]
    PROVE  /\ q.at \in UnfinishedPlaces /\ pc[t].at \notin UnfinishedPlaces => Left(pc') = Left(pc) + 1
           /\ q.at \notin UnfinishedPlaces /\ pc[t].at \in UnfinishedPlaces => Left(pc') = Left(pc) - 1
           /\ (q.at \in UnfinishedPlaces <=> pc[t].at \in UnfinishedPlaces) => Left(pc') = Left(pc)
  <1>1. \A u \in Pausers : pc'[u] = IF u = t THEN q ELSE pc[u]  BY DEF Threads
  <1>2. IsFiniteSet(Unfinished(pc))  BY LeftType
  <1>3. CASE q.at \in UnfinishedPlaces /\ pc[t].at \notin UnfinishedPlaces
    <2>1. Unfinished(pc') = Unfinished(pc) \cup {t} /\ t \notin Unfinished(pc)
      BY <1>1, <1>3 DEF Unfinished
    <2>2. Left(pc') = Left(pc) + 1  BY <1>2, <2>1, FS_AddElement DEF Left
    <2> QED  BY <1>3, <2>2
  <1>4. CASE q.at \notin UnfinishedPlaces /\ pc[t].at \in UnfinishedPlaces
    <2>1. Unfinished(pc') = Unfinished(pc) \ {t} /\ t \in Unfinished(pc)
      BY <1>1, <1>4 DEF Unfinished
    <2>2. Left(pc') = Left(pc) - 1  BY <1>2, <2>1, FS_RemoveElement DEF Left
    <2> QED  BY <1>4, <2>2
  <1>5. CASE q.at \in UnfinishedPlaces <=> pc[t].at \in UnfinishedPlaces
    <2>1. Unfinished(pc') = Unfinished(pc)  BY <1>1, <1>5 DEF Unfinished
    <2>2. Left(pc') = Left(pc)  BY <2>1 DEF Left
    <2> QED  BY <1>5, <2>2
  <1> QED  BY <1>3, <1>4, <1>5

\* The same for a handler that only changes its place.
LEMMA LeftAt ==
    ASSUME Threads, NEW t \in Pausers, NEW a, pc' = [pc EXCEPT ![t].at = a]
    PROVE  /\ a \in UnfinishedPlaces /\ pc[t].at \notin UnfinishedPlaces => Left(pc') = Left(pc) + 1
           /\ a \notin UnfinishedPlaces /\ pc[t].at \in UnfinishedPlaces => Left(pc') = Left(pc) - 1
           /\ (a \in UnfinishedPlaces <=> pc[t].at \in UnfinishedPlaces) => Left(pc') = Left(pc)
  <1>1. [pc[t] EXCEPT !.at = a].at = a  BY DEF Threads, Thread
  <1>2. pc' = [pc EXCEPT ![t] = [pc[t] EXCEPT !.at = a]]  BY DEF Threads
  <1> QED  BY <1>1, <1>2, LeftMoves

-----------------------------------------------------------------------------
(* Every step pays *)

LEMMA PaidInitial == BrokerInit => Paid
  <1> SUFFICES ASSUME BrokerInit PROVE Paid
    OBVIOUS
  <1>1. Unfinished(pc) = {}
    BY IdleThread DEF BrokerInit, Unfinished, UnfinishedPlaces
  <1>2. Left(pc) = 0  BY <1>1, FS_EmptySet DEF Left
  <1>3. Debt(rt) = 0  BY DEF BrokerInit, InitialRuntime, Debt
  <1> QED  BY <1>2, <1>3 DEF BrokerInit, Paid

\* What an answer costs is what conflicts counts.
LEMMA CountedIs ==
    \A a : Paid => Counted(a) = conflicts + Cost(rt, a) /\ Counted(a) \in Nat
  BY DEF Counted, Cost, Paid

LEMMA PaidSteps == BrokerInv /\ Paid /\ [BrokerNext]_brokerVars => Paid'
  <1> SUFFICES ASSUME BrokerInv, Paid, [BrokerNext]_brokerVars PROVE Paid'
    OBVIOUS
  <1>0. /\ rt \in Owned /\ Threads /\ pauses \in Nat /\ conflicts \in Nat
        /\ conflicts + Debt(rt) + Left(pc) <= 2 * pauses
        /\ Left(pc) \in Nat /\ Debt(rt) \in {0, 1, 2} /\ Debt(rt') \in {0, 1, 2}
    BY LeftType, DebtOf DEF BrokerInv, Counters, Paid
  \* Steps that leave the debt, the pauses and the conflicts alone.
  <1>a. ASSUME Debt(rt') = Debt(rt), Left(pc') = Left(pc), UNCHANGED <<pauses, conflicts>>
        PROVE  Paid'
    BY <1>0, <1>a DEF Paid
  \* Endpoints that may answer image_preempted.
  <1>b. ASSUME NEW a, Debt(rt') + Cost(rt, a) <= Debt(rt), conflicts' = Counted(a),
               Left(pc') = Left(pc), pauses' = pauses
        PROVE  Paid'
    <2>1. Cost(rt, a) \in {0, 1}  BY DEF Cost
    <2>2. conflicts' = conflicts + Cost(rt, a) /\ conflicts' \in Nat  BY <1>b, CountedIs
    <2> QED  BY <1>0, <1>b, <2>1, <2>2 DEF Paid
  <1>1. CASE UploadCall
    BY <1>0, <1>1, <1>a, UploadPays DEF UploadCall
  <1>2. CASE PromptCall
    <2>1. prompts + 1 \in PromptIds
      BY <1>2 DEF PromptCall, BrokerInv, Counters, PromptIds, BrokerAssumption
    <2>2. PICK o \in Prompt(rt, prompts + 1) : rt' = o.rt /\ conflicts' = Counted(o.ans)
      BY <1>2 DEF PromptCall
    <2>3. Debt(rt') + Cost(rt, o.ans) <= Debt(rt)  BY <1>0, <2>1, <2>2, PromptPays
    <2> QED  BY <1>2, <1>b, <2>2, <2>3 DEF PromptCall
  <1>3. CASE ReleaseCall \/ ExpireIdle
    BY <1>0, <1>3, <1>a, TeardownIfUpPays DEF ReleaseCall, ExpireIdle
  <1>4. CASE ResumeCall \/ ComfyExits \/ ModelRecovers \/ ClientsLeave
    <2>1. Debt(rt') = Debt(rt)
      BY <1>0, <1>4 DEF ResumeCall, ComfyExits, ModelRecovers, ClientsLeave, Owned, RuntimeState, Debt
    <2> QED  BY <1>4, <1>a, <2>1 DEF ResumeCall, ComfyExits, ModelRecovers, ClientsLeave
  <1>5. ASSUME NEW p \in PromptIds, HistoryCall(p) PROVE Paid'
    <2>1. PICK o \in History(rt, p) : rt' = o.rt /\ conflicts' = Counted(o.ans)
      BY <1>5 DEF HistoryCall
    <2>2. Debt(rt') + Cost(rt, o.ans) <= Debt(rt)  BY <1>0, <2>1, HistoryPays
    <2> QED  BY <1>5, <1>b, <2>1, <2>2 DEF HistoryCall
  <1>6. ASSUME NEW v \in Viewers, NEW p \in PromptIds, NEW keep \in BOOLEAN, ViewCall(v, p, keep)
        PROVE  Paid'
    <2>1. PICK o \in View(rt, p) : rt' = o.rt /\ conflicts' = Counted(o.ans)
      BY <1>6 DEF ViewCall
    <2>2. Debt(rt') + Cost(rt, o.ans) <= Debt(rt)  BY <1>0, <2>1, ViewPays
    <2>3. Left(pc') = Left(pc)  BY <1>0, <1>6, LeftOther DEF ViewCall
    <2> QED  BY <1>6, <1>b, <2>1, <2>2, <2>3 DEF ViewCall
  <1>7. ASSUME NEW v \in Viewers, FinishView(v) PROVE Paid'
    <2>1. pc[v].keep \in BOOLEAN  BY <1>0 DEF Threads, Thread
    <2>2. Debt(rt') = Debt(rt)  BY <1>0, <1>7, <2>1, FinishPays DEF FinishView
    <2>3. Left(pc') = Left(pc)  BY <1>0, <1>7, LeftOther DEF FinishView
    <2> QED  BY <1>7, <1>a, <2>2, <2>3 DEF FinishView
  <1>8. ASSUME NEW t \in Pausers, PauseStep(t) PROVE Paid'
    <2>1. CASE PauseCall(t)
      <3>0. /\ pc[t].at \notin UnfinishedPlaces /\ pauses' = pauses + 1 /\ conflicts' = conflicts
        BY <2>1 DEF PauseCall, UnfinishedPlaces
      <3>1. CASE \E a \in {"granted", "refused"} : pc' = [pc EXCEPT ![t].at = a]
        <4>1. Left(pc') = Left(pc)  BY <1>0, <3>0, <3>1, LeftAt DEF UnfinishedPlaces
        <4> QED  BY <1>0, <3>0, <4>1 DEF Paid
      <3>2. CASE /\ rt' = [rt EXCEPT !.hold = TRUE, !.preempt = TRUE, !.done = FALSE]
                 /\ pc' = [pc EXCEPT ![t] = [at |-> "interrupt", target |-> rt.active, keep |-> FALSE]]
        <4> DEFINE q == [at |-> "interrupt", target |-> rt.active, keep |-> FALSE]
        <4>0. q.at \in UnfinishedPlaces /\ pc' = [pc EXCEPT ![t] = q]
          BY <3>2 DEF UnfinishedPlaces
        <4> HIDE DEF q
        <4>1. Left(pc') = Left(pc) + 1  BY <1>0, <3>0, <4>0, LeftMoves
        <4>2. rt'.preempted = rt.preempted  BY <1>0, <3>2 DEF Owned, RuntimeState
        <4>3. Debt(rt') <= Debt(rt) + 1  BY <4>2 DEF Debt
        <4> QED  BY <1>0, <3>0, <4>1, <4>3 DEF Paid
      <3> QED  BY <2>1, <3>1, <3>2 DEF PauseCall
    <2>2. CASE PauseInterrupt(t) \/ PauseWoken(t) \/ PauseTimesOut(t)
      <3>1. /\ pc[t].at \in UnfinishedPlaces
            /\ UNCHANGED <<rt, pauses, conflicts>>
            /\ \E a \in {"waiting", "refused", "granted", "late"} : pc' = [pc EXCEPT ![t].at = a]
        BY <2>2 DEF PauseInterrupt, PauseWoken, PauseTimesOut, UnfinishedPlaces
      <3>2. PICK a : pc' = [pc EXCEPT ![t].at = a]  BY <3>1
      <3>3. Left(pc') = Left(pc) \/ Left(pc') = Left(pc) - 1  BY <1>0, <3>1, <3>2, LeftAt
      <3>4. Left(pc') \in Nat  BY LeftType
      <3> QED  BY <1>0, <3>1, <3>3, <3>4 DEF Paid
    <2>3. CASE PauseFinish(t)
      <3> DEFINE marked == [rt EXCEPT !.preempted = pc[t].target]
      <3>0. pc[t].target \in PromptIds \cup {NoPrompt}  BY <1>0 DEF Threads, Thread
      <3>1. /\ marked \in Owned /\ marked.preempt = rt.preempt
        <4>1. marked \in Owned  BY <1>0, <3>0, FieldChanges
        <4>2. marked.preempt = rt.preempt  BY <1>0 DEF Owned, RuntimeState
        <4> QED  BY <4>1, <4>2
      <3> HIDE DEF marked
      <3>2. PICK o \in (IF rt.process = "none" THEN {Ok(rt)} ELSE Teardown(marked)) :
              rt' = IF o.ok THEN [o.rt EXCEPT !.preempt = FALSE, !.done = TRUE] ELSE o.rt
        BY <2>3 DEF PauseFinish, marked
      <3>3. /\ o.rt \in Owned /\ o.rt.preempt = rt.preempt
            /\ rt.process = "none" => o.rt = rt
        <4>1. CASE rt.process = "none"  BY <1>0, <3>2, <4>1, ResultFields
        <4>2. CASE rt.process # "none"
          <5>1. o \in Teardown(marked)  BY <3>2, <4>2
          <5>2. o.rt \in Owned /\ Marks(o.rt) = Marks(marked)
            BY <3>1, <5>1, TeardownOwned, TeardownMarks, ResultRecords
          <5> QED  BY <3>1, <4>2, <5>2 DEF Marks
        <4> QED  BY <4>1, <4>2
      <3>4. rt'.preempt = rt.preempt \/ ~rt'.preempt
        BY <3>2, <3>3 DEF Owned, RuntimeState
      <3>5. Debt(rt') <= Debt(rt) + 1  BY <3>4 DEF Debt
      <3>6. Left(pc') = Left(pc) - 1
        <4>1. \E a : a \notin UnfinishedPlaces /\ pc' = [pc EXCEPT ![t].at = a]
          <5>1. PICK u : pc' = [pc EXCEPT ![t].at = IF u.ok THEN "granted" ELSE "refused"]
            BY <2>3 DEF PauseFinish
          <5> DEFINE a == IF u.ok THEN "granted" ELSE "refused"
          <5>2. a \notin UnfinishedPlaces  BY DEF UnfinishedPlaces
          <5> HIDE DEF a
          <5> QED  BY <5>1, <5>2 DEF a
        <4>2. pc[t].at \in UnfinishedPlaces  BY <2>3 DEF PauseFinish, UnfinishedPlaces
        <4> QED  BY <1>0, <4>1, <4>2, LeftAt
      <3> QED  BY <1>0, <2>3, <3>5, <3>6 DEF PauseFinish, Paid
    <2>4. CASE PauseAnswered(t)
      <3>1. Left(pc') = Left(pc)
        BY <1>0, <2>4, LeftMoves, IdleThread DEF PauseAnswered, UnfinishedPlaces
      <3> QED  BY <1>a, <2>4, <3>1 DEF PauseAnswered
    <2> QED  BY <1>8, <2>1, <2>2, <2>3, <2>4 DEF PauseStep
  <1>9. CASE UNCHANGED brokerVars
    BY <1>a, <1>9 DEF brokerVars
  <1> QED  BY <1>1, <1>2, <1>3, <1>4, <1>5, <1>6, <1>7, <1>8, <1>9 DEF BrokerNext

\* Each call of /priority/pause costs the image clients at most two
\* image_preempted answers after the hold has gone: one for the flag
\* priority_preemption, one for the mark preempted_prompt_id.
THEOREM PausesArePaid == BrokerSpec => []ConflictsPaid
  <1>1. BrokerInv /\ Paid => ConflictsPaid
    <2> SUFFICES ASSUME BrokerInv, Paid PROVE conflicts <= 2 * pauses
      BY DEF ConflictsPaid
    <2>1. pauses \in Nat /\ Left(pc) \in Nat /\ Debt(rt) \in {0, 1, 2}
      BY LeftType, DebtOf DEF BrokerInv, Counters
    <2> QED  BY <2>1 DEF Paid
  <1> QED  BY <1>1, BrokerInitial, BrokerSteps, PaidInitial, PaidSteps, PTL DEF BrokerSpec

-----------------------------------------------------------------------------
(***************************************************************************)
(* The hand-off (ImageHandoff).  Under a hold no endpoint starts ComfyUI,  *)
(* and a pause that is granted found it stopped or has stopped it.         *)
(***************************************************************************)

\* No process, no claim: with neither start nor restore failing halfway, the model then serves.
Served(r) == "start" \notin Faults /\ "restore" \notin Faults => (r.process = "none" => r.model = "on")

\* What an operation that makes q of the runtime r leaves alone; a quiet one starts nothing, and
\* says that a preemption is done only of a ComfyUI that is stopped.
After(r, q) == q.hold = r.hold /\ (Served(r) => Served(q))
Quiet(r, q) == /\ After(r, q)
               /\ r.process = "none" => q.process = "none"
               /\ q.done => r.done \/ q.process = "none"

LEMMA CleanupQuiet == \A r \in Owned : \A c \in Cleanup(r) : Quiet(r, c.rt) /\ c.rt.done = r.done
  <1> SUFFICES ASSUME NEW r \in Owned, NEW c \in Cleanup(r) PROVE Quiet(r, c.rt) /\ c.rt.done = r.done
    OBVIOUS
  <1>1. c.rt = [r EXCEPT !.upload = FALSE]  BY ResultFields DEF Cleanup, If
  <1>2. c.rt.hold = r.hold /\ c.rt.process = r.process /\ c.rt.model = r.model /\ c.rt.done = r.done
    BY <1>1 DEF Owned, RuntimeState
  <1> QED  BY <1>2 DEF Quiet, After, Served

\* ComfyUI is stopped, and the model back unless it cannot come back.
LEMMA StopServes ==
    \A r \in Owned : \A m \in Restore(StopComfy(r)) :
        /\ Served(r) => Served(m.rt)
        /\ m.rt.process = "none" /\ m.rt.hold = r.hold /\ m.rt.done = r.done
  <1> SUFFICES ASSUME NEW r \in Owned, NEW m \in Restore(StopComfy(r))
               PROVE  /\ Served(r) => Served(m.rt)
                      /\ m.rt.process = "none" /\ m.rt.hold = r.hold /\ m.rt.done = r.done
    OBVIOUS
  <1> DEFINE q == StopComfy(r)
  <1>1. q \in RuntimeState /\ q.process = "none" /\ q.model = r.model /\ q.hold = r.hold /\ q.done = r.done
    BY DEF StopComfy, Owned, RuntimeState
  <1> HIDE DEF q
  <1>2. \/ q.model # "off" /\ m.rt = q
        \/ m.rt = [q EXCEPT !.model = "on"]
        \/ "restore" \in Faults /\ (m.rt = q \/ m.rt = [q EXCEPT !.model = "sick"])
    BY ResultFields DEF Restore, If, q
  <1>3. m.rt.process = "none" /\ m.rt.hold = r.hold /\ m.rt.done = r.done
    BY <1>1, <1>2 DEF RuntimeState
  <1>4. Served(r) => Served(m.rt)
    BY <1>1, <1>2 DEF Served, Owned, RuntimeState
  <1> QED  BY <1>3, <1>4

\* Setting which prompt is active, or whether there is an upload, is quiet.
LEMMA FieldQuiet ==
    /\ \A r \in RuntimeState : \A p : LET q == [r EXCEPT !.active = p] IN Quiet(r, q) /\ q.done = r.done
    /\ \A r \in RuntimeState : \A p : Quiet(r, [r EXCEPT !.preempted = p])
    /\ \A r \in RuntimeState : \A b : Quiet(r, [r EXCEPT !.upload = b])
  BY DEF RuntimeState, Quiet, After, Served

LEMMA QuietIs == \A r : Quiet(r, r)
  BY DEF Quiet, After

LEMMA AfterTrans ==
    /\ \A r, s, q : After(r, s) /\ After(s, q) => After(r, q)
    /\ \A r, s, q : Quiet(r, s) /\ Quiet(s, q) => Quiet(r, q)
  BY DEF Quiet, After

\* A teardown that does not raise has stopped ComfyUI.
LEMMA TeardownQuiet ==
    \A r \in Owned : \A t \in Teardown(r) :
        Quiet(r, t.rt) /\ t.rt.done = r.done /\ (t.ok => t.rt.process = "none")
  <1> SUFFICES ASSUME NEW r \in Owned, NEW t \in Teardown(r)
               PROVE  Quiet(r, t.rt) /\ t.rt.done = r.done /\ (t.ok => t.rt.process = "none")
    OBVIOUS
  <1> DEFINE stopped(c) == IF c.ok THEN Restore(StopComfy(c.rt)) ELSE {c}
  <1>1. PICK c \in Cleanup(r) : \E m \in stopped(c) : t = [m EXCEPT !.rt.active = NoPrompt]
    BY DEF Teardown
  <1>2. PICK m \in stopped(c) : t = [m EXCEPT !.rt.active = NoPrompt]
    BY <1>1
  <1>3. c \in Results(Owned) /\ Quiet(r, c.rt) /\ c.rt.done = r.done
    BY CleanupOwned, CleanupQuiet
  <1>4. m \in Results(Owned) /\ Quiet(r, m.rt) /\ m.rt.done = r.done /\ (m.ok => m.rt.process = "none")
    <2>1. CASE c.ok
      <3>1. m \in Restore(StopComfy(c.rt))  BY <2>1
      <3>2. StopComfy(c.rt) \in Stopped  BY <1>3, ResultRecords, FieldChanges
      <3>3. m \in Results(Owned)  BY <3>1, <3>2, RestoreStopped, OwnedIsState DEF Results
      <3>4. /\ m.rt.process = "none" /\ m.rt.hold = c.rt.hold /\ m.rt.done = c.rt.done
            /\ Served(c.rt) => Served(m.rt)
        BY <1>3, <3>1, StopServes, ResultRecords
      <3> QED  BY <1>3, <3>3, <3>4 DEF Quiet, After
    <2>2. CASE ~c.ok  BY <1>3, <2>2
    <2> QED  BY <2>1, <2>2
  <1>5. t.rt = [m.rt EXCEPT !.active = NoPrompt] /\ t.ok = m.ok  BY <1>2, <1>4 DEF Results
  <1>6. m.rt \in RuntimeState  BY <1>4, ResultRecords, OwnedIsState
  <1>7. t.rt.process = m.rt.process /\ t.rt.done = m.rt.done /\ Quiet(m.rt, t.rt)
    BY <1>5, <1>6, FieldQuiet DEF RuntimeState
  <1> QED  BY <1>4, <1>5, <1>7, AfterTrans

LEMMA GiveUpAfter == \A r \in Owned : \A g \in GiveUp(r) : After(r, g)
  <1> SUFFICES ASSUME NEW r \in Owned, NEW g \in GiveUp(r) PROVE After(r, g)
    OBVIOUS
  <1>1. PICK t \in Teardown(r) : g \in IF t.ok THEN {t.rt} ELSE {u.rt : u \in Teardown(t.rt)}
    BY DEF GiveUp
  <1>2. t.rt \in Owned /\ After(r, t.rt)  BY TeardownOwned, TeardownQuiet, ResultRecords DEF Quiet
  <1>3. \A u \in Teardown(t.rt) : After(t.rt, u.rt)  BY <1>2, TeardownQuiet DEF Quiet
  <1> QED  BY <1>1, <1>2, <1>3, AfterTrans

LEMMA StartAfter == \A r \in Owned : \A s \in Start(r) : After(r, s.rt)
  <1> SUFFICES ASSUME NEW r \in Owned, NEW s \in Start(r) PROVE After(r, s.rt)
    OBVIOUS
  <1> DEFINE down == [r EXCEPT !.model = "off", !.active = NoPrompt]
  <1>1. down \in Owned  BY FieldChanges, OwnedIsState
  <1>2. down.hold = r.hold  BY DEF Owned, RuntimeState
  <1>3. \/ s.rt = r
        \/ s.rt = [r EXCEPT !.process = "up", !.model = "off", !.active = NoPrompt]
        \/ /\ "start" \in Faults
           /\ \/ s.rt = [r EXCEPT !.model = "off"]
              \/ \E m \in Restore(StopComfy(down)) : s.rt = m.rt
    BY ResultFields DEF Start, If
  <1> HIDE DEF down
  <1>4. \A m \in Restore(StopComfy(down)) : m.rt.hold = r.hold
    <2> SUFFICES ASSUME NEW m \in Restore(StopComfy(down)) PROVE m.rt.hold = down.hold
      BY <1>2
    <2>1. StopComfy(down) \in RuntimeState /\ StopComfy(down).hold = down.hold
      BY <1>1 DEF StopComfy, Owned, RuntimeState
    <2>2. m.rt \in {StopComfy(down), [StopComfy(down) EXCEPT !.model = "on"],
                    [StopComfy(down) EXCEPT !.model = "sick"]}
      BY ResultFields DEF Restore, If
    <2> QED  BY <2>1, <2>2 DEF RuntimeState
  <1> QED  BY <1>3, <1>4 DEF After, Served, Owned, RuntimeState

LEMMA UploadAfter == \A r \in Owned : \A o \in Upload(r) : After(r, o.rt)
  <1> SUFFICES ASSUME NEW r \in Owned, NEW o \in Upload(r) PROVE After(r, o.rt)
    OBVIOUS
  <1> DEFINE after(s) == IF s.ok THEN {Answer([s.rt EXCEPT !.upload = TRUE], "ok")}
                                      \cup If("reject", {Answer(g, "error") : g \in GiveUp(s.rt)})
                         ELSE {Answer(t.rt, "error") : t \in Teardown(s.rt)}
  <1>1. CASE r.active # NoPrompt
    <2>1. Upload(r) = {Answer(r, "busy")}  BY <1>1 DEF Upload
    <2> QED  BY <2>1, ResultFields DEF After
  <1>2. CASE r.active = NoPrompt
    <2>1. Upload(r) = UNION {after(s) : s \in Start(r)}  BY <1>2 DEF Upload
    <2>2. PICK s \in Start(r) : o \in after(s)
      <3> HIDE DEF after
      <3> QED  BY <2>1
    <2>3. s.rt \in Owned /\ After(r, s.rt)  BY StartOwned, StartAfter, ResultRecords
    <2>4. After(s.rt, [s.rt EXCEPT !.upload = TRUE])  BY <2>3, FieldQuiet, OwnedIsState DEF Quiet
    <2>5. \/ o.rt = [s.rt EXCEPT !.upload = TRUE]
          \/ o.rt \in GiveUp(s.rt)
          \/ \E t \in Teardown(s.rt) : o.rt = t.rt
      BY <2>2, ResultFields DEF If
    <2>6. After(s.rt, o.rt)  BY <2>3, <2>4, <2>5, GiveUpAfter, TeardownQuiet DEF Quiet
    <2> QED  BY <2>3, <2>6, AfterTrans
  <1> QED  BY <1>1, <1>2

\* Under a hold a prompt changes nothing.
LEMMA PromptAfter ==
    \A r \in Owned, p \in PromptIds : \A o \in Prompt(r, p) : After(r, o.rt) /\ (r.hold => o.rt = r)
  <1> SUFFICES ASSUME NEW r \in Owned, NEW p \in PromptIds, NEW o \in Prompt(r, p)
               PROVE  After(r, o.rt) /\ (r.hold => o.rt = r)
    OBVIOUS
  <1> DEFINE fresh == IF r.process = "exited" THEN Teardown(r) ELSE {Ok(r)}
             after(s) == IF s.ok THEN {Answer([s.rt EXCEPT !.active = p], "ok")}
                                      \cup If("reject", {Answer(g, "error") : g \in GiveUp(s.rt)})
                         ELSE {Answer(t.rt, "error") : t \in Teardown(s.rt)}
  <1>1. CASE r.hold
    <2>1. o = Answer(r, "preempted")  BY <1>1 DEF Prompt
    <2> QED  BY <1>1, <2>1, ResultFields DEF After
  <1>2. CASE ~r.hold /\ r.preempted # NoPrompt
    <2>1. o.rt = [r EXCEPT !.preempted = NoPrompt]  BY <1>2, ResultFields DEF Prompt
    <2> QED  BY <1>2, <2>1, FieldQuiet, OwnedIsState DEF Quiet
  <1>3. CASE ~r.hold /\ r.preempted = NoPrompt /\ r.active # NoPrompt
    <2>1. o = Answer(r, "busy")  BY <1>3 DEF Prompt
    <2> QED  BY <1>3, <2>1, ResultFields DEF After
  <1>4. CASE ~r.hold /\ r.preempted = NoPrompt /\ r.active = NoPrompt
    <2>1. Prompt(r, p) = UNION {IF f.ok THEN UNION {after(s) : s \in Start(f.rt)}
                                ELSE {Answer(f.rt, "error")} : f \in fresh}
      BY <1>4 DEF Prompt
    <2>2. PICK f \in fresh : o \in IF f.ok THEN UNION {after(s) : s \in Start(f.rt)}
                                  ELSE {Answer(f.rt, "error")}
      <3> HIDE DEF after, fresh
      <3> QED  BY <2>1
    <2>3. f.rt \in Owned /\ After(r, f.rt)
      BY TeardownOwned, TeardownQuiet, ResultRecords, ResultFields, QuietIs DEF Quiet
    <2>4. After(r, o.rt)
      <3>1. CASE ~f.ok  BY <2>2, <2>3, <3>1, ResultFields
      <3>2. CASE f.ok
        <4>1. PICK s \in Start(f.rt) : o \in after(s)
          <5> HIDE DEF after, fresh
          <5> QED  BY <2>2, <3>2
        <4>2. s.rt \in Owned /\ After(f.rt, s.rt)  BY <2>3, StartOwned, StartAfter, ResultRecords
        <4>3. After(s.rt, [s.rt EXCEPT !.active = p])  BY <4>2, FieldQuiet, OwnedIsState DEF Quiet
        <4>4. \/ o.rt = [s.rt EXCEPT !.active = p]
              \/ o.rt \in GiveUp(s.rt)
              \/ \E t \in Teardown(s.rt) : o.rt = t.rt
          BY <4>1, ResultFields DEF If
        <4>5. After(s.rt, o.rt)  BY <4>2, <4>3, <4>4, GiveUpAfter, TeardownQuiet DEF Quiet
        <4> QED  BY <2>3, <4>2, <4>5, AfterTrans
      <3> QED  BY <3>1, <3>2
    <2> QED  BY <1>4, <2>4
  <1> QED  BY <1>1, <1>2, <1>3, <1>4

LEMMA PreemptedQuiet == \A r \in Owned : \A o \in Preempted(r) : Quiet(r, o.rt)
  <1> SUFFICES ASSUME NEW r \in Owned, NEW o \in Preempted(r) PROVE Quiet(r, o.rt)
    OBVIOUS
  <1>1. PICK t \in Teardown(r) :
          o = IF t.ok THEN Answer([t.rt EXCEPT !.preempt = FALSE, !.done = TRUE], "preempted")
              ELSE Answer(t.rt, "error")
    BY DEF Preempted
  <1>2. t.rt \in Owned /\ Quiet(r, t.rt) /\ (t.ok => t.rt.process = "none")
    BY TeardownOwned, TeardownQuiet, ResultRecords
  <1>3. CASE t.ok
    <2> DEFINE q == [t.rt EXCEPT !.preempt = FALSE, !.done = TRUE]
    <2>1. o.rt = q  BY <1>1, <1>3, ResultFields
    <2>2. q.process = t.rt.process /\ q.hold = t.rt.hold /\ q.model = t.rt.model
      BY <1>2 DEF Owned, RuntimeState
    <2> HIDE DEF q
    <2> QED  BY <1>2, <1>3, <2>1, <2>2 DEF Quiet, After, Served
  <1>4. CASE ~t.ok
    <2>1. o.rt = t.rt  BY <1>1, <1>4, ResultFields
    <2> QED  BY <1>2, <2>1
  <1> QED  BY <1>3, <1>4

LEMMA HistoryQuiet == \A r \in Owned : \A p : \A o \in History(r, p) : Quiet(r, o.rt)
  <1> SUFFICES ASSUME NEW r \in Owned, NEW p, NEW o \in History(r, p) PROVE Quiet(r, o.rt)
    OBVIOUS
  <1>1. \/ o.rt = [r EXCEPT !.preempted = NoPrompt]
        \/ o \in Preempted(r)
        \/ \E t \in Teardown(r) : o.rt = t.rt
        \/ o.rt = r
    BY ResultFields DEF History
  <1> QED  BY <1>1, FieldQuiet, OwnedIsState, PreemptedQuiet, TeardownQuiet, QuietIs

LEMMA ViewQuiet == \A r \in Owned : \A p : \A o \in View(r, p) : Quiet(r, o.rt)
  <1> SUFFICES ASSUME NEW r \in Owned, NEW p, NEW o \in View(r, p) PROVE Quiet(r, o.rt)
    OBVIOUS
  <1>1. \/ o \in Preempted(r)
        \/ \E t \in Teardown(r) : o.rt = t.rt
        \/ o.rt = r
    BY ResultFields DEF View, If
  <1> QED  BY <1>1, PreemptedQuiet, TeardownQuiet, QuietIs

LEMMA FinishQuiet == \A r \in Owned : \A keep : \A f \in FinishViewOf(r, keep) : Quiet(r, f)
  <1> SUFFICES ASSUME NEW r \in Owned, NEW keep, NEW f \in FinishViewOf(r, keep) PROVE Quiet(r, f)
    OBVIOUS
  <1>1. PICK c \in Cleanup(r) :
          f \in IF ~c.ok THEN {c.rt}
                ELSE IF keep THEN {[c.rt EXCEPT !.active = NoPrompt]}
                ELSE IF c.rt.process = "none" THEN {c.rt}
                ELSE {t.rt : t \in Teardown(c.rt)}
    BY DEF FinishViewOf
  <1>2. c.rt \in Owned /\ Quiet(r, c.rt)  BY CleanupOwned, CleanupQuiet, ResultRecords
  <1>3. Quiet(c.rt, [c.rt EXCEPT !.active = NoPrompt])  BY <1>2, FieldQuiet, OwnedIsState
  <1>4. \A t \in Teardown(c.rt) : Quiet(c.rt, t.rt)  BY <1>2, TeardownQuiet
  <1>5. Quiet(c.rt, f)  BY <1>1, <1>3, <1>4, QuietIs
  <1> QED  BY <1>2, <1>5, AfterTrans

LEMMA TeardownIfUpQuiet == \A r \in Owned : \A t \in TeardownIfUp(r) : Quiet(r, t.rt)
  BY TeardownQuiet, ResultFields, QuietIs DEF TeardownIfUp

-----------------------------------------------------------------------------
(* The invariant of the hand-off *)

\* The pause p is granted, or is about to be: the event it waits for is set.
Handing(r, c, p) ==
    /\ p # NoThread
    /\ \/ c[p].at = "granted"
       \/ c[p].at \in {"interrupt", "waiting"} /\ r.done

\* Whoever has, or is about to be given, the GPU for jobs has it under a hold; while no edit is
\* under way ComfyUI does not run then.
Held(r, c, p, l) == (p # NoThread => c[p].at # "idle" /\ r.hold) /\ (l > 0 => r.hold)
Kept(r, c, p, l, e) == ~e => (l > 0 \/ Handing(r, c, p) => r.process = "none")
Safe(r, c, p, l, e) == Served(r) /\ Held(r, c, p, l) /\ Kept(r, c, p, l, e)

\* Every hand-off that succeeded, or may yet, was a call of its own.
Asked(p, l, n) == l \in Nat /\ l + (IF p = NoThread THEN 0 ELSE 1) <= n

\* There are images left to make until the batch is through.
Batching(c) == c \in Client /\ (c.at \notin {"closing", "done"} => c.images < Batch)

HandoffInv ==
    /\ BrokerInv
    /\ pausing \in Pausers \cup {NoThread} /\ Asked(pausing, live, pauses)
    /\ holdMaybe \in BOOLEAN /\ failed \in BOOLEAN
    /\ Batching(client)
    /\ Safe(rt, pc, pausing, live, client.edit)

USE HandoffAssumption

\* A quiet operation of whoever it may be keeps what the router was promised; so does one that may
\* start ComfyUI, if it looks at the hold or belongs to an edit.
LEMMA SafeSteps ==
    ASSUME NEW r, NEW q, NEW c, NEW p, NEW l, NEW e, Safe(r, c, p, l, e)
    PROVE  /\ Quiet(r, q) => Safe(q, c, p, l, e)
           /\ After(r, q) /\ (r.hold => q = r) => Safe(q, c, p, l, e)
           /\ After(r, q) /\ e => Safe(q, c, p, l, e)
  <1>1. Quiet(r, q) => Safe(q, c, p, l, e)
    BY DEF Quiet, After, Safe, Held, Kept, Handing
  <1>2. After(r, q) /\ (r.hold => q = r) => Safe(q, c, p, l, e)
    BY DEF After, Safe, Held, Kept, Handing
  <1>3. After(r, q) /\ e => Safe(q, c, p, l, e)
    BY DEF After, Safe, Held, Kept
  <1> QED  BY <1>1, <1>2, <1>3

\* The steps of the task that change where it stands.
LEMMA ClientSteps ==
    ASSUME Batching(client)
    PROVE  /\ \A at \in {"begin", "submit", "poll", "view", "release",
                         "paused", "closing", "done", "failed"} :
                (client.at \in {"closing", "done"} => at \in {"closing", "done"}) /\ Goes(at)
                   => Batching(client') /\ client'.edit = client.edit
           /\ \A touched \in BOOLEAN, then \in {"paused", "failed"} :
                client.at \notin {"closing", "done"} /\ Stops(touched, then)
                   => Batching(client') /\ client'.edit = client.edit
  BY DEF Batching, Client, Goes, Stops

LEMMA HandoffInitial == HandoffInit => HandoffInv
  <1> SUFFICES ASSUME HandoffInit PROVE HandoffInv
    OBVIOUS
  <1>1. BrokerInv  BY BrokerInitial DEF HandoffInit
  <1>2. Asked(pausing, live, pauses)  BY DEF HandoffInit, BrokerInit, Asked
  <1>3. Batching(client)  BY DEF HandoffInit, Batching, Client
  <1>4. Safe(rt, pc, pausing, live, client.edit)
    BY DEF HandoffInit, BrokerInit, InitialRuntime, Safe, Served, Held, Kept, Handing
  <1> QED  BY <1>1, <1>2, <1>3, <1>4 DEF HandoffInit, HandoffInv

\* The router's steps and the handler threads'.
LEMMA RouterSteps ==
    HandoffInv /\ (\/ \E t \in Pausers : HandOff(t) \/ HandedOff(t) \/ HandOffTimesOut(t) \/ PauseAlone(t)
                   \/ JobEnds \/ Resume
                   \/ \E v \in Viewers : Finishing(v)
                   \/ Reaping \/ Exiting) => HandoffInv'
  <1> SUFFICES ASSUME HandoffInv,
                      \/ \E t \in Pausers : HandOff(t) \/ HandedOff(t) \/ HandOffTimesOut(t) \/ PauseAlone(t)
                      \/ JobEnds \/ Resume
                      \/ \E v \in Viewers : Finishing(v)
                      \/ Reaping \/ Exiting
               PROVE  HandoffInv'
    OBVIOUS
  <1>0. /\ BrokerInv /\ rt \in Owned /\ Threads /\ pauses \in Nat
        /\ pausing \in Pausers \cup {NoThread} /\ Asked(pausing, live, pauses)
        /\ holdMaybe \in BOOLEAN /\ failed \in BOOLEAN
        /\ Batching(client)
        /\ Safe(rt, pc, pausing, live, client.edit)
    BY DEF HandoffInv, BrokerInv, Counters
  \* Steps that do not touch the router or the client.
  <1>a. ASSUME BrokerInv', UNCHANGED <<routerVars, client, pauses>>,
               Safe(rt', pc', pausing, live, client.edit)
        PROVE  HandoffInv'
    BY <1>0, <1>a DEF HandoffInv, routerVars
  <1>1. ASSUME NEW t \in Pausers, HandOff(t) PROVE HandoffInv'
    <2>1. PauseCall(t) /\ pausing = NoThread /\ pausing' = t /\ UNCHANGED <<live, holdMaybe, client, failed>>
      BY <1>1 DEF HandOff
    <2>2. BrokerInv'  BY <1>0, <2>1, BrokerSteps DEF BrokerNext, PauseStep
    <2>3. Asked(pausing', live', pauses')  BY <1>0, <2>1 DEF Asked, PauseCall
    <2>4. t # NoThread  OBVIOUS
    <2>5. pc[t] \in Thread /\ pc \in [Pausers \cup Viewers -> Thread]  BY <1>0 DEF Threads
    <2> DEFINE held == [rt EXCEPT !.hold = TRUE]
    <2>6. held \in Owned /\ held.hold /\ held.process = rt.process /\ (Served(rt) => Served(held))
      BY <1>0 DEF Owned, RuntimeState, Served
    <2>7. Safe(rt', pc', t, live, client.edit)
      <3>1. CASE rt.process = "none" /\ rt' = held /\ pc' = [pc EXCEPT ![t].at = "granted"]
        <4>1. pc'[t].at = "granted"  BY <2>5, <3>1 DEF Thread
        <4> HIDE DEF held
        <4> QED  BY <1>0, <2>6, <3>1, <4>1 DEF Safe, Held, Kept
      <3>2. CASE \E o \in Teardown(held) :
                    rt' = o.rt /\ pc' = [pc EXCEPT ![t].at = IF o.ok THEN "granted" ELSE "refused"]
        <4> HIDE DEF held
        <4>1. PICK o \in Teardown(held) :
                    rt' = o.rt /\ pc' = [pc EXCEPT ![t].at = IF o.ok THEN "granted" ELSE "refused"]
          BY <3>2
        <4>2. Quiet(held, rt') /\ (o.ok => rt'.process = "none")  BY <2>6, <4>1, TeardownQuiet
        <4>3. pc'[t].at = IF o.ok THEN "granted" ELSE "refused"  BY <2>5, <4>1 DEF Thread
        <4> QED  BY <1>0, <2>1, <2>6, <4>2, <4>3 DEF Safe, Held, Kept, Handing, Quiet, After
      <3>3. CASE /\ rt' = [rt EXCEPT !.hold = TRUE, !.preempt = TRUE, !.done = FALSE]
                 /\ pc' = [pc EXCEPT ![t] = [at |-> "interrupt", target |-> rt.active, keep |-> FALSE]]
        <4>1. pc'[t].at = "interrupt"  BY <2>5, <3>3
        <4>2. rt'.hold /\ ~rt'.done /\ rt'.process = rt.process /\ (Served(rt) => Served(rt'))
          BY <1>0, <3>3 DEF Owned, RuntimeState, Served
        <4> QED  BY <1>0, <4>1, <4>2 DEF Safe, Held, Kept, Handing
      <3> QED  BY <2>1, <3>1, <3>2, <3>3 DEF PauseCall
    <2> QED  BY <1>0, <2>1, <2>2, <2>3, <2>7 DEF HandoffInv
  <1>2. ASSUME NEW t \in Pausers, HandedOff(t) PROVE HandoffInv'
    <2>1. /\ PauseAnswered(t) /\ pausing = t /\ pausing' = NoThread /\ client' = client
          /\ live' = IF pc[t].at = "granted" THEN live + 1 ELSE live
          /\ rt' = rt /\ pauses' = pauses
          /\ holdMaybe' \in BOOLEAN /\ failed' \in BOOLEAN
      BY <1>0, <1>2 DEF HandedOff, PauseAnswered
    <2>2. BrokerInv'  BY <1>0, <2>1, BrokerSteps DEF BrokerNext, PauseStep
    <2>3. t # NoThread  OBVIOUS
    <2>4. Asked(pausing', live', pauses')  BY <1>0, <2>1, <2>3 DEF Asked
    <2>5. Safe(rt, pc', NoThread, live', client.edit)
      <3>1. /\ Served(rt) /\ rt.hold /\ live \in Nat
            /\ ~client.edit /\ (live > 0 \/ pc[t].at = "granted") => rt.process = "none"
        <4>1. Served(rt) /\ Held(rt, pc, t, live) /\ Kept(rt, pc, t, live, client.edit)
          BY <1>0, <2>1 DEF Safe
        <4>2. rt.hold /\ live \in Nat  BY <1>0, <2>3, <4>1 DEF Held, Asked
        <4>3. pc[t].at = "granted" => Handing(rt, pc, t)  BY <2>3 DEF Handing
        <4> QED  BY <4>1, <4>2, <4>3 DEF Kept
      <3>2. live' > 0 => live > 0 \/ pc[t].at = "granted"  BY <2>1, <3>1
      <3> QED  BY <3>1, <3>2 DEF Safe, Held, Kept, Handing
    <2> QED  BY <1>0, <2>1, <2>2, <2>4, <2>5 DEF HandoffInv
  <1>3. ASSUME NEW t \in Pausers, HandOffTimesOut(t) PROVE HandoffInv'
    <2>1. /\ pausing' = NoThread /\ failed' = TRUE
          /\ UNCHANGED <<brokerVars, live, holdMaybe, client>>
      BY <1>3 DEF HandOffTimesOut
    <2>2. BrokerInv'  BY <1>0, <2>1, BrokerSteps
    <2>3. Asked(pausing', live', pauses')  BY <1>0, <2>1 DEF Asked, brokerVars
    <2>4. Safe(rt, pc, NoThread, live, client.edit)  BY <1>0 DEF Safe, Held, Kept, Handing
    <2> QED  BY <1>0, <2>1, <2>2, <2>3, <2>4 DEF HandoffInv, brokerVars
  <1>4. ASSUME NEW t \in Pausers, PauseAlone(t) PROVE HandoffInv'
    <2>0. /\ UNCHANGED <<routerVars, client>>
          /\ \/ PauseInterrupt(t) \/ PauseWoken(t) \/ PauseTimesOut(t) \/ PauseFinish(t)
             \/ pausing # t /\ PauseAnswered(t)
      BY <1>4 DEF PauseAlone
    <2>1. BrokerInv' /\ pauses' = pauses
      BY <1>0, <2>0, BrokerSteps
      DEF BrokerNext, PauseStep, PauseInterrupt, PauseWoken, PauseTimesOut, PauseFinish, PauseAnswered
    <2>2. pc[t] \in Thread /\ pc \in [Pausers \cup Viewers -> Thread]  BY <1>0 DEF Threads
    <2>3. CASE PauseInterrupt(t) \/ PauseTimesOut(t)
      <3>1. /\ rt' = rt
            /\ \/ pc[t].at = "interrupt" /\ pc' = [pc EXCEPT ![t].at = "waiting"]
               \/ pc' = [pc EXCEPT ![t].at = "refused"]
               \/ pc' = [pc EXCEPT ![t].at = "late"]
        BY <2>3 DEF PauseInterrupt, PauseTimesOut
      <3>2. \A u \in Pausers : \/ pc'[u].at = pc[u].at
                               \/ pc[u].at = "interrupt" /\ pc'[u].at = "waiting"
                               \/ pc'[u].at \in {"refused", "late"}
        BY <2>2, <3>1 DEF Thread
      <3>3. Safe(rt', pc', pausing, live, client.edit)
        BY <1>0, <3>1, <3>2 DEF Safe, Held, Kept, Handing
      <3> QED  BY <1>a, <2>0, <2>1, <3>3
    <2>4. CASE PauseWoken(t)
      <3>1. rt' = rt /\ pc[t].at = "waiting" /\ rt.done /\ pc' = [pc EXCEPT ![t].at = "granted"]
        BY <2>4 DEF PauseWoken
      <3>2. \A u \in Pausers : \/ pc'[u].at = pc[u].at
                               \/ u = t /\ pc'[u].at = "granted"
        BY <2>2, <3>1 DEF Thread
      <3>3. Safe(rt', pc', pausing, live, client.edit)
        BY <1>0, <3>1, <3>2 DEF Safe, Held, Kept, Handing
      <3> QED  BY <1>a, <2>0, <2>1, <3>3
    <2>5. CASE PauseFinish(t)
      <3> DEFINE marked == [rt EXCEPT !.preempted = pc[t].target]
      <3>1. marked \in Owned  BY <1>0, <2>2, FieldChanges DEF Thread
      <3>2. Quiet(rt, marked)  BY <1>0, FieldQuiet, OwnedIsState
      <3> HIDE DEF marked
      <3>3. PICK o \in (IF rt.process = "none" THEN {Ok(rt)} ELSE Teardown(marked)) :
              /\ rt' = IF o.ok THEN [o.rt EXCEPT !.preempt = FALSE, !.done = TRUE] ELSE o.rt
              /\ pc' = [pc EXCEPT ![t].at = IF o.ok THEN "granted" ELSE "refused"]
        BY <2>5 DEF PauseFinish, marked
      <3>4. o.rt \in Owned /\ Quiet(rt, o.rt) /\ (o.ok => o.rt.process = "none")
        <4>1. CASE rt.process = "none"  BY <1>0, <3>3, <4>1, ResultFields, QuietIs
        <4>2. CASE rt.process # "none"
          <5>1. o \in Teardown(marked)  BY <3>3, <4>2
          <5>2. o.rt \in Owned  BY <3>1, <5>1, TeardownOwned, ResultRecords
          <5> QED  BY <3>1, <3>2, <5>1, <5>2, TeardownQuiet, AfterTrans
        <4> QED  BY <4>1, <4>2
      <3>5. Quiet(rt, rt') /\ (o.ok => rt'.process = "none")
        <4>1. CASE ~o.ok  BY <3>3, <3>4, <4>1
        <4>2. CASE o.ok
          <5> DEFINE q == [o.rt EXCEPT !.preempt = FALSE, !.done = TRUE]
          <5>1. rt' = q  BY <3>3, <4>2
          <5>2. q.process = o.rt.process /\ q.hold = o.rt.hold /\ q.model = o.rt.model
            BY <3>4 DEF Owned, RuntimeState
          <5> HIDE DEF q
          <5> QED  BY <3>4, <4>2, <5>1, <5>2 DEF Quiet, After, Served
        <4> QED  BY <4>1, <4>2
      <3>6. \A u \in Pausers : \/ pc'[u].at = pc[u].at
                               \/ u = t /\ pc'[u].at = IF o.ok THEN "granted" ELSE "refused"
        BY <2>2, <3>3 DEF Thread
      <3>7. Safe(rt', pc, pausing, live, client.edit)  BY <1>0, <3>5, SafeSteps
      <3>8. Safe(rt', pc', pausing, live, client.edit)
        BY <1>0, <3>5, <3>6, <3>7 DEF Safe, Held, Kept, Handing
      <3> QED  BY <1>a, <2>0, <2>1, <3>8
    <2>6. CASE pausing # t /\ PauseAnswered(t)
      <3>1. rt' = rt /\ pc' = [pc EXCEPT ![t] = Idle]  BY <2>6 DEF PauseAnswered
      <3>2. pausing # NoThread => pc'[pausing] = pc[pausing]  BY <1>0, <2>2, <2>6, <3>1
      <3>3. Safe(rt', pc', pausing, live, client.edit)
        BY <1>0, <3>1, <3>2 DEF Safe, Held, Kept, Handing
      <3> QED  BY <1>a, <2>0, <2>1, <3>3
    <2> QED  BY <2>0, <2>3, <2>4, <2>5, <2>6
  <1>5. CASE JobEnds
    <2>1. /\ live > 0 /\ live' = live - 1
          /\ UNCHANGED <<brokerVars, pausing, holdMaybe, client, failed>>
      BY <1>5 DEF JobEnds
    <2>2. BrokerInv'  BY <1>0, <2>1, BrokerSteps
    <2>3. Asked(pausing', live', pauses')  BY <1>0, <2>1 DEF Asked, brokerVars
    <2>4. Safe(rt, pc, pausing, live', client.edit)
      BY <1>0, <2>1 DEF Safe, Held, Kept, Asked
    <2> QED  BY <1>0, <2>1, <2>2, <2>3, <2>4 DEF HandoffInv, brokerVars
  <1>6. CASE Resume
    <2>1. /\ pausing = NoThread /\ live = 0 /\ holdMaybe' = FALSE /\ ResumeCall
          /\ UNCHANGED <<pausing, live, client, failed, pc, pauses>>
      BY <1>6 DEF Resume, ResumeCall
    <2>2. BrokerInv'  BY <1>0, <2>1, BrokerSteps DEF BrokerNext
    <2>3. rt'.process = rt.process /\ rt'.model = rt.model
      BY <1>0, <2>1 DEF ResumeCall, Owned, RuntimeState
    <2>4. Safe(rt', pc, NoThread, 0, client.edit)
      BY <1>0, <2>3 DEF Safe, Served, Held, Kept, Handing
    <2> QED  BY <1>0, <2>1, <2>2, <2>4 DEF HandoffInv
  <1>7. ASSUME NEW v \in Viewers, Finishing(v) PROVE HandoffInv'
    <2>1. BrokerInv'  BY <1>0, <1>7, BrokerSteps DEF Finishing, BrokerNext
    <2>2. Quiet(rt, rt')  BY <1>0, <1>7, FinishQuiet DEF Finishing, FinishView
    <2>3. \A t \in Pausers : pc'[t] = pc[t]
      BY <1>0, <1>7, BrokerAssumption DEF Finishing, FinishView, Threads
    <2>4. Safe(rt', pc, pausing, live, client.edit)  BY <1>0, <2>2, SafeSteps
    <2>5. Safe(rt', pc', pausing, live, client.edit)
      BY <1>0, <2>3, <2>4 DEF Safe, Held, Kept, Handing
    <2> QED  BY <1>7, <1>a, <2>1, <2>5 DEF Finishing, FinishView
  <1>8. CASE Reaping \/ Exiting
    <2>1. BrokerInv'  BY <1>0, <1>8, BrokerSteps DEF Reaping, Exiting, BrokerNext
    <2>2. Quiet(rt, rt')
      <3>1. CASE Reaping  BY <1>0, <3>1, TeardownIfUpQuiet DEF Reaping, ExpireIdle
      <3>2. CASE Exiting
        BY <1>0, <3>2 DEF Exiting, ComfyExits, Owned, RuntimeState, Quiet, After, Served
      <3> QED  BY <1>8, <3>1, <3>2
    <2>3. Safe(rt', pc', pausing, live, client.edit)
      BY <1>0, <1>8, <2>2, SafeSteps DEF Reaping, Exiting, ExpireIdle, ComfyExits
    <2> QED  BY <1>8, <1>a, <2>1, <2>3 DEF Reaping, Exiting, ExpireIdle, ComfyExits
  <1> QED  BY <1>1, <1>2, <1>3, <1>4, <1>5, <1>6, <1>7, <1>8

\* The image client's steps.
LEMMA BatchSteps ==
    HandoffInv /\ (ClientNext \/ PollGivesUp) => HandoffInv'
  <1> SUFFICES ASSUME HandoffInv, ClientNext \/ PollGivesUp PROVE HandoffInv'
    OBVIOUS
  <1>0. /\ BrokerInv /\ rt \in Owned /\ Threads /\ Counters
        /\ pausing \in Pausers \cup {NoThread} /\ Asked(pausing, live, pauses)
        /\ holdMaybe \in BOOLEAN /\ failed \in BOOLEAN
        /\ Batching(client)
        /\ Safe(rt, pc, pausing, live, client.edit)
    BY DEF HandoffInv, BrokerInv
  \* No step of the client touches the router, nor the pauses.
  <1>a. ASSUME rt' \in Owned, Threads', prompts' \in 0..MaxPrompts, UNCHANGED <<routerVars, pauses, uploads>>,
               Batching(client'), client'.edit = client.edit,
               \A t \in Pausers : pc'[t] = pc[t],
               Safe(rt', pc, pausing, live, client.edit)
        PROVE  HandoffInv'
    <2>1. Safe(rt', pc', pausing, live, client.edit)
      BY <1>0, <1>a DEF Safe, Held, Kept, Handing
    <2>2. BrokerInv'  BY <1>0, <1>a DEF BrokerInv, Counters
    <2> QED  BY <1>0, <1>a, <2>1, <2>2 DEF HandoffInv, routerVars
  <1>b. Threads /\ pc' = pc => Threads' /\ \A t \in Pausers : pc'[t] = pc[t]
    BY DEF Threads
  <1>c. prompts \in 0..MaxPrompts  BY <1>0 DEF Counters
  <1>1. CASE UploadInput
    <2>1. client.at = "begin" /\ UNCHANGED <<routerVars, pauses, pc, prompts, uploads>>
      BY <1>1 DEF UploadInput, Broker, brokerVars
    <2>2. Goes("submit") \/ Stops(FALSE, "failed")  BY <1>1 DEF UploadInput
    <2>3. Batching(client') /\ client'.edit = client.edit
      BY <1>0, <2>1, <2>2, ClientSteps
    <2>4. rt' \in Owned /\ Safe(rt', pc, pausing, live, client.edit)
      <3>1. CASE ~client.edit  BY <1>0, <1>1, <3>1 DEF UploadInput, brokerVars
      <3>2. CASE client.edit
        <4>1. PICK o \in Upload(rt) : rt' = o.rt  BY <1>1, <3>2 DEF UploadInput, Broker
        <4>2. rt' \in Owned /\ After(rt, rt')  BY <1>0, <4>1, UploadOwned, UploadAfter, ResultRecords
        <4> QED  BY <1>0, <3>2, <4>2, SafeSteps
      <3> QED  BY <3>1, <3>2
    <2> QED  BY <1>0, <1>a, <1>b, <1>c, <2>1, <2>3, <2>4
  <1>2. CASE Submit
    <2>1. /\ client.at = "submit" /\ prompts + 1 \in PromptIds
          /\ UNCHANGED <<routerVars, pc, uploads>>
      BY <1>2, <1>c DEF Submit, PromptIds
    <2>2. PICK o \in Prompt(rt, prompts + 1) :
            /\ Broker(o, o.ans)
            /\ IF o.ans = "ok"
               THEN /\ prompts' = prompts + 1
                    /\ \/ client' = [client EXCEPT !.at = "poll", !.prompt = prompts + 1]
                       \/ "slow_start" \in Haste /\ rt.process # "up" /\ Stops(TRUE, "failed")
               ELSE /\ UNCHANGED prompts
                    /\ Stops(FALSE, IF o.ans = "preempted" THEN "paused" ELSE "failed")
      BY <1>2 DEF Submit
    <2>3. rt' = o.rt /\ pauses' = pauses  BY <2>2 DEF Broker
    <2>4. rt' \in Owned /\ Safe(rt', pc, pausing, live, client.edit)
      <3>1. rt' \in Owned /\ After(rt, rt') /\ (rt.hold => rt' = rt)
        BY <1>0, <2>1, <2>2, <2>3, PromptOwned, PromptAfter, ResultRecords
      <3> QED  BY <1>0, <3>1, SafeSteps
    <2>5. Batching(client') /\ client'.edit = client.edit
      <3>1. CASE client' = [client EXCEPT !.at = "poll", !.prompt = prompts + 1]
        BY <1>0, <2>1, <3>1 DEF Batching, Client
      <3>2. CASE \E touched \in BOOLEAN, then \in {"paused", "failed"} : Stops(touched, then)
        BY <1>0, <2>1, <3>2, ClientSteps
      <3> QED  BY <2>2, <3>1, <3>2
    <2>6. prompts' \in 0..MaxPrompts
      <3>1. prompts' = prompts + 1 \/ prompts' = prompts  BY <2>2
      <3> QED  BY <1>c, <2>1, <3>1 DEF PromptIds
    <2> QED  BY <1>0, <1>a, <1>b, <2>1, <2>3, <2>4, <2>5, <2>6
  <1>3. CASE Poll
    <2>1. client.at = "poll" /\ UNCHANGED <<routerVars, pc, prompts, uploads>>
      BY <1>3 DEF Poll
    <2>2. PICK o \in History(rt, client.prompt) :
            /\ Broker(o, o.ans)
            /\ Goes("view") \/ Stops(TRUE, "paused") \/ UNCHANGED client
      BY <1>3 DEF Poll
    <2>3. rt' = o.rt /\ pauses' = pauses  BY <2>2 DEF Broker
    <2>4. rt' \in Owned /\ Safe(rt', pc, pausing, live, client.edit)
      <3>1. rt' \in Owned /\ Quiet(rt, rt')
        BY <1>0, <2>2, <2>3, HistoryOwned, HistoryQuiet, ResultRecords
      <3> QED  BY <1>0, <3>1, SafeSteps
    <2>5. Batching(client') /\ client'.edit = client.edit
      BY <1>0, <2>1, <2>2, ClientSteps
    <2> QED  BY <1>0, <1>a, <1>b, <1>c, <2>1, <2>3, <2>4, <2>5
  <1>4. CASE PollGivesUp
    <2>1. client.at = "poll" /\ Stops(TRUE, "failed") /\ UNCHANGED <<brokerVars, routerVars>>
      BY <1>4 DEF PollGivesUp
    <2>2. Batching(client') /\ client'.edit = client.edit  BY <1>0, <2>1, ClientSteps
    <2> QED  BY <1>0, <1>a, <1>b, <1>c, <2>1, <2>2 DEF brokerVars
  <1>5. CASE Release
    <2>1. client.at \in {"release", "closing"} /\ UNCHANGED <<routerVars, pc, prompts, uploads>>
      BY <1>5 DEF Release
    <2>2. PICK t \in TeardownIfUp(rt) : Broker(t, "ok")  BY <1>5 DEF Release
    <2>3. rt' = t.rt /\ pauses' = pauses  BY <2>2 DEF Broker
    <2>4. rt' \in Owned /\ Safe(rt', pc, pausing, live, client.edit)
      BY <1>0, <2>2, <2>3, TeardownIfUpOwned, TeardownIfUpQuiet, SafeSteps
    <2>5. \E at \in {"done", "paused", "failed"} : Goes(at) /\ (client.at = "closing" => at = "done")
      <3>1. client.then \in {"paused", "failed"}  BY <1>0 DEF Batching, Client
      <3> QED  BY <1>5, <3>1 DEF Release
    <2>6. Batching(client') /\ client'.edit = client.edit
      BY <1>0, <2>1, <2>5, ClientSteps
    <2> QED  BY <1>0, <1>a, <1>b, <1>c, <2>1, <2>3, <2>4, <2>6
  <1>6. CASE ResumeBatch
    <2>1. client.at = "paused" /\ Goes("begin") /\ UNCHANGED <<brokerVars, routerVars>>
      BY <1>6 DEF ResumeBatch
    <2>2. Batching(client') /\ client'.edit = client.edit  BY <1>0, <2>1, ClientSteps
    <2> QED  BY <1>0, <1>a, <1>b, <1>c, <2>1, <2>2 DEF brokerVars
  <1>7. ASSUME NEW v \in Viewers, Download(v) PROVE HandoffInv'
    <2> DEFINE q == [at |-> "sending", target |-> client.prompt, keep |-> TRUE]
    <2>1. client.at = "view" /\ UNCHANGED <<routerVars, prompts, uploads>>
      BY <1>7 DEF Download
    <2>2. PICK o \in View(rt, client.prompt) :
            /\ Broker(o, o.ans)
            /\ \/ /\ pc' = [pc EXCEPT ![v] = q]
                  /\ client' = [client EXCEPT
                       !.images = @ + 1,
                       !.at = IF client.images + 1 < Batch THEN "submit" ELSE "closing"]
               \/ UNCHANGED pc /\ \E then \in {"paused", "failed"} : Stops(TRUE, then)
      BY <1>7 DEF Download
    <2>3. rt' = o.rt /\ pauses' = pauses  BY <2>2 DEF Broker
    <2>4. rt' \in Owned /\ Safe(rt', pc, pausing, live, client.edit)
      <3>1. rt' \in Owned /\ Quiet(rt, rt')
        BY <1>0, <2>2, <2>3, ViewOwned, ViewQuiet, ResultRecords
      <3> QED  BY <1>0, <3>1, SafeSteps
    <2>5. Threads' /\ \A t \in Pausers : pc'[t] = pc[t]
      <3>1. v \notin Pausers  BY BrokerAssumption
      <3>2. q \in Thread /\ q.at \in ViewerPlaces
        BY <1>0 DEF Thread, ViewerPlaces, Batching, Client
      <3>3. CASE pc' = [pc EXCEPT ![v] = q]
        <4> HIDE DEF q
        <4>1. Threads'  BY <1>0, <3>1, <3>2, <3>3, ThreadSet
        <4> QED  BY <1>0, <3>1, <3>3, <4>1 DEF Threads
      <3> QED  BY <1>0, <1>b, <2>2, <3>3
    <2>6. Batching(client') /\ client'.edit = client.edit
      <3>1. CASE client' = [client EXCEPT
                       !.images = @ + 1,
                       !.at = IF client.images + 1 < Batch THEN "submit" ELSE "closing"]
        <4>1. client \in Client /\ client.images \in 0..Batch /\ client.images < Batch
          BY <1>0, <2>1 DEF Batching, Client
        <4>2. client.images + 1 \in 0..Batch  BY <4>1
        <4> QED  BY <3>1, <4>1, <4>2 DEF Batching, Client
      <3>2. CASE \E then \in {"paused", "failed"} : Stops(TRUE, then)
        BY <1>0, <2>1, <3>2, ClientSteps
      <3> QED  BY <2>2, <3>1, <3>2
    <2> QED  BY <1>0, <1>a, <1>c, <2>1, <2>3, <2>4, <2>5, <2>6
  <1> QED  BY <1>1, <1>2, <1>3, <1>4, <1>5, <1>6, <1>7 DEF ClientNext

LEMMA HandoffSteps == HandoffInv /\ [HandoffNext]_handoffVars => HandoffInv'
  <1> SUFFICES ASSUME HandoffInv, [HandoffNext]_handoffVars PROVE HandoffInv'
    OBVIOUS
  <1>1. CASE UNCHANGED handoffVars
    <2>1. UNCHANGED <<rt, pc, prompts, pauses, uploads, pausing, live, holdMaybe, failed, client>>
      BY <1>1 DEF handoffVars, brokerVars, routerVars
    <2>2. BrokerInv'  BY <2>1 DEF HandoffInv, BrokerInv, Threads, Counters
    <2> QED  BY <2>1, <2>2 DEF HandoffInv
  <1> QED  BY <1>1, RouterSteps, BatchSteps DEF HandoffNext

\* While interactive jobs are queued or running after their hand-off the broker's hold stands, and
\* no ComfyUI process runs unless the batch edits an uploaded image: whatever fails outside the
\* broker, and in whatever order the pauses, their timeouts, the resumes and the client's calls come.
HoldStands == live > 0 => rt.hold /\ (~client.edit => rt.process = "none")

THEOREM HandoffHolds == HandoffSpec => [](HandoffTypeOK /\ HoldStands)
  <1>1. HandoffInv => HandoffTypeOK /\ HoldStands
    <2> SUFFICES ASSUME HandoffInv PROVE HandoffTypeOK /\ HoldStands
      OBVIOUS
    <2>1. BrokerTypeOK
      BY DEF HandoffInv, BrokerInv, BrokerTypeOK, Owned, Threads, Counters, PauserPlaces, ViewerPlaces
    <2>2. live \in 0..MaxPauses
      BY DEF HandoffInv, BrokerInv, Counters, Asked
    <2>3. HandoffTypeOK  BY <2>1, <2>2 DEF HandoffInv, HandoffTypeOK, Batching
    <2>4. HoldStands  BY DEF HandoffInv, Safe, Held, Kept, HoldStands
    <2> QED  BY <2>3, <2>4
  <1> QED  BY <1>1, HandoffInitial, HandoffSteps, PTL DEF HandoffSpec

\* The model server has the GPU then, unless it could not come back or ComfyUI failed to start: a
\* pause granted because no ComfyUI process runs does not look at the model server.
THEOREM ModelHasGpu ==
    ASSUME "start" \notin Faults, "restore" \notin Faults
    PROVE  HandoffSpec => []ModelServesJobs
  <1>1. HandoffInv => ModelServesJobs
    BY DEF HandoffInv, Safe, Served, Held, Kept, ModelServesJobs
  <1> QED  BY <1>1, HandoffInitial, HandoffSteps, PTL DEF HandoffSpec

-----------------------------------------------------------------------------
(* The hand-off implements SharedGpu *)

\* Who claims the GPU, and that nobody's claim changes.
Claims(r) == (IF r.process = "none" THEN {} ELSE {"comfy"}) \cup (IF r.model = "off" THEN {} ELSE {"model"})
Same(r, q) == q.process = r.process /\ q.model = r.model

LEMMA ClaimsAre ==
    /\ \A r \in Owned : Claims(r) \in {{}, {"model"}, {"comfy"}} /\ ("comfy" \in Claims(r) <=> r.process # "none")
    /\ \A r, q : Same(r, q) => Claims(q) = Claims(r)
    /\ \A r : r.process = "none" /\ r.model # "off" => Claims(r) = {"model"}
  BY DEF Claims, Same, Owned

\* While a hold stands and ComfyUI is out, no endpoint lets it in or sends the model away.
LEMMA HeldStill ==
    ASSUME NEW r \in Owned, r.process = "none", r.hold
    PROVE  /\ \A p : \A o \in Prompt(r, p) : Same(r, o.rt)
           /\ \A p : \A o \in History(r, p) : Same(r, o.rt)
           /\ \A p : \A o \in View(r, p) : Same(r, o.rt)
           /\ \A keep : \A f \in FinishViewOf(r, keep) : Same(r, f)
           /\ \A t \in TeardownIfUp(r) : Same(r, t.rt)
  <1>1. \A p : \A o \in Prompt(r, p) : Same(r, o.rt)  BY DEF Prompt, Answer, Same
  <1>2. \A p : \A o \in History(r, p) : Same(r, o.rt)  BY DEF History, Answer, Same, Owned, RuntimeState
  <1>3. \A p : \A o \in View(r, p) : Same(r, o.rt)  BY DEF View, Answer, Same
  <1>4. \A c \in Cleanup(r) : Same(r, c.rt)  BY DEF Cleanup, Ok, Raised, If, Same, Owned, RuntimeState
  <1>5. ASSUME NEW keep, NEW f \in FinishViewOf(r, keep) PROVE Same(r, f)
    <2>1. PICK c \in Cleanup(r) :
              f \in IF ~c.ok THEN {c.rt}
                    ELSE IF keep THEN {[c.rt EXCEPT !.active = NoPrompt]}
                    ELSE IF c.rt.process = "none" THEN {c.rt}
                    ELSE {t.rt : t \in Teardown(c.rt)}
      BY <1>5 DEF FinishViewOf
    <2>2. c.rt.process = "none" /\ Same(r, c.rt)  BY <1>4 DEF Same
    <2>3. c.rt \in Owned  BY CleanupOwned, ResultRecords
    <2>4. f = c.rt \/ f = [c.rt EXCEPT !.active = NoPrompt]  BY <2>1, <2>2
    <2> QED  BY <2>2, <2>3, <2>4 DEF Same, Owned, RuntimeState
  <1>6. \A t \in TeardownIfUp(r) : Same(r, t.rt)  BY DEF TeardownIfUp, Ok, Same
  <1> QED  BY <1>1, <1>2, <1>3, <1>5, <1>6

LEMMA TornDown ==
    ASSUME NEW r \in Owned, NEW t \in Teardown(r), t.ok
    PROVE  t.rt.process = "none" /\ t.rt.model # "off"
  <1>1. PICK c \in Cleanup(r) : \E m \in (IF c.ok THEN Restore(StopComfy(c.rt)) ELSE {c}) :
            t = [m EXCEPT !.rt.active = NoPrompt]
    BY DEF Teardown
  <1>2. PICK m \in (IF c.ok THEN Restore(StopComfy(c.rt)) ELSE {c}) : t = [m EXCEPT !.rt.active = NoPrompt]
    BY <1>1
  <1>3. c \in Results(Owned)  BY CleanupOwned
  <1>4. CASE ~c.ok
    <2>1. m = c  BY <1>2, <1>4
    <2> QED  BY <1>2, <1>3, <1>4, <2>1 DEF Results
  <1>5. CASE c.ok
    <2>1. StopComfy(c.rt) \in Stopped  BY <1>3, FieldChanges DEF Results
    <2>2. m \in Restore(StopComfy(c.rt)) /\ m \in Results(Stopped)  BY <1>2, <1>5, <2>1, RestoreStopped
    <2>3. t.ok = m.ok /\ t.rt.process = m.rt.process /\ t.rt.model = m.rt.model
      BY <1>2, <2>2 DEF Results, Stopped, Owned, RuntimeState
    <2>4. m.rt.process = "none"  BY <2>2 DEF Results, Stopped
    <2>5. m.ok => m.rt.model # "off"
      BY <2>1, <2>2 DEF Restore, Ok, Raised, If, Stopped, Owned, RuntimeState
    <2> QED  BY <2>3, <2>4, <2>5
  <1> QED  BY <1>4, <1>5

\* How a step looks to those who share the GPU.
LEMMA GpuSteps ==
    ASSUME rt \in Owned, rt' \in Owned, Leases \in Nat, client'.edit = client.edit
    PROVE  /\ Leases' = Leases /\ (Leases = 0 \/ client.edit \/ Same(rt, rt')) => [Gpu!Next]_(Gpu!gpuVars)
           /\ /\ Leases' = Leases + 1 /\ (rt'.process = "none" \/ client.edit)
              /\ Same(rt, rt') \/ (rt'.process = "none" /\ rt'.model # "off")
              => Gpu!Next
           /\ Leases' = Leases - 1 /\ Leases > 0 /\ rt' = rt => Gpu!Next
  <1>1. Tenants = Claims(rt) /\ Tenants' = Claims(rt')  BY DEF Tenants, Claims
  <1>2. ASSUME Leases' = Leases, Leases = 0 \/ client.edit \/ Same(rt, rt') PROVE [Gpu!Next]_(Gpu!gpuVars)
    <2>1. CASE Leases = 0 \/ client.edit
      <3>1. Gpu!ChangesHands  BY <1>1, <1>2, <2>1, ClaimsAre DEF Gpu!ChangesHands
      <3> QED  BY <3>1 DEF Gpu!Next
    <2>2. CASE Same(rt, rt')
      <3>1. UNCHANGED Gpu!gpuVars  BY <1>1, <1>2, <2>2, ClaimsAre DEF Gpu!gpuVars
      <3> QED  BY <3>1
    <2> QED  BY <1>2, <2>1, <2>2
  <1>3. ASSUME Leases' = Leases + 1, rt'.process = "none" \/ client.edit,
               Same(rt, rt') \/ (rt'.process = "none" /\ rt'.model # "off")
        PROVE  Gpu!Next
    <2>1. Tenants' \in {Tenants, {"model"}} /\ ("comfy" \notin Tenants' \/ client.edit)
      BY <1>1, <1>3, ClaimsAre
    <2>2. Gpu!Grant  BY <1>3, <2>1 DEF Gpu!Grant
    <2> QED  BY <2>2 DEF Gpu!Next
  <1>4. ASSUME Leases' = Leases - 1, Leases > 0, rt' = rt PROVE Gpu!Next
    <2>1. Gpu!GiveBack  BY <1>1, <1>4 DEF Gpu!GiveBack
    <2> QED  BY <2>1 DEF Gpu!Next
  <1> QED  BY <1>2, <1>3, <1>4

LEMMA LeasesAre ==
    /\ HandoffInv => /\ Leases \in Nat
                     /\ Leases > 0 /\ ~client.edit => rt.hold /\ rt.process = "none"
    /\ (UNCHANGED <<live, pausing>> /\ (pausing # NoThread => pc'[pausing].at = pc[pausing].at)) => Leases' = Leases
  <1>1. ASSUME HandoffInv
        PROVE  Leases \in Nat /\ (Leases > 0 /\ ~client.edit => rt.hold /\ rt.process = "none")
    <2>1. /\ live \in Nat /\ Held(rt, pc, pausing, live) /\ Kept(rt, pc, pausing, live, client.edit)
      BY <1>1 DEF HandoffInv, Asked, Safe
    <2>2. Leases \in Nat  BY <2>1 DEF Leases
    <2>3. Leases > 0 => live > 0 \/ (pausing # NoThread /\ pc[pausing].at = "granted")  BY <2>1 DEF Leases
    <2> QED  BY <2>1, <2>2, <2>3 DEF Held, Kept, Handing
  <1>2. ASSUME UNCHANGED <<live, pausing>>, pausing # NoThread => pc'[pausing].at = pc[pausing].at
        PROVE  Leases' = Leases
    <2>1. (pausing' # NoThread /\ pc'[pausing'].at = "granted") <=> (pausing # NoThread /\ pc[pausing].at = "granted")
      BY <1>2
    <2> QED  BY <1>2, <2>1 DEF Leases
  <1> QED  BY <1>1, <1>2

\* The steps of the router and of the broker's threads.
LEMMA RouterShares ==
    ASSUME HandoffInv, HandoffInv',
           \/ \E t \in Pausers : HandOff(t) \/ HandedOff(t) \/ HandOffTimesOut(t) \/ PauseAlone(t)
           \/ JobEnds \/ Resume
    PROVE  [Gpu!Next]_(Gpu!gpuVars)
  <1>0. /\ rt \in Owned /\ rt' \in Owned /\ pc \in [Pausers \cup Viewers -> Thread] /\ live \in Nat
        /\ pausing \in Pausers \cup {NoThread} /\ NoThread \notin Pausers
        /\ Held(rt, pc, pausing, live) /\ Kept(rt, pc, pausing, live, client.edit)
        /\ Kept(rt', pc', pausing', live', client'.edit)
    BY DEF HandoffInv, BrokerInv, Threads, Asked, Safe
  <1>1. Leases \in Nat /\ (Leases > 0 /\ ~client.edit => rt.hold /\ rt.process = "none")  BY LeasesAre
  <1>2. client' = client
    <2>1. \A t \in Pausers : HandOff(t) => client' = client  BY DEF HandOff
    <2>2. \A t \in Pausers : HandedOff(t) => client' = client  BY DEF HandedOff
    <2>3. \A t \in Pausers : HandOffTimesOut(t) => client' = client  BY DEF HandOffTimesOut
    <2>4. \A t \in Pausers : PauseAlone(t) => client' = client  BY DEF PauseAlone
    <2>5. JobEnds \/ Resume => client' = client  BY DEF JobEnds, Resume
    <2> QED  BY <2>1, <2>2, <2>3, <2>4, <2>5
  <1>3. ASSUME Leases' = Leases, Leases = 0 \/ client.edit \/ Same(rt, rt') PROVE [Gpu!Next]_(Gpu!gpuVars)
    BY <1>0, <1>1, <1>2, <1>3, GpuSteps
  <1>4. ASSUME Leases' = Leases + 1, rt'.process = "none" \/ client.edit,
               Same(rt, rt') \/ (rt'.process = "none" /\ rt'.model # "off")
        PROVE  [Gpu!Next]_(Gpu!gpuVars)
    BY <1>0, <1>1, <1>2, <1>4, GpuSteps
  <1>5. ASSUME Leases' = Leases - 1, Leases > 0, rt' = rt PROVE [Gpu!Next]_(Gpu!gpuVars)
    BY <1>0, <1>1, <1>2, <1>5, GpuSteps
  <1>6. ASSUME NEW t \in Pausers, HandOff(t) PROVE [Gpu!Next]_(Gpu!gpuVars)
    <2>1. pausing = NoThread /\ pausing' = t /\ live' = live /\ PauseCall(t)  BY <1>6 DEF HandOff
    <2>2. Leases = live /\ Leases' = live + IF pc'[t].at = "granted" THEN 1 ELSE 0  BY <1>0, <2>1 DEF Leases
    <2>3. CASE rt.process = "none" /\ rt' = [rt EXCEPT !.hold = TRUE] /\ pc' = [pc EXCEPT ![t].at = "granted"]
      <3>1. pc'[t].at = "granted"  BY <1>0, <2>3 DEF Thread
      <3>2. Same(rt, rt') /\ rt'.process = "none"  BY <1>0, <2>3 DEF Same, Owned, RuntimeState
      <3> QED  BY <1>4, <2>2, <3>1, <3>2
    <2>4. ASSUME rt.process # "none", NEW o \in Teardown([rt EXCEPT !.hold = TRUE]), rt' = o.rt,
                 pc' = [pc EXCEPT ![t].at = IF o.ok THEN "granted" ELSE "refused"]
          PROVE  [Gpu!Next]_(Gpu!gpuVars)
      <3>1. pc'[t].at = IF o.ok THEN "granted" ELSE "refused"  BY <1>0, <2>4 DEF Thread
      <3>2. [rt EXCEPT !.hold = TRUE] \in Owned  BY <1>0, FieldChanges
      <3>3. o.ok => rt'.process = "none" /\ rt'.model # "off"  BY <2>4, <3>2, TornDown
      <3>4. CASE o.ok
        <4>1. Leases' = Leases + 1  BY <2>2, <3>1, <3>4
        <4> QED  BY <1>4, <3>3, <3>4, <4>1
      <3>5. CASE ~o.ok
        <4>1. Leases' = Leases  BY <1>0, <2>2, <3>1, <3>5
        <4>2. Leases = 0 \/ client.edit  BY <1>1, <2>4
        <4> QED  BY <1>3, <4>1, <4>2
      <3> QED  BY <3>4, <3>5
    <2>5. CASE /\ rt' = [rt EXCEPT !.hold = TRUE, !.preempt = TRUE, !.done = FALSE]
               /\ pc' = [pc EXCEPT ![t] = [at |-> "interrupt", target |-> rt.active, keep |-> FALSE]]
      <3>1. pc'[t].at = "interrupt"  BY <1>0, <2>5
      <3>2. Same(rt, rt')  BY <1>0, <2>5 DEF Same, Owned, RuntimeState
      <3>3. Leases' = Leases  BY <1>0, <2>2, <3>1
      <3> QED  BY <1>3, <3>2, <3>3
    <2> QED  BY <2>1, <2>3, <2>4, <2>5 DEF PauseCall
  <1>7. ASSUME NEW t \in Pausers, HandedOff(t) PROVE [Gpu!Next]_(Gpu!gpuVars)
    <2>1. /\ pausing = t /\ pausing' = NoThread /\ pc[t].at \in {"granted", "refused"} /\ rt' = rt
          /\ live' = IF pc[t].at = "granted" THEN live + 1 ELSE live
      BY <1>7 DEF HandedOff, PauseAnswered
    <2>2. Leases' = Leases  BY <1>0, <2>1 DEF Leases
    <2> QED  BY <1>3, <2>1, <2>2 DEF Same
  <1>8. ASSUME NEW t \in Pausers, HandOffTimesOut(t) PROVE [Gpu!Next]_(Gpu!gpuVars)
    <2>1. pausing = t /\ pausing' = NoThread /\ UNCHANGED <<rt, pc, live>>
      BY <1>8 DEF HandOffTimesOut, brokerVars
    <2>2. Leases = live + (IF pc[t].at = "granted" THEN 1 ELSE 0) /\ Leases' = live  BY <1>0, <2>1 DEF Leases
    <2>3. CASE pc[t].at = "granted"  BY <1>0, <1>5, <2>1, <2>2, <2>3
    <2>4. CASE pc[t].at # "granted"  BY <1>0, <1>3, <2>1, <2>2, <2>4 DEF Same
    <2> QED  BY <2>3, <2>4
  <1>9. ASSUME NEW t \in Pausers, PauseAlone(t) PROVE [Gpu!Next]_(Gpu!gpuVars)
    <2>1. UNCHANGED <<live, pausing>>  BY <1>9 DEF PauseAlone, routerVars
    <2>2. \A u \in Pausers : u # t => pc'[u] = pc[u]
      BY <1>0, <1>9 DEF PauseAlone, PauseInterrupt, PauseWoken, PauseTimesOut, PauseFinish, PauseAnswered
    <2>3. ASSUME (pausing = t => pc'[t].at # "granted" /\ pc[t].at # "granted") PROVE Leases' = Leases
      BY <1>0, <2>1, <2>2, <2>3 DEF Leases
    <2>4. CASE PauseInterrupt(t) \/ PauseTimesOut(t)
      <3>1. rt' = rt /\ pc'[t].at # "granted" /\ pc[t].at # "granted"
        BY <1>0, <2>4 DEF PauseInterrupt, PauseTimesOut, Thread
      <3> QED  BY <1>3, <2>3, <3>1 DEF Same
    <2>5. CASE PauseWoken(t)
      <3>1. pc[t].at = "waiting" /\ rt.done /\ rt' = rt /\ pc'[t].at = "granted"
        BY <1>0, <2>5 DEF PauseWoken, Thread
      <3>2. CASE pausing = t
        <4>1. Leases' = Leases + 1  BY <1>0, <2>1, <3>1, <3>2 DEF Leases
        <4>2. rt.process = "none" \/ client.edit  BY <1>0, <3>1, <3>2 DEF Kept, Handing
        <4> QED  BY <1>4, <3>1, <4>1, <4>2 DEF Same
      <3>3. CASE pausing # t  BY <1>3, <2>3, <3>1, <3>3 DEF Same
      <3> QED  BY <3>2, <3>3
    <2>6. CASE PauseFinish(t)
      <3>1. pc[t].at = "late" /\ \E o \in (IF rt.process = "none" THEN {Ok(rt)}
                                           ELSE Teardown([rt EXCEPT !.preempted = pc[t].target])) :
                /\ rt' = IF o.ok THEN [o.rt EXCEPT !.preempt = FALSE, !.done = TRUE] ELSE o.rt
                /\ pc' = [pc EXCEPT ![t].at = IF o.ok THEN "granted" ELSE "refused"]
        BY <2>6 DEF PauseFinish
      <3>2. PICK o \in (IF rt.process = "none" THEN {Ok(rt)}
                        ELSE Teardown([rt EXCEPT !.preempted = pc[t].target])) :
                /\ rt' = IF o.ok THEN [o.rt EXCEPT !.preempt = FALSE, !.done = TRUE] ELSE o.rt
                /\ pc' = [pc EXCEPT ![t].at = IF o.ok THEN "granted" ELSE "refused"]
        BY <3>1
      <3>3. pc'[t].at = IF o.ok THEN "granted" ELSE "refused"  BY <1>0, <3>2 DEF Thread
      <3>4. CASE rt.process = "none"
        <4>1. o.ok /\ o.rt = rt  BY <3>2, <3>4 DEF Ok
        <4>2. Same(rt, rt') /\ rt'.process = "none"  BY <1>0, <3>2, <3>4, <4>1 DEF Same, Owned, RuntimeState
        <4>3. CASE pausing = t
          <5>1. Leases' = Leases + 1  BY <1>0, <2>1, <3>1, <3>3, <4>1, <4>3 DEF Leases
          <5> QED  BY <1>4, <4>2, <5>1
        <4>4. CASE pausing # t  BY <1>3, <2>3, <4>2, <4>4
        <4> QED  BY <4>3, <4>4
      <3>5. CASE rt.process # "none"
        <4>1. o \in Teardown([rt EXCEPT !.preempted = pc[t].target])  BY <3>2, <3>5
        <4>2. [rt EXCEPT !.preempted = pc[t].target] \in Owned
          <5>1. pc[t].target \in PromptIds \cup {NoPrompt}  BY <1>0 DEF Thread
          <5> QED  BY <1>0, <5>1, FieldChanges
        <4>3. o.ok => o.rt.process = "none" /\ o.rt.model # "off"  BY <4>1, <4>2, TornDown
        <4>4. o.rt \in Owned  BY <4>1, <4>2, TeardownOwned, ResultRecords
        <4>5. o.ok => rt'.process = "none" /\ rt'.model # "off"
          BY <3>2, <4>3, <4>4 DEF Owned, RuntimeState
        <4>6. Leases = 0 \/ client.edit  BY <1>1, <3>5
        <4>7. CASE pausing = t /\ o.ok
          <5>1. Leases' = Leases + 1  BY <1>0, <2>1, <3>1, <3>3, <4>7 DEF Leases
          <5> QED  BY <1>4, <4>5, <4>7, <5>1
        <4>8. CASE ~(pausing = t /\ o.ok)
          <5>1. Leases' = Leases  BY <2>3, <3>1, <3>3, <4>8
          <5> QED  BY <1>3, <4>6, <5>1
        <4> QED  BY <4>7, <4>8
      <3> QED  BY <3>4, <3>5
    <2>7. CASE pausing # t /\ PauseAnswered(t)
      <3>1. rt' = rt  BY <2>7 DEF PauseAnswered
      <3> QED  BY <1>3, <2>3, <2>7, <3>1 DEF Same
    <2> QED  BY <1>9, <2>4, <2>5, <2>6, <2>7 DEF PauseAlone
  <1>10. CASE JobEnds
    <2>1. live > 0 /\ live' = live - 1 /\ UNCHANGED <<rt, pc, pausing>>  BY <1>10 DEF JobEnds, brokerVars
    <2>2. Leases' = Leases - 1 /\ Leases > 0  BY <1>0, <2>1 DEF Leases
    <2> QED  BY <1>5, <2>1, <2>2
  <1>11. CASE Resume
    <2>1. rt' = [rt EXCEPT !.hold = FALSE] /\ UNCHANGED <<live, pausing, pc>>  BY <1>11 DEF Resume, ResumeCall
    <2>2. Same(rt, rt')  BY <1>0, <2>1 DEF Same, Owned, RuntimeState
    <2>3. Leases' = Leases  BY <2>1, LeasesAre
    <2> QED  BY <1>3, <2>2, <2>3
  <1> QED  BY <1>6, <1>7, <1>8, <1>9, <1>10, <1>11

\* The steps of the client, and those that nobody asks for.
LEMMA ClientShares ==
    ASSUME HandoffInv, HandoffInv',
           \/ ClientNext \/ PollGivesUp
           \/ \E v \in Viewers : Finishing(v)
           \/ Reaping \/ Exiting
    PROVE  [Gpu!Next]_(Gpu!gpuVars)
  <1>0. /\ rt \in Owned /\ rt' \in Owned /\ pc \in [Pausers \cup Viewers -> Thread]
        /\ pausing \in Pausers \cup {NoThread} /\ NoThread \notin Pausers /\ Pausers \cap Viewers = {}
        /\ Batching(client)
    BY DEF HandoffInv, BrokerInv, Threads
  <1>1. Leases \in Nat /\ (Leases > 0 /\ ~client.edit => rt.hold /\ rt.process = "none")  BY LeasesAre
  <1>2. ASSUME UNCHANGED <<live, pausing>>, \A t \in Pausers : pc'[t] = pc[t], client'.edit = client.edit,
               rt.hold /\ rt.process = "none" /\ ~client.edit => Same(rt, rt')
        PROVE  [Gpu!Next]_(Gpu!gpuVars)
    <2>1. Leases' = Leases  BY <1>0, <1>2, LeasesAre
    <2> QED  BY <1>0, <1>1, <1>2, <2>1, GpuSteps
  <1>3. CASE UploadInput
    <2>1. UNCHANGED <<live, pausing, pc>> /\ (client.edit \/ rt' = rt)
      BY <1>3 DEF UploadInput, routerVars, brokerVars
    <2>2. client'.edit = client.edit
      <3>1. client.at = "begin" /\ (Goes("submit") \/ Stops(FALSE, "failed"))  BY <1>3 DEF UploadInput
      <3> QED  BY <1>0, <3>1, ClientSteps
    <2> QED  BY <1>2, <2>1, <2>2 DEF Same
  <1>4. CASE Submit
    <2>1. UNCHANGED <<live, pausing, pc>> /\ client.at = "submit"  BY <1>4 DEF Submit, routerVars
    <2>2. PICK o \in Prompt(rt, prompts + 1) :
              /\ Broker(o, o.ans)
              /\ \/ client' = [client EXCEPT !.at = "poll", !.prompt = prompts + 1]
                 \/ \E touched \in BOOLEAN, then \in {"paused", "failed"} : Stops(touched, then)
      BY <1>4 DEF Submit
    <2>3. client'.edit = client.edit  BY <1>0, <2>1, <2>2, ClientSteps DEF Batching, Client
    <2>4. rt' = o.rt  BY <2>2 DEF Broker
    <2>5. rt.hold /\ rt.process = "none" => Same(rt, rt')  BY <1>0, <2>2, <2>4, HeldStill
    <2> QED  BY <1>2, <2>1, <2>3, <2>5
  <1>5. CASE Poll
    <2>1. UNCHANGED <<live, pausing, pc>> /\ client.at = "poll"  BY <1>5 DEF Poll, routerVars
    <2>2. PICK o \in History(rt, client.prompt) :
              Broker(o, o.ans) /\ (Goes("view") \/ Stops(TRUE, "paused") \/ UNCHANGED client)
      BY <1>5 DEF Poll
    <2>3. client'.edit = client.edit  BY <1>0, <2>1, <2>2, ClientSteps
    <2>4. rt' = o.rt  BY <2>2 DEF Broker
    <2>5. rt.hold /\ rt.process = "none" => Same(rt, rt')  BY <1>0, <2>2, <2>4, HeldStill
    <2> QED  BY <1>2, <2>1, <2>3, <2>5
  <1>6. CASE PollGivesUp
    <2>1. UNCHANGED <<live, pausing, pc, rt>> /\ client.at = "poll" /\ Stops(TRUE, "failed")
      BY <1>6 DEF PollGivesUp, routerVars, brokerVars
    <2>2. client'.edit = client.edit  BY <1>0, <2>1, ClientSteps
    <2> QED  BY <1>2, <2>1, <2>2 DEF Same
  <1>7. ASSUME NEW v \in Viewers, Download(v) PROVE [Gpu!Next]_(Gpu!gpuVars)
    <2>1. UNCHANGED <<live, pausing>> /\ client.at = "view"  BY <1>7 DEF Download, routerVars
    <2>2. PICK o \in View(rt, client.prompt) :
              /\ Broker(o, o.ans)
              /\ \/ /\ pc' = [pc EXCEPT ![v] = [at |-> "sending", target |-> client.prompt, keep |-> TRUE]]
                    /\ client' = [client EXCEPT
                         !.images = @ + 1,
                         !.at = IF client.images + 1 < Batch THEN "submit" ELSE "closing"]
                 \/ UNCHANGED pc /\ \E then \in {"paused", "failed"} : Stops(TRUE, then)
      BY <1>7 DEF Download
    <2>3. client'.edit = client.edit  BY <1>0, <2>1, <2>2, ClientSteps DEF Batching, Client
    <2>4. rt' = o.rt  BY <2>2 DEF Broker
    <2>5. rt.hold /\ rt.process = "none" => Same(rt, rt')  BY <1>0, <2>2, <2>4, HeldStill
    <2>6. \A t \in Pausers : pc'[t] = pc[t]  BY <1>0, <2>2
    <2> QED  BY <1>2, <2>1, <2>3, <2>5, <2>6
  <1>8. CASE Release
    <2>1. UNCHANGED <<live, pausing, pc>> /\ client.at \in {"release", "closing"}  BY <1>8 DEF Release, routerVars
    <2>2. PICK u \in TeardownIfUp(rt) : Broker(u, "ok")  BY <1>8 DEF Release
    <2>3. client'.edit = client.edit
      BY <1>0, <1>8 DEF Release, Goes, Batching, Client
    <2>4. rt' = u.rt  BY <2>2 DEF Broker
    <2>5. rt.hold /\ rt.process = "none" => Same(rt, rt')  BY <1>0, <2>2, <2>4, HeldStill
    <2> QED  BY <1>2, <2>1, <2>3, <2>5
  <1>9. CASE ResumeBatch
    <2>1. UNCHANGED <<live, pausing, pc, rt>> /\ client.at = "paused" /\ Goes("begin")
      BY <1>9 DEF ResumeBatch, routerVars, brokerVars
    <2>2. client'.edit = client.edit  BY <1>0, <2>1, ClientSteps
    <2> QED  BY <1>2, <2>1, <2>2 DEF Same
  <1>10. ASSUME NEW v \in Viewers, Finishing(v) PROVE [Gpu!Next]_(Gpu!gpuVars)
    <2>1. /\ UNCHANGED <<live, pausing, client>> /\ rt' \in FinishViewOf(rt, pc[v].keep)
          /\ pc' = [pc EXCEPT ![v] = Idle]
      BY <1>10 DEF Finishing, FinishView, routerVars
    <2>2. rt.hold /\ rt.process = "none" => Same(rt, rt')  BY <1>0, <2>1, HeldStill
    <2>3. \A t \in Pausers : pc'[t] = pc[t]  BY <1>0, <2>1
    <2> QED  BY <1>2, <2>1, <2>2, <2>3
  <1>11. CASE Reaping \/ Exiting
    <2>1. UNCHANGED <<live, pausing, client, pc>> /\ rt.process # "none"
      BY <1>11 DEF Reaping, ExpireIdle, Exiting, ComfyExits, routerVars
    <2> QED  BY <1>2, <2>1
  <1> QED  BY <1>3, <1>4, <1>5, <1>6, <1>7, <1>8, <1>9, <1>10, <1>11 DEF ClientNext

\* The router, the broker and the image client share the GPU as SharedGpu promises: from the moment
\* a pause is granted until its job has ended the GPU does not change hands, whatever fails
\* outside the broker; only a batch that edits an uploaded image breaks in.
THEOREM HandoffShares == HandoffSpec => SharesGpu
  <1>1. HandoffInit => Gpu!Init
    BY DEF HandoffInit, BrokerInit, InitialRuntime, Gpu!Init, Tenants, Leases
  <1>2. HandoffInv /\ HandoffInv' /\ [HandoffNext]_handoffVars => [Gpu!Next]_(Gpu!gpuVars)
    <2> SUFFICES ASSUME HandoffInv, HandoffInv', [HandoffNext]_handoffVars PROVE [Gpu!Next]_(Gpu!gpuVars)
      OBVIOUS
    <2>1. CASE UNCHANGED handoffVars
      <3>1. UNCHANGED <<rt, pc, pausing, live, client>>  BY <2>1 DEF handoffVars, brokerVars, routerVars
      <3> QED  BY <3>1 DEF Gpu!gpuVars, Tenants, Leases
    <2> QED  BY <2>1, RouterShares, ClientShares DEF HandoffNext
  <1>3. HandoffSpec => []HandoffInv  BY HandoffInitial, HandoffSteps, PTL DEF HandoffSpec
  <1>4. HandoffSpec => Gpu!Init /\ [][Gpu!Next]_(Gpu!gpuVars)
    BY <1>1, <1>2, <1>3, PTL DEF HandoffSpec
  <1> QED  BY <1>4 DEF SharesGpu, Gpu!Spec

-----------------------------------------------------------------------------
(* The queue of the fast model *)

QueueShape == call \in [Calls -> Call] /\ seq \in Nat /\ started \in {0, 1} /\ worker \in BOOLEAN

\* The heap keys of the calls are told apart by their sequence numbers.
KeysDiffer ==
    /\ \A c \in Calls : call[c].at # "new" => call[c].seq < seq
    /\ \A c, d \in Calls : /\ call[c].at # "new" /\ call[d].at # "new"
                           /\ call[c].seq = call[d].seq
                           => c = d

\* A worker either has not looked at the queue yet or runs exactly one call.
OneWorker ==
    /\ \A c, d \in Calls : call[c].at = "running" /\ call[d].at = "running" => c = d
    /\ started > 0 => worker /\ \A c \in Calls : call[c].at # "running"
    /\ ~worker => \A c \in Calls : call[c].at # "running"

QueueInv == QueueShape /\ KeysDiffer /\ OneWorker

LEMMA QueueInitInv == QueueInit => QueueInv
  <1> SUFFICES ASSUME QueueInit PROVE QueueInv
    OBVIOUS
  <1>1. [at |-> "new", priority |-> 0, seq |-> 0, cancelled |-> FALSE] \in Call
    BY DEF Call, Priorities
  <1>2. QueueShape  BY <1>1 DEF QueueInit, QueueShape
  <1>3. \A c \in Calls : call[c].at = "new"  BY DEF QueueInit
  <1> QED  BY <1>2, <1>3 DEF QueueInit, QueueInv, KeysDiffer, OneWorker

\* Keys that differ are ordered, so the heap yields one call at most.
LEMMA OneNext ==
    ASSUME QueueShape, KeysDiffer, NEW c \in NextCall, NEW d \in NextCall
    PROVE  c = d
  <1> SUFFICES ASSUME c # d PROVE FALSE
    OBVIOUS
  <1>1. /\ c \in Calls /\ d \in Calls /\ call[c].at = "queued" /\ call[d].at = "queued"
        /\ Before(c, d) /\ Before(d, c)
    BY DEF NextCall, Waiting
  <1>2. /\ call[c].seq \in Nat /\ call[d].seq \in Nat
        /\ call[c].priority \in Nat /\ call[d].priority \in Nat
    BY <1>1 DEF QueueShape, Call, Priorities
  <1> QED  BY <1>1, <1>2 DEF Before

\* A worker that goes round runs one call at most and is gone without one.
LEMMA RoundStep ==
    ASSUME QueueInv, NEW ended \in SUBSET Calls, GoesRound(ended),
           \A c \in Calls : call[c].at = "running" => c \in ended
    PROVE  /\ call' \in [Calls -> Call] /\ worker' \in BOOLEAN
           /\ \A c \in Calls : /\ call'[c].seq = call[c].seq
                               /\ call'[c].at = "new" <=> call[c].at = "new" /\ c \notin ended
           /\ \A c \in Calls : call'[c].at = "running" => c \in NextCall /\ worker'
  <1> DEFINE next == NextCall
             dropped == {d \in Calls : /\ call[d].at = "queued" /\ call[d].cancelled
                                       /\ \A c \in next : Before(d, c)}
             at(d) == IF d \in ended \cup dropped THEN "done"
                      ELSE IF d \in next THEN "running" ELSE call[d].at
  <1>1. call' = [d \in Calls |-> [call[d] EXCEPT !.at = at(d)]] /\ worker' = (next # {})
    BY DEF GoesRound
  <1>2. \A d \in Calls : call[d] \in Call  BY DEF QueueInv, QueueShape
  <1>3. \A d \in Calls : at(d) \in {"new", "queued", "running", "done"}
    BY <1>2 DEF Call
  <1>4. ASSUME NEW d \in Calls
        PROVE  /\ call'[d] \in Call /\ call'[d].seq = call[d].seq /\ call'[d].at = at(d)
    BY <1>1, <1>2, <1>3 DEF Call
  <1>5. call' \in [Calls -> Call]  BY <1>1, <1>4
  <1>6. \A d \in next \cup dropped : call[d].at = "queued"  BY DEF NextCall, Waiting
  <1>7. \A d \in Calls : call'[d].at = "new" <=> call[d].at = "new" /\ d \notin ended
    BY <1>4, <1>6
  <1>8. \A d \in Calls : call'[d].at = "running" => d \in next
    BY <1>4
  <1> HIDE DEF next, dropped, at
  <1>9. worker' \in BOOLEAN  BY <1>1
  <1> QED  BY <1>1, <1>4, <1>5, <1>7, <1>8, <1>9 DEF next

LEMMA QueueStep == QueueInv /\ [QueueNext]_queueVars => QueueInv'
  <1> SUFFICES ASSUME QueueInv, [QueueNext]_queueVars PROVE QueueInv'
    OBVIOUS
  <1> USE DEF QueueInv
  <1>1. CASE UNCHANGED queueVars
    BY <1>1 DEF queueVars, QueueShape, KeysDiffer, OneWorker
  <1>2. ASSUME NEW c \in Calls, NEW priority \in Priorities, SubmitCall(c, priority) PROVE QueueInv'
    <2> DEFINE new == [at |-> "queued", priority |-> priority, seq |-> seq, cancelled |-> FALSE]
    <2>1. /\ call[c].at = "new" /\ call' = [call EXCEPT ![c] = new] /\ seq' = seq + 1
          /\ started' = IF ~worker THEN started + 1 ELSE started
          /\ worker' = TRUE
      BY <1>2 DEF SubmitCall, NextSeq, NeedsWorker
    <2>2. new \in Call  BY DEF Call, QueueShape
    <2>3. seq + 1 \in Nat  BY DEF QueueShape
    <2>4. QueueShape'  BY <2>1, <2>2, <2>3 DEF QueueShape, OneWorker
    <2>5. \A d \in Calls : d # c => call'[d] = call[d]  BY <2>1 DEF QueueShape
    <2>6. call'[c] = new  BY <2>1 DEF QueueShape
    <2>7. KeysDiffer'
      <3>1. \A d \in Calls : call[d].seq \in Nat  BY DEF QueueShape, Call
      <3>2. \A d \in Calls : d # c /\ call[d].at # "new" => call'[d].seq < seq
        BY <2>5 DEF KeysDiffer
      <3> QED  BY <2>1, <2>5, <2>6, <3>1, <3>2 DEF KeysDiffer, QueueShape
    <2>8. OneWorker'  BY <2>1, <2>5, <2>6 DEF OneWorker
    <2> QED  BY <2>4, <2>7, <2>8
  <1>3. ASSUME NEW c \in Calls, CancelCall(c) PROVE QueueInv'
    <2>1. call' = [call EXCEPT ![c].cancelled = TRUE] /\ UNCHANGED <<seq, started, worker>>
      BY <1>3 DEF CancelCall
    <2>2. [call[c] EXCEPT !.cancelled = TRUE] \in Call  BY DEF QueueShape, Call
    <2>3. QueueShape'  BY <2>1, <2>2 DEF QueueShape
    <2>4. \A d \in Calls : call'[d].at = call[d].at /\ call'[d].seq = call[d].seq
      BY <2>1 DEF QueueShape, Call
    <2>5. KeysDiffer' /\ OneWorker'  BY <2>1, <2>4 DEF KeysDiffer, OneWorker
    <2> QED  BY <2>3, <2>5
  <1>4. ASSUME NEW ended \in SUBSET Calls, GoesRound(ended), started' = 0, UNCHANGED seq,
               \A c \in Calls : call[c].at = "running" <=> c \in ended
        PROVE  QueueInv'
    <2>1. /\ call' \in [Calls -> Call] /\ worker' \in BOOLEAN
          /\ \A c \in Calls : /\ call'[c].seq = call[c].seq
                              /\ call'[c].at = "new" <=> call[c].at = "new" /\ c \notin ended
          /\ \A c \in Calls : call'[c].at = "running" => c \in NextCall /\ worker'
      BY <1>4, RoundStep
    <2>2. QueueShape'  BY <1>4, <2>1 DEF QueueShape
    <2>3. \A c \in ended : call[c].at # "new"  BY <1>4
    <2>4. KeysDiffer'  BY <1>4, <2>1, <2>3 DEF KeysDiffer
    <2>5. OneWorker'  BY <1>4, <2>1, OneNext DEF OneWorker
    <2> QED  BY <2>2, <2>4, <2>5
  <1>5. ASSUME Starts PROVE QueueInv'
    <2>1. GoesRound({}) /\ started' = 0 /\ UNCHANGED seq
      BY <1>5 DEF Starts, QueueShape
    <2> QED  BY <1>4, <1>5, <2>1 DEF Starts, OneWorker
  <1>6. ASSUME NEW c \in Calls, Ends(c) PROVE QueueInv'
    <2>1. GoesRound({c}) /\ started' = 0 /\ UNCHANGED seq
      BY <1>6 DEF Ends, OneWorker, QueueShape
    <2> QED  BY <1>4, <1>6, <2>1 DEF Ends, OneWorker
  <1> QED  BY <1>1, <1>2, <1>3, <1>5, <1>6 DEF QueueNext

-----------------------------------------------------------------------------
\* One operation of the fast model at a time, whatever is submitted or given
\* up while workers end and start.
THEOREM QueueSerialized == QueueSpec => []Serialized
  <1>1. QueueInv => Serialized
    <2> SUFFICES ASSUME QueueInv PROVE Serialized
      OBVIOUS
    <2> DEFINE running == {c \in Calls : call[c].at = "running"}
    <2>1. CASE running = {}
      <3>1. Cardinality(running) = 0  BY <2>1, FS_EmptySet
      <3> QED  BY <3>1 DEF Serialized
    <2>2. CASE running # {}
      <3>1. PICK c \in running : TRUE  BY <2>2
      <3>2. running = {c}  BY <3>1 DEF QueueInv, OneWorker
      <3>3. Cardinality(running) = 1  BY <3>2, FS_Singleton
      <3> QED  BY <3>3 DEF Serialized
    <2> QED  BY <2>1, <2>2
  <1> QED  BY <1>1, QueueInitInv, QueueStep, PTL DEF QueueSpec
=============================================================================
