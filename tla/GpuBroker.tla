------------------------------ MODULE GpuBroker ------------------------------
(***************************************************************************)
(* The broker that shares one GPU between the language model and ComfyUI   *)
(* (scripts/qwen_b580_runtime.py).                                         *)
(*                                                                         *)
(* Every endpoint holds the runtime lock for its whole body, so it is one  *)
(* step on the record `rt`.  What the outside world may answer inside that *)
(* body makes it a set of outcomes: each operation below returns the set   *)
(* of results it may have.  Three handlers hold no lock at some point and  *)
(* are more than one step: /priority/pause interrupts and waits unlocked,  *)
(* /view sends the image and calls finish_view afterwards, and /cancel     *)
(* only reads.                                                             *)
(***************************************************************************)
EXTENDS Naturals, FiniteSets

CONSTANTS
    Pausers,     \* threads serving POST /priority/pause
    Viewers,     \* threads serving GET /view
    MaxPrompts,  \* bound: prompts ComfyUI accepts
    MaxPauses,   \* bound: calls of /priority/pause
    MaxUploads,  \* bound: source images uploaded
    Faults       \* what may go wrong outside the broker

AllFaults == {"start",     \* encoder, port or start-up check fails
              "restore",   \* the model server does not come back in time
              "cleanup",   \* the asset DELETE cannot be sent
              "reject",    \* ComfyUI answers an error
              "interrupt", \* ComfyUI does not take the interrupt
              "exit"}      \* ComfyUI dies

ASSUME BrokerAssumption ==
    /\ Faults \subseteq AllFaults
    /\ MaxPrompts \in Nat /\ MaxPauses \in Nat /\ MaxUploads \in Nat
    /\ Pausers \cap Viewers = {} /\ IsFiniteSet(Pausers)

VARIABLES
    rt,         \* the Runtime object, the model service and the input file
    pc,         \* the handler threads that can be between two locked regions
    prompts,    \* prompt ids ComfyUI has given out
    pauses,     \* calls of /priority/pause so far
    uploads,    \* uploads so far
    gone,       \* the image clients will not call again
    conflicts   \* times a client was told image_preempted while no hold stood

brokerVars == <<rt, pc, prompts, pauses, uploads, gone, conflicts>>

NoPrompt == 0

PromptIds == 1..MaxPrompts

\* process: Runtime.process, "exited" when poll() reports an exit status.
\* model:   the systemd unit; "sick" is active but not healthy.
\* upload:  uploaded_image names a file
RuntimeState == [process: {"none", "up", "exited"},
                 model: {"on", "sick", "off"},
                 active: PromptIds \cup {NoPrompt},
                 hold: BOOLEAN, preempt: BOOLEAN, done: BOOLEAN,
                 preempted: PromptIds \cup {NoPrompt},
                 upload: BOOLEAN]

InitialRuntime ==
    [process |-> "none", model |-> "on", active |-> NoPrompt, hold |-> FALSE,
     preempt |-> FALSE, done |-> FALSE, preempted |-> NoPrompt,
     upload |-> FALSE]

Ok(r)        == [rt |-> r, ok |-> TRUE]
Raised(r)    == [rt |-> r, ok |-> FALSE]
Answer(r, a) == [rt |-> r, ans |-> a]
If(fault, S) == IF fault \in Faults THEN S ELSE {}

-----------------------------------------------------------------------------
(* Private operations, called with the lock held *)

Restore(r) ==
    IF r.model # "off" THEN {Ok(r)}
    ELSE {Ok([r EXCEPT !.model = "on"])}
         \cup If("restore", {Raised(r), Raised([r EXCEPT !.model = "sick"])})

StopComfy(r) == [r EXCEPT !.process = "none"]

\* Seeded fault: the name is forgotten only after the DELETE was answered.
Cleanup_Late(r) == IF r.upload /\ r.process = "up" THEN {Raised(r)} ELSE {Ok(r)}
Cleanup(r) ==
    {Ok([r EXCEPT !.upload = FALSE])}
    \cup If("cleanup", IF r.upload /\ r.process = "up"
                       THEN {Raised([r EXCEPT !.upload = FALSE])}
                       ELSE {})

\* Seeded fault: the model is restored before ComfyUI has been stopped.
Teardown_Order(r) ==
    {[m EXCEPT !.rt.active = NoPrompt] : m \in Restore(r)}
\* The `finally` forgets the prompt whether or not an exception passes by.
Teardown(r) ==
    LET stopped(c) == IF c.ok THEN Restore(StopComfy(c.rt)) ELSE {c}
    IN  {[m EXCEPT !.rt.active = NoPrompt] : m \in UNION {stopped(c) : c \in Cleanup(r)}}

\* A teardown inside the endpoint's own try: when it raises, the except
\* clause runs a second one and swallows what that one raises.
GiveUp(r) ==
    UNION {IF t.ok THEN {t.rt} ELSE {u.rt : u \in Teardown(t.rt)} : t \in Teardown(r)}

Start(r) ==
    IF r.process = "up" THEN {Ok(r)}
    ELSE {Ok([r EXCEPT !.process = "up", !.model = "off", !.active = NoPrompt])}
         \cup If("start",
              {Raised(r), Raised([r EXCEPT !.model = "off"])}
              \cup {Raised(m.rt) : m \in
                      Restore(StopComfy([r EXCEPT !.model = "off", !.active = NoPrompt]))})

-----------------------------------------------------------------------------
(* Endpoints: the results each may have *)

Upload(r) ==
    IF r.active # NoPrompt THEN {Answer(r, "busy")}
    ELSE LET accepted(s) == [s EXCEPT !.upload = TRUE]
             after(s) == IF s.ok THEN {Answer(accepted(s.rt), "ok")}
                                      \cup If("reject", {Answer(g, "error") : g \in GiveUp(s.rt)})
                         ELSE {Answer(t.rt, "error") : t \in Teardown(s.rt)}
         IN  UNION {after(s) : s \in Start(r)}

\* Seeded fault: the stale mark survives the conflict it caused.
Prompt_MarkKept(r, p) ==
    IF r.hold \/ r.preempted # NoPrompt THEN {Answer(r, "preempted")}
    ELSE {Answer([s.rt EXCEPT !.active = p], "ok") : s \in {x \in Start(r) : x.ok}}
Prompt(r, p) ==
    IF r.hold THEN {Answer(r, "preempted")}
    ELSE IF r.preempted # NoPrompt
    THEN {Answer([r EXCEPT !.preempted = NoPrompt], "preempted")}
    ELSE IF r.active # NoPrompt THEN {Answer(r, "busy")}
    ELSE LET fresh == IF r.process = "exited" THEN Teardown(r) ELSE {Ok(r)}
             after(s) == IF s.ok THEN {Answer([s.rt EXCEPT !.active = p], "ok")}
                                      \cup If("reject", {Answer(g, "error") : g \in GiveUp(s.rt)})
                         ELSE {Answer(t.rt, "error") : t \in Teardown(s.rt)}
         IN  UNION {IF f.ok THEN UNION {after(s) : s \in Start(f.rt)}
                    ELSE {Answer(f.rt, "error")} : f \in fresh}

\* A poll or a download that finds priority_preemption set.
Preempted(r) ==
    {IF t.ok THEN Answer([t.rt EXCEPT !.preempt = FALSE, !.done = TRUE], "preempted")
             ELSE Answer(t.rt, "error") : t \in Teardown(r)}

History(r, p) ==
    IF p # r.active \/ r.process = "none"
    THEN IF p = r.preempted THEN {Answer([r EXCEPT !.preempted = NoPrompt], "preempted")}
         ELSE {Answer(r, "not_found")}
    ELSE IF r.preempt THEN Preempted(r)
    ELSE IF r.process = "exited" THEN {Answer(t.rt, "error") : t \in Teardown(r)}
    ELSE {Answer(r, "ok")}

View(r, p) ==
    IF r.active = NoPrompt \/ r.process = "none" \/ p # r.active THEN {Answer(r, "not_found")}
    ELSE IF r.preempt THEN Preempted(r)
    ELSE {Answer(r, "ok")} \cup If("reject", {Answer(t.rt, "error") : t \in Teardown(r)})

FinishViewOf(r, keep) ==
    UNION {IF ~c.ok THEN {c.rt}
           ELSE IF keep THEN {[c.rt EXCEPT !.active = NoPrompt]}
           ELSE IF c.rt.process = "none" THEN {c.rt}
           ELSE {t.rt : t \in Teardown(c.rt)} : c \in Cleanup(r)}

\* release, expire_idle and shutdown
TeardownIfUp(r) == IF r.process = "none" THEN {Ok(r)} ELSE Teardown(r)

-----------------------------------------------------------------------------
(* Handler threads *)

Idle == [at |-> "idle", target |-> NoPrompt, keep |-> FALSE]

BrokerInit ==
    /\ rt = InitialRuntime
    /\ pc = [t \in Pausers \cup Viewers |-> Idle]
    /\ prompts = 0 /\ pauses = 0 /\ uploads = 0
    /\ gone = FALSE /\ conflicts = 0

Counted(a) == IF a = "preempted" /\ ~rt.hold THEN conflicts + 1 ELSE conflicts

UploadCall ==
    /\ ~gone /\ uploads < MaxUploads
    /\ \E o \in Upload(rt) : rt' = o.rt
    /\ uploads' = uploads + 1
    /\ UNCHANGED <<pc, prompts, pauses, gone, conflicts>>

PromptCall ==
    /\ ~gone /\ prompts < MaxPrompts
    /\ \E o \in Prompt(rt, prompts + 1) :
        /\ rt' = o.rt
        /\ prompts' = IF o.ans = "ok" THEN prompts + 1 ELSE prompts
        /\ conflicts' = Counted(o.ans)
    /\ UNCHANGED <<pc, pauses, uploads, gone>>

HistoryCall(p) ==
    /\ ~gone /\ p <= prompts
    /\ \E o \in History(rt, p) : rt' = o.rt /\ conflicts' = Counted(o.ans)
    /\ UNCHANGED <<pc, prompts, pauses, uploads, gone>>

ViewCall(v, p, keep) ==
    /\ ~gone /\ p <= prompts /\ pc[v].at = "idle"
    /\ \E o \in View(rt, p) :
        /\ rt' = o.rt /\ conflicts' = Counted(o.ans)
        /\ pc' = IF o.ans = "ok" THEN [pc EXCEPT ![v] = [at |-> "sending", target |-> p, keep |-> keep]]
                 ELSE pc
    /\ UNCHANGED <<prompts, pauses, uploads, gone>>

FinishView(v) ==
    /\ pc[v].at = "sending"
    /\ rt' \in FinishViewOf(rt, pc[v].keep)
    /\ pc' = [pc EXCEPT ![v] = Idle]
    /\ UNCHANGED <<prompts, pauses, uploads, gone, conflicts>>

ReleaseCall ==
    /\ ~gone
    /\ \E t \in TeardownIfUp(rt) : rt' = t.rt
    /\ UNCHANGED <<pc, prompts, pauses, uploads, gone, conflicts>>

\* The reaper thread, once last_activity is IDLE_TIMEOUT_SECONDS old.
ExpireIdle ==
    /\ rt.process # "none"
    /\ \E t \in TeardownIfUp(rt) : rt' = t.rt
    /\ UNCHANGED <<pc, prompts, pauses, uploads, gone, conflicts>>

\* pause_for_priority, the first locked region.
PauseCall(t) ==
    /\ pauses < MaxPauses /\ pc[t].at = "idle"
    /\ pauses' = pauses + 1
    /\ \/ /\ rt.process = "none"
          /\ rt' = [rt EXCEPT !.hold = TRUE]
          /\ pc' = [pc EXCEPT ![t].at = "granted"]
       \/ /\ rt.process # "none" /\ rt.active = NoPrompt
          /\ \E o \in Teardown([rt EXCEPT !.hold = TRUE]) :
                /\ rt' = o.rt
                /\ pc' = [pc EXCEPT ![t].at = IF o.ok THEN "granted" ELSE "refused"]
       \/ /\ rt.process # "none" /\ rt.active # NoPrompt
          /\ rt' = [rt EXCEPT !.hold = TRUE, !.preempt = TRUE, !.done = FALSE]
          /\ pc' = [pc EXCEPT ![t] = [at |-> "interrupt", target |-> rt.active, keep |-> FALSE]]
    /\ UNCHANGED <<prompts, uploads, gone, conflicts>>

\* cancel_active_prompt: its own locked read, then the request without the lock.
PauseInterrupt(t) ==
    /\ pc[t].at = "interrupt"
    /\ \/ pc' = [pc EXCEPT ![t].at = "waiting"]
       \/ /\ "interrupt" \in Faults
          /\ rt.process # "none" /\ rt.active # NoPrompt
          /\ pc' = [pc EXCEPT ![t].at = "refused"]
    /\ UNCHANGED <<rt, prompts, pauses, uploads, gone, conflicts>>

PauseWoken(t) ==
    /\ pc[t].at = "waiting" /\ rt.done
    /\ pc' = [pc EXCEPT ![t].at = "granted"]
    /\ UNCHANGED <<rt, prompts, pauses, uploads, gone, conflicts>>

\* Seeded fault: the event is waited for without a timeout.
PauseTimesOut_Never(t) ==
    /\ pc[t].at = "waiting" /\ rt.preempt /\ rt.done
    /\ UNCHANGED brokerVars
\* Event.wait returned False; the event may still be set before the lock is taken.
PauseTimesOut(t) ==
    /\ pc[t].at = "waiting" /\ ~rt.done
    /\ pc' = [pc EXCEPT ![t].at = "late"]
    /\ UNCHANGED <<rt, prompts, pauses, uploads, gone, conflicts>>

\* The second locked region.
PauseFinish(t) ==
    /\ pc[t].at = "late"
    /\ \E o \in IF rt.process = "none" THEN {Ok(rt)}
                ELSE Teardown([rt EXCEPT !.preempted = pc[t].target]) :
        /\ rt' = IF o.ok THEN [o.rt EXCEPT !.preempt = FALSE, !.done = TRUE] ELSE o.rt
        /\ pc' = [pc EXCEPT ![t].at = IF o.ok THEN "granted" ELSE "refused"]
    /\ UNCHANGED <<prompts, pauses, uploads, gone, conflicts>>

\* 200 {"status":"model_ready"} or 503 reaches the router.
PauseAnswered(t) ==
    /\ pc[t].at \in {"granted", "refused"}
    /\ pc' = [pc EXCEPT ![t] = Idle]
    /\ UNCHANGED <<rt, prompts, pauses, uploads, gone, conflicts>>

ResumeCall ==
    /\ rt' = [rt EXCEPT !.hold = FALSE]
    /\ UNCHANGED <<pc, prompts, pauses, uploads, gone, conflicts>>

\* Outside the broker: ComfyUI dies, a slow model server becomes healthy.
ComfyExits ==
    /\ "exit" \in Faults /\ rt.process = "up"
    /\ rt' = [rt EXCEPT !.process = "exited"]
    /\ UNCHANGED <<pc, prompts, pauses, uploads, gone, conflicts>>

ModelRecovers ==
    /\ rt.model = "sick"
    /\ rt' = [rt EXCEPT !.model = "on"]
    /\ UNCHANGED <<pc, prompts, pauses, uploads, gone, conflicts>>

ClientsLeave ==
    /\ gone' = TRUE
    /\ UNCHANGED <<rt, pc, prompts, pauses, uploads, conflicts>>

PauseStep(t) ==
    PauseCall(t) \/ PauseInterrupt(t) \/ PauseWoken(t) \/ PauseTimesOut(t)
    \/ PauseFinish(t) \/ PauseAnswered(t)

BrokerNext ==
    \/ UploadCall \/ PromptCall \/ ReleaseCall \/ ExpireIdle \/ ResumeCall
    \/ ComfyExits \/ ModelRecovers \/ ClientsLeave
    \/ \E p \in PromptIds : HistoryCall(p)
    \/ \E v \in Viewers, p \in PromptIds, keep \in BOOLEAN : ViewCall(v, p, keep)
    \/ \E v \in Viewers : FinishView(v)
    \/ \E t \in Pausers : PauseStep(t)

BrokerSpec == BrokerInit /\ [][BrokerNext]_brokerVars

\* Every handler thread keeps running.  The reaper comes round every five
\* seconds and finds the runtime idle once no client calls any more; clients
\* and the router owe the broker nothing.
BrokerFairness ==
    /\ \A t \in Pausers :
        /\ WF_brokerVars(PauseInterrupt(t))
        /\ WF_brokerVars(PauseWoken(t) \/ PauseTimesOut(t))
        /\ WF_brokerVars(PauseFinish(t))
        /\ WF_brokerVars(PauseAnswered(t))
    /\ \A v \in Viewers : WF_brokerVars(FinishView(v))
    /\ WF_brokerVars(gone /\ ExpireIdle)

BrokerLiveSpec == BrokerSpec /\ BrokerFairness

-----------------------------------------------------------------------------
(* Properties *)

BrokerTypeOK ==
    /\ rt \in RuntimeState
    /\ \A t \in Pausers : pc[t].at \in
            {"idle", "interrupt", "waiting", "late", "granted", "refused"}
    /\ \A v \in Viewers : pc[v].at \in {"idle", "sending"}
    /\ prompts \in 0..MaxPrompts /\ pauses \in 0..MaxPauses
    /\ uploads \in 0..MaxUploads

\* ComfyUI and the model server never claim the GPU together, whatever the
\* endpoints are called with and whichever of them fails (_start_locked,
\* _restore_model_locked, _teardown_locked).
OneOwner == ~(rt.process # "none" /\ rt.model # "off")

\* What a pause leaves behind is spent: each call of /priority/pause costs the
\* image clients at most two image_preempted answers after the hold has gone,
\* one for the flag and one for the mark of a pause that timed out.
ConflictsPaid == conflicts <= 2 * pauses

\* A pause that waits is answered: by the poll that tears ComfyUI down, or by
\* itself after its timeout.
PauseEnds == \A t \in Pausers : pc[t].at \in {"interrupt", "waiting", "late"} ~> pc[t].at = "idle"

\* ComfyUI does not keep the GPU once its clients are gone: the idle reaper
\* tears it down, also after a teardown that raised halfway.
GpuReturned == gone ~> rt.process = "none"

\* Nobody waits for ever for the GPU, and nobody keeps it.
GpuFreed == PauseEnds /\ GpuReturned
=============================================================================
