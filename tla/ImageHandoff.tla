----------------------------- MODULE ImageHandoff -----------------------------
(***************************************************************************)
(* The GPU broker between its two real callers: the router, which takes    *)
(* the GPU for interactive jobs (emeryrouter/scheduler.py, service.py),    *)
(* and the one image batch Emery runs at a time (emery/comfyui_image.py,   *)
(* emery/tools.py).                                                        *)
(*                                                                         *)
(* The router's part is its call protocol only, Router.tla has the rest: a *)
(* pause is outstanding at most once, under the admission lock; a resume   *)
(* is sent when no interactive job is pending.  A pause may outlast the    *)
(* router's own timeout, and then its handler thread goes on alone.        *)
(***************************************************************************)
EXTENDS GpuBroker

CONSTANTS
    Edits,     \* whether the batch edits an uploaded source image, within BOOLEAN
    Batch,     \* images in the batch
    Haste      \* timing the callers may run into, within AllHaste

AllHaste == {"slow_start",  \* a start outlasts the client's 30 s for POST /prompt
             "quick_next",  \* the next image is asked for before finish_view ran
             "late_answer", \* a hand-off outlasts the router's 180 s
             "deadline"}    \* COMFYUI_TIMEOUT_SECONDS go by without an output

NoThread == "none"

ASSUME HandoffAssumption ==
    /\ Edits \subseteq BOOLEAN /\ Haste \subseteq AllHaste
    /\ Batch \in Nat \ {0} /\ NoThread \notin Pausers

VARIABLES
    pausing,   \* the pause the router waits for, or NoThread
    live,      \* interactive jobs queued or running
    holdMaybe, \* Scheduler._image_hold_maybe
    client,    \* the task that runs generate_comfyui_images
    failed     \* a hand-off was refused or given up; only the properties look

routerVars == <<pausing, live, holdMaybe, failed>>
handoffVars == <<brokerVars, routerVars, client>>

\* at: where the task stands; prompt: its prompt_id; images: downloaded so
\* far; touched: runtime_touched; then: what follows the release.
Client == [at: {"begin", "submit", "poll", "view", "release", "paused",
                "closing", "done", "failed"},
           prompt: PromptIds \cup {NoPrompt}, images: 0..Batch,
           then: {"paused", "failed"}, edit: BOOLEAN]

\* One batch, or none.
HandoffInit ==
    /\ BrokerInit
    /\ pausing = NoThread /\ live = 0 /\ holdMaybe = TRUE
    /\ failed = FALSE
    /\ \E edit \in Edits, at \in {"begin", "done"} :
         client = [at |-> at, prompt |-> NoPrompt, images |-> 0, then |-> "failed",
                   edit |-> edit]

-----------------------------------------------------------------------------
(* The router *)

\* preempt_image_runtime for an interactive POST, under the admission lock.
HandOff(t) ==
    /\ pausing = NoThread
    /\ PauseCall(t)
    /\ pausing' = t
    /\ UNCHANGED <<live, holdMaybe, client, failed>>

\* Seeded fault: any answer of the broker counts as a hand-off.
HandedOff_Any(t) ==
    /\ pausing = t /\ PauseAnswered(t)
    /\ live' = live + 1 /\ holdMaybe' = TRUE /\ pausing' = NoThread
    /\ UNCHANGED <<client, failed>>

\* Only an answer of 200 makes the router remember that there is a hold.
HandedOff(t) ==
    /\ pausing = t
    /\ pc[t].at \in {"granted", "refused"} /\ PauseAnswered(t)
    /\ live' = IF pc[t].at = "granted" THEN live + 1 ELSE live
    /\ holdMaybe' = (holdMaybe \/ pc[t].at = "granted")
    /\ failed' = (failed \/ pc[t].at = "refused")
    /\ pausing' = NoThread
    /\ UNCHANGED client

\* No answer within 180 s.  The broker allows the interrupt 30 s and waits
\* 150 s for the image client before it acts itself, all of it after waiting
\* for the lock, which a start holds for up to 240 s.
HandOffTimesOut(t) ==
    /\ "late_answer" \in Haste
    /\ pausing = t /\ pc[t].at \in {"late", "granted", "refused"}
    /\ pausing' = NoThread /\ failed' = TRUE
    /\ UNCHANGED <<brokerVars, live, holdMaybe, client>>

\* The rest of a pause handler, whose caller may have left.
PauseAlone(t) ==
    /\ \/ PauseInterrupt(t) \/ PauseWoken(t) \/ PauseTimesOut(t) \/ PauseFinish(t)
       \/ pausing # t /\ PauseAnswered(t)
    /\ UNCHANGED <<routerVars, client>>

JobEnds ==
    /\ live > 0
    /\ live' = live - 1
    /\ UNCHANGED <<brokerVars, pausing, holdMaybe, client, failed>>

\* Seeded fault: the idle check forgets jobs that are still queued.
Resume_Early ==
    /\ pausing = NoThread /\ holdMaybe
    /\ ResumeCall
    /\ holdMaybe' = FALSE
    /\ UNCHANGED <<pausing, live, client, failed>>
\* resume_image_runtime, from the worker's idle check.
Resume ==
    /\ pausing = NoThread /\ live = 0 /\ holdMaybe
    /\ ResumeCall
    /\ holdMaybe' = FALSE
    /\ UNCHANGED <<pausing, live, client, failed>>

-----------------------------------------------------------------------------
(* The image client *)

Broker(o, a) ==     \* the broker's side of a request with outcome o
    /\ rt' = o.rt
    /\ conflicts' = Counted(a)
    /\ UNCHANGED <<pauses, gone>>

Goes(at) == client' = [client EXCEPT !.at = at]
Stops(touched, then) ==
    client' = [client EXCEPT !.at = IF touched THEN "release" ELSE then, !.then = then]

UploadInput ==
    /\ client.at = "begin"
    /\ IF ~client.edit THEN Goes("submit") /\ UNCHANGED brokerVars
       ELSE /\ \E o \in Upload(rt) :
                /\ Broker(o, o.ans)
                /\ IF o.ans = "ok" THEN Goes("submit") ELSE Stops(FALSE, "failed")
            /\ UNCHANGED <<pc, prompts, uploads>>
    /\ UNCHANGED routerVars

Submit ==
    /\ client.at = "submit" /\ prompts < MaxPrompts
    /\ "quick_next" \in Haste \/ \A v \in Viewers : pc[v].at = "idle"
    /\ \E o \in Prompt(rt, prompts + 1) :
        /\ Broker(o, o.ans)
        /\ IF o.ans = "ok"
           THEN /\ prompts' = prompts + 1
                /\ \/ client' = [client EXCEPT !.at = "poll", !.prompt = prompts + 1]
                   \/ "slow_start" \in Haste /\ rt.process # "up" /\ Stops(TRUE, "failed")
           ELSE /\ UNCHANGED prompts
                /\ Stops(FALSE, IF o.ans = "preempted" THEN "paused" ELSE "failed")
    /\ UNCHANGED <<pc, uploads, routerVars>>

Poll ==
    /\ client.at = "poll"
    /\ \E o \in History(rt, client.prompt) :
        /\ Broker(o, o.ans)
        /\ \/ o.ans = "ok" /\ Goes("view")
           \/ o.ans = "preempted" /\ Stops(TRUE, "paused")
           \/ o.ans \in {"ok", "error", "not_found"} /\ UNCHANGED client
    /\ UNCHANGED <<pc, prompts, uploads, routerVars>>

PollGivesUp ==
    /\ "deadline" \in Haste
    /\ client.at = "poll"
    /\ Stops(TRUE, "failed")
    /\ UNCHANGED <<brokerVars, routerVars>>

\* keep_alive=1: the queue keeps ComfyUI for whatever comes next.
Download(v) ==
    /\ client.at = "view" /\ pc[v].at = "idle"
    /\ \E o \in View(rt, client.prompt) :
        /\ Broker(o, o.ans)
        /\ IF o.ans = "ok"
           THEN /\ pc' = [pc EXCEPT ![v] = [at |-> "sending", target |-> client.prompt, keep |-> TRUE]]
                /\ client' = [client EXCEPT
                     !.images = @ + 1,
                     !.at = IF client.images + 1 < Batch THEN "submit" ELSE "closing"]
           ELSE /\ Stops(TRUE, IF o.ans = "preempted" THEN "paused" ELSE "failed")
                /\ UNCHANGED pc
    /\ UNCHANGED <<prompts, uploads, routerVars>>

\* _release_runtime after a failure or a pause, and once the queue is empty.
Release ==
    /\ client.at \in {"release", "closing"}
    /\ \E t \in TeardownIfUp(rt) : Broker(t, "ok")
    /\ Goes(IF client.at = "closing" THEN "done" ELSE client.then)
    /\ UNCHANGED <<pc, prompts, uploads, routerVars>>

\* Seeded fault: the test on the number of pending jobs is inverted.
ResumeBatch_Inverted ==
    /\ client.at = "paused" /\ live > 0 /\ pausing = NoThread
    /\ Goes("begin")
    /\ UNCHANGED <<brokerVars, routerVars>>
\* wait_for_interactive_router_jobs, then the rest of the batch.
ResumeBatch ==
    /\ client.at = "paused" /\ live = 0 /\ pausing = NoThread
    /\ Goes("begin")
    /\ UNCHANGED <<brokerVars, routerVars>>

ClientNext == UploadInput \/ Submit \/ Poll \/ Release \/ ResumeBatch
              \/ \E v \in Viewers : Download(v)

Finishing(v) == FinishView(v) /\ UNCHANGED <<routerVars, client>>
Reaping == ExpireIdle /\ UNCHANGED <<routerVars, client>>
Exiting == ComfyExits /\ UNCHANGED <<routerVars, client>>

HandoffNext ==
    \/ \E t \in Pausers : HandOff(t) \/ HandedOff(t) \/ HandOffTimesOut(t) \/ PauseAlone(t)
    \/ JobEnds \/ Resume
    \/ ClientNext \/ PollGivesUp
    \/ \E v \in Viewers : Finishing(v)
    \/ Reaping \/ Exiting

HandoffSpec == HandoffInit /\ [][HandoffNext]_handoffVars

\* Jobs end, the router's worker loops, handler threads and the client's task
\* run; the client's deadline and the reaper are timers that fire.
HandoffFairness ==
    /\ WF_handoffVars(JobEnds) /\ WF_handoffVars(Resume)
    /\ \A t \in Pausers : WF_handoffVars(PauseAlone(t)) /\ WF_handoffVars(HandedOff(t))
    /\ \A v \in Viewers : WF_handoffVars(Finishing(v))
    /\ WF_handoffVars(ClientNext) /\ WF_handoffVars(PollGivesUp)

HandoffLiveSpec == HandoffSpec /\ HandoffFairness

-----------------------------------------------------------------------------
(* Properties *)

HandoffTypeOK ==
    /\ BrokerTypeOK
    /\ pausing \in Pausers \cup {NoThread} /\ live \in 0..MaxPauses
    /\ holdMaybe \in BOOLEAN /\ failed \in BOOLEAN /\ client \in Client

\* While an interactive job is queued or running after its hand-off, the model
\* server has the GPU and ComfyUI does not run: no order of timeouts, resumes
\* and polls lets an image start under it.  An edit does: upload_image starts
\* ComfyUI without a look at the hold.
ModelServesJobs ==
    live > 0 => /\ rt.hold
                /\ ~client.edit => rt.model = "on" /\ rt.process = "none"

Tenants == (IF rt.process = "none" THEN {} ELSE {"comfy"}) \cup (IF rt.model = "off" THEN {} ELSE {"model"})
Leases == live + IF pausing # NoThread /\ pc[pausing].at = "granted" THEN 1 ELSE 0

\* The GPU changes hands only between the interactive jobs, from the moment a pause is granted
\* until its job has ended, and a pause is granted only without ComfyUI: see SharedGpu.
Gpu == INSTANCE SharedGpu WITH tenants <- Tenants, leases <- Leases, edit <- client.edit
SharesGpu == Gpu!Spec

\* "Wait until Portal/Jellyfin work drains before auto-resuming an image": a
\* batch that was preempted, before or after its upload, is finished or given up.
\* Neither holds after a hand-off that failed for the router, refused or given
\* up: the broker's hold is set and nobody knows that it is to be taken back.
BatchEnds ==
    client.at \in {"begin", "submit", "paused"} ~> client.at \in {"done", "failed"} \/ failed

\* The broker's hold is taken back once the interactive work has drained.
HoldEnds == rt.hold ~> ~rt.hold \/ failed

\* The hand-off is undone on both sides.
HandoffEnds == BatchEnds /\ HoldEnds
=============================================================================
