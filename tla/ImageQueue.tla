------------------------------ MODULE ImageQueue ------------------------------
(***************************************************************************)
(* The image queue of each chat and its effect on the chat                 *)
(* (emery/image_lifecycle.py, the queue worker in emery/tools.py).         *)
(*                                                                         *)
(* Everything runs on one asyncio loop, so a step is the code between two  *)
(* suspensions.  The state lock never spans one, hence each locked region  *)
(* is part of the step around it.  What is in progress across a suspension *)
(* is the worker's place `at`:                                             *)
(*   wait      wait_for_image_resume                                       *)
(*   lock      asks for the pipeline lock all chats share                  *)
(*   pick      the top of the inner loop                                   *)
(*   run       generate_comfyui_images                                     *)
(*   stopping  the release inside it, after a pause or a failure           *)
(*   marked    the notices after a priority pause was entered              *)
(*   after     the notices between the job's result and its evaluation     *)
(*   closing   the release once the queue was seen empty                   *)
(*   release   the release after a pause or a cancel                       *)
(*   notice    "Emery is back up." and the wait for interactive jobs       *)
(***************************************************************************)
EXTENDS Naturals, Sequences, FiniteSets

CONSTANTS
    Chats,
    MaxJobs,       \* bound: image requests
    Batch,         \* images in each request
    Commands,      \* what users type, within {"pause", "resume", "cancel"}
    MaxCommands,   \* bound: commands typed
    Preemptions,   \* how the broker may preempt, within {"submit", "poll"}
    MaxPreempts,   \* bound: preemptions
    Failures,      \* what may fail, within {"image", "release"}
    Messages       \* text messages sent to Home

ASSUME QueueAssumption ==
    /\ MaxJobs \in Nat /\ Batch \in Nat \ {0}
    /\ MaxCommands \in Nat /\ MaxPreempts \in Nat
    /\ Commands \subseteq {"pause", "resume", "cancel"}
    /\ Preemptions \subseteq {"submit", "poll"}
    /\ Failures \subseteq {"image", "release"}

VARIABLES
    st,        \* the chat's ImageGenerationState, or NoState
    worker,    \* its worker task
    pipeline,  \* holder of image_generation_pipeline_lock, or Nobody
    requested, \* number of image requests accepted so far
    delivered, \* images sent to the chat, for each request
    excused,   \* requests that failed or were cancelled
    msg,       \* where each text message stands
    commands, preempts,
    disturbed  \* a user has paused or resumed a queue; only the properties look

vars == <<st, worker, pipeline, requested, delivered, excused, msg, commands, preempts, disturbed>>

JobIds  == 1..MaxJobs
Nobody  == "nobody"

\* A job is the part of a request still to be made: its id, its size, and how
\* many of its images are taken to be done (item_offset).
Job == [id: JobIds, left: 1..Batch]

\* pause_event and the complement of resume_event are always equal to paused
\* and are not kept apart from it.  accepting_jobs decides nothing, and
\* current_job_active, pipeline_waiting and main_model_restored only whether
\* ComfyUI is interrupted and which notice is sent.
FreshState(jobs) ==
    [active |-> TRUE, jobs |-> jobs, paused |-> FALSE, priority |-> FALSE,
     cancel |-> FALSE, ready |-> TRUE]

NoState == [FreshState(<<>>) EXCEPT !.active = FALSE]

NoWorker == [at |-> "none", job |-> 0, left |-> 0, done |-> 0, told |-> 0,
             result |-> "none", claimed |-> FALSE]

Init ==
    /\ st = [c \in Chats |-> NoState]
    /\ worker = [c \in Chats |-> NoWorker]
    /\ pipeline = Nobody
    /\ requested = 0
    /\ delivered = [j \in JobIds |-> 0]
    /\ excused = {}
    /\ msg = [m \in Messages |-> "unsent"]
    /\ commands = 0 /\ preempts = 0 /\ disturbed = FALSE

\* The chats are alike: the text messages go to one of them.
Home == CHOOSE c \in Chats : TRUE

IdsIn(s) == {s[i].id : i \in DOMAIN s}
Stopping(c) == st[c].paused \/ st[c].cancel
StillSame == UNCHANGED <<requested, msg, commands, preempts, disturbed>>
At(c, where) == worker' = [worker EXCEPT ![c].at = where]
Started(c) == IF worker[c].at = "none" THEN [NoWorker EXCEPT !.at = "wait"] ELSE worker[c]

-----------------------------------------------------------------------------
(* Commands *)

\* main.py builds the application without concurrent updates: the next update
\* is handled once the handler of this one has returned.  A message is
\* "received" for as long as handle_message is in defer_active_chat_message.
\* Images are also requested by a running turn, which is no update.
UpdatesFree == \A m \in Messages : msg[m] # "received"

Enlarged(s, job) == IF s.active THEN [s EXCEPT !.jobs = Append(@, job)] ELSE FreshState(<<job>>)

\* queue_image_generation
Queue(c) ==
    /\ requested < MaxJobs
    /\ ~st[c].active \/ ~st[c].cancel
    /\ requested' = requested + 1
    /\ LET job == [id |-> requested + 1, left |-> Batch]
       IN  st' = [st EXCEPT ![c] = Enlarged(@, job)]
    /\ worker' = [worker EXCEPT ![c] = Started(c)]
    /\ UNCHANGED <<pipeline, delivered, excused, msg, commands, preempts, disturbed>>

Paused(s, byRouter) ==
    IF ~s.active \/ s.cancel \/ s.paused THEN s
    ELSE [s EXCEPT !.paused = TRUE, !.priority = byRouter]

Resumed(s) ==
    IF ~s.active \/ s.cancel \/ ~s.paused THEN s
    ELSE [s EXCEPT !.paused = FALSE, !.priority = FALSE, !.ready = FALSE]

\* pause_image_queue; without a queue it makes an empty one.
Pause(c) ==
    /\ "pause" \in Commands /\ commands < MaxCommands /\ UpdatesFree
    /\ commands' = commands + 1 /\ disturbed' = TRUE
    /\ st' = [st EXCEPT ![c] = Paused(IF @.active THEN @ ELSE FreshState(<<>>), FALSE)]
    /\ worker' = [worker EXCEPT ![c] = Started(c)]
    /\ UNCHANGED <<pipeline, requested, delivered, excused, msg, preempts>>

Resume(c) ==
    /\ "resume" \in Commands /\ commands < MaxCommands /\ UpdatesFree
    /\ st[c].active
    /\ commands' = commands + 1 /\ disturbed' = TRUE
    /\ st' = [st EXCEPT ![c] = Resumed(@)]
    /\ UNCHANGED <<worker, pipeline, requested, delivered, excused, msg, preempts>>

\* Seeded fault: a cancel leaves the queue paused.
Cancelled_Paused(s) == [s EXCEPT !.cancel = TRUE, !.jobs = <<>>]
Cancelled(s) ==
    [s EXCEPT !.cancel = TRUE, !.paused = FALSE, !.jobs = <<>>]

\* cancel_image_queue
Cancel(c) ==
    /\ "cancel" \in Commands /\ commands < MaxCommands /\ UpdatesFree
    /\ st[c].active /\ ~st[c].cancel
    /\ commands' = commands + 1
    /\ st' = [st EXCEPT ![c] = Cancelled(@)]
    /\ excused' = excused \cup IdsIn(st[c].jobs)
                   \cup (IF worker[c].job = 0 THEN {} ELSE {worker[c].job})
    /\ worker' = [worker EXCEPT ![c] = Started(c)]
    /\ UNCHANGED <<pipeline, requested, delivered, msg, preempts, disturbed>>

-----------------------------------------------------------------------------
(* The worker task *)

\* finish_image_generation: whatever is still queued goes with the state.
Finish(c) ==
    /\ st' = [st EXCEPT ![c] = NoState]
    /\ worker' = [worker EXCEPT ![c] = NoWorker]

\* wait_for_image_resume, then set_image_pipeline_waiting.
WorkerResumes(c) ==
    /\ worker[c].at = "wait" /\ ~st[c].paused
    /\ IF st[c].cancel THEN Finish(c) ELSE At(c, "lock") /\ UNCHANGED st
    /\ UNCHANGED <<pipeline, delivered, excused>> /\ StillSame

WorkerClaims(c) ==
    /\ worker[c].at = "lock" /\ pipeline = Nobody
    /\ pipeline' = c
    /\ worker' = [worker EXCEPT ![c].at = "pick", ![c].claimed = FALSE]
    /\ UNCHANGED <<st, delivered, excused>> /\ StillSame

\* next_image_job, and what _run_image_queue does with the job.
Takes(c) ==
    LET job == Head(st[c].jobs)
    IN  /\ st' = [st EXCEPT ![c].jobs = Tail(@), ![c].ready = FALSE]
        /\ worker' = [worker EXCEPT ![c] =
             [NoWorker EXCEPT !.at = "run", !.job = job.id, !.left = job.left, !.claimed = TRUE]]

\* Leaving the inner loop: with ComfyUI claimed there is a release to await.
Unwinds(c) ==
    IF worker[c].claimed THEN At(c, "release") /\ UNCHANGED <<st, pipeline>>
    ELSE /\ pipeline' = Nobody
         /\ IF st[c].paused THEN At(c, "notice") /\ UNCHANGED st ELSE Finish(c)

WorkerPicks(c) ==
    /\ worker[c].at = "pick"
    /\ IF Stopping(c) THEN Unwinds(c)
       ELSE /\ UNCHANGED pipeline
            /\ IF st[c].jobs # <<>> THEN Takes(c) ELSE At(c, "closing") /\ UNCHANGED st
    /\ UNCHANGED <<delivered, excused>> /\ StillSame

\* One image downloaded and sent.  A pause or a cancel is seen before the next.
ImageDelivered(c) ==
    /\ worker[c].at = "run" /\ worker[c].done < worker[c].left
    /\ delivered' = [delivered EXCEPT ![worker[c].job] = @ + 1]
    /\ worker' = [worker EXCEPT ![c].done = @ + 1,
                    ![c].at = IF worker[c].done + 1 = worker[c].left THEN "after" ELSE "run"]
    /\ UNCHANGED <<st, pipeline, excused>> /\ StillSame

\* result: the exception generate_comfyui_images raises; told: the number of
\* completed images it carries.
Stops(c, result, told) ==
    /\ worker[c].at = "run"
    /\ worker' = [worker EXCEPT ![c].at = "stopping", ![c].result = result, ![c].told = told]
    /\ UNCHANGED <<st, pipeline, delivered>>

RunPaused(c) ==
    /\ st[c].paused /\ Stops(c, "paused", worker[c].done)
    /\ UNCHANGED excused /\ StillSame
RunCancelled(c) ==
    /\ st[c].cancel /\ Stops(c, "error", 0)
    /\ UNCHANGED excused /\ StillSame
RunFails(c) ==
    /\ "image" \in Failures /\ Stops(c, "error", 0)
    /\ excused' = excused \cup {worker[c].job}
    /\ StillSame
\* 409 image_preempted: history and view say how many images are done, the
\* answer to POST /prompt goes through _json_response, which says none.
RunPreempted(c, how) ==
    /\ preempts < MaxPreempts
    /\ preempts' = preempts + 1
    /\ Stops(c, "preempted", IF how = "submit" THEN 0 ELSE worker[c].done)
    /\ UNCHANGED <<excused, requested, msg, commands, disturbed>>

\* Seeded fault: a preemption ends the batch.
StopHandled_Final(c) ==
    /\ worker[c].at = "stopping"
    /\ worker' = [worker EXCEPT ![c].at = "after", ![c].result = "error"]
    /\ UNCHANGED <<st, pipeline, delivered, excused>> /\ StillSame
\* The except clause of _generate_and_deliver_image.
StopHandled(c) ==
    /\ worker[c].at = "stopping"
    /\ IF worker[c].result = "preempted" /\ ~Stopping(c)
       THEN /\ st' = [st EXCEPT ![c] = Paused(@, TRUE)]
            /\ At(c, "marked")
       ELSE At(c, "after") /\ UNCHANGED st
    /\ UNCHANGED <<pipeline, delivered, excused>> /\ StillSame

MarkNoticed(c) ==
    /\ worker[c].at = "marked"
    /\ At(c, "after")
    /\ UNCHANGED <<st, pipeline, delivered, excused>> /\ StillSame

\* Seeded fault: the rest of the batch goes to the end of the queue.
Requeue_Last(jobs, job) == Append(jobs, job)
Requeue(jobs, job) == <<job>> \o jobs

\* Seeded fault: the images of earlier segments are counted again.
Remaining_Whole(w) == Batch - w.told
\* How many images the stopped segment still owes.
Remaining(w) == w.left - w.told

\* The evaluation of job_error, after set_current_image_job_active.
JobEvaluated(c) ==
    LET w == worker[c]
        back == [id |-> w.job, left |-> Remaining(w)]
        forget(at) == [worker EXCEPT ![c].at = at, ![c].job = 0, ![c].result = "none"]
    IN  /\ w.at = "after"
        /\ IF w.result \in {"paused", "preempted"} /\ st[c].paused
           THEN /\ st' = IF Remaining(w) = 0 THEN st
                         ELSE [st EXCEPT ![c].jobs = Requeue(@, back)]
                /\ worker' = forget("release")
           ELSE /\ worker' = forget("pick")
                /\ UNCHANGED st
        /\ UNCHANGED <<pipeline, delivered, excused>> /\ StillSame

\* release_comfyui_runtime
Released == IF "release" \in Failures THEN BOOLEAN ELSE {TRUE}

\* After a pause or a cancel; the pipeline lock is left.
WorkerReleases(c) ==
    /\ worker[c].at = "release"
    /\ pipeline' = Nobody
    /\ \E back \in Released :
         IF st[c].cancel THEN Finish(c)
         ELSE /\ st' = [st EXCEPT ![c].ready = @ \/ back]
              /\ At(c, "notice")
    /\ UNCHANGED <<delivered, excused>> /\ StillSame

\* With an empty queue: look once more, then end.
WorkerCloses(c) ==
    /\ worker[c].at = "closing"
    /\ IF ~Stopping(c) /\ st[c].jobs # <<>>
       THEN Takes(c) /\ UNCHANGED pipeline
       ELSE Finish(c) /\ pipeline' = Nobody
    /\ UNCHANGED <<delivered, excused>> /\ StillSame

\* Seeded fault: a priority pause waits for the user too.
WorkerGoesRound_User(c) ==
    /\ worker[c].at = "notice" /\ At(c, "wait")
    /\ UNCHANGED <<st, pipeline, delivered, excused>> /\ StillSame
\* The tail of the outer loop; a priority pause is ended here once the router
\* reports no interactive job.
WorkerGoesRound(c) ==
    /\ worker[c].at = "notice"
    /\ st' = [st EXCEPT ![c] = IF @.priority THEN Resumed(@) ELSE @]
    /\ At(c, "wait")
    /\ UNCHANGED <<pipeline, delivered, excused>> /\ StillSame

-----------------------------------------------------------------------------
(* Text messages *)

Moves(m, where) ==
    /\ msg' = [msg EXCEPT ![m] = where]
    /\ UNCHANGED <<st, worker, pipeline, requested, delivered, excused, commands, preempts, disturbed>>

Send(m) == msg[m] = "unsent" /\ UpdatesFree /\ Moves(m, "received")

\* defer_active_chat_message: True ends handle_message, and nothing else was done.
Deferred(m) ==
    LET s == st[Home]
    IN  /\ msg[m] = "received"
        /\ \/ s.active /\ ~s.paused /\ Moves(m, "unanswered")
           \/ (~s.active \/ (s.paused /\ s.ready)) /\ Moves(m, "turn")

\* wait_for_active_image_generation in the model turn: done_event of this state.
Answered(m) ==
    /\ msg[m] = "turn" /\ ~st[Home].active
    /\ Moves(m, "answered")

WorkerStep(c) ==
    \/ WorkerResumes(c) \/ WorkerClaims(c) \/ WorkerPicks(c)
    \/ StopHandled(c) \/ MarkNoticed(c) \/ JobEvaluated(c)
    \/ WorkerReleases(c) \/ WorkerCloses(c) \/ WorkerGoesRound(c)

\* What the generation itself brings: its end is not the worker's doing.
RunStep(c) ==
    \/ ImageDelivered(c) \/ RunPaused(c) \/ RunCancelled(c) \/ RunFails(c)
    \/ \E how \in Preemptions : RunPreempted(c, how)

Next ==
    \/ \E c \in Chats : Queue(c) \/ Pause(c) \/ Resume(c) \/ Cancel(c)
                        \/ WorkerStep(c) \/ RunStep(c)
    \/ \E m \in Messages :
          Send(m) \/ Deferred(m) \/ Answered(m)

Spec == Init /\ [][Next]_vars

\* The event loop runs every ready task, a generation delivers or stops, and
\* the pipeline lock is handed over in turn.  Users owe nothing.
Fairness ==
    /\ \A c \in Chats :
        /\ WF_vars((WorkerStep(c) \/ RunStep(c)) /\ worker[c].at # "lock")
        /\ SF_vars(WorkerClaims(c))
    /\ \A m \in Messages : WF_vars(Deferred(m) \/ Answered(m))

LiveSpec == Spec /\ Fairness

-----------------------------------------------------------------------------
(* Properties *)

\* A request's images are delivered once: what a pause or a preemption puts
\* back is exactly what the chat has not been sent.
NoDuplicate == \A j \in JobIds : delivered[j] <= Batch

\* The requests of a chat are served in order, also when the rest of a batch
\* was put back while later requests were queued behind it.
InOrder ==
    \A c \in Chats : st[c].active =>
        LET ids == [i \in DOMAIN st[c].jobs |-> st[c].jobs[i].id]
        IN  /\ \A i, k \in DOMAIN ids : i < k => ids[i] < ids[k]
            /\ worker[c].job # 0 => \A i \in DOMAIN ids : worker[c].job < ids[i]

\* What happens to the images of request j: delivered, waiting or being made.
Owner(j) == {c \in Chats : st[c].active /\ (j \in IdsIn(st[c].jobs) \/ worker[c].job = j)}

\* A request that neither failed nor was cancelled is not forgotten: it is
\* delivered in full or a queue still has it.  "Pause stops the active image
\* and continues the batch with unfinished images after resume."
NoImageLost ==
    \A j \in 1..requested : j \in excused \/ delivered[j] >= Batch \/ Owner(j) # {}

\* Every image once: none is made twice, whatever is put back, and none is forgotten
\* until a user pauses or resumes a queue.
NoneForgotten == NoDuplicate /\ (disturbed \/ NoImageLost)

\* The images of a chat, in their order, once and all of them.
ImagesSound == InOrder /\ NoneForgotten

Pending == [c \in Chats |-> IdsIn(st[c].jobs) \cup ({worker[c].job} \ {0})]

\* No pause, preemption, requeue or end of a worker shows in what a chat gets: image by
\* image its requests are served from the first, and each leaves for a reason: see ImageOrders.
Orders == INSTANCE ImageOrders WITH pending <- Pending
ServesOrders == Orders!Spec

\* A queue comes to its end, and with it the hold it has on the chat, unless
\* a user pauses it; what the router paused goes on by itself, and a cancel
\* ends a paused queue too.
QueueEnds == \A c \in Chats :
    st[c].active ~> ~st[c].active \/ (st[c].paused /\ ~st[c].priority /\ ~st[c].cancel)

\* A message let through while the batch was paused for interactive work is
\* answered in the end, unless a user pauses the queue.
TurnAnswered ==
    \A m \in Messages : msg[m] = "turn"
        ~> msg[m] = "answered" \/ (st[Home].paused /\ ~st[Home].priority)

\* What is asked of a chat ends, be it images or an answer.
ImagesEnd == QueueEnds /\ TurnAnswered

\* "Emery is available again": a message never stops the handling of updates,
\* on which the resume that would let it through depends.
MessageHandled == \A m \in Messages : msg[m] = "received" ~> msg[m] # "received"
=============================================================================
