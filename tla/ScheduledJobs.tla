----------------------------- MODULE ScheduledJobs -----------------------------
(***************************************************************************)
(* Scheduled jobs (emery/scheduler.py): the file of jobs, the timers of    *)
(* the Telegram JobQueue made from it, the runs that are put off while a   *)
(* research or debate loop is in the foreground, and their drain.          *)
(*                                                                         *)
(* A job is known by its id.  A step is the code between two suspensions   *)
(* of the event loop; the file is read and written without one, and is     *)
(* taken to be readable and writable.  No group chat is configured, so a   *)
(* job of the legacy file has no chat until the first message.             *)
(***************************************************************************)
EXTENDS Naturals, Sequences

CONSTANTS
    Scheduled,     \* jobs
    KindOf,        \* "at": once at a date, "after": once after a duration, "every": recurring
    Legacy,        \* jobs of LEGACY_JOBS_FILE_PATH, a file that is never written
    Loops,         \* ids of research sessions and debates
    MaxFirings,    \* bound: timers that fire
    MaxRestarts    \* bound: restarts of Emery

ASSUME ScheduledAssumption ==
    /\ KindOf \in [Scheduled -> {"at", "after", "every"}] /\ Legacy \subseteq Scheduled
    /\ MaxFirings \in Nat /\ MaxRestarts \in Nat

VARIABLES
    store,      \* jobs in custom_jobs.json
    chatless,   \* jobs whose entry and timer have no chat_id
    timers,     \* jobs in the JobQueue
    deferred,   \* _PENDING_SCHEDULED_RUNS: copies of the data of timers that fired
    drain,      \* _PENDING_SCHEDULED_DRAIN_TASK and the job it runs
    running,    \* runs started by a timer and not over
    foreground, \* active_foreground_loops
    late,       \* jobs whose date has passed
    asked,      \* what a user was told of each job last, and what became of it
    spent       \* firings and restarts so far

scheduledVars == <<store, chatless, timers, deferred, drain, running, foreground, late, asked, spent>>

Once(j) == KindOf[j] # "every"
NoDrain == [at |-> "none", job |-> "none"]

\* load_jobs_from_file: an empty file is filled from the legacy file again.
Loaded == IF store = {} THEN Legacy ELSE store
LoadedChatless == IF store = {} THEN chatless \cup Legacy ELSE chatless

\* schedule_in_tg_queue: a date that has passed gets no timer.
Schedulable(js, past) == js \ past

ScheduledInit ==
    /\ store = Legacy /\ chatless = Legacy /\ timers = Legacy
    /\ deferred = <<>> /\ drain = NoDrain /\ running = [j \in Scheduled |-> 0]
    /\ foreground = {} /\ late = {}
    /\ asked = [j \in Scheduled |-> IF j \in Legacy THEN "kept" ELSE "none"]
    /\ spent = [firings |-> 0, restarts |-> 0]

-----------------------------------------------------------------------------
(* The tools and the first message of a chat *)

\* The new entry is saved, and taken back when its date has passed.
AddScheduledJob(j) ==
    /\ asked[j] = "none"
    /\ \/ /\ store' = Loaded \cup {j} /\ timers' = timers \cup {j}
          /\ asked' = [asked EXCEPT ![j] = "kept"]
       \/ KindOf[j] = "at" /\ store' = Loaded /\ UNCHANGED <<timers, asked>>
    /\ chatless' = LoadedChatless
    /\ UNCHANGED <<deferred, drain, running, foreground, late, spent>>

\* Runs that were deferred before are left as they are.
RemoveScheduledJob(j) ==
    /\ j \in Loaded
    /\ store' = Loaded \ {j} /\ timers' = timers \ {j}
    /\ chatless' = LoadedChatless \ {j}
    /\ asked' = [asked EXCEPT ![j] = "removed"]
    /\ UNCHANGED <<deferred, drain, running, foreground, late, spent>>

\* Reading the file alone may fill it.
ListScheduledJobs ==
    /\ store = {} /\ store' = Loaded /\ chatless' = LoadedChatless
    /\ UNCHANGED <<timers, deferred, drain, running, foreground, late, asked, spent>>

\* The list read first is saved last, with what scheduling took from the file.
UpdateJobsWithChatId ==
    LET homeless == Loaded \cap LoadedChatless IN
    /\ homeless # {}
    /\ store' = Loaded /\ chatless' = LoadedChatless \ homeless
    /\ timers' = (timers \ homeless) \cup Schedulable(homeless, late)
    /\ UNCHANGED <<deferred, drain, running, foreground, late, asked, spent>>

-----------------------------------------------------------------------------
(* Timers, runs and the drain of deferred runs *)

\* remove_job_from_store at the end of a one-time job, after a failure too.
Finished(j) ==
    IF Once(j)
    THEN /\ store' = Loaded \ {j} /\ chatless' = LoadedChatless \ {j}
         /\ asked' = [asked EXCEPT ![j] = IF @ = "kept" THEN "done" ELSE @]
    ELSE UNCHANGED <<store, chatless, asked>>

\* A job without a chat ends at once and stays in the file.
TimerFires(j) ==
    /\ j \in timers /\ spent.firings < MaxFirings
    /\ timers' = IF Once(j) THEN timers \ {j} ELSE timers
    /\ late' = IF KindOf[j] = "at" THEN late \cup {j} ELSE late
    /\ IF foreground # {}
       THEN /\ deferred' = Append(deferred, [job |-> j, chat |-> j \notin chatless])
            /\ UNCHANGED running
       ELSE /\ running' = IF j \in chatless THEN running ELSE [running EXCEPT ![j] = @ + 1]
            /\ UNCHANGED deferred
    /\ spent' = [spent EXCEPT !.firings = @ + 1]
    /\ UNCHANGED <<store, chatless, drain, foreground, asked>>

RunEnds(j) ==
    /\ running[j] > 0 /\ running' = [running EXCEPT ![j] = @ - 1]
    /\ Finished(j)
    /\ UNCHANGED <<timers, deferred, drain, foreground, late, spent>>

\* The first entry of the deque that has a chat; those before it end at once.
FirstRun(i) ==
    /\ i \in DOMAIN deferred /\ deferred[i].chat
    /\ \A k \in 1..(i - 1) : ~deferred[k].chat

\* Seeded fault: an entry is popped before the drain looks for a foreground loop.
DrainGoesOn_PopFirst ==
    \/ \E i \in DOMAIN deferred :
        /\ FirstRun(i)
        /\ drain' = IF foreground = {} THEN [at |-> "run", job |-> deferred[i].job] ELSE NoDrain
        /\ deferred' = SubSeq(deferred, i + 1, Len(deferred))
    \/ /\ \A i \in DOMAIN deferred : ~FirstRun(i)
       /\ drain' = NoDrain /\ deferred' = <<>>
\* The loop of the drain up to its next run: it pauses for a foreground loop.
DrainGoesOn ==
    \/ /\ foreground # {}
       /\ drain' = NoDrain /\ UNCHANGED deferred
    \/ \E i \in DOMAIN deferred :
        /\ foreground = {} /\ FirstRun(i)
        /\ drain' = [at |-> "run", job |-> deferred[i].job]
        /\ deferred' = SubSeq(deferred, i + 1, Len(deferred))
    \/ /\ foreground = {} /\ \A i \in DOMAIN deferred : ~deferred[i].chat
       /\ drain' = NoDrain /\ deferred' = <<>>

DrainStarts ==
    /\ drain.at = "created" /\ DrainGoesOn
    /\ UNCHANGED <<store, chatless, timers, running, foreground, late, asked, spent>>

DrainRunEnds ==
    /\ drain.at = "run" /\ Finished(drain.job) /\ DrainGoesOn
    /\ UNCHANGED <<timers, running, foreground, late, spent>>

LoopStarts(l) ==
    /\ foreground' = foreground \cup {l}
    /\ UNCHANGED <<store, chatless, timers, deferred, drain, running, late, asked, spent>>

\* Seeded fault: the drain is triggered before the loop is taken out.
Triggered_Early == foreground = {} /\ deferred # <<>> /\ drain = NoDrain
\* trigger_deferred_job_drain, by the loop that leaves none behind.
Triggered == foreground' = {} /\ deferred # <<>> /\ drain = NoDrain

LoopEnds(l) ==
    /\ l \in foreground /\ foreground' = foreground \ {l}
    /\ drain' = IF Triggered THEN [at |-> "created", job |-> "none"] ELSE drain
    /\ UNCHANGED <<store, chatless, timers, deferred, running, late, asked, spent>>

-----------------------------------------------------------------------------
\* Emery is down long enough for some dates to pass, and loads the file.
\* Runs in memory are lost; a date that passed is dropped from the file.
SchedulerRestarts ==
    /\ spent.restarts < MaxRestarts /\ spent' = [spent EXCEPT !.restarts = @ + 1]
    /\ \E missed \in SUBSET {j \in Loaded : KindOf[j] = "at"} : late' = late \cup missed
    /\ timers' = Schedulable(Loaded, late') /\ store' = Schedulable(Loaded, late')
    /\ chatless' = LoadedChatless \cap Loaded
    /\ deferred' = <<>> /\ drain' = NoDrain /\ running' = [j \in Scheduled |-> 0]
    /\ foreground' = {}
    /\ asked' = [j \in Scheduled |-> IF asked[j] = "kept" /\ j \in late' THEN "missed" ELSE asked[j]]

ScheduledNext ==
    \/ \E j \in Scheduled : AddScheduledJob(j) \/ RemoveScheduledJob(j) \/ TimerFires(j) \/ RunEnds(j)
    \/ ListScheduledJobs \/ UpdateJobsWithChatId
    \/ DrainStarts \/ DrainRunEnds
    \/ \E l \in Loops : LoopStarts(l) \/ LoopEnds(l)
    \/ SchedulerRestarts

ScheduledSpec == ScheduledInit /\ [][ScheduledNext]_scheduledVars

-----------------------------------------------------------------------------
(* Properties *)

Entry == [job : Scheduled, chat : BOOLEAN]
DrainState == [at : {"none", "created"}, job : {"none"}] \cup [at : {"run"}, job : Scheduled]

\* The shape of the file, of the timers and of the runs.
ScheduledTypeOK ==
    /\ store \subseteq Scheduled /\ chatless \subseteq Scheduled /\ timers \subseteq Scheduled
    /\ deferred \in Seq(Entry)
    /\ drain \in DrainState
    /\ running \in [Scheduled -> Nat] /\ foreground \subseteq Loops /\ late \subseteq Scheduled
    /\ asked \in [Scheduled -> {"none", "kept", "removed", "done", "missed"}]

\* A run that was put off for a research or a debate is never left waiting
\* when none is in the foreground: the drain is there or will be started
\* (unregister_foreground_loop against the pause of the drain).
NoRunStranded == deferred # <<>> /\ foreground = {} => drain # NoDrain

\* Its timer has fired and the run is deferred or under way.
InHand(j) ==
    \/ running[j] > 0 \/ drain = [at |-> "run", job |-> j]
    \/ \E i \in DOMAIN deferred : deferred[i].job = j

\* Every job that a user was told of as scheduled stays in the file and has
\* a timer or a run, through deferrals, drains, restarts and the upkeep of
\* the file; what was removed is in neither.  Not for jobs of the legacy file,
\* which comes back whenever the last job goes, nor for a date that passed
\* while Emery was down or its run in memory only.
PromisesKept ==
    \A j \in Scheduled \ Legacy :
        /\ asked[j] = "kept" => j \in store /\ (j \in timers \/ InHand(j))
        /\ asked[j] = "removed" => j \notin store /\ j \notin timers

\* No job is lost or left over, and no run that was put off is left waiting.
ScheduledSound == PromisesKept /\ NoRunStranded
=============================================================================
