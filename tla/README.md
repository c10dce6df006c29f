# EmeryChat in TLA+

TLA+ modules that describe the stateful parts of EmeryChat (a Telegram bot,
its model-request router and its GPU broker), TLC runs that check them on small
instances, and TLAPS proofs of the properties that matter most for instances of
any size. Every definition was written from the Python source; `PROJECT.json`
names, for each definition, the file and the lines it stands for.

## 1. The system

EmeryChat is four kinds of processes.

| Process | Source | What it keeps |
|---|---|---|
| **Emery**, the bot: one asyncio loop, updates handled one after the other (`main.py:61-68`), answers and tools in tasks of their own | `src/main.py`, `src/emery/` | per chat: the active turn, the image queue, approvals, terminal and browser bindings; global: model queue, scheduler, sessions of experts and debates. JSON files and one SQLite store survive a restart |
| **EmeryRouter**, the queue in front of the language model: one worker thread, a thread per HTTP request | `src/emeryrouter/` | the SQLite table `jobs`; in memory only the stream subscribers and the flag `_image_hold_maybe` |
| **GPU broker**: one HTTP server with a thread per request and an idle reaper | `src/scripts/qwen_b580_runtime.py` | the ComfyUI process, the model service, the active prompt, the priority hold; nothing persists |
| **Host runner** of terminals and jobs | `src/scripts/emery_host_command.py`, `src/emery/terminal_runtime.py` | PTY sessions and jobs, in memory |

How they interact:

- Emery posts every model call to the router. An interactive request makes the
  router ask the broker to pause image generation (`/priority/pause`) before the
  job may run, and to resume (`/priority/resume`) once no interactive job is left.
- Emery's image client submits, polls and downloads prompts through the broker;
  a pause reaches it as a 409 `image_preempted`, after which it waits for the
  router to be idle and goes on with the rest of the batch.
- Emery starts terminals and jobs through the host runner and records a binding
  for each in its SQLite store; after a restart it reconciles them.
- Inside Emery, components meet in a few shared objects: `active_turns`,
  `main_model_lock`, the image pipeline lock, the set of foreground loops that
  scheduled jobs wait for, and the grants file of command approvals.

### Components

| Component | State | Operations | What is hard | What makes it correct |
|---|---|---|---|---|
| Router (`storage.py`, `scheduler.py`, `service.py`) | jobs table, subscribers, hold flag | enqueue, hand-off, next_job, complete, retry_or_fail, cancel, fail_pending, stream, wait, restart | three threads on one table, `cancel` outside the admission lock, crash between any two statements, hand-offs whose answer is lost | a row has one owner at the backend, is never run after a refusal, never completed after an accepted cancel, ends; a stream ends in the response |
| GPU broker | `Runtime` | upload, prompt, history, view, release, pause, resume, cancel, reaper | the pause drops its lock to interrupt and wait; teardown fails halfway; ComfyUI dies | one owner of the GPU; a pause ends and is paid for at most twice; the GPU is returned |
| Hand-off (router + broker + image client) | the three of them | hand-off, batch, preemption, resume | late answers, an abandoned pause, an impatient client | the model serves interactive jobs; an image that must go is the right one; the batch ends and the hold ends |
| Image queue of a chat | queue, worker, user's pause, deferred message | queue, pause, resume, cancel, run, release | flags read before an await and used after it; two chats share one pipeline | no duplicate, order kept, none forgotten, the worker ends, a message is answered |
| Chat turn and live steering | active turn, steering queue, loop counters, model lock | message, request, tools, summary, delivery | messages arrive in every phase of a turn; registration and removal of turns | an accepted message goes once and in order into a request; the loop ends with an answer |
| Command approval | pending requests, session and lasting grants, the file | ask, answer, expire, clear, restart | two clocks for one timeout, grants that outlive requests, a failing file | nothing runs without its owner's approval; an accepted answer is honoured |
| Fast-model queue | heap, worker task | submit, cancel, run | a call submitted while the worker ends | one operation at a time; every call ends |
| Terminal sessions and jobs | bindings, runner tables | start, look, end, recover | lost answers, a restart of either side, recovery repeated | ended means gone; recovery misses nothing and takes nothing else |
| Scheduled jobs | file and legacy file, timers, deferred runs, drain | add, remove, fire, defer, drain, restart | the file is rewritten by everybody, deferral while the drain ends | a scheduled job is kept, a removed one is gone, a deferred run is taken up |
| Inter-agent bridge | pending routes, cached responses, requests in flight, rate limit | ask, wait, time out, answer, route a response, prune, restart | messages late, again or never; a response before the request's own await is over | a peer's request runs once; a turn that waits can be answered |
| Expert research | sessions, `ACTIVE_SESSIONS`, tasks, archive; per session the agenda, rounds, sources | commands, messages and buttons; the research task with its questions; evaluation, continuation | a handler suspends in the middle while tasks go on; budgets that the user, the evaluation and refinements move | a foreground loop and a running session have a task; limits hold and no core question is left out of the report |
| Debates | debates, clerks, sources, foreground loops | define, revise, accept, argue, judge, archive, deliver, cancel, clear | two sides research one set of sources at once; any message and model call fails | evidence is shared without duplicates; an archived debate is whole; a debate ends |
| Browser sessions | sessions, Chromium processes, the endpoints the browser tools accept | call, close, expire, reap, close all | a session closed while its call launches Chromium or waits for a tab | what tools can drive is live, no Chromium is forgotten, leases end |
| Status messages | per chat the live messages, their owners, the approval prompt | post, edit, delete, anchor, end, ask, decide | several tasks and the user change one block of messages, every call fails | the pending question is in sight, the block in order, nothing left behind |
| Skills | documents, cache, queue of staged changes | create, patch, delete, stage, approve, reject, load | three files written one after the other, a crash between any two | nothing approved is lost, no id twice, no change applied without approval |
| Memory store | the file of facts and topics, embeddings, consolidation | store, wipe, consolidate, recall | embeddings are asked for without the lock | stored is stored, wiped is gone, private is private |
| History, temporary chats, scratchpad | history of a chat, temporary threads and their backups, notes | say, answer, react, switch, clear, summarise | one history for all threads, switched while turns and summaries are under way | nothing said in a temporary thread is kept |
| Command execution | calls, process groups, slots of the runner | check, approve, run, time out, kill, audit | children that hold the output; a kill that reaches only the client | dangerous commands run approved, ended means ended, slots are counted |
| Tool calls and media of a turn | history and its copy, budgets, photos, image cache | call, refuse, bridge, append, compact, queue and send photos | turns share a history and work on copies; the cache evicts what is queued | budgets and grants hold, every call is answered in the copy, photos are accounted for |
| Streams of the main model | request, chunks, the steering monitor, the summariser | read, break, repeat, end the reasoning, summarise | two helper tasks outlive the stream they were made for | a control reaches the completion it was meant for; events in order |
| Camera alerts | last state and cooldown per camera, threads of photos | poll, alert, snapshot, send, record | one task per alert, two waits for the vision model in each | one alert per visit, threads are flat, the record is what was sent |
| Heartbeat | clock, last message, counts per day | check, build, ask, deliver | conditions read before the model is asked | limit per day and cooldown between messages |
| Not modelled | session context, the other tools, model calls, start-up, scripts | | see section 7 | |

Section 6 lists where the code falls short of these properties, and
`PROJECT.json` ("hazards") lists every place where something hard to test can
go wrong, with the property that would notice.

## 2. Modules

| Module | Describes |
|---|---|
| `Router` | the jobs table and every transaction on it (`JobStore`), the worker thread (`Scheduler`), the HTTP handlers and a restart |
| `JobPromise` | what a caller of the router is promised: a job is pending, may be retried, and ends once; refused and cancelled jobs never complete. `Router` implements it |
| `GpuBroker` | the broker |
| `ImageHandoff` | `GpuBroker` with the router's calls and one image batch or edit: the composition of the three programs |
| `SharedGpu` | what the hand-off promises: the model and ComfyUI never claim the GPU together, and it does not change hands while a job is let in. `ImageHandoff` implements it |
| `ImageQueue` | the image queues of the chats, their workers and the pipeline lock |
| `ImageOrders` | what a chat that asks for images is promised: image by image, from the request it made first, and none leaves the line without a reason. `ImageQueue` implements it |
| `TurnSteering` | the turns of one chat, steering, the reasoning loop and the main-model lock |
| `CommandApproval` | approvals and grants |
| `ModelQueue` | `PriorityModelScheduler` |
| `TerminalSessions` | sessions and jobs, bindings, recovery |
| `ScheduledJobs` | the scheduler |
| `AgentBridge` | requests between Emery and the peer bot |
| `ExpertSessions` | the life of `/expert` sessions: handlers, tasks, archive |
| `ExpertAgenda` | what one research does: questions, rounds, sources, the decision to report |
| `Debates` | debates from `/debate` to their delivery |
| `BrowserSessions` | sessions of isolated Chromiums, their calls and the reaper |
| `StatusStack` | the live messages of one chat |
| `SkillStore` | skills, their two stores on disk and the staged changes |
| `MemoryStore`, `ChatHistory` | durable memory; the history, temporary threads, topics and notes above it |
| `CommandRun` | `run_command` over the local, docker, ssh and host backends |
| `ToolTurn`, `ModelStream` | the tool calls and images of turns; the streamed requests of one turn. With `TurnSteering` they are the three views of the engine's loop |
| `CameraAlerts`, `Heartbeat` | what Emery says unasked |
| `MCRouter`, `MCGpuBroker`, `MCImageQueue`, `MCTurnSteering`, `MCTerminal` | instances of one component: policies, callers, chats, symmetry |
| `MCTurns`, `MCResearch`, `MCServices`, `MCSafety` | components that share no state, side by side: a variable picks one in the first state and the others stand still, so that the run explores the sum of their states and not the product. `MCTurns` has turns and browser sessions, `MCResearch` expert sessions and debates, `MCServices` approvals, the fast-model queue and the hand-off, `MCSafety` fifteen components |
| `RouterProofs` | theorems about `Router` |
| `BrokerProofs` | theorems about `GpuBroker`, `ImageHandoff` and `ModelQueue` |
| `ChatProofs` | theorems about `ImageQueue`, `CameraAlerts`, `Heartbeat` and `StatusStack` |
| `EngineProofs` | theorems about the engine's loop: `TurnSteering`, `ModelStream`, `ToolTurn` |
| `CommandProofs` | theorems about `CommandApproval`, `CommandRun`, `TerminalSessions` and `BrowserSessions` |
| `ScheduledProofs` | theorems about `SkillStore`, `ScheduledJobs`, `MemoryStore`, `ChatHistory` and `AgentBridge` |
| `ResearchProofs` | theorems about the research modes: `ExpertSessions`, `ExpertAgenda` and `Debates` |
| `DataLemmas` | induction over numbers, for the proofs about sequences and loops |

### How state and actions correspond to the code

*Router.* `jobs[i]` is row `i` of the table, `absent` before its INSERT; a
row's index is its `sequence`, so FIFO order is the order of the indices. An
action is one SQLite transaction or one step of a thread between two of them:
`next_job` (expire, select, update under one lock) is one step; the worker's
`_run` is several, because `cancel`, which takes no admission lock, and a
restart may come in between. `lock` is the admission lock of
`service.py`. `sched.pc` is the position of the worker, `post[c]` that of
handler `c`. A restart loses everything but the table and executes
`JobStore.__init__`.

*Broker.* Each endpoint holds the runtime lock for its whole body and is one
step on the record `rt`. What systemd, ComfyUI and the health check may answer
inside makes it a *set* of outcomes, so an operation `Op(r)` is the set of
results it may have; an exception is a result with `ok = FALSE`, and what the
code has already changed when it is raised stays changed. The three handlers
that leave the lock are several steps, with `pc[t]` the place of thread `t`.

*Image queue and turns.* A task's await points are the borders of its steps:
what runs between two awaits on the event loop is atomic. A handler of an
update is several steps only if it awaits, and no other update is handled
meanwhile.

*Services.* Approvals, terminal tools, scheduled jobs and the bridge follow the same rule.
The bridge's handler (`handling`) takes one message at a time; the tool of a turn
asks beside it.
Files are variables that a restart keeps; a failing write is a choice, with
what the code does about it.

*Expert research and debates.* One update is in the hands of a handler at a time
(`update`, `defining`) and may suspend; tasks go on meanwhile (`research`, the
clerks of `debates`). Resuming an archive makes another object with the same id,
so sessions are objects and ids are looked up as the code looks them up.

*Status block, commands, browsers.* A method of `PersistentStatusStack` holds the
lock of its chat, so it is one step, and each call to Telegram in it may fail: a
method is a set of outcomes, like an endpoint of the broker. A command is a
process group with at most one child; a Chromium is the number of its launch.

*Skills.* An operation is the sequence of disks that its writes leave behind;
finishing it leaves the last, a crash any of them.

*Memory, history, engine.* A turn's copy of the history and the history the
turns of a chat share are two variables, as in the code. Two background tasks of a
stream remember the request they were made for. Steering, tools and streams of a turn
are three modules because they meet only in the order of the loop's steps, which
each of them has.

*Cameras and heartbeat.* Cooldowns and windows of the cameras end at any time;
the heartbeat, whose property is about times, counts hours.

What is abstracted everywhere: texts, prompts and model output (a chunk, a
message or an image is a number), header checks, logging, and
times: a timeout may fire whenever the thing waited for has not happened yet.
The status messages are a component of their own and are left out of the others.

## 3. Runs

| Run | Instance | Shows |
|---|---|---|
| `router_table` | 2 handlers, 2 rows, 2 attempts, 1 restart, an idempotency key, hand-offs refused or with their answer lost; symmetry over handlers | table, worker and handlers agree in every interleaving; the table implements `JobPromise` |
| `router_live` | 1 handler, 2 rows, the three modes (async, sync, stream), 1 restart, refused calls | every job ends (a cancelled one until a restart); the hold is given back |
| `router_late_cancel` | 2 handlers, 2 rows, 1 restart | **violation**: a job cancelled while running and interrupted by a restart never ends |
| `broker` | 2 pausing threads, 1 viewer, 2 prompts, 2 pauses, 1 upload, every fault | one GPU owner, debts of pauses, pauses end, the reaper returns the GPU |
| `image_queue` | 2 chats, 2 jobs of 2 images, 2 user commands, 1 preemption, failures of image and release | no duplicate, in order, none forgotten; the queues implement `ImageOrders`; queues end, messages are answered |
| `image_deadlock` | 2 chats, 2 jobs, pause and resume | **violation**: pause, resume, pause leaves the update loop waiting for itself |
| `turn` | 3 messages, `TOOL_LOOP` 1, 1 pending message at most, experts holding the model; 2 browser sessions, one of which can launch a Chromium | steering is applied once and in order; the loop neither runs out nor hangs; a browser session whose lease is over is closed |
| `turn_second` | 3 messages, suspended deliveries | **violation**: two turns of one chat at the model |
| `services` | approvals: 2 requests, 2 users, 2 chats, 1 key, 1 restart, failing file; fast model: 3 calls; hand-off: 2 pauses, a batch of 2 or an edit, late answers, deadlines, faults | approvals are honoured and their owners'; one model call at a time; the composition of router, broker and image client: the model keeps the GPU for interactive jobs, and the composition implements `SharedGpu`; whoever waits in one of the three is answered |
| `research` | 2 chats, 2 sessions, 2 research tasks of 1 round, questions in between; 1 debate of 2 rounds with 1 page, 1 revision, 1 failing message | foreground loops and running sessions have a task, researches and debates end, evidence and archive are whole |
| `safety` | fifteen components, bounds below | one property or two for each of them |
| `terminal_recovery` | as above, runner up | **violation**: a repeated recovery ends a session of the running process |

The instances of `safety`:

| Component | Instance | Properties |
|---|---|---|
| router | 1 row streamed and awaited, 2 chunks, retry, restart | `StreamCarriesResult` |
| terminals | 3 calls in 2 chats, runner limit 1, either side restarts, one answer lost | `TerminalSound`: ended is gone, recovery is complete |
| scheduler | 3 jobs of the three kinds, 3 firings, 2 loops, 1 restart | `ScheduledSound`: promised jobs are kept (`PromisesKept`), no deferred run is stranded (`NoRunStranded`) |
| bridge | 2 requests each way, the peer sends 2 messages, rate limit 1, 1 restart | `BridgeSound`: a repeated request runs once (`RunsOnce`), whoever waits has a route (`WaitersRouted`) |
| agenda | 3 texts of questions (2 core), 2 on the agenda, 3 sources, 2 rounds, 1 continuation | `AgendaKept`: limits hold, core questions come before the report |
| browsers | 2 sessions, 2 launches | `BrowserSound`: what is drivable is live, no Chromium is lost |
| status | 2 turns, 4 posts, 1 refresh, 1 failing call | `StatusSound`: the question is in sight, order, nothing left behind |
| skills | 2 names, 2 texts, 2 owners, one a group, 2 changes, 3 writes, 1 crash | `SkillsSound`: what was written is kept, ids are unique, decisions are applied once |
| memory | 2 users, 2 texts, 2 ids, 1 wipe, 1 restart | `MemorySound`: stored and not wiped is there, embeddings fit, private stays private |
| history | 2 threads, 2 messages, 2 switches, 1 note | `TemporaryLeavesNothing` |
| commands | 3 commands, one dangerous, 3 backends, 1 slot | `CommandSound` |
| tools | 1 turn, 2 passes, batches that meet every budget, context of 3, cache of 2 images, 2 messages | `ToolsSound`: budgets, answered calls, settled photos, the copy |
| streams | 2 requests of 2 chunks, 1 steering message, 1 summary | `StreamsSound`: controls aimed, events in order, nothing left |
| cameras | 1 camera, 2 visits, 1 picture the model asks for | `CamerasSound`: one alert per visit, flat threads, true record |
| heartbeat | 11 hours in days of 4, 1 of sleep, 1 message per day, cooldown 3, 1 temporary mode | `HeartbeatSound` |

**Why these bounds.** The races in this code are between two parties about one
thing: two rows show every precedence, FIFO and key conflict, two attempts the
retry and the exhausted retry, one restart each of the places a crash can hit
(a second one meets the same tables with fewer free parameters). Two pauses are
needed for an abandoned pause to meet a later one, two images for a batch to
have a rest, two chats for the shared pipeline, three messages for a
start, a steering message and one that comes too late. Two session objects are a
session and its resumption or the one that replaces it; one page is enough for two
debaters to find the same one; two turns and one failure show a late turn, a
user's message and a lost edit meeting in the status block; three skill writes are two
and the one that merges them; two visits are an alert and the next one before
it is delivered; eleven hours reach the third day, so that a limit is spent,
renewed and spent again. Where a safety property
is proved, the bounds restrict nothing. The constants that only bound the search
(`MaxJobs`, `MaxCrashes`, `MaxPrompts`, `MaxPauses`, `MaxUploads`,
`MaxCommands`, `MaxPreempts`, `MaxLives`, `MaxRunnerStops`, `MaxSilences`,
`MaxFirings`, `MaxRestarts`, `MaxRequests`, `MaxPeerSends`, `MaxBridgeStops`,
`MaxSessions`, `MaxResearches`, `SessionRounds`, `MaxDrafts`, `MaxContinues`, `MaxDebates`, `MaxRevisions`,
`MaxFailures`, `MaxLaunches`, `MaxTurns`, `MaxRefreshes`, `MaxPosts`,
`MaxFaults`, `MaxSkillWrites`, `MaxSkillCrashes`, `MaxMemories`, `MaxWipes`,
`MaxSaid`, `MaxSwitches`, `MaxStreams`, `MaxPieces`, `MaxSteers`,
`MaxSummaries`, `MaxVisits`, `MaxAsked`, `MaxHours`, `MaxModes`) are marked in the modules as such;
`MaxAttempts`, `ToolLoop`, `MaxPending`, `RunnerLimit`, `PeerLimit`,
`MaxConcurrent`, `MaxBrowsers`, the budgets of `ToolTurn` and `ExpertAgenda`
and the times of `Heartbeat` are the program's own
limits with small values. Handlers, chats and callers that finished may stop,
which is why the runs do not look for deadlocks; that nobody waits for ever is
what the liveness properties say. Symmetry is used in the runs without
liveness properties, and over the router's handlers only, which the code does
not tell apart.

**Fairness.** Weak fairness (WF) on the steps of threads and tasks that the
interpreter schedules: the router's worker, handler threads of the broker,
the workers of the image queues, coroutines whose await has been answered, an `Event.wait` or HTTP call with a
timeout, the reaper's periodic round. The same holds for the tasks of experts and debates,
for the handler whose await is answered, and for the calls, closings and the
reaper of browser sessions: each of their waits is an HTTP call or a process
with a timeout. A session that asks its user or is finished waits for the user, and
`ResearchEnds` counts it as no longer running. Strong fairness in three places: an
`asyncio.Lock` serves its waiters in order, so a worker that waits for the image
pipeline (`WorkerClaims`) and a turn that waits for `main_model_lock`
(`Request`) get it although it is taken and released in between; and a broker
that is asked to resume again and again answers some time (`ResumeAnswered`):
a call that fails every single time leaves the hold, and no code could help it. No fairness for what somebody outside
decides: users, clients, faults, restarts, the model's wish to call another
tool. Backends end because each HTTP call has a timeout. Liveness of the image
queue is stated for users who resume what they pause or for queues nobody
pauses (see the definitions), because the code promises nothing else.

Each property of a passing run is also shown to be able to fail: next to the
definition it depends on, a variant marked "Seeded fault" changes it in the way
a plausible bug would, and the run then reports that property violated.

## 4. Proofs

TLC checks the instances of section 3; the theorems hold for instances of any
size. Each is proved from an inductive invariant, in three facts: it holds at
the start, every step keeps it (one lemma for each action that changes it), and it
implies the property.

| Module | Theorem | States | Holds for |
|---|---|---|---|
| `RouterProofs` | `TypeCorrect`, `OneRunning`, `RefusedIsFinal`, `RetryLimit`, `IdempotentAdmission`, `CancelIsFinal`, `HoldCovers`, `StreamsCarryResults` | `TypeOK`, `WorkerOwnsRunning`, `RefusedNeverRuns`, `AttemptsBounded`, `KeysUnique`, `CancelHonoured`, `HoldCoversInteractive`, `StreamCarriesResult` | any handlers, rows, chunks, attempts, restarts, keys, policies and faults |
| | `Implements` | `Router` implements `JobPromise` | the same |
| `BrokerProofs` | `BrokerTypes`, `GpuHasOneOwner`, `PausesArePaid` | `BrokerTypeOK`, `OneOwner`, `ConflictsPaid` | any threads, prompts, pauses, uploads, and every subset of faults |
| | `HandoffHolds` | `HoldStands`: a hand-off that was granted has its hold, and ComfyUI does not run beside it unless the client uploads | the same, with any batch and every haste of the client |
| | `ModelHasGpu` | `ModelServesJobs` | the same, without the faults "start" and "restore" |
| | `HandoffShares` | `SharesGpu`: `ImageHandoff` implements `SharedGpu` | as `HandoffHolds` |
| | `QueueSerialized` | `Serialized` | any calls |
| `ChatProofs` | `RequestsServed` | requests in their order, none forgotten until a user pauses or resumes | any chats, requests, images and preemptions |
| | `ImagesHeld` | `ImagesSound` | the same, without preemptions at "submit" |
| | `OrdersServed` | `ServesOrders`: `ImageQueue` implements `ImageOrders` | as `ImagesHeld` |
| | `CamerasHeld`, `HeartbeatHeld` | `CamerasSound`, `HeartbeatSound` | any cameras, visits and snapshots; any days, hours of sleep, limits and cooldowns |
| | `StatusHeld` | `StatusSound` | any turns, user messages, refreshes and messages sent, and any failing calls of Telegram |
| `EngineProofs` | `SteeringHeld`, `TurnTyped`, `OneRequest` | `SteeringSound`, `TurnTypeOK`, one request at the main model | any messages, passes and limits on steering |
| | `StreamsHeld` | `StreamsSound` | any streams and pieces |
| | `ToolsHeld` | `ToolsSound` | any turns, batches of calls, sizes of results and limits |
| `CommandProofs` | `AnswersHonoured`, `OwnersApprove` | `AnswerHonoured`; the action property `ApprovedByOwner` | any askers, requests, restarts |
| | `CommandsSound` | `CommandSound` | any commands and slots |
| | `TerminalsHeld` | `TerminalSound` | any calls, chats, restarts of either side and lost answers |
| | `BrowsersHeld` | `BrowserSound` | any sessions and launches |
| `ScheduledProofs` | `SkillsHeld` | `SkillsSound` | any finite set of skills, any owners, texts, staged changes, edits by hand and crashes |
| | `ScheduledTypes`, `JobsHeld` | `ScheduledTypeOK`, `ScheduledSound` | any jobs, legacy files, loops, firings and restarts |
| | `BridgeHeld` | `BridgeSound` | any requests, rate limit, messages of the peer and restarts |
| | `MemoriesHeld` | `MemorySound` | any users, texts, wipes and restarts |
| | `TemporaryHeld` | `TemporaryLeavesNothing` | any threads, messages, switches, notes and windows of the summary |
| `ResearchProofs` | `ResearchesInReach` | `ResearchSound` | any chats, sessions, tasks, rounds, archives and failures |
| | `DebatesWhole` | `DebateSound` | any debates, rounds, pages, limits on sources, revisions and failures |
| | `AgendasKept` | `AgendaKept` | any questions, drafts, sources, limits, rounds and continuations |

### From which assumptions

Each theorem rests on the named assumptions of its module about its constants,
which TLC evaluates on every run. They are what the code gives: limits and
bounds are naturals, and those the code requires to be positive are; the members of a set of
choices are among the choices there are. Worth a word:

- `Router`: every caller has a priority, interactive callers are callers, `Free` is no thread.
- `GpuBroker`: no thread both pauses and views, and the pausing ones are finitely
  many, so that their debts can be counted. `ImageHandoff`: `NoThread`, which
  stands for no pause under way, is no thread.
- `ToolTurn`: a batch of calls is a non-empty sequence of calls (the engine comes
  to the tools only with some); the tools that are always offered include the search and the
  fetches, as in `tool_search_catalog.py`.
- `SkillStore`: groups are owners; the names of skills are finitely many, so that a load comes to an end,
  and no name is a number, as an id made from a name (`skill_fs_...`) is none of the numbered ones.
- `ScheduledJobs`: each job has a kind and legacy jobs are jobs.
- `CommandApproval`: an asker has a user, a chat and a key, and `NoUser` is none of the users.

Three theorems restrict the choices and say so in their `ASSUME`:

- `ModelHasGpu` leaves out two faults. With "restore", the model service does not
  come back, and nothing could serve. With "start", ComfyUI fails in the middle of
  its start, when the model has been stopped and no process is there: the next
  pause is granted because no process runs, and does not look at the
  model. What is left without this restriction is `HandoffHolds`.
- `ImagesHeld` and `OrdersServed` leave out a preemption at the submission of a prompt. The 409 of
  `POST /prompt` says nothing of the images already made, the client tells the queue
  that none is complete, and they are made again (section 6). `RequestsServed` is what holds of every
  preemption.

### Along which argument

*Router.* No property is inductive alone. `IInv` adds to the types: `JobsNamed`
(a thread past its first step names a row), `Locking` (who
is where when the admission lock is taken), `HandoffFresh` (the row a handler is
handing off has not been attempted and is queued, cancelled or failed), and `ResumeQuiet`
(while the worker asks the broker to resume, no interactive job is pending). From `Locking` follows that enqueue and hand-off
are seen as one step by the worker, which is what `RefusedNeverRuns` and
`HoldCoversInteractive` need. Each action's effect on a *row* is first brought
into one form (`RowStep`) so that the properties of rows are proved once per
kind of change and not once per action. `StreamCarriesResult` needs `StreamsCarry`: what a subscriber
has read, followed by what is on its queue, ends in the chunks of the running
attempt, and once the row is complete in its result. `Implements` maps a row to the
promise's view of it and shows each step to be a step of `JobPromise` or none.

*Broker.* The set `Owned` of runtimes in which ComfyUI and the model do not both
claim the GPU is closed under every private operation and endpoint, also when it
raises in its middle (`TeardownOwned`, `StartOwned`, `PromptOwned`, ...). The
one operation that turns the model on is only applied where no ComfyUI process
is left (`RestoreStopped`). For `ConflictsPaid` the flag, the mark and each
pause that has not finished are counted as debt: the debt and the conflicts
already answered never exceed twice the pauses (`Paid`); each endpoint clears
what it answers for (`PromptPays`, `HistoryPays`, `ViewPays`).

*Hand-off.* `HandoffInv` relates the three programs. `Held`: while a job is handed
off, or its pause is, the broker's hold is up. `Kept`: then ComfyUI has no process, unless the client
has an edit, whose upload starts one without looking at the hold. `Served`: without a process, the model is on. `Asked`
counts that each hand-off was a pause of its own. An operation that neither starts ComfyUI nor
lowers the hold is `Quiet`, and all but a few are.
`HandoffShares` maps the three programs onto `SharedGpu`: ComfyUI is a tenant while it has a process, the model
unless its service is off, and a lease runs from the moment the pause is granted, not from
when the router hears of it. What it needs of `HandoffInv` is that nobody has a lease while ComfyUI has a
process (except under an edit). Then the steps are of three kinds: those that change no lease, and change the tenants only
where there is no lease (`HeldStill`, of every endpoint), those that grant one (`TornDown`), and those that give it back.

*Fast-model queue.* `Serialized` needs that heap keys are told apart by their sequence
numbers (`KeysDiffer`), so that the heap yields one call, and that a worker that
has just been created has none in hand (`OneWorker`).

*Image queue.* `ImagesInv` says per chat: the line is ordered and later than the
job in hand (`Line`), the worker's place fits the result it has (`Running`), what is still to be
made of a request completes it (`Owed`), and which requests are given up, by a
cancel, an error or the user's pauses (`GivenUp`). Between chats: no request is
in the hands of two (`Apart`). `Accounts` is the balance of the images delivered.
`OrdersServed` maps a chat's queue onto its line in `ImageOrders`: the requests that wait together with the one
the worker has. Taking a job and putting back the rest of a batch do not change the line, so that
each step of `ImageQueue` accepts a request (`Queue`), delivers an image (`ImageDelivered`, of the first in the line by `Line`),
or settles (all the others; what they let go is accounted for). `Moved` is what the lemma of every
action proves: the invariant afterwards, and a step of `ImageOrders`.

*Cameras and heartbeat.* Whatever replies to a photo replies to one of its camera that an
alert sent and that is no reply itself (`ThreadsBegun`); each alert has a visit of its own, and one that is
under way and not yet seen is still to be counted (`VisitsSeen`). The counts per
day are those of the messages sent (`DaysCounted`), and between a check and its
delivery the limits that were read still hold of what is counted, because one
check at a time is under way.

*Status block.* `StatusInv` has four parts. `Held`, of all stacks and the chat: a message that a stack knows is in the
chat under the stack's slot and reads as the stack believes, a healthy block is filled from the top in
order (`InPlace`), no two stacks know one message, and each message is known, removed or lost.
`TurnsHeld`: one turn is in the engine and its stack is the controller, so that a question goes to a stack
in use. `Asked`: the stack that a question is in goes on asking it until another turn
disturbs it. `Unused`: a stack that nobody holds has ended. An operation of a stack is a sequence of calls of
Telegram, each of which may fail; what one call does to one slot (`SlotMoves`) and a stack
(`Follows`, `Fits`, `Good`) is shown once for each kind of call, composes along the sequence, and `Becoming` carries it from
the one stack to all of them.

*Turn.* In `TurnInv` a message that was accepted is in the queue of the turn it
was accepted for or has been taken out by it (`Entries`, `Waiting`), what a turn took and has still to
take is one ordered sequence (`Steered`), and a turn at the model holds its lock
(`HoldsModel`).

*Streams.* The monitor and the summariser remember the completion they were made
for: `TasksOfStream` says that it is the one under way until the stream has
stopped them, and `NotYetShown` which events cannot have been shown yet at each
place of the request.

*Tools.* `ToolInv` has four parts for each turn: what ran is charged to the
budgets it was counted against (`RunsSound`, `Charges`), each call handed out
is still to be answered or has its answer (`Outstanding`), the limits of places,
photos and passes (`InLimits`), and the two histories (`Histories`): the own
copy is closed, and the shared one holds the turn's results in the order of the calls whatever
other turns say in between. What a turn sends is the longest end of its copy
that fits, which takes induction over the sizes of messages; so does the first photo
that waits. `LeastOf` gives both.

*Approvals.* `AnswerHonoured` is a property of each request by itself
(`SoundRequest`). For `ApprovedByOwner` every grant goes back to an answer of its
owner that still stands (`GrantsOwned`), in the session, in memory and on disk.

*Commands.* `SoundCommand` ties what was told to what the process group is; the
count of slots is the number of commands in the runner's hands (`SlotsTaken`), which needs the
cardinality of that set at each change.

*Terminals.* `CallsSound` relates the two sides and the call under way for each
session: whose life of the runner it belongs to, whether an answer is on its way,
and what may be recorded of it. `SweepSound` does the same for a recovery that is half
done: what it has passed is over on both sides.

*Skills.* `DiskSound` is about a disk as a crash may leave it: documents and entries of
the cache agree on the id of a skill, whichever was written last, and on no other's (`AgreesWith`). A load, which is
a recursive function over the names, turns such a disk into entries that agree with every
document (`EntriesAre`, by `IterationExists` and `Upwards`), and each of the disks that an operation leaves in turn
is again such a disk, so that a crash between any two writes needs no case of its own. `Knows` bounds what a disk holds by
what was answered (`told`), and `ChangesSound` what the queue says by how often a change was made.

*Scheduler.* `PromisesKept` needs `ChatlessIsLegacy`: only jobs of the legacy file lack
a destination, so the rewriting of the file by `update_jobs_with_chat_id`
touches no promised job. `NoRunStranded` is inductive by
itself: a run is deferred only while a loop is in the foreground, the last loop
to end starts a drain, and a drain that stops has found the deferred runs gone
or a loop in the foreground again.

*Memory.* `MemoryInv` says of the task in the background that each item it will
write under an id has either the text it has asked the embedding for, or is no
longer there (`TaskSound`); ids below the next one are never given again (`ItemsSound`).

*History.* As long as no two threads were temporary at once, the history, every
backup and every summary under way hold nothing of a thread that is
persistent again (`NothingLeaks`), and the note of a turn belongs to it (`NotesHeld`). The loops that
filter the history are recursive functions; `IterationExists` and `Upwards` give
what they return (`OthersAre`, `OthersStay`).

*Debates.* `Evidence`: the sources a clerk has numbered are in no packet and in no
other clerk's request, so that two clerks of one set of sources never share one. `Argued`: where the debate
is says what has been said, and by whom (`Preparing`, `Opened`, `InRound`, `Whole`), and no
clerk is at work where the debate does not wait for one (`Quiet`). `Settled`: what is archived changes no more.

*Expert sessions.* Two tasks of one session id that are there at the same time are known to
overlap (`Exclusive`), so that the end of a task takes no other's loop or entry with it. A task
that researches has its session in the place of its chat, with a status that
blocks (`InReach`). Places are given and taken by handlers that were suspended
since they looked, hence two more parts: the session a handler talks to, or whose task is
about to begin, pushes no research out of its place (`Placed`), and nothing researches
in a chat whose topic is with the classifier, or whose session is about to be archived (`Cleared`).
A failed attempt at this proof changed the model: with three tasks, one more than the
run has, an answer can meet a delivery that fails afterwards (section 6), and `overlapped` had
to say so.

*Agenda.* A question is in progress only within its round (`OneInProgress`), so that
where a round finds nothing to choose, every core question is closed or in
the hands of nobody (`CoreBeforeReport`). The next question is the one of the least
key, which exists (`LeastKey`). The questions a round adds are those that are new and fit the room
that the limit leaves (`WithinLimits`).

*Bridge.* `RunsOnce` counts: what has run is remembered (its response is cached,
or the engine is at it and it is in flight) or has been forgotten since
(`Accounted`); pruning and restarts move requests from the first to the second.
`WaitersRouted` is inductive with the shape of its two tables.

*Browsers.* `SoundBrowser` relates, for one session, its state, its Chromium, the call and the
closing under way: the only Chromium of it that runs is the one it knows, none
runs once a closing has come to the process, and no endpoint of it is accepted once a closing
has closed the tabs.
A session that was closed while its call was launching (`raced`) is the
exception, as in section 6.

### What is only model-checked

Every liveness property: the prover has no reasoning about fairness and
`ENABLED` here. Every invariant of a passing run has a theorem. What recursive operators and the folds of the community modules return cannot be
proved of all data, because the library's induction needs an operator as a
parameter; modules with a theorem use recursive functions, about which `DataLemmas` argues by least
elements instead.

The type invariant of `Router` is a theorem and no run repeats it.


## 5. Hazards and properties

The hazards in `PROJECT.json` are grouped by where they bite: a crash or a
cancel between two statements of the router; the unlocked middle of a pause;
answers of another process that are lost or late; flags of a chat read before
an await and used after it; a turn that registers late or removes another;
grants and bindings that outlive what they were given for; files that several
writers rewrite; tasks and browsers that outlive the session they belong to; one
history, block of messages or set of sources that several tasks change; helper
tasks that act on a stream which is over; limits counted across awaits. A hazard
whose note names an exception has it in the model: the step is there, and the
property says what holds beside it.

Where several promises of one component are about one hazard they form one
property of the runs (`BrowserSound`, `ToolsSound`, ...), a conjunction of named
definitions in the component's module.

## 6. Where the code differs from what it says

Shown by a run (details under "findings" in `PROJECT.json`):

1. `router_late_cancel`: `JobStore.__init__` requeues a running row with its
   cancel mark, which `next_job` never picks (`storage.py:31`, `:61`).
2. `image_deadlock`: pause, resume, pause before the worker looks leaves
   `pause_ready_event` cleared; the next message waits for it inside the only
   update loop (`image_lifecycle.py:397`).
3. `turn_second`: the `finally` of `response_worker` removes whatever turn is
   registered (`bot.py:1133`).
4. `terminal_recovery`: a repeated recovery takes bindings of the running process
   for left-overs (`session_persistence.py:193`).

Seen while modelling, and visible in the models as exceptions of the
properties: a stream may hold chunks of a failed attempt before the response
(`scheduler.py:120`); a batch is refused as busy when its next image is asked
for before `finish_view` (`qwen_b580_runtime.py:854`); a 409 to a submit says
that no image is complete and the batch starts again (`comfyui_image.py:289`);
a message during an unpaused image queue is dropped although the status says
that it will be answered (`image_lifecycle.py:388`); a message accepted while
the last summary is edited never reaches the model (`engine.py:2216-2227`);
a grant whose file could not be written is reported as "once" and lasts until
the restart (`command_approval.py:416`); two job starts at `max_jobs` both pass
(`terminal_runtime.py:541`); a one-time run that was deferred is lost by a
restart (`scheduler.py:1178`), and a removed job of the legacy file returns
(`scheduler.py:711`); a restarted terminal broker calls the sessions of its
predecessor not found, which `src/README.md:545` promises to report as orphaned
(`terminal_runtime.py:356`); a request of the peer that is relayed too far or
above the rate limit gets no answer at all (`inter_agent_bridge.py:317`, `:326`).

- Experts and debates: the guard against a second session is read before an await
  and not after it, so that a session may be replaced while its task goes on
  (`expert.py:2690`), or be started again while its last task still delivers
  (`:2265`); when the delivery of a question fails after the user has answered it, the
  old task writes "error" over the "running" of the answer (`:2254`), and until
  the next task has begun nothing keeps another `/expert` out of the chat; a debate that delivers its memo removes one begun since
  (`debate.py:1826`).
- Browsers: a call that was under way when its session was closed launches a
  Chromium again, which nobody closes (`browser_control.py:417`).
- Status: an older turn ends the block of the newer one, with its approval
  prompt (`bot.py:1496`).
- Skills: `approve` applies a change that was rejected before it looks at its
  status (`skill_approval.py:563`); decided changes are never taken
  out of the queue, and a full one refuses every new change (`:252`); skills of one name in two scopes share a document
  (`skills.py:320`).
- Memory: a fact stored while the embeddings are being asked for may stay without
  one until the next consolidation (`memory.py:686`); after a clear no topics
  are summarised until the history has outgrown its former length (`:947`).
- Temporary mode: of two threads that are temporary at once, the backup of one
  holds what was said in the other (`temporary_mode.py:58`).
- Commands: a child in a session of its own keeps the output open after the kill,
  and with it the slot of the runner (`emery_host_command.py:261`); killing
  the client of docker or ssh leaves the command running, and an error of the connection to
  the host runner says nothing of the command there (`command_backends.py:220`, `:535`).
- Turns: the shared history keeps the calls of a turn that failed without results
  (`engine.py:2086`); the turn's own copy is what `ToolsSound` is about.
- Unasked messages: the heartbeat writes although somebody has written since it
  looked (`bot.py:2087`); an alert's history entry may name the photo of another
  alert of its camera (`tools.py:3547`).

## 7. Not modelled, and the plan

| Part | Why it is left out |
|---|---|
| Prompt cache and session context | a frozen prefix, rebuilt when it is missing; which tools it offers is in `ToolTurn`, the rest is text |
| Other tools, model calls (`helpers.py`), document conversion | one call of an outside service each, and text around it; no state that a later call decides on |
| Start-up, configuration, logging | read once; what a restart loses is in the module of the component that loses it |
| Setup and benchmark scripts | run by hand, one step after the other |
| Remote image encoder | one endpoint without state of its own |
| Turns cancelled while they wait for the peer bot | their route is left until pruned |
| Routine history of the scheduler | buffered entries, flush at five pending, timers that re-arm while a routine is near |
| Search and ranking (tools, skills, memory), parsing of model output, layout of reports and transcripts | pure functions over text; what they return is arbitrary in the models |

What is left out inside a component is in its note in `PROJECT.json`.

Planned next: the routine history of the scheduler, and a turn that is cancelled while it
waits for the peer bot.

## 8. Running

    tlc -workers 2 -config RouterTable.cfg MCRouter
    tlapm RouterProofs.tla

`PROJECT.json` pairs every configuration with its module. No run takes more
than about four minutes on two cores; `safety` and `research` take the
longest. Of the proofs those of `ChatProofs`, `EngineProofs` and `ResearchProofs` do, with five
to six minutes each.
