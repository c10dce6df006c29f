---------------------------- MODULE TerminalSessions ----------------------------
(***************************************************************************)
(* Terminal sessions and background jobs: the tools of                     *)
(* emery/terminal_tools.py, the durable bindings behind them               *)
(* (emery/session_persistence.py, emery/execution_store.py) and the broker *)
(* of the host runner (emery/terminal_runtime.py), a process of its own    *)
(* that is reached over a socket and outlives a restart of Emery.          *)
(*                                                                         *)
(* A resource is named by the tool call that started it.  A tool call is   *)
(*   new         not made yet                                              *)
(*   recover     wants _recovery_lock                                      *)
(*   recovering  holds it and asks the runner to end what is left          *)
(*   ready       about to look at its binding and to call the runner       *)
(*   calling     waits for the runner's answer                             *)
(*   over        answered, failed, or lost with its process                *)
(* A step is the code between two suspensions of one of the two loops.     *)
(***************************************************************************)
EXTENDS Naturals, Sequences, FiniteSets

CONSTANTS
    ChatOf,         \* bound: the chat session each tool call is made in, a sequence
    RunnerLimit,    \* max_sessions and max_jobs of the runner
    MaxLives,       \* bound: processes of Emery, one after the other
    MaxRunnerStops, \* bound: restarts of the runner
    MaxSilences     \* bound: calls without an answer

ASSUME TerminalAssumption ==
    /\ DOMAIN ChatOf = 1..Len(ChatOf)
    /\ RunnerLimit \in Nat \ {0} /\ MaxLives \in Nat \ {0}
    /\ MaxRunnerStops \in Nat /\ MaxSilences \in Nat

\* The tool calls, named in the order in which they are made.
Tools == DOMAIN ChatOf
NoTool == 0

VARIABLES
    tool,       \* the tool calls
    wire,       \* one request on the socket for each tool call
    runner,     \* _sessions and _jobs of the broker, with their processes
    binding,    \* session_resource_bindings; born: the process that bound it
    sweep,      \* who holds _recovery_lock, the bindings it has still to end, pending
    recovered,  \* whether the store is in _recovered_store_paths
    life,       \* number of this process of Emery
    trouble     \* runner restarts and silences so far

terminalVars == <<tool, wire, runner, binding, sweep, recovered, life, trouble>>

Quiet == [stage |-> "none", op |-> "none", of |-> NoTool, reason |-> "none", reply |-> "none"]
Over(t) == [t EXCEPT !.at = "over", !.op = "none", !.target = NoTool]
NoSweep == [holder |-> NoTool, left |-> {}, pending |-> FALSE]

TerminalInit ==
    /\ tool = [c \in Tools |-> [at |-> "new", op |-> "none", kind |-> "none", target |-> NoTool]]
    /\ wire = [c \in Tools |-> Quiet]
    /\ runner = [r \in Tools |-> [status |-> "none", alive |-> FALSE]]
    /\ binding = [r \in Tools |-> [status |-> "none", born |-> 0]]
    /\ sweep = NoSweep /\ recovered = FALSE
    /\ life = 1 /\ trouble = [stops |-> 0, silences |-> 0]

Active == {"active", "recovery_pending"}                   \* _RESOURCE_ACTIVE_STATUSES
Usable == {"active", "completed", "cancelled", "expired"}  \* _RESOURCE_USABLE_STATUSES
\* What _sync_resource_result copies from an answer.
Final == {"closed", "completed", "cancelled", "expired", "stale_on_restart"}

Bound(r) == binding[r].status # "none"
Known(r) == runner[r].status \notin {"none", "lost"}
Running(kind) == {r \in Tools : runner[r].status = "running" /\ tool[r].kind = kind}

-----------------------------------------------------------------------------
(* Emery: the tool calls *)

NewCall(c) ==
    /\ tool[c].at = "new" /\ \A b \in Tools : b < c => tool[b].at # "new"
    /\ \/ \E kind \in {"session", "job"} :
            tool' = [tool EXCEPT ![c] =
                       [at |-> "recover", op |-> "start", kind |-> kind, target |-> c]]
       \/ \E op \in {"look", "end"}, r \in {q \in Tools : Bound(q) \/ Known(q)} :
            tool' = [tool EXCEPT ![c] =
                       [at |-> "recover", op |-> op, kind |-> "none", target |-> r]]
    /\ UNCHANGED <<wire, runner, binding, sweep, recovered, life, trouble>>

\* recover_stale_resources, up to its first call.
RecoverOne(c) ==
    /\ tool[c].at = "recover" /\ sweep.holder = NoTool
    /\ \/ /\ recovered
          /\ tool' = [tool EXCEPT ![c].at = "ready"]
          /\ UNCHANGED sweep
       \/ /\ ~recovered
          /\ tool' = [tool EXCEPT ![c].at = "recovering"]
          /\ sweep' = [holder |-> c, pending |-> FALSE,
                       left |-> {r \in Tools : binding[r].status \in Active}]
    /\ UNCHANGED <<wire, runner, binding, recovered, life, trouble>>

RecoverCalls(c) ==
    /\ tool[c].at = "recovering" /\ wire[c] = Quiet
    /\ \E r \in sweep.left :
         wire' = [wire EXCEPT ![c] = [Quiet EXCEPT !.stage = "sent", !.op = "end", !.of = r,
                                                   !.reason = "stale_on_restart"]]
    /\ UNCHANGED <<tool, runner, binding, sweep, recovered, life, trouble>>

\* Seeded fault: an unreachable runner is taken for a missing resource.
Cleaned_Always(reply) == TRUE
\* The result of one cleanup; a resource the runner does not know is gone.
Cleaned(reply) == reply # "error"

\* One resource that could not be cleaned leaves the recovery pending.
StillPending(cleaned) == sweep.pending \/ ~cleaned

RecoverUpdates(c, reply) ==
    LET r == wire[c].of IN
    /\ binding' = [binding EXCEPT ![r].status =
                     IF Cleaned(reply) THEN "stale" ELSE "recovery_pending"]
    /\ sweep' = [sweep EXCEPT !.left = @ \ {r}, !.pending = StillPending(Cleaned(reply))]
    /\ wire' = [wire EXCEPT ![c] = Quiet]

RecoverAnswered(c) ==
    /\ tool[c].at = "recovering" /\ wire[c].stage = "handled"
    /\ RecoverUpdates(c, wire[c].reply)
    /\ UNCHANGED <<tool, runner, recovered, life, trouble>>

RecoverEnds(c) ==
    /\ tool[c].at = "recovering" /\ sweep.left = {}
    /\ recovered' = ~sweep.pending
    /\ sweep' = NoSweep
    /\ tool' = [tool EXCEPT ![c].at = "ready"]
    /\ UNCHANGED <<wire, runner, binding, life, trouble>>

\* authorize_resource; an id that was never bound is let through.
Authorized(c) ==
    LET r == tool[c].target IN
    ~Bound(r) \/ (ChatOf[r] = ChatOf[c] /\ binding[r].status \in Usable)

Sends(c) ==
    /\ tool[c].at = "ready"
    /\ tool[c].op = "start" \/ Authorized(c)
    /\ tool' = [tool EXCEPT ![c].at = "calling"]
    /\ wire' = [wire EXCEPT ![c] =
         [Quiet EXCEPT !.stage = "sent", !.op = tool[c].op, !.of = tool[c].target,
            !.reason = IF tool[tool[c].target].kind = "session" THEN "closed" ELSE "cancelled"]]
    /\ UNCHANGED <<runner, binding, sweep, recovered, life, trouble>>

\* Not authorized, or an approval that is refused.
Refused(c) ==
    /\ tool[c].at = "ready"
    /\ tool' = [tool EXCEPT ![c] = Over(@)]
    /\ UNCHANGED <<wire, runner, binding, sweep, recovered, life, trouble>>

\* bind_resource, or _sync_resource_result.
Recorded(c, reply) ==
    LET r == tool[c].target IN
    binding' = CASE tool[c].op = "start" /\ reply = "running" ->
                      [binding EXCEPT ![r] = [status |-> "active", born |-> life]]
                 [] tool[c].op # "start" /\ reply \in Final /\ Bound(r) ->
                      [binding EXCEPT ![r].status = reply]
                 [] OTHER -> binding

Answered(c) ==
    /\ tool[c].at = "calling" /\ wire[c].stage = "handled"
    /\ Recorded(c, wire[c].reply)
    /\ tool' = [tool EXCEPT ![c] = Over(@)]
    /\ wire' = [wire EXCEPT ![c] = Quiet]
    /\ UNCHANGED <<runner, sweep, recovered, life, trouble>>

\* No answer in time, or no connection: _host_call returns an error.  What the
\* runner has begun it goes on with; after a recovery call it has either not
\* begun or is through.
NoAnswer(c) ==
    /\ trouble.silences < MaxSilences
    /\ trouble' = [trouble EXCEPT !.silences = @ + 1]
    /\ \/ /\ tool[c].at = "calling"
          /\ tool' = [tool EXCEPT ![c] = Over(@)]
          /\ wire' = [wire EXCEPT ![c] = IF @.stage = "handled" THEN Quiet ELSE @]
          /\ UNCHANGED <<binding, sweep>>
       \/ /\ tool[c].at = "recovering" /\ wire[c] # Quiet
          /\ RecoverUpdates(c, "error")
          /\ UNCHANGED tool
    /\ UNCHANGED <<runner, recovered, life>>

\* A new process of Emery; what is on the socket may still reach the runner.
EmeryRestarts ==
    /\ life < MaxLives
    /\ life' = life + 1 /\ recovered' = FALSE /\ sweep' = NoSweep
    /\ tool' = [c \in Tools |-> IF tool[c].at = "new" THEN tool[c]
                                ELSE Over(tool[c])]
    /\ wire' = [c \in Tools |-> IF wire[c].stage = "handled" THEN Quiet ELSE wire[c]]
    /\ UNCHANGED <<runner, binding, trouble>>

-----------------------------------------------------------------------------
(* The broker of the host runner *)

Heard(c) == tool[c].at \in {"calling", "recovering"}

RunnerReplies(c, reply) ==
    wire' = [wire EXCEPT ![c] = IF Heard(c) THEN [@ EXCEPT !.stage = "handled", !.reply = reply]
                                ELSE Quiet]

Ended(r, status) == runner' = [runner EXCEPT ![r] = [status |-> status, alive |-> FALSE]]

\* start_session is one step.  start_job looks at its limit, then creates the
\* process, and registers the job when it has it.
RunnerStarts(c) ==
    /\ wire[c].op = "start"
    /\ \/ /\ wire[c].stage = "sent"
          /\ Cardinality(Running(tool[c].kind)) >= RunnerLimit
          /\ RunnerReplies(c, "error") /\ UNCHANGED runner
       \/ /\ wire[c].stage = "sent" /\ tool[c].kind = "job"
          /\ Cardinality(Running("job")) < RunnerLimit
          /\ wire' = [wire EXCEPT ![c].stage = "spawning"] /\ UNCHANGED runner
       \/ /\ \/ wire[c].stage = "spawning"
             \/ /\ wire[c].stage = "sent" /\ tool[c].kind = "session"
                /\ Cardinality(Running("session")) < RunnerLimit
          /\ runner' = [runner EXCEPT ![c] = [status |-> "running", alive |-> TRUE]]
          /\ RunnerReplies(c, "running")
    /\ UNCHANGED <<tool, binding, sweep, recovered, life, trouble>>

\* job_status, job_read, job_wait, session_read.
RunnerLooks(c) ==
    /\ wire[c].op = "look" /\ wire[c].stage = "sent"
    /\ RunnerReplies(c, IF Known(wire[c].of) THEN runner[wire[c].of].status ELSE "missing")
    /\ UNCHANGED <<tool, runner, binding, sweep, recovered, life, trouble>>

\* close_session takes any session, cancel_job only one that runs.
Endable(r) == tool[r].kind = "session" \/ runner[r].status = "running"

RunnerEnds(c) ==
    LET r == wire[c].of IN
    /\ wire[c].op = "end" /\ wire[c].stage = "sent"
    /\ \/ /\ Known(r) /\ Endable(r)
          /\ Ended(r, wire[c].reason)
          /\ RunnerReplies(c, wire[c].reason)
       \/ /\ ~(Known(r) /\ Endable(r))
          /\ RunnerReplies(c, IF Known(r) THEN runner[r].status ELSE "missing")
          /\ UNCHANGED runner
    /\ UNCHANGED <<tool, binding, sweep, recovered, life, trouble>>

\* The shell or command ends by itself.
Exits(r) ==
    /\ runner[r].alive
    /\ runner' = [runner EXCEPT ![r].alive = FALSE]
    /\ UNCHANGED <<tool, wire, binding, sweep, recovered, life, trouble>>

\* _wait_job; nobody waits for the shell of a session.
JobReaped(r) ==
    /\ runner[r].status = "running" /\ ~runner[r].alive /\ tool[r].kind = "job"
    /\ runner' = [runner EXCEPT ![r].status = "completed"]
    /\ UNCHANGED <<tool, wire, binding, sweep, recovered, life, trouble>>

\* _reaper, at any time.
Expires(r) ==
    /\ runner[r].status = "running"
    /\ Ended(r, "expired")
    /\ UNCHANGED <<tool, wire, binding, sweep, recovered, life, trouble>>

\* The service restarts with all its processes; the new broker knows no ids.
RunnerRestarts ==
    /\ trouble.stops < MaxRunnerStops
    /\ trouble' = [trouble EXCEPT !.stops = @ + 1]
    /\ runner' = [r \in Tools |-> IF Known(r) THEN [status |-> "lost", alive |-> FALSE]
                                  ELSE runner[r]]
    /\ wire' = [c \in Tools |->
         IF wire[c].stage \notin {"sent", "spawning"} THEN wire[c]
         ELSE IF Heard(c) THEN [wire[c] EXCEPT !.stage = "handled", !.reply = "error"] ELSE Quiet]
    /\ UNCHANGED <<tool, binding, sweep, recovered, life>>

TerminalNext ==
    \/ \E c \in Tools :
         \/ NewCall(c) \/ Sends(c) \/ Refused(c) \/ Answered(c) \/ NoAnswer(c)
         \/ RecoverOne(c) \/ RecoverCalls(c) \/ RecoverAnswered(c) \/ RecoverEnds(c)
         \/ RunnerStarts(c) \/ RunnerLooks(c) \/ RunnerEnds(c)
         \/ Exits(c) \/ JobReaped(c) \/ Expires(c)
    \/ EmeryRestarts \/ RunnerRestarts

TerminalSpec == TerminalInit /\ [][TerminalNext]_terminalVars

-----------------------------------------------------------------------------
(* Properties *)

BindingStatuses == {"none", "running", "lost"} \cup Final

\* Types; no process without a record that says it runs, no lock without a holder.
TerminalTypeOK ==
    /\ \A r \in Tools : runner[r].alive => runner[r].status = "running"
    /\ \A c \in Tools : tool[c].at = "recovering" <=> sweep.holder = c
    /\ tool \in [Tools -> [at: {"new", "recover", "recovering", "ready", "calling", "over"},
                           op: {"none", "start", "look", "end"},
                           kind: {"none", "session", "job"}, target: Tools \cup {NoTool}]]
    /\ wire \in [Tools -> [stage: {"none", "sent", "spawning", "handled"},
                           op: {"none", "start", "look", "end"}, of: Tools \cup {NoTool},
                           reason: {"none"} \cup Final, reply: {"error", "missing"} \cup BindingStatuses]]
    /\ runner \in [Tools -> [status: BindingStatuses, alive: BOOLEAN]]
    /\ binding \in [Tools -> [status: {"none", "stale"} \cup Active \cup Final, born: 0..MaxLives]]
    /\ sweep \in [holder: Tools \cup {NoTool}, left: SUBSET Tools, pending: BOOLEAN]
    /\ recovered \in BOOLEAN
    /\ life \in 1..MaxLives
    /\ trouble \in [stops: 0..MaxRunnerStops, silences: 0..MaxSilences]

\* What the store calls over is over on the host: no process goes on behind a
\* binding that is closed, final or stale, whatever answers were lost.
EndedIsGone ==
    \A r \in Tools : binding[r].status \in {"stale"} \cup Final => ~runner[r].alive

\* Once recovery is done, nothing bound by an earlier process of Emery is open in
\* the store or runs on the host.
RecoveryComplete ==
    recovered => \A r \in Tools : Bound(r) /\ binding[r].born < life =>
        binding[r].status \notin Active /\ ~runner[r].alive

\* The store and the host agree, about what has ended and about what an earlier process left.
TerminalSound == EndedIsGone /\ RecoveryComplete

\* Recovery ends what an earlier process left behind, and nothing else.
RecoversOldOnly ==
    \A c \in Tools : tool[c].at = "recovering" /\ wire[c].stage = "sent" =>
        binding[wire[c].of].born < life
=============================================================================
