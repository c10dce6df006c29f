----------------------------- MODULE TurnSteering -----------------------------
(***************************************************************************)
(* A chat turn and the messages that steer it (emery/bot.py, the loop of   *)
(* emery_engine in emery/engine.py, main_model_lock in emery/globals.py).  *)
(*                                                                         *)
(* Everything runs on one event loop: a step is the code between two       *)
(* suspensions.  A turn stands at                                          *)
(*   begin    its task exists and has not run yet                          *)
(*   loop     the top of the reasoning loop                                *)
(*   ask      waits for main_model_lock                                    *)
(*   request  the model works on its request                               *)
(*   tools    runs the tool calls of a response                            *)
(*   text     summarises the reasoning of a response without tool calls    *)
(*   final    has its answer and edits the last summary into the status    *)
(*   deliver  has left the engine and sends its answer                     *)
(***************************************************************************)
EXTENDS Naturals, Sequences, FiniteSets

CONSTANTS
    MaxMessages,  \* bound: messages the user sends to the chat
    ToolLoop,     \* TOOL_LOOP
    MaxPending,   \* LIVE_STEERING_MAX_PENDING
    Others,       \* whether expert and debate sessions use the model too
    Suspends      \* whether handle_message gives up the event loop before it
                  \* looks for a turn (a temporary chat need not)

ASSUME TurnAssumption ==
    /\ MaxMessages \in Nat /\ ToolLoop \in Nat /\ MaxPending \in Nat \ {0}
    /\ Others \in BOOLEAN /\ Suspends \in BOOLEAN

VARIABLES
    msg,       \* what became of each message
    sent,      \* messages received so far
    active,    \* active_turns[(chat_id, thread_id)], or NoTurn
    turn,      \* the turn each message may have started, by its number
    modelLock  \* who holds main_model_lock

turnVars == <<msg, sent, active, turn, modelLock>>

Messages == 1..MaxMessages
NoTurn == 0
Other == MaxMessages + 1   \* an expert or debate session

\* at "pending": accepted while the turn could still take it in; "late":
\* accepted after the turn's last look; turn: the turn that has it.
Message == [at: {"unsent", "preparing", "asked", "pending", "late", "applied", "busy"},
            turn: Messages \cup {NoTurn}]

\* pending: the queue; loop: loop_count; ext: steering_extensions; forced:
\* forced_text_only; attempts: forced_text_attempts;
\* applied: the steering messages put into the history of requests.
Turn == [at: {"none", "begin", "loop", "ask", "request", "tools", "text", "final",
              "deliver", "done"},
         accepting: BOOLEAN, failed: BOOLEAN, forced: BOOLEAN,
         pending: Seq(Messages), applied: Seq(Messages),
         loop: Nat, ext: 0..MaxPending, attempts: 0..2, empty: BOOLEAN]

FreshTurn(at) ==
    [at |-> at, accepting |-> TRUE, failed |-> FALSE, forced |-> ToolLoop = 0,
     pending |-> <<>>, applied |-> <<>>, loop |-> 0, ext |-> 0, attempts |-> 0,
     empty |-> FALSE]

TurnInit ==
    /\ msg = [m \in Messages |-> [at |-> "unsent", turn |-> NoTurn]]
    /\ sent = 0
    /\ active = NoTurn
    /\ turn = [t \in Messages |-> FreshTurn("none")]
    /\ modelLock = NoTurn

-----------------------------------------------------------------------------
(* handle_message: updates are handled one after the other *)

UpdatesFree == \A m \in Messages : msg[m].at # "preparing"

\* Until the context of the message has been looked up it is nowhere.
Receive ==
    /\ sent < MaxMessages /\ UpdatesFree
    /\ sent' = sent + 1
    /\ msg' = [msg EXCEPT ![sent + 1].at = "preparing"]
    /\ UNCHANGED <<active, turn, modelLock>>

Steerable == active # NoTurn /\ turn[active].accepting

\* A task that was created runs at the next suspension.
TasksStarted == \A t \in Messages : turn[t].at # "begin"

Handle(m) ==
    /\ msg[m].at = "preparing"
    /\ Suspends => TasksStarted
    /\ \/ /\ Steerable /\ Len(turn[active].pending) >= MaxPending
          /\ msg' = [msg EXCEPT ![m].at = "busy"]
          /\ UNCHANGED turn
       \/ /\ Steerable /\ Len(turn[active].pending) < MaxPending
          /\ turn' = [turn EXCEPT ![active].pending = Append(@, m)]
          /\ msg' = [msg EXCEPT ![m] =
               [at |-> IF turn[active].at = "final" THEN "late" ELSE "pending", turn |-> active]]
       \/ /\ ~Steerable
          /\ turn' = [turn EXCEPT ![m] = FreshTurn("begin")]
          /\ msg' = [msg EXCEPT ![m] = [at |-> "asked", turn |-> m]]
    /\ UNCHANGED <<sent, active, modelLock>>

\* run_engine_for_chat up to the engine; a turn is registered before its
\* first await.
Begin(t) ==
    /\ turn[t].at = "begin"
    /\ active' = t
    /\ turn' = [turn EXCEPT ![t].at = "loop"]
    /\ UNCHANGED <<msg, sent, modelLock>>

-----------------------------------------------------------------------------
(* The loop of emery_engine *)

\* Seeded fault: the queue is read and not emptied.
Consumed_Kept(r) == [r EXCEPT !.applied = @ \o r.pending]
\* _consume_steering_messages
Consumed(r) == [r EXCEPT !.applied = @ \o r.pending, !.pending = <<>>]

Taken(t) == [m \in Messages |->
    IF \E i \in DOMAIN turn[t].pending : turn[t].pending[i] = m
    THEN [msg[m] EXCEPT !.at = "applied"] ELSE msg[m]]

\* The finally clause around the engine: its locals are gone and the turn takes
\* no more messages.
Leaves(t, isFailed) ==
    /\ turn' = [turn EXCEPT ![t] =
         [FreshTurn("deliver") EXCEPT !.accepting = FALSE, !.failed = isFailed]]
    /\ active' = IF active = t THEN NoTurn ELSE active

LoopTop(t) ==
    /\ turn[t].at = "loop"
    /\ IF turn[t].loop < ToolLoop + turn[t].ext \/ turn[t].forced
       THEN /\ turn' = [turn EXCEPT ![t] = [Consumed(@) EXCEPT !.at = "ask"]]
            /\ msg' = Taken(t)
            /\ UNCHANGED active
       ELSE Leaves(t, TRUE) /\ UNCHANGED msg
    /\ UNCHANGED <<sent, modelLock>>

AsksModel(t) ==
    /\ turn[t].at = "ask" /\ modelLock = NoTurn
    /\ modelLock' = t
    /\ turn' = [turn EXCEPT ![t].at = "request"]
    /\ UNCHANGED <<msg, sent, active>>

\* Seeded fault: a request that ends keeps the model.
Released_Never(t) == modelLock
\* Leaving the async with block of the request.
Released(t) == IF modelLock = t THEN NoTurn ELSE modelLock

\* Tool calls count only while tools are offered.
Responds(t) ==
    /\ turn[t].at = "request"
    /\ modelLock' = Released(t)
    /\ \/ ~turn[t].forced /\ turn' = [turn EXCEPT ![t].at = "tools"]
       \/ \E empty \in BOOLEAN :
            turn' = [turn EXCEPT ![t].at = "text", ![t].empty = empty]
    /\ UNCHANGED <<msg, sent, active>>

\* An error of the model, an unknown tool, an exception anywhere in the loop.
Fails(t) ==
    /\ turn[t].at \in {"request", "tools"}
    /\ modelLock' = Released(t)
    /\ Leaves(t, TRUE)
    /\ UNCHANGED <<msg, sent>>

\* The steering extension: a message in the last pass earns another one.
Extended(r) == IF r.ext + 1 < MaxPending THEN r.ext + 1 ELSE MaxPending

\* The end of a pass that goes round again: the steering extension, the count,
\* and the text-only mode once the loops are used up.
NextLoop(r, steered, force) ==
    LET ext  == IF steered /\ r.loop + 1 >= ToolLoop THEN Extended(r) ELSE r.ext
        spent == r.loop + 1 >= ToolLoop + ext
    IN  [r EXCEPT !.at = "loop", !.loop = r.loop + 1, !.ext = ext,
                  !.forced = r.forced \/ force \/ spent]

\* overBudget: MAX_TOOL_CALLS_PER_TURN is reached or a source fetched twice.
ToolsDone(t) ==
    /\ turn[t].at = "tools"
    /\ \E overBudget \in BOOLEAN :
         turn' = [turn EXCEPT ![t] = NextLoop(@, turn[t].pending # <<>>, overBudget)]
    /\ UNCHANGED <<msg, sent, active, modelLock>>

\* Seeded fault: a turn that has its answer does not look at its queue.
TextSteered_Never(t) ==
    turn[t].at = "text" /\ turn[t].forced /\ turn[t].pending # <<>>
\* An intermediate answer is put off for queued messages.
TextSteered(t) == turn[t].at = "text" /\ turn[t].pending # <<>>

Attempt(r) == [r EXCEPT !.attempts = @ + 1]

TextDone(t) ==
    LET r == turn[t]
    IN  /\ r.at = "text"
        /\ \/ /\ TextSteered(t)
              /\ turn' = [turn EXCEPT ![t] = NextLoop(Consumed(r), TRUE, FALSE)]
              /\ msg' = Taken(t)
           \/ /\ ~TextSteered(t) /\ r.empty /\ ~r.forced
              /\ turn' = [turn EXCEPT ![t] =
                   [r EXCEPT !.at = "loop", !.loop = @ + 1, !.forced = TRUE]]
              /\ UNCHANGED msg
           \/ /\ ~TextSteered(t) /\ r.empty /\ r.forced
              /\ turn' = [turn EXCEPT ![t] =
                   IF Attempt(r).attempts < 2
                   THEN [Attempt(r) EXCEPT !.at = "loop", !.loop = @ + 1]
                   ELSE [Attempt(r) EXCEPT !.at = "final"]]
              /\ UNCHANGED msg
           \/ /\ ~TextSteered(t) /\ ~r.empty
              /\ turn' = [turn EXCEPT ![t].at = "final"]
              /\ UNCHANGED msg
        /\ UNCHANGED <<sent, active, modelLock>>

\* The summary of the whole turn is in place, or its edit failed.
EngineReturns(t) ==
    /\ turn[t].at = "final"
    /\ Leaves(t, FALSE)
    /\ UNCHANGED <<msg, sent, modelLock>>

\* The answer is sent; the finally clause of response_worker closes whatever
\* turn is registered by now.
Delivered(t) ==
    /\ turn[t].at = "deliver"
    /\ active' = NoTurn
    /\ turn' = [u \in Messages |->
         [turn[u] EXCEPT !.at = IF u = t THEN "done" ELSE @,
                         !.accepting = @ /\ u # active]]
    /\ UNCHANGED <<msg, sent, modelLock>>

\* An expert or a debate session asks the model.
OtherTakes ==
    /\ Others /\ modelLock = NoTurn
    /\ modelLock' = Other
    /\ UNCHANGED <<msg, sent, active, turn>>
OtherDone ==
    /\ modelLock = Other
    /\ modelLock' = NoTurn
    /\ UNCHANGED <<msg, sent, active, turn>>

EngineStep(t) ==
    \/ LoopTop(t) \/ Responds(t) \/ Fails(t) \/ ToolsDone(t) \/ TextDone(t)
    \/ EngineReturns(t) \/ Delivered(t)

TurnNext ==
    \/ Receive
    \/ \E m \in Messages : Handle(m) \/ Begin(m) \/ AsksModel(m) \/ EngineStep(m)
    \/ OtherTakes \/ OtherDone

TurnSpec == TurnInit /\ [][TurnNext]_turnVars

\* Ready tasks run, requests and tools end (each has a timeout), and the
\* semaphore serves its waiters in turn.  Users owe nothing.
TurnFairness ==
    /\ \A t \in Messages :
        /\ WF_turnVars(Handle(t)) /\ WF_turnVars(Begin(t)) /\ WF_turnVars(EngineStep(t))
        /\ SF_turnVars(AsksModel(t))
    /\ WF_turnVars(OtherDone)

TurnLiveSpec == TurnSpec /\ TurnFairness

-----------------------------------------------------------------------------
(* Properties *)

TurnTypeOK ==
    /\ msg \in [Messages -> Message]
    /\ sent \in 0..MaxMessages
    /\ active \in Messages \cup {NoTurn}
    /\ turn \in [Messages -> Turn]
    /\ modelLock \in Messages \cup {NoTurn, Other}

\* A message that steers goes into the requests of its turn once, in the order
\* in which the messages came.
SteeringInOrder ==
    \A t \in Messages : LET s == turn[t].applied \o turn[t].pending
                         IN  \A i, k \in DOMAIN s : i < k => s[i] < s[k]

\* "I'll adjust course": a message accepted before the turn has its answer is
\* in one of its requests, unless the turn fails.
SteeringApplied ==
    \A m \in Messages : msg[m].at = "pending" =>
        LET t == turn[msg[m].turn]
        IN  t.failed \/ t.at \notin {"final", "deliver", "done"}

\* Every message that steers a turn is taken into it, once and in its place.
SteeringSound == SteeringInOrder /\ SteeringApplied

\* A turn ends, and so does a message's wait for it.
TurnEnds == \A t \in Messages : turn[t].at = "begin" ~> turn[t].at = "done"

\* "an immediate follow-up can steer this turn instead of starting a second
\* model request": one turn of the chat at a time is with the model.
OneTurn ==
    \A t, u \in Messages :
        turn[t].at \in {"ask", "request", "tools"} /\ turn[u].at \in {"ask", "request", "tools"} => t = u
=============================================================================
