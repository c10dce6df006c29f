----------------------------- MODULE ModelStream -----------------------------
(* The streamed requests of one turn to the main model (emery/engine.py): the  *)
(* reader of the stream, the task that ends the reasoning for a message that   *)
(* steers (_monitor_llama_steering), the task that summarises the reasoning    *)
(* while it goes on (_run_live_reasoning_summaries), and the one repetition    *)
(* without streaming.  What is done with a response is in TurnSteering and     *)
(* ToolTurn, what the status shows of an event in StatusStack.                 *)
EXTENDS Naturals, Sequences, FiniteSets

CONSTANTS
    MaxStreams,    \* bound: requests of the turn
    MaxPieces,     \* bound: chunks of a stream
    MaxSteers,     \* bound: messages that steer
    MaxSummaries   \* bound: live summaries of a request

ASSUME StreamAssumption == {MaxStreams, MaxPieces, MaxSteers, MaxSummaries} \subseteq Nat

VARIABLES
    request,      \* the request under way, and what its response holds so far
    steering,    \* ActiveTurnState: queued messages, its events, the completion and its flags
    monitor,     \* control_task: where it stands and the request it was made for
    summarizer,  \* reasoning_summary_task: where it stands, the request, the summaries it made
    controls,    \* what was posted to the control endpoint: the completion, and the request then streaming
    shown        \* the events of the turn in the order of on_event

streamVars == <<request, steering, monitor, summarizer, controls, shown>>

NoCompletion == 0
NoTask == [at |-> "none", for |-> 0]
NoSummarizer == [at |-> "none", for |-> 0, made |-> 0]

\* at between: a pass of the loop begins or tools run; opening, reading, closing (the monitor
\* is being cancelled), ending (the summarizer is), plain (the request without streaming),
\* response: the model has answered.
StreamInit ==
    /\ request = [at |-> "between", n |-> 0, pieces |-> 0, seen |-> FALSE, broken |-> FALSE,
                  reasoning |-> FALSE, preamble |-> "none", streamed |-> TRUE, repeats |-> FALSE]
    /\ steering = [pending |-> 0, event |-> FALSE, idEvent |-> FALSE, id |-> NoCompletion, sent |-> FALSE, active |-> FALSE, total |-> 0]
    /\ monitor = NoTask /\ summarizer = NoSummarizer
    /\ controls = {} /\ shown = <<>>

\* _emit_engine_event; what a callback raises is logged.
Emits(kind, n) == shown' = Append(shown, [kind |-> kind, of |-> n])

-----------------------------------------------------------------------------
\* The user adds to the request of a turn that has not ended.
MessageSteers ==
    /\ request.at \notin {"over"} /\ steering.total < MaxSteers
    /\ steering' = [steering EXCEPT !.pending = @ + 1, !.event = TRUE, !.total = @ + 1]
    /\ UNCHANGED <<request, monitor, summarizer, controls, shown>>

\* Seeded fault: the completion of the last stream is not forgotten.
Unsteered_Keeps(s) == [s EXCEPT !.idEvent = FALSE, !.sent = FALSE, !.active = TRUE]
\* What a stream starts from: no completion is known and no control was sent.
Unsteered(s) == [s EXCEPT !.id = NoCompletion, !.idEvent = FALSE, !.sent = FALSE, !.active = TRUE]

\* _consume_steering_messages takes what is queued into the request.
Consumes(s) == [s EXCEPT !.pending = 0, !.event = FALSE]

StreamStarts ==
    /\ request.at = "between" /\ request.n < MaxStreams /\ request.streamed
    /\ request' = [request EXCEPT !.at = "opening", !.n = @ + 1, !.pieces = 0, !.seen = FALSE, !.broken = FALSE,
                                !.reasoning = FALSE, !.preamble = "none"]
    /\ steering' = Unsteered(Consumes(steering))
    /\ monitor' = [at |-> "waiting", for |-> request.n + 1]
    /\ Emits("prefill", request.n + 1)
    /\ UNCHANGED <<summarizer, controls>>

\* After a repetition the turn goes on without streams.
PlainStarts ==
    /\ request.at = "between" /\ request.n < MaxStreams /\ ~request.streamed
    /\ request' = [request EXCEPT !.at = "plain", !.n = @ + 1, !.seen = FALSE, !.reasoning = FALSE]
    /\ steering' = Consumes(steering)
    /\ UNCHANGED <<monitor, summarizer, controls, shown>>

StreamOpens ==
    /\ request.at = "opening"
    /\ request' = [request EXCEPT !.at = "reading"]
    /\ UNCHANGED <<steering, monitor, summarizer, controls, shown>>

\* The finally clause: the flag goes down and whoever waits for a completion is woken.
Lowered(s) == [s EXCEPT !.active = FALSE, !.idEvent = TRUE]

Closes(isBroken) ==
    /\ request' = [request EXCEPT !.at = "closing", !.broken = isBroken]
    /\ steering' = Lowered(steering)
    /\ UNCHANGED <<monitor, summarizer, controls, shown>>

\* Another status than 200, or no connection.
StreamRefused == request.at = "opening" /\ Closes(TRUE)
\* [DONE], or an end without it; or an exception while reading.
ReaderEnds == request.at = "reading" /\ \E isBroken \in BOOLEAN : Closes(isBroken)

-----------------------------------------------------------------------------
(* Chunks *)

\* A chunk is one that was parsed; the first that names its completion does so for the stream.
Reads(withId) ==
    /\ request.at = "reading" /\ request.pieces < MaxPieces
    /\ steering' = IF withId /\ steering.id = NoCompletion THEN [steering EXCEPT !.id = request.n, !.idEvent = TRUE] ELSE steering

Piece(s) == [s EXCEPT !.pieces = @ + 1, !.seen = TRUE]

\* A new percentage of the prompt, or a chunk with nothing to show.
PrefillShown(withId) ==
    /\ Reads(withId)
    /\ request' = Piece(request)
    /\ Emits("progress", request.n)
    /\ UNCHANGED <<monitor, summarizer, controls>>

\* start_reasoning_phase, once a stream.
ReasoningComes(withId) ==
    /\ Reads(withId)
    /\ request' = [Piece(request) EXCEPT !.reasoning = TRUE]
    /\ IF request.reasoning THEN UNCHANGED <<summarizer, shown>>
       ELSE /\ Emits("reasoning", request.n)
            /\ summarizer' = [at |-> "sleeping", for |-> request.n, made |-> 0]
    /\ UNCHANGED <<monitor, controls>>

\* Text, with a <progress> note perhaps, which is kept until a tool call follows.
ContentComes(withId) ==
    /\ Reads(withId)
    /\ \E tagged \in BOOLEAN :
         request' = [Piece(request) EXCEPT !.preamble = IF tagged /\ @ = "none" THEN "kept" ELSE @]
    /\ UNCHANGED <<monitor, summarizer, controls, shown>>

\* A fragment of a tool call is added to its call; nothing runs before the stream has ended.
FragmentComes(withId) ==
    /\ Reads(withId)
    /\ request' = [Piece(request) EXCEPT !.preamble = IF @ = "kept" THEN "shown" ELSE @]
    /\ IF request.preamble = "kept" THEN Emits("preamble", request.n) ELSE UNCHANGED shown
    /\ UNCHANGED <<monitor, summarizer, controls>>

-----------------------------------------------------------------------------
(* The two tasks beside the reader *)

\* _send_llama_reasoning_end is called with the completion of the stream.
Posts ==
    /\ monitor' = [monitor EXCEPT !.at = "posting"]
    /\ controls' = controls \cup {[id |-> steering.id, during |-> IF steering.active THEN request.n ELSE 0]}

\* Woken by a message.  It leaves when the stream is over, and stays for another when the
\* control has been sent.
MonitorWakes ==
    /\ monitor.at = "waiting" /\ steering.event
    /\ \/ ~steering.active /\ monitor' = NoTask /\ steering' = [steering EXCEPT !.event = FALSE] /\ UNCHANGED controls
       \/ steering.active /\ steering.sent /\ steering' = [steering EXCEPT !.event = FALSE] /\ UNCHANGED <<monitor, controls>>
       \/ /\ steering.active /\ ~steering.sent /\ steering.id = NoCompletion
          /\ steering' = [steering EXCEPT !.event = FALSE]
          /\ monitor' = [monitor EXCEPT !.at = "waiting_id"] /\ UNCHANGED controls
       \/ /\ steering.active /\ ~steering.sent /\ steering.id # NoCompletion
          /\ steering' = [steering EXCEPT !.event = FALSE, !.sent = TRUE]
          /\ Posts
    /\ UNCHANGED <<request, summarizer, shown>>

MonitorHasId ==
    /\ monitor.at = "waiting_id" /\ steering.idEvent
    /\ IF steering.active /\ steering.id # NoCompletion
       THEN steering' = [steering EXCEPT !.sent = TRUE] /\ Posts
       ELSE monitor' = NoTask /\ UNCHANGED <<steering, controls>>
    /\ UNCHANGED <<request, summarizer, shown>>

\* steering_applied or steering_deferred
ControlAnswered ==
    /\ monitor.at = "posting"
    /\ monitor' = [monitor EXCEPT !.at = "waiting"]
    /\ \E kind \in {"applied", "deferred"} : Emits(kind, monitor.for)
    /\ UNCHANGED <<request, steering, summarizer, controls>>

\* Every five seconds, if there was reasoning in them.
SummaryDue ==
    /\ summarizer.at = "sleeping" /\ summarizer.made < MaxSummaries
    /\ summarizer' = [summarizer EXCEPT !.at = "asking"]
    /\ UNCHANGED <<request, steering, monitor, controls, shown>>

\* The small model answers, or it says nothing.
SummaryComes ==
    /\ summarizer.at = "asking"
    /\ summarizer' = [summarizer EXCEPT !.at = "sleeping", !.made = @ + 1]
    /\ \/ Emits("live", summarizer.for)
       \/ UNCHANGED shown
    /\ UNCHANGED <<request, steering, monitor, controls>>

-----------------------------------------------------------------------------
(* The end of a stream *)

\* Seeded fault: the monitor is left to see for itself that the stream is over.
TaskEnded_Alone(task) == task
\* A task is cancelled and waited for, wherever it stands.
TaskEnded(task) == NoTask

MonitorCancelled ==
    /\ request.at = "closing"
    /\ monitor' = TaskEnded(monitor)
    /\ request' = [request EXCEPT !.at = "ending"]
    /\ UNCHANGED <<steering, summarizer, controls, shown>>

\* Seeded fault: only a summarizer that sleeps is cancelled.
Silenced_Asleep(task) == IF task.at = "asking" THEN task ELSE NoSummarizer
Silenced(task) == NoSummarizer

\* Seeded fault: every stream that fails is repeated.
Repeatable_Any(s) == s.broken \/ ~s.seen
\* A stream without any event may be repeated; its error says so.
Repeatable(s) == ~s.seen

SummarizerCancelled ==
    /\ request.at = "ending"
    /\ summarizer' = Silenced(summarizer)
    /\ \/ /\ Repeatable(request)
          /\ request' = [request EXCEPT !.at = "plain", !.streamed = FALSE, !.repeats = @ \/ request.seen, !.reasoning = FALSE]
          /\ UNCHANGED shown
       \/ /\ ~Repeatable(request) /\ request.broken
          /\ request' = [request EXCEPT !.at = "over"]
          /\ Emits("error", request.n)
       \/ /\ ~Repeatable(request) /\ ~request.broken
          /\ request' = [request EXCEPT !.at = "response"]
          /\ UNCHANGED shown
    /\ UNCHANGED <<steering, monitor, controls>>

PlainAnswered ==
    /\ request.at = "plain"
    /\ \/ \E reasoned \in BOOLEAN : request' = [request EXCEPT !.at = "response", !.reasoning = reasoned]
       \/ request' = [request EXCEPT !.at = "over"]
    /\ UNCHANGED <<steering, monitor, summarizer, controls, shown>>

\* The reasoning of the response is summarised, and the turn goes on with its tools and
\* the next pass, or with its answer.
ResponseHandled ==
    /\ request.at = "response"
    /\ IF request.reasoning THEN Emits("final", request.n) ELSE UNCHANGED shown
    /\ \E at \in {"between", "over"} : request' = [request EXCEPT !.at = at]
    /\ UNCHANGED <<steering, monitor, summarizer, controls>>

StreamNext ==
    \/ MessageSteers \/ StreamStarts \/ PlainStarts \/ StreamOpens \/ StreamRefused \/ ReaderEnds
    \/ \E withId \in BOOLEAN : PrefillShown(withId) \/ ReasoningComes(withId) \/ ContentComes(withId) \/ FragmentComes(withId)
    \/ MonitorWakes \/ MonitorHasId \/ ControlAnswered \/ SummaryDue \/ SummaryComes
    \/ MonitorCancelled \/ SummarizerCancelled \/ PlainAnswered \/ ResponseHandled

StreamSpec == StreamInit /\ [][StreamNext]_streamVars

-----------------------------------------------------------------------------
(* Properties *)

\* The reasoning is cut short only for the completion that streams: a control names the
\* request it is posted in, and a request has one at most.
ControlsAimed ==
    /\ \A c \in controls : c.id = c.during
    /\ monitor.at = "posting" => monitor.for = request.n /\ steering.pending > 0

\* What is shown follows the requests: nothing of a stream comes after its response was
\* dealt with or after its error, a live summary only after its reasoning began, and a
\* stream says once that it begins, reasons, and calls tools.
ShownInOrder ==
    /\ \A i \in 1..(Len(shown) - 1) : shown[i].of <= shown[i + 1].of
    /\ \A i, j \in DOMAIN shown : shown[i].of = shown[j].of =>
         /\ i < j => shown[i].kind \notin {"final", "error"}
         /\ shown[i].kind = shown[j].kind /\ i # j => shown[i].kind \in {"progress", "live"}
    /\ \A j \in DOMAIN shown : shown[j].kind = "live" =>
         \E i \in 1..(j - 1) : shown[i] = [kind |-> "reasoning", of |-> shown[j].of]

\* No task of a stream is left when the turn goes on, and a request is repeated only if
\* nothing of it had arrived.
StreamLeavesNothing ==
    /\ request.at \in {"between", "plain", "response", "over"} => monitor.at = "none" /\ summarizer.at = "none"
    /\ ~request.repeats

\* A stream, its monitor and its summarizer together.
StreamsSound == ControlsAimed /\ ShownInOrder /\ StreamLeavesNothing
=============================================================================
