----------------------------- MODULE StatusStack -----------------------------
(***************************************************************************)
(* The live status messages of a chat (PersistentStatusStack and           *)
(* TelegramLiveProgress in emery/telegram_delivery.py), the turns of       *)
(* emery/bot.py that show and remove them, the approval prompt of          *)
(* emery/command_approval.py inside them, and the user messages that move  *)
(* them to the end of the chat.                                            *)
(*                                                                         *)
(* The operations of a stack hold its lock and are one step each.  Each of *)
(* their calls of Telegram may fail, with or without having an effect; an  *)
(* operation maps a state to the set of states it may end in.  The post    *)
(* number n is the n-th message sent.                                      *)
(***************************************************************************)
EXTENDS Naturals, Sequences, FiniteSets

CONSTANTS
    MaxTurns,      \* bound: turns of the chat
    MaxRefreshes,  \* bound: user messages that come while a stack is shown
    MaxPosts,      \* bound: no step begins once so many messages were sent
    MaxFaults      \* bound: calls of Telegram that fail

ASSUME StatusAssumption == MaxTurns \in Nat /\ MaxRefreshes \in Nat /\ MaxPosts \in Nat /\ MaxFaults \in Nat

VARIABLES
    stacks,     \* PersistentStatusStack objects, in the order they were made
    posts,      \* the messages sent: what they show, whether they are gone, or beyond Emery's reach
    faults,     \* calls that failed
    current,      \* persistent_status_messages[key], 0 for none
    controller, \* persistent_status_controllers[key], 0 for none
    chatTurn,   \* the turns: where they are, their stack, whether the full summary is shown
    refresh,    \* _refresh_persistent_status of a user message, the stack it found, and how many came
    prompt,     \* the approval request, the stack it is shown in, and whether another turn ended that stack
    revived     \* stacks a user message touched, or a failed answer kept, after they had left the chat's entry

statusVars == <<stacks, posts, faults, current, controller, chatTurn, refresh, prompt, revived>>

SlotOrder == <<"reasoning", "tool", "environment">>
Slots == {"reasoning", "tool", "environment"}
Turns == 1..MaxTurns
NoMessage == [id |-> 0, off |-> FALSE, text |-> "none", markup |-> FALSE]
NewStack == [message |-> [s \in Slots |-> NoMessage], tool |-> FALSE, environment |-> FALSE,
             approval |-> FALSE, atBottom |-> TRUE]

StatusInit ==
    /\ stacks = <<>> /\ posts = <<>> /\ faults = 0 /\ current = 0 /\ controller = 0 /\ revived = {}
    /\ chatTurn = [t \in Turns |-> [at |-> "none", stack |-> 0, summed |-> FALSE]]
    /\ refresh = [at |-> "none", stack |-> 0, seen |-> 0]
    /\ prompt = [stack |-> 0, disturbed |-> FALSE]

-----------------------------------------------------------------------------
(* One message: TelegramLiveProgress.  w is a world: a stack and all posts. *)

World(k) == [stack |-> stacks[k], posts |-> posts, faults |-> faults]
Then(ws, Op(_)) == UNION {Op(w) : w \in ws}
Outcomes(w) == {"ok"} \cup (IF w.faults < MaxFaults THEN {"refused", "lost"} ELSE {})
After(w, o) == [w EXCEPT !.faults = @ + (IF o = "ok" THEN 0 ELSE 1)]
StatusPost(slot, text, markup, lost) == [slot |-> slot, text |-> text, markup |-> markup, gone |-> FALSE, lost |-> lost]
Off(w, slot) == [w EXCEPT !.stack.message[slot].off = TRUE]

\* A deletion that fails is let be.
Deleted(w, id) ==
    {[w EXCEPT !.posts[id].gone = TRUE]} \cup
    (IF w.faults < MaxFaults THEN {[After(w, "lost") EXCEPT !.posts[id].lost = TRUE]} ELSE {})

\* send_message: a refused one switches the message off, a lost one is in the chat as well.
SentMessage(w, slot, text, markup) ==
    {CASE o = "ok" -> [w EXCEPT !.posts = Append(@, StatusPost(slot, text, markup, FALSE)),
                                !.stack.message[slot] = [@ EXCEPT !.id = Len(w.posts) + 1, !.text = text]]
       [] o = "lost" -> Off([After(w, o) EXCEPT !.posts = Append(@, StatusPost(slot, text, markup, TRUE))], slot)
       [] OTHER -> Off(After(w, o), slot) : o \in Outcomes(w)}

EditedMessage(w, slot, text, markup) ==
    {LET edited == [w.posts EXCEPT ![w.stack.message[slot].id] = [@ EXCEPT !.text = text, !.markup = markup]] IN
     CASE o = "ok" -> [w EXCEPT !.posts = edited, !.stack.message[slot].text = text]
       [] o = "lost" -> Off([After(w, o) EXCEPT !.posts = edited], slot)
       [] OTHER -> Off(After(w, o), slot) : o \in Outcomes(w)}

Updated(w, slot, text, markup) ==
    LET marked == [w EXCEPT !.stack.message[slot].markup = markup] IN
    IF w.stack.message[slot].off THEN {w}
    ELSE IF w.stack.message[slot].id = 0 THEN SentMessage(marked, slot, text, markup)
    ELSE EditedMessage(marked, slot, text, markup)

\* Seeded fault: the message goes on being known by its old place.
NewPlace_Old(w, slot, old) == {[x EXCEPT !.stack.message[slot].id = old] : x \in Deleted(w, old)}

\* The new message is known before the old one is deleted.
NewPlace(w, slot, old) == Deleted(w, old)

\* repost_at_bottom
Reposted(w, slot) ==
    LET m == w.stack.message[slot] IN
    IF m.off \/ m.id = 0 THEN {w}
    ELSE Then(SentMessage(w, slot, m.text, m.markup),
              LAMBDA x : IF x.stack.message[slot].off THEN {x} ELSE NewPlace(x, slot, m.id))

\* refresh_in_place
Refreshed(w, slot) ==
    LET m == w.stack.message[slot] IN
    IF m.off \/ m.id = 0 THEN {w} ELSE EditedMessage(w, slot, m.text, m.markup)

\* close: a message that was switched off stays so.
ClosedMessage(w, slot) ==
    LET m == w.stack.message[slot] IN
    IF m.id = 0 THEN {w} ELSE Deleted([w EXCEPT !.stack.message[slot] = [NoMessage EXCEPT !.off = m.off]], m.id)

-----------------------------------------------------------------------------
(* The stack: PersistentStatusStack *)

SlotBySlot(w, Op(_, _)) ==
    Then(Then(Op(w, "reasoning"), LAMBDA x : Op(x, "tool")), LAMBDA x : Op(x, "environment"))

Disabled(st) == \E s \in Slots : st.message[s].off

Visible(st, slot) ==
    CASE slot = "reasoning" -> TRUE
      [] slot = "tool" -> st.tool
      [] slot = "environment" -> st.approval \/ st.environment

\* Seeded fault: what the terminal shows replaces the question.
Rendered_Base(st, slot) == IF slot = "environment" /\ ~st.environment THEN "prompt" ELSE "status"

\* _render_slot: an open question covers what the terminal or browser shows.
Rendered(st, slot) == IF slot = "environment" /\ st.approval THEN "prompt" ELSE "status"

\* _reply_markup_for
Marked(st, slot) == slot = "environment" /\ st.approval

Show(w, slot) == Updated(w, slot, Rendered(w.stack, slot), Marked(w.stack, slot))

\* _ensure_messages_locked
Ensured(w) == SlotBySlot(w, LAMBDA x, slot :
    IF ~Visible(x.stack, slot) THEN ClosedMessage(x, slot)
    ELSE IF x.stack.message[slot].id # 0 THEN {x} ELSE Show(x, slot))

\* _repost_locked
RepostedAll(w) == {[x EXCEPT !.stack.atBottom = TRUE] : x \in SlotBySlot(w, Reposted)}

Shows(w, slot) == IF Visible(w.stack, slot) THEN Show(w, slot) ELSE {w}

\* set_slot, after the slot's value was set
SlotSet(w, slot) ==
    Then(Then(Ensured(w), LAMBDA x : IF x.stack.atBottom THEN {x} ELSE RepostedAll(x)), LAMBDA x : Shows(x, slot))

\* clear_approval, and clear_slots of a turn that has its answer
ApprovalCleared(w) ==
    Then(Ensured([w EXCEPT !.stack.approval = FALSE]), LAMBDA x : Shows(x, "environment"))

\* bring_to_bottom
Brought(w) ==
    Then(Ensured(w), LAMBDA x : IF x.stack.atBottom THEN SlotBySlot(x, Refreshed) ELSE RepostedAll(x))

\* close(preserve_slots)
Shut(w, kept) == SlotBySlot(w, LAMBDA x, slot : IF slot \in kept THEN {x} ELSE ClosedMessage(x, slot))

-----------------------------------------------------------------------------
(* Turns *)

Room == Len(posts) < MaxPosts
Becomes(k, ws) == \E w \in ws : stacks' = [stacks EXCEPT ![k] = w.stack] /\ posts' = w.posts /\ faults' = w.faults
InEngine(t) == Room /\ chatTurn[t].at = "engine"
StackOf(t) == chatTurn[t].stack
Same == UNCHANGED <<current, controller, chatTurn, refresh, prompt, revived>>

\* run_engine_for_chat: a stack that failed is closed and replaced, a healthy one goes on.
TurnBegins(t) ==
    LET retires == current # 0 /\ Disabled(stacks[current])
        k == IF current = 0 \/ retires THEN Len(stacks) + 1 ELSE current
        before == IF retires THEN Shut(World(current), {}) ELSE {[stack |-> NewStack, posts |-> posts, faults |-> faults]} IN
    /\ Room /\ chatTurn[t].at = "none" /\ \A u \in Turns : chatTurn[u].at # "engine" /\ (u < t => chatTurn[u].at # "none")
    /\ \E w \in before : \E x \in Ensured([w EXCEPT !.stack = IF k = current THEN stacks[k] ELSE NewStack]) :
        /\ stacks' = IF retires THEN Append([stacks EXCEPT ![current] = w.stack], x.stack)
                     ELSE IF current = 0 THEN Append(stacks, x.stack) ELSE [stacks EXCEPT ![k] = x.stack]
        /\ posts' = x.posts /\ faults' = x.faults
    /\ current' = k /\ controller' = k
    /\ chatTurn' = [chatTurn EXCEPT ![t] = [@ EXCEPT !.at = "engine", !.stack = k]]
    /\ UNCHANGED <<refresh, prompt, revived>>

ReasoningShown(t) == InEngine(t) /\ Becomes(StackOf(t), SlotSet(World(StackOf(t)), "reasoning")) /\ Same

\* tool_started: the tool, and what the terminal or the browser does.
ToolStarted(t) ==
    LET w == [World(StackOf(t)) EXCEPT !.stack.tool = TRUE] IN
    /\ InEngine(t) /\ prompt.stack = 0
    /\ \E environment \in BOOLEAN :
        Becomes(StackOf(t), IF environment
                            THEN Then(SlotSet(w, "tool"), LAMBDA x : SlotSet([x EXCEPT !.stack.environment = TRUE], "environment"))
                            ELSE SlotSet(w, "tool"))
    /\ Same

\* tool_finished of a tool that needed no approval while another one waits for it, or of the last one.
ToolFinished(t) ==
    LET w == World(StackOf(t)) IN
    /\ InEngine(t) /\ w.stack.tool
    /\ \E browser \in BOOLEAN :
        Becomes(StackOf(t), IF browser
                            THEN Then(SlotSet([w EXCEPT !.stack.environment = TRUE], "environment"), Brought)
                            ELSE Brought(w))
    /\ Same

\* The summary of the full turn: the other messages are closed; showing it makes them again.
TurnSummed(t) ==
    /\ InEngine(t) /\ prompt.stack = 0 /\ ~chatTurn[t].summed
    /\ Becomes(StackOf(t), Then(Shut(World(StackOf(t)), {"reasoning"}), LAMBDA x : SlotSet(x, "reasoning")))
    /\ chatTurn' = [chatTurn EXCEPT ![t].summed = TRUE]
    /\ UNCHANGED <<current, controller, refresh, prompt, revived>>

\* request_command_approval: a stack that cannot show the question makes it unavailable.
ApprovalAsked(t) ==
    /\ InEngine(t) /\ stacks[StackOf(t)].tool /\ prompt.stack = 0 /\ controller # 0 /\ ~chatTurn[t].summed
    /\ \E w \in SlotSet([World(controller) EXCEPT !.stack.approval = TRUE], "environment") :
        /\ stacks' = [stacks EXCEPT ![controller] = w.stack] /\ posts' = w.posts /\ faults' = w.faults
        /\ prompt' = IF Disabled(w.stack) THEN prompt ELSE [stack |-> controller, disturbed |-> FALSE]
    /\ UNCHANGED <<current, controller, chatTurn, refresh, revived>>

\* Answered or expired.
ApprovalOver ==
    /\ Room /\ prompt.stack # 0
    /\ Becomes(prompt.stack, ApprovalCleared(World(prompt.stack)))
    /\ prompt' = [stack |-> 0, disturbed |-> FALSE]
    /\ UNCHANGED <<current, controller, chatTurn, refresh, revived>>

EngineEnds(t) ==
    /\ chatTurn[t].at = "engine" /\ prompt.stack = 0
    /\ chatTurn' = [chatTurn EXCEPT ![t].at = "answer"]
    /\ controller' = IF controller = StackOf(t) THEN 0 ELSE controller
    /\ UNCHANGED <<stacks, posts, faults, current, refresh, prompt, revived>>

\* The question of the next turn is in a stack that this turn ends.
Disturbed(t) == [prompt EXCEPT !.disturbed = @ \/ prompt.stack = StackOf(t)]

\* clear_completed_status; a silent turn is not moved to the end of the chat.
StatusCompleted(t) ==
    /\ Room /\ chatTurn[t].at = "answer"
    /\ \E silent \in BOOLEAN :
        /\ Becomes(StackOf(t), IF silent THEN ApprovalCleared(World(StackOf(t)))
                               ELSE Then(ApprovalCleared(World(StackOf(t))), Brought))
        /\ chatTurn' = [chatTurn EXCEPT ![t] = [@ EXCEPT !.at = "deliver", !.summed = chatTurn[t].summed /\ ~silent]]
    /\ prompt' = Disturbed(t)
    /\ UNCHANGED <<current, controller, refresh, revived>>

\* close_completed_status; when the answer cannot be sent the stack stays for the next turn.
StatusClosed(t) ==
    /\ chatTurn[t].at = "deliver"
    /\ chatTurn' = [chatTurn EXCEPT ![t].at = "done"]
    /\ \/ /\ Becomes(StackOf(t), Shut(World(StackOf(t)), IF chatTurn[t].summed THEN {"reasoning"} ELSE {}))
          /\ current' = IF current = StackOf(t) THEN 0 ELSE current
          /\ prompt' = Disturbed(t)
          /\ UNCHANGED revived
       \/ /\ revived' = IF current = StackOf(t) THEN revived ELSE revived \cup {StackOf(t)}
          /\ UNCHANGED <<stacks, posts, faults, current, prompt>>
    /\ UNCHANGED <<controller, refresh>>

-----------------------------------------------------------------------------
(* A user message: the stack is looked up once and used twice *)

RefreshFinds ==
    /\ refresh.at = "none" /\ refresh.seen < MaxRefreshes /\ current # 0
    /\ refresh' = [at |-> "found", stack |-> current, seen |-> refresh.seen + 1]
    /\ UNCHANGED <<stacks, posts, faults, current, controller, chatTurn, prompt, revived>>

\* note_newer_message
RefreshNotes ==
    /\ refresh.at = "found" /\ refresh' = [refresh EXCEPT !.at = "noted"]
    /\ stacks' = IF \E s \in Slots : stacks[refresh.stack].message[s].id # 0
                 THEN [stacks EXCEPT ![refresh.stack].atBottom = FALSE] ELSE stacks
    /\ UNCHANGED <<posts, faults, current, controller, chatTurn, prompt, revived>>

RefreshBrings ==
    /\ Room /\ refresh.at = "noted" /\ refresh' = [refresh EXCEPT !.at = "none"]
    /\ Becomes(refresh.stack, Brought(World(refresh.stack)))
    /\ revived' = IF refresh.stack = current THEN revived ELSE revived \cup {refresh.stack}
    /\ UNCHANGED <<current, controller, chatTurn, prompt>>

-----------------------------------------------------------------------------

StatusNext ==
    \/ \E t \in Turns :
        \/ TurnBegins(t) \/ ReasoningShown(t) \/ ToolStarted(t) \/ ToolFinished(t) \/ TurnSummed(t)
        \/ ApprovalAsked(t) \/ EngineEnds(t) \/ StatusCompleted(t) \/ StatusClosed(t)
    \/ ApprovalOver
    \/ RefreshFinds \/ RefreshNotes \/ RefreshBrings

StatusSpec == StatusInit /\ [][StatusNext]_statusVars

-----------------------------------------------------------------------------
(* Properties *)

\* While an approval is waited for, its question and its buttons are in the chat: no output
\* of a terminal, no summary, repost or refresh covers it.  Where it can fail: a call of Telegram
\* that fails switches the stack off, and a turn that is over ends the stack it shares with the next.
PromptStands ==
    prompt.stack # 0 /\ ~prompt.disturbed /\ ~Disabled(stacks[prompt.stack]) =>
        LET id == stacks[prompt.stack].message["environment"].id IN
        id # 0 /\ posts[id].text = "prompt" /\ posts[id].markup /\ ~posts[id].gone

\* A healthy block reads reasoning, tool, environment from top to bottom.
BlockInOrder ==
    \A k \in DOMAIN stacks : \A i, j \in 1..3 :
        LET id(n) == stacks[k].message[SlotOrder[n]].id IN
        ~Disabled(stacks[k]) /\ i < j /\ id(i) # 0 /\ id(j) # 0 => id(i) < id(j)

InUse(k) == k = current \/ \E t \in Turns : chatTurn[t].stack = k /\ chatTurn[t].at \in {"engine", "answer", "deliver"}

\* No status message is left in the chat for good: what is there is known to a stack that a turn
\* will close, or is the summary of a finished turn, unless a call of Telegram failed, a user
\* message touched the stack as it left, or an answer of a turn whose stack was replaced was not sent.
NothingLeft ==
    \A id \in DOMAIN posts : posts[id].gone \/ posts[id].lost \/
        \E k \in DOMAIN stacks :
            /\ stacks[k].message[posts[id].slot].id = id
            /\ InUse(k) \/ k \in revived \/ posts[id].slot = "reasoning"

\* All three.
StatusSound == PromptStands /\ BlockInOrder /\ NothingLeft
=============================================================================
