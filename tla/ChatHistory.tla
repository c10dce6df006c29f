---------------------------- MODULE ChatHistory ----------------------------
(* The history of one chat with several threads, shared by all of them: its   *)
(* temporary threads (emery/temporary_mode.py), the summary of its topics     *)
(* into durable memory (summarize_topics_background in emery/memory.py), the  *)
(* scratchpad of each thread (emery/scratchpad.py), and the commands and turns *)
(* of emery/bot.py that append to and clear them.                             *)
EXTENDS Integers, Sequences, FiniteSets, SequencesExt

CONSTANTS
    Threads, Main,   \* threads of the chat, and the one of what names no thread
    MaxSaid,         \* bound: messages of users and reactions
    MaxSwitches,     \* bound: how often /temporary and /clear are used
    MaxNotes,        \* MAX_SCRATCHPAD_NOTES, a bound too
    SummaryEvery,    \* a summary is made of so many new entries (10)
    SummaryWindow    \* and looks at no more than so many (12)

ASSUME HistoryAssumption ==
    /\ Main \in Threads
    /\ {MaxSaid, MaxSwitches, MaxNotes, SummaryEvery, SummaryWindow} \subseteq Nat

VARIABLES
    history,       \* chat_histories: what was said, with whether its thread was temporary then
    temporary,     \* _temporary_scopes
    backups,       \* _temporary_history_backups
    turnsOf,       \* every turn so far: its thread, what it answers, whether it is temporary, where it is
    notes,         \* the scratchpad of each thread: the turns whose notes it has
    summaries,     \* created and not begun, the one under way, and _last_summary_hist_len
    topics,        \* what durable topics were made from
    switches, overlapped

historyVars == <<history, temporary, backups, turnsOf, notes, summaries, topics, switches, overlapped>>

NoSummary == {}

HistoryInit ==
    /\ history = <<>> /\ temporary = {} /\ backups = [t \in Threads |-> <<>>]
    /\ turnsOf = <<>> /\ notes = [t \in Threads |-> {}]
    /\ summaries = [due |-> 0, snippet |-> {}, lastLen |-> 0]
    /\ topics = {} /\ switches = 0 /\ overlapped = FALSE

\* An entry is filed under one thread and was said in one, which may be another.
HistoryEntry(role, filed, t, temp) == [role |-> role, filed |-> filed, thread |-> t, temporary |-> temp]

-----------------------------------------------------------------------------
TurnInHand(t) ==
    \E turn \in Range(turnsOf) : turn.thread = t /\ turn.kind = "message" /\ turn.at \in {"asked", "running"}

\* A message is an entry; it starts a turn, or steers the one that runs.
HandleMessage(t) ==
    /\ Len(turnsOf) < MaxSaid
    /\ history' = Append(history, HistoryEntry("user", t, t, t \in temporary))
    /\ \E at \in {"asked"} \cup IF TurnInHand(t) THEN {"steers"} ELSE {} :
        turnsOf' = Append(turnsOf, [thread |-> t, kind |-> "message", temporary |-> FALSE, at |-> at])
    /\ UNCHANGED <<temporary, backups, notes, summaries, topics, switches, overlapped>>

\* The turn looks at the mode once, when it starts.
TurnStartsIn(k) ==
    /\ turnsOf[k].at = "asked"
    /\ turnsOf' = [turnsOf EXCEPT ![k].at = "running", ![k].temporary = turnsOf[k].thread \in temporary]
    /\ UNCHANGED <<history, temporary, backups, notes, summaries, topics, switches, overlapped>>

\* A reaction to a message of the history is noted, and has a turn unless it takes an emoji away.
\* Its entries name no thread, and what the system says in them is no part of a topic.
HandleReaction(t) ==
    LET temp == t \in temporary IN
    /\ Len(turnsOf) < MaxSaid
    /\ \E entry \in Range(history) : entry.filed = t
    /\ \E turn \in BOOLEAN :
        /\ history' = Append(history, HistoryEntry("user", Main, t, temp)) \o
                      IF turn THEN <<HistoryEntry(IF temp THEN "user" ELSE "system", Main, t, temp)>> ELSE <<>>
        /\ turnsOf' = Append(turnsOf, [thread |-> t, kind |-> "reaction", temporary |-> temp,
                                      at |-> IF turn THEN "running" ELSE "noted"])
    /\ UNCHANGED <<temporary, backups, notes, summaries, topics, switches, overlapped>>

JotDownNote(k) ==
    LET t == turnsOf[k].thread IN
    /\ turnsOf[k].at = "running" /\ ~turnsOf[k].temporary
    /\ t \notin temporary
    /\ Cardinality(notes[t]) < MaxNotes
    /\ notes' = [notes EXCEPT ![t] = @ \cup {k}]
    /\ UNCHANGED <<history, temporary, backups, turnsOf, summaries, topics, switches, overlapped>>

\* Seeded fault: the mode is looked at again.
KeepsNotes_Now(k) == turnsOf[k].thread \in temporary
\* A temporary turn has no notes to clear.
KeepsNotes(k) == turnsOf[k].temporary

\* The entry of a reaction is made before its answer is sent, and nothing is summarised.
ReactionEnds(k) ==
    LET t == turnsOf[k].thread IN
    /\ turnsOf[k].kind = "reaction" /\ turnsOf[k].at = "running"
    /\ history' = Append(history, HistoryEntry("assistant", Main, t, turnsOf[k].temporary))
    /\ turnsOf' = [turnsOf EXCEPT ![k].at = "sending"]
    /\ UNCHANGED <<temporary, backups, notes, summaries, topics, switches, overlapped>>

ReactionSent(k) ==
    /\ turnsOf[k].at = "sending"
    /\ notes' = IF KeepsNotes(k) THEN notes ELSE [notes EXCEPT ![turnsOf[k].thread] = {}]
    /\ turnsOf' = [turnsOf EXCEPT ![k].at = "done"]
    /\ UNCHANGED <<history, temporary, backups, summaries, topics, switches, overlapped>>

TurnEndsIn(k) ==
    LET t == turnsOf[k].thread IN
    /\ turnsOf[k].kind = "message" /\ turnsOf[k].at = "running"
    /\ history' = Append(history, HistoryEntry("assistant", t, t, turnsOf[k].temporary))
    /\ notes' = IF KeepsNotes(k) THEN notes ELSE [notes EXCEPT ![t] = {}]
    /\ turnsOf' = [turnsOf EXCEPT ![k].at = "done"]
    /\ summaries' = IF turnsOf[k].temporary THEN summaries ELSE [summaries EXCEPT !.due = @ + 1]
    /\ UNCHANGED <<temporary, backups, topics, switches, overlapped>>

\* An error of the delivery leaves the turn where it is: no entry, and its notes stay.
TurnRaises(k) ==
    /\ turnsOf[k].at = (IF turnsOf[k].kind = "message" THEN "running" ELSE "sending")
    /\ turnsOf' = [turnsOf EXCEPT ![k].at = "failed"]
    /\ UNCHANGED <<history, temporary, backups, notes, summaries, topics, switches, overlapped>>

-----------------------------------------------------------------------------
OtherThreads(t) ==
    LET kept[n \in 0..Len(history)] ==
            IF n = 0 THEN <<>>
            ELSE IF history[n].filed = t THEN kept[n - 1] ELSE Append(kept[n - 1], history[n])
    IN  kept[Len(history)]

TemporaryOn(t) ==
    /\ switches < MaxSwitches /\ t \notin temporary
    /\ switches' = switches + 1
    /\ backups' = [backups EXCEPT ![t] = history]
    /\ temporary' = temporary \cup {t}
    /\ history' = OtherThreads(t)
    /\ overlapped' = (overlapped \/ temporary # {})
    /\ UNCHANGED <<turnsOf, notes, summaries, topics>>

\* Seeded fault: what was said meanwhile is kept, for the sake of the other threads.
Restored_Added(t) == backups[t] \o history
\* The history is the one of before, for the other threads too.
Restored(t) == backups[t]

TemporaryOff(t) ==
    /\ t \in temporary
    /\ temporary' = temporary \ {t}
    /\ history' = Restored(t)
    /\ backups' = [backups EXCEPT ![t] = <<>>]
    /\ UNCHANGED <<turnsOf, notes, summaries, topics, switches, overlapped>>

\* /clear leaves the backups.
HandleClear ==
    /\ switches < MaxSwitches /\ history # <<>>
    /\ switches' = switches + 1
    /\ history' = <<>>
    /\ UNCHANGED <<temporary, backups, turnsOf, notes, summaries, topics, overlapped>>

ClearScratchpad(t) ==
    /\ notes[t] # {}
    /\ notes' = [notes EXCEPT ![t] = {}]
    /\ UNCHANGED <<history, temporary, backups, turnsOf, summaries, topics, switches, overlapped>>

-----------------------------------------------------------------------------
\* Seeded fault: a chat is temporary when its thread is.
ChatTemporary_Thread(t) == t \in temporary
\* The summary is of the whole chat, so one temporary thread keeps it from being made.
ChatTemporary(t) == temporary # {}

Recent == SubSeq(history, 1 + Max({summaries.lastLen, Len(history) - SummaryWindow}), Len(history))
FromUsers(entries) == {i \in DOMAIN entries : entries[i].role = "user"}

\* The stretch counts as summarised before the model is asked, and one message is no topic.
SummaryBegins(t) ==
    /\ summaries.due > 0
    /\ IF \/ ChatTemporary(t) \/ summaries.snippet # NoSummary
          \/ Len(history) < summaries.lastLen + SummaryEvery
       THEN summaries' = [summaries EXCEPT !.due = @ - 1]
       ELSE summaries' = [due |-> summaries.due - 1, lastLen |-> Len(history),
                          snippet |-> IF Cardinality(FromUsers(Recent)) < 2 THEN NoSummary
                                      ELSE {Recent[i] : i \in FromUsers(Recent)}]
    /\ UNCHANGED <<history, temporary, backups, turnsOf, notes, topics, switches, overlapped>>

\* The fast model answers, or has nothing usable; a chat that became temporary keeps no topic.
SummaryAnswered(t) ==
    /\ summaries.snippet # NoSummary
    /\ \E usable \in BOOLEAN :
        topics' = IF usable /\ ~ChatTemporary(t) THEN topics \cup summaries.snippet ELSE topics
    /\ summaries' = [summaries EXCEPT !.snippet = NoSummary]
    /\ UNCHANGED <<history, temporary, backups, turnsOf, notes, switches, overlapped>>

HistoryNext ==
    \/ \E t \in Threads :
        \/ HandleMessage(t) \/ TemporaryOn(t) \/ TemporaryOff(t) \/ HandleReaction(t) \/ ClearScratchpad(t)
        \/ SummaryBegins(t) \/ SummaryAnswered(t)
    \/ \E k \in DOMAIN turnsOf :
        \/ TurnStartsIn(k) \/ JotDownNote(k) \/ TurnEndsIn(k) \/ TurnRaises(k)
        \/ ReactionEnds(k) \/ ReactionSent(k)
    \/ HandleClear

HistorySpec == HistoryInit /\ [][HistoryNext]_historyVars

-----------------------------------------------------------------------------
(* Properties *)

\* What a user says in a temporary thread becomes no durable topic and is gone from the history
\* when the thread is temporary no more; a note outlives no turn that ended well.  The first does
\* not hold where two threads of the chat were temporary at once: the later one's backup has what
\* was said in the other.
TemporaryLeavesNothing ==
    /\ ~overlapped =>
        /\ \A entry \in topics : ~entry.temporary
        /\ \A entry \in Range(history) :
            entry.temporary /\ entry.role # "assistant" => entry.thread \in temporary
    /\ \A t \in Threads : \A k \in notes[t] : turnsOf[k].at # "done"
=============================================================================
