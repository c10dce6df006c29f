----------------------------- MODULE Heartbeat -----------------------------
(* The heartbeat of a chat (emery/bot.py, heartbeat_check and what it calls): *)
(* a job that runs now and then and, when the chat has been silent for long,  *)
(* lets the model decide whether to write something. The job queue runs one   *)
(* check at a time. Time is counted in hours; an hour of 0 is "never".        *)
EXTENDS Naturals, Sequences, FiniteSets

CONSTANTS
    DayLength,          \* hours of a day
    SleepHours,         \* HEARTBEAT_SLEEP_START .. HEARTBEAT_SLEEP_END, hours of a day
    SilenceThreshold,   \* HEARTBEAT_SILENCE_THRESHOLD_SECONDS
    ProactiveCooldown,  \* HEARTBEAT_PROACTIVE_COOLDOWN_SECONDS
    SilentRetry,        \* HEARTBEAT_SILENT_RETRY_SECONDS
    DailyLimit,         \* HEARTBEAT_DAILY_PROACTIVE_LIMIT; 0 is no limit
    MaxHours,           \* bound: the time that passes
    MaxModes            \* bound: times the chat enters temporary mode

ASSUME HeartbeatAssumption ==
    /\ {SilenceThreshold, ProactiveCooldown, SilentRetry, DailyLimit, MaxHours, MaxModes} \subseteq Nat
    /\ DayLength \in Nat \ {0} /\ SleepHours \subseteq 0 .. DayLength - 1

VARIABLES
    hour,       \* the clock; the first day begins at DayLength
    lastHeard,  \* the time of the last message of the history that is no trigger, 0 if there is none
    chatMode,   \* whether the chat is in temporary mode, how often it was, and lastHeard before it
    check,      \* the check in hand: idle, or how far it has come
    counted,    \* _heartbeat_daily_proactive_counts, _heartbeat_last_proactive, _heartbeat_last_evaluation
    proactive   \* the times of the messages the heartbeat has sent and recorded

heartbeatVars == <<hour, lastHeard, chatMode, check, counted, proactive>>

Day(h) == h \div DayLength

HeartbeatInit ==
    /\ hour = DayLength /\ lastHeard = 0
    /\ chatMode = [temporary |-> FALSE, count |-> 0, kept |-> 0]
    /\ check = "idle"
    /\ counted = [day |-> 0, count |-> 0, message |-> 0, evaluation |-> 0]
    /\ proactive = <<>>

HourPasses ==
    /\ hour < MaxHours
    /\ hour' = hour + 1
    /\ UNCHANGED <<lastHeard, chatMode, check, counted, proactive>>

\* Somebody writes, or the bot answers; in temporary mode as well.
ChatSpeaks ==
    /\ lastHeard' = hour
    /\ UNCHANGED <<hour, chatMode, check, counted, proactive>>

\* /clear
ChatCleared ==
    /\ lastHeard' = 0
    /\ UNCHANGED <<hour, chatMode, check, counted, proactive>>

\* The history of before is put back when the mode ends; meanwhile the heartbeat does not look at it.
ModeSwitches ==
    /\ IF chatMode.temporary
         THEN chatMode' = [chatMode EXCEPT !.temporary = FALSE] /\ lastHeard' = chatMode.kept
         ELSE /\ chatMode.count < MaxModes /\ UNCHANGED lastHeard
              /\ chatMode' = [temporary |-> TRUE, count |-> chatMode.count + 1, kept |-> lastHeard]
    /\ UNCHANGED <<hour, check, counted, proactive>>

-----------------------------------------------------------------------------
(* The counts *)

\* Seeded fault: the count begins anew whenever it is read.
DailyCount_Anew(c, now) == [c EXCEPT !.day = Day(now), !.count = 0]
\* A count of another day is none.
DailyCount(c, now) == IF c.day = Day(now) THEN c ELSE [c EXCEPT !.day = Day(now), !.count = 0]

\* Seeded fault: a message counts for its day, but does not begin the cooldown.
RecordProactive_NoCooldown(c, now) == LET d == DailyCount(c, now) IN [d EXCEPT !.count = @ + 1]
RecordProactive(c, now) == LET d == DailyCount(c, now) IN [d EXCEPT !.count = @ + 1, !.message = now]

Within(now, past, hours) == past # 0 /\ now - past < hours

Suppresses(c, now) ==
    \/ DailyLimit > 0 /\ DailyCount(c, now).count >= DailyLimit
    \/ Within(now, c.message, ProactiveCooldown)
    \/ Within(now, c.evaluation, SilentRetry)

-----------------------------------------------------------------------------
(* One check *)

Asleep(now) == now % DayLength \in SleepHours

\* What is looked at before the first await of the check.
HeartbeatCheck ==
    /\ check = "idle" /\ ~chatMode.temporary /\ ~Asleep(hour)
    /\ lastHeard # 0 /\ hour - lastHeard > SilenceThreshold
    /\ IF Suppresses(counted, hour)
         THEN counted' = DailyCount(counted, hour) /\ UNCHANGED check
         ELSE counted' = [DailyCount(counted, hour) EXCEPT !.evaluation = hour] /\ check' = "context"
    /\ UNCHANGED <<hour, lastHeard, chatMode, proactive>>

\* Memories, weather and the session have been waited for; the trigger enters the history, where
\* it does not count as a message.
ContextBuilt ==
    /\ check = "context" /\ check' = "engine"
    /\ counted' = DailyCount(counted, hour)
    /\ UNCHANGED <<hour, lastHeard, chatMode, proactive>>

\* The model remains silent or fails (which is DONE), and that is a message in the history; or it writes.
EngineAnswered ==
    /\ check = "engine"
    /\ \/ check' = "idle" /\ lastHeard' = hour
       \/ check' = "sending" /\ UNCHANGED lastHeard
    /\ UNCHANGED <<hour, chatMode, counted, proactive>>

\* Seeded fault: a message is in the history, but not in the counts.
Counts_Never(c, now) == c
Counts(c, now) == RecordProactive(c, now)

\* What could not be sent is not recorded anywhere.
HeartbeatSent ==
    /\ check = "sending" /\ check' = "idle"
    /\ \/ counted' = Counts(counted, hour) /\ proactive' = Append(proactive, hour) /\ lastHeard' = hour
       \/ UNCHANGED <<lastHeard, counted, proactive>>
    /\ UNCHANGED <<hour, chatMode>>

HeartbeatNext == HourPasses \/ ChatSpeaks \/ ChatCleared \/ ModeSwitches \/ HeartbeatCheck \/ ContextBuilt \/ EngineAnswered \/ HeartbeatSent

HeartbeatSpec == HeartbeatInit /\ [][HeartbeatNext]_heartbeatVars

-----------------------------------------------------------------------------
(* Properties *)

\* A chat gets no more than its messages of a day, however the checks and the answers of the
\* model fall around midnight, and two of them are the cooldown apart.
HeartbeatSound ==
    /\ DailyLimit > 0 => \A h \in 1 .. hour : Cardinality({i \in DOMAIN proactive : Day(proactive[i]) = Day(h)}) <= DailyLimit
    /\ \A i, j \in DOMAIN proactive : i < j => proactive[j] - proactive[i] >= ProactiveCooldown
=============================================================================
