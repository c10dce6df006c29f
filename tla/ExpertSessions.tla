---------------------------- MODULE ExpertSessions ----------------------------
(***************************************************************************)
(* The life of /expert research sessions (emery/expert.py): the registry   *)
(* of active sessions, the task that researches, the archive, and the      *)
(* handlers of commands, messages and buttons.                             *)
(*                                                                         *)
(* Updates are handled one at a time, yet a handler suspends (a classifier,*)
(* a label, a notice) while tasks go on.  A step is the code between two   *)
(* suspensions.  A session is an object; resuming an archive makes another *)
(* object with the same id.  What a round of research does is the matter   *)
(* of ExpertAgenda: here it takes one of the rounds the session has left.  *)
(***************************************************************************)
EXTENDS Naturals, Sequences, FiniteSets

CONSTANTS
    ExpertChats,     \* chats (or threads) that use /expert
    MidloopQuestions, \* EXPERT_ALLOW_MIDLOOP_QUESTIONS
    MaxSessions,     \* bound: session objects
    MaxResearches,   \* bound: research tasks
    SessionRounds    \* bound: rounds a task may take

ASSUME ExpertAssumption ==
    /\ MidloopQuestions \in BOOLEAN
    /\ MaxSessions \in Nat /\ MaxResearches \in Nat /\ SessionRounds \in Nat

VARIABLES
    session,     \* session objects, in the order they were made
    active,      \* ACTIVE_SESSIONS, in the order of the dictionary
    taskOf,      \* SESSION_TASKS: task of a session id, 0 for none
    research,    \* tasks of _run_research_session
    inForeground, \* ids of sessions in active_foreground_loops
    archive,     \* ids in the index of the archive
    update,      \* the handler that is suspended
    overlapped   \* history: sessions restarted before their last task was over, or out of their place

expertVars == <<session, active, taskOf, research, inForeground, archive, update, overlapped>>

\* Seeded fault: a session that researches does not block the next /expert.
Blocking_Waiting == {"waiting_for_answer", "completed_pending_user"}

\* Statuses that keep another session out of the chat.
Blocking == {"running", "waiting_for_answer", "completed_pending_user"}
Waiting == {"waiting_for_answer", "completed_pending_user"}
Suspended == {"plan", "round", "synthesis", "delivery"}   \* awaits inside the try
NoUpdate == [at |-> "none", of |-> 0, chat |-> CHOOSE c \in ExpertChats : TRUE]

ExpertInit ==
    /\ session = <<>> /\ active = <<>> /\ taskOf = [id \in 1..MaxSessions |-> 0] /\ research = <<>>
    /\ inForeground = {} /\ archive = {} /\ update = NoUpdate /\ overlapped = {}

IdOf(o) == session[o].id
HandlerFree == update = NoUpdate

\* A task made by the last handler has begun when an answer of Telegram comes back.
TasksBegun == \A t \in DOMAIN research : research[t].at # "new"

\* ACTIVE_SESSIONS[key] = session keeps the place of the key.
Put(as, o) ==
    IF \E i \in DOMAIN as : session'[as[i]].chat = session'[o].chat
    THEN [i \in DOMAIN as |-> IF session'[as[i]].chat = session'[o].chat THEN o ELSE as[i]]
    ELSE Append(as, o)

\* pop(key): what comes later moves up.
Drop(as, c) ==
    LET found == {i \in DOMAIN as : session[as[i]].chat = c}
        k == CHOOSE i \in found : TRUE
    IN  IF found = {} THEN as ELSE [i \in 1..(Len(as) - 1) |-> as[IF i < k THEN i ELSE i + 1]]
ActiveIn(c) == {o \in {active[i] : i \in DOMAIN active} : session[o].chat = c}

\* _active_session_by_id: the first of the dictionary.
FirstWith(id) ==
    {o \in {active[i] : i \in DOMAIN active} :
        /\ IdOf(o) = id
        /\ \A i, j \in DOMAIN active : active[i] = o /\ j < i => IdOf(active[j]) # id}

SetStatus(o, s) == session' = [session EXCEPT ![o].status = s]

-----------------------------------------------------------------------------
(* Starting and cancelling the task of a session *)

TaskLive(t) == t # 0 /\ research[t].at # "done"

\* task.cancel(): a task that never ran is over; the wait that closes one swallows it.
Cancelled(t) ==
    IF TaskLive(t)
    THEN [research EXCEPT ![t] = CASE @.at = "new" -> [@ EXCEPT !.at = "done"]
                                   [] @.at = "closing" -> @
                                   [] OTHER -> [@ EXCEPT !.cancelled = TRUE]]
    ELSE research

\* A session should be the active one of its chat, and say it is running, when it is given
\* a task; what overlaps it are the tasks of its id that are still there.
InPlace(o) == session'[o].status = "running" /\ o \in ActiveIn(session[o].chat)
Overlapping(o) ==
    UNION {{o, research[u].of} : u \in {u \in DOMAIN research : TaskLive(u) /\ IdOf(research[u].of) = IdOf(o)}}

\* _start_session_task
StartTask(o) ==
    LET t == taskOf[IdOf(o)] IN
    /\ Len(research) < MaxResearches
    /\ research' = Append(Cancelled(t), [at |-> "new", of |-> o, cancelled |-> FALSE])
    /\ taskOf' = [taskOf EXCEPT ![IdOf(o)] = Len(research) + 1]
    /\ overlapped' = overlapped \cup Overlapping(o) \cup (IF InPlace(o) THEN {} ELSE {o})

\* SESSION_TASKS.pop and task.cancel()
StopTask(o) ==
    /\ research' = Cancelled(taskOf[IdOf(o)])
    /\ taskOf' = [taskOf EXCEPT ![IdOf(o)] = 0]

-----------------------------------------------------------------------------
(* The task: _run_research_session *)

At(t, p) == research[t].at = p /\ ~research[t].cancelled
MoveTo(t, p) == research' = [research EXCEPT ![t].at = p]
SessionIs(t, s) == SetStatus(research[t].of, s)

\* The session takes the place of its chat again; one with an agenda goes straight on.
ResearchBegins(t) ==
    LET o == research[t].of IN
    /\ At(t, "new")
    /\ inForeground' = inForeground \cup {IdOf(o)}
    /\ IF session[o].planned
       THEN MoveTo(t, "round") /\ SetStatus(o, "running")
       ELSE MoveTo(t, "plan") /\ UNCHANGED session
    /\ active' = Put(active, o)
    /\ UNCHANGED <<taskOf, archive, update, overlapped>>

PlanMade(t) ==
    LET o == research[t].of IN
    /\ At(t, "plan") /\ MoveTo(t, "round")
    /\ session' = [session EXCEPT ![o].planned = TRUE, ![o].status = "running"]
    /\ UNCHANGED <<active, taskOf, inForeground, archive, update, overlapped>>

MayGoOn(o) == session[o].status = "running" /\ session[o].left > 0

RoundOfResearch(t) ==
    LET o == research[t].of IN
    /\ At(t, "round") /\ MayGoOn(o)
    /\ session' = [session EXCEPT ![o].left = @ - 1]
    /\ UNCHANGED <<active, taskOf, research, inForeground, archive, update, overlapped>>

\* The question goes out while the task is on its way to its end.
AsksUser(t) ==
    LET o == research[t].of IN
    /\ MidloopQuestions /\ At(t, "round") /\ MayGoOn(o)
    /\ session' = [session EXCEPT ![o].left = @ - 1, ![o].status = "waiting_for_answer", ![o].asks = "direction"]
    /\ MoveTo(t, "delivery")
    /\ UNCHANGED <<active, taskOf, inForeground, archive, update, overlapped>>

\* The rounds or the sources are used up, the agenda is done, or the model stops.
Synthesises(t) ==
    /\ At(t, "round") /\ MoveTo(t, "synthesis")
    /\ UNCHANGED <<session, active, taskOf, inForeground, archive, update, overlapped>>

ReportWritten(t) ==
    LET o == research[t].of IN
    /\ At(t, "synthesis") /\ MoveTo(t, "delivery")
    /\ session' = [session EXCEPT ![o].report = TRUE, ![o].status = "completed_pending_user"]
    /\ UNCHANGED <<active, taskOf, inForeground, archive, update, overlapped>>

Delivered(t) ==
    /\ At(t, "delivery") /\ MoveTo(t, "closing")
    /\ UNCHANGED <<session, active, taskOf, inForeground, archive, update, overlapped>>

\* Seeded fault: only the log hears of the exception.
Failed_Silently(t) == UNCHANGED session

Failed(t) == SessionIs(t, "error")

\* Any exception, one of Telegram while the report goes out too.
ResearchFails(t) ==
    /\ \E p \in Suspended : At(t, p)
    /\ MoveTo(t, "failing") /\ Failed(t)
    /\ UNCHANGED <<active, taskOf, inForeground, archive, update, overlapped>>

FailureTold(t) ==
    /\ At(t, "failing") /\ MoveTo(t, "closing")
    /\ UNCHANGED <<session, active, taskOf, inForeground, archive, update, overlapped>>

\* Seeded fault: the clean-up is not in a finally.
AfterCancel_Gone == "done"

AfterCancel == "closing"

\* CancelledError; raised in the notice of a failure it leaves the status alone.
CancelReaches(t) ==
    /\ research[t].cancelled /\ research[t].at \in Suspended \cup {"failing"}
    /\ IF research[t].at = "failing" THEN UNCHANGED session ELSE SessionIs(t, "cancelled")
    /\ research' = [research EXCEPT ![t].at = AfterCancel, ![t].cancelled = FALSE]
    /\ UNCHANGED <<active, taskOf, inForeground, archive, update, overlapped>>

\* The end of the finally: the loop is known by the session id, the task by itself.
ReleasedTask(t, id) == IF taskOf[id] = t THEN [taskOf EXCEPT ![id] = 0] ELSE taskOf

ResearchCloses(t) ==
    LET id == IdOf(research[t].of) IN
    /\ research[t].at = "closing" /\ MoveTo(t, "done")
    /\ inForeground' = inForeground \ {id}
    /\ taskOf' = ReleasedTask(t, id)
    /\ UNCHANGED <<session, active, archive, update, overlapped>>

-----------------------------------------------------------------------------
(* The end of a session: cancelled, or closed and archived *)

NewSession(c) ==
    [id |-> Len(session) + 1, chat |-> c, status |-> "running", planned |-> FALSE, left |-> SessionRounds,
     report |-> FALSE, asks |-> "none", labelled |-> FALSE]

\* An object read from the archive: its questions are gone, its label is known.
ResumedSession(id, c) ==
    [id |-> id, chat |-> c, status |-> "completed_pending_user", planned |-> TRUE, left |-> 0,
     report |-> TRUE, asks |-> "none", labelled |-> TRUE]

Suspend(p, o, c) == update' = [at |-> p, of |-> o, chat |-> c]
HandlerEnds == update' = NoUpdate

\* _cancel_session_object
CancelSession(o) ==
    /\ StopTask(o) /\ SetStatus(o, "cancelled")
    /\ active' = Drop(active, session[o].chat)
    /\ HandlerEnds
    /\ UNCHANGED <<inForeground, archive, overlapped>>

\* _archive_session: the folder is made, the status set, the files and the index are
\* written; what fails on the way leaves the session in the registry.
Archived(o) ==
    /\ \/ /\ SetStatus(o, "archived")
          /\ archive' = archive \cup {IdOf(o)} /\ active' = Drop(active, session[o].chat)
       \/ SetStatus(o, "archived") /\ UNCHANGED <<archive, active>>
       \/ UNCHANGED <<session, archive, active>>
    /\ HandlerEnds

\* _close_and_archive: only a session without a label waits for one.
CloseSession(o) ==
    /\ StopTask(o)
    /\ IF session[o].labelled
       THEN Archived(o)
       ELSE Suspend("label", o, session[o].chat) /\ UNCHANGED <<session, active, archive>>
    /\ UNCHANGED <<inForeground, overlapped>>

LabelMade ==
    LET o == update.of
        labelled == [session EXCEPT ![o].labelled = TRUE] IN
    /\ update.at = "label" /\ TasksBegun
    /\ \/ /\ session' = [labelled EXCEPT ![o].status = "archived"]
          /\ archive' = archive \cup {IdOf(o)} /\ active' = Drop(active, session[o].chat)
       \/ session' = [labelled EXCEPT ![o].status = "archived"] /\ UNCHANGED <<archive, active>>
       \/ session' = labelled /\ UNCHANGED <<archive, active>>
    /\ HandlerEnds
    /\ UNCHANGED <<taskOf, research, inForeground, overlapped>>

-----------------------------------------------------------------------------
(* Commands *)

\* The guard is read before the topic goes to the classifier, and not again.
ExpertCommand(c) ==
    /\ HandlerFree /\ \A o \in ActiveIn(c) : session[o].status \notin Blocking
    /\ Suspend("topic", 0, c)
    /\ UNCHANGED <<session, active, taskOf, research, inForeground, archive, overlapped>>

Started(c) ==
    LET o == Len(session) + 1 IN
    /\ Len(session) < MaxSessions /\ Len(research) < MaxResearches
    /\ session' = Append(session, NewSession(c))
    /\ active' = Put(active, o)
    /\ research' = Append(research, [at |-> "new", of |-> o, cancelled |-> FALSE])
    /\ taskOf' = [taskOf EXCEPT ![o] = Len(research) + 1]

TopicClassified ==
    /\ update.at = "topic" /\ TasksBegun /\ HandlerEnds
    /\ Started(update.chat) \/ UNCHANGED <<session, active, taskOf, research>>   \* malformed
    /\ UNCHANGED <<inForeground, archive, overlapped>>

CancelCommand(c) ==
    /\ HandlerFree
    /\ \E o \in ActiveIn(c) : CancelSession(o)

\* The entry stays in the index: the archive can be resumed in another chat as well.
ResumeArchived(id, c) ==
    LET o == Len(session) + 1 IN
    /\ HandlerFree /\ id \in archive /\ Len(session) < MaxSessions
    /\ \A other \in ActiveIn(c) : session[other].status \notin Blocking
    /\ session' = Append(session, ResumedSession(id, c))
    /\ active' = Put(active, o)
    /\ UNCHANGED <<taskOf, research, inForeground, archive, update, overlapped>>

ClearArchive ==
    /\ HandlerFree /\ archive # {} /\ archive' = {}
    /\ UNCHANGED <<session, active, taskOf, research, inForeground, update, overlapped>>

-----------------------------------------------------------------------------
(* Typed messages and buttons *)

ExpertMessage(c) ==
    /\ HandlerFree
    /\ \E o \in ActiveIn(c) : session[o].status \in Waiting /\ Suspend("typing", o, c)
    /\ UNCHANGED <<session, active, taskOf, research, inForeground, archive, overlapped>>

\* The status read after the typing indicator decides which labels the classifier may give.
TypingShown ==
    /\ update.at = "typing" /\ TasksBegun
    /\ Suspend(IF session[update.of].status = "waiting_for_answer" THEN "answer" ELSE "decision",
               update.of, update.chat)
    /\ UNCHANGED <<session, active, taskOf, research, inForeground, archive, overlapped>>

\* The user's answer: to a refinement, or a direction for more research.
Answered(o) ==
    IF session[o].asks = "refine"
    THEN /\ session' = [session EXCEPT ![o].asks = "none", ![o].status = "completed_pending_user"]
         /\ Suspend("refine", o, session[o].chat)
    ELSE /\ Len(research) < MaxResearches   \* room for the task that follows
         /\ session' = [session EXCEPT ![o].asks = "none", ![o].status = "running"]
         /\ Suspend("notice", o, session[o].chat)

\* "continue": rounds are added (up to the bound) and a task is started.
Continue(o) ==
    /\ session' = [session EXCEPT ![o].left = SessionRounds, ![o].status = "running"]
    /\ StartTask(o)
    /\ UNCHANGED <<active, inForeground, archive>>

AnswerClassified ==
    LET o == update.of IN
    /\ update.at = "answer" /\ TasksBegun
    /\ \/ session[o].report /\ CloseSession(o)
       \/ CancelSession(o)
       \/ Answered(o) /\ UNCHANGED <<active, taskOf, research, inForeground, archive, overlapped>>

DecisionClassified ==
    LET o == update.of IN
    /\ update.at = "decision" /\ TasksBegun
    /\ \/ CloseSession(o)
       \/ CancelSession(o)
       \/ Continue(o) /\ HandlerEnds
       \/ Suspend("refine", o, update.chat) /\ UNCHANGED <<session, active, taskOf, research, inForeground, archive, overlapped>>
       \/ HandlerEnds /\ UNCHANGED <<session, active, taskOf, research, inForeground, archive, overlapped>>

\* The notice is out: only now is there a task again.
NoticeSent ==
    /\ update.at = "notice" /\ TasksBegun /\ HandlerEnds
    /\ UNCHANGED <<session, active, inForeground, archive>>
    /\ StartTask(update.of)

\* _refine_report: another report or the old one, delivered again.
RefineEnds ==
    /\ update.at = "refine" /\ TasksBegun /\ HandlerEnds
    /\ UNCHANGED <<session, active, taskOf, research, inForeground, archive, overlapped>>

ButtonClose(id) ==
    /\ HandlerFree /\ TasksBegun
    /\ \E o \in FirstWith(id) : session[o].status = "completed_pending_user" /\ CloseSession(o)

ButtonContinue(id) ==
    /\ HandlerFree /\ TasksBegun
    /\ \E o \in FirstWith(id) : session[o].status = "completed_pending_user" /\ Continue(o)
    /\ UNCHANGED update

ButtonRefine(id) ==
    /\ HandlerFree /\ TasksBegun
    /\ \E o \in FirstWith(id) :
        /\ session[o].status = "completed_pending_user"
        /\ session' = [session EXCEPT ![o].status = "waiting_for_answer", ![o].asks = "refine"]
    /\ UNCHANGED <<active, taskOf, research, inForeground, archive, update, overlapped>>

\* The option that answers the last open question.
ButtonOption(id) ==
    /\ HandlerFree /\ TasksBegun
    /\ \E o \in FirstWith(id) : session[o].status = "waiting_for_answer" /\ Answered(o)
    /\ UNCHANGED <<active, taskOf, research, inForeground, archive, overlapped>>

-----------------------------------------------------------------------------

ResearchStep(t) ==
    \/ ResearchBegins(t) \/ PlanMade(t) \/ RoundOfResearch(t) \/ AsksUser(t) \/ Synthesises(t)
    \/ ReportWritten(t) \/ Delivered(t) \/ ResearchFails(t) \/ FailureTold(t)
    \/ CancelReaches(t) \/ ResearchCloses(t)

HandlerStep ==
    \/ TopicClassified \/ LabelMade \/ TypingShown \/ AnswerClassified \/ DecisionClassified
    \/ NoticeSent \/ RefineEnds

ExpertNext ==
    \/ \E t \in DOMAIN research : ResearchStep(t)
    \/ HandlerStep
    \/ \E c \in ExpertChats : ExpertCommand(c) \/ CancelCommand(c) \/ ExpertMessage(c)
    \/ \E id \in 1..MaxSessions, c \in ExpertChats : ResumeArchived(id, c)
    \/ \E id \in 1..MaxSessions :
          ButtonClose(id) \/ ButtonContinue(id) \/ ButtonRefine(id) \/ ButtonOption(id)
    \/ ClearArchive

\* Model calls and messages to Telegram end, and the event loop resumes what waits.
ExpertFairness ==
    /\ \A t \in 1..MaxResearches : WF_expertVars(t \in DOMAIN research /\ ResearchStep(t))
    /\ WF_expertVars(HandlerStep)

ExpertSpec == ExpertInit /\ [][ExpertNext]_expertVars /\ ExpertFairness

-----------------------------------------------------------------------------
(* Properties *)

\* A foreground loop, which puts off every scheduled job, belongs to a task that is
\* still to unregister it: none is left behind by a cancelled or failed research.
LoopHasTask ==
    \A id \in inForeground :
        \E t \in DOMAIN research :
            IdOf(research[t].of) = id /\ research[t].at \notin {"new", "done"}

\* A research nobody cancelled can be seen and cancelled: its session is the active one
\* of its chat, its task the one of its id, scheduled jobs wait for it, and its status
\* lets no other /expert start there.  Sessions in overlapped are excepted, where the code
\* does not keep it: restarted while their last task still delivers, or while a copy in
\* another chat researches; after the task failed under the user's answer, which leaves
\* "error" behind; or when an archive that was opened has taken their place.
ResearchInReach ==
    \A t \in DOMAIN research :
        LET o == research[t].of IN
        (\E p \in Suspended : At(t, p)) /\ o \notin overlapped =>
            /\ o \in ActiveIn(session[o].chat)
            /\ taskOf[IdOf(o)] = t
            /\ IdOf(o) \in inForeground
            /\ session[o].status \in Blocking

\* A research, its task and its foreground loop stay together: none of them is left alone.
ResearchSound == LoopHasTask /\ ResearchInReach

SaysRunning(o) == o \in DOMAIN session /\ session[o].status = "running"

\* A session that says it is running gets a report, asks, fails or is cancelled: its chat
\* is not blocked by a research that no task carries on.
ResearchEnds ==
    \A o \in 1..MaxSessions :
        SaysRunning(o) ~> ~SaysRunning(o)
=============================================================================
