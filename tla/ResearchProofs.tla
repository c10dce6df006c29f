---------------------------- MODULE ResearchProofs ----------------------------
(***************************************************************************)
(* Theorems about the research modes: the sessions of /expert and their    *)
(* tasks (ExpertSessions), the agenda of a research (ExpertAgenda) and the *)
(* debates (Debates), for any chats, sessions, questions, pages, rounds,   *)
(* continuations and failures.                                             *)
(***************************************************************************)
EXTENDS ExpertSessions, ExpertAgenda, Debates, DataLemmas, SequenceTheorems, TLAPS

-----------------------------------------------------------------------------
(***************************************************************************)
(* The sessions of /expert                                                 *)
(***************************************************************************)

SessionStatuses == {"running", "waiting_for_answer", "completed_pending_user", "error", "cancelled", "archived"}
SomeChats == ExpertChats \cup {NoUpdate.chat}
SessionRecord ==
    [id : Nat \ {0}, chat : SomeChats, status : SessionStatuses, planned : BOOLEAN, left : Nat,
     report : BOOLEAN, asks : {"none", "direction", "refine"}, labelled : BOOLEAN]
ResearchPlaces == {"new", "plan", "round", "synthesis", "delivery", "failing", "closing", "done"}
ResearchRecord == [at : ResearchPlaces, of : Nat, cancelled : BOOLEAN]
Conversing == {"typing", "answer", "decision", "refine", "notice"}
UpdateRecord == [at : {"none", "topic", "label"} \cup Conversing, of : Nat, chat : SomeChats]
Listed == {active[i] : i \in DOMAIN active}

ExpertShape ==
    /\ session \in Seq(SessionRecord) /\ Len(session) <= MaxSessions
    /\ active \in Seq(Nat) /\ taskOf \in [1..MaxSessions -> Nat]
    /\ research \in Seq(ResearchRecord)
    /\ inForeground \subseteq Nat /\ archive \subseteq Nat
    /\ update \in UpdateRecord

\* What refers to a session, or to a task, refers to one that was made.
Made ==
    /\ \A o \in DOMAIN session : IdOf(o) <= o
    /\ Listed \subseteq DOMAIN session
    /\ \A t \in DOMAIN research : research[t].of \in DOMAIN session
    /\ \A id \in archive : id <= Len(session)
    /\ update.at \in Conversing \cup {"label"} =>
          update.of \in DOMAIN session /\ update.chat = session[update.of].chat

\* Sessions listed one for a chat.
ChatsDiffer(p, ss) == \A i, j \in DOMAIN p : ss[p[i]].chat = ss[p[j]].chat => i = j
OnePerChat == ChatsDiffer(active, session)

\* Two tasks of one id at the same time are known to overlap.
Exclusive ==
    \A t, u \in DOMAIN research :
        /\ t # u /\ research[t].at # "done" /\ research[u].at # "done"
        /\ IdOf(research[t].of) = IdOf(research[u].of)
        => research[t].of \in overlapped

\* A task that researches, or will, for a session that was started in its place.
Researches(t) ==
    research[t].at \in Suspended \cup {"new"} /\ ~research[t].cancelled /\ research[t].of \notin overlapped

InReach ==
    \A t \in DOMAIN research : Researches(t) =>
        LET o == research[t].of IN
        /\ o \in Listed
        /\ taskOf[IdOf(o)] = t
        /\ research[t].at # "new" => IdOf(o) \in inForeground
        /\ session[o].status \in Blocking

\* No other session of its chat than that of a task which researches.
Only(o) == \A t \in DOMAIN research : Researches(t) /\ research[t].of # o => session[research[t].of].chat # session[o].chat

\* A session about to get its place, or another task, pushes no research out of its place.
Placed ==
    /\ \A u \in DOMAIN research : research[u].at = "new" => Only(research[u].of)
    /\ update.at \in Conversing => Only(update.of)

\* No research in a chat where a topic is classified or a session is closed.
Cleared ==
    update.at \in {"topic", "label"} =>
        \A t \in DOMAIN research : Researches(t) => session[research[t].of].chat # update.chat

ExpertInv ==
    /\ ExpertShape /\ Made /\ OnePerChat /\ Exclusive
    /\ InReach /\ Placed /\ Cleared /\ LoopHasTask

\* A step that changes no session but o, and of o neither its id nor its chat.
Rewrites(o) ==
    /\ session' \in Seq(SessionRecord) /\ Len(session') = Len(session)
    /\ \A x \in DOMAIN session : session'[x].id = session[x].id /\ session'[x].chat = session[x].chat
    /\ \A x \in DOMAIN session : x # o => session'[x] = session[x]

LEMMA Rewritten ==
    ASSUME session \in Seq(SessionRecord), NEW o \in DOMAIN session, NEW r \in SessionRecord,
           r.id = session[o].id, r.chat = session[o].chat, session' = [session EXCEPT ![o] = r]
    PROVE  Rewrites(o) /\ session'[o] = r
  <1>1. session' \in Seq(SessionRecord) /\ Len(session') = Len(session)  BY ExceptSeq
  <1>2. \A x \in DOMAIN session : session'[x] = IF x = o THEN r ELSE session[x]  OBVIOUS
  <1> QED  BY <1>1, <1>2 DEF Rewrites

LEMMA Unwritten == ASSUME session \in Seq(SessionRecord), session' = session, NEW o PROVE Rewrites(o)
  BY DEF Rewrites

\* The listed sessions are of different chats.
LEMMA ListedApart ==
    ASSUME OnePerChat, NEW o \in Listed, NEW x \in Listed, session[o].chat = session[x].chat
    PROVE  o = x
  <1>1. PICK i \in DOMAIN active : o = active[i]  BY Zenon DEF Listed
  <1>2. PICK j \in DOMAIN active : x = active[j]  BY Zenon DEF Listed
  <1>3. i = j  BY <1>1, <1>2, Zenon DEF OnePerChat, ChatsDiffer
  <1> QED  BY <1>1, <1>2, <1>3

LEMMA ListedOnly == ASSUME OnePerChat, InReach, NEW o \in Listed PROVE Only(o)
  <1> SUFFICES ASSUME NEW t \in DOMAIN research, Researches(t), session[research[t].of].chat = session[o].chat
               PROVE  research[t].of = o
    BY DEF Only
  <1>1. research[t].of \in Listed  BY DEF InReach
  <1> QED  BY <1>1, ListedApart

\* The id of a session is one of the table of tasks.
LEMMA IdsOfTable ==
    ASSUME ExpertShape, Made, NEW o \in DOMAIN session
    PROVE  IdOf(o) \in 1..MaxSessions /\ session[o] \in SessionRecord
  <1>1. o \in 1..Len(session) /\ Len(session) \in Nat /\ Len(session) <= MaxSessions  BY DEF ExpertShape
  <1>2. session[o] \in SessionRecord  BY DEF ExpertShape
  <1>3. IdOf(o) \in Nat \ {0} /\ IdOf(o) <= o  BY <1>2 DEF IdOf, SessionRecord, Made
  <1> QED  BY <1>1, <1>2, <1>3, ExpertAssumption

-----------------------------------------------------------------------------
(* Steps of a task *)

\* A task that is under way goes on.
LEMMA TaskGoesOn ==
    ASSUME ExpertInv, NEW t \in DOMAIN research, NEW r \in ResearchRecord, Rewrites(research[t].of),
           research' = [research EXCEPT ![t] = r],
           research[t].at \notin {"new", "done"}, r.at \notin {"new", "done"}, r.of = research[t].of,
           r.at \in Suspended /\ ~r.cancelled /\ r.of \notin overlapped =>
               /\ research[t].at \in Suspended /\ ~research[t].cancelled
               /\ session'[r.of].status \in Blocking,
           UNCHANGED <<active, taskOf, inForeground, archive, update, overlapped>>
    PROVE  ExpertInv'
  <1> DEFINE o == research[t].of
  <1>1. /\ ExpertShape /\ Made /\ OnePerChat /\ Exclusive
        /\ InReach /\ Placed /\ Cleared /\ LoopHasTask
    BY DEF ExpertInv
  <1>2. /\ research' \in Seq(ResearchRecord) /\ DOMAIN research' = DOMAIN research
        /\ research'[t] = r /\ \A u \in DOMAIN research : u # t => research'[u] = research[u]
    BY <1>1, ExceptSeq DEF ExpertShape
  <1>3. /\ DOMAIN session' = DOMAIN session /\ Len(session') = Len(session)
        /\ \A x \in DOMAIN session : IdOf(x)' = IdOf(x) /\ session'[x].chat = session[x].chat
    BY <1>1 DEF ExpertShape, Rewrites, IdOf
  <1>4. \A u \in DOMAIN research : research'[u].of = research[u].of /\ research[u].of \in DOMAIN session
    BY <1>1, <1>2 DEF Made
  <1>5. \A u \in DOMAIN research : (research'[u].at = "done" <=> research[u].at = "done")
                                   /\ (research'[u].at = "new" <=> research[u].at = "new")
    BY <1>2
  <1>6. ASSUME NEW u \in DOMAIN research, Researches(u)' PROVE Researches(u)
    <2>1. CASE u = t  BY <1>2, <1>6, <2>1 DEF Researches
    <2>2. CASE u # t  BY <1>2, <1>6, <2>2 DEF Researches
    <2> QED  BY <2>1, <2>2
  <1>7. ExpertShape'  BY <1>1, <1>2, <1>3 DEF ExpertShape, Rewrites
  <1>8. Listed' = Listed  BY DEF Listed
  <1>9. Made'  BY <1>1, <1>2, <1>3, <1>4, <1>8 DEF Made
  <1>10. OnePerChat'
    <2>1. \A i \in DOMAIN active : session'[active[i]].chat = session[active[i]].chat
      BY <1>1, <1>3 DEF Made, Listed
    <2> QED  BY <1>1, <2>1 DEF OnePerChat, ChatsDiffer
  <1>11. Exclusive'  BY <1>1, <1>2, <1>3, <1>4, <1>5 DEF Exclusive
  <1>12. InReach'
    <2> SUFFICES ASSUME NEW u \in DOMAIN research, Researches(u)'
                 PROVE  /\ research[u].of \in Listed /\ taskOf[IdOf(research[u].of)] = u
                        /\ research[u].at # "new" => IdOf(research[u].of) \in inForeground
                        /\ session'[research[u].of].status \in Blocking
      BY <1>2, <1>3, <1>4, <1>5, <1>8 DEF InReach
    <2>1. Researches(u)  BY <1>6
    <2>2. /\ research[u].of \in Listed /\ taskOf[IdOf(research[u].of)] = u
          /\ research[u].at # "new" => IdOf(research[u].of) \in inForeground
          /\ session[research[u].of].status \in Blocking
      BY <1>1, <2>1 DEF InReach
    <2>3. CASE u = t
      <3>1. r.at # "new" /\ r.at \in Suspended \cup {"new"} /\ ~r.cancelled  BY <1>2, <2>3 DEF Researches
      <3>2. r.at \in Suspended /\ r.of \notin overlapped  BY <1>2, <2>3, <3>1 DEF Researches
      <3> QED  BY <2>2, <2>3, <3>1, <3>2
    <2>4. CASE u # t
      <3>1. research[u].at # "done" /\ research[u].of \notin overlapped
        BY <2>1 DEF Researches, Suspended
      <3>2. research[u].of # o  BY <1>1, <2>4, <3>1 DEF Exclusive
      <3>3. session'[research[u].of] = session[research[u].of]  BY <1>4, <3>2 DEF Rewrites
      <3> QED  BY <2>2, <3>3
    <2> QED  BY <2>3, <2>4
  <1>13. ASSUME NEW x \in DOMAIN session, Only(x) PROVE Only(x)'
    <2> SUFFICES ASSUME NEW u \in DOMAIN research, Researches(u)', research'[u].of # x
                 PROVE  session'[research'[u].of].chat # session'[x].chat
      BY <1>2 DEF Only
    <2>1. Researches(u) /\ research[u].of # x  BY <1>4, <1>6
    <2>2. session[research[u].of].chat # session[x].chat  BY <1>13, <2>1 DEF Only
    <2> QED  BY <1>3, <1>4, <2>2
  <1>14. Placed'  BY <1>1, <1>2, <1>4, <1>5, <1>13 DEF Placed, Made
  <1>15. Cleared'  BY <1>1, <1>2, <1>3, <1>4, <1>6 DEF Cleared
  <1>16. LoopHasTask'
    <2> SUFFICES ASSUME NEW id \in inForeground
                 PROVE  \E u \in DOMAIN research' :
                            session'[research'[u].of].id = id /\ research'[u].at \notin {"new", "done"}
      BY DEF LoopHasTask, IdOf
    <2>1. PICK u \in DOMAIN research : session[research[u].of].id = id /\ research[u].at \notin {"new", "done"}
      BY <1>1 DEF LoopHasTask, IdOf
    <2>2. session'[research'[u].of].id = id  BY <1>3, <1>4, <2>1 DEF IdOf
    <2> QED  BY <1>2, <1>5, <2>1, <2>2
  <1> QED  BY <1>7, <1>9, <1>10, <1>11, <1>12, <1>14, <1>15, <1>16 DEF ExpertInv

LEMMA TaskSteps ==
    ASSUME ExpertInv, NEW t \in DOMAIN research,
           \/ PlanMade(t) \/ RoundOfResearch(t) \/ AsksUser(t) \/ Synthesises(t) \/ ReportWritten(t)
           \/ Delivered(t) \/ ResearchFails(t) \/ FailureTold(t) \/ CancelReaches(t)
    PROVE  ExpertInv'
  <1> DEFINE o == research[t].of
  <1>1. /\ session \in Seq(SessionRecord) /\ research \in Seq(ResearchRecord)
        /\ o \in DOMAIN session /\ session[o] \in SessionRecord /\ research[t] \in ResearchRecord
    BY DEF ExpertInv, ExpertShape, Made
  <1>2. ASSUME NEW p \in {"round", "synthesis", "delivery", "failing", "closing"}, MoveTo(t, p),
               research[t].at \notin {"new", "done"}, Rewrites(o),
               p \in Suspended /\ o \notin overlapped =>
                   /\ ~research[t].cancelled /\ research[t].at \in Suspended
                   /\ session'[o].status \in Blocking,
               UNCHANGED <<active, taskOf, inForeground, archive, update, overlapped>>
        PROVE  ExpertInv'
    <2> DEFINE r == [research[t] EXCEPT !.at = p]
    <2>1. /\ r \in ResearchRecord /\ r.at = p /\ r.of = o /\ r.cancelled = research[t].cancelled
          /\ research' = [research EXCEPT ![t] = r]
      BY <1>1, <1>2 DEF ResearchRecord, ResearchPlaces, MoveTo
    <2> HIDE DEF r
    <2>2. r.at \in Suspended /\ ~r.cancelled /\ r.of \notin overlapped =>
               /\ research[t].at \in Suspended /\ ~research[t].cancelled
               /\ session'[r.of].status \in Blocking
      BY <1>2, <2>1
    <2> QED  BY <1>2, <2>1, <2>2, TaskGoesOn
  <1>3. ASSUME NEW r, session' = [session EXCEPT ![o] = r], r \in SessionRecord,
               r.id = session[o].id, r.chat = session[o].chat
        PROVE  Rewrites(o) /\ session'[o] = r
    BY <1>1, <1>3, Rewritten
  <1>4. CASE PlanMade(t)
    <2> DEFINE r == [session[o] EXCEPT !.planned = TRUE, !.status = "running"]
    <2>1. r \in SessionRecord /\ r.id = session[o].id /\ r.chat = session[o].chat /\ r.status = "running"
      BY <1>1 DEF SessionRecord, SessionStatuses
    <2>2. session' = [session EXCEPT ![o] = r]  BY <1>4 DEF PlanMade
    <2> HIDE DEF r
    <2>3. Rewrites(o) /\ session'[o].status = "running"  BY <1>3, <2>1, <2>2
    <2>4. At(t, "plan") /\ MoveTo(t, "round") /\ UNCHANGED <<active, taskOf, inForeground, archive, update, overlapped>>
      BY <1>4 DEF PlanMade
    <2> QED  BY <1>2, <2>3, <2>4 DEF At, Suspended, Blocking
  <1>5. CASE RoundOfResearch(t)
    <2> DEFINE r == [session[o] EXCEPT !.left = @ - 1]
    <2>1. r \in SessionRecord /\ r.id = session[o].id /\ r.chat = session[o].chat /\ r.status = "running"
      <3>1. session[o].left \in Nat /\ session[o].left > 0 /\ session[o].status = "running"
        BY <1>1, <1>5 DEF SessionRecord, RoundOfResearch, MayGoOn
      <3>2. session[o].left - 1 \in Nat  BY <3>1
      <3> QED  BY <1>1, <3>1, <3>2 DEF SessionRecord, SessionStatuses
    <2>2. session' = [session EXCEPT ![o] = r]  BY <1>5 DEF RoundOfResearch
    <2> HIDE DEF r
    <2>3. Rewrites(o) /\ session'[o].status = "running"  BY <1>3, <2>1, <2>2
    <2>4. At(t, "round") /\ MoveTo(t, "round")
      <3>1. research = [research EXCEPT ![t].at = "round"]
        <4>1. research[t] = [research[t] EXCEPT !.at = "round"]
          BY <1>1, <1>5 DEF RoundOfResearch, At, ResearchRecord
        <4> QED  BY <1>1, <4>1
      <3> QED  BY <1>5, <3>1 DEF RoundOfResearch, MoveTo
    <2>5. UNCHANGED <<active, taskOf, inForeground, archive, update, overlapped>>  BY <1>5 DEF RoundOfResearch
    <2> QED  BY <1>2, <2>3, <2>4, <2>5 DEF At, Suspended, Blocking
  <1>6. CASE AsksUser(t)
    <2> DEFINE r == [session[o] EXCEPT !.left = @ - 1, !.status = "waiting_for_answer", !.asks = "direction"]
    <2>1. r \in SessionRecord /\ r.id = session[o].id /\ r.chat = session[o].chat /\ r.status = "waiting_for_answer"
      <3>1. session[o].left \in Nat /\ session[o].left > 0 /\ session[o].status = "running"
        BY <1>1, <1>6 DEF SessionRecord, AsksUser, MayGoOn
      <3>2. session[o].left - 1 \in Nat  BY <3>1
      <3> QED  BY <1>1, <3>1, <3>2 DEF SessionRecord, SessionStatuses
    <2>2. session' = [session EXCEPT ![o] = r]  BY <1>6 DEF AsksUser
    <2> HIDE DEF r
    <2>3. Rewrites(o) /\ session'[o].status = "waiting_for_answer"  BY <1>3, <2>1, <2>2
    <2>4. At(t, "round") /\ MoveTo(t, "delivery") /\ UNCHANGED <<active, taskOf, inForeground, archive, update, overlapped>>
      BY <1>6 DEF AsksUser
    <2> QED  BY <1>2, <2>3, <2>4 DEF At, Suspended, Blocking
  <1>7. CASE ReportWritten(t)
    <2> DEFINE r == [session[o] EXCEPT !.report = TRUE, !.status = "completed_pending_user"]
    <2>1. r \in SessionRecord /\ r.id = session[o].id /\ r.chat = session[o].chat /\ r.status = "completed_pending_user"
      BY <1>1 DEF SessionRecord, SessionStatuses
    <2>2. session' = [session EXCEPT ![o] = r]  BY <1>7 DEF ReportWritten
    <2> HIDE DEF r
    <2>3. Rewrites(o) /\ session'[o].status = "completed_pending_user"  BY <1>3, <2>1, <2>2
    <2>4. At(t, "synthesis") /\ MoveTo(t, "delivery") /\ UNCHANGED <<active, taskOf, inForeground, archive, update, overlapped>>
      BY <1>7 DEF ReportWritten
    <2> QED  BY <1>2, <2>3, <2>4 DEF At, Suspended, Blocking
  <1>8. ASSUME NEW st \in SessionStatuses, SessionIs(t, st) PROVE Rewrites(o)
    <2> DEFINE r == [session[o] EXCEPT !.status = st]
    <2>1. r \in SessionRecord /\ r.id = session[o].id /\ r.chat = session[o].chat
      BY <1>1 DEF SessionRecord
    <2>2. session' = [session EXCEPT ![o] = r]  BY <1>8 DEF SessionIs, SetStatus
    <2> HIDE DEF r
    <2> QED  BY <1>3, <2>1, <2>2
  <1>9. session' = session => Rewrites(o)  BY <1>1, Unwritten
  <1>10. CASE Synthesises(t)
    <2>1. At(t, "round") /\ MoveTo(t, "synthesis")
          /\ UNCHANGED <<session, active, taskOf, inForeground, archive, update, overlapped>>
      BY <1>10 DEF Synthesises
    <2>2. o \notin overlapped => Researches(t)  BY <2>1 DEF Researches, At, Suspended
    <2>3. o \notin overlapped => session[o].status \in Blocking  BY <2>2 DEF ExpertInv, InReach
    <2> QED  BY <1>2, <1>9, <2>1, <2>3 DEF At, Suspended
  <1>11. CASE Delivered(t)
    BY <1>2, <1>9, <1>11 DEF Delivered, At, Suspended
  <1>12. CASE ResearchFails(t)
    BY <1>2, <1>8, <1>12 DEF ResearchFails, Failed, At, Suspended, SessionStatuses
  <1>13. CASE FailureTold(t)
    BY <1>2, <1>9, <1>13 DEF FailureTold, At, Suspended
  <1>14. CASE CancelReaches(t)
    <2> DEFINE r == [research[t] EXCEPT !.at = "closing", !.cancelled = FALSE]
    <2>1. r \in ResearchRecord /\ r.at = "closing" /\ r.of = o  BY <1>1 DEF ResearchRecord, ResearchPlaces
    <2>2. research' = [research EXCEPT ![t] = r]  BY <1>14 DEF CancelReaches, AfterCancel
    <2>3. research[t].at \notin {"new", "done"}  BY <1>14 DEF CancelReaches, Suspended
    <2>4. Rewrites(o)  BY <1>8, <1>9, <1>14 DEF CancelReaches, SessionStatuses
    <2>5. UNCHANGED <<active, taskOf, inForeground, archive, update, overlapped>>  BY <1>14 DEF CancelReaches
    <2> HIDE DEF r
    <2> QED  BY <2>1, <2>2, <2>3, <2>4, <2>5, TaskGoesOn DEF Suspended
  <1> QED  BY <1>4, <1>5, <1>6, <1>7, <1>10, <1>11, <1>12, <1>13, <1>14

LEMMA Numbers ==
    ASSUME NEW as \in Seq(Nat)
    PROVE  Len(as) \in Nat /\ DOMAIN as = 1..Len(as) /\ as \in [1..Len(as) -> Nat]
  BY LenProperties

LEMMA NumbersAre == ASSUME NEW n \in Nat, NEW f \in [1..n -> Nat] PROVE f \in Seq(Nat) /\ Len(f) = n
  OBVIOUS

LEMMA Upto ==
    ASSUME NEW n \in Nat
    PROVE  /\ \A i \in 1..(n + 1) : i \in 1..n \/ i = n + 1
           /\ 1..n \subseteq 1..(n + 1) /\ n + 1 \in 1..(n + 1)
  OBVIOUS

LEMMA Appended ==
    ASSUME NEW as \in Seq(Nat), NEW o \in Nat
    PROVE  /\ Append(as, o) \in Seq(Nat) /\ Len(Append(as, o)) = Len(as) + 1
           /\ \A i \in 1..Len(as) : Append(as, o)[i] = as[i]
           /\ Append(as, o)[Len(as) + 1] = o
  <1>1. Append(as, o) \in Seq(Nat) /\ Len(Append(as, o)) = Len(as) + 1  BY AppendProperties
  <1>2. \A i \in 1..Len(as) : Append(as, o)[i] = as[i]  BY AppendProperties
  <1>3. Append(as, o)[Len(as) + 1] = o  BY AppendProperties
  <1> QED  BY <1>1, <1>2, <1>3

PutsIn(p, as, o, ss) ==
    /\ p \in Seq(Nat) /\ ChatsDiffer(p, ss)
    /\ \A i \in DOMAIN p : p[i] = o \/ \E j \in DOMAIN as : p[i] = as[j] /\ ss[as[j]].chat # ss[o].chat
    /\ \A j \in DOMAIN as : ss[as[j]].chat # ss[o].chat => \E i \in DOMAIN p : p[i] = as[j]
    /\ \E i \in DOMAIN p : p[i] = o
Keeps(p, as, c, ss) ==
    /\ p \in Seq(Nat) /\ ChatsDiffer(p, ss)
    /\ \A i \in DOMAIN p : \E j \in DOMAIN as : p[i] = as[j]
    /\ \A j \in DOMAIN as : ss[as[j]].chat # c => \E i \in DOMAIN p : p[i] = as[j]

\* A session takes the place of its chat, or a new one behind the others.
LEMMA PutIn ==
    ASSUME NEW as \in Seq(Nat), NEW o \in Nat, ChatsDiffer(as, session')
    PROVE  PutsIn(Put(as, o), as, o, session')
  <1>1. PICK n \in Nat : n = Len(as) /\ DOMAIN as = 1..n /\ as \in [1..n -> Nat]  BY Numbers
  <1>2. CASE \E i \in DOMAIN as : session'[as[i]].chat = session'[o].chat
    <2>1. PICK p : p = [i \in DOMAIN as |-> IF session'[as[i]].chat = session'[o].chat THEN o ELSE as[i]]
      OBVIOUS
    <2>2. Put(as, o) = p  BY <1>2, <2>1 DEF Put
    <2>3. DOMAIN p = DOMAIN as  BY <2>1
    <2>4. \A i \in DOMAIN as : p[i] = IF session'[as[i]].chat = session'[o].chat THEN o ELSE as[i]  BY <2>1
    <2>5. p \in Seq(Nat)
      <3>1. p \in [1..n -> Nat]  BY <1>1, <2>1
      <3> QED  BY <1>1, <3>1, NumbersAre
    <2>6. \A i \in DOMAIN p : session'[p[i]].chat = session'[as[i]].chat  BY <2>3, <2>4
    <2>7. ChatsDiffer(p, session')  BY <2>3, <2>6 DEF ChatsDiffer
    <2>8. \E i \in DOMAIN p : p[i] = o  BY <1>2, <2>3, <2>4
    <2>9. \A j \in DOMAIN as : session'[as[j]].chat # session'[o].chat => \E i \in DOMAIN p : p[i] = as[j]
      BY <2>3, <2>4
    <2>10. \A i \in DOMAIN p : p[i] = o \/ \E j \in DOMAIN as : p[i] = as[j] /\ session'[as[j]].chat # session'[o].chat
      BY <2>3, <2>4
    <2>11. PutsIn(p, as, o, session')  BY <2>5, <2>7, <2>8, <2>9, <2>10 DEF PutsIn
    <2> QED  BY <2>2, <2>11
  <1>3. CASE ~\E i \in DOMAIN as : session'[as[i]].chat = session'[o].chat
    <2>1. PICK p : p = Append(as, o)  OBVIOUS
    <2>2. Put(as, o) = p  BY <1>3, <2>1 DEF Put
    <2>3. p \in Seq(Nat) /\ Len(p) = n + 1 /\ p[n + 1] = o /\ \A i \in 1..n : p[i] = as[i]
      <3> QED  BY <1>1, <2>1, Appended
    <2>4. DOMAIN p = 1..(n + 1)  BY <2>3, Numbers
    <2>5. \A i \in DOMAIN p : i \in DOMAIN as \/ i = n + 1
      <3>1. \A i \in 1..(n + 1) : i \in 1..n \/ i = n + 1  BY Upto
      <3> QED  BY <1>1, <2>4, <3>1
    <2>6. DOMAIN as \subseteq DOMAIN p /\ n + 1 \in DOMAIN p
      <3>1. 1..n \subseteq 1..(n + 1) /\ n + 1 \in 1..(n + 1)  BY Upto
      <3> QED  BY <1>1, <2>4, <3>1
    <2>7. \A i \in DOMAIN as : p[i] = as[i]  BY <1>1, <2>3
    <2>8. ChatsDiffer(p, session')
      <3> SUFFICES ASSUME NEW i \in DOMAIN p, NEW j \in DOMAIN p, session'[p[i]].chat = session'[p[j]].chat PROVE i = j
        BY DEF ChatsDiffer
      <3>1. CASE i \in DOMAIN as /\ j \in DOMAIN as  BY <2>7, <3>1 DEF ChatsDiffer
      <3>2. CASE i \in DOMAIN as /\ j = n + 1  BY <1>3, <2>3, <2>7, <3>2
      <3>3. CASE i = n + 1 /\ j \in DOMAIN as  BY <1>3, <2>3, <2>7, <3>3
      <3> QED  BY <2>5, <3>1, <3>2, <3>3
    <2>9. \E i \in DOMAIN p : p[i] = o  BY <2>3, <2>6
    <2>10. \A j \in DOMAIN as : session'[as[j]].chat # session'[o].chat => \E i \in DOMAIN p : p[i] = as[j]
      BY <2>6, <2>7
    <2>11. \A i \in DOMAIN p : p[i] = o \/ \E j \in DOMAIN as : p[i] = as[j] /\ session'[as[j]].chat # session'[o].chat
      BY <1>3, <2>3, <2>5, <2>7
    <2>12. PutsIn(p, as, o, session')  BY <2>3, <2>8, <2>9, <2>10, <2>11 DEF PutsIn
    <2> QED  BY <2>2, <2>12
  <1> QED  BY <1>2, <1>3

\* What is left of a sequence without one of its entries.
Remains(d, as, n, k) ==
    /\ d \in Seq(Nat) /\ DOMAIN d = 1..(n - 1)
    /\ \E at \in [1..(n - 1) -> 1..n \ {k}] :
          /\ \A i \in 1..(n - 1) : d[i] = as[at[i]]
          /\ \A j \in 1..n \ {k} : \E i \in 1..(n - 1) : at[i] = j
          /\ \A i, j \in 1..(n - 1) : at[i] = at[j] => i = j

LEMMA Without ==
    ASSUME NEW n \in Nat, NEW as \in [1..n -> Nat], NEW k \in 1..n, NEW d,
           d = [i \in 1..(n - 1) |-> as[IF i < k THEN i ELSE i + 1]]
    PROVE  Remains(d, as, n, k)
  <1>1. n - 1 \in Nat  OBVIOUS
  <1>2. PICK at : at = [i \in 1..(n - 1) |-> IF i < k THEN i ELSE i + 1]  OBVIOUS
  <1>3. \A i \in 1..(n - 1) : (IF i < k THEN i ELSE i + 1) \in 1..n \ {k}  OBVIOUS
  <1>4. at \in [1..(n - 1) -> 1..n \ {k}]  BY <1>2, <1>3
  <1>5. \A i \in 1..(n - 1) : d[i] = as[at[i]]  BY <1>2
  <1>6. d \in [1..(n - 1) -> Nat]
    <2>1. \A i \in 1..(n - 1) : as[IF i < k THEN i ELSE i + 1] \in Nat  BY <1>3
    <2> QED  BY <2>1
  <1>7. ASSUME NEW j \in 1..n \ {k} PROVE \E i \in 1..(n - 1) : at[i] = j
    <2>1. CASE j < k  BY <1>2, <2>1
    <2>2. CASE ~(j < k)
      <3>1. j - 1 \in 1..(n - 1) /\ ~(j - 1 < k) /\ j - 1 + 1 = j  BY <2>2
      <3>2. at[j - 1] = j  BY <1>2, <3>1
      <3> QED  BY <3>1, <3>2
    <2> QED  BY <2>1, <2>2
  <1>8. \A i, j \in 1..(n - 1) : at[i] = at[j] => i = j  BY <1>2
  <1>9. d \in Seq(Nat)  BY <1>1, <1>6, NumbersAre
  <1> QED  BY <1>4, <1>5, <1>6, <1>7, <1>8, <1>9 DEF Remains

\* The sessions of other chats stay.
LEMMA DropFrom ==
    ASSUME NEW as \in Seq(Nat), NEW c, ChatsDiffer(as, session)
    PROVE  Keeps(Drop(as, c), as, c, session)
  <1>1. CASE ~\E i \in DOMAIN as : session[as[i]].chat = c
    <2>1. Drop(as, c) = as  BY <1>1 DEF Drop
    <2>2. Keeps(as, as, c, session)  BY DEF Keeps
    <2> QED  BY <2>1, <2>2
  <1>2. CASE \E i \in DOMAIN as : session[as[i]].chat = c
    <2>1. PICK k \in DOMAIN as : /\ session[as[k]].chat = c
                                 /\ Drop(as, c) = [i \in 1..(Len(as) - 1) |-> as[IF i < k THEN i ELSE i + 1]]
      <3> DEFINE found == {i \in DOMAIN as : session[as[i]].chat = c}
                 k == CHOOSE i \in found : TRUE
      <3>1. found # {} /\ k \in found  BY <1>2
      <3>2. Drop(as, c) = [i \in 1..(Len(as) - 1) |-> as[IF i < k THEN i ELSE i + 1]]  BY <3>1 DEF Drop
      <3> QED  BY <3>1, <3>2
    <2>2. PICK d : d = Drop(as, c)  OBVIOUS
    <2>3. PICK n \in Nat : n = Len(as) /\ DOMAIN as = 1..n /\ as \in [1..n -> Nat]  BY Numbers
    <2>4. k \in 1..n /\ d = [i \in 1..(n - 1) |-> as[IF i < k THEN i ELSE i + 1]]  BY <2>1, <2>2, <2>3
    <2>5. Remains(d, as, n, k)  BY <2>3, <2>4, Without
    <2>6. d \in Seq(Nat) /\ DOMAIN d = 1..(n - 1)  BY <2>5 DEF Remains
    <2>7. PICK at \in [1..(n - 1) -> 1..n \ {k}] :
                /\ \A i \in 1..(n - 1) : d[i] = as[at[i]]
                /\ \A j \in 1..n \ {k} : \E i \in 1..(n - 1) : at[i] = j
                /\ \A i, j \in 1..(n - 1) : at[i] = at[j] => i = j
      BY <2>5, Zenon DEF Remains
    <2>8. \A i \in DOMAIN d : at[i] \in DOMAIN as /\ d[i] = as[at[i]]
      <3>1. \A i \in 1..(n - 1) : at[i] \in 1..n  BY <2>7
      <3> QED  BY <2>3, <2>6, <2>7, <3>1
    <2>9. ASSUME NEW j \in DOMAIN as, session[as[j]].chat # c PROVE \E i \in DOMAIN d : d[i] = as[j]
      <3>1. j # k  BY <2>1, <2>9
      <3>2. j \in 1..n \ {k}  BY <2>3, <3>1
      <3>3. PICK i \in 1..(n - 1) : at[i] = j  BY <2>7, <3>2
      <3> QED  BY <2>6, <2>8, <3>3
    <2>10. ChatsDiffer(d, session)
      <3> SUFFICES ASSUME NEW i \in DOMAIN d, NEW j \in DOMAIN d, session[d[i]].chat = session[d[j]].chat PROVE i = j
        BY DEF ChatsDiffer
      <3>1. /\ at[i] \in DOMAIN as /\ at[j] \in DOMAIN as
            /\ session[as[at[i]]].chat = session[as[at[j]]].chat
        BY <2>8
      <3>2. at[i] = at[j]  BY <3>1, Zenon DEF ChatsDiffer
      <3> QED  BY <2>6, <2>7, <3>2
    <2>11. Keeps(d, as, c, session)  BY <2>6, <2>8, <2>9, <2>10 DEF Keeps
    <2> QED  BY <2>2, <2>11
  <1> QED  BY <1>1, <1>2


LEMMA PutActive ==
    ASSUME active \in Seq(Nat), NEW o \in Nat, active' = Put(active, o), ChatsDiffer(active, session')
    PROVE  /\ active' \in Seq(Nat) /\ OnePerChat' /\ o \in Listed'
           /\ \A x \in Listed' : x = o \/ (x \in Listed /\ session'[x].chat # session'[o].chat)
           /\ \A x \in Listed : session'[x].chat # session'[o].chat => x \in Listed'
  <1>1. PutsIn(active', active, o, session')  BY PutIn
  <1>2. active' \in Seq(Nat) /\ OnePerChat'  BY <1>1 DEF PutsIn, OnePerChat
  <1>3. o \in Listed'  BY <1>1 DEF PutsIn, Listed
  <1>4. ASSUME NEW x \in Listed', x # o PROVE x \in Listed /\ session'[x].chat # session'[o].chat
    <2>1. PICK i \in DOMAIN active' : x = active'[i]  BY Zenon DEF Listed
    <2> QED  BY <1>1, <1>4, <2>1 DEF PutsIn, Listed
  <1>5. ASSUME NEW x \in Listed, session'[x].chat # session'[o].chat PROVE x \in Listed'
    <2>1. PICK i \in DOMAIN active : x = active[i]  BY Zenon DEF Listed
    <2> QED  BY <1>1, <1>5, <2>1 DEF PutsIn, Listed
  <1> QED  BY <1>2, <1>3, <1>4, <1>5

\* Nothing joins the list, and those of other chats are not taken from it.
Leaves(c) ==
    /\ active' \in Seq(Nat) /\ ChatsDiffer(active', session) /\ Listed' \subseteq Listed
    /\ \A x \in Listed : session[x].chat # c => x \in Listed'

LEMMA DropActive ==
    ASSUME active \in Seq(Nat), NEW c, OnePerChat, active' \in {active, Drop(active, c)}
    PROVE  Leaves(c)
  <1>1. CASE active' = active  BY <1>1 DEF OnePerChat, Leaves, Listed
  <1>2. CASE active' = Drop(active, c)
    <2>1. Keeps(active', active, c, session)  BY <1>2, DropFrom DEF OnePerChat
    <2>2. Listed' \subseteq Listed  BY <2>1 DEF Keeps, Listed
    <2>3. \A x \in Listed : session[x].chat # c => x \in Listed'  BY <2>1 DEF Keeps, Listed
    <2> QED  BY <2>1, <2>2, <2>3 DEF Keeps, Leaves
  <1> QED  BY <1>1, <1>2

\* A task that ends takes only its own loop and entry with it.
LEMMA TaskCloses ==
    ASSUME ExpertInv, NEW t \in DOMAIN research, ResearchCloses(t)
    PROVE  ExpertInv'
  <1> DEFINE o == research[t].of
             r == [research[t] EXCEPT !.at = "done"]
  <1>1. /\ ExpertShape /\ Made /\ OnePerChat /\ Exclusive
        /\ InReach /\ Placed /\ Cleared /\ LoopHasTask
    BY DEF ExpertInv
  <1>2. /\ research[t].at = "closing" /\ inForeground' = inForeground \ {IdOf(o)}
        /\ UNCHANGED <<session, active, archive, update, overlapped>>
    BY DEF ResearchCloses
  <1>3. research[t] \in ResearchRecord /\ research \in Seq(ResearchRecord) /\ o \in DOMAIN session
    BY <1>1 DEF ExpertShape, Made
  <1>4. r \in ResearchRecord /\ r.at = "done" /\ r.of = o  BY <1>3 DEF ResearchRecord, ResearchPlaces
  <1>5. research' = [research EXCEPT ![t] = r]  BY DEF ResearchCloses, MoveTo
  <1> HIDE DEF r
  <1>6. /\ research' \in Seq(ResearchRecord) /\ DOMAIN research' = DOMAIN research
        /\ research'[t] = r /\ \A u \in DOMAIN research : u # t => research'[u] = research[u]
    BY <1>3, <1>4, <1>5, ExceptSeq
  <1>7. \A u \in DOMAIN research : research'[u].of = research[u].of
    BY <1>4, <1>6
  <1>8. \A u \in DOMAIN research : (research'[u].at # "done" => research[u].at # "done")
                                   /\ (research'[u].at = "new" <=> research[u].at = "new")
    BY <1>2, <1>4, <1>6
  <1>9. IdOf(o) \in 1..MaxSessions  BY <1>1, <1>3, IdsOfTable
  <1>10. /\ taskOf' \in [1..MaxSessions -> Nat]
         /\ \A id \in 1..MaxSessions : taskOf'[id] = IF id = IdOf(o) /\ taskOf[id] = t THEN 0 ELSE taskOf[id]
    <2>1. taskOf \in [1..MaxSessions -> Nat]  BY <1>1 DEF ExpertShape
    <2>2. taskOf' = IF taskOf[IdOf(o)] = t THEN [taskOf EXCEPT ![IdOf(o)] = 0] ELSE taskOf
      BY DEF ResearchCloses, ReleasedTask
    <2>3. CASE taskOf[IdOf(o)] = t  BY <1>9, <2>1, <2>2, <2>3
    <2>4. CASE taskOf[IdOf(o)] # t  BY <1>9, <2>1, <2>2, <2>4
    <2> QED  BY <2>3, <2>4
  <1>11. ASSUME NEW u \in DOMAIN research, Researches(u)' PROVE Researches(u) /\ u # t /\ IdOf(research[u].of) # IdOf(o)
    <2>1. u # t  BY <1>4, <1>6, <1>11 DEF Researches, Suspended
    <2>2. Researches(u)  BY <1>2, <1>6, <1>11, <2>1 DEF Researches
    <2>3. research[u].at # "done" /\ research[u].of \notin overlapped  BY <2>2 DEF Researches, Suspended
    <2>4. IdOf(research[u].of) # IdOf(o)  BY <1>1, <1>2, <2>1, <2>3 DEF Exclusive
    <2> QED  BY <2>1, <2>2, <2>4
  <1>12. ExpertShape'  BY <1>1, <1>2, <1>6, <1>10 DEF ExpertShape
  <1>13. Listed' = Listed  BY <1>2 DEF Listed
  <1>14. \A x : IdOf(x)' = IdOf(x)  BY <1>2 DEF IdOf
  <1>15. Made'  BY <1>1, <1>2, <1>6, <1>7, <1>13, <1>14 DEF Made
  <1>16. OnePerChat'  BY <1>1, <1>2 DEF OnePerChat
  <1>17. Exclusive'  BY <1>1, <1>2, <1>6, <1>7, <1>8, <1>14 DEF Exclusive
  <1>18. InReach'
    <2> SUFFICES ASSUME NEW u \in DOMAIN research, Researches(u)'
                 PROVE  /\ research[u].of \in Listed /\ taskOf'[IdOf(research[u].of)] = u
                        /\ research[u].at # "new" => IdOf(research[u].of) \in inForeground'
                        /\ session[research[u].of].status \in Blocking
      BY <1>2, <1>6, <1>7, <1>8, <1>13, <1>14 DEF InReach
    <2>1. Researches(u) /\ IdOf(research[u].of) # IdOf(o)  BY <1>11
    <2>2. /\ research[u].of \in Listed /\ taskOf[IdOf(research[u].of)] = u
          /\ research[u].at # "new" => IdOf(research[u].of) \in inForeground
          /\ session[research[u].of].status \in Blocking
      BY <1>1, <2>1 DEF InReach
    <2>3. IdOf(research[u].of) \in 1..MaxSessions
      <3>1. research[u].of \in DOMAIN session  BY <1>1 DEF Made
      <3> QED  BY <1>1, <3>1, IdsOfTable
    <2> QED  BY <1>2, <1>10, <2>1, <2>2, <2>3
  <1>19. ASSUME NEW x \in DOMAIN session, Only(x) PROVE Only(x)'
    BY <1>2, <1>6, <1>7, <1>11, <1>19 DEF Only
  <1>20. Placed'  BY <1>1, <1>2, <1>6, <1>7, <1>8, <1>19 DEF Placed, Made
  <1>21. Cleared'  BY <1>1, <1>2, <1>6, <1>7, <1>11 DEF Cleared
  <1>22. LoopHasTask'
    <2> SUFFICES ASSUME NEW id \in inForeground'
                 PROVE  \E u \in DOMAIN research' :
                            session'[research'[u].of].id = id /\ research'[u].at \notin {"new", "done"}
      BY DEF LoopHasTask, IdOf
    <2>1. id \in inForeground /\ id # session[o].id  BY <1>2 DEF IdOf
    <2>2. PICK u \in DOMAIN research : session[research[u].of].id = id /\ research[u].at \notin {"new", "done"}
      BY <1>1, <2>1 DEF LoopHasTask, IdOf
    <2>3. u # t  BY <2>1, <2>2
    <2> QED  BY <1>2, <1>6, <2>2, <2>3
  <1> QED  BY <1>12, <1>15, <1>16, <1>17, <1>18, <1>20, <1>21, <1>22 DEF ExpertInv

\* A task that begins takes the place of its chat from no other that researches.
LEMMA TaskBegins ==
    ASSUME ExpertInv, NEW t \in DOMAIN research, ResearchBegins(t)
    PROVE  ExpertInv'
  <1> DEFINE o == research[t].of
  <1>1. /\ ExpertShape /\ Made /\ OnePerChat /\ Exclusive
        /\ InReach /\ Placed /\ Cleared /\ LoopHasTask
    BY DEF ExpertInv
  <1>2. /\ research[t].at = "new" /\ ~research[t].cancelled
        /\ inForeground' = inForeground \cup {IdOf(o)} /\ active' = Put(active, o)
        /\ UNCHANGED <<taskOf, archive, update, overlapped>>
    BY DEF ResearchBegins, At
  <1>3. /\ research[t] \in ResearchRecord /\ research \in Seq(ResearchRecord) /\ o \in DOMAIN session
        /\ session \in Seq(SessionRecord) /\ session[o] \in SessionRecord
    BY <1>1 DEF ExpertShape, Made
  <1>4. \/ MoveTo(t, "round") /\ SetStatus(o, "running")
        \/ MoveTo(t, "plan") /\ UNCHANGED session
    BY DEF ResearchBegins
  <1>5. PICK r \in ResearchRecord : /\ research' = [research EXCEPT ![t] = r] /\ r.of = o
                                    /\ r.at \in Suspended /\ r.cancelled = research[t].cancelled
    <2> DEFINE q(p) == [research[t] EXCEPT !.at = p]
    <2>1. \A p \in {"round", "plan"} : q(p) \in ResearchRecord /\ q(p).at = p /\ q(p).of = o
                                       /\ q(p).cancelled = research[t].cancelled
      BY <1>3 DEF ResearchRecord, ResearchPlaces
    <2>2. \/ research' = [research EXCEPT ![t] = q("round")]
          \/ research' = [research EXCEPT ![t] = q("plan")]
      BY <1>4 DEF MoveTo
    <2> HIDE DEF q
    <2> QED  BY <2>1, <2>2 DEF Suspended
  <1>6. Rewrites(o) /\ (o \notin overlapped => session'[o].status \in Blocking)
    <2>1. CASE SetStatus(o, "running")
      <3> DEFINE q == [session[o] EXCEPT !.status = "running"]
      <3>1. q \in SessionRecord /\ q.id = session[o].id /\ q.chat = session[o].chat /\ q.status = "running"
        BY <1>3 DEF SessionRecord, SessionStatuses
      <3>2. session' = [session EXCEPT ![o] = q]  BY <2>1 DEF SetStatus
      <3> HIDE DEF q
      <3> QED  BY <1>3, <3>1, <3>2, Rewritten DEF Blocking
    <2>2. CASE UNCHANGED session
      <3>1. Rewrites(o)  BY <1>3, <2>2, Unwritten
      <3>2. o \notin overlapped => Researches(t)  BY <1>2 DEF Researches
      <3> QED  BY <1>1, <2>2, <3>1, <3>2 DEF InReach
    <2> QED  BY <1>4, <2>1, <2>2
  <1>7. /\ research' \in Seq(ResearchRecord) /\ DOMAIN research' = DOMAIN research
        /\ research'[t] = r /\ \A u \in DOMAIN research : u # t => research'[u] = research[u]
    BY <1>3, <1>5, ExceptSeq
  <1>8. /\ DOMAIN session' = DOMAIN session /\ Len(session') = Len(session)
        /\ \A x \in DOMAIN session : session'[x].id = session[x].id /\ session'[x].chat = session[x].chat
    BY <1>3, <1>6 DEF Rewrites
  <1>9. \A u \in DOMAIN research : research'[u].of = research[u].of /\ research[u].of \in DOMAIN session
    BY <1>1, <1>5, <1>7 DEF Made
  <1>10. \A u \in DOMAIN research : (research'[u].at # "done" => research[u].at # "done")
                                    /\ (research'[u].at = "new" => research[u].at = "new")
    BY <1>2, <1>5, <1>7 DEF Suspended
  <1>11. ASSUME NEW u \in DOMAIN research, Researches(u)' PROVE Researches(u)
    <2>1. CASE u = t  BY <1>2, <1>5, <1>7, <1>11, <2>1 DEF Researches
    <2>2. CASE u # t  BY <1>2, <1>7, <1>11, <2>2 DEF Researches
    <2> QED  BY <2>1, <2>2
  <1>12. \A x \in Listed : x \in DOMAIN session /\ session'[x].chat = session[x].chat  BY <1>1, <1>8 DEF Made
  <1>13. ChatsDiffer(active, session')
    <2>1. \A i \in DOMAIN active : session'[active[i]].chat = session[active[i]].chat  BY <1>12 DEF Listed
    <2> QED  BY <1>1, <2>1 DEF OnePerChat, ChatsDiffer
  <1>14. /\ active' \in Seq(Nat) /\ OnePerChat' /\ o \in Listed'
         /\ \A x \in Listed' : x = o \/ x \in Listed
         /\ \A x \in Listed : session'[x].chat # session'[o].chat => x \in Listed'
    <2>1. active \in Seq(Nat) /\ o \in Nat  BY <1>1, <1>3 DEF ExpertShape
    <2> QED  BY <1>2, <1>13, <2>1, PutActive
  <1>15. ExpertShape'
    <2>1. IdOf(o) \in Nat  BY <1>3 DEF IdOf, SessionRecord
    <2> QED  BY <1>1, <1>2, <1>6, <1>7, <1>8, <1>14, <2>1 DEF ExpertShape, Rewrites
  <1>16. Made'  BY <1>1, <1>2, <1>3, <1>7, <1>8, <1>9, <1>14 DEF Made, IdOf
  <1>17. Exclusive'  BY <1>1, <1>2, <1>7, <1>8, <1>9, <1>10 DEF Exclusive, IdOf
  <1>18. InReach'
    <2> SUFFICES ASSUME NEW u \in DOMAIN research, Researches(u)'
                 PROVE  /\ research[u].of \in Listed' /\ taskOf[session[research[u].of].id] = u
                        /\ research'[u].at # "new" => session[research[u].of].id \in inForeground'
                        /\ session'[research[u].of].status \in Blocking
      BY <1>2, <1>7, <1>8, <1>9 DEF InReach, IdOf
    <2>1. Researches(u)  BY <1>11
    <2>2. /\ research[u].of \in Listed /\ taskOf[session[research[u].of].id] = u
          /\ research[u].at # "new" => session[research[u].of].id \in inForeground
          /\ session[research[u].of].status \in Blocking
      BY <1>1, <2>1 DEF InReach, IdOf
    <2>3. research[u].of \notin overlapped  BY <2>1 DEF Researches
    <2>4. CASE u = t  BY <1>2, <1>6, <1>14, <2>2, <2>3, <2>4 DEF IdOf
    <2>5. CASE u # t
      <3>1. research[u].at # "done" /\ research[t].at # "done"  BY <1>2, <2>1 DEF Researches, Suspended
      <3>2. research[u].of # o  BY <1>1, <2>3, <2>5, <3>1 DEF Exclusive
      <3>3. session'[research[u].of] = session[research[u].of]  BY <1>6, <1>9, <3>2 DEF Rewrites
      <3>4. Only(o)  BY <1>1, <1>2 DEF Placed
      <3>5. session[research[u].of].chat # session[o].chat  BY <2>1, <3>2, <3>4 DEF Only
      <3>6. research[u].of \in Listed'  BY <1>3, <1>8, <1>14, <2>2, <3>3, <3>5
      <3> QED  BY <1>2, <1>7, <2>2, <2>5, <3>3, <3>6
    <2> QED  BY <2>4, <2>5
  <1>19. ASSUME NEW x \in DOMAIN session, Only(x) PROVE Only(x)'
    BY <1>7, <1>8, <1>9, <1>11, <1>19 DEF Only
  <1>20. Placed'  BY <1>1, <1>2, <1>7, <1>9, <1>10, <1>19 DEF Placed, Made
  <1>21. Cleared'  BY <1>1, <1>2, <1>7, <1>8, <1>9, <1>11 DEF Cleared
  <1>22. LoopHasTask'
    <2> SUFFICES ASSUME NEW id \in inForeground'
                 PROVE  \E u \in DOMAIN research' :
                            session'[research'[u].of].id = id /\ research'[u].at \notin {"new", "done"}
      BY DEF LoopHasTask, IdOf
    <2>1. CASE id = session[o].id  BY <1>3, <1>5, <1>7, <1>8, <2>1 DEF Suspended
    <2>2. CASE id \in inForeground
      <3>1. PICK u \in DOMAIN research : session[research[u].of].id = id /\ research[u].at \notin {"new", "done"}
        BY <1>1, <2>2 DEF LoopHasTask, IdOf
      <3>2. u # t  BY <1>2, <3>1
      <3> QED  BY <1>7, <1>8, <1>9, <3>1, <3>2
    <2> QED  BY <1>2, <2>1, <2>2 DEF IdOf
  <1> QED  BY <1>14, <1>15, <1>16, <1>17, <1>18, <1>20, <1>21, <1>22 DEF ExpertInv

-----------------------------------------------------------------------------
(* Steps of a handler *)

\* A handler that starts, goes on or ends without a task.
LEMMA HandlerWaits ==
    ASSUME ExpertInv, NEW o, Rewrites(o),
           o \in DOMAIN session => session'[o].status \in Blocking \cup {session[o].status},
           UNCHANGED <<active, taskOf, research, inForeground, overlapped>>, archive' \subseteq archive,
           update' \in UpdateRecord,
           update'.at \in Conversing \cup {"label"} =>
               update'.of \in DOMAIN session /\ update'.chat = session[update'.of].chat,
           update'.at \in Conversing => Only(update'.of),
           update'.at \in {"topic", "label"} =>
               \A t \in DOMAIN research : Researches(t) => session[research[t].of].chat # update'.chat
    PROVE  ExpertInv'
  <1>1. /\ ExpertShape /\ Made /\ OnePerChat /\ Exclusive
        /\ InReach /\ Placed /\ Cleared /\ LoopHasTask
    BY DEF ExpertInv
  <1>2. /\ DOMAIN session' = DOMAIN session /\ Len(session') = Len(session) /\ session' \in Seq(SessionRecord)
        /\ \A x \in DOMAIN session : session'[x].id = session[x].id /\ session'[x].chat = session[x].chat
    BY <1>1 DEF Rewrites, ExpertShape
  <1>3. \A t \in DOMAIN research : Researches(t)' <=> Researches(t)  BY DEF Researches
  <1>4. \A t \in DOMAIN research : research[t].of \in DOMAIN session  BY <1>1 DEF Made
  <1>5. Listed' = Listed /\ Listed \subseteq DOMAIN session  BY <1>1 DEF Listed, Made
  <1>6. ExpertShape'  BY <1>1, <1>2 DEF ExpertShape
  <1>7. Made'  BY <1>1, <1>2, <1>5 DEF Made, IdOf
  <1>8. OnePerChat'
    <2>1. \A i \in DOMAIN active : session'[active[i]].chat = session[active[i]].chat  BY <1>2, <1>5 DEF Listed
    <2> QED  BY <1>1, <2>1 DEF OnePerChat, ChatsDiffer
  <1>9. Exclusive'  BY <1>1, <1>2, <1>4 DEF Exclusive, IdOf
  <1>10. InReach'
    <2> SUFFICES ASSUME NEW t \in DOMAIN research, Researches(t)
                 PROVE  /\ research[t].of \in Listed /\ taskOf[session[research[t].of].id] = t
                        /\ research[t].at # "new" => session[research[t].of].id \in inForeground
                        /\ session'[research[t].of].status \in Blocking
      BY <1>2, <1>3, <1>4, <1>5 DEF InReach, IdOf
    <2>1. /\ research[t].of \in Listed /\ taskOf[session[research[t].of].id] = t
          /\ research[t].at # "new" => session[research[t].of].id \in inForeground
          /\ session[research[t].of].status \in Blocking
      BY <1>1 DEF InReach, IdOf
    <2>2. session'[research[t].of].status \in Blocking
      <3>1. CASE research[t].of = o  BY <1>4, <2>1, <3>1
      <3>2. CASE research[t].of # o  BY <1>4, <2>1, <3>2 DEF Rewrites
      <3> QED  BY <3>1, <3>2
    <2> QED  BY <2>1, <2>2
  <1>11. \A x \in DOMAIN session : Only(x)' <=> Only(x)  BY <1>2, <1>3, <1>4 DEF Only
  <1>12. Placed'  BY <1>1, <1>4, <1>11 DEF Placed
  <1>13. Cleared'  BY <1>2, <1>3, <1>4 DEF Cleared
  <1>14. LoopHasTask'  BY <1>1, <1>2, <1>4 DEF LoopHasTask, IdOf
  <1> QED  BY <1>6, <1>7, <1>8, <1>9, <1>10, <1>12, <1>13, <1>14 DEF ExpertInv

\* task.cancel() leaves no task that researches, and changes no other.
Cancels(t, rs) ==
    /\ rs \in Seq(ResearchRecord) /\ DOMAIN rs = DOMAIN research
    /\ \A u \in DOMAIN research : /\ rs[u].of = research[u].of
                                  /\ rs[u].at = research[u].at \/ (research[u].at = "new" /\ rs[u].at = "done")
                                  /\ research[u].cancelled => rs[u].cancelled
    /\ \A u \in DOMAIN research : rs[u].at \in Suspended \cup {"new"} /\ ~rs[u].cancelled => u # t

LEMMA CancelStops ==
    ASSUME research \in Seq(ResearchRecord), NEW t \in Nat
    PROVE  Cancels(t, Cancelled(t))
  <1>1. PICK rs : rs = Cancelled(t)  OBVIOUS
  <1>2. 0 \notin DOMAIN research /\ \A u \in DOMAIN research : research[u] \in ResearchRecord  OBVIOUS
  <1>3. CASE TaskLive(t) /\ t \in DOMAIN research
    <2> DEFINE q == research[t]
               r == CASE q.at = "new" -> [q EXCEPT !.at = "done"]
                      [] q.at = "closing" -> q
                      [] OTHER -> [q EXCEPT !.cancelled = TRUE]
    <2>1. rs = [research EXCEPT ![t] = r]  BY <1>1, <1>3 DEF Cancelled
    <2>2. q \in ResearchRecord /\ q.at # "done"  BY <1>2, <1>3 DEF TaskLive
    <2>3. /\ r \in ResearchRecord /\ r.of = q.of /\ (q.cancelled => r.cancelled)
          /\ r.at = q.at \/ (q.at = "new" /\ r.at = "done")
          /\ ~(r.at \in Suspended \cup {"new"} /\ ~r.cancelled)
      <3>1. CASE q.at = "new"
        <4>1. r = [q EXCEPT !.at = "done"]  BY <3>1
        <4> HIDE DEF r
        <4> QED  BY <2>2, <3>1, <4>1 DEF ResearchRecord, ResearchPlaces, Suspended
      <3>2. CASE q.at = "closing"
        <4>1. r = q  BY <3>2
        <4> HIDE DEF r
        <4> QED  BY <2>2, <3>2, <4>1 DEF Suspended
      <3>3. CASE q.at # "new" /\ q.at # "closing"
        <4>1. r = [q EXCEPT !.cancelled = TRUE]  BY <3>3
        <4> HIDE DEF r
        <4> QED  BY <2>2, <3>3, <4>1 DEF ResearchRecord
      <3> QED  BY <3>1, <3>2, <3>3
    <2> HIDE DEF r
    <2>4. rs \in Seq(ResearchRecord) /\ DOMAIN rs = DOMAIN research  BY <1>3, <2>1, <2>3, ExceptSeq
    <2>5. rs[t] = r /\ \A u \in DOMAIN research : u # t => rs[u] = research[u]  BY <1>3, <2>1
    <2>6. Cancels(t, rs)  BY <2>3, <2>4, <2>5 DEF Cancels
    <2> QED  BY <1>1, <2>6
  <1>4. CASE ~(TaskLive(t) /\ t \in DOMAIN research)
    <2>1. rs = research
      <3>1. CASE TaskLive(t)
        <4>1. t \notin DOMAIN research  BY <1>4, <3>1
        <4>2. PICK r : rs = [research EXCEPT ![t] = r]  BY <1>1, <3>1 DEF Cancelled
        <4> QED  BY <4>1, <4>2
      <3>2. CASE ~TaskLive(t)  BY <1>1, <3>2 DEF Cancelled
      <3> QED  BY <3>1, <3>2
    <2>2. Cancels(t, research)
      <3>1. t \in DOMAIN research => research[t].at = "done"  BY <1>2, <1>4 DEF TaskLive
      <3> QED  BY <3>1 DEF Cancels, Suspended
    <2> QED  BY <1>1, <2>1, <2>2
  <1> QED  BY <1>3, <1>4

\* The task of a session is cancelled, and the session closed, cancelled or left.
Stops(o) ==
    /\ research' \in Seq(ResearchRecord) /\ DOMAIN research' = DOMAIN research
    /\ \A u \in DOMAIN research : /\ research'[u].of = research[u].of
                                  /\ research'[u].at = research[u].at
                                        \/ (research[u].at = "new" /\ research'[u].at = "done")
    /\ taskOf' \in [1..MaxSessions -> Nat]
    /\ \A u \in DOMAIN research : Researches(u)' =>
          /\ Researches(u) /\ session[research[u].of].chat # session[o].chat
          /\ taskOf'[session[research[u].of].id] = taskOf[session[research[u].of].id]

LEMMA StopTaskStops ==
    ASSUME ExpertInv, NEW o \in DOMAIN session, StopTask(o), Only(o), overlapped' = overlapped
    PROVE  Stops(o)
  <1> DEFINE t == taskOf[IdOf(o)]
  <1>1. IdOf(o) \in 1..MaxSessions /\ taskOf \in [1..MaxSessions -> Nat] /\ research \in Seq(ResearchRecord)
    BY IdsOfTable DEF ExpertInv, ExpertShape
  <1>2. Cancels(t, research')
    <2>1. t \in Nat  BY <1>1
    <2>2. research' = Cancelled(t)  BY DEF StopTask
    <2> HIDE DEF t
    <2> QED  BY <1>1, <2>1, <2>2, CancelStops
  <1>3. /\ taskOf' \in [1..MaxSessions -> Nat]
        /\ \A id \in 1..MaxSessions : id # IdOf(o) => taskOf'[id] = taskOf[id]
    BY <1>1 DEF StopTask
  <1>4. ASSUME NEW u \in DOMAIN research, Researches(u)'
        PROVE  /\ Researches(u) /\ session[research[u].of].chat # session[o].chat
               /\ taskOf'[session[research[u].of].id] = taskOf[session[research[u].of].id]
    <2>1. research'[u].at \in Suspended \cup {"new"} /\ ~research'[u].cancelled /\ research'[u].of \notin overlapped
      BY <1>4 DEF Researches
    <2>2. u # t /\ Researches(u)  BY <1>2, <2>1 DEF Cancels, Researches, Suspended
    <2>3. taskOf[session[research[u].of].id] = u  BY <2>2 DEF ExpertInv, InReach, IdOf
    <2>4. session[research[u].of].id # IdOf(o)  BY <2>2, <2>3
    <2>5. research[u].of # o  BY <2>4 DEF IdOf
    <2>6. session[research[u].of].chat # session[o].chat  BY <2>2, <2>5 DEF Only
    <2>7. session[research[u].of].id \in 1..MaxSessions
      <3>1. research[u].of \in DOMAIN session  BY DEF ExpertInv, Made
      <3> QED  BY <3>1, IdsOfTable DEF ExpertInv, IdOf
    <2> QED  BY <1>3, <2>2, <2>4, <2>6, <2>7
  <1> QED  BY <1>2, <1>3, <1>4 DEF Cancels, Stops

LEMMA SessionEnds ==
    ASSUME ExpertInv, NEW o \in DOMAIN session, Stops(o), Rewrites(o), Leaves(session[o].chat),
           archive' \subseteq archive \cup {IdOf(o)}, UNCHANGED <<inForeground, overlapped>>,
           update' \in UpdateRecord, update'.at \in {"none", "label"},
           update'.at = "label" => update'.of = o /\ update'.chat = session[o].chat
    PROVE  ExpertInv'
  <1>1. /\ ExpertShape /\ Made /\ OnePerChat /\ Exclusive
        /\ InReach /\ Placed /\ Cleared /\ LoopHasTask
    BY DEF ExpertInv
  <1>2. /\ DOMAIN session' = DOMAIN session /\ Len(session') = Len(session) /\ session' \in Seq(SessionRecord)
        /\ \A x \in DOMAIN session : session'[x].id = session[x].id /\ session'[x].chat = session[x].chat
    BY <1>1 DEF Rewrites, ExpertShape
  <1>3. /\ research' \in Seq(ResearchRecord) /\ DOMAIN research' = DOMAIN research
        /\ \A u \in DOMAIN research : research'[u].of = research[u].of /\ research[u].of \in DOMAIN session
    BY <1>1 DEF Stops, Made
  <1>4. \A u \in DOMAIN research : (research'[u].at # "done" => research[u].at # "done")
                                   /\ (research'[u].at = "new" => research[u].at = "new")
                                   /\ (research[u].at \notin {"new", "done"} => research'[u].at \notin {"new", "done"})
    BY DEF Stops
  <1>5. \A u \in DOMAIN research : Researches(u)' => Researches(u)  BY DEF Stops
  <1>6. /\ active' \in Seq(Nat) /\ ChatsDiffer(active', session) /\ Listed' \subseteq Listed
        /\ Listed \subseteq DOMAIN session
    BY <1>1 DEF Leaves, Made
  <1>7. session[o] \in SessionRecord /\ IdOf(o) \in Nat /\ IdOf(o) <= Len(session)
    <2>1. session[o] \in SessionRecord /\ o \in Nat /\ o <= Len(session) /\ Len(session) \in Nat
      BY <1>1 DEF ExpertShape
    <2>2. IdOf(o) \in Nat /\ IdOf(o) <= o  BY <1>1, <2>1 DEF Made, IdOf, SessionRecord
    <2> QED  BY <2>1, <2>2
  <1>8. ExpertShape'  BY <1>1, <1>2, <1>3, <1>6, <1>7 DEF ExpertShape, Stops
  <1>9. Made'  BY <1>1, <1>2, <1>3, <1>6, <1>7 DEF Made, IdOf, Conversing
  <1>10. OnePerChat'
    <2>1. \A i \in DOMAIN active' : session'[active'[i]].chat = session[active'[i]].chat  BY <1>2, <1>6 DEF Listed
    <2> QED  BY <1>6, <2>1 DEF OnePerChat, ChatsDiffer
  <1>11. Exclusive'  BY <1>1, <1>2, <1>3, <1>4 DEF Exclusive, IdOf
  <1>12. InReach'
    <2> SUFFICES ASSUME NEW t \in DOMAIN research, Researches(t)'
                 PROVE  /\ research[t].of \in Listed' /\ taskOf'[session[research[t].of].id] = t
                        /\ research'[t].at # "new" => session[research[t].of].id \in inForeground
                        /\ session'[research[t].of].status \in Blocking
      BY <1>2, <1>3 DEF InReach, IdOf
    <2>1. Researches(t)  BY <1>5
    <2>2. /\ research[t].of \in Listed /\ taskOf[session[research[t].of].id] = t
          /\ research[t].at # "new" => session[research[t].of].id \in inForeground
          /\ session[research[t].of].status \in Blocking
      BY <1>1, <2>1 DEF InReach, IdOf
    <2>3. /\ session[research[t].of].chat # session[o].chat
          /\ taskOf'[session[research[t].of].id] = taskOf[session[research[t].of].id]
      BY DEF Stops
    <2>4. session'[research[t].of] = session[research[t].of]  BY <1>3, <2>3 DEF Rewrites
    <2>5. research[t].of \in Listed'  BY <2>2, <2>3 DEF Leaves
    <2>6. research'[t].at # "new" => research[t].at # "new"
      <3>1. research'[t].at # "done"  BY DEF Researches, Suspended
      <3> QED  BY <3>1 DEF Stops
    <2> QED  BY <2>2, <2>3, <2>4, <2>5, <2>6
  <1>13. ASSUME NEW x \in DOMAIN session, Only(x) PROVE Only(x)'
    BY <1>2, <1>3, <1>5, <1>13 DEF Only
  <1>14. Placed'  BY <1>1, <1>3, <1>4, <1>13 DEF Placed, Conversing
  <1>15. Cleared'  BY <1>2, <1>3 DEF Cleared, Stops
  <1>16. LoopHasTask'
    <2> SUFFICES ASSUME NEW id \in inForeground
                 PROVE  \E u \in DOMAIN research' :
                            session'[research'[u].of].id = id /\ research'[u].at \notin {"new", "done"}
      BY DEF LoopHasTask, IdOf
    <2>1. PICK u \in DOMAIN research : session[research[u].of].id = id /\ research[u].at \notin {"new", "done"}
      BY <1>1 DEF LoopHasTask, IdOf
    <2> QED  BY <1>2, <1>3, <1>4, <2>1
  <1> QED  BY <1>8, <1>9, <1>10, <1>11, <1>12, <1>14, <1>15, <1>16 DEF ExpertInv

\* A sequence with one more entry.
Grows(g, s, e) ==
    /\ Len(s) \in Nat /\ Len(g) = Len(s) + 1 /\ Len(s) + 1 \notin DOMAIN s
    /\ DOMAIN s \subseteq DOMAIN g /\ Len(s) + 1 \in DOMAIN g /\ g[Len(s) + 1] = e
    /\ \A i \in DOMAIN s : g[i] = s[i] /\ i <= Len(s) /\ i \in Nat
    /\ \A i \in DOMAIN g : i \in DOMAIN s \/ i = Len(s) + 1

LEMMA SameEnd == ASSUME NEW m \in Nat, NEW n \in Nat, 1..m = 1..n PROVE m = n
  <1>1. m # 0 => m \in 1..n  OBVIOUS
  <1>2. n # 0 => n \in 1..m  OBVIOUS
  <1> QED  BY <1>1, <1>2

LEMMA Grown ==
    ASSUME NEW S, NEW s \in Seq(S), NEW e \in S, NEW g, g = Append(s, e)
    PROVE  g \in Seq(S) /\ Grows(g, s, e)
  <1>1. g \in Seq(S)  BY AppendProperties
  <1>2. Len(g) = Len(s) + 1  BY AppendProperties
  <1>3. PICK n \in Nat : n = Len(s) /\ DOMAIN s = 1..n  BY LenProperties
  <1>4. \A i \in 1..n : g[i] = s[i]  BY <1>3, AppendProperties
  <1>5. g[n + 1] = e  BY <1>3, AppendProperties
  <1>6. DOMAIN g = 1..(n + 1)  BY <1>1, <1>2, <1>3, LenProperties
  <1>7. n \in Nat  BY <1>3
  <1>8. /\ n + 1 \notin 1..n /\ 1..n \subseteq 1..(n + 1) /\ n + 1 \in 1..(n + 1)
        /\ \A i \in 1..(n + 1) : i \in 1..n \/ i = n + 1
        /\ \A i \in 1..n : i <= n /\ i \in Nat
    BY <1>7
  <1> QED  BY <1>1, <1>2, <1>3, <1>4, <1>5, <1>6, <1>8 DEF Grows

LEMMA NoUpdateTyped == ASSUME ExpertShape PROVE NoUpdate \in UpdateRecord /\ NoUpdate.at = "none"
  BY DEF NoUpdate, UpdateRecord, SomeChats

\* A session that has its agenda is given a task again, or another one.
LEMMA SessionRestarts ==
    ASSUME ExpertInv, NEW o \in DOMAIN session, TasksBegun, Only(o), Rewrites(o), StartTask(o),
           update' = NoUpdate, UNCHANGED <<active, inForeground, archive>>
    PROVE  ExpertInv'
  <1> DEFINE id == session[o].id
             n == Len(research) + 1
             e == [at |-> "new", of |-> o, cancelled |-> FALSE]
  <1>1. /\ ExpertShape /\ Made /\ OnePerChat /\ Exclusive
        /\ InReach /\ Placed /\ Cleared /\ LoopHasTask
    BY DEF ExpertInv
  <1>2. /\ DOMAIN session' = DOMAIN session /\ Len(session') = Len(session) /\ session' \in Seq(SessionRecord)
        /\ \A x \in DOMAIN session : session'[x].id = session[x].id /\ session'[x].chat = session[x].chat
    BY <1>1 DEF Rewrites, ExpertShape
  <1>3. id \in 1..MaxSessions /\ taskOf \in [1..MaxSessions -> Nat] /\ research \in Seq(ResearchRecord)
    BY <1>1, IdsOfTable DEF ExpertShape, IdOf
  <1>4. PICK rs : rs = Cancelled(taskOf[id])  OBVIOUS
  <1>5. Cancels(taskOf[id], rs)
    <2>1. taskOf[id] \in Nat  BY <1>3
    <2> QED  BY <1>3, <1>4, <2>1, CancelStops
  <1>6. research' \in Seq(ResearchRecord) /\ Grows(research', rs, e)
    <2>1. e \in ResearchRecord  BY <1>1, <1>2 DEF ResearchRecord, ResearchPlaces, ExpertShape
    <2>2. research' = Append(rs, e)  BY <1>4 DEF StartTask, IdOf
    <2>3. rs \in Seq(ResearchRecord)  BY <1>5 DEF Cancels
    <2> HIDE DEF e
    <2> QED  BY <2>1, <2>2, <2>3, Grown
  <1>7. Len(rs) = Len(research) /\ DOMAIN rs = DOMAIN research /\ n \in Nat
    <2>1. DOMAIN rs = DOMAIN research /\ rs \in Seq(ResearchRecord)  BY <1>5 DEF Cancels
    <2>2. Len(rs) = Len(research)
      <3>1. Len(rs) \in Nat /\ DOMAIN rs = 1..Len(rs)  BY <2>1, LenProperties
      <3>2. Len(research) \in Nat /\ DOMAIN research = 1..Len(research)  BY <1>3, LenProperties
      <3>3. 1..Len(rs) = 1..Len(research)  BY <2>1, <3>1, <3>2
      <3> QED  BY <3>1, <3>2, <3>3, SameEnd
    <2>3. Len(research) \in Nat  BY <1>3, LenProperties
    <2> QED  BY <2>1, <2>2, <2>3
  <1>8. /\ n \notin DOMAIN research /\ n \in DOMAIN research' /\ research'[n] = e
        /\ DOMAIN research \subseteq DOMAIN research' /\ \A u \in DOMAIN research' : u \in DOMAIN research \/ u = n
        /\ \A u \in DOMAIN research : research'[u] = rs[u]
    BY <1>6, <1>7 DEF Grows
  <1> HIDE DEF n
  <1>9. \A u \in DOMAIN research : research'[u].of = research[u].of /\ research[u].of \in DOMAIN session
    BY <1>1, <1>5, <1>8 DEF Cancels, Made
  <1>10. \A u \in DOMAIN research : (research'[u].at # "done" => research[u].at # "done")
                                    /\ research'[u].at # "new"
                                    /\ (research[u].at \notin {"new", "done"} => research'[u].at \notin {"new", "done"})
    <2>1. \A u \in DOMAIN research : research[u].at # "new"  BY DEF TasksBegun
    <2> QED  BY <1>5, <1>8, <2>1 DEF Cancels
  <1>11. overlapped \subseteq overlapped' /\ (o \notin overlapped' => InPlace(o))
    BY DEF StartTask
  <1>12. ASSUME NEW u \in DOMAIN research, research[u].at # "done", session[research[u].of].id = id
         PROVE  {o, research[u].of} \subseteq overlapped'
    <2>1. u # 0  BY <1>3
    <2>2. u \in {v \in DOMAIN research : TaskLive(v) /\ IdOf(research[v].of) = IdOf(o)}
      BY <1>12, <2>1 DEF TaskLive, IdOf
    <2>3. {o, research[u].of} \subseteq Overlapping(o)  BY <2>2 DEF Overlapping
    <2> QED  BY <2>3 DEF StartTask
  <1>13. ASSUME NEW u \in DOMAIN research, Researches(u)'
         PROVE  Researches(u) /\ session[research[u].of].id # id
    <2>1. rs[u].at \in Suspended \cup {"new"} /\ ~rs[u].cancelled /\ research[u].of \notin overlapped'
      BY <1>8, <1>9, <1>13 DEF Researches
    <2>2. Researches(u)  BY <1>5, <1>11, <2>1 DEF Cancels, Researches, Suspended
    <2>3. research[u].at # "done"  BY <2>2 DEF Researches, Suspended
    <2> QED  BY <1>12, <2>1, <2>2, <2>3
  <1>14. /\ taskOf' \in [1..MaxSessions -> Nat] /\ taskOf'[id] = n
         /\ \A i \in 1..MaxSessions : i # id => taskOf'[i] = taskOf[i]
    <2>1. taskOf' = [taskOf EXCEPT ![id] = n] /\ n \in Nat  BY <1>7 DEF StartTask, IdOf, n
    <2> QED  BY <1>3, <2>1
  <1>15. ExpertShape'  BY <1>1, <1>2, <1>6, <1>14, NoUpdateTyped DEF ExpertShape
  <1>16. Listed' = Listed /\ Listed \subseteq DOMAIN session  BY <1>1 DEF Listed, Made
  <1>17. update'.at = "none"  BY <1>1, NoUpdateTyped
  <1>18. Made'  BY <1>1, <1>2, <1>8, <1>9, <1>16, <1>17 DEF Made, IdOf, Conversing
  <1>19. OnePerChat'
    <2>1. \A i \in DOMAIN active : session'[active[i]].chat = session[active[i]].chat  BY <1>2, <1>16 DEF Listed
    <2> QED  BY <1>1, <2>1 DEF OnePerChat, ChatsDiffer
  <1>20. Exclusive'
    <2> SUFFICES ASSUME NEW t \in DOMAIN research', NEW u \in DOMAIN research', t # u,
                        research'[t].at # "done", research'[u].at # "done",
                        session'[research'[t].of].id = session'[research'[u].of].id
                 PROVE  research'[t].of \in overlapped'
      BY DEF Exclusive, IdOf
    <2>1. CASE t \in DOMAIN research /\ u \in DOMAIN research
      BY <1>1, <1>2, <1>9, <1>10, <1>11, <2>1 DEF Exclusive, IdOf
    <2>2. CASE t = n /\ u \in DOMAIN research
      <3>1. research'[t].of = o  BY <1>8, <2>2
      <3>2. session[research[u].of].id = id /\ research[u].at # "done"  BY <1>2, <1>9, <1>10, <2>2, <3>1
      <3> QED  BY <1>12, <2>2, <3>1, <3>2
    <2>3. CASE t \in DOMAIN research /\ u = n
      <3>1. research'[u].of = o  BY <1>8, <2>3
      <3>2. session[research[t].of].id = id /\ research[t].at # "done"  BY <1>2, <1>9, <1>10, <2>3, <3>1
      <3> QED  BY <1>9, <1>12, <2>3, <3>2
    <2> QED  BY <1>8, <2>1, <2>2, <2>3
  <1>21. InReach'
    <2> SUFFICES ASSUME NEW t \in DOMAIN research', Researches(t)'
                 PROVE  /\ research'[t].of \in Listed /\ taskOf'[session'[research'[t].of].id] = t
                        /\ research'[t].at # "new" => session'[research'[t].of].id \in inForeground
                        /\ session'[research'[t].of].status \in Blocking
      BY <1>16 DEF InReach, IdOf
    <2>1. CASE t = n
      <3>1. research'[t].of = o /\ research'[t].at = "new"  BY <1>8, <2>1
      <3>2. InPlace(o)  BY <1>11, <3>1 DEF Researches
      <3>3. session'[o].status = "running" /\ o \in Listed  BY <3>2 DEF InPlace, ActiveIn, Listed
      <3> QED  BY <1>2, <1>14, <2>1, <3>1, <3>3 DEF Blocking
    <2>2. CASE t \in DOMAIN research
      <3>1. Researches(t) /\ session[research[t].of].id # id  BY <1>13, <2>2
      <3>2. /\ research[t].of \in Listed /\ taskOf[session[research[t].of].id] = t
            /\ research[t].at # "new" => session[research[t].of].id \in inForeground
            /\ session[research[t].of].status \in Blocking
        BY <1>1, <2>2, <3>1 DEF InReach, IdOf
      <3>3. session[research[t].of].id \in 1..MaxSessions  BY <1>1, <1>9, <2>2, IdsOfTable DEF IdOf
      <3>4. session'[research[t].of] = session[research[t].of]  BY <1>9, <2>2, <3>1 DEF Rewrites
      <3>5. research[t].at # "new"  BY <2>2 DEF TasksBegun
      <3> QED  BY <1>9, <1>14, <2>2, <3>1, <3>2, <3>3, <3>4, <3>5
    <2> QED  BY <1>8, <2>1, <2>2
  <1>22. Only(o)'
    <2> SUFFICES ASSUME NEW t \in DOMAIN research', Researches(t)', research'[t].of # o
                 PROVE  session'[research'[t].of].chat # session'[o].chat
      BY DEF Only
    <2>1. t \in DOMAIN research  BY <1>8
    <2>2. Researches(t)  BY <1>13, <2>1
    <2> QED  BY <1>2, <1>9, <2>1, <2>2 DEF Only
  <1>23. Placed'
    <2>1. \A u \in DOMAIN research' : research'[u].at = "new" => research'[u].of = o  BY <1>8, <1>10
    <2> QED  BY <1>17, <1>22, <2>1 DEF Placed, Conversing
  <1>24. Cleared'  BY <1>17 DEF Cleared
  <1>25. LoopHasTask'
    <2> SUFFICES ASSUME NEW i \in inForeground
                 PROVE  \E u \in DOMAIN research' :
                            session'[research'[u].of].id = i /\ research'[u].at \notin {"new", "done"}
      BY DEF LoopHasTask, IdOf
    <2>1. PICK u \in DOMAIN research : session[research[u].of].id = i /\ research[u].at \notin {"new", "done"}
      BY <1>1 DEF LoopHasTask, IdOf
    <2> QED  BY <1>2, <1>8, <1>9, <1>10, <2>1
  <1> QED  BY <1>15, <1>18, <1>19, <1>20, <1>21, <1>23, <1>24, <1>25 DEF ExpertInv

\* A new session with its task, in a chat where nothing researches.
LEMMA SessionStarts ==
    ASSUME ExpertInv, NEW c \in SomeChats, TasksBegun, Started(c), update' = NoUpdate,
           \A t \in DOMAIN research : Researches(t) => session[research[t].of].chat # c,
           UNCHANGED <<inForeground, archive, overlapped>>
    PROVE  ExpertInv'
  <1> DEFINE o == Len(session) + 1
             n == Len(research) + 1
             e == [at |-> "new", of |-> o, cancelled |-> FALSE]
             s == NewSession(c)
  <1>1. /\ ExpertShape /\ Made /\ OnePerChat /\ Exclusive
        /\ InReach /\ Placed /\ Cleared /\ LoopHasTask
    BY DEF ExpertInv
  <1>2. /\ session \in Seq(SessionRecord) /\ research \in Seq(ResearchRecord)
        /\ Len(session) \in Nat /\ Len(research) \in Nat /\ Len(session) < MaxSessions /\ MaxSessions \in Nat
    BY <1>1, ExpertAssumption, LenProperties DEF ExpertShape, Started
  <1>3. o \in Nat /\ n \in Nat /\ o \in 1..MaxSessions /\ n # 0  BY <1>2
  <1>4. s \in SessionRecord /\ s.id = o /\ s.chat = c /\ s.status = "running"
    <2>1. o \in Nat \ {0}  BY <1>2
    <2> QED  BY <2>1, ExpertAssumption DEF NewSession, SessionRecord, SessionStatuses
  <1>5. session' \in Seq(SessionRecord) /\ Grows(session', session, s)
    <2>1. session' = Append(session, s)  BY DEF Started
    <2> HIDE DEF s
    <2> QED  BY <1>2, <1>4, <2>1, Grown
  <1>6. research' \in Seq(ResearchRecord) /\ Grows(research', research, e)
    <2>1. e \in ResearchRecord  BY <1>3 DEF ResearchRecord, ResearchPlaces
    <2>2. research' = Append(research, e)  BY DEF Started
    <2> HIDE DEF e
    <2> QED  BY <1>2, <2>1, <2>2, Grown
  <1>7. /\ o \notin DOMAIN session /\ o \in DOMAIN session' /\ session'[o] = s
        /\ Len(session') = o /\ Len(session) <= o /\ o <= MaxSessions
        /\ \A x \in DOMAIN session : x \in DOMAIN session' /\ session'[x] = session[x]
        /\ \A x \in DOMAIN session' : x \in DOMAIN session \/ x = o
    BY <1>2, <1>3, <1>5 DEF Grows
  <1>8. /\ n \notin DOMAIN research /\ n \in DOMAIN research' /\ research'[n] = e
        /\ \A u \in DOMAIN research : u \in DOMAIN research' /\ research'[u] = research[u]
        /\ \A u \in DOMAIN research' : u \in DOMAIN research \/ u = n
    BY <1>6 DEF Grows
  <1>9. taskOf \in [1..MaxSessions -> Nat] /\ taskOf' = [taskOf EXCEPT ![o] = n]
    BY <1>1 DEF ExpertShape, Started
  <1>10. active \in Seq(Nat) /\ active' = Put(active, o)  BY <1>1 DEF ExpertShape, Started
  <1> HIDE DEF o, n, s
  <1>11. /\ taskOf' \in [1..MaxSessions -> Nat] /\ taskOf'[o] = n
         /\ \A i \in 1..MaxSessions : i # o => taskOf'[i] = taskOf[i]
    BY <1>3, <1>9
  <1>12. \A u \in DOMAIN research : research[u].of \in DOMAIN session /\ research[u].of # o
    BY <1>1, <1>7 DEF Made
  <1>13. \A x \in DOMAIN session : session[x].id \in 1..MaxSessions /\ session[x].id # o
    <2> SUFFICES ASSUME NEW x \in DOMAIN session PROVE session[x].id \in 1..MaxSessions /\ session[x].id # o
      OBVIOUS
    <2>1. session[x].id \in 1..MaxSessions  BY <1>1, IdsOfTable DEF IdOf
    <2>2. session[x].id <= x  BY <1>1 DEF Made, IdOf
    <2>3. x \in Nat /\ x < o  BY <1>2, <1>5 DEF Grows, o
    <2> QED  BY <1>3, <2>1, <2>2, <2>3
  <1>14. Listed \subseteq DOMAIN session /\ \A x \in Listed : session'[x] = session[x]  BY <1>1, <1>7 DEF Made
  <1>15. ChatsDiffer(active, session')
    <2>1. \A i \in DOMAIN active : session'[active[i]].chat = session[active[i]].chat  BY <1>14 DEF Listed
    <2> QED  BY <1>1, <2>1 DEF OnePerChat, ChatsDiffer
  <1>16. /\ active' \in Seq(Nat) /\ OnePerChat' /\ o \in Listed'
         /\ \A x \in Listed' : x = o \/ x \in Listed
         /\ \A x \in Listed : session'[x].chat # session'[o].chat => x \in Listed'
    BY <1>3, <1>10, <1>15, PutActive
  <1>17. update'.at = "none" /\ update' \in UpdateRecord  BY <1>1, NoUpdateTyped
  <1>18. ExpertShape'  BY <1>1, <1>5, <1>6, <1>7, <1>11, <1>16, <1>17 DEF ExpertShape
  <1>19. Made'
    <2>1. \A x \in DOMAIN session' : session'[x].id <= x
      <3> SUFFICES ASSUME NEW x \in DOMAIN session' PROVE session'[x].id <= x  OBVIOUS
      <3>1. CASE x = o  BY <1>3, <1>4, <1>7, <3>1
      <3>2. CASE x \in DOMAIN session  BY <1>1, <1>7, <3>2 DEF Made, IdOf
      <3> QED  BY <1>7, <3>1, <3>2
    <2>2. \A id \in archive : id <= Len(session')
      <3> SUFFICES ASSUME NEW id \in archive PROVE id <= o  BY <1>7
      <3>1. id \in Nat /\ id <= Len(session)  BY <1>1 DEF Made, ExpertShape
      <3> QED  BY <1>2, <1>3, <1>7, <3>1
    <2>3. Listed' \subseteq DOMAIN session'  BY <1>7, <1>14, <1>16
    <2>4. \A u \in DOMAIN research' : research'[u].of \in DOMAIN session'  BY <1>7, <1>8, <1>12
    <2> QED  BY <1>17, <2>1, <2>2, <2>3, <2>4 DEF Made, IdOf, Conversing
  <1>20. \A u \in DOMAIN research : Researches(u)' <=> Researches(u)  BY <1>8 DEF Researches
  <1>21. Exclusive'
    <2> SUFFICES ASSUME NEW t \in DOMAIN research', NEW u \in DOMAIN research', t # u,
                        research'[t].at # "done", research'[u].at # "done",
                        session'[research'[t].of].id = session'[research'[u].of].id
                 PROVE  research'[t].of \in overlapped'
      BY DEF Exclusive, IdOf
    <2>1. CASE t \in DOMAIN research /\ u \in DOMAIN research
      BY <1>1, <1>7, <1>8, <1>12, <2>1 DEF Exclusive, IdOf
    <2>2. CASE t = n \/ u = n
      <3>1. session'[o].id = o /\ research'[n].of = o  BY <1>4, <1>7, <1>8
      <3>2. \A v \in DOMAIN research : session'[research'[v].of].id # o  BY <1>7, <1>8, <1>12, <1>13
      <3> QED  BY <1>8, <2>2, <3>1, <3>2
    <2> QED  BY <1>8, <2>1, <2>2
  <1>22. InReach'
    <2> SUFFICES ASSUME NEW t \in DOMAIN research', Researches(t)'
                 PROVE  /\ research'[t].of \in Listed' /\ taskOf'[session'[research'[t].of].id] = t
                        /\ research'[t].at # "new" => session'[research'[t].of].id \in inForeground
                        /\ session'[research'[t].of].status \in Blocking
      BY DEF InReach, IdOf
    <2>1. CASE t = n  BY <1>4, <1>7, <1>8, <1>11, <1>16, <2>1 DEF Blocking
    <2>2. CASE t \in DOMAIN research
      <3>1. Researches(t)  BY <1>20, <2>2
      <3>2. /\ research[t].of \in Listed /\ taskOf[session[research[t].of].id] = t
            /\ research[t].at # "new" => session[research[t].of].id \in inForeground
            /\ session[research[t].of].status \in Blocking
        BY <1>1, <2>2, <3>1 DEF InReach, IdOf
      <3>3. session[research[t].of].id \in 1..MaxSessions /\ session[research[t].of].id # o
        BY <1>12, <1>13, <2>2
      <3>4. session'[research[t].of] = session[research[t].of] /\ research'[t] = research[t]
        BY <1>7, <1>8, <1>12, <2>2
      <3>5. session[research[t].of].chat # c  BY <2>2, <3>1
      <3>6. research[t].of \in Listed'  BY <1>4, <1>7, <1>16, <3>2, <3>4, <3>5
      <3> QED  BY <1>11, <3>2, <3>3, <3>4, <3>6
    <2> QED  BY <1>8, <2>1, <2>2
  <1>23. Placed'
    <2> SUFFICES ASSUME NEW u \in DOMAIN research', research'[u].at = "new",
                        NEW t \in DOMAIN research', Researches(t)', research'[t].of # research'[u].of
                 PROVE  session'[research'[t].of].chat # session'[research'[u].of].chat
      BY <1>17 DEF Placed, Only, Conversing
    <2>1. u = n  BY <1>8 DEF TasksBegun
    <2>2. research'[u].of = o /\ session'[o].chat = c  BY <1>4, <1>7, <1>8, <2>1
    <2>3. t \in DOMAIN research  BY <1>8, <2>1
    <2>4. Researches(t)  BY <1>20, <2>3
    <2> QED  BY <1>7, <1>8, <1>12, <2>2, <2>3, <2>4
  <1>24. Cleared'  BY <1>17 DEF Cleared
  <1>25. LoopHasTask'  BY <1>1, <1>7, <1>8, <1>12 DEF LoopHasTask, IdOf
  <1> QED  BY <1>16, <1>18, <1>19, <1>21, <1>22, <1>23, <1>24, <1>25 DEF ExpertInv

\* A chat whose active session keeps no other out has none that researches.
LEMMA NothingResearches ==
    ASSUME InReach, NEW c, \A o \in ActiveIn(c) : session[o].status \notin Blocking,
           NEW t \in DOMAIN research, Researches(t)
    PROVE  session[research[t].of].chat # c
  <1> DEFINE o == research[t].of
  <1>1. o \in Listed /\ session[o].status \in Blocking  BY DEF InReach
  <1>2. session[o].chat = c => o \in ActiveIn(c)  BY <1>1 DEF ActiveIn, Listed
  <1> QED  BY <1>1, <1>2

\* An archive that is opened has no task yet.
LEMMA SessionResumes ==
    ASSUME ExpertInv, NEW id \in 1..MaxSessions, NEW c \in ExpertChats, ResumeArchived(id, c)
    PROVE  ExpertInv'
  <1> DEFINE o == Len(session) + 1
             s == ResumedSession(id, c)
  <1>1. /\ ExpertShape /\ Made /\ OnePerChat /\ Exclusive
        /\ InReach /\ Placed /\ Cleared /\ LoopHasTask
    BY DEF ExpertInv
  <1>2. /\ session \in Seq(SessionRecord) /\ Len(session) \in Nat /\ Len(session) < MaxSessions /\ MaxSessions \in Nat
        /\ update = NoUpdate /\ id \in archive /\ id \in Nat \ {0}
        /\ UNCHANGED <<taskOf, research, inForeground, archive, update, overlapped>>
    BY <1>1, ExpertAssumption, LenProperties DEF ExpertShape, ResumeArchived, HandlerFree
  <1>3. o \in Nat /\ o <= MaxSessions /\ id <= o
    <2>1. id <= Len(session)  BY <1>1, <1>2 DEF Made
    <2> QED  BY <1>2, <2>1
  <1>4. s \in SessionRecord /\ s.id = id /\ s.chat = c
    BY <1>2 DEF ResumedSession, SessionRecord, SessionStatuses, SomeChats
  <1>5. session' \in Seq(SessionRecord) /\ Grows(session', session, s)
    <2>1. session' = Append(session, s)  BY DEF ResumeArchived
    <2> HIDE DEF s
    <2> QED  BY <1>2, <1>4, <2>1, Grown
  <1>6. /\ o \notin DOMAIN session /\ o \in DOMAIN session' /\ session'[o] = s /\ Len(session') = o
        /\ \A x \in DOMAIN session : x \in DOMAIN session' /\ session'[x] = session[x]
        /\ \A x \in DOMAIN session' : x \in DOMAIN session \/ x = o
    BY <1>5 DEF Grows
  <1>7. active \in Seq(Nat) /\ active' = Put(active, o)  BY <1>1 DEF ExpertShape, ResumeArchived
  <1>8. \A i \in archive : i <= o
    <2> SUFFICES ASSUME NEW i \in archive PROVE i <= o  OBVIOUS
    <2>1. i \in Nat /\ i <= Len(session)  BY <1>1 DEF Made, ExpertShape
    <2> QED  BY <1>2, <2>1
  <1> HIDE DEF o, s
  <1>9. \A u \in DOMAIN research : research[u].of \in DOMAIN session  BY <1>1 DEF Made
  <1>10. Listed \subseteq DOMAIN session /\ \A x \in Listed : session'[x] = session[x]  BY <1>1, <1>6 DEF Made
  <1>11. ChatsDiffer(active, session')
    <2>1. \A i \in DOMAIN active : session'[active[i]].chat = session[active[i]].chat  BY <1>10 DEF Listed
    <2> QED  BY <1>1, <2>1 DEF OnePerChat, ChatsDiffer
  <1>12. /\ active' \in Seq(Nat) /\ OnePerChat' /\ o \in Listed'
         /\ \A x \in Listed' : x = o \/ x \in Listed
         /\ \A x \in Listed : session'[x].chat # session'[o].chat => x \in Listed'
    BY <1>3, <1>7, <1>11, PutActive
  <1>13. update'.at = "none"  BY <1>1, <1>2, NoUpdateTyped
  <1>14. ExpertShape'  BY <1>1, <1>2, <1>3, <1>5, <1>6, <1>12 DEF ExpertShape
  <1>15. Made'
    <2>1. \A x \in DOMAIN session' : session'[x].id <= x
      <3> SUFFICES ASSUME NEW x \in DOMAIN session' PROVE session'[x].id <= x  OBVIOUS
      <3>1. CASE x = o  BY <1>3, <1>4, <1>6, <3>1
      <3>2. CASE x \in DOMAIN session  BY <1>1, <1>6, <3>2 DEF Made, IdOf
      <3> QED  BY <1>6, <3>1, <3>2
    <2>2. Listed' \subseteq DOMAIN session'  BY <1>6, <1>10, <1>12
    <2>3. \A u \in DOMAIN research : research[u].of \in DOMAIN session'  BY <1>6, <1>9
    <2> QED  BY <1>2, <1>6, <1>8, <1>13, <2>1, <2>2, <2>3 DEF Made, IdOf, Conversing
  <1>16. \A u \in DOMAIN research : Researches(u)' <=> Researches(u)  BY <1>2 DEF Researches
  <1>17. Exclusive'  BY <1>1, <1>2, <1>6, <1>9 DEF Exclusive, IdOf
  <1>18. InReach'
    <2> SUFFICES ASSUME NEW t \in DOMAIN research, Researches(t)
                 PROVE  /\ research[t].of \in Listed' /\ taskOf[session'[research[t].of].id] = t
                        /\ research[t].at # "new" => session'[research[t].of].id \in inForeground
                        /\ session'[research[t].of].status \in Blocking
      BY <1>2, <1>16 DEF InReach, IdOf
    <2>1. /\ research[t].of \in Listed /\ taskOf[session[research[t].of].id] = t
          /\ research[t].at # "new" => session[research[t].of].id \in inForeground
          /\ session[research[t].of].status \in Blocking
      BY <1>1 DEF InReach, IdOf
    <2>2. session[research[t].of].chat # c
      <3>1. \A x \in ActiveIn(c) : session[x].status \notin Blocking  BY DEF ResumeArchived
      <3> QED  BY <1>1, <3>1, NothingResearches
    <2>3. research[t].of \in Listed'  BY <1>4, <1>6, <1>10, <1>12, <2>1, <2>2
    <2> QED  BY <1>10, <2>1, <2>3
  <1>19. ASSUME NEW x \in DOMAIN session, Only(x) PROVE Only(x)'
    BY <1>2, <1>6, <1>9, <1>16, <1>19 DEF Only
  <1>20. Placed'  BY <1>1, <1>2, <1>9, <1>13, <1>19 DEF Placed, Conversing
  <1>21. Cleared'  BY <1>13 DEF Cleared
  <1>22. LoopHasTask'  BY <1>1, <1>2, <1>6, <1>9 DEF LoopHasTask, IdOf
  <1> QED  BY <1>12, <1>14, <1>15, <1>17, <1>18, <1>20, <1>21, <1>22 DEF ExpertInv

LEMMA StatusSet ==
    ASSUME session \in Seq(SessionRecord), NEW o \in DOMAIN session, NEW s \in SessionStatuses, SetStatus(o, s)
    PROVE  Rewrites(o) /\ session'[o].status = s
  <1> DEFINE r == [session[o] EXCEPT !.status = s]
  <1>1. session[o] \in SessionRecord  OBVIOUS
  <1>2. r \in SessionRecord /\ r.id = session[o].id /\ r.chat = session[o].chat /\ r.status = s
    BY <1>1 DEF SessionRecord
  <1>3. session' = [session EXCEPT ![o] = r]  BY DEF SetStatus
  <1> HIDE DEF r
  <1> QED  BY <1>2, <1>3, Rewritten

\* A handler remembers a session and its chat.
LEMMA Suspends ==
    ASSUME ExpertInv, NEW o \in DOMAIN session, NEW p \in {"label"} \cup Conversing, Suspend(p, o, session[o].chat)
    PROVE  update' \in UpdateRecord /\ update'.at = p /\ update'.of = o /\ update'.chat = session[o].chat
  <1>1. session[o] \in SessionRecord /\ o \in Nat  BY DEF ExpertInv, ExpertShape
  <1>2. session[o].chat \in SomeChats  BY <1>1 DEF SessionRecord
  <1> QED  BY <1>1, <1>2 DEF Suspend, UpdateRecord

LEMMA HandlerEnded == ASSUME ExpertInv, HandlerEnds PROVE update' \in UpdateRecord /\ update'.at = "none"
  BY NoUpdateTyped DEF ExpertInv, HandlerEnds

\* Only the session that is closed, and its task, are stopped.
LEMMA SessionCloses ==
    ASSUME ExpertInv, NEW o \in DOMAIN session, Only(o), CancelSession(o) \/ CloseSession(o)
    PROVE  ExpertInv'
  <1> DEFINE c == session[o].chat
  <1>1. session \in Seq(SessionRecord) /\ active \in Seq(Nat) /\ OnePerChat  BY DEF ExpertInv, ExpertShape
  <1>2. StopTask(o) /\ UNCHANGED <<inForeground, overlapped>>  BY DEF CancelSession, CloseSession
  <1>3. Stops(o)  BY <1>2, StopTaskStops
  <1>4. active' \in {active, Drop(active, c)}  BY DEF CancelSession, CloseSession, Archived
  <1>5. Leaves(c)  BY <1>1, <1>4, DropActive
  <1>6. archive' \subseteq archive \cup {IdOf(o)}  BY DEF CancelSession, CloseSession, Archived
  <1>7. Rewrites(o)
    <2>1. SetStatus(o, "cancelled") \/ SetStatus(o, "archived") \/ UNCHANGED session
      BY DEF CancelSession, CloseSession, Archived
    <2>2. CASE UNCHANGED session  BY <1>1, <2>2, Unwritten
    <2> QED  BY <1>1, <2>1, <2>2, StatusSet DEF SessionStatuses
  <1>8. /\ update' \in UpdateRecord /\ update'.at \in {"none", "label"}
        /\ update'.at = "label" => update'.of = o /\ update'.chat = c
    <2>1. HandlerEnds \/ Suspend("label", o, c)  BY DEF CancelSession, CloseSession, Archived
    <2>2. CASE HandlerEnds  BY <2>2, HandlerEnded
    <2>3. CASE Suspend("label", o, c)  BY <2>3, Suspends
    <2> QED  BY <2>1, <2>2, <2>3
  <1> QED  BY <1>2, <1>3, <1>5, <1>6, <1>7, <1>8, SessionEnds

\* An answer takes its session back to the report, or to more research once it is told.
LEMMA UserAnswers ==
    ASSUME ExpertInv, NEW o \in DOMAIN session, Only(o), Answered(o),
           UNCHANGED <<active, taskOf, research, inForeground, archive, overlapped>>
    PROVE  ExpertInv'
  <1>1. session \in Seq(SessionRecord) /\ session[o] \in SessionRecord  BY DEF ExpertInv, ExpertShape
  <1>2. ASSUME NEW s \in Blocking,
               session' = [session EXCEPT ![o].asks = "none", ![o].status = s]
        PROVE  Rewrites(o) /\ session'[o].status \in Blocking
    <2> DEFINE r == [session[o] EXCEPT !.asks = "none", !.status = s]
    <2>1. r \in SessionRecord /\ r.id = session[o].id /\ r.chat = session[o].chat /\ r.status = s
      BY <1>1 DEF SessionRecord, SessionStatuses, Blocking
    <2>2. session' = [session EXCEPT ![o] = r]  BY <1>2
    <2> HIDE DEF r
    <2> QED  BY <1>1, <2>1, <2>2, Rewritten
  <1>3. Rewrites(o) /\ session'[o].status \in Blocking  BY <1>2 DEF Answered, Blocking
  <1>4. Suspend("refine", o, session[o].chat) \/ Suspend("notice", o, session[o].chat)  BY DEF Answered
  <1>5. /\ update' \in UpdateRecord /\ update'.at \in Conversing
        /\ update'.of = o /\ update'.chat = session[o].chat
    BY <1>4, Suspends DEF Conversing
  <1>6. update'.at \notin {"topic", "label"}  BY <1>5 DEF Conversing
  <1> QED  BY <1>3, <1>5, <1>6, HandlerWaits

\* Rounds are added, and a task.
LEMMA SessionContinues ==
    ASSUME ExpertInv, NEW o \in DOMAIN session, Only(o), TasksBegun, Continue(o), update' = NoUpdate
    PROVE  ExpertInv'
  <1> DEFINE r == [session[o] EXCEPT !.left = SessionRounds, !.status = "running"]
  <1>1. session \in Seq(SessionRecord) /\ session[o] \in SessionRecord  BY DEF ExpertInv, ExpertShape
  <1>2. r \in SessionRecord /\ r.id = session[o].id /\ r.chat = session[o].chat
    BY <1>1, ExpertAssumption DEF SessionRecord, SessionStatuses
  <1>3. session' = [session EXCEPT ![o] = r]  BY DEF Continue
  <1> HIDE DEF r
  <1>4. Rewrites(o)  BY <1>1, <1>2, <1>3, Rewritten
  <1> QED  BY <1>4, SessionRestarts DEF Continue

\* A handler goes on or ends, and changes nothing else.
LEMMA HandlerMoves ==
    ASSUME ExpertInv, UNCHANGED <<session, active, taskOf, research, inForeground, archive, overlapped>>,
           \/ HandlerEnds
           \/ \E c \in ExpertChats :
                 /\ Suspend("topic", 0, c)
                 /\ \A t \in DOMAIN research : Researches(t) => session[research[t].of].chat # c
           \/ \E o \in DOMAIN session, p \in Conversing : Only(o) /\ Suspend(p, o, session[o].chat)
    PROVE  ExpertInv'
  <1>1. Rewrites(0)  BY Unwritten DEF ExpertInv, ExpertShape
  <1>2. 0 \in DOMAIN session => session'[0].status \in Blocking \cup {session[0].status}  OBVIOUS
  <1>3. CASE HandlerEnds
    <2>1. update' \in UpdateRecord /\ update'.at = "none"  BY <1>3, HandlerEnded
    <2> QED  BY <1>1, <1>2, <2>1, HandlerWaits DEF Conversing
  <1>4. ASSUME NEW c \in ExpertChats, Suspend("topic", 0, c),
               \A t \in DOMAIN research : Researches(t) => session[research[t].of].chat # c
        PROVE  ExpertInv'
    <2>1. update' \in UpdateRecord /\ update'.at = "topic" /\ update'.chat = c
      BY <1>4 DEF Suspend, UpdateRecord, SomeChats
    <2> QED  BY <1>1, <1>2, <1>4, <2>1, HandlerWaits DEF Conversing
  <1>5. ASSUME NEW o \in DOMAIN session, NEW p \in Conversing, Only(o), Suspend(p, o, session[o].chat)
        PROVE  ExpertInv'
    <2>1. update' \in UpdateRecord /\ update'.at = p /\ update'.of = o /\ update'.chat = session[o].chat
      BY <1>5, Suspends
    <2>2. update'.at \notin {"topic", "label"}  BY <2>1 DEF Conversing
    <2> QED  BY <1>1, <1>2, <1>5, <2>1, <2>2, HandlerWaits
  <1> QED  BY <1>3, <1>4, <1>5

\* The handler that is suspended talks to a session whose place nothing else researches in.
LEMMA InConversation ==
    ASSUME ExpertInv, update.at \in Conversing
    PROVE  update.of \in DOMAIN session /\ update.chat = session[update.of].chat /\ Only(update.of)
  BY DEF ExpertInv, Made, Placed

LEMMA TopicIsClassified == ASSUME ExpertInv, TopicClassified PROVE ExpertInv'
  <1>1. update.chat \in SomeChats  BY DEF ExpertInv, ExpertShape, UpdateRecord
  <1>2. CASE Started(update.chat)
    <2>1. \A t \in DOMAIN research : Researches(t) => session[research[t].of].chat # update.chat
      BY DEF ExpertInv, Cleared, TopicClassified
    <2>2. TasksBegun /\ update' = NoUpdate /\ UNCHANGED <<inForeground, archive, overlapped>>
      BY DEF TopicClassified, HandlerEnds
    <2> QED  BY <1>1, <1>2, <2>1, <2>2, SessionStarts
  <1>3. CASE UNCHANGED <<session, active, taskOf, research>>
    BY <1>3, HandlerMoves DEF TopicClassified
  <1> QED  BY <1>2, <1>3 DEF TopicClassified

LEMMA LabelIsMade == ASSUME ExpertInv, LabelMade PROVE ExpertInv'
  <1> DEFINE o == update.of
  <1>1. /\ session \in Seq(SessionRecord) /\ active \in Seq(Nat) /\ OnePerChat
        /\ research \in Seq(ResearchRecord) /\ taskOf \in [1..MaxSessions -> Nat]
    BY DEF ExpertInv, ExpertShape
  <1>2. o \in DOMAIN session /\ update.chat = session[o].chat  BY DEF ExpertInv, Made, LabelMade
  <1>3. UNCHANGED <<taskOf, research, inForeground, overlapped>> /\ HandlerEnds  BY DEF LabelMade
  <1>4. Stops(o)
    <2>1. \A u \in DOMAIN research : Researches(u)' => Researches(u) /\ session[research[u].of].chat # session[o].chat
      BY <1>2, <1>3 DEF ExpertInv, Cleared, LabelMade, Researches
    <2> QED  BY <1>1, <1>3, <2>1 DEF Stops
  <1>5. Leaves(session[o].chat)
    <2>1. active' \in {active, Drop(active, session[o].chat)}  BY DEF LabelMade
    <2> QED  BY <1>1, <2>1, DropActive
  <1>6. archive' \subseteq archive \cup {IdOf(o)}  BY DEF LabelMade
  <1>7. Rewrites(o)
    <2> DEFINE q == [session[o] EXCEPT !.labelled = TRUE]
               r == [session[o] EXCEPT !.labelled = TRUE, !.status = "archived"]
    <2>1. session[o] \in SessionRecord  BY <1>1, <1>2
    <2>2. /\ q \in SessionRecord /\ q.id = session[o].id /\ q.chat = session[o].chat
          /\ r \in SessionRecord /\ r.id = session[o].id /\ r.chat = session[o].chat
      BY <2>1 DEF SessionRecord, SessionStatuses
    <2>3. session' = [session EXCEPT ![o] = q] \/ session' = [session EXCEPT ![o] = r]
      BY <1>1, <1>2 DEF LabelMade
    <2> HIDE DEF q, r
    <2> QED  BY <1>1, <1>2, <2>2, <2>3, Rewritten
  <1>8. update' \in UpdateRecord /\ update'.at = "none"  BY <1>3, HandlerEnded
  <1> QED  BY <1>2, <1>3, <1>4, <1>5, <1>6, <1>7, <1>8, SessionEnds

LEMMA HandlersKeep == ASSUME ExpertInv, HandlerStep PROVE ExpertInv'
  <1> DEFINE o == update.of
  <1>1. CASE TopicClassified  BY <1>1, TopicIsClassified
  <1>2. CASE LabelMade  BY <1>2, LabelIsMade
  <1>3. CASE TypingShown
    <2>1. o \in DOMAIN session /\ update.chat = session[o].chat /\ Only(o)
      BY <1>3, InConversation DEF TypingShown, Conversing
    <2>2. PICK p \in Conversing : Suspend(p, o, session[o].chat)  BY <1>3, <2>1 DEF TypingShown, Conversing
    <2> QED  BY <1>3, <2>1, <2>2, HandlerMoves DEF TypingShown
  <1>4. CASE AnswerClassified
    <2>1. o \in DOMAIN session /\ Only(o)  BY <1>4, InConversation DEF AnswerClassified, Conversing
    <2>2. CASE CloseSession(o) \/ CancelSession(o)  BY <2>1, <2>2, SessionCloses
    <2>3. CASE Answered(o) /\ UNCHANGED <<active, taskOf, research, inForeground, archive, overlapped>>
      BY <2>1, <2>3, UserAnswers
    <2> QED  BY <1>4, <2>2, <2>3 DEF AnswerClassified
  <1>5. CASE DecisionClassified
    <2>1. o \in DOMAIN session /\ update.chat = session[o].chat /\ Only(o) /\ TasksBegun
      BY <1>5, InConversation DEF DecisionClassified, Conversing
    <2>2. CASE CloseSession(o) \/ CancelSession(o)  BY <2>1, <2>2, SessionCloses
    <2>3. CASE Continue(o) /\ HandlerEnds  BY <2>1, <2>3, SessionContinues DEF HandlerEnds
    <2>4. CASE /\ Suspend("refine", o, update.chat)
               /\ UNCHANGED <<session, active, taskOf, research, inForeground, archive, overlapped>>
      BY <2>1, <2>4, HandlerMoves DEF Conversing
    <2>5. CASE HandlerEnds /\ UNCHANGED <<session, active, taskOf, research, inForeground, archive, overlapped>>
      BY <2>5, HandlerMoves
    <2> QED  BY <1>5, <2>2, <2>3, <2>4, <2>5 DEF DecisionClassified
  <1>6. CASE NoticeSent
    <2>1. o \in DOMAIN session /\ Only(o)  BY <1>6, InConversation DEF NoticeSent, Conversing
    <2>2. TasksBegun /\ update' = NoUpdate /\ StartTask(o) /\ UNCHANGED <<active, inForeground, archive>>
      BY <1>6 DEF NoticeSent, HandlerEnds
    <2>3. Rewrites(o)
      <3>1. session \in Seq(SessionRecord) /\ session' = session  BY <1>6 DEF ExpertInv, ExpertShape, NoticeSent
      <3> QED  BY <3>1, Unwritten
    <2> QED  BY <2>1, <2>2, <2>3, SessionRestarts
  <1>7. CASE RefineEnds  BY <1>7, HandlerMoves DEF RefineEnds
  <1> QED  BY <1>1, <1>2, <1>3, <1>4, <1>5, <1>6, <1>7 DEF HandlerStep

LEMMA ActiveOnly == ASSUME ExpertInv, NEW o \in Listed PROVE o \in DOMAIN session /\ Only(o)
  BY ListedOnly DEF ExpertInv, Made

LEMMA CommandsKeep ==
    ASSUME ExpertInv, NEW c \in ExpertChats, ExpertCommand(c) \/ CancelCommand(c) \/ ExpertMessage(c)
    PROVE  ExpertInv'
  <1>1. ActiveIn(c) \subseteq Listed /\ \A o \in ActiveIn(c) : session[o].chat = c  BY DEF ActiveIn, Listed
  <1>2. CASE ExpertCommand(c)
    <2>1. \A t \in DOMAIN research : Researches(t) => session[research[t].of].chat # c
      BY <1>2, NothingResearches DEF ExpertCommand, ExpertInv
    <2> QED  BY <1>2, <2>1, HandlerMoves DEF ExpertCommand
  <1>3. CASE CancelCommand(c)
    <2>1. PICK o \in ActiveIn(c) : CancelSession(o)  BY <1>3 DEF CancelCommand
    <2>2. o \in DOMAIN session /\ Only(o)  BY <1>1, ActiveOnly
    <2> QED  BY <2>1, <2>2, SessionCloses
  <1>4. CASE ExpertMessage(c)
    <2>1. PICK o \in ActiveIn(c) : Suspend("typing", o, c)  BY <1>4 DEF ExpertMessage
    <2>2. o \in DOMAIN session /\ Only(o) /\ session[o].chat = c  BY <1>1, ActiveOnly
    <2> QED  BY <1>4, <2>1, <2>2, HandlerMoves DEF ExpertMessage, Conversing
  <1> QED  BY <1>2, <1>3, <1>4

LEMMA ButtonsKeep ==
    ASSUME ExpertInv, NEW id, ButtonClose(id) \/ ButtonContinue(id) \/ ButtonRefine(id) \/ ButtonOption(id)
    PROVE  ExpertInv'
  <1>1. \A o \in FirstWith(id) : o \in DOMAIN session /\ Only(o)
    <2>1. FirstWith(id) \subseteq Listed  BY DEF FirstWith, Listed
    <2> QED  BY <2>1, ActiveOnly
  <1>2. CASE ButtonClose(id)
    <2>1. PICK o \in FirstWith(id) : CloseSession(o)  BY <1>2 DEF ButtonClose
    <2> QED  BY <1>1, <2>1, SessionCloses
  <1>3. CASE ButtonContinue(id)
    <2>1. PICK o \in FirstWith(id) : Continue(o)  BY <1>3 DEF ButtonContinue
    <2>2. TasksBegun /\ update' = NoUpdate  BY <1>3 DEF ButtonContinue, HandlerFree
    <2> QED  BY <1>1, <2>1, <2>2, SessionContinues
  <1>4. CASE ButtonRefine(id)
    <2>1. PICK o \in FirstWith(id) :
            session' = [session EXCEPT ![o].status = "waiting_for_answer", ![o].asks = "refine"]
      BY <1>4 DEF ButtonRefine
    <2>2. UNCHANGED <<active, taskOf, research, inForeground, archive, update, overlapped>> /\ update = NoUpdate
      BY <1>4 DEF ButtonRefine, HandlerFree
    <2>3. update' \in UpdateRecord /\ update'.at = "none"  BY <2>2, NoUpdateTyped DEF ExpertInv
    <2>4. session \in Seq(SessionRecord) /\ o \in DOMAIN session /\ session[o] \in SessionRecord
      BY <1>1 DEF ExpertInv, ExpertShape
    <2> DEFINE r == [session[o] EXCEPT !.status = "waiting_for_answer", !.asks = "refine"]
    <2>5. /\ r \in SessionRecord /\ r.id = session[o].id /\ r.chat = session[o].chat
          /\ r.status = "waiting_for_answer"
      BY <2>4 DEF SessionRecord, SessionStatuses
    <2>6. session' = [session EXCEPT ![o] = r]  BY <2>1
    <2> HIDE DEF r
    <2>7. Rewrites(o) /\ session'[o].status \in Blocking  BY <2>4, <2>5, <2>6, Rewritten DEF Blocking
    <2> QED  BY <2>2, <2>3, <2>7, HandlerWaits DEF Conversing
  <1>5. CASE ButtonOption(id)
    <2>1. PICK o \in FirstWith(id) : Answered(o)  BY <1>5 DEF ButtonOption
    <2> QED  BY <1>1, <1>5, <2>1, UserAnswers DEF ButtonOption
  <1> QED  BY <1>2, <1>3, <1>4, <1>5

LEMMA ArchiveCleared == ASSUME ExpertInv, ClearArchive PROVE ExpertInv'
  <1>1. Rewrites(0)  BY Unwritten DEF ExpertInv, ExpertShape, ClearArchive
  <1>2. update' \in UpdateRecord /\ update'.at = "none"
    BY NoUpdateTyped DEF ExpertInv, ClearArchive, HandlerFree
  <1> QED  BY <1>1, <1>2, HandlerWaits DEF ClearArchive, Conversing

-----------------------------------------------------------------------------
(* Every behaviour *)

LEMMA ResearchesBegin == ASSUME ExpertInit PROVE ExpertInv
  <1>1. session = <<>> /\ active = <<>> /\ research = <<>> /\ inForeground = {} /\ archive = {} /\ update = NoUpdate
    BY DEF ExpertInit
  <1>2. DOMAIN session = {} /\ Len(session) = 0 /\ DOMAIN active = {} /\ DOMAIN research = {}
    BY <1>1
  <1>3. ExpertShape
    <2>1. session \in Seq(SessionRecord) /\ active \in Seq(Nat) /\ research \in Seq(ResearchRecord)  BY <1>1
    <2>2. taskOf \in [1..MaxSessions -> Nat]  BY DEF ExpertInit
    <2>3. update \in UpdateRecord  BY <1>1 DEF NoUpdate, UpdateRecord, SomeChats
    <2> QED  BY <1>1, <1>2, <2>1, <2>2, <2>3, ExpertAssumption DEF ExpertShape
  <1>4. update.at = "none"  BY <1>1 DEF NoUpdate
  <1> QED
    BY <1>1, <1>2, <1>3, <1>4
    DEF ExpertInv, Made, Listed, OnePerChat, ChatsDiffer, Exclusive, InReach, Placed, Cleared, LoopHasTask, Conversing

LEMMA ResearchesGoOn == ASSUME ExpertInv, [ExpertNext]_expertVars PROVE ExpertInv'
  <1>1. ASSUME NEW t \in DOMAIN research, ResearchStep(t) PROVE ExpertInv'
    BY <1>1, TaskSteps, TaskBegins, TaskCloses DEF ResearchStep
  <1>2. CASE HandlerStep  BY <1>2, HandlersKeep
  <1>3. CASE \E c \in ExpertChats : ExpertCommand(c) \/ CancelCommand(c) \/ ExpertMessage(c)
    BY <1>3, CommandsKeep
  <1>4. CASE \E id \in 1..MaxSessions, c \in ExpertChats : ResumeArchived(id, c)  BY <1>4, SessionResumes
  <1>5. CASE \E id \in 1..MaxSessions :
               ButtonClose(id) \/ ButtonContinue(id) \/ ButtonRefine(id) \/ ButtonOption(id)
    BY <1>5, ButtonsKeep
  <1>6. CASE ClearArchive  BY <1>6, ArchiveCleared
  <1>7. CASE UNCHANGED expertVars
    BY <1>7
    DEF expertVars, ExpertInv, ExpertShape, Made, Listed, OnePerChat, ChatsDiffer, Exclusive, InReach,
        Researches, Placed, Only, Cleared, LoopHasTask, IdOf
  <1> QED  BY <1>1, <1>2, <1>3, <1>4, <1>5, <1>6, <1>7 DEF ExpertNext

LEMMA ResearchesReached == ASSUME ExpertInv PROVE ResearchSound
  <1>1. ResearchInReach
    <2> SUFFICES ASSUME NEW t \in DOMAIN research, \E p \in Suspended : At(t, p), research[t].of \notin overlapped
                 PROVE  /\ research[t].of \in ActiveIn(session[research[t].of].chat)
                        /\ taskOf[IdOf(research[t].of)] = t
                        /\ IdOf(research[t].of) \in inForeground
                        /\ session[research[t].of].status \in Blocking
      BY DEF ResearchInReach
    <2>1. Researches(t) /\ research[t].at # "new"  BY DEF At, Researches, Suspended
    <2>2. /\ research[t].of \in Listed /\ taskOf[IdOf(research[t].of)] = t
          /\ IdOf(research[t].of) \in inForeground /\ session[research[t].of].status \in Blocking
      BY <2>1 DEF ExpertInv, InReach
    <2> QED  BY <2>2 DEF ActiveIn, Listed
  <1> QED  BY <1>1 DEF ResearchSound, ExpertInv

\* A research nobody cancelled is the one its chat can see and cancel: its session is the
\* active one, its task the one of its id, scheduled jobs wait for it and no other /expert
\* starts there; and no foreground loop outlives its task.  Restarted sessions whose last
\* task still delivered, had failed, or had lost the place of the chat are excepted.
THEOREM ResearchesInReach == ExpertSpec => []ResearchSound
  <1>1. ExpertInit => ExpertInv  BY ResearchesBegin
  <1>2. ExpertInv /\ [ExpertNext]_expertVars => ExpertInv'  BY ResearchesGoOn
  <1>3. ExpertInv => ResearchSound  BY ResearchesReached
  <1> QED  BY <1>1, <1>2, <1>3, PTL DEF ExpertSpec

-----------------------------------------------------------------------------
(***************************************************************************)
(* Debates                                                                 *)
(***************************************************************************)

ClerkRecord == [at : {"idle", "search", "commit", "failed", "filed", "open"},
                phase : {"none", "positions", "light", "deep", "round"}, targets : Seq(Pages), found : Seq(Nat)]
PacketRecord == [for : Requesters, phase : {"none", "positions", "light", "deep", "round"}, ids : Seq(Nat)]
TurnRecord == [round : Nat, speaker : Sides, kind : {"opening", "answer", "response", "thesis"}]
DebatePlaces == {"none", "starts", "announces", "sides", "opened", "round", "theses", "memo", "delivers", "closing", "done"}
DebateRecord ==
    [status : {"preparing_positions", "defining_positions", "running", "completed", "cancelled", "error"},
     at : DebatePlaces, cancel : BOOLEAN, round : Nat, sources : Seq(Pages), packets : Seq(PacketRecord),
     turns : Seq(TurnRecord), results : Seq(Winners), clerks : [Requesters -> ClerkRecord]]

\* The sources of a request that is under way, or failed, are in no packet and of no other request.
Open(c) == c.at \in {"search", "commit", "failed"}
Evidence(sources, packets, clerks) ==
    /\ IsInjective(sources)
    /\ \A i \in DOMAIN packets : ToSet(packets[i].ids) \subseteq DOMAIN sources
    /\ \A i, j \in DOMAIN packets : i # j => ToSet(packets[i].ids) \cap ToSet(packets[j].ids) = {}
    /\ \A r \in Requesters :
        /\ ToSet(clerks[r].found) \subseteq DOMAIN sources
        /\ clerks[r].at = "search" => clerks[r].found = <<>>
        /\ Open(clerks[r]) =>
            /\ \A i \in DOMAIN packets : ToSet(clerks[r].found) \cap ToSet(packets[i].ids) = {}
            /\ \A q \in Requesters \ {r} : Open(clerks[q]) => ToSet(clerks[r].found) \cap ToSet(clerks[q].found) = {}

\* A clerk starts afresh.
LEMMA EvidenceRequested ==
    ASSUME NEW s \in Seq(Pages), NEW ps \in Seq(PacketRecord), NEW cs \in [Requesters -> ClerkRecord], Evidence(s, ps, cs),
           NEW r \in Requesters, NEW c \in ClerkRecord, c.found = <<>>
    PROVE  Evidence(s, ps, [cs EXCEPT ![r] = c])
  <1> DEFINE new == [cs EXCEPT ![r] = c]
  <1>1. new[r] = c /\ \A q \in Requesters \ {r} : new[q] = cs[q]  OBVIOUS
  <1>2. ToSet(<<>>) = {}  BY DEF ToSet
  <1> HIDE DEF new
  <1> QED  BY <1>1, <1>2 DEF Evidence

\* A clerk goes on with what it has found.
LEMMA EvidenceMoved ==
    ASSUME NEW s \in Seq(Pages), NEW ps \in Seq(PacketRecord), NEW cs \in [Requesters -> ClerkRecord], Evidence(s, ps, cs),
           NEW r \in Requesters, NEW c \in ClerkRecord, c.found = cs[r].found, c.at # "search", Open(c) => Open(cs[r])
    PROVE  Evidence(s, ps, [cs EXCEPT ![r] = c])
  <1> DEFINE new == [cs EXCEPT ![r] = c]
  <1>1. new[r] = c /\ \A q \in Requesters \ {r} : new[q] = cs[q]  OBVIOUS
  <1> HIDE DEF new
  <1> QED  BY <1>1 DEF Evidence

\* A page that nobody has committed is committed.
LEMMA EvidenceCommitted ==
    ASSUME NEW s \in Seq(Pages), NEW ps \in Seq(PacketRecord), NEW cs \in [Requesters -> ClerkRecord], Evidence(s, ps, cs),
           NEW r \in Requesters, NEW c \in ClerkRecord, NEW page \in Pages, page \notin ToSet(s),
           c.found = Append(cs[r].found, Len(s) + 1), cs[r].at = "commit", c.at # "search"
    PROVE  Evidence(Append(s, page), ps, [cs EXCEPT ![r] = c])
  <1> DEFINE new == [cs EXCEPT ![r] = c]
             n == Len(s) + 1
  <1>1. new[r] = c /\ \A q \in Requesters \ {r} : new[q] = cs[q]  OBVIOUS
  <1>2. Len(s) \in Nat /\ n \notin DOMAIN s /\ DOMAIN s \subseteq DOMAIN Append(s, page) /\ n \in DOMAIN Append(s, page)
    OBVIOUS
  <1>3. IsInjective(Append(s, page))
    <2> SUFFICES ASSUME NEW i \in DOMAIN Append(s, page), NEW j \in DOMAIN Append(s, page), Append(s, page)[i] = Append(s, page)[j]
                 PROVE  i = j
      BY DEF IsInjective
    <2>1. \A k \in DOMAIN Append(s, page) : (k \in DOMAIN s /\ Append(s, page)[k] = s[k]) \/ (k = n /\ Append(s, page)[k] = page)
      OBVIOUS
    <2>2. \A k \in DOMAIN s : s[k] # page  BY DEF ToSet
    <2> QED  BY <2>1, <2>2 DEF Evidence, IsInjective
  <1>4. ToSet(c.found) = ToSet(cs[r].found) \cup {n}
    <2>1. cs[r].found \in Seq(Nat) /\ n \in Nat  BY DEF ClerkRecord
    <2> DEFINE f == cs[r].found
    <2> HIDE DEF f, n
    <2>2. f \in Seq(Nat) /\ n \in Nat /\ c.found = Append(f, n)  BY <2>1 DEF f, n
    <2>3. ToSet(Append(f, n)) = ToSet(f) \cup {n}
      <3>1. ASSUME NEW x \in ToSet(Append(f, n)) PROVE x \in ToSet(f) \cup {n}  BY <2>2 DEF ToSet
      <3>2. ASSUME NEW x \in ToSet(f) PROVE x \in ToSet(Append(f, n))
        <4>1. PICK i \in DOMAIN f : x = f[i]  BY DEF ToSet
        <4>2. i \in DOMAIN Append(f, n) /\ Append(f, n)[i] = f[i]  BY <2>2
        <4> QED  BY <4>1, <4>2 DEF ToSet
      <3>3. n \in ToSet(Append(f, n))
        <4>1. Len(f) + 1 \in DOMAIN Append(f, n) /\ Append(f, n)[Len(f) + 1] = n  BY <2>2
        <4> QED  BY <4>1 DEF ToSet
      <3> QED  BY <3>1, <3>2, <3>3
    <2> QED  BY <2>2, <2>3 DEF f
  <1>5. /\ \A q \in Requesters : n \notin ToSet(cs[q].found)
        /\ \A i \in DOMAIN ps : n \notin ToSet(ps[i].ids)
    BY <1>2 DEF Evidence
  <1>6. Open(cs[r])  BY DEF Open
  <1> DEFINE t == Append(s, page)
  <1> HIDE DEF new, n, t
  <1>7. ASSUME NEW q \in Requesters
        PROVE  /\ ToSet(new[q].found) \subseteq ToSet(cs[q].found) \cup (IF q = r THEN {n} ELSE {})
               /\ ToSet(new[q].found) \subseteq DOMAIN t
               /\ new[q].at = "search" => new[q].found = <<>>
               /\ Open(new[q]) => Open(cs[q])
    BY <1>1, <1>2, <1>4, <1>6 DEF Evidence, t
  <1>8. \A i \in DOMAIN ps : ToSet(ps[i].ids) \subseteq DOMAIN t  BY <1>2 DEF Evidence, t
  <1>9. ASSUME NEW q \in Requesters, Open(new[q]), NEW i \in DOMAIN ps PROVE ToSet(new[q].found) \cap ToSet(ps[i].ids) = {}
    <2>1. ToSet(cs[q].found) \cap ToSet(ps[i].ids) = {}  BY <1>7, <1>9 DEF Evidence
    <2> QED  BY <1>5, <1>7, <2>1
  <1>10. ASSUME NEW q \in Requesters, NEW o \in Requesters \ {q}, Open(new[q]), Open(new[o])
         PROVE  ToSet(new[q].found) \cap ToSet(new[o].found) = {}
    <2>1. ToSet(cs[q].found) \cap ToSet(cs[o].found) = {}  BY <1>7, <1>10 DEF Evidence
    <2> QED  BY <1>5, <1>7, <2>1
  <1>11. Evidence(t, ps, new)  BY <1>3, <1>7, <1>8, <1>9, <1>10 DEF Evidence, t
  <1> QED  BY <1>11 DEF new, t

\* What was found is filed.
LEMMA EvidenceFiled ==
    ASSUME NEW s \in Seq(Pages), NEW ps \in Seq(PacketRecord), NEW cs \in [Requesters -> ClerkRecord], Evidence(s, ps, cs),
           NEW r \in Requesters, NEW c \in ClerkRecord, NEW p \in PacketRecord, p.ids = cs[r].found,
           c.found = cs[r].found, c.at = "filed", cs[r].at = "commit"
    PROVE  Evidence(s, Append(ps, p), [cs EXCEPT ![r] = c])
  <1> DEFINE new == [cs EXCEPT ![r] = c]
             n == Len(ps) + 1
             qs == Append(ps, p)
  <1>1. new[r] = c /\ \A q \in Requesters \ {r} : new[q] = cs[q]  OBVIOUS
  <1>2. /\ \A k \in DOMAIN qs : (k \in DOMAIN ps /\ qs[k] = ps[k]) \/ (k = n /\ qs[k] = p)
        /\ n \notin DOMAIN ps
    OBVIOUS
  <1>3. Open(cs[r]) /\ ~Open(c)  BY DEF Open
  <1> HIDE DEF new, n, qs
  <1>4. \A i \in DOMAIN qs : ToSet(qs[i].ids) \subseteq DOMAIN s  BY <1>2 DEF Evidence
  <1>5. \A i, j \in DOMAIN qs : i # j => ToSet(qs[i].ids) \cap ToSet(qs[j].ids) = {}
    BY <1>2, <1>3 DEF Evidence
  <1>6. ASSUME NEW q \in Requesters, Open(new[q]) PROVE \A i \in DOMAIN qs : ToSet(new[q].found) \cap ToSet(qs[i].ids) = {}
    <2>1. q # r /\ new[q] = cs[q]  BY <1>1, <1>3, <1>6
    <2> QED  BY <1>2, <1>3, <1>6, <2>1 DEF Evidence
  <1>7. IsInjective(s)  BY DEF Evidence
  <1>8. ASSUME NEW q \in Requesters
        PROVE  /\ ToSet(new[q].found) \subseteq DOMAIN s /\ (new[q].at = "search" => new[q].found = <<>>)
               /\ Open(new[q]) => \A o \in Requesters \ {q} : Open(new[o]) => ToSet(new[q].found) \cap ToSet(new[o].found) = {}
    BY <1>1, <1>3 DEF Evidence
  <1>9. Evidence(s, qs, new)  BY <1>4, <1>5, <1>6, <1>7, <1>8 DEF Evidence
  <1> QED  BY <1>9 DEF new, qs
\* The turns of a debate, in the order of its plan: two openings, four turns a round, two theses.
Base(k) == 2 + 4 * (k - 1)
Opening(t) == t.round = 0 /\ t.kind = "opening"
InPlan(t) ==
    \/ Opening(t)
    \/ t.round \in 1..Rounds /\ t.kind \in {"answer", "response"}
    \/ t.round = Rounds + 1 /\ t.kind = "thesis"
Opened(turns) == Len(turns) >= 2 /\ Opening(turns[1]) /\ Opening(turns[2]) /\ turns[1].speaker # turns[2].speaker

\* The rounds before k, and j turns of it.
Debated(turns, k, j) ==
    /\ Opened(turns) /\ \A i \in DOMAIN turns : InPlan(turns[i])
    /\ \A i \in 1..Base(k) : turns[i].round < k
    /\ \A r \in 1..(k - 1), m \in 1..4 : turns[Base(r) + m] = RoundTurns(r)[m]
    /\ \A m \in 1..j : turns[Base(k) + m] = RoundTurns(k)[m]
RoundDone(turns) == Len(turns) = Base(Rounds) + 4 /\ Debated(turns, Rounds, 4)
Whole(turns, results) ==
    /\ Len(turns) = Base(Rounds) + 6 /\ Debated(turns, Rounds, 4) /\ Len(results) = Rounds
    /\ turns[Base(Rounds) + 5] = Turn(Rounds + 1, "pro", "thesis") /\ turns[Base(Rounds) + 6] = Turn(Rounds + 1, "anti", "thesis")

\* The sides open at the same time, each once.
Preparing(turns, clerks) ==
    /\ Len(turns) <= 2
    /\ \A i \in DOMAIN turns : Opening(turns[i]) /\ clerks[turns[i].speaker].at = "open"
    /\ \A i, j \in DOMAIN turns : i # j => turns[i].speaker # turns[j].speaker
    /\ \A side \in Sides : clerks[side].at = "open" => \E i \in DOMAIN turns : turns[i].speaker = side

\* No side's clerk will open any more.
Quiet(clerks) == \A side \in Sides : clerks[side].at \in {"open", "idle"} \/ clerks[side].phase = "round"
InRound(turns, results, k) ==
    \E j \in 0..4 : /\ Len(turns) = Base(k) + j /\ Debated(turns, k, j)
                    /\ Len(results) \in {k - 1, k} /\ (Len(results) = k => j = 4)

Argued(d) ==
    /\ d.at \in {"none", "starts", "announces"} =>
        d.turns = <<>> /\ d.results = <<>> /\ \A side \in Sides : d.clerks[side].at = "idle"
    /\ d.at = "sides" => d.results = <<>> /\ Preparing(d.turns, d.clerks)
    /\ d.at = "opened" => d.results = <<>> /\ Len(d.turns) = 2 /\ Opened(d.turns)
    /\ d.at = "round" => d.round \in 1..Rounds /\ InRound(d.turns, d.results, d.round)
    /\ d.at = "theses" => RoundDone(d.turns) /\ Len(d.results) = Rounds
    /\ d.at \in {"memo", "delivers"} => Whole(d.turns, d.results)
    /\ d.at \in {"opened", "round", "theses", "memo", "delivers"} => Quiet(d.clerks)

Good(d) == Evidence(d.sources, d.packets, d.clerks) /\ Argued(d)
Settled(d) == d.at \in {"delivers", "closing", "done"} /\ Quiet(d.clerks) /\ Whole(d.turns, d.results)
ArchiveRecord == [of : Nat, winner : Winners]

DebateInv ==
    /\ debates \in Seq(DebateRecord) /\ inChat \in 0..Len(debates) /\ defining \in 0..Len(debates)
    /\ \A n \in DOMAIN debates : Good(debates[n])
    /\ debateArchive \in Seq(ArchiveRecord)
    /\ \A i \in DOMAIN debateArchive :
        /\ debateArchive[i].of \in DOMAIN debates /\ Settled(debates[debateArchive[i].of])
        /\ debateArchive[i].winner = Outcome(debates[debateArchive[i].of])

LEMMA DebateMoves ==
    ASSUME DebateInv, NEW n \in DOMAIN debates, NEW x \in DebateRecord, debates' = [debates EXCEPT ![n] = x], Good(x),
           debateArchive' = debateArchive, inChat' \in 0..Len(debates), defining' \in 0..Len(debates),
           Settled(debates[n]) => Settled(x) /\ x.results = debates[n].results
    PROVE  DebateInv'
  <1>1. debates' \in Seq(DebateRecord) /\ DOMAIN debates' = DOMAIN debates /\ Len(debates') = Len(debates)
    BY DEF DebateInv
  <1>2. debates'[n] = x /\ \A m \in DOMAIN debates \ {n} : debates'[m] = debates[m]  BY DEF DebateInv
  <1>3. \A m \in DOMAIN debates' : Good(debates'[m])  BY <1>1, <1>2 DEF DebateInv
  <1>4. ASSUME NEW i \in DOMAIN debateArchive
        PROVE  /\ debateArchive[i].of \in DOMAIN debates' /\ Settled(debates'[debateArchive[i].of])
               /\ debateArchive[i].winner = Outcome(debates'[debateArchive[i].of])
    <2> DEFINE m == debateArchive[i].of
    <2>1. m \in DOMAIN debates /\ Settled(debates[m]) /\ debateArchive[i].winner = Outcome(debates[m])  BY DEF DebateInv
    <2> HIDE DEF m
    <2>2. Settled(debates'[m]) /\ debates'[m].results = debates[m].results  BY <1>2, <2>1
    <2>3. Outcome(debates'[m]) = Outcome(debates[m])  BY <2>2 DEF Outcome, Wins
    <2>4. m \in DOMAIN debates' /\ Settled(debates'[m]) /\ debateArchive[i].winner = Outcome(debates'[m])
      BY <1>1, <2>1, <2>2, <2>3
    <2> QED  BY <2>4 DEF m
  <1> QED  BY <1>1, <1>3, <1>4 DEF DebateInv

LEMMA SidesAre ==
    ASSUME NEW round \in Nat
    PROVE  First(round) \in Sides /\ Second(round) \in Sides /\ First(round) # Second(round)
  <1>1. First(round) \in Sides  BY DEF First, Sides
  <1>2. \E side \in Sides : side # First(round)  BY DEF First, Sides
  <1>3. Second(round) \in Sides /\ Second(round) # First(round)  BY <1>2 DEF Second
  <1> QED  BY <1>1, <1>3

LEMMA RoundTurnsAre ==
    ASSUME NEW k \in 1..Rounds
    PROVE  /\ \A m \in 1..4 : RoundTurns(k)[m] \in TurnRecord /\ RoundTurns(k)[m].round = k /\ InPlan(RoundTurns(k)[m])
           /\ \A m \in 1..2 : RoundTurns(k)[m].kind = "answer"
           /\ \A m \in 3..4 : RoundTurns(k)[m].kind = "response"
           /\ RoundTurns(k)[1].speaker = First(k) /\ RoundTurns(k)[2].speaker = Second(k)
           /\ RoundTurns(k)[3].speaker = First(k) /\ RoundTurns(k)[4].speaker = Second(k)
  <1>1. k \in Nat /\ First(k) \in Sides /\ Second(k) \in Sides  BY SidesAre, DebateAssumption
  <1>2. \A m \in 1..4 : m = 1 \/ m = 2 \/ m = 3 \/ m = 4  OBVIOUS
  <1>3. /\ RoundTurns(k)[1] = Turn(k, First(k), "answer") /\ RoundTurns(k)[2] = Turn(k, Second(k), "answer")
        /\ RoundTurns(k)[3] = Turn(k, First(k), "response") /\ RoundTurns(k)[4] = Turn(k, Second(k), "response")
    BY DEF RoundTurns
  <1>4. \A side \in Sides, kind \in {"answer", "response"} :
          /\ Turn(k, side, kind) \in TurnRecord /\ InPlan(Turn(k, side, kind))
          /\ Turn(k, side, kind).round = k /\ Turn(k, side, kind).kind = kind /\ Turn(k, side, kind).speaker = side
    BY <1>1 DEF Turn, TurnRecord, InPlan
  <1>5. (\A m \in 1..2 : m = 1 \/ m = 2) /\ (\A m \in 3..4 : m = 3 \/ m = 4)  OBVIOUS
  <1> QED  BY <1>1, <1>2, <1>3, <1>4, <1>5

\* The turns of a round are counted by their number.
LEMMA SpokenAre ==
    ASSUME NEW d, NEW k \in 1..Rounds, NEW j \in 0..4, d.turns \in Seq(TurnRecord), d.round = k,
           Len(d.turns) = Base(k) + j, Debated(d.turns, k, j)
    PROVE  SpokenInRound(d) = j
  <1> DEFINE N == {i \in DOMAIN d.turns : d.turns[i].round = d.round}
             b == Base(k)
  <1>1. b \in Nat /\ j \in Nat /\ k \in Nat  BY DebateAssumption DEF Base
  <1>2. Len(d.turns) = b + j /\ DOMAIN d.turns = 1..(b + j)  OBVIOUS
  <1>3. \A i \in DOMAIN d.turns : d.turns[i].round \in Nat
    <2>1. \A i \in DOMAIN d.turns : d.turns[i] \in TurnRecord  OBVIOUS
    <2> QED  BY <2>1 DEF TurnRecord
  <1>4. \A i \in 1..b : d.turns[i].round < k  BY DEF Debated
  <1>5. \A m \in 1..j : d.turns[b + m].round = k
    <2>1. \A m \in 1..j : m \in 1..4  BY <1>1
    <2> QED  BY <2>1, RoundTurnsAre DEF Debated
  <1> HIDE DEF b
  <1>6. N = (b + 1)..(b + j)
    <2>1. ASSUME NEW i \in N PROVE i \in (b + 1)..(b + j)
      <3>1. i \in 1..(b + j) /\ d.turns[i].round = k  BY <1>2
      <3>2. i \notin 1..b  BY <1>1, <1>2, <1>3, <1>4, <3>1
      <3> QED  BY <1>1, <3>1, <3>2
    <2>2. ASSUME NEW i \in (b + 1)..(b + j) PROVE i \in N
      <3>1. i - b \in 1..j /\ i = b + (i - b) /\ i \in 1..(b + j)  BY <1>1
      <3>2. d.turns[i].round = k  BY <1>5, <3>1
      <3> QED  BY <1>2, <3>1, <3>2
    <2> HIDE DEF N
    <2> QED  BY <2>1, <2>2
  <1>7. Cardinality((b + 1)..(b + j)) = IF b + 1 > b + j THEN 0 ELSE (b + j) - (b + 1) + 1
    <2>1. b + 1 \in Int /\ b + j \in Int  BY <1>1
    <2> HIDE DEF N
    <2> QED  BY <2>1, FS_Interval
  <1>8. Cardinality(N) = j
    <2>1. (IF b + 1 > b + j THEN 0 ELSE (b + j) - (b + 1) + 1) = j  BY <1>1
    <2>2. Cardinality(N) = Cardinality((b + 1)..(b + j))  BY <1>6
    <2> HIDE DEF N
    <2> QED  BY <1>7, <2>1, <2>2
  <1> QED  BY <1>8 DEF SpokenInRound

LEMMA SpeaksNext ==
    ASSUME NEW turns \in Seq(TurnRecord), NEW k \in 1..Rounds, NEW j \in 0..3,
           Len(turns) = Base(k) + j, Debated(turns, k, j)
    PROVE  LET more == Append(turns, RoundTurns(k)[j + 1])
           IN  more \in Seq(TurnRecord) /\ Len(more) = Base(k) + (j + 1) /\ Debated(more, k, j + 1)
  <1> DEFINE t == RoundTurns(k)[j + 1]
             more == Append(turns, t)
             b == Base(k)
  <1>1. b \in Nat /\ b >= 2 /\ j \in Nat /\ k \in Nat /\ Rounds \in Nat  BY DebateAssumption DEF Base
  <1>2. j + 1 \in 1..4 /\ t \in TurnRecord /\ InPlan(t)  BY RoundTurnsAre
  <1>3. b = Base(k)  OBVIOUS
  <1> HIDE DEF t, b
  <1>4. /\ more \in Seq(TurnRecord) /\ Len(more) = b + (j + 1)
        /\ more[b + (j + 1)] = t /\ \A i \in 1..(b + j) : i \in DOMAIN turns /\ more[i] = turns[i]
    BY <1>1, <1>2, <1>3
  <1>5. Opened(more)
    <2>1. more[1] = turns[1] /\ more[2] = turns[2] /\ Len(more) >= 2  BY <1>1, <1>4
    <2> QED  BY <2>1 DEF Debated, Opened
  <1>6. ASSUME NEW i \in DOMAIN more PROVE InPlan(more[i])
    <2>1. i \in 1..(b + (j + 1))  BY <1>4
    <2>2. CASE i = b + (j + 1)  BY <1>2, <1>4, <2>2
    <2>3. CASE i # b + (j + 1)
      <3>1. i \in 1..(b + j)  BY <1>1, <2>1, <2>3
      <3> QED  BY <1>4, <3>1 DEF Debated
    <2> QED  BY <2>2, <2>3
  <1>7. \A i \in 1..b : more[i].round < k
    <2>1. \A i \in 1..b : i \in 1..(b + j)  BY <1>1
    <2> QED  BY <1>3, <1>4, <2>1 DEF Debated
  <1>8. ASSUME NEW r \in 1..(k - 1), NEW m \in 1..4 PROVE more[Base(r) + m] = RoundTurns(r)[m]
    <2>1. Base(r) + m \in 1..(b + j)  BY <1>1, <1>3 DEF Base
    <2> QED  BY <1>4, <2>1 DEF Debated
  <1>9. ASSUME NEW m \in 1..(j + 1) PROVE more[b + m] = RoundTurns(k)[m]
    <2>1. CASE m = j + 1  BY <1>4, <2>1 DEF t
    <2>2. CASE m # j + 1
      <3>1. m \in 1..j /\ b + m \in 1..(b + j)  BY <1>1, <2>2
      <3> QED  BY <1>3, <1>4, <3>1 DEF Debated
    <2> QED  BY <2>1, <2>2
  <1>10. Debated(more, k, j + 1)  BY <1>3, <1>5, <1>6, <1>7, <1>8, <1>9 DEF Debated
  <1> QED  BY <1>3, <1>4, <1>10 DEF t

LEMMA RoundOver ==
    ASSUME NEW turns \in Seq(TurnRecord), NEW k \in 1..Rounds, k < Rounds, Len(turns) = Base(k) + 4, Debated(turns, k, 4)
    PROVE  k + 1 \in 1..Rounds /\ Len(turns) = Base(k + 1) + 0 /\ Debated(turns, k + 1, 0)
  <1>1. k \in Nat /\ Rounds \in Nat  BY DebateAssumption
  <1>2. k + 1 \in 1..Rounds /\ Base(k + 1) = Base(k) + 4 /\ Base(k) \in Nat  BY <1>1 DEF Base
  <1>3. ASSUME NEW i \in 1..Base(k + 1) PROVE turns[i].round < k + 1
    <2>1. CASE i \in 1..Base(k)
      <3>1. turns[i].round < k  BY <2>1 DEF Debated
      <3>2. i \in DOMAIN turns  BY <1>2, <2>1
      <3>3. turns[i] \in TurnRecord  BY <3>2
      <3>4. turns[i].round \in Nat  BY <3>3 DEF TurnRecord
      <3> QED  BY <1>1, <3>1, <3>4
    <2>2. CASE i \notin 1..Base(k)
      <3>1. i - Base(k) \in 1..4 /\ i = Base(k) + (i - Base(k))  BY <1>2, <2>2
      <3>2. turns[i] = RoundTurns(k)[i - Base(k)]  BY <3>1 DEF Debated
      <3>3. turns[i].round = k  BY <3>1, <3>2, RoundTurnsAre
      <3> QED  BY <1>1, <3>3
    <2> QED  BY <2>1, <2>2
  <1>4. ASSUME NEW r \in 1..((k + 1) - 1), NEW m \in 1..4 PROVE turns[Base(r) + m] = RoundTurns(r)[m]
    <2>1. r = k \/ r \in 1..(k - 1)  BY <1>1
    <2> QED  BY <2>1 DEF Debated
  <1>5. \A m \in 1..0 : turns[Base(k + 1) + m] = RoundTurns(k + 1)[m]  OBVIOUS
  <1>6. Debated(turns, k + 1, 0)  BY <1>3, <1>4, <1>5 DEF Debated
  <1> QED  BY <1>2, <1>6

LEMMA FirstRound ==
    ASSUME NEW turns \in Seq(TurnRecord), Len(turns) = 2, Opened(turns)
    PROVE  1 \in 1..Rounds /\ Len(turns) = Base(1) + 0 /\ Debated(turns, 1, 0)
  <1>1. 1 \in 1..Rounds /\ Base(1) = 2  BY DebateAssumption DEF Base
  <1>2. \A i \in DOMAIN turns : i = 1 \/ i = 2  OBVIOUS
  <1>3. Opening(turns[1]) /\ Opening(turns[2])  BY DEF Opened
  <1>4. \A i \in DOMAIN turns : InPlan(turns[i])  BY <1>2, <1>3 DEF InPlan
  <1>5. \A i \in 1..Base(1) : turns[i].round < 1
    <2>1. \A i \in 1..2 : i = 1 \/ i = 2  OBVIOUS
    <2> QED  BY <1>1, <1>3, <2>1 DEF Opening
  <1>6. (1 - 1 = 0) /\ \A r \in 1..0 : FALSE  OBVIOUS
  <1>7. Debated(turns, 1, 0)  BY <1>4, <1>5, <1>6 DEF Debated
  <1> QED  BY <1>1, <1>7

LEMMA ThesesGiven ==
    ASSUME NEW turns \in Seq(TurnRecord), NEW results, RoundDone(turns), Len(results) = Rounds
    PROVE  LET more == turns \o <<Turn(Rounds + 1, "pro", "thesis"), Turn(Rounds + 1, "anti", "thesis")>>
           IN  more \in Seq(TurnRecord) /\ Whole(more, results)
  <1> DEFINE p == Turn(Rounds + 1, "pro", "thesis")
             a == Turn(Rounds + 1, "anti", "thesis")
             more == turns \o <<p, a>>
             b == Base(Rounds) + 4
  <1>1. Rounds \in Nat /\ Rounds >= 1 /\ b \in Nat /\ b >= 6 /\ Len(turns) = b  BY DebateAssumption DEF Base, RoundDone
  <1>2. p \in TurnRecord /\ a \in TurnRecord /\ InPlan(p) /\ InPlan(a)
    BY <1>1 DEF Turn, TurnRecord, InPlan, Sides
  <1>3. Base(Rounds) + 5 = b + 1 /\ Base(Rounds) + 6 = b + 2 /\ Base(Rounds) \in Nat  BY <1>1 DEF Base
  <1>4. b = Base(Rounds) + 4  OBVIOUS
  <1>5. Debated(turns, Rounds, 4)  BY DEF RoundDone
  <1> HIDE DEF p, a, b
  <1>6. /\ more \in Seq(TurnRecord) /\ Len(more) = b + 2 /\ more[b + 1] = p /\ more[b + 2] = a
        /\ \A i \in 1..b : i \in DOMAIN turns /\ more[i] = turns[i]
    <2>1. <<p, a>> \in Seq(TurnRecord) /\ Len(<<p, a>>) = 2 /\ <<p, a>>[1] = p /\ <<p, a>>[2] = a  BY <1>2
    <2>2. more \in Seq(TurnRecord) /\ Len(more) = b + 2 /\ \A i \in 1..(b + 2) : more[i] = IF i <= b THEN turns[i] ELSE <<p, a>>[i - b]
      BY <1>1, <2>1, ConcatProperties
    <2>3. b + 1 \in 1..(b + 2) /\ ~(b + 1 <= b) /\ (b + 1) - b = 1 /\ b + 2 \in 1..(b + 2) /\ ~(b + 2 <= b) /\ (b + 2) - b = 2
      BY <1>1
    <2>4. more[b + 1] = p /\ more[b + 2] = a  BY <2>1, <2>2, <2>3
    <2>5. \A i \in 1..b : i \in 1..(b + 2) /\ i <= b /\ i \in DOMAIN turns  BY <1>1
    <2> QED  BY <2>2, <2>4, <2>5
  <1> HIDE DEF more
  <1>7. Opened(more)
    <2>1. more[1] = turns[1] /\ more[2] = turns[2] /\ Len(more) >= 2  BY <1>1, <1>6
    <2> QED  BY <1>5, <2>1 DEF Debated, Opened
  <1>8. ASSUME NEW i \in DOMAIN more PROVE InPlan(more[i])
    <2>1. i \in 1..b \/ i = b + 1 \/ i = b + 2  BY <1>1, <1>6
    <2> QED  BY <1>2, <1>5, <1>6, <2>1 DEF Debated
  <1>9. \A i \in 1..Base(Rounds) : more[i].round < Rounds
    <2>1. \A i \in 1..Base(Rounds) : i \in 1..b  BY <1>3, <1>4
    <2> QED  BY <1>5, <1>6, <2>1 DEF Debated
  <1>10. ASSUME NEW r \in 1..(Rounds - 1), NEW m \in 1..4 PROVE more[Base(r) + m] = RoundTurns(r)[m]
    <2>1. Base(r) + m \in 1..b  BY <1>1, <1>4 DEF Base
    <2> QED  BY <1>5, <1>6, <2>1 DEF Debated
  <1>11. ASSUME NEW m \in 1..4 PROVE more[Base(Rounds) + m] = RoundTurns(Rounds)[m]
    <2>1. Base(Rounds) + m \in 1..b  BY <1>1, <1>3, <1>4
    <2> QED  BY <1>5, <1>6, <2>1 DEF Debated
  <1>12. Debated(more, Rounds, 4)  BY <1>7, <1>8, <1>9, <1>10, <1>11 DEF Debated
  <1>13. Len(more) = Base(Rounds) + 6  BY <1>3, <1>6
  <1>14. Whole(more, results)  BY <1>3, <1>6, <1>12, <1>13 DEF Whole, p, a
  <1> QED  BY <1>6, <1>14 DEF more, p, a

LEMMA BothOpened ==
    ASSUME NEW turns \in Seq(TurnRecord), NEW clerks, Preparing(turns, clerks), \A side \in Sides : clerks[side].at = "open"
    PROVE  Len(turns) = 2 /\ Opened(turns)
  <1>1. PICK i \in DOMAIN turns : turns[i].speaker = "pro"  BY DEF Preparing, Sides
  <1>2. PICK k \in DOMAIN turns : turns[k].speaker = "anti"  BY DEF Preparing, Sides
  <1>3. i # k  BY <1>1, <1>2
  <1>4. Len(turns) \in Nat /\ DOMAIN turns = 1..Len(turns) /\ Len(turns) <= 2  BY DEF Preparing
  <1>5. Len(turns) = 2  BY <1>3, <1>4
  <1>6. 1 \in DOMAIN turns /\ 2 \in DOMAIN turns  BY <1>5
  <1> QED  BY <1>5, <1>6 DEF Preparing, Opened

LEMMA DebateTyped ==
    ASSUME DebateInv, NEW n \in DOMAIN debates
    PROVE  debates[n] \in DebateRecord /\ Good(debates[n]) /\ n \in Nat
  BY DEF DebateInv

LEMMA DebateFields ==
    ASSUME NEW d \in DebateRecord
    PROVE  /\ d.sources \in Seq(Pages) /\ d.packets \in Seq(PacketRecord) /\ d.turns \in Seq(TurnRecord)
           /\ d.results \in Seq(Winners) /\ d.clerks \in [Requesters -> ClerkRecord] /\ d.round \in Nat
  BY DEF DebateRecord

\* What a clerk does before it has filed its packet is no matter of the debate's course.
LEMMA ClerkArgues ==
    ASSUME NEW d \in DebateRecord, NEW x \in DebateRecord, NEW r \in Requesters, NEW c \in ClerkRecord,
           x.at = d.at, x.turns = d.turns, x.results = d.results, x.round = d.round,
           x.clerks = [d.clerks EXCEPT ![r] = c], d.clerks[r].at \in {"search", "commit"},
           c.at \in {"commit", "failed", "filed"}, c.phase = d.clerks[r].phase, Argued(d)
    PROVE  Argued(x) /\ (Settled(d) => Settled(x))
  <1>1. d.clerks \in [Requesters -> ClerkRecord]  BY DebateFields
  <1>2. x.clerks[r] = c /\ \A q \in Requesters \ {r} : x.clerks[q] = d.clerks[q]  BY <1>1
  <1>3. Sides \subseteq Requesters  BY DEF Requesters
  <1>4. Quiet(d.clerks) => Quiet(x.clerks)  BY <1>2, <1>3 DEF Quiet
  <1>5. (\A side \in Sides : d.clerks[side].at = "idle") => \A side \in Sides : x.clerks[side].at = "idle"
    BY <1>2, <1>3
  <1>6. Preparing(d.turns, d.clerks) => Preparing(x.turns, x.clerks)
    <2> SUFFICES ASSUME Preparing(d.turns, d.clerks) PROVE Preparing(x.turns, x.clerks)
      OBVIOUS
    <2>1. \A i \in DOMAIN d.turns : d.turns[i].speaker \in Sides
      <3>1. d.turns \in Seq(TurnRecord)  BY DebateFields
      <3>2. \A i \in DOMAIN d.turns : d.turns[i] \in TurnRecord  BY <3>1
      <3> QED  BY <3>2 DEF TurnRecord
    <2>2. \A i \in DOMAIN d.turns : d.turns[i].speaker # r  BY DEF Preparing
    <2>3. \A side \in Sides : x.clerks[side].at = "open" => d.clerks[side].at = "open"  BY <1>2, <1>3
    <2> QED  BY <1>2, <1>3, <2>1, <2>2, <2>3 DEF Preparing
  <1>7. Argued(x)  BY <1>4, <1>5, <1>6 DEF Argued
  <1> QED  BY <1>4, <1>7 DEF Settled

LEMMA ClerkSearchesStep ==
    ASSUME DebateInv, NEW n \in DOMAIN debates, NEW r \in Requesters, ClerkSearches(n, r)
    PROVE  DebateInv'
  <1> DEFINE d == debates[n]
  <1>1. d \in DebateRecord /\ Good(d)  BY DebateTyped
  <1>2. d.clerks \in [Requesters -> ClerkRecord] /\ d.clerks[r] \in ClerkRecord /\ d.clerks[r].at = "search"
        /\ d.sources \in Seq(Pages) /\ d.packets \in Seq(PacketRecord)
    BY <1>1, DebateFields DEF ClerkSearches
  <1>3. PICK picked \in Picked(d) : debates' = [debates EXCEPT ![n].clerks[r] = [@ EXCEPT !.at = "commit", !.targets = picked]]
    BY DEF ClerkSearches
  <1>4. UNCHANGED <<inChat, defining, debateArchive>>  BY DEF ClerkSearches
  <1>5. picked \in Seq(Pages)
    <2>1. PICK m \in 0..SourceLimit : picked \in [1..m -> Pages]  BY DEF Picked, SeqOf
    <2>2. m \in Nat  BY DebateAssumption
    <2> QED  BY <2>1, <2>2
  <1> DEFINE c == [d.clerks[r] EXCEPT !.at = "commit", !.targets = picked]
             x == [d EXCEPT !.clerks = [d.clerks EXCEPT ![r] = c]]
  <1>6. c \in ClerkRecord /\ c.at = "commit" /\ c.phase = d.clerks[r].phase /\ c.found = d.clerks[r].found
    BY <1>2, <1>5 DEF ClerkRecord
  <1>7. debates' = [debates EXCEPT ![n] = x]
    <2>1. debates' = [debates EXCEPT ![n].clerks[r] = c]  BY <1>3
    <2> HIDE DEF c
    <2>2. [d EXCEPT !.clerks[r] = c] = x  BY <1>1, <1>2 DEF DebateRecord
    <2> QED  BY <2>1, <2>2
  <1> HIDE DEF c
  <1>8. /\ x \in DebateRecord /\ x.at = d.at /\ x.turns = d.turns /\ x.results = d.results /\ x.round = d.round
        /\ x.clerks = [d.clerks EXCEPT ![r] = c] /\ x.sources = d.sources /\ x.packets = d.packets
    BY <1>1, <1>2, <1>6 DEF DebateRecord
  <1> HIDE DEF x, d
  <1>9. Argued(x) /\ (Settled(d) => Settled(x))  BY <1>1, <1>2, <1>6, <1>8, ClerkArgues DEF Good
  <1>10. Evidence(x.sources, x.packets, x.clerks)
    BY <1>1, <1>2, <1>6, <1>8, EvidenceMoved DEF Good, Open
  <1>11. inChat \in 0..Len(debates) /\ defining \in 0..Len(debates)  BY DEF DebateInv
  <1> QED  BY <1>4, <1>7, <1>8, <1>9, <1>10, <1>11, DebateMoves DEF d, Good

LEMMA ClerkFilesStep ==
    ASSUME DebateInv, NEW n \in DOMAIN debates, NEW r \in Requesters, ClerkFiles(n, r)
    PROVE  DebateInv'
  <1> DEFINE d == debates[n]
             p == [for |-> r, phase |-> d.clerks[r].phase, ids |-> d.clerks[r].found]
             c == [d.clerks[r] EXCEPT !.at = "filed"]
             x == [d EXCEPT !.packets = Append(d.packets, p), !.clerks = [d.clerks EXCEPT ![r] = c]]
  <1>1. d \in DebateRecord /\ Good(d)  BY DebateTyped
  <1>2. d.clerks \in [Requesters -> ClerkRecord] /\ d.clerks[r] \in ClerkRecord /\ d.clerks[r].at = "commit"
        /\ d.sources \in Seq(Pages) /\ d.packets \in Seq(PacketRecord)
    BY <1>1, DebateFields DEF ClerkFiles
  <1>3. debates' = [debates EXCEPT ![n].packets = Append(@, p), ![n].clerks[r].at = "filed"]  BY DEF ClerkFiles
  <1>4. UNCHANGED <<inChat, defining, debateArchive>>  BY DEF ClerkFiles
  <1>5. p \in PacketRecord /\ p.ids = d.clerks[r].found  BY <1>2 DEF PacketRecord, ClerkRecord
  <1>6. c \in ClerkRecord /\ c.at = "filed" /\ c.phase = d.clerks[r].phase /\ c.found = d.clerks[r].found
    BY <1>2 DEF ClerkRecord
  <1> HIDE DEF p
  <1>7. debates' = [debates EXCEPT ![n] = x]  BY <1>1, <1>2, <1>3 DEF DebateRecord, ClerkRecord
  <1> HIDE DEF c
  <1>8. /\ x \in DebateRecord /\ x.at = d.at /\ x.turns = d.turns /\ x.results = d.results /\ x.round = d.round
        /\ x.clerks = [d.clerks EXCEPT ![r] = c] /\ x.sources = d.sources /\ x.packets = Append(d.packets, p)
    <2> DEFINE ps == Append(d.packets, p)
               cs == [d.clerks EXCEPT ![r] = c]
    <2>1. ps \in Seq(PacketRecord) /\ cs \in [Requesters -> ClerkRecord]  BY <1>2, <1>5, <1>6
    <2> HIDE DEF ps, cs
    <2>2. /\ [d EXCEPT !.packets = ps, !.clerks = cs] \in DebateRecord
          /\ [d EXCEPT !.packets = ps, !.clerks = cs].packets = ps /\ [d EXCEPT !.packets = ps, !.clerks = cs].clerks = cs
          /\ [d EXCEPT !.packets = ps, !.clerks = cs].sources = d.sources
      BY <1>1, <2>1 DEF DebateRecord
    <2> QED  BY <2>2 DEF ps, cs
  <1> HIDE DEF x, d
  <1>9. Argued(x) /\ (Settled(d) => Settled(x))  BY <1>1, <1>2, <1>6, <1>8, ClerkArgues DEF Good
  <1>10. Evidence(x.sources, x.packets, x.clerks)
    <2>1. Evidence(d.sources, d.packets, d.clerks)  BY <1>1 DEF Good
    <2>2. Evidence(d.sources, Append(d.packets, p), [d.clerks EXCEPT ![r] = c])
      BY <1>2, <1>5, <1>6, <2>1, EvidenceFiled
    <2> QED  BY <1>8, <2>2
  <1>11. inChat \in 0..Len(debates) /\ defining \in 0..Len(debates)  BY DEF DebateInv
  <1> QED  BY <1>4, <1>7, <1>8, <1>9, <1>10, <1>11, DebateMoves DEF d, Good

LEMMA ClerkCommitsStep ==
    ASSUME DebateInv, NEW n \in DOMAIN debates, NEW r \in Requesters, ClerkCommits(n, r)
    PROVE  DebateInv'
  <1> DEFINE d == debates[n]
             page == Head(d.clerks[r].targets)
  <1>1. d \in DebateRecord /\ Good(d)  BY DebateTyped
  <1>2. d.clerks \in [Requesters -> ClerkRecord] /\ d.clerks[r] \in ClerkRecord /\ d.clerks[r].at = "commit"
        /\ d.sources \in Seq(Pages) /\ d.packets \in Seq(PacketRecord) /\ d.clerks[r].targets # <<>>
    BY <1>1, DebateFields DEF ClerkCommits
  <1>3. UNCHANGED <<inChat, defining, debateArchive>>  BY DEF ClerkCommits
  <1>4. d.clerks[r].targets \in Seq(Pages) /\ d.clerks[r].found \in Seq(Nat)  BY <1>2 DEF ClerkRecord
  <1>5. page \in Pages /\ Tail(d.clerks[r].targets) \in Seq(Pages)  BY <1>2, <1>4
  <1>6. inChat \in 0..Len(debates) /\ defining \in 0..Len(debates)  BY DEF DebateInv
  <1>7. CASE debates' = [debates EXCEPT ![n].clerks[r].targets = Tail(@)]
    <2> DEFINE c == [d.clerks[r] EXCEPT !.targets = Tail(d.clerks[r].targets)]
               x == [d EXCEPT !.clerks = [d.clerks EXCEPT ![r] = c]]
    <2>1. c \in ClerkRecord /\ c.at = "commit" /\ c.phase = d.clerks[r].phase /\ c.found = d.clerks[r].found
      BY <1>2, <1>5 DEF ClerkRecord
    <2>2. debates' = [debates EXCEPT ![n] = x]  BY <1>1, <1>2, <1>7 DEF DebateRecord, ClerkRecord
    <2> HIDE DEF c
    <2>3. /\ x \in DebateRecord /\ x.at = d.at /\ x.turns = d.turns /\ x.results = d.results /\ x.round = d.round
          /\ x.clerks = [d.clerks EXCEPT ![r] = c] /\ x.sources = d.sources /\ x.packets = d.packets
      BY <1>1, <1>2, <2>1 DEF DebateRecord
    <2> HIDE DEF x, d, page
    <2>4. Argued(x) /\ (Settled(d) => Settled(x))  BY <1>1, <1>2, <2>1, <2>3, ClerkArgues DEF Good
    <2>5. Evidence(x.sources, x.packets, x.clerks)
      BY <1>1, <1>2, <2>1, <2>3, EvidenceMoved DEF Good, Open
    <2> QED  BY <1>3, <1>6, <2>2, <2>3, <2>4, <2>5, DebateMoves DEF d, Good
  <1>8. ASSUME ~Known(d, page), NEW ok \in BOOLEAN,
               debates' = [debates EXCEPT ![n] =
                   [d EXCEPT !.sources = Append(d.sources, page),
                             !.clerks[r] = [d.clerks[r] EXCEPT !.at = IF ok THEN "commit" ELSE "failed",
                                                !.targets = Tail(d.clerks[r].targets),
                                                !.found = Append(d.clerks[r].found, Len(d.sources) + 1)]]]
        PROVE  DebateInv'
    <2> DEFINE at == IF ok THEN "commit" ELSE "failed"
               c == [d.clerks[r] EXCEPT !.at = at, !.targets = Tail(d.clerks[r].targets),
                                        !.found = Append(d.clerks[r].found, Len(d.sources) + 1)]
               x == [d EXCEPT !.sources = Append(d.sources, page), !.clerks = [d.clerks EXCEPT ![r] = c]]
    <2>1. at \in {"commit", "failed"}  OBVIOUS
    <2>2. debates' = [debates EXCEPT ![n] = x]
      <3>1. debates' = [debates EXCEPT ![n] = [d EXCEPT !.sources = Append(d.sources, page), !.clerks[r] = c]]
        BY <1>8
      <3> HIDE DEF c
      <3>2. [d EXCEPT !.sources = Append(d.sources, page), !.clerks[r] = c] = x  BY <1>1, <1>2 DEF DebateRecord
      <3> QED  BY <3>1, <3>2
    <2> HIDE DEF at
    <2>3. Append(d.clerks[r].found, Len(d.sources) + 1) \in Seq(Nat)
      <3>1. Len(d.sources) + 1 \in Nat  BY <1>2
      <3> QED  BY <1>4, <3>1
    <2>4. /\ c \in ClerkRecord /\ c.at \in {"commit", "failed"} /\ c.phase = d.clerks[r].phase
          /\ c.found = Append(d.clerks[r].found, Len(d.sources) + 1)
      BY <1>2, <1>5, <2>1, <2>3 DEF ClerkRecord
    <2> HIDE DEF c
    <2>5. /\ x \in DebateRecord /\ x.at = d.at /\ x.turns = d.turns /\ x.results = d.results /\ x.round = d.round
          /\ x.clerks = [d.clerks EXCEPT ![r] = c] /\ x.sources = Append(d.sources, page) /\ x.packets = d.packets
      <3> DEFINE ss == Append(d.sources, page)
                 cs == [d.clerks EXCEPT ![r] = c]
      <3>1. ss \in Seq(Pages) /\ cs \in [Requesters -> ClerkRecord]  BY <1>2, <1>5, <2>4
      <3> HIDE DEF ss, cs
      <3>2. /\ [d EXCEPT !.sources = ss, !.clerks = cs] \in DebateRecord
            /\ [d EXCEPT !.sources = ss, !.clerks = cs].sources = ss /\ [d EXCEPT !.sources = ss, !.clerks = cs].clerks = cs
            /\ [d EXCEPT !.sources = ss, !.clerks = cs].packets = d.packets
        BY <1>1, <3>1 DEF DebateRecord
      <3> QED  BY <3>2 DEF ss, cs
    <2>6. page \notin ToSet(d.sources)  BY <1>8 DEF Known
    <2> HIDE DEF x, d, page
    <2>7. Argued(x) /\ (Settled(d) => Settled(x))  BY <1>1, <1>2, <2>4, <2>5, ClerkArgues DEF Good
    <2>8. Evidence(x.sources, x.packets, x.clerks)
      <3>1. Evidence(d.sources, d.packets, d.clerks) /\ c.at # "search"  BY <1>1, <2>4 DEF Good
      <3>2. Evidence(Append(d.sources, page), d.packets, [d.clerks EXCEPT ![r] = c])
        BY <1>2, <1>5, <2>4, <2>6, <3>1, EvidenceCommitted
      <3> QED  BY <2>5, <3>2
    <2> QED  BY <1>3, <1>6, <2>2, <2>5, <2>7, <2>8, DebateMoves DEF d, Good
  <1> QED  BY <1>7, <1>8 DEF ClerkCommits

LEMMA DebateStarts == ASSUME DebateInit PROVE DebateInv
  <1>1. debates = <<>> /\ inChat = 0 /\ defining = 0 /\ debateArchive = <<>>  BY DEF DebateInit
  <1>2. debates \in Seq(DebateRecord) /\ debateArchive \in Seq(ArchiveRecord) /\ Len(debates) = 0
        /\ DOMAIN debates = {} /\ DOMAIN debateArchive = {}
    BY <1>1
  <1> QED  BY <1>1, <1>2 DEF DebateInv

LEMMA DebateStays == ASSUME DebateInv, UNCHANGED <<debates, inChat, defining, debateArchive>> PROVE DebateInv'
  BY DEF DebateInv

\* A step of the command, of the user or of the moderator leaves the course of a debate alone.
LEMMA CourseKept ==
    ASSUME NEW d \in DebateRecord, NEW x \in DebateRecord, Argued(d),
           x.at = d.at, x.turns = d.turns, x.results = d.results, x.round = d.round,
           \A side \in Sides : x.clerks[side] = d.clerks[side]
    PROVE  Argued(x) /\ (Settled(d) => Settled(x))
  <1>1. Quiet(x.clerks) <=> Quiet(d.clerks)  BY DEF Quiet
  <1>2. Preparing(d.turns, d.clerks) => Preparing(x.turns, x.clerks)
    <2>1. d.turns \in Seq(TurnRecord)  BY DebateFields
    <2>2. \A i \in DOMAIN d.turns : d.turns[i] \in TurnRecord  BY <2>1
    <2>3. \A i \in DOMAIN d.turns : d.turns[i].speaker \in Sides  BY <2>2 DEF TurnRecord
    <2> QED  BY <2>3 DEF Preparing
  <1>3. Argued(x)  BY <1>1, <1>2 DEF Argued
  <1> QED  BY <1>1, <1>3 DEF Settled

LEMMA DebateCommandStep == ASSUME DebateInv, DebateCommand PROVE DebateInv'
  <1> DEFINE c == Clerk("search", "positions")
             x == RequestClerk(NewDebate, "moderator", "positions")
             idle == [r \in Requesters |-> Clerk("idle", "none")]
             cs == [idle EXCEPT !["moderator"] = c]
             n == Len(debates) + 1
  <1>1. c \in ClerkRecord /\ c.found = <<>> /\ Clerk("idle", "none") \in ClerkRecord /\ Clerk("idle", "none").at = "idle"
        /\ Clerk("idle", "none").found = <<>>
    BY DEF Clerk, ClerkRecord
  <1>2. idle \in [Requesters -> ClerkRecord] /\ cs \in [Requesters -> ClerkRecord]  BY <1>1
  <1>3. \A side \in Sides : cs[side].at = "idle"
    <2>1. \A side \in Sides : side \in Requesters /\ side # "moderator"  BY DEF Sides, Requesters
    <2> QED  BY <1>1, <2>1
  <1>4. Evidence(<<>>, <<>>, cs)
    <2>1. Evidence(<<>>, <<>>, idle)
      <3>1. ToSet(<<>>) = {} /\ IsInjective(<<>>)  BY DEF ToSet, IsInjective
      <3>2. \A r \in Requesters : idle[r].found = <<>> /\ ~Open(idle[r])  BY <1>1 DEF Open
      <3> HIDE DEF idle
      <3> QED  BY <3>1, <3>2 DEF Evidence
    <2>2. "moderator" \in Requesters  BY DEF Requesters
    <2>3. <<>> \in Seq(Pages) /\ <<>> \in Seq(PacketRecord)  OBVIOUS
    <2> HIDE DEF c, idle
    <2> QED  BY <1>1, <1>2, <2>1, <2>2, <2>3, EvidenceRequested
  <1>5. /\ x = [NewDebate EXCEPT !.clerks = cs]
        /\ x \in DebateRecord /\ x.at = "none" /\ x.turns = <<>> /\ x.results = <<>> /\ x.sources = <<>>
        /\ x.packets = <<>> /\ x.clerks = cs
    <2>1. x = [NewDebate EXCEPT !.clerks = cs]  BY DEF RequestClerk, NewDebate
    <2>2. <<>> \in Seq(Pages) /\ <<>> \in Seq(PacketRecord) /\ <<>> \in Seq(TurnRecord) /\ <<>> \in Seq(Winners)  OBVIOUS
    <2> HIDE DEF cs, x
    <2>3. x = [status |-> "preparing_positions", at |-> "none", cancel |-> FALSE, round |-> 0,
               sources |-> <<>>, packets |-> <<>>, turns |-> <<>>, results |-> <<>>, clerks |-> cs]
      BY <2>1 DEF NewDebate
    <2>4. "none" \in DebatePlaces  BY DEF DebatePlaces
    <2>5. 0 \in Nat /\ FALSE \in BOOLEAN  OBVIOUS
    <2>6. x \in DebateRecord  BY <1>2, <2>2, <2>3, <2>4, <2>5 DEF DebateRecord
    <2>7. x.at = "none" /\ x.turns = <<>> /\ x.results = <<>> /\ x.sources = <<>> /\ x.packets = <<>> /\ x.clerks = cs
      BY <2>3
    <2> QED  BY <2>1, <2>6, <2>7
  <1> HIDE DEF x, cs
  <1>6. Argued(x)  BY <1>3, <1>5 DEF Argued
  <1>7. Good(x)  BY <1>4, <1>5, <1>6 DEF Good
  <1>8. /\ debates' = Append(debates, x) /\ inChat' = n /\ defining' = n /\ debateArchive' = debateArchive
    BY DEF DebateCommand, x
  <1>9. debates \in Seq(DebateRecord)  BY DEF DebateInv
  <1>10. /\ debates' \in Seq(DebateRecord) /\ Len(debates') = n /\ n \in 0..Len(debates')
         /\ \A m \in DOMAIN debates' : m \in DOMAIN debates \/ m = n
         /\ \A m \in DOMAIN debates : m \in DOMAIN debates' /\ debates'[m] = debates[m]
         /\ debates'[n] = x
    BY <1>5, <1>8, <1>9
  <1>11. \A m \in DOMAIN debates' : Good(debates'[m])  BY <1>7, <1>10 DEF DebateInv
  <1>12. ASSUME NEW i \in DOMAIN debateArchive
         PROVE  /\ debateArchive[i].of \in DOMAIN debates' /\ Settled(debates'[debateArchive[i].of])
                /\ debateArchive[i].winner = Outcome(debates'[debateArchive[i].of])
    <2> DEFINE m == debateArchive[i].of
    <2>1. m \in DOMAIN debates /\ Settled(debates[m]) /\ debateArchive[i].winner = Outcome(debates[m])  BY DEF DebateInv
    <2> HIDE DEF m
    <2>2. m \in DOMAIN debates' /\ Settled(debates'[m]) /\ debateArchive[i].winner = Outcome(debates'[m])  BY <1>10, <2>1
    <2> QED  BY <2>2 DEF m
  <1> QED  BY <1>8, <1>10, <1>11, <1>12 DEF DebateInv

LEMMA PositionsDefinedStep == ASSUME DebateInv, PositionsDefined PROVE DebateInv'
  <1> DEFINE n == defining
             d == debates[n]
  <1>1. n \in DOMAIN debates  BY DEF DebateInv, PositionsDefined
  <1>2. d \in DebateRecord /\ Good(d)  BY <1>1, DebateTyped
  <1>3. d.clerks \in [Requesters -> ClerkRecord] /\ d.sources \in Seq(Pages) /\ d.packets \in Seq(PacketRecord)
    BY <1>2, DebateFields
  <1>4. "moderator" \in Requesters  BY DEF Requesters
  <1>5. d.clerks["moderator"] \in ClerkRecord  BY <1>3, <1>4
  <1>6. PICK ok \in BOOLEAN :
            debates' = [debates EXCEPT ![n].status = IF ok THEN "defining_positions" ELSE "error",
                                       ![n].clerks["moderator"].at = "idle"]
    BY DEF PositionsDefined
  <1> DEFINE st == IF ok THEN "defining_positions" ELSE "error"
             c == [d.clerks["moderator"] EXCEPT !.at = "idle"]
             cs == [d.clerks EXCEPT !["moderator"] = c]
             x == [d EXCEPT !.status = st, !.clerks = cs]
  <1>7. st \in {"defining_positions", "error"}  OBVIOUS
  <1>8. debates' = [debates EXCEPT ![n] = x]
    <2> HIDE DEF st
    <2> QED  BY <1>2, <1>3, <1>4, <1>5, <1>6 DEF DebateRecord, ClerkRecord, st
  <1> HIDE DEF st
  <1>9. c \in ClerkRecord /\ c.at = "idle" /\ c.found = d.clerks["moderator"].found  BY <1>5 DEF ClerkRecord
  <1> HIDE DEF c
  <1>10. cs \in [Requesters -> ClerkRecord] /\ \A side \in Sides : cs[side] = d.clerks[side]
    <2>1. \A side \in Sides : side \in Requesters /\ side # "moderator"  BY DEF Sides, Requesters
    <2> QED  BY <1>3, <1>9, <2>1
  <1>11. Evidence(d.sources, d.packets, cs)
    <2>1. Evidence(d.sources, d.packets, d.clerks)  BY <1>2 DEF Good
    <2> QED  BY <1>3, <1>4, <1>9, <2>1, EvidenceMoved DEF Open
  <1> HIDE DEF cs
  <1>12. /\ x \in DebateRecord /\ x.at = d.at /\ x.turns = d.turns /\ x.results = d.results /\ x.round = d.round
         /\ x.clerks = cs /\ x.sources = d.sources /\ x.packets = d.packets
    BY <1>2, <1>7, <1>10 DEF DebateRecord
  <1> HIDE DEF x, d
  <1>13. Argued(x) /\ (Settled(d) => Settled(x))  BY <1>2, <1>10, <1>12, CourseKept DEF Good
  <1>14. defining' = 0 /\ UNCHANGED <<inChat, debateArchive>>  BY DEF PositionsDefined
  <1>15. inChat \in 0..Len(debates) /\ 0 \in 0..Len(debates)  BY DEF DebateInv
  <1>16. Good(x)  BY <1>11, <1>12, <1>13 DEF Good
  <1> QED  BY <1>1, <1>8, <1>12, <1>13, <1>14, <1>15, <1>16, DebateMoves DEF d

\* A step of the task that leaves the evidence alone.
LEMMA TaskMoves ==
    ASSUME DebateInv, NEW n \in DOMAIN debates, NEW x \in DebateRecord, debates' = [debates EXCEPT ![n] = x],
           x.sources = debates[n].sources, x.packets = debates[n].packets, x.clerks = debates[n].clerks,
           Argued(x), Settled(debates[n]) => Settled(x) /\ x.results = debates[n].results,
           debateArchive' = debateArchive, inChat' \in {inChat, 0, n}, defining' = defining
    PROVE  DebateInv'
  <1>1. Good(debates[n])  BY DebateTyped
  <1>2. Good(x)  BY <1>1 DEF Good
  <1>3. inChat' \in 0..Len(debates) /\ defining' \in 0..Len(debates)  BY DEF DebateInv
  <1> QED  BY <1>2, <1>3, DebateMoves

\* The user accepts the positions.
LEMMA BeginDebateStep == ASSUME DebateInv, BeginDebate PROVE DebateInv'
  <1> DEFINE n == inChat
             d == debates[n]
             x == [d EXCEPT !.at = "starts"]
  <1>1. n \in DOMAIN debates  BY DEF DebateInv, BeginDebate
  <1>2. d \in DebateRecord /\ Good(d)  BY <1>1, DebateTyped
  <1>3. /\ debates' = [debates EXCEPT ![n] = x] /\ d.at = "none"
        /\ UNCHANGED <<inChat, defining, debateArchive>>
    BY DEF BeginDebate
  <1>4. /\ x \in DebateRecord /\ x.at = "starts" /\ x.turns = d.turns /\ x.results = d.results
        /\ x.clerks = d.clerks /\ x.sources = d.sources /\ x.packets = d.packets
    BY <1>2 DEF DebateRecord, DebatePlaces
  <1> HIDE DEF x
  <1>5. Argued(x) /\ ~Settled(d)  BY <1>2, <1>3, <1>4 DEF Good, Argued, Settled
  <1> QED  BY <1>1, <1>3, <1>4, <1>5, TaskMoves

\* A debate is cancelled.
LEMMA CancelDebateStep == ASSUME DebateInv, CancelDebate PROVE DebateInv'
  <1> DEFINE n == inChat
             d == debates[n]
             b == d.at \notin {"none", "done"}
             x == [d EXCEPT !.status = "cancelled", !.cancel = b]
  <1>1. n \in DOMAIN debates  BY DEF DebateInv, CancelDebate
  <1>2. d \in DebateRecord /\ Good(d)  BY <1>1, DebateTyped
  <1>3. /\ debates' = [debates EXCEPT ![n] = x]
        /\ inChat' = 0 /\ UNCHANGED <<defining, debateArchive>>
    <2>1. debates' = [debates EXCEPT ![n].status = "cancelled", ![n].cancel = b]  BY DEF CancelDebate
    <2> HIDE DEF b
    <2>2. debates' = [debates EXCEPT ![n] = x]  BY <1>2, <2>1 DEF DebateRecord
    <2> QED  BY <2>2 DEF CancelDebate
  <1>4. b \in BOOLEAN  OBVIOUS
  <1> HIDE DEF b
  <1>5. /\ x \in DebateRecord /\ x.at = d.at /\ x.turns = d.turns /\ x.results = d.results /\ x.round = d.round
        /\ x.clerks = d.clerks /\ x.sources = d.sources /\ x.packets = d.packets
    BY <1>2, <1>4 DEF DebateRecord
  <1> HIDE DEF x, d
  <1>6. Argued(x) /\ (Settled(d) => Settled(x))  BY <1>2, <1>5, CourseKept DEF Good
  <1> QED  BY <1>1, <1>3, <1>5, <1>6, TaskMoves DEF d

LEMMA ClearDebatesStep == ASSUME DebateInv, ClearDebates PROVE DebateInv'
  <1>1. debateArchive' = <<>> /\ UNCHANGED <<debates, inChat, defining>>  BY DEF ClearDebates
  <1>2. debateArchive' \in Seq(ArchiveRecord) /\ DOMAIN debateArchive' = {}  BY <1>1
  <1> QED  BY <1>1, <1>2 DEF DebateInv

\* A side that has prepared goes on to deep research, or opens.
LEMMA SidePreparesStep ==
    ASSUME DebateInv, NEW n \in DOMAIN debates, NEW side \in Sides, SidePrepares(n, side)
    PROVE  DebateInv'
  <1> DEFINE d == debates[n]
  <1>1. d \in DebateRecord /\ Good(d)  BY DebateTyped
  <1>2. side \in Requesters  BY DEF Requesters
  <1>3. d.clerks \in [Requesters -> ClerkRecord] /\ d.clerks[side] \in ClerkRecord /\ d.clerks[side].at = "filed"
        /\ d.sources \in Seq(Pages) /\ d.packets \in Seq(PacketRecord) /\ d.turns \in Seq(TurnRecord)
    BY <1>1, <1>2, DebateFields DEF SidePrepares
  <1>4. d.clerks[side].phase \in {"light", "deep"} /\ ~Quiet(d.clerks)
    BY DEF SidePrepares, Quiet
  <1>5. ~Settled(d) /\ d.at \notin {"none", "starts", "announces", "opened", "round", "theses", "memo", "delivers"}
    BY <1>1, <1>3, <1>4 DEF Good, Argued, Settled
  <1>6. UNCHANGED <<inChat, defining, debateArchive>> /\ inChat \in 0..Len(debates) /\ defining \in 0..Len(debates)
    BY DEF SidePrepares, DebateInv
  <1>7. Evidence(d.sources, d.packets, d.clerks)  BY <1>1 DEF Good
  <1>8. d.at = "sides" => d.results = <<>> /\ Preparing(d.turns, d.clerks)  BY <1>1 DEF Good, Argued
  <1>9. \A s \in Sides : s \in Requesters  BY DEF Requesters
  <1>10. \A i \in DOMAIN d.turns : d.turns[i].speaker \in Sides
    <2>1. \A i \in DOMAIN d.turns : d.turns[i] \in TurnRecord  BY <1>3
    <2> QED  BY <2>1 DEF TurnRecord
  <1>11. CASE debates' = [debates EXCEPT ![n] = RequestClerk(d, side, "deep")]
    <2> DEFINE c == Clerk("search", "deep")
               cs == [d.clerks EXCEPT ![side] = c]
               x == [d EXCEPT !.clerks = cs]
    <2>1. c \in ClerkRecord /\ c.found = <<>> /\ c.at = "search"  BY DEF Clerk, ClerkRecord
    <2> HIDE DEF c
    <2>2. RequestClerk(d, side, "deep") = x  BY <1>1, <1>2, <1>3 DEF RequestClerk, DebateRecord, c
    <2>3. cs \in [Requesters -> ClerkRecord] /\ cs[side] = c /\ \A s \in Sides \ {side} : cs[s] = d.clerks[s]
      BY <1>2, <1>3, <1>9, <2>1
    <2>4. Evidence(d.sources, d.packets, cs)  BY <1>2, <1>3, <1>7, <2>1, EvidenceRequested
    <2> HIDE DEF cs
    <2>5. /\ x \in DebateRecord /\ x.at = d.at /\ x.turns = d.turns /\ x.results = d.results
          /\ x.clerks = cs /\ x.sources = d.sources /\ x.packets = d.packets
      BY <1>1, <2>3 DEF DebateRecord
    <2> HIDE DEF x, d
    <2>6. ASSUME Preparing(d.turns, d.clerks) PROVE Preparing(d.turns, cs)
      <3>1. \A i \in DOMAIN d.turns : d.turns[i].speaker # side  BY <1>3, <2>6 DEF Preparing
      <3> QED  BY <1>10, <2>1, <2>3, <2>6, <3>1 DEF Preparing
    <2>7. Argued(x)  BY <1>5, <1>8, <2>5, <2>6 DEF Argued
    <2>8. Good(x)  BY <2>4, <2>5, <2>7 DEF Good
    <2>9. debates' = [debates EXCEPT ![n] = x]  BY <1>11, <2>2
    <2> QED  BY <1>5, <1>6, <2>5, <2>8, <2>9, DebateMoves DEF d
  <1>12. CASE debates' = [debates EXCEPT ![n].turns = Append(@, Turn(0, side, "opening")), ![n].clerks[side].at = "open"]
    <2> DEFINE t == Turn(0, side, "opening")
               c == [d.clerks[side] EXCEPT !.at = "open"]
               cs == [d.clerks EXCEPT ![side] = c]
               ts == Append(d.turns, t)
               x == [d EXCEPT !.turns = ts, !.clerks = cs]
    <2>1. t \in TurnRecord /\ Opening(t) /\ t.speaker = side  BY DEF Turn, TurnRecord, Opening
    <2> HIDE DEF t
    <2>2. debates' = [debates EXCEPT ![n] = x]
      BY <1>1, <1>2, <1>3, <1>12 DEF DebateRecord, ClerkRecord, t
    <2>3. c \in ClerkRecord /\ c.found = d.clerks[side].found /\ c.at = "open"  BY <1>3 DEF ClerkRecord
    <2> HIDE DEF c
    <2>4. cs \in [Requesters -> ClerkRecord] /\ cs[side] = c /\ \A s \in Sides \ {side} : cs[s] = d.clerks[s]
      BY <1>2, <1>3, <1>9, <2>3
    <2>5. Evidence(d.sources, d.packets, cs)  BY <1>2, <1>3, <1>7, <2>3, EvidenceMoved DEF Open
    <2> HIDE DEF cs
    <2>6. /\ ts \in Seq(TurnRecord) /\ Len(ts) = Len(d.turns) + 1 /\ Len(d.turns) \in Nat
          /\ \A i \in DOMAIN ts : (i \in DOMAIN d.turns /\ ts[i] = d.turns[i]) \/ (i = Len(d.turns) + 1 /\ ts[i] = t)
          /\ \A i \in DOMAIN d.turns : i \in DOMAIN ts /\ ts[i] = d.turns[i] /\ i # Len(d.turns) + 1
          /\ Len(d.turns) + 1 \in DOMAIN ts /\ ts[Len(d.turns) + 1] = t
      <3> DEFINE us == d.turns
      <3>1. us \in Seq(TurnRecord) /\ ts = Append(us, t)  BY <1>3
      <3> HIDE DEF us, ts
      <3>2. /\ ts \in Seq(TurnRecord) /\ Len(ts) = Len(us) + 1 /\ Len(us) \in Nat
            /\ DOMAIN us = 1..Len(us) /\ DOMAIN ts = 1..(Len(us) + 1)
            /\ \A i \in 1..Len(us) : ts[i] = us[i]
            /\ ts[Len(us) + 1] = t
        BY <2>1, <3>1
      <3> QED  BY <3>2 DEF us
    <2> HIDE DEF ts
    <2>7. /\ x \in DebateRecord /\ x.at = d.at /\ x.turns = ts /\ x.results = d.results
          /\ x.clerks = cs /\ x.sources = d.sources /\ x.packets = d.packets
      BY <1>1, <2>4, <2>6 DEF DebateRecord
    <2> HIDE DEF x, d
    <2>8. ASSUME Preparing(d.turns, d.clerks) PROVE Preparing(ts, cs)
      <3>1. \A i \in DOMAIN d.turns : d.turns[i].speaker # side  BY <1>3, <2>8 DEF Preparing
      <3>2. Len(ts) <= 2
        <4>1. d.turns \in Seq(TurnRecord) /\ Len(d.turns) <= 2 /\ Len(d.turns) \in Nat  BY <1>3, <2>6, <2>8 DEF Preparing
        <4> SUFFICES ASSUME ~(Len(ts) <= 2) PROVE FALSE
          OBVIOUS
        <4>2. Len(d.turns) = 2
          <5>1. Len(ts) = Len(d.turns) + 1  BY <2>6
          <5>2. \A m \in Nat : m <= 2 /\ ~(m + 1 <= 2) => m = 2  OBVIOUS
          <5> QED  BY <4>1, <5>1, <5>2
        <4>3. 1 \in DOMAIN d.turns /\ 2 \in DOMAIN d.turns  BY <4>1, <4>2
        <4>4. d.turns[1].speaker # d.turns[2].speaker  BY <2>8, <4>3 DEF Preparing
        <4>5. d.turns[1].speaker \in Sides \ {side} /\ d.turns[2].speaker \in Sides \ {side}  BY <1>10, <3>1, <4>3
        <4> QED  BY <4>4, <4>5 DEF Sides
      <3>3. ASSUME NEW i \in DOMAIN ts PROVE Opening(ts[i]) /\ cs[ts[i].speaker].at = "open"
        BY <1>10, <2>1, <2>3, <2>4, <2>6, <2>8, <3>1 DEF Preparing
      <3>4. ASSUME NEW i \in DOMAIN ts, NEW j \in DOMAIN ts, i # j PROVE ts[i].speaker # ts[j].speaker
        BY <2>1, <2>6, <2>8, <3>1, <3>4 DEF Preparing
      <3>5. ASSUME NEW s \in Sides, cs[s].at = "open" PROVE \E i \in DOMAIN ts : ts[i].speaker = s
        BY <2>1, <2>4, <2>6, <2>8, <3>5 DEF Preparing
      <3> QED  BY <3>2, <3>3, <3>4, <3>5 DEF Preparing
    <2>9. Argued(x)  BY <1>5, <1>8, <2>7, <2>8 DEF Argued
    <2>10. Good(x)  BY <2>5, <2>7, <2>9 DEF Good
    <2> QED  BY <1>5, <1>6, <2>2, <2>7, <2>10, DebateMoves DEF d
  <1> QED  BY <1>11, <1>12 DEF SidePrepares

LEMMA RunStartsStep == ASSUME DebateInv, NEW n \in DOMAIN debates, Starts(n) PROVE DebateInv'
  <1> DEFINE d == debates[n]
             x == [d EXCEPT !.status = "running", !.at = "announces"]
  <1>1. d \in DebateRecord /\ Good(d)  BY DebateTyped
  <1>2. /\ debates' = [debates EXCEPT ![n] = x] /\ d.at = "starts" /\ inChat' = n
        /\ UNCHANGED <<defining, debateArchive>>
    BY <1>1 DEF Starts, Runs, DebateRecord
  <1>3. /\ x \in DebateRecord /\ x.at = "announces" /\ x.turns = d.turns /\ x.results = d.results
        /\ x.clerks = d.clerks /\ x.sources = d.sources /\ x.packets = d.packets
    BY <1>1 DEF DebateRecord, DebatePlaces
  <1> HIDE DEF x
  <1>4. Argued(x) /\ ~Settled(d)  BY <1>1, <1>2, <1>3 DEF Good, Argued, Settled
  <1> QED  BY <1>2, <1>3, <1>4, TaskMoves

LEMMA AnnouncesStep == ASSUME DebateInv, NEW n \in DOMAIN debates, Announces(n) PROVE DebateInv'
  <1> DEFINE d == debates[n]
             c == Clerk("search", "light")
             cs == [d.clerks EXCEPT !["pro"] = c]
             es == [cs EXCEPT !["anti"] = c]
             x == [d EXCEPT !.clerks = es, !.at = "sides"]
  <1>1. d \in DebateRecord /\ Good(d)  BY DebateTyped
  <1>2. "pro" \in Requesters /\ "anti" \in Requesters  BY DEF Requesters, Sides
  <1>3. d.clerks \in [Requesters -> ClerkRecord] /\ d.sources \in Seq(Pages) /\ d.packets \in Seq(PacketRecord)
    BY <1>1, DebateFields
  <1>4. c \in ClerkRecord /\ c.found = <<>> /\ c.at = "search"  BY DEF Clerk, ClerkRecord
  <1>5. /\ debates' = [debates EXCEPT ![n] = [RequestClerk(RequestClerk(d, "pro", "light"), "anti", "light") EXCEPT !.at = "sides"]]
        /\ d.at = "announces" /\ UNCHANGED <<inChat, defining, debateArchive>>
    BY DEF Announces, Runs
  <1>6. [RequestClerk(RequestClerk(d, "pro", "light"), "anti", "light") EXCEPT !.at = "sides"] = x
    BY <1>1, <1>2, <1>3 DEF RequestClerk, DebateRecord
  <1> HIDE DEF c
  <1>7. cs \in [Requesters -> ClerkRecord] /\ es \in [Requesters -> ClerkRecord] /\ \A side \in Sides : es[side].at = "search"
    <2>1. cs \in [Requesters -> ClerkRecord] /\ es \in [Requesters -> ClerkRecord] /\ es["pro"] = c /\ es["anti"] = c
      BY <1>2, <1>3, <1>4
    <2> HIDE DEF es
    <2> QED  BY <1>4, <2>1 DEF Sides
  <1>8. Evidence(d.sources, d.packets, es)
    <2>1. Evidence(d.sources, d.packets, d.clerks)  BY <1>1 DEF Good
    <2>2. Evidence(d.sources, d.packets, cs)  BY <1>2, <1>3, <1>4, <2>1, EvidenceRequested
    <2> HIDE DEF cs
    <2> QED  BY <1>2, <1>3, <1>4, <1>7, <2>2, EvidenceRequested
  <1> HIDE DEF es
  <1>9. /\ x \in DebateRecord /\ x.at = "sides" /\ x.turns = d.turns /\ x.results = d.results
        /\ x.clerks = es /\ x.sources = d.sources /\ x.packets = d.packets
    BY <1>1, <1>7 DEF DebateRecord, DebatePlaces
  <1> HIDE DEF x, d
  <1>10. d.turns = <<>> /\ d.results = <<>> /\ ~Settled(d)  BY <1>1, <1>5 DEF Good, Argued, Settled
  <1>11. Preparing(<<>>, es)
    <2>1. Len(<<>>) = 0 /\ DOMAIN <<>> = {}  OBVIOUS
    <2> QED  BY <1>7, <2>1 DEF Preparing
  <1>12. Argued(x)  BY <1>9, <1>10, <1>11 DEF Argued
  <1>13. Good(x)  BY <1>8, <1>9, <1>12 DEF Good
  <1>14. debates' = [debates EXCEPT ![n] = x]  BY <1>5, <1>6
  <1>15. inChat' \in 0..Len(debates) /\ defining' \in 0..Len(debates)  BY <1>5 DEF DebateInv
  <1> QED  BY <1>5, <1>9, <1>10, <1>13, <1>14, <1>15, DebateMoves DEF d

LEMMA SidesOpenedStep == ASSUME DebateInv, NEW n \in DOMAIN debates, SidesOpened(n) PROVE DebateInv'
  <1> DEFINE d == debates[n]
             x == [d EXCEPT !.at = "opened"]
  <1>1. d \in DebateRecord /\ Good(d) /\ d.turns \in Seq(TurnRecord)  BY DebateTyped, DebateFields
  <1>2. /\ debates' = [debates EXCEPT ![n] = x] /\ d.at = "sides" /\ \A side \in Sides : d.clerks[side].at = "open"
        /\ UNCHANGED <<inChat, defining, debateArchive>>
    BY DEF SidesOpened, Runs
  <1>3. /\ x \in DebateRecord /\ x.at = "opened" /\ x.turns = d.turns /\ x.results = d.results
        /\ x.clerks = d.clerks /\ x.sources = d.sources /\ x.packets = d.packets
    BY <1>1 DEF DebateRecord, DebatePlaces
  <1> HIDE DEF x, d
  <1>4. d.results = <<>> /\ Preparing(d.turns, d.clerks) /\ ~Settled(d)  BY <1>1, <1>2 DEF Good, Argued, Settled
  <1>5. Len(d.turns) = 2 /\ Opened(d.turns) /\ Quiet(d.clerks)  BY <1>1, <1>2, <1>4, BothOpened DEF Quiet
  <1>6. Argued(x)  BY <1>3, <1>4, <1>5 DEF Argued
  <1> QED  BY <1>2, <1>3, <1>4, <1>6, TaskMoves DEF d

LEMMA RoundsBeginStep == ASSUME DebateInv, NEW n \in DOMAIN debates, RoundsBegin(n) PROVE DebateInv'
  <1> DEFINE d == debates[n]
             x == [d EXCEPT !.at = "round", !.round = 1]
  <1>1. d \in DebateRecord /\ Good(d) /\ d.turns \in Seq(TurnRecord)  BY DebateTyped, DebateFields
  <1>2. /\ debates' = [debates EXCEPT ![n] = x] /\ d.at = "opened"
        /\ UNCHANGED <<inChat, defining, debateArchive>>
    BY <1>1 DEF RoundsBegin, Runs, DebateRecord
  <1>3. /\ x \in DebateRecord /\ x.at = "round" /\ x.round = 1 /\ x.turns = d.turns /\ x.results = d.results
        /\ x.clerks = d.clerks /\ x.sources = d.sources /\ x.packets = d.packets
    BY <1>1 DEF DebateRecord, DebatePlaces
  <1> HIDE DEF x, d
  <1>4. d.results = <<>> /\ Len(d.turns) = 2 /\ Opened(d.turns) /\ Quiet(d.clerks) /\ ~Settled(d)
    BY <1>1, <1>2 DEF Good, Argued, Settled
  <1>5. 1 \in 1..Rounds /\ InRound(d.turns, d.results, 1)
    <2>1. 1 \in 1..Rounds /\ Len(d.turns) = Base(1) + 0 /\ Debated(d.turns, 1, 0)  BY <1>1, <1>4, FirstRound
    <2>2. Len(d.results) = 0 /\ 0 \in 0..4 /\ 0 \in {1 - 1, 1} /\ 0 # 1  BY <1>4
    <2> QED  BY <2>1, <2>2 DEF InRound
  <1>6. Argued(x)  BY <1>3, <1>4, <1>5 DEF Argued
  <1> QED  BY <1>2, <1>3, <1>4, <1>6, TaskMoves DEF d

\* The task closes: what has been argued so far is of no more account.
LEMMA ClosingStep ==
    ASSUME DebateInv, NEW n \in DOMAIN debates, NEW st \in {"error", "cancelled"},
           debates' = [debates EXCEPT ![n] = [debates[n] EXCEPT !.status = st, !.at = "closing"]],
           UNCHANGED <<inChat, defining, debateArchive>>
    PROVE  DebateInv'
  <1> DEFINE d == debates[n]
             x == [d EXCEPT !.status = st, !.at = "closing"]
  <1>1. d \in DebateRecord /\ Good(d)  BY DebateTyped
  <1>2. /\ x \in DebateRecord /\ x.at = "closing" /\ x.turns = d.turns /\ x.results = d.results
        /\ x.clerks = d.clerks /\ x.sources = d.sources /\ x.packets = d.packets
    BY <1>1 DEF DebateRecord, DebatePlaces
  <1>3. debates' = [debates EXCEPT ![n] = x]  OBVIOUS
  <1> HIDE DEF x
  <1>4. Argued(x) /\ (Settled(d) => Settled(x))  BY <1>2 DEF Argued, Settled
  <1> QED  BY <1>2, <1>3, <1>4, TaskMoves

LEMMA ErrorSteps ==
    ASSUME DebateInv, NEW n \in DOMAIN debates, SideFailed(n) \/ TurnFails(n) \/ SendFails(n)
    PROVE  DebateInv'
  <1>1. debates[n] \in DebateRecord  BY DebateTyped
  <1>2. /\ debates' = [debates EXCEPT ![n].status = "error", ![n].at = "closing"]
        /\ UNCHANGED <<inChat, defining, debateArchive>>
    BY DEF SideFailed, TurnFails, SendFails, Errs
  <1>3. debates' = [debates EXCEPT ![n] = [debates[n] EXCEPT !.status = "error", !.at = "closing"]]
    BY <1>1, <1>2 DEF DebateRecord
  <1> QED  BY <1>2, <1>3, ClosingStep

LEMMA DeliversStep == ASSUME DebateInv, NEW n \in DOMAIN debates, Delivers(n) \/ Closes(n) PROVE DebateInv'
  <1> DEFINE d == debates[n]
  <1>1. d \in DebateRecord /\ Good(d)  BY DebateTyped
  <1>2. PICK place \in {"closing", "done"} :
            /\ debates' = [debates EXCEPT ![n] = [d EXCEPT !.at = place]]
            /\ d.at \in {"delivers", "closing"} /\ inChat' \in {inChat, 0} /\ UNCHANGED <<defining, debateArchive>>
    BY DEF Delivers, Closes, Runs
  <1> DEFINE x == [d EXCEPT !.at = place]
  <1>3. /\ x \in DebateRecord /\ x.at = place /\ x.turns = d.turns /\ x.results = d.results
        /\ x.clerks = d.clerks /\ x.sources = d.sources /\ x.packets = d.packets
    BY <1>1 DEF DebateRecord, DebatePlaces
  <1> HIDE DEF x
  <1>4. Argued(x) /\ (Settled(d) => Settled(x))  BY <1>3 DEF Argued, Settled
  <1>5. debates' = [debates EXCEPT ![n] = x]  BY <1>2 DEF x
  <1> QED  BY <1>2, <1>3, <1>4, <1>5, TaskMoves

\* The turn that comes next in a round under way.
LEMMA NextTurnIs ==
    ASSUME NEW d \in DebateRecord, Argued(d), d.at = "round"
    PROVE  /\ d.round \in 1..Rounds /\ Quiet(d.clerks) /\ ~Settled(d)
           /\ \E j \in 0..4 :
               /\ SpokenInRound(d) = j /\ Len(d.turns) = Base(d.round) + j /\ Debated(d.turns, d.round, j)
               /\ Len(d.results) \in {d.round - 1, d.round} /\ (Len(d.results) = d.round => j = 4)
               /\ ~RoundSpoken(d) =>
                    /\ j \in 0..3 /\ NextTurn(d) = RoundTurns(d.round)[j + 1]
                    /\ NextTurn(d) \in TurnRecord /\ NextTurn(d).speaker \in Sides
  <1>1. d.round \in 1..Rounds /\ InRound(d.turns, d.results, d.round) /\ Quiet(d.clerks) /\ ~Settled(d)
    BY DEF Argued, Settled
  <1>2. PICK j \in 0..4 : /\ Len(d.turns) = Base(d.round) + j /\ Debated(d.turns, d.round, j)
                          /\ Len(d.results) \in {d.round - 1, d.round} /\ (Len(d.results) = d.round => j = 4)
    BY <1>1 DEF InRound
  <1>3. d.turns \in Seq(TurnRecord)  BY DebateFields
  <1>4. SpokenInRound(d) = j  BY <1>1, <1>2, <1>3, SpokenAre
  <1>5. ASSUME ~RoundSpoken(d)
        PROVE  /\ j \in 0..3 /\ NextTurn(d) = RoundTurns(d.round)[j + 1]
               /\ NextTurn(d) \in TurnRecord /\ NextTurn(d).speaker \in Sides
    <2>1. j \in 0..3 /\ j + 1 \in 1..4  BY <1>4, <1>5 DEF RoundSpoken
    <2>2. NextTurn(d) = RoundTurns(d.round)[j + 1]  BY <1>4 DEF NextTurn
    <2>3. NextTurn(d) \in TurnRecord  BY <1>1, <2>1, <2>2, RoundTurnsAre
    <2>4. NextTurn(d).speaker \in Sides  BY <2>3 DEF TurnRecord
    <2> QED  BY <2>1, <2>2, <2>3, <2>4
  <1> QED  BY <1>1, <1>2, <1>4, <1>5

LEMMA TurnResearchedStep == ASSUME DebateInv, NEW n \in DOMAIN debates, TurnResearched(n) PROVE DebateInv'
  <1> DEFINE d == debates[n]
             r == NextTurn(d).speaker
             c == Clerk("search", "round")
             cs == [d.clerks EXCEPT ![r] = c]
             x == [d EXCEPT !.clerks = cs]
  <1>1. d \in DebateRecord /\ Good(d)  BY DebateTyped
  <1>2. d.clerks \in [Requesters -> ClerkRecord] /\ d.sources \in Seq(Pages) /\ d.packets \in Seq(PacketRecord)
    BY <1>1, DebateFields
  <1>3. /\ debates' = [debates EXCEPT ![n] = RequestClerk(d, r, "round")] /\ d.at = "round" /\ ~RoundSpoken(d)
        /\ UNCHANGED <<inChat, defining, debateArchive>>
    BY DEF TurnResearched, Runs
  <1>4. r \in Sides /\ r \in Requesters /\ Quiet(d.clerks) /\ ~Settled(d)
    <2>1. Argued(d)  BY <1>1 DEF Good
    <2> HIDE DEF d
    <2>2. NextTurn(d).speaker \in Sides /\ Quiet(d.clerks) /\ ~Settled(d)  BY <1>1, <1>3, <2>1, NextTurnIs
    <2> QED  BY <2>2 DEF Requesters
  <1>5. c \in ClerkRecord /\ c.found = <<>> /\ c.phase = "round"  BY DEF Clerk, ClerkRecord
  <1> HIDE DEF r
  <1>6. debates' = [debates EXCEPT ![n] = x]
    <2>1. RequestClerk(d, r, "round") = x  BY <1>1, <1>2, <1>4 DEF RequestClerk, DebateRecord
    <2> QED  BY <1>3, <2>1
  <1> HIDE DEF c
  <1>7. cs \in [Requesters -> ClerkRecord] /\ cs[r] = c /\ \A q \in Requesters \ {r} : cs[q] = d.clerks[q]
    BY <1>2, <1>4, <1>5
  <1>8. Evidence(d.sources, d.packets, cs)
    <2>1. Evidence(d.sources, d.packets, d.clerks)  BY <1>1 DEF Good
    <2> QED  BY <1>2, <1>4, <1>5, <2>1, EvidenceRequested
  <1> HIDE DEF cs
  <1>9. /\ x \in DebateRecord /\ x.at = d.at /\ x.turns = d.turns /\ x.results = d.results /\ x.round = d.round
        /\ x.clerks = cs /\ x.sources = d.sources /\ x.packets = d.packets
    BY <1>1, <1>7 DEF DebateRecord
  <1> HIDE DEF x, d
  <1>10. Quiet(cs)
    <2>1. \A side \in Sides : side \in Requesters  BY DEF Requesters
    <2> QED  BY <1>4, <1>5, <1>7, <2>1 DEF Quiet
  <1>11. Argued(x)  BY <1>1, <1>3, <1>9, <1>10 DEF Good, Argued
  <1>12. Good(x)  BY <1>8, <1>9, <1>11 DEF Good
  <1>13. inChat' \in 0..Len(debates) /\ defining' \in 0..Len(debates)  BY <1>3 DEF DebateInv
  <1> QED  BY <1>3, <1>4, <1>6, <1>9, <1>12, <1>13, DebateMoves DEF d

LEMMA TurnSpokenStep == ASSUME DebateInv, NEW n \in DOMAIN debates, TurnSpoken(n) PROVE DebateInv'
  <1> DEFINE d == debates[n]
             t == NextTurn(d)
             r == t.speaker
             c == [d.clerks[r] EXCEPT !.at = "idle"]
             cs == [d.clerks EXCEPT ![r] = c]
             ts == Append(d.turns, t)
             x == [d EXCEPT !.turns = ts, !.clerks = cs]
  <1>1. d \in DebateRecord /\ Good(d)  BY DebateTyped
  <1>2. d.clerks \in [Requesters -> ClerkRecord] /\ d.sources \in Seq(Pages) /\ d.packets \in Seq(PacketRecord)
        /\ d.turns \in Seq(TurnRecord)
    BY <1>1, DebateFields
  <1>3. /\ debates' = [debates EXCEPT ![n].turns = Append(@, t), ![n].clerks[r].at = "idle"]
        /\ d.at = "round" /\ ~RoundSpoken(d) /\ UNCHANGED <<inChat, defining, debateArchive>>
    BY DEF TurnSpoken, Runs
  <1>4. Argued(d)  BY <1>1 DEF Good
  <1>5. /\ r \in Sides /\ r \in Requesters /\ Quiet(d.clerks) /\ ~Settled(d)
        /\ d.round \in 1..Rounds /\ ts \in Seq(TurnRecord) /\ InRound(ts, d.results, d.round)
    <2> HIDE DEF d
    <2>1. PICK j \in 0..4 :
               /\ Len(d.turns) = Base(d.round) + j /\ Debated(d.turns, d.round, j)
               /\ Len(d.results) \in {d.round - 1, d.round} /\ (Len(d.results) = d.round => j = 4)
               /\ j \in 0..3 /\ t = RoundTurns(d.round)[j + 1] /\ t \in TurnRecord /\ t.speaker \in Sides
      BY <1>1, <1>3, <1>4, NextTurnIs
    <2>2. d.round \in 1..Rounds /\ Quiet(d.clerks) /\ ~Settled(d)  BY <1>1, <1>3, <1>4, NextTurnIs
    <2> HIDE DEF t
    <2>3. ts \in Seq(TurnRecord) /\ Len(ts) = Base(d.round) + (j + 1) /\ Debated(ts, d.round, j + 1)
      <3>1. /\ Append(d.turns, RoundTurns(d.round)[j + 1]) \in Seq(TurnRecord)
            /\ Len(Append(d.turns, RoundTurns(d.round)[j + 1])) = Base(d.round) + (j + 1)
            /\ Debated(Append(d.turns, RoundTurns(d.round)[j + 1]), d.round, j + 1)
        BY <1>2, <2>1, <2>2, SpeaksNext
      <3> QED  BY <2>1, <3>1
    <2>4. j + 1 \in 0..4 /\ ~(Len(d.results) = d.round)  BY <2>1
    <2> HIDE DEF ts
    <2>5. InRound(ts, d.results, d.round)  BY <2>1, <2>3, <2>4 DEF InRound
    <2>6. r \in Sides /\ r \in Requesters  BY <2>1 DEF Requesters
    <2> QED  BY <2>2, <2>3, <2>5, <2>6
  <1> HIDE DEF r
  <1>6. debates' = [debates EXCEPT ![n] = x]
    <2> HIDE DEF t
    <2>1. d.clerks[r] \in ClerkRecord  BY <1>2, <1>5
    <2> QED  BY <1>1, <1>2, <1>3, <1>5, <2>1 DEF DebateRecord, ClerkRecord
  <1>7. c \in ClerkRecord /\ c.found = d.clerks[r].found /\ c.at = "idle"
    <2>1. d.clerks[r] \in ClerkRecord  BY <1>2, <1>5
    <2> QED  BY <2>1 DEF ClerkRecord
  <1> HIDE DEF c, ts
  <1>8. cs \in [Requesters -> ClerkRecord] /\ cs[r] = c /\ \A q \in Requesters \ {r} : cs[q] = d.clerks[q]
    BY <1>2, <1>5, <1>7
  <1>9. Evidence(d.sources, d.packets, cs)
    <2>1. Evidence(d.sources, d.packets, d.clerks)  BY <1>1 DEF Good
    <2> QED  BY <1>2, <1>5, <1>7, <2>1, EvidenceMoved DEF Open
  <1> HIDE DEF cs
  <1>10. /\ x \in DebateRecord /\ x.at = d.at /\ x.turns = ts /\ x.results = d.results /\ x.round = d.round
         /\ x.clerks = cs /\ x.sources = d.sources /\ x.packets = d.packets
    BY <1>1, <1>5, <1>8 DEF DebateRecord
  <1> HIDE DEF x, d
  <1>11. Quiet(cs)
    <2>1. \A side \in Sides : side \in Requesters  BY DEF Requesters
    <2> QED  BY <1>5, <1>7, <1>8, <2>1 DEF Quiet
  <1>12. Argued(x)  BY <1>3, <1>5, <1>10, <1>11 DEF Argued
  <1>13. Good(x)  BY <1>9, <1>10, <1>12 DEF Good
  <1>14. inChat' \in 0..Len(debates) /\ defining' \in 0..Len(debates)  BY <1>3 DEF DebateInv
  <1> QED  BY <1>3, <1>5, <1>6, <1>10, <1>13, <1>14, DebateMoves DEF d

LEMMA JudgedStep == ASSUME DebateInv, NEW n \in DOMAIN debates, Judged(n) PROVE DebateInv'
  <1> DEFINE d == debates[n]
  <1>1. d \in DebateRecord /\ Good(d) /\ d.results \in Seq(Winners)  BY DebateTyped, DebateFields
  <1>2. PICK winner \in Winners : debates' = [debates EXCEPT ![n].results = Append(@, winner)]  BY DEF Judged
  <1>3. /\ d.at = "round" /\ RoundSpoken(d) /\ Len(d.results) < d.round /\ UNCHANGED <<inChat, defining, debateArchive>>
    BY DEF Judged, Runs
  <1> DEFINE rs == Append(d.results, winner)
             x == [d EXCEPT !.results = rs]
  <1>4. debates' = [debates EXCEPT ![n] = x]  BY <1>2
  <1>5. rs \in Seq(Winners) /\ Len(rs) = Len(d.results) + 1 /\ Len(d.results) \in Nat  BY <1>1
  <1> HIDE DEF rs
  <1>6. /\ x \in DebateRecord /\ x.at = "round" /\ x.round = d.round /\ x.turns = d.turns /\ x.results = rs
        /\ x.clerks = d.clerks /\ x.sources = d.sources /\ x.packets = d.packets
    BY <1>1, <1>3, <1>5 DEF DebateRecord
  <1> HIDE DEF x, d
  <1>7. Argued(d)  BY <1>1 DEF Good
  <1>8. d.round \in 1..Rounds /\ Quiet(d.clerks) /\ ~Settled(d)  BY <1>1, <1>3, <1>7, NextTurnIs
  <1>9. PICK j \in 0..4 :
            /\ SpokenInRound(d) = j /\ Len(d.turns) = Base(d.round) + j /\ Debated(d.turns, d.round, j)
            /\ Len(d.results) \in {d.round - 1, d.round}
    BY <1>1, <1>3, <1>7, NextTurnIs
  <1>10. j = 4  BY <1>3, <1>9 DEF RoundSpoken
  <1>11. Len(rs) = d.round
    <2>1. Len(d.results) = d.round - 1 /\ d.round \in Nat  BY <1>1, <1>3, <1>5, <1>8, <1>9, DebateAssumption
    <2> QED  BY <1>5, <2>1
  <1>12. InRound(d.turns, rs, d.round)  BY <1>9, <1>10, <1>11 DEF InRound
  <1>13. Argued(x)  BY <1>6, <1>8, <1>12 DEF Argued
  <1> QED  BY <1>3, <1>4, <1>6, <1>8, <1>13, TaskMoves DEF d

LEMMA RoundShownStep == ASSUME DebateInv, NEW n \in DOMAIN debates, RoundShown(n) PROVE DebateInv'
  <1> DEFINE d == debates[n]
  <1>1. d \in DebateRecord /\ Good(d) /\ d.turns \in Seq(TurnRecord) /\ d.round \in Nat  BY DebateTyped, DebateFields
  <1>2. /\ d.at = "round" /\ Len(d.results) = d.round /\ UNCHANGED <<inChat, defining, debateArchive>>
    BY DEF RoundShown, Runs
  <1>3. Argued(d)  BY <1>1 DEF Good
  <1>4. /\ d.round \in 1..Rounds /\ Quiet(d.clerks) /\ ~Settled(d)
        /\ Len(d.turns) = Base(d.round) + 4 /\ Debated(d.turns, d.round, 4)
    <2> HIDE DEF d
    <2> QED  BY <1>1, <1>2, <1>3, NextTurnIs
  <1>5. CASE d.round < Rounds
    <2> DEFINE k == d.round + 1
               x == [d EXCEPT !.round = k]
    <2>1. debates' = [debates EXCEPT ![n] = x]  BY <1>5 DEF RoundShown
    <2>2. k \in 1..Rounds /\ Len(d.turns) = Base(k) + 0 /\ Debated(d.turns, k, 0)
      BY <1>1, <1>4, <1>5, RoundOver
    <2>3. k \in Nat /\ Len(d.results) = k - 1 /\ k - 1 # k  BY <1>1, <1>2
    <2> HIDE DEF k
    <2>4. /\ x \in DebateRecord /\ x.at = "round" /\ x.round = k /\ x.turns = d.turns /\ x.results = d.results
          /\ x.clerks = d.clerks /\ x.sources = d.sources /\ x.packets = d.packets
      BY <1>1, <1>2, <2>3 DEF DebateRecord
    <2> HIDE DEF x, d
    <2>5. InRound(d.turns, d.results, k)
      <3>1. 0 \in 0..4 /\ Len(d.results) # k  BY <2>3
      <3> QED  BY <2>2, <2>3, <3>1 DEF InRound
    <2>6. Argued(x)  BY <1>4, <2>2, <2>4, <2>5 DEF Argued
    <2> QED  BY <1>2, <1>4, <2>1, <2>4, <2>6, TaskMoves DEF d
  <1>6. CASE ~(d.round < Rounds)
    <2> DEFINE x == [d EXCEPT !.at = "theses"]
    <2>1. debates' = [debates EXCEPT ![n] = x]  BY <1>6 DEF RoundShown
    <2>2. d.round = Rounds  BY <1>1, <1>4, <1>6, DebateAssumption
    <2>3. /\ x \in DebateRecord /\ x.at = "theses" /\ x.turns = d.turns /\ x.results = d.results
          /\ x.clerks = d.clerks /\ x.sources = d.sources /\ x.packets = d.packets
      BY <1>1 DEF DebateRecord, DebatePlaces
    <2> HIDE DEF x, d
    <2>4. Argued(x)  BY <1>2, <1>4, <2>2, <2>3 DEF Argued, RoundDone
    <2> QED  BY <1>2, <1>4, <2>1, <2>3, <2>4, TaskMoves DEF d
  <1> QED  BY <1>5, <1>6

LEMMA ThesesRecordedStep == ASSUME DebateInv, NEW n \in DOMAIN debates, ThesesRecorded(n) PROVE DebateInv'
  <1> DEFINE d == debates[n]
             ts == d.turns \o <<Turn(Rounds + 1, "pro", "thesis"), Turn(Rounds + 1, "anti", "thesis")>>
             x == [d EXCEPT !.at = "memo", !.turns = ts]
  <1>1. d \in DebateRecord /\ Good(d) /\ d.turns \in Seq(TurnRecord)  BY DebateTyped, DebateFields
  <1>2. /\ debates' = [debates EXCEPT ![n].at = "memo", ![n].turns = ts]
        /\ d.at = "theses" /\ UNCHANGED <<inChat, defining, debateArchive>>
    BY DEF ThesesRecorded, Runs
  <1>3. RoundDone(d.turns) /\ Len(d.results) = Rounds /\ Quiet(d.clerks) /\ ~Settled(d)
    BY <1>1, <1>2 DEF Good, Argued, Settled
  <1>4. ts \in Seq(TurnRecord) /\ Whole(ts, d.results)  BY <1>1, <1>3, ThesesGiven
  <1> HIDE DEF ts
  <1>5. debates' = [debates EXCEPT ![n] = x]  BY <1>1, <1>2 DEF DebateRecord
  <1>6. /\ x \in DebateRecord /\ x.at = "memo" /\ x.turns = ts /\ x.results = d.results
        /\ x.clerks = d.clerks /\ x.sources = d.sources /\ x.packets = d.packets
    BY <1>1, <1>4 DEF DebateRecord, DebatePlaces
  <1> HIDE DEF x, d
  <1>7. Argued(x)  BY <1>3, <1>4, <1>6 DEF Argued
  <1> QED  BY <1>2, <1>3, <1>5, <1>6, <1>7, TaskMoves DEF d

\* Cancelling empties every request, and ends the debate.
LEMMA CancelLandsStep == ASSUME DebateInv, NEW n \in DOMAIN debates, CancelLands(n) PROVE DebateInv'
  <1> DEFINE d == debates[n]
             idle == [r \in Requesters |-> Clerk("idle", "none")]
             cs == IF d.at \in {"sides", "round"} THEN idle ELSE d.clerks
             x == [d EXCEPT !.cancel = FALSE, !.status = "cancelled", !.at = "closing", !.clerks = cs]
  <1>1. d \in DebateRecord /\ Good(d)  BY DebateTyped
  <1>2. UNCHANGED <<inChat, defining, debateArchive>>  BY DEF CancelLands
  <1>3. debates' = [debates EXCEPT ![n] = x]
    <2>1. debates' = [debates EXCEPT ![n].cancel = FALSE, ![n].status = "cancelled", ![n].at = "closing", ![n].clerks = cs]
      BY DEF CancelLands
    <2> HIDE DEF cs
    <2> QED  BY <1>1, <2>1 DEF DebateRecord
  <1>4. /\ Clerk("idle", "none") \in ClerkRecord /\ Clerk("idle", "none").found = <<>> /\ ~Open(Clerk("idle", "none"))
    BY DEF Clerk, ClerkRecord, Open
  <1>5. idle \in [Requesters -> ClerkRecord] /\ d.clerks \in [Requesters -> ClerkRecord]  BY <1>1, <1>4, DebateFields
  <1>6. cs \in [Requesters -> ClerkRecord]  BY <1>5
  <1>7. Evidence(d.sources, d.packets, cs)
    <2>1. Evidence(d.sources, d.packets, d.clerks)  BY <1>1 DEF Good
    <2>2. Evidence(d.sources, d.packets, idle)
      <3>1. ToSet(<<>>) = {}  BY DEF ToSet
      <3>2. \A r \in Requesters : idle[r].found = <<>> /\ ~Open(idle[r])  BY <1>4
      <3> HIDE DEF idle
      <3> QED  BY <2>1, <3>1, <3>2 DEF Evidence
    <2> HIDE DEF idle
    <2> QED  BY <2>1, <2>2
  <1>8. Settled(d) => cs = d.clerks  BY DEF Settled
  <1> HIDE DEF cs
  <1>9. /\ x \in DebateRecord /\ x.at = "closing" /\ x.turns = d.turns /\ x.results = d.results
        /\ x.clerks = cs /\ x.sources = d.sources /\ x.packets = d.packets
    BY <1>1, <1>6 DEF DebateRecord, DebatePlaces
  <1> HIDE DEF x, d
  <1>10. Argued(x) /\ (Settled(d) => Settled(x))  BY <1>8, <1>9 DEF Argued, Settled
  <1>11. Good(x)  BY <1>7, <1>9, <1>10 DEF Good
  <1>12. inChat' \in 0..Len(debates) /\ defining' \in 0..Len(debates)  BY <1>2 DEF DebateInv
  <1> QED  BY <1>2, <1>3, <1>9, <1>10, <1>11, <1>12, DebateMoves DEF d

\* The entries of the other debates are part of the archive.
LEMMA OthersStay ==
    ASSUME NEW d, debateArchive \in Seq(ArchiveRecord)
    PROVE  /\ Others(d) \in Seq(ArchiveRecord)
           /\ \A i \in DOMAIN Others(d) : \E j \in DOMAIN debateArchive : Others(d)[i] = debateArchive[j]
  <1> DEFINE N == Len(debateArchive)
             S == {debateArchive[j] : j \in DOMAIN debateArchive}
             step == [n \in 1..N |-> [s \in Seq(S) |-> IF debateArchive[n].of = d THEN s ELSE Append(s, debateArchive[n])]]
             P(g) == g = [n \in 0..N |-> IF n = 0 THEN <<>>
                                         ELSE IF debateArchive[n].of = d THEN g[n - 1] ELSE Append(g[n - 1], debateArchive[n])]
             kept == CHOOSE g : P(g)
             T == {n \in 0..N : kept[n] \in Seq(S)}
  <1>1. N \in Nat /\ \A n \in 1..N : debateArchive[n] \in S  OBVIOUS
  <1>2. <<>> \in Seq(S)  OBVIOUS
  <1>3. step \in [1..N -> [Seq(S) -> Seq(S)]]
    <2> SUFFICES ASSUME NEW n \in 1..N, NEW s \in Seq(S)
                 PROVE  (IF debateArchive[n].of = d THEN s ELSE Append(s, debateArchive[n])) \in Seq(S)
      OBVIOUS
    <2>1. debateArchive[n] \in S  BY <1>1
    <2> HIDE DEF S
    <2> QED  BY <2>1
  <1>4. PICK f \in [0..N -> Seq(S)] : Iterates(f, N, <<>>, step)
    <2> HIDE DEF N, S, step
    <2> QED  BY <1>1, <1>2, <1>3, IterationExists
  <1>5. P(f)
    <2>1. \A n \in 0..N : n # 0 => n \in 1..N /\ n - 1 \in 0..N  BY <1>1
    <2>2. \A n \in 1..N : f[n] = IF debateArchive[n].of = d THEN f[n - 1] ELSE Append(f[n - 1], debateArchive[n])
      <3> SUFFICES ASSUME NEW n \in 1..N PROVE f[n] = IF debateArchive[n].of = d THEN f[n - 1] ELSE Append(f[n - 1], debateArchive[n])
        OBVIOUS
      <3>1. n - 1 \in 0..N  BY <1>1
      <3>2. f[n] = step[n][f[n - 1]]  BY <1>4 DEF Iterates
      <3>3. f[n - 1] \in Seq(S)  BY <3>1
      <3> HIDE DEF S
      <3> QED  BY <3>2, <3>3
    <2>3. f[0] = <<>>  BY <1>4 DEF Iterates
    <2> HIDE DEF S, step
    <2>4. f = [n \in 0..N |-> f[n]]  OBVIOUS
    <2> QED  BY <2>1, <2>2, <2>3, <2>4
  <1>6. P(kept)
    <2> HIDE DEF P
    <2> QED  BY <1>5
  <1>7. Others(d) = kept[N]  BY DEF Others
  <1>8. 0..N \subseteq T
    <2>1. 0 \in T
      <3>1. 0 \in 0..N  BY <1>1
      <3>2. kept[0] = <<>>  BY <1>6, <3>1
      <3> QED  BY <1>2, <3>1, <3>2
    <2>2. ASSUME NEW n \in 1..N, n - 1 \in T PROVE n \in T
      <3>1. n \in 0..N /\ n # 0  BY <1>1
      <3>2. kept[n] = IF debateArchive[n].of = d THEN kept[n - 1] ELSE Append(kept[n - 1], debateArchive[n])  BY <1>6, <3>1
      <3>3. debateArchive[n] \in S  BY <1>1
      <3>4. kept[n - 1] \in Seq(S)  BY <2>2
      <3> HIDE DEF S, kept
      <3>5. kept[n] \in Seq(S)  BY <3>2, <3>3, <3>4
      <3> QED  BY <3>1, <3>5
    <2> HIDE DEF T, N
    <2> QED  BY <1>1, <2>1, <2>2, Upwards
  <1>9. N \in 0..N  BY <1>1
  <1>10. Others(d) \in Seq(S)  BY <1>7, <1>8, <1>9
  <1>11. S \subseteq ArchiveRecord  OBVIOUS
  <1>12. \A s \in Seq(S) : s \in Seq(ArchiveRecord) /\ \A i \in DOMAIN s : s[i] \in S
    <2> HIDE DEF S
    <2> QED  BY <1>11
  <1> QED  BY <1>10, <1>12

LEMMA OutcomeIs == ASSUME NEW d PROVE Outcome(d) \in Winners
  <1> DEFINE p == Wins(d, "pro")
             a == Wins(d, "anti")
  <1>1. Outcome(d) = CASE p > a -> "pro" [] a > p -> "anti" [] OTHER -> "tie"  BY DEF Outcome
  <1> HIDE DEF p, a
  <1> QED  BY <1>1 DEF Winners, Sides

\* The archive holds the debate that ends, with its outcome, and the other ones as they were.
LEMMA ArchivesStep == ASSUME DebateInv, NEW n \in DOMAIN debates, Archives(n) PROVE DebateInv'
  <1> DEFINE d == debates[n]
             x == [d EXCEPT !.status = "completed", !.at = "delivers"]
             e == [of |-> n, winner |-> Outcome(d)]
             others == Others(n)
  <1>1. d \in DebateRecord /\ Good(d) /\ n \in Nat  BY DebateTyped
  <1>2. /\ debates' = [debates EXCEPT ![n] = x] /\ debateArchive' = <<e>> \o others
        /\ d.at = "memo" /\ UNCHANGED <<inChat, defining>>
    BY <1>1 DEF Archives, Indexed, Runs, DebateRecord
  <1>3. /\ x \in DebateRecord /\ x.at = "delivers" /\ x.turns = d.turns /\ x.results = d.results
        /\ x.clerks = d.clerks /\ x.sources = d.sources /\ x.packets = d.packets
    BY <1>1 DEF DebateRecord, DebatePlaces
  <1>4. e \in ArchiveRecord /\ e.of = n /\ e.winner = Outcome(d)
    <2>1. Outcome(d) \in Winners  BY OutcomeIs
    <2> QED  BY <1>1, <2>1 DEF ArchiveRecord
  <1>5. /\ others \in Seq(ArchiveRecord)
        /\ \A i \in DOMAIN others : \E j \in DOMAIN debateArchive : others[i] = debateArchive[j]
    BY OthersStay DEF DebateInv
  <1> HIDE DEF x, d, e, others
  <1>6. Whole(d.turns, d.results) /\ Quiet(d.clerks) /\ ~Settled(d)  BY <1>1, <1>2 DEF Good, Argued, Settled
  <1>7. Argued(x) /\ Settled(x)  BY <1>3, <1>6 DEF Argued, Settled
  <1>8. Good(x)  BY <1>1, <1>3, <1>7 DEF Good
  <1>9. Outcome(x) = Outcome(d)  BY <1>3 DEF Outcome, Wins
  <1>10. /\ debateArchive' \in Seq(ArchiveRecord)
         /\ \A i \in DOMAIN debateArchive' : debateArchive'[i] = e \/ \E j \in DOMAIN debateArchive : debateArchive'[i] = debateArchive[j]
    <2>1. <<e>> \in Seq(ArchiveRecord) /\ Len(<<e>>) = 1 /\ <<e>>[1] = e  BY <1>4
    <2>2. /\ <<e>> \o others \in Seq(ArchiveRecord) /\ Len(<<e>> \o others) = 1 + Len(others)
          /\ \A i \in 1..(1 + Len(others)) : (<<e>> \o others)[i] = IF i <= 1 THEN <<e>>[i] ELSE others[i - 1]
      BY <1>5, <2>1, ConcatProperties
    <2>3. Len(others) \in Nat /\ DOMAIN others = 1..Len(others)  BY <1>5
    <2> DEFINE all == <<e>> \o others
    <2> HIDE DEF all
    <2>4. all \in Seq(ArchiveRecord) /\ DOMAIN all = 1..(1 + Len(others))  BY <2>2, <2>3 DEF all
    <2>5. ASSUME NEW i \in DOMAIN all PROVE all[i] = e \/ \E j \in DOMAIN debateArchive : all[i] = debateArchive[j]
      <3>1. CASE i = 1
        <4>1. all[1] = <<e>>[1]  BY <2>2, <2>3 DEF all
        <4> QED  BY <2>1, <3>1, <4>1
      <3>2. CASE i # 1
        <4>1. i - 1 \in DOMAIN others /\ ~(i <= 1) /\ i \in 1..(1 + Len(others))  BY <2>3, <2>4, <3>2
        <4>2. all[i] = others[i - 1]  BY <2>2, <4>1 DEF all
        <4> QED  BY <1>5, <4>1, <4>2
      <3> QED  BY <3>1, <3>2
    <2> QED  BY <1>2, <2>4, <2>5 DEF all
  <1>11. debates \in Seq(DebateRecord)  BY DEF DebateInv
  <1>12. /\ debates' \in Seq(DebateRecord) /\ DOMAIN debates' = DOMAIN debates /\ Len(debates') = Len(debates)
         /\ debates'[n] = x /\ \A m \in DOMAIN debates \ {n} : debates'[m] = debates[m]
    BY <1>2, <1>3, <1>11
  <1>13. \A m \in DOMAIN debates' : Good(debates'[m])  BY <1>8, <1>12 DEF DebateInv
  <1>14. ASSUME NEW i \in DOMAIN debateArchive'
         PROVE  /\ debateArchive'[i].of \in DOMAIN debates' /\ Settled(debates'[debateArchive'[i].of])
                /\ debateArchive'[i].winner = Outcome(debates'[debateArchive'[i].of])
    <2>1. CASE debateArchive'[i] = e  BY <1>4, <1>7, <1>9, <1>12, <2>1
    <2>2. ASSUME NEW j \in DOMAIN debateArchive, debateArchive'[i] = debateArchive[j]
          PROVE  /\ debateArchive'[i].of \in DOMAIN debates' /\ Settled(debates'[debateArchive'[i].of])
                 /\ debateArchive'[i].winner = Outcome(debates'[debateArchive'[i].of])
      <3> DEFINE m == debateArchive[j].of
      <3>1. m \in DOMAIN debates /\ Settled(debates[m]) /\ debateArchive[j].winner = Outcome(debates[m])  BY DEF DebateInv
      <3> HIDE DEF m
      <3>2. m # n  BY <1>6, <3>1 DEF d
      <3>3. m \in DOMAIN debates' /\ Settled(debates'[m]) /\ debateArchive[j].winner = Outcome(debates'[m])
        BY <1>12, <3>1, <3>2
      <3> QED  BY <2>2, <3>3 DEF m
    <2> QED  BY <1>10, <2>1, <2>2
  <1>15. inChat' \in 0..Len(debates') /\ defining' \in 0..Len(debates')  BY <1>2, <1>12 DEF DebateInv
  <1> QED  BY <1>10, <1>12, <1>13, <1>14, <1>15 DEF DebateInv

LEMMA DebateNextKeeps == ASSUME DebateInv, [DebateNext]_debateVars PROVE DebateInv'
  <1>1. CASE UNCHANGED debateVars  BY <1>1, DebateStays DEF debateVars
  <1>2. CASE DebateCommand  BY <1>2, DebateCommandStep
  <1>3. CASE PositionsDefined  BY <1>3, PositionsDefinedStep
  <1>4. CASE RevisePositions  BY <1>4, DebateStays DEF RevisePositions
  <1>5. CASE BeginDebate  BY <1>5, BeginDebateStep
  <1>6. CASE CancelDebate  BY <1>6, CancelDebateStep
  <1>7. CASE ClearDebates  BY <1>7, ClearDebatesStep
  <1>8. ASSUME NEW n \in DOMAIN debates, DebateStep(n) PROVE DebateInv'
    <2>1. CASE Starts(n)  BY <2>1, RunStartsStep
    <2>2. CASE Announces(n)  BY <2>2, AnnouncesStep
    <2>3. CASE SidesOpened(n)  BY <2>3, SidesOpenedStep
    <2>4. CASE RoundsBegin(n)  BY <2>4, RoundsBeginStep
    <2>5. CASE SideFailed(n) \/ TurnFails(n) \/ SendFails(n)  BY <2>5, ErrorSteps
    <2>6. CASE TurnResearched(n)  BY <2>6, TurnResearchedStep
    <2>7. CASE TurnSpoken(n)  BY <2>7, TurnSpokenStep
    <2>8. CASE Judged(n)  BY <2>8, JudgedStep
    <2>9. CASE RoundShown(n)  BY <2>9, RoundShownStep
    <2>10. CASE ThesesRecorded(n)  BY <2>10, ThesesRecordedStep
    <2>11. CASE Archives(n)  BY <2>11, ArchivesStep
    <2>12. CASE Delivers(n) \/ Closes(n)  BY <2>12, DeliversStep
    <2>13. CASE CancelLands(n)  BY <2>13, CancelLandsStep
    <2> QED  BY <1>8, <2>1, <2>2, <2>3, <2>4, <2>5, <2>6, <2>7, <2>8, <2>9, <2>10, <2>11, <2>12, <2>13 DEF DebateStep
  <1>9. ASSUME NEW n \in DOMAIN debates, NEW r \in Requesters, ClerkStep(n, r) PROVE DebateInv'
    BY <1>9, ClerkSearchesStep, ClerkCommitsStep, ClerkFilesStep, SidePreparesStep DEF ClerkStep
  <1> QED  BY <1>1, <1>2, <1>3, <1>4, <1>5, <1>6, <1>7, <1>8, <1>9 DEF DebateNext

\* The turns of one kind in one round: both sides spoke, or none.
SpokenAs(turns, kind, r) == {t \in ToSet(turns) : t.kind = kind /\ t.round = r}

LEMMA BothSpoke ==
    ASSUME NEW turns \in Seq(TurnRecord), NEW results, Whole(turns, results),
           NEW r \in 0..(Rounds + 1), NEW kind \in {"opening", "answer", "response", "thesis"}
    PROVE  Cardinality(SpokenAs(turns, kind, r)) \in {0, 2}
  <1> DEFINE S == {t \in ToSet(turns) : t.kind = kind /\ t.round = r}
             p == Turn(r, "pro", kind)
             a == Turn(r, "anti", kind)
             planned == \/ r = 0 /\ kind = "opening"
                        \/ r \in 1..Rounds /\ kind \in {"answer", "response"}
                        \/ r = Rounds + 1 /\ kind = "thesis"
  <1>1. /\ Rounds \in Nat /\ Rounds >= 1 /\ Base(Rounds) \in Nat /\ Len(turns) = Base(Rounds) + 6
        /\ Debated(turns, Rounds, 4) /\ DOMAIN turns = 1..(Base(Rounds) + 6)
        /\ turns[Base(Rounds) + 5] = Turn(Rounds + 1, "pro", "thesis")
        /\ turns[Base(Rounds) + 6] = Turn(Rounds + 1, "anti", "thesis")
    BY DebateAssumption DEF Whole, Base
  <1>2. \A i \in DOMAIN turns : turns[i] \in TurnRecord /\ InPlan(turns[i])  BY <1>1 DEF Debated
  <1>3. \A t \in S : \E i \in DOMAIN turns : t = turns[i]  BY DEF ToSet
  <1>4. \A t \in S : t \in TurnRecord /\ InPlan(t) /\ t.kind = kind /\ t.round = r
    <2> HIDE DEF S
    <2>1. \A t \in S : t.kind = kind /\ t.round = r  BY DEF S
    <2> QED  BY <1>2, <1>3, <2>1
  <1>5. \A i \in DOMAIN turns : turns[i].kind = kind /\ turns[i].round = r => turns[i] \in S  BY DEF ToSet
  <1> HIDE DEF S, p, a
  <1>6. S \subseteq {p, a}
    <2> SUFFICES ASSUME NEW t \in S PROVE t = p \/ t = a
      OBVIOUS
    <2>1. t \in TurnRecord /\ t.kind = kind /\ t.round = r  BY <1>4
    <2>2. t = [round |-> t.round, speaker |-> t.speaker, kind |-> t.kind] /\ t.speaker \in Sides  BY <2>1 DEF TurnRecord
    <2>3. t = Turn(r, t.speaker, kind)  BY <2>1, <2>2 DEF Turn
    <2>4. t.speaker = "pro" \/ t.speaker = "anti"  BY <2>2 DEF Sides
    <2> QED  BY <2>3, <2>4 DEF p, a
  <1>7. p # a  BY DEF p, a, Turn
  <1>8. CASE ~planned
    <2>1. S = {}
      <3> SUFFICES ASSUME NEW t \in S PROVE FALSE
        OBVIOUS
      <3> QED  BY <1>4, <1>8 DEF InPlan, Opening
    <2> QED  BY <2>1, FS_EmptySet DEF S, SpokenAs
  <1>9. CASE planned
    <2>1. \A i, j \in DOMAIN turns : turns[i] \in S /\ turns[j] \in S /\ turns[i].speaker # turns[j].speaker => S = {p, a}
      <3> SUFFICES ASSUME NEW i \in DOMAIN turns, NEW j \in DOMAIN turns, turns[i] \in S, turns[j] \in S,
                          turns[i].speaker # turns[j].speaker
                   PROVE  S = {p, a}
        OBVIOUS
      <3>1. turns[i] # turns[j]  OBVIOUS
      <3> QED  BY <1>6, <3>1
    <2>2. \E i, j \in DOMAIN turns : turns[i] \in S /\ turns[j] \in S /\ turns[i].speaker # turns[j].speaker
      <3>1. CASE r = 0 /\ kind = "opening"
        <4>1. 1 \in DOMAIN turns /\ 2 \in DOMAIN turns  BY <1>1
        <4>2. Opening(turns[1]) /\ Opening(turns[2]) /\ turns[1].speaker # turns[2].speaker  BY <1>1 DEF Debated, Opened
        <4>3. turns[1] \in S /\ turns[2] \in S  BY <1>5, <3>1, <4>1, <4>2 DEF Opening
        <4> QED  BY <4>1, <4>2, <4>3
      <3>2. CASE r \in 1..Rounds /\ kind \in {"answer", "response"}
        <4>1. r \in Nat /\ Base(r) \in Nat /\ Base(r) + 4 <= Base(Rounds) + 4  BY <1>1, <3>2 DEF Base
        <4>2. \A m \in 1..4 : Base(r) + m \in DOMAIN turns /\ turns[Base(r) + m] = RoundTurns(r)[m]
          <5>1. r \in 1..(Rounds - 1) \/ r = Rounds  BY <1>1, <3>2
          <5>2. \A m \in 1..4 : turns[Base(r) + m] = RoundTurns(r)[m]  BY <1>1, <5>1 DEF Debated
          <5>3. ASSUME NEW m \in 1..4 PROVE Base(r) + m \in DOMAIN turns
            <6>1. Base(r) \in Nat /\ Base(Rounds) \in Nat /\ Base(r) + 4 <= Base(Rounds) + 4 /\ m \in Nat  BY <1>1, <4>1
            <6>2. Base(r) + m \in 1..(Base(Rounds) + 6)  BY <6>1
            <6>3. DOMAIN turns = 1..(Base(Rounds) + 6)  BY <1>1
            <6> QED  BY <6>2, <6>3
          <5> QED  BY <5>2, <5>3
        <4>3. First(r) # Second(r)  BY <4>1, SidesAre
        <4>4. 1 \in 1..4 /\ 2 \in 1..4 /\ 3 \in 1..4 /\ 4 \in 1..4 /\ 1 \in 1..2 /\ 2 \in 1..2 /\ 3 \in 3..4 /\ 4 \in 3..4
          OBVIOUS
        <4>5. CASE kind = "answer"
          <5>1. Base(r) + 1 \in DOMAIN turns /\ Base(r) + 2 \in DOMAIN turns  BY <4>2, <4>4
          <5>2. turns[Base(r) + 1] \in S /\ turns[Base(r) + 2] \in S  BY <1>5, <3>2, <4>2, <4>4, <4>5, RoundTurnsAre
          <5>3. turns[Base(r) + 1].speaker # turns[Base(r) + 2].speaker  BY <3>2, <4>2, <4>3, <4>4, RoundTurnsAre
          <5> QED  BY <5>1, <5>2, <5>3
        <4>6. CASE kind = "response"
          <5>1. Base(r) + 3 \in DOMAIN turns /\ Base(r) + 4 \in DOMAIN turns  BY <4>2, <4>4
          <5>2. turns[Base(r) + 3] \in S /\ turns[Base(r) + 4] \in S  BY <1>5, <3>2, <4>2, <4>4, <4>6, RoundTurnsAre
          <5>3. turns[Base(r) + 3].speaker # turns[Base(r) + 4].speaker  BY <3>2, <4>2, <4>3, <4>4, RoundTurnsAre
          <5> QED  BY <5>1, <5>2, <5>3
        <4> QED  BY <3>2, <4>5, <4>6
      <3>3. CASE r = Rounds + 1 /\ kind = "thesis"
        <4>1. Base(Rounds) + 5 \in DOMAIN turns /\ Base(Rounds) + 6 \in DOMAIN turns  BY <1>1
        <4>2. turns[Base(Rounds) + 5] = p /\ turns[Base(Rounds) + 6] = a  BY <1>1, <3>3 DEF p, a
        <4>3. p.kind = kind /\ p.round = r /\ a.kind = kind /\ a.round = r /\ p.speaker # a.speaker  BY DEF p, a, Turn
        <4> QED  BY <1>5, <4>1, <4>2, <4>3
      <3> QED  BY <1>9, <3>1, <3>2, <3>3
    <2>3. S = {p, a}  BY <2>1, <2>2
    <2>4. Cardinality({p, a}) = 2
      <3>1. IsFiniteSet({p}) /\ Cardinality({p}) = 1  BY FS_Singleton
      <3>2. Cardinality({p} \cup {a}) = Cardinality({p}) + 1  BY <1>7, <3>1, FS_AddElement
      <3>3. {p} \cup {a} = {p, a}  OBVIOUS
      <3>4. Cardinality({p, a}) = 1 + 1
        <4> HIDE DEF p, a
        <4> QED  BY <3>1, <3>2, <3>3
      <3> QED  BY <3>4
    <2> QED  BY <2>3, <2>4 DEF S, SpokenAs
  <1> QED  BY <1>8, <1>9

LEMMA WinsAre == ASSUME NEW d, d.results \in Seq(Winners), NEW side PROVE Wins(d, side) \in Nat
  <1> DEFINE S == {i \in DOMAIN d.results : d.results[i] = side}
  <1>1. DOMAIN d.results = 1..Len(d.results) /\ Len(d.results) \in Nat  OBVIOUS
  <1>2. IsFiniteSet(1..Len(d.results))  BY <1>1, FS_Interval
  <1>3. IsFiniteSet(S)
    <2>1. S \subseteq 1..Len(d.results)  BY <1>1
    <2> HIDE DEF S
    <2> QED  BY <1>2, <2>1, FS_Subset
  <1>4. Cardinality(S) \in Nat
    <2> HIDE DEF S
    <2> QED  BY <1>3, FS_CardinalityType
  <1> QED  BY <1>4 DEF Wins

\* The winner has more rounds than the other side.
LEMMA WinnerLeads ==
    ASSUME NEW d, d.results \in Seq(Winners), NEW side \in Sides, side # Outcome(d), Outcome(d) # "tie"
    PROVE  Wins(d, side) < Wins(d, Outcome(d))
  <1> DEFINE p == Wins(d, "pro")
             a == Wins(d, "anti")
  <1>1. p \in Nat /\ a \in Nat  BY WinsAre
  <1>2. Outcome(d) = CASE p > a -> "pro" [] a > p -> "anti" [] OTHER -> "tie"  BY DEF Outcome
  <1>3. side = "pro" \/ side = "anti"  BY DEF Sides
  <1> HIDE DEF p, a
  <1>4. (Outcome(d) = "pro" /\ a < p) \/ (Outcome(d) = "anti" /\ p < a) \/ Outcome(d) = "tie"
    <2>1. CASE p > a  BY <1>1, <1>2, <2>1
    <2>2. CASE a > p  BY <1>1, <1>2, <2>2
    <2>3. CASE ~(p > a) /\ ~(a > p)  BY <1>2, <2>3
    <2> QED  BY <2>1, <2>2, <2>3
  <1> QED  BY <1>3, <1>4 DEF p, a

LEMMA DebateInvImplies == DebateInv => DebateSound
  <1> SUFFICES ASSUME DebateInv PROVE DebateSound
    OBVIOUS
  <1>1. EvidenceSound
    <2> SUFFICES ASSUME NEW n \in DOMAIN debates
                 PROVE  /\ IsInjective(debates[n].sources)
                        /\ \A i, j \in DOMAIN debates[n].packets :
                            /\ ToSet(debates[n].packets[i].ids) \subseteq DOMAIN debates[n].sources
                            /\ i # j => ToSet(debates[n].packets[i].ids) \cap ToSet(debates[n].packets[j].ids) = {}
      BY DEF EvidenceSound
    <2>1. Evidence(debates[n].sources, debates[n].packets, debates[n].clerks)  BY DebateTyped DEF Good
    <2> QED  BY <2>1 DEF Evidence
  <1>2. ArchivedWhole
    <2> SUFFICES ASSUME NEW i \in DOMAIN debateArchive
                 PROVE  LET d == debates[debateArchive[i].of]
                            begins(r) == d.turns[2 + 4 * (r - 1) + 1].speaker
                            speakers(kind, r) == {t \in ToSet(d.turns) : t.kind = kind /\ t.round = r}
                        IN  /\ Len(d.turns) = 4 + 4 * Rounds /\ Len(d.results) = Rounds
                            /\ \A r \in 0..(Rounds + 1), kind \in {"opening", "answer", "response", "thesis"} :
                                Cardinality(speakers(kind, r)) \in {0, 2}
                            /\ \A r \in 1..(Rounds - 1) : begins(r) # begins(r + 1)
                            /\ \A side \in Sides \ {debateArchive[i].winner} :
                                debateArchive[i].winner # "tie" => Wins(d, side) < Wins(d, debateArchive[i].winner)
      BY DEF ArchivedWhole
    <2> DEFINE d == debates[debateArchive[i].of]
    <2>1. debateArchive[i].of \in DOMAIN debates /\ Settled(d) /\ debateArchive[i].winner = Outcome(d)  BY DEF DebateInv
    <2>2. d.turns \in Seq(TurnRecord) /\ d.results \in Seq(Winners)  BY <2>1, DebateTyped, DebateFields
    <2>3. Whole(d.turns, d.results)  BY <2>1 DEF Settled
    <2> HIDE DEF d
    <2>4. Len(d.turns) = 4 + 4 * Rounds /\ Len(d.results) = Rounds
      BY <2>3, DebateAssumption DEF Whole, Base
    <2>5. ASSUME NEW r \in 0..(Rounds + 1), NEW kind \in {"opening", "answer", "response", "thesis"}
          PROVE  Cardinality({t \in ToSet(d.turns) : t.kind = kind /\ t.round = r}) \in {0, 2}
      <3> DEFINE turns == d.turns
                 results == d.results
      <3>1. turns \in Seq(TurnRecord) /\ Whole(turns, results)  BY <2>2, <2>3
      <3> HIDE DEF turns, results
      <3>2. Cardinality(SpokenAs(turns, kind, r)) \in {0, 2}  BY <3>1, BothSpoke
      <3> QED  BY <3>2 DEF turns, SpokenAs
    <2>6. ASSUME NEW r \in 1..Rounds PROVE d.turns[2 + 4 * (r - 1) + 1].speaker = First(r)
      <3>1. r \in 1..(Rounds - 1) \/ r = Rounds  BY DebateAssumption
      <3>2. d.turns[Base(r) + 1] = RoundTurns(r)[1]  BY <2>3, <3>1 DEF Whole, Debated
      <3> QED  BY <3>2, RoundTurnsAre DEF Base
    <2>7. ASSUME NEW r \in 1..(Rounds - 1)
          PROVE  d.turns[2 + 4 * (r - 1) + 1].speaker # d.turns[2 + 4 * ((r + 1) - 1) + 1].speaker
      <3>1. r \in 1..Rounds /\ r + 1 \in 1..Rounds /\ r \in Nat  BY DebateAssumption
      <3>2. (r % 2 = 1) # ((r + 1) % 2 = 1)  BY <3>1
      <3>3. First(r) # First(r + 1)  BY <3>2 DEF First
      <3> QED  BY <2>6, <3>1, <3>3
    <2>8. ASSUME NEW side \in Sides \ {debateArchive[i].winner}, debateArchive[i].winner # "tie"
          PROVE  Wins(d, side) < Wins(d, debateArchive[i].winner)
      BY <2>1, <2>2, <2>8, WinnerLeads DEF d
    <2> QED  BY <2>4, <2>5, <2>7, <2>8 DEF d
  <1> QED  BY <1>1, <1>2 DEF DebateSound

\* What a debate has gathered, and what is archived of it, are whole, however its sides, its
\* clerks and the user interleave and whichever message fails: no page is counted twice, no
\* source is in two packets, and an archived debate was argued in full and won by who led it.
THEOREM DebatesWhole == DebateSpec => []DebateSound
  <1>1. DebateInit => DebateInv  BY DebateStarts
  <1>2. DebateInv /\ [DebateNext]_debateVars => DebateInv'  BY DebateNextKeeps
  <1>3. DebateInv => DebateSound  BY DebateInvImplies
  <1> QED  BY <1>1, <1>2, <1>3, PTL DEF DebateSpec

-----------------------------------------------------------------------------
(***************************************************************************)
(* Expert research.  No question is in progress between two rounds, so      *)
(* that having no question to choose means having no core question open.   *)
(***************************************************************************)
USE AgendaAssumption

Statuses == {"pending", "needs_more", "in_progress", "settled"}
QuestionRecord == [ask: Asks, priority: AgendaPriorities, id: Nat, status: Statuses, attempts: 0..MaxSubtasks, level: Levels]
BudgetRecord == [round: Nat, rounds: Nat, target: Nat, sources: Nat, added: Nat, continues: Nat]

AgendaShape ==
    /\ agenda \in Seq(QuestionRecord) /\ budget \in BudgetRecord
    /\ direction \in Asks \cup {""} /\ assigned \in Nat
    /\ loopAt \in {"plan", "loop", "select", "subtask", "evaluate", "report", "done"}

WithinLimits ==
    /\ Len(agenda) <= MaxAgenda /\ budget.added <= MaxNew
    /\ budget.round <= budget.rounds /\ budget.sources <= MaxSources
    /\ loopAt = "select" => InBudget

\* Only the question of the round is in progress.
OneInProgress ==
    /\ loopAt \in {"subtask", "evaluate"} => assigned \in DOMAIN agenda
    /\ \A i \in DOMAIN agenda : agenda[i].status = "in_progress" => loopAt \in {"subtask", "evaluate"} /\ i = assigned

AgendaInv == AgendaShape /\ WithinLimits /\ OneInProgress /\ CoreBeforeReport

DraftRecord == [ask: Asks, priority: AgendaPriorities]
\* New questions, no more than there may be.
Fresh(limit) == {s \in Seq(QuestionRecord) : Len(s) <= limit /\ \A i \in DOMAIN s : s[i].status = "pending"}

LEMMA FreshNone == ASSUME NEW limit \in Nat PROVE <<>> \in Fresh(limit)
  BY DEF Fresh

LEMMA FreshMore ==
    ASSUME NEW m \in Nat, NEW n \in Nat, NEW s \in Fresh(m), NEW q \in QuestionRecord, q.status = "pending",
           Len(s) < n
    PROVE  Append(s, q) \in Fresh(n)
  <1>1. s \in Seq(QuestionRecord) /\ Len(s) \in Nat /\ \A i \in DOMAIN s : s[i].status = "pending"  BY DEF Fresh
  <1> DEFINE a == Append(s, q)
  <1>2. a \in Seq(QuestionRecord) /\ Len(a) = Len(s) + 1 /\ \A i \in DOMAIN a : a[i].status = "pending"
    BY <1>1
  <1> HIDE DEF a
  <1>3. a \in Fresh(n)  BY <1>1, <1>2 DEF Fresh
  <1> QED  BY <1>3 DEF a

LEMMA FreshDrafted ==
    ASSUME NEW limit \in Nat, NEW s \in Fresh(limit), NEW d \in DraftRecord, NEW existing \in Nat
    PROVE  Drafted(s, d, existing, limit) \in Fresh(limit)
  <1> DEFINE q == [ask |-> d.ask, priority |-> d.priority, id |-> existing + Len(s) + 1,
                   status |-> "pending", attempts |-> 0, level |-> 0]
  <1>1. s \in Seq(QuestionRecord) /\ Len(s) \in Nat /\ \A i \in DOMAIN s : s[i].status = "pending"  BY DEF Fresh
  <1>2. q \in QuestionRecord /\ q.status = "pending"  BY <1>1 DEF DraftRecord, QuestionRecord, Statuses, Levels
  <1>3. CASE Len(s) >= limit \/ \E i \in DOMAIN s : s[i].ask = d.ask
    BY <1>3 DEF Drafted
  <1>4. CASE ~(Len(s) >= limit \/ \E i \in DOMAIN s : s[i].ask = d.ask)
    <2>1. Drafted(s, d, existing, limit) = Append(s, q)  BY <1>4 DEF Drafted
    <2>2. Len(s) < limit  BY <1>1, <1>4
    <2> HIDE DEF q
    <2> QED  BY <1>2, <2>1, <2>2, FreshMore
  <1> QED  BY <1>3, <1>4

LEMMA NormalizedFresh ==
    ASSUME NEW drafts \in Seq(DraftRecord), NEW existing \in Nat, NEW limit \in Nat
    PROVE  Normalized(drafts, existing, limit) \in Fresh(limit)
  <1> DEFINE N == Len(drafts)
             S == Fresh(limit)
             step == [n \in 1..N |-> [s \in S |-> Drafted(s, drafts[n], existing, limit)]]
             P(g) == g = [n \in 0..N |-> IF n = 0 THEN <<>> ELSE Drafted(g[n - 1], drafts[n], existing, limit)]
             kept == CHOOSE g : P(g)
  <1>1. N \in Nat /\ (\A n \in 1..N : drafts[n] \in DraftRecord) /\ N \in 0..N  OBVIOUS
  <1>2. <<>> \in S  BY FreshNone
  <1>3. \A n \in 1..N, s \in S : Drafted(s, drafts[n], existing, limit) \in S  BY <1>1, FreshDrafted
  <1> HIDE DEF S, N
  <1>4. step \in [1..N -> [S -> S]]  BY <1>3
  <1>5. PICK f \in [0..N -> S] : Iterates(f, N, <<>>, step)
    <2> HIDE DEF step
    <2> QED  BY <1>1, <1>2, <1>4, IterationExists
  <1>6. P(f)
    <2>1. \A n \in 0..N : n # 0 => n \in 1..N /\ n - 1 \in 0..N  BY <1>1
    <2>2. \A n \in 1..N : f[n] = Drafted(f[n - 1], drafts[n], existing, limit)
      <3> SUFFICES ASSUME NEW n \in 1..N PROVE f[n] = Drafted(f[n - 1], drafts[n], existing, limit)
        OBVIOUS
      <3>1. n - 1 \in 0..N  BY <1>1
      <3>2. f[n] = step[n][f[n - 1]]  BY <1>5 DEF Iterates
      <3>3. f[n - 1] \in S  BY <3>1
      <3> QED  BY <3>2, <3>3
    <2>3. f[0] = <<>>  BY <1>5 DEF Iterates
    <2> HIDE DEF step
    <2>4. f = [n \in 0..N |-> f[n]]  OBVIOUS
    <2> QED  BY <2>1, <2>2, <2>3, <2>4
  <1>7. P(kept)
    <2> HIDE DEF P
    <2> QED  BY <1>6
  <1>8. Normalized(drafts, existing, limit) = kept[N]  BY DEF Normalized, N
  <1> DEFINE T == {n \in 0..N : kept[n] \in S}
  <1>9. 0..N \subseteq T
    <2>1. 0 \in T
      <3>1. 0 \in 0..N  BY <1>1
      <3>2. kept[0] = <<>>  BY <1>7, <3>1
      <3> QED  BY <1>2, <3>1, <3>2
    <2>2. ASSUME NEW n \in 1..N, n - 1 \in T PROVE n \in T
      <3>1. n \in 0..N /\ n # 0  BY <1>1
      <3>2. kept[n] = Drafted(kept[n - 1], drafts[n], existing, limit)  BY <1>7, <3>1
      <3> HIDE DEF kept
      <3>3. kept[n] \in S  BY <1>3, <2>2, <3>2
      <3> QED  BY <3>1, <3>3
    <2> HIDE DEF T
    <2> QED  BY <1>1, <2>1, <2>2, Upwards
  <1>10. Normalized(drafts, existing, limit) \in S  BY <1>1, <1>8, <1>9
  <1> QED  BY <1>10 DEF S

LEMMA Ranked == AgendaPriorities = {"core", "supporting", "optional"} /\ \A p \in AgendaPriorities : Rank[p] \in Nat
  <1>1. AgendaPriorities = {"core", "supporting", "optional"}  BY DEF AgendaPriorities, Rank
  <1>2. Rank["core"] \in Nat /\ Rank["supporting"] \in Nat /\ Rank["optional"] \in Nat  BY DEF Rank
  <1> QED  BY <1>1, <1>2

LEMMA DraftsTyped == Drafts \subseteq Seq(DraftRecord)
  <1> SUFFICES ASSUME NEW n \in 0..MaxDrafts, NEW s \in [1..n -> {[ask |-> a, priority |-> PriorityOf[a]] : a \in Asks}]
               PROVE  s \in Seq(DraftRecord)
    BY DEF Drafts
  <1>1. {[ask |-> a, priority |-> PriorityOf[a]] : a \in Asks} \subseteq DraftRecord
    <2> SUFFICES ASSUME NEW a \in Asks PROVE [ask |-> a, priority |-> PriorityOf[a]] \in DraftRecord
      OBVIOUS
    <2>1. PriorityOf[a] \in AgendaPriorities  BY Ranked
    <2> QED  BY <2>1 DEF DraftRecord
  <1>2. n \in Nat  OBVIOUS
  <1> QED  BY <1>1, <1>2

\* An agenda that has room for new questions takes them in.
LEMMA FreshAdded ==
    ASSUME NEW s \in Seq(QuestionRecord), NEW room \in Nat, NEW new \in Fresh(room)
    PROVE  /\ s \o new \in Seq(QuestionRecord) /\ Len(s \o new) <= Len(s) + room
           /\ Len(s \o new) = Len(s) + Len(new)
           /\ \A i \in DOMAIN s : i \in DOMAIN (s \o new) /\ (s \o new)[i] = s[i]
           /\ \A i \in DOMAIN (s \o new) : i \in DOMAIN s \/ (s \o new)[i].status = "pending"
  <1>1. new \in Seq(QuestionRecord) /\ Len(new) \in Nat /\ Len(new) <= room /\ \A i \in DOMAIN new : new[i].status = "pending"
    BY DEF Fresh
  <1>2. s \o new \in Seq(QuestionRecord) /\ Len(s \o new) = Len(s) + Len(new) /\ Len(s) \in Nat  BY <1>1
  <1>3. \A i \in DOMAIN s : i \in DOMAIN (s \o new) /\ (s \o new)[i] = s[i]  BY <1>1, <1>2
  <1>4. ASSUME NEW i \in DOMAIN (s \o new), i \notin DOMAIN s PROVE (s \o new)[i].status = "pending"
    <2>1. i \in Nat /\ i > Len(s) /\ i <= Len(s) + Len(new)  BY <1>1, <1>2, <1>4
    <2>2. i - Len(s) \in DOMAIN new /\ (s \o new)[i] = new[i - Len(s)]  BY <1>1, <1>2, <2>1
    <2> QED  BY <1>1, <2>2
  <1> QED  BY <1>1, <1>2, <1>3, <1>4

LEMMA Room ==
    ASSUME AgendaShape, Len(agenda) <= MaxAgenda, budget.added <= MaxNew
    PROVE  /\ Len(agenda) \in Nat /\ Additions \in Nat
           /\ Len(agenda) + Additions <= MaxAgenda /\ budget.added + Additions <= MaxNew
  <1>1. Len(agenda) \in Nat /\ budget.added \in Nat
    <2>1. agenda \in Seq(QuestionRecord) /\ budget \in BudgetRecord  BY DEF AgendaShape
    <2>2. budget.added \in Nat  BY <2>1 DEF BudgetRecord
    <2> QED  BY <2>1, <2>2
  <1>2. MaxNew \in Nat /\ MaxAgenda \in Nat  OBVIOUS
  <1> DEFINE a == MaxNew - budget.added
             b == MaxAgenda - Len(agenda)
  <1>3. a \in Nat /\ b \in Nat /\ budget.added + a = MaxNew /\ Len(agenda) + b = MaxAgenda  BY <1>1, <1>2
  <1>4. Additions = Most(0, Least(a, b))  BY DEF Additions
  <1> HIDE DEF a, b
  <1>5. Additions \in Nat /\ Additions <= a /\ Additions <= b  BY <1>3, <1>4 DEF Most, Least
  <1> QED  BY <1>1, <1>2, <1>3, <1>5

\* What is new of the questions a model proposes is no more than may be added.
LEMMA NewFresh ==
    ASSUME NEW drafts \in Seq(DraftRecord), AgendaShape, Len(agenda) <= MaxAgenda, budget.added <= MaxNew
    PROVE  /\ Additions \in Nat /\ Len(agenda) + Additions <= MaxAgenda /\ budget.added + Additions <= MaxNew
           /\ NewQuestions(drafts) \in Fresh(Additions)
  <1> DEFINE named == Normalized(drafts, Len(agenda), Additions)
             N == Len(named)
             S == Seq(QuestionRecord)
             In(q) == \E i \in DOMAIN agenda : agenda[i].ask = q.ask
             step == [n \in 1..N |-> [s \in S |-> IF In(named[n]) THEN s ELSE Append(s, named[n])]]
             P(g) == g = [n \in 0..N |-> IF n = 0 THEN <<>>
                                         ELSE IF In(named[n]) THEN g[n - 1] ELSE Append(g[n - 1], named[n])]
             new == CHOOSE g : P(g)
  <1>1. /\ Len(agenda) \in Nat /\ Additions \in Nat
        /\ Len(agenda) + Additions <= MaxAgenda /\ budget.added + Additions <= MaxNew
    BY Room
  <1>2. named \in Fresh(Additions)  BY <1>1, NormalizedFresh
  <1>3. /\ N \in Nat /\ N <= Additions /\ N \in 0..N
        /\ \A n \in 1..N : named[n] \in QuestionRecord /\ named[n].status = "pending"
    BY <1>2 DEF Fresh
  <1>4. NewQuestions(drafts) = new[N]  BY DEF NewQuestions
  <1> HIDE DEF named, N, In
  <1>5. step \in [1..N -> [S -> S]]
    <2> SUFFICES ASSUME NEW n \in 1..N, NEW s \in S PROVE (IF In(named[n]) THEN s ELSE Append(s, named[n])) \in S
      OBVIOUS
    <2> QED  BY <1>3
  <1>6. <<>> \in S  OBVIOUS
  <1>7. PICK f \in [0..N -> S] : Iterates(f, N, <<>>, step)
    <2> HIDE DEF S, step
    <2> QED  BY <1>3, <1>5, <1>6, IterationExists
  <1>8. P(f)
    <2>1. \A n \in 0..N : n # 0 => n \in 1..N /\ n - 1 \in 0..N  BY <1>3
    <2>2. \A n \in 1..N : f[n] = IF In(named[n]) THEN f[n - 1] ELSE Append(f[n - 1], named[n])
      <3> SUFFICES ASSUME NEW n \in 1..N PROVE f[n] = IF In(named[n]) THEN f[n - 1] ELSE Append(f[n - 1], named[n])
        OBVIOUS
      <3>1. n - 1 \in 0..N  BY <1>3
      <3>2. f[n] = step[n][f[n - 1]]  BY <1>7 DEF Iterates
      <3>3. f[n - 1] \in S  BY <3>1
      <3> HIDE DEF S
      <3> QED  BY <3>2, <3>3
    <2>3. f[0] = <<>>  BY <1>7 DEF Iterates
    <2> HIDE DEF S, step
    <2>4. f = [n \in 0..N |-> f[n]]  OBVIOUS
    <2> QED  BY <2>1, <2>2, <2>3, <2>4
  <1>9. P(new)
    <2> HIDE DEF P
    <2> QED  BY <1>8
  <1> DEFINE T == {n \in 0..N : new[n] \in Fresh(n)}
  <1>10. 0..N \subseteq T
    <2>1. 0 \in T
      <3>1. 0 \in 0..N  BY <1>3
      <3>2. new[0] = <<>>  BY <1>9, <3>1
      <3> QED  BY <3>1, <3>2, FreshNone
    <2>2. ASSUME NEW n \in 1..N, n - 1 \in T PROVE n \in T
      <3>1. n \in 0..N /\ n # 0 /\ n \in Nat /\ n - 1 \in Nat  BY <1>3
      <3>2. new[n] = IF In(named[n]) THEN new[n - 1] ELSE Append(new[n - 1], named[n])  BY <1>9, <3>1
      <3>3. new[n - 1] \in Fresh(n - 1)  BY <2>2
      <3> HIDE DEF new
      <3>4. Len(new[n - 1]) \in Nat /\ Len(new[n - 1]) <= n - 1 /\ Len(new[n - 1]) < n  BY <3>1, <3>3 DEF Fresh
      <3>5. new[n - 1] \in Fresh(n)  BY <3>1, <3>3, <3>4 DEF Fresh
      <3>6. Append(new[n - 1], named[n]) \in Fresh(n)  BY <1>3, <3>1, <3>3, <3>4, FreshMore
      <3>7. new[n] \in Fresh(n)  BY <3>2, <3>5, <3>6
      <3> QED  BY <3>1, <3>7
    <2> HIDE DEF T
    <2> QED  BY <1>3, <2>1, <2>2, Upwards
  <1>11. new[N] \in Fresh(N)  BY <1>3, <1>10
  <1> HIDE DEF new
  <1>12. new[N] \in Fresh(Additions)  BY <1>1, <1>3, <1>11 DEF Fresh
  <1> QED  BY <1>1, <1>4, <1>12

\* Of the questions that may be chosen one comes first.
LEMMA FirstComes == AgendaShape /\ Candidates # {} => NextQuestion \in Candidates
  <1> SUFFICES ASSUME AgendaShape, Candidates # {} PROVE NextQuestion \in Candidates
    OBVIOUS
  <1> DEFINE k == [n \in 1..5 |-> [i \in Candidates |-> Key(i)[n]]]
  <1>1. \A i \in Candidates : /\ agenda[i] \in QuestionRecord /\ i \in Nat
                              /\ Rank[agenda[i].priority] \in Nat
    <2> SUFFICES ASSUME NEW i \in Candidates
                 PROVE  agenda[i] \in QuestionRecord /\ i \in Nat /\ Rank[agenda[i].priority] \in Nat
      OBVIOUS
    <2>1. agenda[i] \in QuestionRecord /\ i \in Nat
      <3>1. i \in DOMAIN agenda /\ agenda \in Seq(QuestionRecord)  BY DEF Candidates, AgendaShape
      <3> QED  BY <3>1
    <2>2. agenda[i].priority \in AgendaPriorities  BY <2>1 DEF QuestionRecord
    <2> QED  BY <2>1, <2>2, Ranked
  <1>2. k \in [1..5 -> [Candidates -> Nat]]
    <2> SUFFICES ASSUME NEW n \in 1..5, NEW i \in Candidates PROVE Key(i)[n] \in Nat
      OBVIOUS
    <2>1. n = 1 \/ n = 2 \/ n = 3 \/ n = 4 \/ n = 5  OBVIOUS
    <2>2. agenda[i].level \in Nat /\ agenda[i].attempts \in Nat /\ agenda[i].id \in Nat
      BY <1>1 DEF QuestionRecord, Levels
    <2> QED  BY <1>1, <2>1, <2>2 DEF Key
  <1>3. \A i \in Candidates, n \in 1..5 : Key(i)[n] = k[n][i]  OBVIOUS
  <1>4. \A i, j \in Candidates : k[5][i] = k[5][j] => i = j  BY DEF Key
  <1> HIDE DEF k
  <1>5. PICK x \in Candidates : \A j \in Candidates : NotAfter(k, 5, x, j)  BY <1>2, LeastKey
  <1>6. ASSUME NEW j \in Candidates \ {x} PROVE Before5(Key(x), Key(j))
    <2>1. k[5][x] # k[5][j] /\ 5 \in 1..5  BY <1>4
    <2>2. PICK m \in 1..5 : k[m][x] < k[m][j] /\ \A q \in 1..(m - 1) : k[q][x] = k[q][j]
      BY <1>5, <2>1 DEF NotAfter
    <2>3. \A q \in 1..(m - 1) : q \in 1..5  OBVIOUS
    <2> QED  BY <1>3, <2>2, <2>3 DEF Before5
  <1> QED  BY <1>6 DEF NextQuestion
-----------------------------------------------------------------------------
(* Steps *)

LEMMA AgendaInitial == AgendaInit => AgendaInv
  <1> SUFFICES ASSUME AgendaInit PROVE AgendaInv
    OBVIOUS
  <1>1. agenda = <<>> /\ agenda \in Seq(QuestionRecord) /\ Len(agenda) = 0 /\ DOMAIN agenda = {}
    <2>1. agenda = <<>>  BY DEF AgendaInit
    <2> QED  BY <2>1
  <1>2. DefaultRounds \in Nat /\ MinTarget \in Nat /\ MaxNew \in Nat /\ MaxAgenda \in Nat /\ MaxSources \in Nat  OBVIOUS
  <1>3. AgendaShape  BY <1>1, <1>2 DEF AgendaInit, AgendaShape, BudgetRecord
  <1>4. WithinLimits
    <2>1. budget.round = 0 /\ budget.rounds = DefaultRounds /\ budget.sources = 0 /\ budget.added = 0  BY DEF AgendaInit
    <2>2. loopAt # "select"  BY DEF AgendaInit
    <2> QED  BY <1>1, <1>2, <2>1, <2>2 DEF WithinLimits
  <1>5. OneInProgress  BY <1>1 DEF AgendaInit, OneInProgress
  <1>6. CoreBeforeReport  BY DEF AgendaInit, CoreBeforeReport
  <1> QED  BY <1>3, <1>4, <1>5, <1>6 DEF AgendaInv

LEMMA PlanStep == ASSUME AgendaInv, MakesPlan PROVE AgendaInv'
  <1>1. PICK drafts \in Drafts \ {<<>>}, target \in MinTarget..MaxSources :
          /\ agenda' = Normalized(drafts, 0, MaxAgenda)
          /\ budget' = [budget EXCEPT !.target = target, !.rounds = Most(@, RoundBudget(target))]
    BY DEF MakesPlan
  <1>2. loopAt = "plan" /\ loopAt' = "loop" /\ direction' = direction /\ assigned' = assigned  BY DEF MakesPlan
  <1>3. AgendaShape /\ WithinLimits /\ OneInProgress  BY DEF AgendaInv
  <1>4. agenda' \in Fresh(MaxAgenda)  BY <1>1, DraftsTyped, NormalizedFresh
  <1>5. agenda' \in Seq(QuestionRecord) /\ Len(agenda') <= MaxAgenda /\ \A i \in DOMAIN agenda' : agenda'[i].status = "pending"
    BY <1>4 DEF Fresh
  <1>6. budget \in BudgetRecord  BY <1>3 DEF AgendaShape
  <1>7. RoundBudget(target) \in Nat
    <2>1. target \in Nat /\ FetchesPerRound \in Nat \ {0} /\ DefaultRounds \in Nat  OBVIOUS
    <2>2. target + FetchesPerRound - 1 \in Nat  BY <2>1
    <2>3. (target + FetchesPerRound - 1) \div FetchesPerRound \in Nat  BY <2>1, <2>2
    <2> QED  BY <2>1, <2>3 DEF RoundBudget, Most
  <1>8. /\ budget' \in BudgetRecord /\ budget'.added = budget.added /\ budget'.round = budget.round
        /\ budget'.sources = budget.sources /\ budget'.rounds >= budget.rounds
    <2>1. target \in Nat  OBVIOUS
    <2>2. Most(budget.rounds, RoundBudget(target)) \in Nat /\ Most(budget.rounds, RoundBudget(target)) >= budget.rounds
      BY <1>6, <1>7 DEF Most, BudgetRecord
    <2> QED  BY <1>1, <1>6, <2>1, <2>2 DEF BudgetRecord
  <1>9. AgendaShape'  BY <1>2, <1>3, <1>5, <1>8 DEF AgendaShape
  <1>10. WithinLimits'
    <2>1. budget.round \in Nat /\ budget.rounds \in Nat /\ budget'.rounds \in Nat  BY <1>6, <1>8 DEF BudgetRecord
    <2> QED  BY <1>2, <1>3, <1>5, <1>8, <2>1 DEF WithinLimits
  <1>11. OneInProgress'  BY <1>2, <1>5 DEF OneInProgress
  <1>12. CoreBeforeReport'  BY <1>2 DEF CoreBeforeReport
  <1> QED  BY <1>9, <1>10, <1>11, <1>12 DEF AgendaInv

LEMMA DirectionStep == ASSUME AgendaInv, TakesDirection PROVE AgendaInv'
  <1>1. /\ loopAt = "loop" /\ InBudget /\ agenda' = Directed /\ direction' = "" /\ loopAt' = "select"
        /\ budget' = budget /\ assigned' = assigned
    BY DEF TakesDirection
  <1>2. AgendaShape /\ WithinLimits /\ OneInProgress  BY DEF AgendaInv
  <1>3. agenda \in Seq(QuestionRecord) /\ Len(agenda) \in Nat /\ Len(agenda) <= MaxAgenda /\ MaxAgenda \in Nat
    <2>1. agenda \in Seq(QuestionRecord) /\ Len(agenda) <= MaxAgenda  BY <1>2 DEF AgendaShape, WithinLimits
    <2> QED  BY <2>1
  <1>4. \A i \in DOMAIN agenda : agenda[i].status # "in_progress"  BY <1>1, <1>2 DEF OneInProgress
  <1>5. /\ agenda' \in Seq(QuestionRecord) /\ Len(agenda') <= MaxAgenda
        /\ \A i \in DOMAIN agenda' : agenda'[i].status # "in_progress"
    <2>1. CASE direction = ""  BY <1>1, <1>3, <1>4, <2>1 DEF Directed
    <2>2. CASE direction # ""
      <3> DEFINE ds == <<[ask |-> direction, priority |-> "core"]>>
                 room == Least(1, MaxAgenda - Len(agenda))
                 new == Normalized(ds, Len(agenda), room)
      <3>1. ds \in Seq(DraftRecord)
        <4>1. [ask |-> direction, priority |-> "core"] \in DraftRecord  BY <1>2, <2>2, Ranked DEF AgendaShape, DraftRecord
        <4> QED  BY <4>1
      <3>2. room \in Nat /\ Len(agenda) + room <= MaxAgenda  BY <1>3 DEF Least
      <3>3. agenda' = agenda \o new  BY <1>1, <2>2 DEF Directed
      <3>4. new \in Fresh(room)
        <4> HIDE DEF ds, room
        <4> QED  BY <1>3, <3>1, <3>2, NormalizedFresh
      <3> HIDE DEF new, room
      <3> QED  BY <1>3, <1>4, <3>2, <3>3, <3>4, FreshAdded
    <2> QED  BY <2>1, <2>2
  <1>6. AgendaShape'  BY <1>1, <1>2, <1>5 DEF AgendaShape
  <1>7. WithinLimits'  BY <1>1, <1>2, <1>5 DEF WithinLimits, InBudget
  <1>8. OneInProgress'  BY <1>1, <1>5 DEF OneInProgress
  <1>9. CoreBeforeReport'  BY <1>1 DEF CoreBeforeReport
  <1> QED  BY <1>6, <1>7, <1>8, <1>9 DEF AgendaInv

LEMMA SubtaskStep == ASSUME AgendaInv, StartsSubtask PROVE AgendaInv'
  <1> DEFINE a == NextQuestion
             q == [agenda[a] EXCEPT !.status = "in_progress", !.attempts = @ + 1]
  <1>1. AgendaShape /\ WithinLimits /\ OneInProgress  BY DEF AgendaInv
  <1>2. a \in Candidates  BY <1>1, FirstComes DEF StartsSubtask
  <1>3. a \in DOMAIN agenda /\ agenda[a].attempts < MaxSubtasks  BY <1>2 DEF Candidates, Unfinished
  <1> HIDE DEF a
  <1>4. agenda \in Seq(QuestionRecord) /\ a \in Nat /\ agenda[a] \in QuestionRecord /\ budget \in BudgetRecord
    <2>1. agenda \in Seq(QuestionRecord) /\ budget \in BudgetRecord  BY <1>1 DEF AgendaShape
    <2> QED  BY <1>3, <2>1
  <1>5. /\ loopAt = "select" /\ loopAt' = "subtask" /\ assigned' = a /\ direction' = direction
        /\ budget' = [budget EXCEPT !.round = @ + 1] /\ agenda' = [agenda EXCEPT ![a] = q]
    BY <1>3, <1>4 DEF StartsSubtask, a
  <1>6. q \in QuestionRecord
    <2>1. MaxSubtasks \in Nat /\ agenda[a].attempts + 1 \in 0..MaxSubtasks  BY <1>3, <1>4 DEF QuestionRecord
    <2> QED  BY <1>4, <2>1 DEF QuestionRecord, Statuses
  <1> HIDE DEF q
  <1>7. agenda' \in Seq(QuestionRecord) /\ Len(agenda') = Len(agenda) /\ DOMAIN agenda' = DOMAIN agenda
        /\ \A i \in DOMAIN agenda : i # a => agenda'[i] = agenda[i]
    BY <1>3, <1>4, <1>5, <1>6
  <1>8. /\ budget' \in BudgetRecord /\ budget'.round = budget.round + 1 /\ budget'.rounds = budget.rounds
        /\ budget'.sources = budget.sources /\ budget'.added = budget.added
    <2>1. budget.round + 1 \in Nat  BY <1>4 DEF BudgetRecord
    <2> QED  BY <1>4, <1>5, <2>1 DEF BudgetRecord
  <1>9. AgendaShape'  BY <1>1, <1>4, <1>5, <1>7, <1>8 DEF AgendaShape
  <1>10. WithinLimits'
    <2>1. budget.round \in Nat /\ budget.rounds \in Nat /\ budget.round < budget.rounds
      BY <1>1, <1>4, <1>5 DEF WithinLimits, InBudget, BudgetRecord
    <2>2. budget'.round <= budget'.rounds  BY <1>8, <2>1
    <2>3. Len(agenda') <= MaxAgenda /\ budget'.added <= MaxNew /\ budget'.sources <= MaxSources
      BY <1>1, <1>7, <1>8 DEF WithinLimits
    <2> QED  BY <1>5, <2>2, <2>3 DEF WithinLimits
  <1>11. OneInProgress'  BY <1>1, <1>3, <1>5, <1>7 DEF OneInProgress
  <1>12. CoreBeforeReport'  BY <1>5 DEF CoreBeforeReport
  <1> QED  BY <1>9, <1>10, <1>11, <1>12 DEF AgendaInv

LEMMA StopStep == ASSUME AgendaInv, StopsResearch PROVE AgendaInv'
  <1>1. /\ ReportDue /\ loopAt' = "report" /\ agenda' = agenda /\ budget' = budget /\ direction' = direction
        /\ assigned' = assigned
    BY DEF StopsResearch
  <1>2. AgendaShape /\ WithinLimits /\ OneInProgress  BY DEF AgendaInv
  <1>3. loopAt \in {"loop", "select"}  BY <1>1 DEF ReportDue
  <1>4. AgendaShape'  BY <1>1, <1>2 DEF AgendaShape
  <1>5. WithinLimits'  BY <1>1, <1>2 DEF WithinLimits
  <1>6. OneInProgress'  BY <1>1, <1>2, <1>3 DEF OneInProgress
  <1>7. ~OpenCore \/ ~InBudget
    <2>1. CASE Candidates = {} /\ loopAt = "select"
      <3> SUFFICES ASSUME OpenCore PROVE FALSE
        OBVIOUS
      <3>1. PICK i \in DOMAIN agenda : agenda[i].status \in {"pending", "needs_more", "in_progress"} /\ Unfinished(agenda[i])
        BY DEF OpenCore
      <3>2. agenda[i].status # "in_progress"  BY <1>2, <2>1 DEF OneInProgress
      <3>3. i \in Candidates  BY <3>1, <3>2 DEF Candidates
      <3> QED  BY <2>1, <3>3
    <2> QED  BY <1>1, <2>1 DEF ReportDue
  <1>8. (~OpenCore \/ ~InBudget)'  BY <1>1, <1>7 DEF OpenCore, InBudget
  <1> QED  BY <1>4, <1>5, <1>6, <1>8 DEF AgendaInv, CoreBeforeReport

LEMMA FetchStep == ASSUME AgendaInv, Fetches PROVE AgendaInv'
  <1>1. /\ loopAt = "subtask" /\ loopAt' = "evaluate" /\ agenda' = agenda /\ direction' = direction
        /\ assigned' = assigned
    BY DEF Fetches
  <1>2. PICK n \in 0..FetchLimit : budget' = [budget EXCEPT !.sources = @ + n]  BY DEF Fetches
  <1>3. AgendaShape /\ WithinLimits /\ OneInProgress  BY DEF AgendaInv
  <1>4. budget \in BudgetRecord /\ budget.sources \in Nat /\ budget.sources <= MaxSources
    BY <1>3 DEF AgendaShape, WithinLimits, BudgetRecord
  <1>5. FetchLimit <= MaxSources - budget.sources /\ FetchLimit \in Nat
    <2>1. MaxSources \in Nat /\ FetchesPerRound \in Nat /\ ReducedFetches \in Nat  OBVIOUS
    <2> QED  BY <1>4, <2>1 DEF FetchLimit, Least
  <1>6. n \in Nat /\ budget.sources + n <= MaxSources
    <2>1. MaxSources \in Nat /\ n \in Nat /\ n <= FetchLimit  BY <1>5
    <2> QED  BY <1>4, <1>5, <2>1
  <1>7. /\ budget' \in BudgetRecord /\ budget'.round = budget.round /\ budget'.rounds = budget.rounds
        /\ budget'.sources = budget.sources + n /\ budget'.added = budget.added
    BY <1>2, <1>4, <1>6 DEF BudgetRecord
  <1>8. AgendaShape'  BY <1>1, <1>3, <1>7 DEF AgendaShape
  <1>9. WithinLimits'  BY <1>1, <1>3, <1>6, <1>7 DEF WithinLimits
  <1>10. OneInProgress'  BY <1>1, <1>3 DEF OneInProgress
  <1>11. CoreBeforeReport'  BY <1>1 DEF CoreBeforeReport
  <1> QED  BY <1>8, <1>9, <1>10, <1>11 DEF AgendaInv
LEMMA SeqParts ==
    ASSUME NEW S, NEW s \in Seq(S)
    PROVE  DOMAIN s = 1..Len(s) /\ Len(s) \in Nat /\ \A i \in DOMAIN s : s[i] \in S
  OBVIOUS

LEMMA SeqMade ==
    ASSUME NEW S, NEW n \in Nat, NEW f \in [1..n -> S]
    PROVE  f \in Seq(S) /\ Len(f) = n
  OBVIOUS

LEMMA CoveredKeeps ==
    ASSUME NEW qs \in Seq(QuestionRecord), NEW id, NEW level \in Levels
    PROVE  /\ Covered(qs, id, level) \in Seq(QuestionRecord) /\ Len(Covered(qs, id, level)) = Len(qs)
           /\ \A i \in DOMAIN qs : Covered(qs, id, level)[i].status = qs[i].status
  <1>1. DOMAIN qs = 1..Len(qs) /\ Len(qs) \in Nat /\ \A i \in DOMAIN qs : qs[i] \in QuestionRecord  BY SeqParts
  <1> DEFINE named == {i \in DOMAIN qs : qs[i].id = id}
             q(i) == IF i \in named /\ \A j \in named : j <= i THEN [qs[i] EXCEPT !.level = level] ELSE qs[i]
             c == [i \in DOMAIN qs |-> q(i)]
  <1>2. Covered(qs, id, level) = c  BY DEF Covered
  <1>3. \A i \in DOMAIN qs : [qs[i] EXCEPT !.level = level] \in QuestionRecord /\ [qs[i] EXCEPT !.level = level].status = qs[i].status
    BY <1>1 DEF QuestionRecord
  <1>4. \A i \in DOMAIN qs : q(i) \in QuestionRecord /\ q(i).status = qs[i].status
    <2> HIDE DEF named
    <2> QED  BY <1>1, <1>3
  <1> HIDE DEF q
  <1>5. c \in [1..Len(qs) -> QuestionRecord] /\ \A i \in DOMAIN qs : c[i].status = qs[i].status  BY <1>1, <1>4
  <1> HIDE DEF c
  <1>6. c \in Seq(QuestionRecord) /\ Len(c) = Len(qs)  BY <1>1, <1>5, SeqMade
  <1> QED  BY <1>2, <1>5, <1>6

LEMMA EvaluationStep == ASSUME AgendaInv, Evaluates PROVE AgendaInv'
  <1>1. AgendaShape /\ WithinLimits /\ OneInProgress  BY DEF AgendaInv
  <1>2. loopAt = "evaluate" /\ assigned' = 0 /\ direction' = direction  BY DEF Evaluates
  <1>3. PICK v \in Verdicts, drafts \in Drafts, id \in 0..MaxAgenda, level \in Levels, stop \in BOOLEAN :
          /\ agenda' = Covered([agenda EXCEPT ![assigned].status = Verdict(v, agenda[assigned])] \o NewQuestions(drafts), id, level)
          /\ budget' = [budget EXCEPT !.added = @ + Len(NewQuestions(drafts))]
          /\ loopAt' = IF stop /\ ~OpenCore' /\ MayStop THEN "report" ELSE "loop"
    <2>1. PICK v \in Verdicts, new \in {NewQuestions(drafts) : drafts \in Drafts}, id \in 0..MaxAgenda, level \in Levels,
               stop \in BOOLEAN :
            /\ agenda' = Covered([agenda EXCEPT ![assigned].status = Verdict(v, agenda[assigned])] \o new, id, level)
            /\ budget' = [budget EXCEPT !.added = @ + Len(new)]
            /\ loopAt' = IF stop /\ ~OpenCore' /\ MayStop THEN "report" ELSE "loop"
      BY Zenon DEF Evaluates
    <2>2. PICK drafts \in Drafts : new = NewQuestions(drafts)  BY Zenon
    <2> QED  BY <2>1, <2>2, Zenon
  <1> DEFINE q == [agenda[assigned] EXCEPT !.status = Verdict(v, agenda[assigned])]
             judged == [agenda EXCEPT ![assigned] = q]
             new == NewQuestions(drafts)
             grown == judged \o new
  <1>4. agenda \in Seq(QuestionRecord) /\ assigned \in DOMAIN agenda /\ agenda[assigned] \in QuestionRecord
    <2>1. agenda \in Seq(QuestionRecord) /\ assigned \in DOMAIN agenda  BY <1>1, <1>2 DEF AgendaShape, OneInProgress
    <2> QED  BY <2>1
  <1>5. q \in QuestionRecord /\ q.status # "in_progress"
    <2>1. Verdict(v, agenda[assigned]) \in {"settled", "needs_more"}  BY DEF Verdict, Verdicts
    <2> QED  BY <1>4, <2>1 DEF QuestionRecord, Statuses
  <1>6. agenda' = Covered(grown, id, level)  BY <1>3, <1>4
  <1> HIDE DEF q
  <1>7. /\ judged \in Seq(QuestionRecord) /\ Len(judged) = Len(agenda)
        /\ \A i \in DOMAIN judged : judged[i].status # "in_progress"
    <2>1. judged \in Seq(QuestionRecord) /\ Len(judged) = Len(agenda) /\ DOMAIN judged = DOMAIN agenda
      BY <1>4, <1>5
    <2>2. ASSUME NEW i \in DOMAIN agenda PROVE judged[i].status # "in_progress"
      <3>1. CASE i = assigned  BY <1>4, <1>5, <3>1
      <3>2. CASE i # assigned
        <4>1. judged[i] = agenda[i]  BY <1>4, <3>2
        <4> QED  BY <1>1, <3>2, <4>1 DEF OneInProgress
      <3> QED  BY <3>1, <3>2
    <2> QED  BY <2>1, <2>2
  <1>8. /\ Additions \in Nat /\ Len(agenda) + Additions <= MaxAgenda /\ budget.added + Additions <= MaxNew
        /\ new \in Fresh(Additions)
    BY <1>1, DraftsTyped, NewFresh DEF WithinLimits
  <1> HIDE DEF judged, new
  <1>9. /\ grown \in Seq(QuestionRecord) /\ Len(grown) <= Len(agenda) + Additions
        /\ \A i \in DOMAIN grown : grown[i].status # "in_progress"
    BY <1>7, <1>8, FreshAdded
  <1> HIDE DEF grown
  <1>10. /\ agenda' \in Seq(QuestionRecord) /\ Len(agenda') = Len(grown)
         /\ \A i \in DOMAIN agenda' : agenda'[i].status # "in_progress"
    <2>1. /\ agenda' \in Seq(QuestionRecord) /\ Len(agenda') = Len(grown)
          /\ \A i \in DOMAIN grown : agenda'[i].status = grown[i].status
      BY <1>6, <1>9, CoveredKeeps
    <2>2. DOMAIN agenda' = DOMAIN grown  BY <1>9, <2>1
    <2> QED  BY <1>9, <2>1, <2>2
  <1>11. budget \in BudgetRecord /\ budget.added \in Nat  BY <1>1 DEF AgendaShape, BudgetRecord
  <1>12. Len(new) \in Nat /\ Len(new) <= Additions  BY <1>8 DEF Fresh
  <1>13. /\ budget' \in BudgetRecord /\ budget'.round = budget.round /\ budget'.rounds = budget.rounds
         /\ budget'.sources = budget.sources /\ budget'.added = budget.added + Len(new)
    <2>1. budget' = [budget EXCEPT !.added = @ + Len(new)]  BY <1>3 DEF new
    <2>2. budget.added + Len(new) \in Nat  BY <1>11, <1>12
    <2> QED  BY <1>11, <2>1, <2>2 DEF BudgetRecord
  <1>14. AgendaShape'  BY <1>1, <1>2, <1>3, <1>10, <1>13 DEF AgendaShape
  <1>15. WithinLimits'
    <2>1. Len(agenda') <= MaxAgenda
      <3>1. Len(agenda) \in Nat /\ Len(grown) \in Nat /\ MaxAgenda \in Nat  BY <1>4, <1>9
      <3> QED  BY <1>8, <1>9, <1>10, <3>1
    <2>2. budget'.added <= MaxNew
      <3>1. MaxNew \in Nat  OBVIOUS
      <3> QED  BY <1>8, <1>11, <1>12, <1>13, <3>1
    <2>3. loopAt' # "select"  BY <1>3
    <2> QED  BY <1>1, <1>13, <2>1, <2>2, <2>3 DEF WithinLimits
  <1>16. OneInProgress'  BY <1>3, <1>10 DEF OneInProgress
  <1>17. CoreBeforeReport'  BY <1>3 DEF CoreBeforeReport
  <1> QED  BY <1>14, <1>15, <1>16, <1>17 DEF AgendaInv

LEMMA ReportStep == ASSUME AgendaInv, WritesReport PROVE AgendaInv'
  <1>1. /\ loopAt = "report" /\ loopAt' = "done" /\ agenda' = agenda /\ budget' = budget
        /\ direction' = direction /\ assigned' = assigned
    BY DEF WritesReport
  <1>2. AgendaShape /\ WithinLimits /\ OneInProgress /\ CoreBeforeReport  BY DEF AgendaInv
  <1>3. AgendaShape'  BY <1>1, <1>2 DEF AgendaShape
  <1>4. WithinLimits'  BY <1>1, <1>2 DEF WithinLimits
  <1>5. OneInProgress'  BY <1>1, <1>2 DEF OneInProgress
  <1>6. CoreBeforeReport'  BY <1>1, <1>2 DEF CoreBeforeReport, OpenCore, InBudget
  <1> QED  BY <1>3, <1>4, <1>5, <1>6 DEF AgendaInv

LEMMA ContinueStep == ASSUME AgendaInv, ContinuesResearch PROVE AgendaInv'
  <1>1. /\ loopAt = "done" /\ loopAt' = "loop" /\ agenda' = agenda /\ direction' \in Asks \cup {""}
        /\ assigned' = assigned
        /\ budget' = [budget EXCEPT !.rounds = @ + MoreRounds, !.continues = @ + 1,
                         !.target = Least(MaxSources, Most(@ + MoreSources, budget.sources + MoreSources))]
    BY DEF ContinuesResearch
  <1>2. AgendaShape /\ WithinLimits /\ OneInProgress  BY DEF AgendaInv
  <1>3. budget \in BudgetRecord  BY <1>2 DEF AgendaShape
  <1>4. MoreRounds \in Nat /\ MoreSources \in Nat /\ MaxSources \in Nat  OBVIOUS
  <1>5. /\ budget' \in BudgetRecord /\ budget'.round = budget.round /\ budget'.rounds = budget.rounds + MoreRounds
        /\ budget'.sources = budget.sources /\ budget'.added = budget.added
    <2>1. Least(MaxSources, Most(budget.target + MoreSources, budget.sources + MoreSources)) \in Nat
      BY <1>3, <1>4 DEF BudgetRecord, Least, Most
    <2>2. budget.rounds + MoreRounds \in Nat /\ budget.continues + 1 \in Nat  BY <1>3, <1>4 DEF BudgetRecord
    <2> QED  BY <1>1, <1>3, <2>1, <2>2 DEF BudgetRecord
  <1>6. AgendaShape'  BY <1>1, <1>2, <1>5 DEF AgendaShape
  <1>7. WithinLimits'
    <2>1. budget.round \in Nat /\ budget.rounds \in Nat /\ budget.round <= budget.rounds
      BY <1>2, <1>3 DEF BudgetRecord, WithinLimits
    <2>2. budget'.round <= budget'.rounds  BY <1>4, <1>5, <2>1
    <2> QED  BY <1>1, <1>2, <1>5, <2>2 DEF WithinLimits
  <1>8. OneInProgress'  BY <1>1, <1>2 DEF OneInProgress
  <1>9. CoreBeforeReport'  BY <1>1 DEF CoreBeforeReport
  <1> QED  BY <1>6, <1>7, <1>8, <1>9 DEF AgendaInv

LEMMA AgendaStep == AgendaInv /\ [AgendaNext]_agendaVars => AgendaInv'
  <1> SUFFICES ASSUME AgendaInv, [AgendaNext]_agendaVars PROVE AgendaInv'
    OBVIOUS
  <1>1. CASE LoopStep
    BY <1>1, PlanStep, DirectionStep, SubtaskStep, StopStep, FetchStep, EvaluationStep, ReportStep DEF LoopStep
  <1>2. CASE ContinuesResearch  BY <1>2, ContinueStep
  <1>3. CASE UNCHANGED agendaVars
    BY <1>3 DEF agendaVars, AgendaInv, AgendaShape, WithinLimits, OneInProgress, CoreBeforeReport, OpenCore, InBudget
  <1> QED  BY <1>1, <1>2, <1>3 DEF AgendaNext

\* Whatever the models answer and the user asks for, a research stays within its agenda, passes,
\* rounds and sources, and its report leaves a core question open only when rounds or sources are
\* used up.
THEOREM AgendasKept == AgendaSpec => []AgendaKept
  <1>1. AgendaInv => AgendaKept
    <2> SUFFICES ASSUME AgendaInv PROVE AgendaKept
      OBVIOUS
    <2>1. AgendaShape /\ WithinLimits /\ CoreBeforeReport  BY DEF AgendaInv
    <2>2. agenda \in Seq(QuestionRecord)  BY <2>1 DEF AgendaShape
    <2>3. \A i \in DOMAIN agenda : agenda[i].attempts <= MaxSubtasks
      <3>1. \A i \in DOMAIN agenda : agenda[i] \in QuestionRecord  BY <2>2
      <3> QED  BY <3>1 DEF QuestionRecord
    <2> QED  BY <2>1, <2>3 DEF AgendaKept, WithinBudget, WithinLimits
  <1> QED  BY <1>1, AgendaInitial, AgendaStep, PTL DEF AgendaSpec
=============================================================================
