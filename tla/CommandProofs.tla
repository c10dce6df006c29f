---------------------------- MODULE CommandProofs ----------------------------
(***************************************************************************)
(* Theorems about CommandApproval, CommandRun, TerminalSessions and        *)
(* BrowserSessions: what may run on the host, by whose decision, what is   *)
(* told of it, and what of it is still there after a restart or a closing. *)
(***************************************************************************)
EXTENDS CommandApproval, CommandRun, TerminalSessions, BrowserSessions, FiniteSetTheorems, SequenceTheorems, TLAPS

-----------------------------------------------------------------------------
(* Approvals *)

\* A request that stands by itself: who may still answer it, what its answer was,
\* and what became of it.
SoundRequest(x) ==
    /\ x \in Request
    /\ x.at = "idle" => x.decision = "none" /\ ~x.entry /\ x.outcome = "none"
    /\ x.at # "idle" => x.asker \in Askers
    /\ x.entry => x.at \in {"sending", "waiting", "timed"}
    /\ x.at \in {"sending", "waiting", "timed"} => x.outcome = "none"
    /\ x.decision = "none" => x.told = "none" /\ x.chosen = "none" /\ ~x.live
    /\ x.decision \in Approvals => x.chosen \in Approvals
    /\ x.told # "none" => x.told = x.decision
    /\ x.at = "timed" => x.late /\ x.told = "none"
    /\ x.at = "over" /\ x.told # "none" =>
         x.outcome \in {IF x.told = "deny" THEN "denied" ELSE "approved", "unavailable", "lost"}

AllSound == req \in [Requests -> Request] /\ \A r \in Requests : SoundRequest(req[r])

\* Every grant goes back to an answer of its owner that still stands.
GrantsOwned ==
    /\ \A a \in session : \E q \in Requests : req[q].chosen = "session" /\ req[q].live /\ req[q].asker = a
    /\ \A g \in forever \cup disk : \E q \in Requests : req[q].chosen = "forever" /\ Lasting(req[q].asker) = g

ApprovalInv == AllSound /\ GrantsOwned

LEMMA ApprovalInitial == ApprovalInit => ApprovalInv
  <1> SUFFICES ASSUME ApprovalInit PROVE ApprovalInv
    OBVIOUS
  <1>1. NoApproval \in Request /\ SoundRequest(NoApproval)
    BY DEF NoApproval, Request, SoundRequest, Decisions, Approvals
  <1> QED  BY <1>1 DEF ApprovalInit, ApprovalInv, AllSound, GrantsOwned

\* What follows from the owner's answers follows from them still.
LEMMA StillGranted ==
    ASSUME ApprovalInv, AllSound', session' \subseteq session, forever' \cup disk' \subseteq forever \cup disk,
           \A q \in Requests : \/ req'[q].chosen = req[q].chosen /\ req'[q].asker = req[q].asker /\ req'[q].live = req[q].live
                               \/ req[q].chosen = "none"
                               \/ /\ req'[q].chosen = req[q].chosen /\ req'[q].asker = req[q].asker
                                  /\ req[q].asker \notin session'
    PROVE  ApprovalInv'
  <1>1. ASSUME NEW a \in session' PROVE \E q \in Requests : req'[q].chosen = "session" /\ req'[q].live /\ req'[q].asker = a
    <2>1. PICK q \in Requests : req[q].chosen = "session" /\ req[q].live /\ req[q].asker = a
      BY <1>1 DEF ApprovalInv, GrantsOwned
    <2> QED  BY <1>1, <2>1
  <1>2. ASSUME NEW g \in forever' \cup disk' PROVE \E q \in Requests : req'[q].chosen = "forever" /\ Lasting(req'[q].asker) = g
    <2>1. PICK q \in Requests : req[q].chosen = "forever" /\ Lasting(req[q].asker) = g
      BY <1>2 DEF ApprovalInv, GrantsOwned
    <2>2. req'[q].chosen = "forever" /\ req'[q].asker = req[q].asker  BY <2>1
    <2> QED  BY <2>1, <2>2
  <1> QED  BY <1>1, <1>2 DEF ApprovalInv, GrantsOwned

\* A step of one request.
LEMMA OneRequest ==
    ASSUME AllSound, NEW r \in Requests, NEW x, req' = [req EXCEPT ![r] = x], SoundRequest(x)
    PROVE  AllSound' /\ req'[r] = x /\ \A q \in Requests \ {r} : req'[q] = req[q]
  <1>1. x \in Request  BY DEF SoundRequest
  <1>2. req'[r] = x /\ \A q \in Requests \ {r} : req'[q] = req[q]  BY DEF AllSound
  <1>3. req' \in [Requests -> Request]  BY <1>1 DEF AllSound
  <1> QED  BY <1>2, <1>3 DEF AllSound

\* A step of one request that gives nothing and takes nothing.
LEMMA QuietStep ==
    ASSUME ApprovalInv, NEW r \in Requests, NEW x, req' = [req EXCEPT ![r] = x], SoundRequest(x),
           session' = session, forever' \cup disk' \subseteq forever \cup disk,
           \/ x.chosen = req[r].chosen /\ x.asker = req[r].asker /\ x.live = req[r].live
           \/ req[r].chosen = "none"
    PROVE  ApprovalInv'
  <1>1. AllSound' /\ req'[r] = x /\ \A q \in Requests \ {r} : req'[q] = req[q]
    BY OneRequest DEF ApprovalInv
  <1> QED  BY <1>1, StillGranted

LEMMA AskStep ==
    ASSUME ApprovalInv, NEW r \in Requests, NEW a \in Askers, Ask(r, a)
    PROVE  ApprovalInv'
  <1> DEFINE x == IF StoredDecision(a, forever')
                  THEN [req[r] EXCEPT !.at = "over", !.asker = a, !.outcome = "approved"]
                  ELSE [req[r] EXCEPT !.at = "sending", !.asker = a, !.entry = TRUE]
  <1>1. req' = [req EXCEPT ![r] = x] /\ req[r].at = "idle"  BY DEF Ask
  <1>2. SoundRequest(req[r])  BY DEF ApprovalInv, AllSound
  <1>3. SoundRequest(x) /\ req[r].chosen = "none"
    BY <1>1, <1>2 DEF SoundRequest, Request, Decisions, Approvals
  <1>4. session' = session /\ forever' \cup disk' \subseteq forever \cup disk
    BY DEF Ask, Loads
  <1> HIDE DEF x
  <1> QED  BY <1>1, <1>3, <1>4, QuietStep

\* Sent, Passes, TimesOut, Returns and AnswerLate move the request on.
LEMMA MoveStep ==
    ASSUME ApprovalInv, NEW r \in Requests, UNCHANGED <<session, forever, disk>>,
           \/ Sent(r) \/ Passes(r) \/ TimesOut(r) \/ Returns(r) \/ \E user \in Users : AnswerLate(r, user)
    PROVE  ApprovalInv'
  <1> USE DEF Request, Decisions, Approvals
  <1>1. SoundRequest(req[r]) /\ req[r] \in Request  BY DEF ApprovalInv, AllSound, SoundRequest
  <1>2. ASSUME NEW x, req' = [req EXCEPT ![r] = x], SoundRequest(x),
               x.chosen = req[r].chosen, x.asker = req[r].asker, x.live = req[r].live
        PROVE  ApprovalInv'
    BY <1>2, QuietStep
  <1>3. CASE Sent(r)
    <2>1. CASE req' = [req EXCEPT ![r].at = "waiting"]
      <3> DEFINE x == [req[r] EXCEPT !.at = "waiting"]
      <3>1. SoundRequest(x)  BY <1>1, <1>3 DEF Sent, SoundRequest
      <3> QED  BY <1>1, <1>2, <2>1, <3>1
    <2>2. CASE req' = [req EXCEPT ![r].at = "over", ![r].entry = FALSE, ![r].outcome = "unavailable"]
      <3> DEFINE x == [req[r] EXCEPT !.at = "over", !.entry = FALSE, !.outcome = "unavailable"]
      <3>1. SoundRequest(x)  BY <1>1, <1>3 DEF Sent, SoundRequest
      <3>2. req' = [req EXCEPT ![r] = x]  BY <1>1, <2>2 DEF ApprovalInv, AllSound
      <3> QED  BY <1>1, <1>2, <3>1, <3>2
    <2> QED  BY <1>3, <2>1, <2>2 DEF Sent
  <1>4. CASE Passes(r)
    <2> DEFINE x == [req[r] EXCEPT !.late = TRUE]
    <2>1. SoundRequest(x) /\ req' = [req EXCEPT ![r] = x]  BY <1>1, <1>4 DEF Passes, SoundRequest
    <2> QED  BY <1>1, <1>2, <2>1
  <1>5. CASE TimesOut(r)
    <2> DEFINE x == [req[r] EXCEPT !.at = "timed"]
    <2>1. SoundRequest(x) /\ req' = [req EXCEPT ![r] = x]  BY <1>1, <1>5 DEF TimesOut, SoundRequest
    <2> QED  BY <1>1, <1>2, <2>1
  <1>6. CASE Returns(r)
    <2> DEFINE outcome == IF req[r].at = "timed" THEN "expired"
                          ELSE IF req[r].decision \in Approvals THEN "approved" ELSE "denied"
               x == [req[r] EXCEPT !.at = "over", !.entry = FALSE, !.outcome = outcome]
    <2>1. req' = [req EXCEPT ![r] = x]  BY <1>1, <1>6 DEF Returns, Decision
    <2>2. req[r].at = "timed" \/ (req[r].at = "waiting" /\ req[r].decision # "none")
      BY <1>6 DEF Returns, Decision
    <2>3. SoundRequest(x)  BY <1>1, <2>2 DEF SoundRequest
    <2> QED  BY <1>1, <1>2, <2>1, <2>3
  <1>7. ASSUME NEW user \in Users, AnswerLate(r, user) PROVE ApprovalInv'
    <2> DEFINE x == [req[r] EXCEPT !.entry = FALSE, !.decision = IF @ = "none" THEN "deny" ELSE @]
    <2>1. req' = [req EXCEPT ![r] = x]  BY <1>1, <1>7 DEF AnswerLate
    <2>2. SoundRequest(x)
      <3>1. req[r].entry  BY <1>7 DEF AnswerLate
      <3>2. CASE req[r].decision = "none"
        <4>1. x = [req[r] EXCEPT !.entry = FALSE, !.decision = "deny"]  BY <3>2
        <4> QED  BY <1>1, <3>1, <3>2, <4>1 DEF SoundRequest
      <3>3. CASE req[r].decision # "none"
        <4>1. x = [req[r] EXCEPT !.entry = FALSE]  BY <1>1, <3>3
        <4> QED  BY <1>1, <3>1, <4>1 DEF SoundRequest
      <3> QED  BY <3>2, <3>3
    <2> QED  BY <1>1, <1>2, <2>1, <2>2
  <1> QED  BY <1>3, <1>4, <1>5, <1>6, <1>7

\* An answer is recorded for a request that has none, and grants to its owner alone.
LEMMA AnswerStep ==
    ASSUME ApprovalInv, NEW r \in Requests, NEW user \in Users, NEW pressed \in Decisions, PressAnswer(r, user, pressed)
    PROVE  ApprovalInv'
  <1> USE DEF Decisions, Approvals
  <1>1. SoundRequest(req[r]) /\ req[r] \in Request  BY DEF ApprovalInv, AllSound, SoundRequest
  <1>2. /\ req[r].entry /\ req[r].asker.user = user /\ ~req[r].late /\ req[r].decision = "none"
    BY DEF PressAnswer, Answerable, MayAnswer, Expired
  <1>3. PICK recorded \in Decisions : /\ Decided(r, user, pressed, recorded)
                                      /\ recorded = pressed \/ (pressed = "forever" /\ recorded = "once")
    <2>1. \/ Decided(r, user, pressed, pressed)
          \/ pressed = "forever" /\ (Decided(r, user, pressed, "forever") \/ Decided(r, user, pressed, "once"))
      <3> HIDE DEF Decisions, Approvals
      <3> QED  BY Zenon DEF PressAnswer
    <2>2. "once" \in Decisions /\ "forever" \in Decisions  OBVIOUS
    <2> HIDE DEF Decisions
    <2> QED  BY <2>1, <2>2
  <1> DEFINE x == [req[r] EXCEPT !.decision = recorded, !.told = recorded, !.chosen = pressed, !.live = pressed = "session"]
  <1>4. req' = [req EXCEPT ![r] = x]  BY <1>1, <1>2, <1>3 DEF Decided
  <1>5. SoundRequest(x)
    <2>1. x \in Request /\ x.at = req[r].at /\ x.entry /\ x.late = req[r].late /\ x.asker = req[r].asker
          /\ x.outcome = req[r].outcome /\ x.decision = recorded /\ x.told = recorded /\ x.chosen = pressed
      BY <1>1, <1>2, <1>3 DEF Request
    <2>2. req[r].at \in {"sending", "waiting"}  BY <1>1, <1>2 DEF SoundRequest
    <2> QED  BY <1>1, <1>2, <1>3, <2>1, <2>2 DEF SoundRequest
  <1>6. x.chosen = pressed /\ x.asker = req[r].asker /\ x.live = (pressed = "session") /\ req[r].chosen = "none"
    BY <1>1, <1>2 DEF Request, SoundRequest
  <1> HIDE DEF x
  <1>7. AllSound' /\ req'[r] = x /\ \A q \in Requests \ {r} : req'[q] = req[q]
    BY <1>4, <1>5, OneRequest DEF ApprovalInv
  <1>8. ASSUME NEW a \in session' PROVE \E q \in Requests : req'[q].chosen = "session" /\ req'[q].live /\ req'[q].asker = a
    <2>1. CASE a \in session
      <3>1. PICK q \in Requests : req[q].chosen = "session" /\ req[q].live /\ req[q].asker = a
        BY <2>1 DEF ApprovalInv, GrantsOwned
      <3>2. q # r  BY <1>6, <3>1
      <3> QED  BY <1>7, <3>1, <3>2
    <2>2. CASE a \notin session
      <3>1. pressed = "session" /\ a = req[r].asker  BY <1>8, <2>2 DEF PressAnswer
      <3> QED  BY <1>6, <1>7, <3>1
    <2> QED  BY <2>1, <2>2
  <1>9. ASSUME NEW g \in forever' \cup disk' PROVE \E q \in Requests : req'[q].chosen = "forever" /\ Lasting(req'[q].asker) = g
    <2>1. CASE g \in forever \cup disk
      <3>1. PICK q \in Requests : req[q].chosen = "forever" /\ Lasting(req[q].asker) = g
        BY <2>1 DEF ApprovalInv, GrantsOwned
      <3>2. q # r  BY <1>6, <3>1
      <3> QED  BY <1>7, <3>1, <3>2
    <2>2. CASE g \notin forever \cup disk
      <3>1. pressed = "forever" /\ g = Lasting(req[r].asker)  BY <1>9, <2>2 DEF PressAnswer, Saved
      <3> QED  BY <1>6, <1>7, <3>1
    <2> QED  BY <2>1, <2>2
  <1> QED  BY <1>7, <1>8, <1>9 DEF ApprovalInv, GrantsOwned

LEMMA ClearStep ==
    ASSUME ApprovalInv, NEW user, NEW chat, Clear(user, chat)
    PROVE  ApprovalInv'
  <1>1. ASSUME NEW q \in Requests
        PROVE  /\ SoundRequest(req'[q]) /\ req'[q] \in Request
               /\ req'[q].chosen = req[q].chosen /\ req'[q].asker = req[q].asker
               /\ req'[q].live = req[q].live \/ req[q].asker \notin session'
    <2>1. SoundRequest(req[q]) /\ req[q] \in Request  BY DEF ApprovalInv, AllSound, SoundRequest
    <2>2. CASE req[q].live /\ req[q].asker.user = user /\ req[q].asker.chat = chat
      <3>1. req'[q] = [req[q] EXCEPT !.live = FALSE]  BY <2>2 DEF Clear
      <3>2. SoundRequest(req'[q]) /\ req'[q].chosen = req[q].chosen /\ req'[q].asker = req[q].asker
        BY <2>1, <3>1 DEF SoundRequest, Request
      <3>3. req[q].asker \notin session'  BY <2>2 DEF Clear, Kept
      <3> QED  BY <3>2, <3>3 DEF SoundRequest
    <2>3. CASE ~(req[q].live /\ req[q].asker.user = user /\ req[q].asker.chat = chat)
      <3>1. req'[q] = req[q]  BY <2>3 DEF Clear
      <3> QED  BY <2>1, <3>1
    <2> QED  BY <2>2, <2>3
  <1>2. AllSound'
    <2>1. req' \in [Requests -> Request]  BY <1>1 DEF Clear
    <2> QED  BY <1>1, <2>1 DEF AllSound
  <1>3. session' \subseteq session /\ forever' \cup disk' \subseteq forever \cup disk  BY DEF Clear, Kept
  <1> QED  BY <1>1, <1>2, <1>3, StillGranted

LEMMA RestartStep ==
    ASSUME ApprovalInv, Restart
    PROVE  ApprovalInv'
  <1>1. ASSUME NEW q \in Requests
        PROVE  /\ SoundRequest(req'[q]) /\ req'[q] \in Request
               /\ req'[q].chosen = req[q].chosen /\ req'[q].asker = req[q].asker
    <2>1. SoundRequest(req[q]) /\ req[q] \in Request  BY DEF ApprovalInv, AllSound, SoundRequest
    <2>2. CASE req[q].at \in {"idle", "over"}
      <3>1. req'[q] = [req[q] EXCEPT !.live = FALSE]  BY <2>2 DEF Restart
      <3> QED  BY <2>1, <3>1 DEF SoundRequest, Request
    <2>3. CASE req[q].at \notin {"idle", "over"}
      <3>1. req'[q] = [req[q] EXCEPT !.at = "over", !.entry = FALSE, !.outcome = "lost", !.live = FALSE]
        BY <2>3 DEF Restart
      <3> QED  BY <2>1, <2>3, <3>1 DEF SoundRequest, Request
    <2> QED  BY <2>2, <2>3
  <1>2. AllSound'
    <2>1. req' \in [Requests -> Request]  BY <1>1 DEF Restart
    <2> QED  BY <1>1, <2>1 DEF AllSound
  <1>3. session' = {} /\ forever' \cup disk' \subseteq forever \cup disk  BY DEF Restart
  <1> QED  BY <1>1, <1>2, <1>3, StillGranted

LEMMA ApprovalStep == ApprovalInv /\ [ApprovalNext]_approvalVars => ApprovalInv'
  <1> SUFFICES ASSUME ApprovalInv, [ApprovalNext]_approvalVars PROVE ApprovalInv'
    OBVIOUS
  <1>1. CASE UNCHANGED approvalVars
    BY <1>1 DEF approvalVars, ApprovalInv, AllSound, GrantsOwned
  <1>2. ASSUME NEW r \in Requests, NEW a \in Askers, Ask(r, a) PROVE ApprovalInv'
    BY <1>2, AskStep
  <1>3. ASSUME NEW r \in Requests,
               Sent(r) \/ Passes(r) \/ TimesOut(r) \/ Returns(r) \/ \E user \in Users : AnswerLate(r, user)
        PROVE  ApprovalInv'
    <2>1. UNCHANGED <<session, forever, disk>>  BY <1>3 DEF Sent, Passes, TimesOut, Returns, AnswerLate
    <2> QED  BY <1>3, <2>1, MoveStep
  <1>4. ASSUME NEW r \in Requests, NEW user \in Users, NEW pressed \in Decisions, PressAnswer(r, user, pressed)
        PROVE  ApprovalInv'
    BY <1>4, AnswerStep
  <1>5. ASSUME NEW a \in Askers, Clear(a.user, a.chat) PROVE ApprovalInv'
    BY <1>5, ClearStep
  <1>6. CASE Restart  BY <1>6, RestartStep
  <1> QED  BY <1>1, <1>2, <1>3, <1>4, <1>5, <1>6 DEF ApprovalNext

-----------------------------------------------------------------------------
\* An owner whose answer was recorded gets what he answered, whatever the two clocks of
\* request_command_approval and resolve_command_approval do.
THEOREM AnswersHonoured == ApprovalSpec => []AnswerHonoured
  <1>1. ApprovalInv => AnswerHonoured
    BY DEF ApprovalInv, AllSound, SoundRequest, AnswerHonoured
  <1> QED  BY <1>1, ApprovalInitial, ApprovalStep, PTL DEF ApprovalSpec

\* A step that approves a request.
Approves(r) == req'[r].outcome = "approved" /\ req[r].outcome # "approved"

LEMMA ApprovingStep ==
    ASSUME ApprovalInv, ApprovalNext, NEW r \in Requests, Approves(r)
    PROVE  \/ req[r].chosen \in Approvals
           \/ req[r].at = "idle" /\ \E q \in Requests : Covers(q, req'[r].asker)
  <1> USE DEF Approves
  <1>1. SoundRequest(req[r]) /\ req \in [Requests -> Request]  BY DEF ApprovalInv, AllSound
  <1>2. ASSUME NEW q \in Requests, NEW a \in Askers, Ask(q, a)
        PROVE  req[r].at = "idle" /\ \E p \in Requests : Covers(p, req'[r].asker)
    <2>1. q = r /\ req[r].at = "idle" /\ req'[r].asker = a /\ StoredDecision(a, forever')
      BY <1>1, <1>2 DEF Ask, Request
    <2>2. forever' \subseteq forever \cup disk  BY <1>2 DEF Ask, Loads
    <2>3. CASE a \in session
      <3>1. PICK p \in Requests : req[p].chosen = "session" /\ req[p].live /\ req[p].asker = a
        BY <2>3 DEF ApprovalInv, GrantsOwned
      <3> QED  BY <2>1, <3>1 DEF Covers
    <2>4. CASE Lasting(a) \in forever'
      <3>1. PICK p \in Requests : req[p].chosen = "forever" /\ Lasting(req[p].asker) = Lasting(a)
        BY <2>2, <2>4 DEF ApprovalInv, GrantsOwned
      <3> QED  BY <2>1, <3>1 DEF Covers
    <2> QED  BY <2>1, <2>3, <2>4 DEF StoredDecision
  <1>3. ASSUME NEW q \in Requests, Returns(q) PROVE req[r].chosen \in Approvals
    <2>1. q = r /\ req[r].at = "waiting" /\ req[r].decision \in Approvals
      BY <1>1, <1>3 DEF Returns, Decision, Request
    <2> QED  BY <1>1, <2>1 DEF SoundRequest
  <1>4. ASSUME NEW q \in Requests, Sent(q) \/ Passes(q) \/ TimesOut(q) PROVE FALSE
    BY <1>1, <1>4 DEF Sent, Passes, TimesOut, Request
  <1>5. ASSUME NEW q \in Requests, NEW user \in Users, AnswerLate(q, user) PROVE FALSE
    BY <1>1, <1>5 DEF AnswerLate, Request
  <1>6. ASSUME NEW q \in Requests, NEW user \in Users, NEW pressed \in Decisions, PressAnswer(q, user, pressed) PROVE FALSE
    <2>1. PICK recorded : Decided(q, user, pressed, recorded)  BY <1>6 DEF PressAnswer
    <2> QED  BY <1>1, <2>1 DEF Decided, Request
  <1>7. ASSUME NEW a \in Askers, Clear(a.user, a.chat) PROVE FALSE
    BY <1>1, <1>7 DEF Clear, Request
  <1>8. ASSUME Restart PROVE FALSE
    BY <1>1, <1>8 DEF Restart, Request
  <1> QED  BY <1>2, <1>3, <1>4, <1>5, <1>6, <1>7, <1>8 DEF ApprovalNext

\* No command or browser action is approved but by its owner's answer to it, or by an earlier
\* answer of his that covers it and still stands: request_command_approval and the grants.
THEOREM OwnersApprove == ApprovalSpec => ApprovedByOwner
  <1>1. ApprovalInv /\ [ApprovalNext]_approvalVars =>
          [\A r \in Requests : req'[r].outcome = "approved" /\ req[r].outcome # "approved" =>
             \/ req[r].chosen \in Approvals
             \/ req[r].at = "idle" /\ \E q \in Requests : Covers(q, req'[r].asker)]_approvalVars
    BY ApprovingStep DEF Approves
  <1> QED  BY <1>1, ApprovalInitial, ApprovalStep, PTL DEF ApprovalSpec, ApprovedByOwner

-----------------------------------------------------------------------------
(* Commands *)

CommandRecord ==
    [at: {"new", "approval", "launch", "received", "running", "killed", "replied", "answered"},
     reply: {"none", "error", "busy", "completed", "failed", "timeout"},
     answer: {"none", "error", "blocked", "busy", "completed", "failed", "timeout"},
     approved: BOOLEAN, audited: BOOLEAN]
ProcessGroup == [main: {"none", "running", "exited", "killed"}, child: {"none", "group", "own"}]

CommandShape ==
    /\ command \in [Commands -> CommandRecord] /\ group \in [Commands -> ProcessGroup]

Ends == {"completed", "failed", "timeout"}
NothingLeft(g) == g.main \in {"exited", "killed"} /\ g.child = "none"

\* How far a command is, what its processes do, and what is said of them.
SoundCommand(c, x, g) ==
    /\ x.at \in {"new", "approval", "launch", "received"} => g = NoProcess
    /\ g.main = "running" => g.child = "none"
    /\ g.main = "none" => g.child = "none"
    /\ x.at \in {"running", "killed"} => g.main # "none" /\ x.answer \in {"none", "error"}
    /\ x.at \in {"launch", "received", "running", "killed"} /\ c \in Dangerous => x.approved
    /\ g.main # "none" /\ c \in Dangerous => x.approved
    /\ x.at \in {"new", "approval", "launch", "replied"} => x.answer = "none"
    /\ x.at = "received" => x.answer \in {"none", "error"} /\ commandBackend = "host"
    /\ x.at = "replied" =>
        /\ x.reply # "none"
        /\ x.reply = "busy" => g.main = "none"
        /\ x.reply \in Ends /\ ~Remote => NothingLeft(g)
    /\ x.answer \in {"blocked", "busy"} => g.main = "none"
    /\ x.answer \in Ends => x.audited /\ (~Remote => NothingLeft(g))

InHand == {c \in Commands : commandBackend = "host" /\ command[c].at \in {"running", "killed"}}

SlotsTaken ==
    /\ IsFiniteSet(InHand) /\ active = Cardinality(InHand) /\ active <= MaxConcurrent

CommandInv == CommandShape /\ (\A c \in Commands : SoundCommand(c, command[c], group[c])) /\ SlotsTaken

LEMMA CommandInitial == CommandInit => CommandInv
  <1> SUFFICES ASSUME CommandInit PROVE CommandInv
    OBVIOUS
  <1>1. CommandShape  BY DEF CommandInit, CommandShape, CommandRecord, ProcessGroup, NoProcess
  <1>2. ASSUME NEW c \in Commands PROVE SoundCommand(c, command[c], group[c])
    BY DEF CommandInit, SoundCommand, NoProcess, Ends
  <1>3. InHand = {} /\ active = 0  BY DEF CommandInit, InHand
  <1>4. SlotsTaken  BY <1>3, FS_EmptySet, CommandAssumption DEF SlotsTaken
  <1> QED  BY <1>1, <1>2, <1>4 DEF CommandInv

\* A command that is neither taken in hand nor let go leaves the slots alone.
LEMMA SameInHand ==
    ASSUME CommandInv, NEW c \in Commands, NEW x, command' = [command EXCEPT ![c] = x],
           x.at \in {"running", "killed"} <=> command[c].at \in {"running", "killed"},
           UNCHANGED <<commandBackend, active>>
    PROVE  SlotsTaken'
  <1>1. \A d \in Commands : command'[d].at \in {"running", "killed"} <=> command[d].at \in {"running", "killed"}
    BY DEF CommandInv, CommandShape
  <1>2. InHand' = InHand  BY <1>1 DEF InHand
  <1> QED  BY <1>2 DEF CommandInv, SlotsTaken

\* A step of one command that keeps it sound keeps them all.
LEMMA OneCommand ==
    ASSUME CommandInv, NEW c \in Commands, NEW x \in CommandRecord, NEW g \in ProcessGroup,
           command' = [command EXCEPT ![c] = x], group' = [group EXCEPT ![c] = g],
           UNCHANGED commandBackend, SoundCommand(c, x, g), SlotsTaken'
    PROVE  CommandInv'
  <1>1. CommandShape'  BY DEF CommandInv, CommandShape
  <1>2. command'[c] = x /\ group'[c] = g  BY DEF CommandInv, CommandShape
  <1>3. \A d \in Commands \ {c} : command'[d] = command[d] /\ group'[d] = group[d]
    BY DEF CommandInv, CommandShape
  <1>4. Remote' = Remote  BY DEF Remote
  <1>5. ASSUME NEW d \in Commands PROVE SoundCommand(d, command[d], group[d])'
    <2>1. CASE d = c  BY <1>2, <1>4, <2>1 DEF SoundCommand
    <2>2. CASE d # c
      <3>1. SoundCommand(d, command[d], group[d])  BY DEF CommandInv
      <3> QED  BY <1>3, <1>4, <2>2, <3>1 DEF SoundCommand
    <2> QED  BY <2>1, <2>2
  <1> QED  BY <1>1, <1>5 DEF CommandInv

LEMMA QuietCommand ==
    ASSUME CommandInv, NEW c \in Commands, NEW x \in CommandRecord, NEW g \in ProcessGroup,
           command' = [command EXCEPT ![c] = x], group' = [group EXCEPT ![c] = g],
           x.at \in {"running", "killed"} <=> command[c].at \in {"running", "killed"},
           UNCHANGED <<commandBackend, active>>, SoundCommand(c, x, g)
    PROVE  CommandInv'
  <1>1. SlotsTaken'  BY SameInHand
  <1> QED  BY <1>1, OneCommand

\* The same where only what is said of the command changes.
LEMMA CommandMoves ==
    ASSUME CommandInv, NEW c \in Commands, NEW x \in CommandRecord,
           command' = [command EXCEPT ![c] = x],
           x.at \in {"running", "killed"} <=> command[c].at \in {"running", "killed"},
           UNCHANGED <<commandBackend, group, active>>, SoundCommand(c, x, group[c])
    PROVE  CommandInv'
  <1>1. group[c] \in ProcessGroup /\ group' = [group EXCEPT ![c] = group[c]]
    BY DEF CommandInv, CommandShape
  <1> QED  BY <1>1, QuietCommand

LEMMA BeforeLaunch ==
    ASSUME CommandInv, NEW c \in Commands,
           \/ Invalid(c) \/ Checked(c) \/ ApprovalGiven(c) \/ ApprovalRefused(c)
           \/ Unavailable(c) \/ HostSends(c)
    PROVE  CommandInv'
  <1>1. command[c] \in CommandRecord /\ command \in [Commands -> CommandRecord] /\ SoundCommand(c, command[c], group[c])
    BY DEF CommandInv, CommandShape
  <1>2. CASE Invalid(c)
    <2> DEFINE x == [command[c] EXCEPT !.at = "answered", !.answer = "error", !.audited = FALSE]
    <2>1. x \in CommandRecord  BY <1>1 DEF CommandRecord
    <2>2. command' = [command EXCEPT ![c] = x] /\ UNCHANGED <<commandBackend, group, active>>
      BY <1>1, <1>2 DEF Invalid, Answers
    <2>3. x.at \in {"running", "killed"} <=> command[c].at \in {"running", "killed"}
      BY <1>1, <1>2 DEF Invalid, Answers, CommandRecord
    <2>4. SoundCommand(c, x, group[c])
      BY <1>1, <1>2 DEF Invalid, Answers, CommandRecord, SoundCommand, Ends, NoProcess
    <2> HIDE DEF x
    <2> QED  BY <2>1, <2>2, <2>3, <2>4, CommandMoves
  <1>3. CASE Checked(c)
    <2> DEFINE x == [command[c] EXCEPT !.at = IF NeedsApproval(c) THEN "approval" ELSE "launch"]
    <2>1. x \in CommandRecord  BY <1>1 DEF CommandRecord
    <2>2. command' = [command EXCEPT ![c] = x] /\ UNCHANGED <<commandBackend, group, active>>
      BY <1>1, <1>3 DEF Checked, Moves, NeedsApproval
    <2>3. x.at \in {"running", "killed"} <=> command[c].at \in {"running", "killed"}
      BY <1>1, <1>3 DEF Checked, Moves, NeedsApproval, CommandRecord
    <2>4. SoundCommand(c, x, group[c])
      BY <1>1, <1>3 DEF Checked, Moves, NeedsApproval, CommandRecord, SoundCommand, Ends, NoProcess
    <2> HIDE DEF x
    <2> QED  BY <2>1, <2>2, <2>3, <2>4, CommandMoves
  <1>4. CASE ApprovalGiven(c)
    <2> DEFINE x == [command[c] EXCEPT !.at = "launch", !.approved = TRUE]
    <2>1. x \in CommandRecord  BY <1>1 DEF CommandRecord
    <2>2. command' = [command EXCEPT ![c] = x] /\ UNCHANGED <<commandBackend, group, active>>
      BY <1>1, <1>4 DEF ApprovalGiven
    <2>3. x.at \in {"running", "killed"} <=> command[c].at \in {"running", "killed"}
      BY <1>1, <1>4 DEF ApprovalGiven, CommandRecord
    <2>4. SoundCommand(c, x, group[c])
      BY <1>1, <1>4 DEF ApprovalGiven, CommandRecord, SoundCommand, Ends, NoProcess
    <2> HIDE DEF x
    <2> QED  BY <2>1, <2>2, <2>3, <2>4, CommandMoves
  <1>5. CASE ApprovalRefused(c)
    <2> DEFINE x == [command[c] EXCEPT !.at = "answered", !.answer = "blocked", !.audited = TRUE]
    <2>1. x \in CommandRecord  BY <1>1 DEF CommandRecord
    <2>2. command' = [command EXCEPT ![c] = x] /\ UNCHANGED <<commandBackend, group, active>>
      BY <1>1, <1>5 DEF ApprovalRefused, Answers
    <2>3. x.at \in {"running", "killed"} <=> command[c].at \in {"running", "killed"}
      BY <1>1, <1>5 DEF ApprovalRefused, Answers, CommandRecord
    <2>4. SoundCommand(c, x, group[c])
      BY <1>1, <1>5 DEF ApprovalRefused, Answers, CommandRecord, SoundCommand, Ends, NoProcess
    <2> HIDE DEF x
    <2> QED  BY <2>1, <2>2, <2>3, <2>4, CommandMoves
  <1>6. CASE Unavailable(c)
    <2> DEFINE x == [command[c] EXCEPT !.at = "answered", !.answer = "error", !.audited = TRUE]
    <2>1. x \in CommandRecord  BY <1>1 DEF CommandRecord
    <2>2. command' = [command EXCEPT ![c] = x] /\ UNCHANGED <<commandBackend, group, active>>
      BY <1>1, <1>6 DEF Unavailable, Answers
    <2>3. x.at \in {"running", "killed"} <=> command[c].at \in {"running", "killed"}
      BY <1>1, <1>6 DEF Unavailable, Answers, CommandRecord
    <2>4. SoundCommand(c, x, group[c])
      BY <1>1, <1>6 DEF Unavailable, Answers, CommandRecord, SoundCommand, Ends, NoProcess
    <2> HIDE DEF x
    <2> QED  BY <2>1, <2>2, <2>3, <2>4, CommandMoves
  <1>7. CASE HostSends(c)
    <2> DEFINE x == [command[c] EXCEPT !.at = "received"]
    <2>1. x \in CommandRecord  BY <1>1 DEF CommandRecord
    <2>2. command' = [command EXCEPT ![c] = x] /\ UNCHANGED <<commandBackend, group, active>>
      BY <1>1, <1>7 DEF HostSends, Moves
    <2>3. x.at \in {"running", "killed"} <=> command[c].at \in {"running", "killed"}
      BY <1>1, <1>7 DEF HostSends, Moves, CommandRecord
    <2>4. SoundCommand(c, x, group[c])
      BY <1>1, <1>7 DEF HostSends, Moves, CommandRecord, SoundCommand, Ends, NoProcess
    <2> HIDE DEF x
    <2> QED  BY <2>1, <2>2, <2>3, <2>4, CommandMoves
  <1> QED  BY <1>2, <1>3, <1>4, <1>5, <1>6, <1>7

LEMMA RunnerRefuses ==
    ASSUME CommandInv, NEW c \in Commands, RunnerDenies(c) \/ RunnerBusy(c)
    PROVE  CommandInv'
  <1>1. command[c] \in CommandRecord /\ command \in [Commands -> CommandRecord] /\ SoundCommand(c, command[c], group[c])
    BY DEF CommandInv, CommandShape
  <1>2. CASE RunnerDenies(c)
    <2> DEFINE x == [command[c] EXCEPT !.at = IF command[c].answer = "none" THEN "replied" ELSE "answered", !.reply = "error"]
    <2>1. x \in CommandRecord  BY <1>1 DEF CommandRecord
    <2>2. command' = [command EXCEPT ![c] = x] /\ UNCHANGED <<commandBackend, group, active>>
      BY <1>1, <1>2 DEF RunnerDenies, RunnerSays
    <2>3. x.at \in {"running", "killed"} <=> command[c].at \in {"running", "killed"}
      BY <1>1, <1>2 DEF RunnerDenies, RunnerSays, CommandRecord
    <2>4. SoundCommand(c, x, group[c])
      BY <1>1, <1>2 DEF RunnerDenies, RunnerSays, CommandRecord, SoundCommand, Ends, NoProcess
    <2> HIDE DEF x
    <2> QED  BY <2>1, <2>2, <2>3, <2>4, CommandMoves
  <1>3. CASE RunnerBusy(c)
    <2> DEFINE x == [command[c] EXCEPT !.at = IF command[c].answer = "none" THEN "replied" ELSE "answered", !.reply = "busy"]
    <2>1. x \in CommandRecord  BY <1>1 DEF CommandRecord
    <2>2. command' = [command EXCEPT ![c] = x] /\ UNCHANGED <<commandBackend, group, active>>
      BY <1>1, <1>3 DEF RunnerBusy, RunnerSays
    <2>3. x.at \in {"running", "killed"} <=> command[c].at \in {"running", "killed"}
      BY <1>1, <1>3 DEF RunnerBusy, RunnerSays, CommandRecord
    <2>4. SoundCommand(c, x, group[c])
      BY <1>1, <1>3 DEF RunnerBusy, RunnerSays, CommandRecord, SoundCommand, Ends, NoProcess
    <2> HIDE DEF x
    <2> QED  BY <2>1, <2>2, <2>3, <2>4, CommandMoves
  <1> QED  BY <1>2, <1>3

LEMMA ClientSteps ==
    ASSUME CommandInv, NEW c \in Commands, HostReads(c) \/ HostLineTooLong(c) \/ HostGivesUp(c)
    PROVE  CommandInv'
  <1>1. command[c] \in CommandRecord /\ command \in [Commands -> CommandRecord] /\ SoundCommand(c, command[c], group[c])
    BY DEF CommandInv, CommandShape
  <1>2. CASE HostReads(c)
    <2> DEFINE x == [command[c] EXCEPT !.at = "answered", !.answer = command[c].reply, !.audited = TRUE]
    <2>1. x \in CommandRecord  BY <1>1 DEF CommandRecord
    <2>2. command' = [command EXCEPT ![c] = x] /\ UNCHANGED <<commandBackend, group, active>>
      BY <1>1, <1>2 DEF HostReads, Answers
    <2>3. x.at \in {"running", "killed"} <=> command[c].at \in {"running", "killed"}
      BY <1>1, <1>2 DEF HostReads, Answers, CommandRecord
    <2>4. SoundCommand(c, x, group[c])
      BY <1>1, <1>2 DEF HostReads, Answers, CommandRecord, SoundCommand, Ends, NoProcess
    <2> HIDE DEF x
    <2> QED  BY <2>1, <2>2, <2>3, <2>4, CommandMoves
  <1>3. CASE HostLineTooLong(c)
    <2> DEFINE x == [command[c] EXCEPT !.at = "answered", !.answer = "error", !.audited = FALSE]
    <2>1. x \in CommandRecord  BY <1>1 DEF CommandRecord
    <2>2. command' = [command EXCEPT ![c] = x] /\ UNCHANGED <<commandBackend, group, active>>
      BY <1>1, <1>3 DEF HostLineTooLong, Answers
    <2>3. x.at \in {"running", "killed"} <=> command[c].at \in {"running", "killed"}
      BY <1>1, <1>3 DEF HostLineTooLong, Answers, CommandRecord
    <2>4. SoundCommand(c, x, group[c])
      BY <1>1, <1>3 DEF HostLineTooLong, Answers, CommandRecord, SoundCommand, Ends, NoProcess
    <2> HIDE DEF x
    <2> QED  BY <2>1, <2>2, <2>3, <2>4, CommandMoves
  <1>4. CASE HostGivesUp(c)
    <2> DEFINE x == [command[c] EXCEPT !.answer = "error", !.audited = TRUE]
    <2>1. x \in CommandRecord  BY <1>1 DEF CommandRecord
    <2>2. command' = [command EXCEPT ![c] = x] /\ UNCHANGED <<commandBackend, group, active>>
      BY <1>1, <1>4 DEF HostGivesUp
    <2>3. x.at \in {"running", "killed"} <=> command[c].at \in {"running", "killed"}
      BY <1>1, <1>4 DEF HostGivesUp, CommandRecord
    <2>4. SoundCommand(c, x, group[c])
      BY <1>1, <1>4 DEF HostGivesUp, CommandRecord, SoundCommand, Ends, NoProcess
    <2> HIDE DEF x
    <2> QED  BY <2>1, <2>2, <2>3, <2>4, CommandMoves
  <1> QED  BY <1>2, <1>3, <1>4

LEMMA LocalStarts ==
    ASSUME CommandInv, NEW c \in Commands, CommandLaunched(c)
    PROVE  CommandInv'
  <1>1. command[c] \in CommandRecord /\ command \in [Commands -> CommandRecord] /\ SoundCommand(c, command[c], group[c])
    BY DEF CommandInv, CommandShape
  <1>g1. group[c] \in ProcessGroup /\ group \in [Commands -> ProcessGroup]
    BY DEF CommandInv, CommandShape
  <1> DEFINE x == [command[c] EXCEPT !.at = "running"]
             g == [group[c] EXCEPT !.main = "running"]
  <1>2. x \in CommandRecord /\ g \in ProcessGroup  BY <1>1, <1>g1 DEF CommandRecord, ProcessGroup
  <1>3. command' = [command EXCEPT ![c] = x] /\ group' = [group EXCEPT ![c] = g] /\ UNCHANGED <<commandBackend, active>>
    BY <1>1, <1>g1 DEF CommandLaunched, Moves
  <1>4. SoundCommand(c, x, g)
    BY <1>1, <1>g1 DEF CommandLaunched, CommandRecord, ProcessGroup, SoundCommand, Ends, NoProcess
  <1>5. InHand' = InHand
    BY DEF InHand, CommandLaunched
  <1>6. SlotsTaken'  BY <1>3, <1>5 DEF CommandInv, SlotsTaken
  <1> HIDE DEF x, g
  <1> QED  BY <1>2, <1>3, <1>4, <1>6, OneCommand

LEMMA RunnerBegins ==
    ASSUME CommandInv, NEW c \in Commands, RunnerTakes(c)
    PROVE  CommandInv'
  <1>1. command[c] \in CommandRecord /\ command \in [Commands -> CommandRecord] /\ SoundCommand(c, command[c], group[c])
    BY DEF CommandInv, CommandShape
  <1>g1. group[c] \in ProcessGroup /\ group \in [Commands -> ProcessGroup]
    BY DEF CommandInv, CommandShape
  <1> DEFINE x == [command[c] EXCEPT !.at = "running"]
             g == [group[c] EXCEPT !.main = "running"]
  <1>2. x \in CommandRecord /\ g \in ProcessGroup  BY <1>1, <1>g1 DEF CommandRecord, ProcessGroup
  <1>3. command' = [command EXCEPT ![c] = x] /\ group' = [group EXCEPT ![c] = g] /\ UNCHANGED commandBackend
    BY <1>1, <1>g1 DEF RunnerTakes, Moves
  <1>4. SoundCommand(c, x, g)
    BY <1>1, <1>g1 DEF RunnerTakes, CommandRecord, ProcessGroup, SoundCommand, Ends, NoProcess
  <1>5. commandBackend = "host"  BY <1>1 DEF RunnerTakes, SoundCommand
  <1>6. InHand' = InHand \cup {c} /\ c \notin InHand
    BY <1>1, <1>3, <1>5 DEF InHand, RunnerTakes
  <1>7. IsFiniteSet(InHand) /\ active = Cardinality(InHand)  BY DEF CommandInv, SlotsTaken
  <1>8. IsFiniteSet(InHand') /\ Cardinality(InHand') = active + 1
    BY <1>6, <1>7, FS_AddElement
  <1>9. active \in Nat  BY <1>7, FS_CardinalityType
  <1>10. SlotsTaken'  BY <1>8, <1>9, CommandAssumption DEF SlotsTaken, RunnerTakes
  <1> HIDE DEF x, g
  <1> QED  BY <1>2, <1>3, <1>4, <1>10, OneCommand

LEMMA ProcessSteps ==
    ASSUME CommandInv, NEW c \in Commands, CommandExits(c) \/ ChildEnds(c) \/ CommandTimesOut(c)
    PROVE  CommandInv'
  <1>1. command[c] \in CommandRecord /\ command \in [Commands -> CommandRecord] /\ SoundCommand(c, command[c], group[c])
    BY DEF CommandInv, CommandShape
  <1>g1. group[c] \in ProcessGroup /\ group \in [Commands -> ProcessGroup]
    BY DEF CommandInv, CommandShape
  <1>2. CASE CommandExits(c)
    <2>1. PICK child \in IF Remote THEN {"none"} ELSE {"none", "group", "own"} :
            group' = [group EXCEPT ![c] = [main |-> "exited", child |-> child]]
      BY <1>2 DEF CommandExits
    <2> DEFINE g == [main |-> "exited", child |-> child]
    <2>2. g \in ProcessGroup  BY DEF ProcessGroup
    <2>3. command' = [command EXCEPT ![c] = command[c]] /\ UNCHANGED <<commandBackend, active>>
      BY <1>1, <1>2 DEF CommandExits
    <2>4. SoundCommand(c, command[c], g)
      BY <1>1, <1>2 DEF CommandExits, SoundCommand, NothingLeft, NoProcess, CommandRecord, Ends
    <2> HIDE DEF g
    <2> QED  BY <1>1, <2>1, <2>2, <2>3, <2>4, QuietCommand DEF g
  <1>3. CASE ChildEnds(c)
    <2> DEFINE g == [group[c] EXCEPT !.child = "none"]
    <2>1. g \in ProcessGroup /\ group' = [group EXCEPT ![c] = g]  BY <1>g1, <1>3 DEF ProcessGroup, ChildEnds
    <2>2. command' = [command EXCEPT ![c] = command[c]] /\ UNCHANGED <<commandBackend, active>>
      BY <1>1, <1>3 DEF ChildEnds
    <2>3. SoundCommand(c, command[c], g)
      BY <1>1, <1>g1, <1>3 DEF ChildEnds, SoundCommand, NothingLeft, NoProcess, CommandRecord, ProcessGroup, Ends
    <2> HIDE DEF g
    <2> QED  BY <1>1, <2>1, <2>2, <2>3, QuietCommand
  <1>4. CASE CommandTimesOut(c)
    <2> DEFINE x == [command[c] EXCEPT !.at = "killed"]
    <2>1. PICK child \in AfterKill(group[c]) :
            group' = [group EXCEPT ![c] = [main |-> IF @.main = "running" /\ ~Remote THEN "killed" ELSE @.main, child |-> child]]
      BY <1>4 DEF CommandTimesOut
    <2> DEFINE g == [main |-> IF group[c].main = "running" /\ ~Remote THEN "killed" ELSE group[c].main, child |-> child]
    <2>2. child \in {"none", "group", "own"}  BY <1>g1, <2>1 DEF AfterKill, ProcessGroup
    <2>3. x \in CommandRecord /\ g \in ProcessGroup  BY <1>1, <1>g1, <2>2 DEF CommandRecord, ProcessGroup
    <2>4. group' = [group EXCEPT ![c] = g]  BY <1>g1, <2>1
    <2>5. command' = [command EXCEPT ![c] = x] /\ UNCHANGED <<commandBackend, active>>
      BY <1>1, <1>4 DEF CommandTimesOut, Moves
    <2>6. SoundCommand(c, x, g)
      BY <1>1, <1>g1, <1>4, <2>1 DEF CommandTimesOut, AfterKill, OutputEnds, SoundCommand, NothingLeft, NoProcess, CommandRecord, ProcessGroup, Ends
    <2>7. x.at \in {"running", "killed"} <=> command[c].at \in {"running", "killed"}
      BY <1>1, <1>4 DEF CommandTimesOut, CommandRecord
    <2> HIDE DEF x, g
    <2> QED  BY <2>3, <2>4, <2>5, <2>6, <2>7, QuietCommand
  <1> QED  BY <1>2, <1>3, <1>4

\* The slot is given back on every way to the end of a command.
LEMMA CollectStep ==
    ASSUME CommandInv, NEW c \in Commands, Collected(c)
    PROVE  CommandInv'
  <1>1. command[c] \in CommandRecord /\ command \in [Commands -> CommandRecord] /\ SoundCommand(c, command[c], group[c])
    BY DEF CommandInv, CommandShape
  <1>g1. group[c] \in ProcessGroup /\ group \in [Commands -> ProcessGroup]
    BY DEF CommandInv, CommandShape
  <1>2. PICK status \in Status(c) :
          IF commandBackend = "host" THEN RunnerSays(c, status) /\ active' = Released(c)
          ELSE Answers(c, status, TRUE) /\ active' = active
    BY DEF Collected
  <1>3. status \in Ends  BY <1>2 DEF Status, Ends
  <1>4. command[c].at \in {"running", "killed"} /\ OutputEnds(c) /\ UNCHANGED <<commandBackend, group>>
    BY DEF Collected, Collectable
  <1>5. group' = [group EXCEPT ![c] = group[c]]  BY <1>g1, <1>4
  <1>6. ~Remote => NothingLeft(group[c])
    BY <1>1, <1>g1, <1>4 DEF OutputEnds, NothingLeft, SoundCommand, ProcessGroup
  <1>7. CASE commandBackend = "host"
    <2> DEFINE x == [command[c] EXCEPT !.at = IF command[c].answer = "none" THEN "replied" ELSE "answered", !.reply = status]
    <2>1. x \in CommandRecord  BY <1>1, <1>3 DEF CommandRecord, Ends
    <2>2. command' = [command EXCEPT ![c] = x]  BY <1>1, <1>2, <1>7 DEF RunnerSays
    <2>3. SoundCommand(c, x, group[c])
      BY <1>1, <1>g1, <1>3, <1>4, <1>6 DEF SoundCommand, NoProcess, CommandRecord, Ends
    <2>4. InHand' = InHand \ {c} /\ c \in InHand
      BY <1>1, <1>4, <1>7, <2>2 DEF InHand
    <2>5. IsFiniteSet(InHand) /\ active = Cardinality(InHand) /\ active <= MaxConcurrent  BY DEF CommandInv, SlotsTaken
    <2>6. IsFiniteSet(InHand') /\ Cardinality(InHand') = active - 1  BY <2>4, <2>5, FS_RemoveElement
    <2>7. active \in Nat /\ active' = active - 1  BY <1>2, <1>7, <2>5, FS_CardinalityType DEF Released
    <2>8. SlotsTaken'  BY <2>5, <2>6, <2>7, CommandAssumption DEF SlotsTaken
    <2> HIDE DEF x
    <2> QED  BY <1>g1, <1>4, <1>5, <2>1, <2>2, <2>3, <2>8, OneCommand
  <1>8. CASE commandBackend # "host"
    <2> DEFINE x == [command[c] EXCEPT !.at = "answered", !.answer = status, !.audited = TRUE]
    <2>1. x \in CommandRecord  BY <1>1, <1>3 DEF CommandRecord, Ends
    <2>2. command' = [command EXCEPT ![c] = x] /\ active' = active  BY <1>1, <1>2, <1>8 DEF Answers
    <2>3. SoundCommand(c, x, group[c])
      BY <1>1, <1>g1, <1>3, <1>4, <1>6 DEF SoundCommand, NoProcess, CommandRecord, Ends
    <2>4. InHand' = InHand  BY <1>4, <1>8 DEF InHand
    <2>5. SlotsTaken'  BY <2>2, <2>4 DEF CommandInv, SlotsTaken
    <2> HIDE DEF x
    <2> QED  BY <1>g1, <1>4, <1>5, <2>1, <2>2, <2>3, <2>5, OneCommand
  <1> QED  BY <1>7, <1>8

LEMMA CommandStep == CommandInv /\ [CommandNext]_commandVars => CommandInv'
  <1> SUFFICES ASSUME CommandInv, [CommandNext]_commandVars PROVE CommandInv'
    OBVIOUS
  <1>1. CASE UNCHANGED commandVars
    <2>1. Remote' = Remote /\ InHand' = InHand /\ CommandShape' = CommandShape
      BY <1>1 DEF commandVars, Remote, InHand, CommandShape
    <2>2. ASSUME NEW c \in Commands PROVE SoundCommand(c, command[c], group[c])'
      BY <1>1, <2>1 DEF commandVars, CommandInv, SoundCommand
    <2> QED  BY <1>1, <2>1, <2>2 DEF commandVars, CommandInv, SlotsTaken
  <1>2. ASSUME NEW c \in Commands,
               \/ Invalid(c) \/ Checked(c) \/ ApprovalGiven(c) \/ ApprovalRefused(c)
               \/ Unavailable(c) \/ HostSends(c)
        PROVE  CommandInv'
    BY <1>2, BeforeLaunch
  <1>3. ASSUME NEW c \in Commands, CommandLaunched(c) \/ RunnerTakes(c) PROVE CommandInv'
    BY <1>3, LocalStarts, RunnerBegins
  <1>4. ASSUME NEW c \in Commands, RunnerDenies(c) \/ RunnerBusy(c) PROVE CommandInv'
    BY <1>4, RunnerRefuses
  <1>5. ASSUME NEW c \in Commands, CommandExits(c) \/ ChildEnds(c) \/ CommandTimesOut(c) PROVE CommandInv'
    BY <1>5, ProcessSteps
  <1>6. ASSUME NEW c \in Commands, Collected(c) PROVE CommandInv'
    BY <1>6, CollectStep
  <1>7. ASSUME NEW c \in Commands, HostReads(c) \/ HostLineTooLong(c) \/ HostGivesUp(c) PROVE CommandInv'
    BY <1>7, ClientSteps
  <1> QED  BY <1>1, <1>2, <1>3, <1>4, <1>5, <1>6, <1>7 DEF CommandNext

\* What the model is told of a command is so, a dangerous one runs with an approval, and the runner
\* has as many slots taken as it has commands in hand: run_command, the backends and the runner.
THEOREM CommandsSound == CommandSpec => []CommandSound
  <1>1. CommandInv => CommandSound
    <2> SUFFICES ASSUME CommandInv PROVE CommandSound
      OBVIOUS
    <2>1. active = Cardinality({c \in Commands : commandBackend = "host" /\ command[c].at \in {"running", "killed"}})
          /\ active <= MaxConcurrent
      BY DEF CommandInv, SlotsTaken, InHand
    <2>2. ASSUME NEW c \in Commands
          PROVE /\ command[c].answer \in {"blocked", "busy"} => ~Started(c)
                /\ Started(c) /\ c \in Dangerous => command[c].approved
                /\ command[c].answer \in Ends /\ ~Remote => NothingLeft(group[c])
                /\ command[c].answer \in Ends => command[c].audited
      BY DEF CommandInv, SoundCommand, Started
    <2> QED  BY <2>1, <2>2 DEF CommandSound, Ends, NothingLeft
  <1> QED  BY <1>1, CommandInitial, CommandStep, PTL DEF CommandSpec

-----------------------------------------------------------------------------
(* Terminal sessions and jobs.  A resource is started once, by the call it is *)
(* named for, and bound only afterwards; so what was seen to have ended has   *)
(* ended for good, however late the answer about it arrives.                  *)

ToolRecord == [at: {"new", "recover", "recovering", "ready", "calling", "over"}, op: {"none", "start", "look", "end"},
               kind: {"none", "session", "job"}, target: Tools \cup {NoTool}]
WireRecord == [stage: {"none", "sent", "spawning", "handled"}, op: {"none", "start", "look", "end"},
               of: Tools \cup {NoTool}, reason: {"none"} \cup Final, reply: {"error", "missing"} \cup BindingStatuses]
RunnerRecord == [status: BindingStatuses, alive: BOOLEAN]
BoundRecord == [status: {"none", "stale"} \cup Active \cup Final, born: 0..MaxLives]
SweepRecord == [holder: Tools \cup {NoTool}, left: SUBSET Tools, pending: BOOLEAN]

TerminalShape ==
    /\ tool \in [Tools -> ToolRecord] /\ wire \in [Tools -> WireRecord] /\ runner \in [Tools -> RunnerRecord]
    /\ binding \in [Tools -> BoundRecord] /\ sweep \in SweepRecord
    /\ recovered \in BOOLEAN /\ life \in 1..MaxLives
    /\ trouble \in [stops: 0..MaxRunnerStops, silences: 0..MaxSilences]
    /\ \A r \in Tools : runner[r].alive => runner[r].status = "running"

Waiting == {"recover", "recovering", "ready", "calling"}
Unstarted == {"new", "recover", "recovering", "ready"}

\* A call t and its request w, of the resource with binding b and process p.
SoundCall(c, t, w, b, p, s) ==
    /\ w = Quiet \/ (w.stage # "none" /\ w.op # "none" /\ w.of \in Tools)
    /\ t.at \in {"new", "recover", "ready"} => w = Quiet
    /\ t.at # "over" => b.status = "none"
    /\ t.at \in Unstarted => p.status = "none"
    /\ w.op = "start" /\ w.stage \in {"sent", "spawning"} => b.status = "none" /\ p.status = "none"
    /\ w.op = "end" => w.reason \in Final
    /\ w.stage = "handled" => t.at \in {"calling", "recovering"}
    /\ t.op = "start" => t.target = c
    /\ t.at \in Waiting => t.op # "none" /\ t.target \in Tools
    /\ t.at = "calling" => w.op = t.op /\ w.of = t.target
    /\ t.at = "recovering" /\ w # Quiet => w.op = "end" /\ w.of \in s.left
    /\ t.at = "recovering" <=> s.holder = c

\* What an answer says of the process p has ended; a recovery takes every answer for that.
TrueAnswer(t, w, p) ==
    w.stage = "handled" =>
      /\ w.reply \in Final => ~p.alive /\ p.status # "none"
      /\ t.at = "recovering" /\ w.reply # "error" => ~p.alive

CallsSound ==
    \A c \in Tools :
      /\ SoundCall(c, tool[c], wire[c], binding[c], runner[c], sweep)
      /\ TrueAnswer(tool[c], wire[c], runner[wire[c].of])

\* What a recovery has done with is over.
SweepSound ==
    /\ \A r \in sweep.left : Bound(r)
    /\ recovered => sweep.holder = NoTool
    /\ sweep.holder # NoTool /\ ~sweep.pending =>
         \A r \in Tools \ sweep.left : Bound(r) /\ binding[r].born < life =>
             binding[r].status \notin Active /\ ~runner[r].alive

TerminalInv == TerminalShape /\ CallsSound /\ SweepSound /\ EndedIsGone /\ RecoveryComplete

LEMMA ToolsNamed == Tools \subseteq Nat \ {0} /\ NoTool \notin Tools /\ NoTool = 0
  BY TerminalAssumption DEF Tools, NoTool

LEMMA TerminalInitial == TerminalInit => TerminalInv
  <1> SUFFICES ASSUME TerminalInit PROVE TerminalInv
    OBVIOUS
  <1>1. NoTool \notin Tools /\ MaxLives \in Nat \ {0} /\ MaxRunnerStops \in Nat /\ MaxSilences \in Nat
    BY ToolsNamed, TerminalAssumption
  <1>2. TerminalShape
    <2>1. Quiet \in WireRecord  BY DEF Quiet, WireRecord, BindingStatuses
    <2>2. NoSweep \in SweepRecord  BY DEF NoSweep, SweepRecord
    <2>3. tool \in [Tools -> ToolRecord]  BY DEF TerminalInit, ToolRecord
    <2>4. runner \in [Tools -> RunnerRecord]  BY DEF TerminalInit, RunnerRecord, BindingStatuses
    <2>5. binding \in [Tools -> BoundRecord]  BY <1>1 DEF TerminalInit, BoundRecord
    <2>6. wire \in [Tools -> WireRecord] /\ sweep \in SweepRecord  BY <2>1, <2>2 DEF TerminalInit
    <2>7. recovered \in BOOLEAN /\ life \in 1..MaxLives /\ trouble \in [stops: 0..MaxRunnerStops, silences: 0..MaxSilences]
      <3>1. 1 \in 1..MaxLives /\ 0 \in 0..MaxRunnerStops /\ 0 \in 0..MaxSilences  BY <1>1
      <3> QED  BY <3>1 DEF TerminalInit
    <2>8. \A r \in Tools : ~runner[r].alive  BY DEF TerminalInit
    <2> QED  BY <2>3, <2>4, <2>5, <2>6, <2>7, <2>8 DEF TerminalShape
  <1>3. CallsSound
    <2> SUFFICES ASSUME NEW c \in Tools
                 PROVE  /\ SoundCall(c, tool[c], wire[c], binding[c], runner[c], sweep)
                        /\ TrueAnswer(tool[c], wire[c], runner[wire[c].of])
      BY DEF CallsSound
    <2>1. tool[c].at = "new" /\ tool[c].op = "none" /\ wire[c] = Quiet /\ binding[c].status = "none" /\ runner[c].status = "none"
          /\ sweep = NoSweep
      BY DEF TerminalInit
    <2>2. Quiet.stage = "none" /\ Quiet.op = "none" /\ NoSweep.holder # c  BY <1>1 DEF Quiet, NoSweep
    <2> QED  BY <2>1, <2>2 DEF SoundCall, TrueAnswer, Unstarted, Waiting
  <1>4. SweepSound  BY DEF TerminalInit, SweepSound, NoSweep
  <1>5. EndedIsGone /\ RecoveryComplete  BY DEF TerminalInit, EndedIsGone, RecoveryComplete, Final
  <1> QED  BY <1>2, <1>3, <1>4, <1>5 DEF TerminalInv

\* What is known of one call.
LEMMA CallKnown ==
    ASSUME TerminalInv, NEW c \in Tools
    PROVE  /\ tool[c] \in ToolRecord /\ wire[c] \in WireRecord /\ runner[c] \in RunnerRecord /\ binding[c] \in BoundRecord
           /\ SoundCall(c, tool[c], wire[c], binding[c], runner[c], sweep)
           /\ TrueAnswer(tool[c], wire[c], runner[wire[c].of])
           /\ sweep \in SweepRecord
  BY DEF TerminalInv, TerminalShape, CallsSound

\* A call of Emery goes on, and nothing on the host or in the store changes.
LEMMA CallMoves ==
    ASSUME TerminalInv, NEW c \in Tools, NEW t \in ToolRecord, NEW w \in WireRecord, NEW s \in SweepRecord,
           tool' = [tool EXCEPT ![c] = t], wire' = [wire EXCEPT ![c] = w], sweep' = s,
           s = sweep \/ (sweep.holder \in {NoTool, c} /\ s.holder \in {NoTool, c}),
           UNCHANGED <<runner, binding>>,
           SoundCall(c, t, w, binding[c], runner[c], s), TrueAnswer(t, w, runner[w.of])
    PROVE  /\ tool' \in [Tools -> ToolRecord] /\ wire' \in [Tools -> WireRecord]
           /\ CallsSound'
  <1>1. tool \in [Tools -> ToolRecord] /\ wire \in [Tools -> WireRecord]  BY DEF TerminalInv, TerminalShape
  <1>2. tool'[c] = t /\ wire'[c] = w /\ \A d \in Tools \ {c} : tool'[d] = tool[d] /\ wire'[d] = wire[d]
    BY <1>1
  <1>3. NoTool \notin Tools  BY ToolsNamed
  <1>4. ASSUME NEW d \in Tools, d # c
        PROVE  SoundCall(d, tool[d], wire[d], binding[d], runner[d], s) /\ TrueAnswer(tool[d], wire[d], runner[wire[d].of])
    <2>1. SoundCall(d, tool[d], wire[d], binding[d], runner[d], sweep) /\ TrueAnswer(tool[d], wire[d], runner[wire[d].of])
      BY CallKnown
    <2>2. s = sweep \/ (sweep.holder # d /\ s.holder # d)  BY <1>3, <1>4
    <2> QED  BY <2>1, <2>2 DEF SoundCall
  <1>5. \A d \in Tools : /\ SoundCall(d, tool'[d], wire'[d], binding[d], runner[d], s)
                         /\ TrueAnswer(tool'[d], wire'[d], runner[wire'[d].of])
    <2> SUFFICES ASSUME NEW d \in Tools
                 PROVE  /\ SoundCall(d, tool'[d], wire'[d], binding[d], runner[d], s)
                        /\ TrueAnswer(tool'[d], wire'[d], runner[wire'[d].of])
      OBVIOUS
    <2>1. CASE d = c  BY <1>2, <2>1
    <2>2. CASE d # c  BY <1>2, <1>4, <2>2
    <2> QED  BY <2>1, <2>2
  <1> QED  BY <1>1, <1>2, <1>5 DEF CallsSound

\* The runner ends a process, or notices that it has ended, and may answer a call.
LEMMA ProcessMoves ==
    ASSUME TerminalInv, NEW r \in Tools, NEW p \in RunnerRecord, NEW c \in Tools, NEW w \in WireRecord,
           runner' = [runner EXCEPT ![r] = p], wire' = [wire EXCEPT ![c] = w],
           p.alive => runner[r].alive, p.alive => p.status = "running",
           p = runner[r] \/ (p.status # "none" /\ runner[r].status # "none"),
           w = wire[c] \/ (SoundCall(c, tool[c], w, binding[c], runner[c], sweep) /\ TrueAnswer(tool[c], w, runner'[w.of])),
           UNCHANGED <<tool, binding, sweep, recovered, life, trouble>>
    PROVE  TerminalInv'
  <1>1. tool \in [Tools -> ToolRecord] /\ wire \in [Tools -> WireRecord] /\ runner \in [Tools -> RunnerRecord]
    BY DEF TerminalInv, TerminalShape
  <1>2. runner'[r] = p /\ runner' \in [Tools -> RunnerRecord] /\ \A q \in Tools \ {r} : runner'[q] = runner[q]
    BY <1>1
  <1>3. wire'[c] = w /\ wire' \in [Tools -> WireRecord] /\ \A d \in Tools \ {c} : wire'[d] = wire[d]
    BY <1>1
  <1>4. \A q \in Tools : /\ runner'[q].alive => runner[q].alive
                         /\ runner'[q].status = "none" <=> runner[q].status = "none"
                         /\ runner'[q].alive => runner'[q].status = "running"
    <2> SUFFICES ASSUME NEW q \in Tools
                 PROVE  /\ runner'[q].alive => runner[q].alive
                        /\ runner'[q].status = "none" <=> runner[q].status = "none"
                        /\ runner'[q].alive => runner'[q].status = "running"
      OBVIOUS
    <2>1. CASE q = r  BY <1>2, <2>1
    <2>2. CASE q # r  BY <1>2, <2>2 DEF TerminalInv, TerminalShape
    <2> QED  BY <2>1, <2>2
  <1>5. TerminalShape'  BY <1>1, <1>2, <1>3, <1>4 DEF TerminalInv, TerminalShape
  <1>6. CallsSound'
    <2> SUFFICES ASSUME NEW d \in Tools
                 PROVE  /\ SoundCall(d, tool[d], wire'[d], binding[d], runner'[d], sweep)
                        /\ TrueAnswer(tool[d], wire'[d], runner'[wire'[d].of])
      BY DEF CallsSound
    <2>1. CASE wire'[d] = wire[d]
      <3>1. SoundCall(d, tool[d], wire[d], binding[d], runner[d], sweep) /\ TrueAnswer(tool[d], wire[d], runner[wire[d].of])
        BY CallKnown
      <3>2. SoundCall(d, tool[d], wire[d], binding[d], runner'[d], sweep)  BY <1>4, <3>1 DEF SoundCall
      <3>3. wire[d].stage = "handled" => wire[d].of \in Tools  BY <3>1 DEF SoundCall, Quiet
      <3>4. TrueAnswer(tool[d], wire[d], runner'[wire[d].of])  BY <1>4, <3>1, <3>3 DEF TrueAnswer
      <3> QED  BY <2>1, <3>2, <3>4
    <2>2. CASE d = c /\ wire'[d] # wire[d]
      <3>1. SoundCall(c, tool[c], w, binding[c], runner[c], sweep) /\ TrueAnswer(tool[c], w, runner'[w.of])
        BY <1>3, <2>2
      <3>2. SoundCall(c, tool[c], w, binding[c], runner'[c], sweep)  BY <1>4, <3>1 DEF SoundCall
      <3> QED  BY <1>3, <2>2, <3>1, <3>2
    <2> QED  BY <1>3, <2>1, <2>2
  <1>7. SweepSound'  BY <1>4 DEF TerminalInv, SweepSound, Bound
  <1>8. EndedIsGone' /\ RecoveryComplete'  BY <1>4 DEF TerminalInv, EndedIsGone, RecoveryComplete, Bound
  <1> QED  BY <1>5, <1>6, <1>7, <1>8 DEF TerminalInv

\* What the runner replies is on the socket while somebody waits for it.
LEMMA ReplySound ==
    ASSUME TerminalInv, NEW c \in Tools, NEW reply \in {"error", "missing"} \cup BindingStatuses, RunnerReplies(c, reply),
           wire[c].stage \in {"sent", "spawning"},
           NEW p, reply \in Final => ~p.alive /\ p.status # "none",
           tool[c].at = "recovering" /\ reply # "error" => ~p.alive
    PROVE  \E w \in WireRecord :
             /\ wire' = [wire EXCEPT ![c] = w]
             /\ SoundCall(c, tool[c], w, binding[c], runner[c], sweep) /\ TrueAnswer(tool[c], w, p)
             /\ w = Quiet \/ (w.of = wire[c].of /\ w.op = wire[c].op /\ w.stage = "handled")
  <1>1. tool[c] \in ToolRecord /\ wire[c] \in WireRecord /\ SoundCall(c, tool[c], wire[c], binding[c], runner[c], sweep)
    BY CallKnown
  <1>2. CASE Heard(c)
    <2> DEFINE w == [wire[c] EXCEPT !.stage = "handled", !.reply = reply]
    <2>1. wire' = [wire EXCEPT ![c] = w]  BY <1>2 DEF RunnerReplies
    <2>2. w \in WireRecord /\ w.stage = "handled" /\ w.reply = reply /\ w.of = wire[c].of /\ w.op = wire[c].op /\ w.reason = wire[c].reason
      BY <1>1 DEF WireRecord
    <2> HIDE DEF w
    <2>3. wire[c] # Quiet /\ w # Quiet  BY <2>2 DEF Quiet
    <2>4. tool[c].at \in {"calling", "recovering"}  BY <1>2 DEF Heard
    <2>5. SoundCall(c, tool[c], w, binding[c], runner[c], sweep)
      BY <1>1, <2>2, <2>3, <2>4 DEF SoundCall, Unstarted, Waiting
    <2>6. TrueAnswer(tool[c], w, p)  BY <2>2 DEF TrueAnswer
    <2> QED  BY <2>1, <2>2, <2>5, <2>6
  <1>3. CASE ~Heard(c)
    <2>1. wire' = [wire EXCEPT ![c] = Quiet]  BY <1>3 DEF RunnerReplies
    <2>2. Quiet \in WireRecord /\ Quiet.stage = "none" /\ Quiet.op = "none"  BY DEF Quiet, WireRecord, BindingStatuses
    <2>3. SoundCall(c, tool[c], Quiet, binding[c], runner[c], sweep)
      BY <1>1, <1>3, <2>2 DEF SoundCall, Heard
    <2>4. TrueAnswer(tool[c], Quiet, p)  BY <2>2 DEF TrueAnswer
    <2> QED  BY <2>1, <2>2, <2>3, <2>4
  <1> QED  BY <1>2, <1>3

LEMMA StartsStep == ASSUME TerminalInv, NEW c \in Tools, RunnerStarts(c) PROVE TerminalInv'
  <1>1. tool[c] \in ToolRecord /\ wire[c] \in WireRecord /\ SoundCall(c, tool[c], wire[c], binding[c], runner[c], sweep)
        /\ runner[c] \in RunnerRecord
    BY CallKnown
  <1>2. wire[c].op = "start" /\ wire[c].stage \in {"sent", "spawning"} /\ UNCHANGED <<tool, binding, sweep, recovered, life, trouble>>
    BY DEF RunnerStarts
  <1>3. tool \in [Tools -> ToolRecord] /\ wire \in [Tools -> WireRecord] /\ runner \in [Tools -> RunnerRecord]
    BY DEF TerminalInv, TerminalShape
  <1>4. binding[c].status = "none" /\ runner[c].status = "none" /\ tool[c].at \in {"calling", "over"}
    BY <1>1, <1>2 DEF SoundCall, Quiet, ToolRecord
  <1>5. CASE RunnerReplies(c, "error") /\ UNCHANGED runner
    <2>1. \E w \in WireRecord :
             /\ wire' = [wire EXCEPT ![c] = w]
             /\ SoundCall(c, tool[c], w, binding[c], runner[c], sweep) /\ TrueAnswer(tool[c], w, runner[wire[c].of])
             /\ w = Quiet \/ (w.of = wire[c].of /\ w.op = wire[c].op /\ w.stage = "handled")
      BY <1>2, <1>5, ReplySound DEF Final
    <2>2. PICK w \in WireRecord :
             /\ wire' = [wire EXCEPT ![c] = w]
             /\ SoundCall(c, tool[c], w, binding[c], runner[c], sweep) /\ TrueAnswer(tool[c], w, runner[wire[c].of])
             /\ w = Quiet \/ (w.of = wire[c].of /\ w.op = wire[c].op /\ w.stage = "handled")
      BY <2>1
    <2>3. TrueAnswer(tool[c], w, runner'[w.of])  BY <1>5, <2>2 DEF TrueAnswer, Quiet
    <2>4. runner' = [runner EXCEPT ![c] = runner[c]]  BY <1>3, <1>5
    <2>5. runner[c].alive => runner[c].status = "running"  BY DEF TerminalInv, TerminalShape
    <2>6. w \in WireRecord /\ wire' = [wire EXCEPT ![c] = w] /\ SoundCall(c, tool[c], w, binding[c], runner[c], sweep)
      BY <2>2
    <2> QED  BY <1>1, <1>2, <2>3, <2>4, <2>5, <2>6, ProcessMoves
  <1>6. CASE wire[c].stage = "sent" /\ wire' = [wire EXCEPT ![c].stage = "spawning"] /\ UNCHANGED runner
    <2> DEFINE w == [wire[c] EXCEPT !.stage = "spawning"]
    <2>1. wire' = [wire EXCEPT ![c] = w]  BY <1>3, <1>6
    <2>2. w \in WireRecord /\ w.stage = "spawning" /\ w.of = wire[c].of /\ w.op = "start"  BY <1>1, <1>2 DEF WireRecord
    <2> HIDE DEF w
    <2>3. w # Quiet /\ wire[c] # Quiet  BY <1>6, <2>2 DEF Quiet
    <2>4. SoundCall(c, tool[c], w, binding[c], runner[c], sweep)  BY <1>1, <1>2, <1>4, <2>2, <2>3 DEF SoundCall, Unstarted, Waiting
    <2>5. TrueAnswer(tool[c], w, runner'[w.of])  BY <2>2 DEF TrueAnswer
    <2>6. runner' = [runner EXCEPT ![c] = runner[c]]  BY <1>3, <1>6
    <2>7. runner[c].alive => runner[c].status = "running"  BY DEF TerminalInv, TerminalShape
    <2> QED  BY <1>1, <1>2, <2>1, <2>2, <2>4, <2>5, <2>6, <2>7, ProcessMoves
  <1>7. CASE runner' = [runner EXCEPT ![c] = [status |-> "running", alive |-> TRUE]] /\ RunnerReplies(c, "running")
    <2> DEFINE p == [status |-> "running", alive |-> TRUE]
    <2>1. p \in RunnerRecord /\ p.status = "running" /\ p.alive  BY DEF RunnerRecord, BindingStatuses
    <2>2. PICK w \in WireRecord :
             /\ wire' = [wire EXCEPT ![c] = w]
             /\ SoundCall(c, tool[c], w, binding[c], runner[c], sweep) /\ TrueAnswer(tool[c], w, p)
             /\ w = Quiet \/ (w.of = wire[c].of /\ w.op = wire[c].op /\ w.stage = "handled")
      BY <1>2, <1>4, <1>7, <2>1, ReplySound DEF Final, BindingStatuses
    <2>3. wire'[c] = w /\ wire' \in [Tools -> WireRecord] /\ \A d \in Tools \ {c} : wire'[d] = wire[d]
      <3>1. wire' = [wire EXCEPT ![c] = w] /\ w \in WireRecord  BY <2>2
      <3> QED  BY <1>3, <3>1
    <2>4. runner'[c] = p /\ runner' \in [Tools -> RunnerRecord] /\ \A q \in Tools \ {c} : runner'[q] = runner[q]
      BY <1>3, <1>7, <2>1
    <2> HIDE DEF p
    <2>5. TerminalShape'
      <3>1. \A q \in Tools : runner'[q].alive => runner'[q].status = "running"
        BY <2>1, <2>4 DEF TerminalInv, TerminalShape
      <3> QED  BY <1>2, <2>3, <2>4, <3>1 DEF TerminalInv, TerminalShape
    <2>6. ASSUME NEW d \in Tools
          PROVE  /\ SoundCall(d, tool[d], wire'[d], binding[d], runner'[d], sweep)
                 /\ TrueAnswer(tool[d], wire'[d], runner'[wire'[d].of])
      <3>1. CASE d = c
        <4>1. w.stage = "handled" => w.of = c  BY <1>1, <1>2, <1>4, <2>2 DEF SoundCall, Quiet
        <4>2. TrueAnswer(tool[c], w, runner'[w.of])  BY <2>2, <2>4, <4>1 DEF TrueAnswer
        <4>3. SoundCall(c, tool[c], w, binding[c], runner'[c], sweep)
          BY <1>4, <2>2 DEF SoundCall, Quiet, Unstarted
        <4> QED  BY <2>3, <3>1, <4>2, <4>3
      <3>2. CASE d # c
        <4>1. SoundCall(d, tool[d], wire[d], binding[d], runner[d], sweep) /\ TrueAnswer(tool[d], wire[d], runner[wire[d].of])
          BY CallKnown
        <4>2. CASE wire[d].of # c
          <5>1. wire[d].stage = "handled" => wire[d].of \in Tools  BY <4>1 DEF SoundCall, Quiet
          <5> QED  BY <2>3, <2>4, <3>2, <4>1, <4>2, <5>1 DEF TrueAnswer
        <4>3. CASE wire[d].of = c
          <5>1. ~(wire[d].stage = "handled" /\ wire[d].reply \in Final)  BY <1>4, <4>1, <4>3 DEF TrueAnswer
          <5>2. ~(wire[d].stage = "handled" /\ tool[d].at = "recovering")
            <6>1. \A r \in sweep.left : binding[r].status # "none"  BY DEF TerminalInv, SweepSound, Bound
            <6> QED  BY <1>4, <4>1, <4>3, <6>1 DEF SoundCall, Quiet
          <5>3. TrueAnswer(tool[d], wire[d], runner'[c])  BY <5>1, <5>2 DEF TrueAnswer
          <5> QED  BY <2>3, <2>4, <3>2, <4>1, <4>3, <5>3
        <4> QED  BY <4>2, <4>3
      <3> QED  BY <3>1, <3>2
    <2>7. CallsSound'  BY <1>2, <2>6 DEF CallsSound
    <2>8. SweepSound'
      <3>1. \A r \in Tools : binding[r].status # "none" => runner'[r] = runner[r]  BY <1>4, <2>4
      <3> QED  BY <1>2, <3>1 DEF TerminalInv, SweepSound, Bound
    <2>9. EndedIsGone' /\ RecoveryComplete'
      <3>1. \A r \in Tools : binding[r].status # "none" => runner'[r] = runner[r]  BY <1>4, <2>4
      <3> QED  BY <1>2, <3>1 DEF TerminalInv, EndedIsGone, RecoveryComplete, Bound, Final
    <2> QED  BY <2>5, <2>7, <2>8, <2>9 DEF TerminalInv
  <1> QED  BY <1>5, <1>6, <1>7 DEF RunnerStarts

LEMMA LooksStep == ASSUME TerminalInv, NEW c \in Tools, RunnerLooks(c) PROVE TerminalInv'
  <1> DEFINE q == wire[c].of
             reply == IF Known(q) THEN runner[q].status ELSE "missing"
  <1>1. tool[c] \in ToolRecord /\ wire[c] \in WireRecord /\ SoundCall(c, tool[c], wire[c], binding[c], runner[c], sweep)
    BY CallKnown
  <1>2. wire[c].op = "look" /\ wire[c].stage = "sent" /\ RunnerReplies(c, reply)
        /\ UNCHANGED <<tool, runner, binding, sweep, recovered, life, trouble>>
    BY DEF RunnerLooks
  <1>3. q \in Tools /\ tool[c].at # "recovering"  BY <1>1, <1>2 DEF SoundCall, Quiet
  <1>4. runner[q] \in RunnerRecord /\ (runner[q].alive => runner[q].status = "running") /\ runner \in [Tools -> RunnerRecord]
    BY <1>3 DEF TerminalInv, TerminalShape
  <1>5. reply \in {"error", "missing"} \cup BindingStatuses /\ (reply \in Final => ~runner[q].alive /\ runner[q].status # "none")
    BY <1>4 DEF RunnerRecord, Known, Final
  <1> HIDE DEF q, reply
  <1>6. \E w \in WireRecord :
             /\ wire' = [wire EXCEPT ![c] = w]
             /\ SoundCall(c, tool[c], w, binding[c], runner[c], sweep) /\ TrueAnswer(tool[c], w, runner[q])
             /\ w = Quiet \/ (w.of = wire[c].of /\ w.op = wire[c].op /\ w.stage = "handled")
    BY <1>2, <1>3, <1>5, ReplySound
  <1>7. PICK w \in WireRecord :
             /\ wire' = [wire EXCEPT ![c] = w]
             /\ SoundCall(c, tool[c], w, binding[c], runner[c], sweep) /\ TrueAnswer(tool[c], w, runner[q])
             /\ w = Quiet \/ (w.of = wire[c].of /\ w.op = wire[c].op /\ w.stage = "handled")
    BY <1>6
  <1>8. TrueAnswer(tool[c], w, runner'[w.of])  BY <1>2, <1>7 DEF TrueAnswer, Quiet, q
  <1>9. runner' = [runner EXCEPT ![q] = runner[q]]  BY <1>2, <1>4
  <1> QED  BY <1>2, <1>3, <1>4, <1>7, <1>8, <1>9, ProcessMoves

LEMMA EndsStep == ASSUME TerminalInv, NEW c \in Tools, RunnerEnds(c) PROVE TerminalInv'
  <1> DEFINE q == wire[c].of
             ends == Known(q) /\ Endable(q)
             p == IF ends THEN [status |-> wire[c].reason, alive |-> FALSE] ELSE runner[q]
             reply == IF ends THEN wire[c].reason ELSE IF Known(q) THEN runner[q].status ELSE "missing"
  <1>1. tool[c] \in ToolRecord /\ wire[c] \in WireRecord /\ SoundCall(c, tool[c], wire[c], binding[c], runner[c], sweep)
    BY CallKnown
  <1>2. wire[c].op = "end" /\ wire[c].stage = "sent" /\ UNCHANGED <<tool, binding, sweep, recovered, life, trouble>>
    BY DEF RunnerEnds
  <1>3. q \in Tools /\ wire[c].reason \in Final  BY <1>1, <1>2 DEF SoundCall, Quiet
  <1>4. runner[q] \in RunnerRecord /\ (runner[q].alive => runner[q].status = "running") /\ runner \in [Tools -> RunnerRecord]
    BY <1>3 DEF TerminalInv, TerminalShape
  <1>5. runner' = [runner EXCEPT ![q] = p] /\ RunnerReplies(c, reply)
    <2>1. runner = [runner EXCEPT ![q] = runner[q]]  BY <1>4
    <2> QED  BY <2>1 DEF RunnerEnds, Ended
  <1>6. /\ p \in RunnerRecord /\ (p.alive => runner[q].alive) /\ (p.alive => p.status = "running")
        /\ p = runner[q] \/ (p.status # "none" /\ runner[q].status # "none")
    <2>1. CASE ends
      <3>1. p = [status |-> wire[c].reason, alive |-> FALSE]  BY <2>1
      <3>2. wire[c].reason # "none" /\ wire[c].reason \in BindingStatuses  BY <1>3 DEF Final, BindingStatuses
      <3> QED  BY <2>1, <3>1, <3>2 DEF RunnerRecord, Known
    <2>2. CASE ~ends  BY <1>4, <2>2
    <2> QED  BY <2>1, <2>2
  <1>7. /\ reply \in {"error", "missing"} \cup BindingStatuses
        /\ reply \in Final => ~p.alive /\ p.status # "none"
        /\ ~p.alive
    <2>1. CASE ends
      <3>1. p = [status |-> wire[c].reason, alive |-> FALSE] /\ reply = wire[c].reason  BY <2>1
      <3>2. wire[c].reason # "none" /\ wire[c].reason \in BindingStatuses  BY <1>3 DEF Final, BindingStatuses
      <3> QED  BY <3>1, <3>2
    <2>2. CASE ~ends /\ Known(q)
      <3>1. p = runner[q] /\ reply = runner[q].status /\ runner[q].status # "running"  BY <2>2 DEF Endable
      <3> QED  BY <1>4, <2>2, <3>1 DEF RunnerRecord, Known
    <2>3. CASE ~ends /\ ~Known(q)
      <3>1. p = runner[q] /\ reply = "missing" /\ runner[q].status # "running"  BY <2>3 DEF Known
      <3> QED  BY <1>4, <3>1 DEF Final
    <2> QED  BY <2>1, <2>2, <2>3
  <1> HIDE DEF q, ends, reply, p
  <1>8. \E w \in WireRecord :
             /\ wire' = [wire EXCEPT ![c] = w]
             /\ SoundCall(c, tool[c], w, binding[c], runner[c], sweep) /\ TrueAnswer(tool[c], w, p)
             /\ w = Quiet \/ (w.of = wire[c].of /\ w.op = wire[c].op /\ w.stage = "handled")
    BY <1>2, <1>5, <1>7, ReplySound
  <1>9. PICK w \in WireRecord :
             /\ wire' = [wire EXCEPT ![c] = w]
             /\ SoundCall(c, tool[c], w, binding[c], runner[c], sweep) /\ TrueAnswer(tool[c], w, p)
             /\ w = Quiet \/ (w.of = wire[c].of /\ w.op = wire[c].op /\ w.stage = "handled")
    BY <1>8
  <1>10. TrueAnswer(tool[c], w, runner'[w.of])
    <2>1. runner'[q] = p  BY <1>3, <1>4, <1>5
    <2> QED  BY <1>9, <2>1 DEF TrueAnswer, Quiet, q
  <1> QED  BY <1>2, <1>3, <1>5, <1>6, <1>9, <1>10, ProcessMoves

LEMMA ExitsStep == ASSUME TerminalInv, NEW r \in Tools, Exits(r) \/ JobReaped(r) \/ Expires(r) PROVE TerminalInv'
  <1>1. runner[r] \in RunnerRecord /\ (runner[r].alive => runner[r].status = "running")
        /\ runner \in [Tools -> RunnerRecord] /\ wire \in [Tools -> WireRecord] /\ wire[r] \in WireRecord
    BY DEF TerminalInv, TerminalShape
  <1>2. UNCHANGED <<tool, wire, binding, sweep, recovered, life, trouble>> /\ runner[r].status = "running"
    BY <1>1 DEF Exits, JobReaped, Expires
  <1>3. wire' = [wire EXCEPT ![r] = wire[r]]  BY <1>1, <1>2
  <1>4. \E p \in RunnerRecord : runner' = [runner EXCEPT ![r] = p] /\ p.status # "none" /\ ~p.alive
    <2>1. CASE Exits(r)
      <3> DEFINE p == [runner[r] EXCEPT !.alive = FALSE]
      <3>1. runner' = [runner EXCEPT ![r] = p]  BY <1>1, <2>1 DEF Exits
      <3>2. p \in RunnerRecord /\ p.status = "running" /\ p.alive = FALSE  BY <1>1, <1>2 DEF RunnerRecord
      <3> HIDE DEF p
      <3> QED  BY <3>1, <3>2
    <2>2. CASE JobReaped(r)
      <3> DEFINE p == [runner[r] EXCEPT !.status = "completed"]
      <3>1. runner' = [runner EXCEPT ![r] = p] /\ ~runner[r].alive  BY <1>1, <2>2 DEF JobReaped
      <3>2. p \in RunnerRecord /\ p.status = "completed" /\ p.alive = runner[r].alive
        BY <1>1 DEF RunnerRecord, BindingStatuses, Final
      <3> HIDE DEF p
      <3> QED  BY <3>1, <3>2
    <2>3. CASE Expires(r)
      <3> DEFINE p == [status |-> "expired", alive |-> FALSE]
      <3>1. runner' = [runner EXCEPT ![r] = p]  BY <2>3 DEF Expires, Ended
      <3>2. p \in RunnerRecord /\ p.status # "none" /\ ~p.alive  BY DEF RunnerRecord, BindingStatuses, Final
      <3> QED  BY <3>1, <3>2
    <2> QED  BY <2>1, <2>2, <2>3
  <1>5. PICK p \in RunnerRecord : runner' = [runner EXCEPT ![r] = p] /\ p.status # "none" /\ ~p.alive  BY <1>4
  <1> QED  BY <1>1, <1>2, <1>3, <1>5, ProcessMoves

\* Where the recovery and the store stay what they are.
LEMMA EmeryMoves ==
    ASSUME TerminalInv, NEW c \in Tools, NEW t \in ToolRecord, NEW w \in WireRecord,
           tool' = [tool EXCEPT ![c] = t], wire' = [wire EXCEPT ![c] = w],
           trouble' \in [stops: 0..MaxRunnerStops, silences: 0..MaxSilences],
           UNCHANGED <<runner, binding, sweep, recovered, life>>,
           SoundCall(c, t, w, binding[c], runner[c], sweep), TrueAnswer(t, w, runner[w.of])
    PROVE  TerminalInv'
  <1>1. sweep \in SweepRecord  BY DEF TerminalInv, TerminalShape
  <1>2. tool' \in [Tools -> ToolRecord] /\ wire' \in [Tools -> WireRecord] /\ CallsSound'  BY <1>1, CallMoves
  <1>3. TerminalShape'  BY <1>2 DEF TerminalInv, TerminalShape
  <1>4. SweepSound'  BY DEF TerminalInv, SweepSound, Bound
  <1>5. EndedIsGone' /\ RecoveryComplete'  BY DEF TerminalInv, EndedIsGone, RecoveryComplete, Bound
  <1> QED  BY <1>2, <1>3, <1>4, <1>5 DEF TerminalInv

LEMMA QuietIs == Quiet \in WireRecord /\ Quiet.stage = "none" /\ Quiet.op = "none" /\ \A t, p : TrueAnswer(t, Quiet, p)
  BY DEF Quiet, WireRecord, BindingStatuses, TrueAnswer

LEMMA NewCallStep == ASSUME TerminalInv, NEW c \in Tools, NewCall(c) PROVE TerminalInv'
  <1>1. tool[c] \in ToolRecord /\ wire[c] \in WireRecord /\ SoundCall(c, tool[c], wire[c], binding[c], runner[c], sweep)
    BY CallKnown
  <1>2. tool[c].at = "new" /\ UNCHANGED <<wire, runner, binding, sweep, recovered, life, trouble>>  BY DEF NewCall
  <1>3. wire[c] = Quiet /\ binding[c].status = "none" /\ runner[c].status = "none" /\ sweep.holder # c
    BY <1>1, <1>2 DEF SoundCall, Unstarted
  <1>4. wire' = [wire EXCEPT ![c] = Quiet] /\ trouble' \in [stops: 0..MaxRunnerStops, silences: 0..MaxSilences]
    BY <1>2, <1>3 DEF TerminalInv, TerminalShape
  <1>5. ASSUME NEW kind \in {"none", "session", "job"}, NEW op \in {"start", "look", "end"}, NEW r \in Tools, op = "start" => r = c,
               tool' = [tool EXCEPT ![c] = [at |-> "recover", op |-> op, kind |-> kind, target |-> r]]
        PROVE  TerminalInv'
    <2> DEFINE t == [at |-> "recover", op |-> op, kind |-> kind, target |-> r]
    <2>1. t \in ToolRecord /\ t.at = "recover" /\ t.op = op /\ t.target = r  BY DEF ToolRecord
    <2>2. tool' = [tool EXCEPT ![c] = t]  BY <1>5
    <2> HIDE DEF t
    <2>3. SoundCall(c, t, Quiet, binding[c], runner[c], sweep)
      BY <1>3, <1>5, <2>1, QuietIs DEF SoundCall, Unstarted, Waiting
    <2> QED  BY <1>2, <1>4, <2>1, <2>2, <2>3, QuietIs, EmeryMoves
  <1> QED  BY <1>5 DEF NewCall

LEMMA RecoverOneStep == ASSUME TerminalInv, NEW c \in Tools, RecoverOne(c) PROVE TerminalInv'
  <1>1. tool[c] \in ToolRecord /\ SoundCall(c, tool[c], wire[c], binding[c], runner[c], sweep)
        /\ tool \in [Tools -> ToolRecord] /\ wire \in [Tools -> WireRecord] /\ binding \in [Tools -> BoundRecord]
    BY CallKnown DEF TerminalInv, TerminalShape
  <1>2. tool[c].at = "recover" /\ sweep.holder = NoTool /\ UNCHANGED <<wire, runner, binding, recovered, life, trouble>>
    BY DEF RecoverOne
  <1>3. wire[c] = Quiet /\ NoTool \notin Tools  BY <1>1, <1>2, ToolsNamed DEF SoundCall
  <1>4. wire' = [wire EXCEPT ![c] = Quiet] /\ trouble' \in [stops: 0..MaxRunnerStops, silences: 0..MaxSilences]
    BY <1>1, <1>2, <1>3 DEF TerminalInv, TerminalShape
  <1>5. CASE tool' = [tool EXCEPT ![c].at = "ready"] /\ UNCHANGED sweep
    <2> DEFINE t == [tool[c] EXCEPT !.at = "ready"]
    <2>1. t \in ToolRecord /\ t.at = "ready" /\ t.op = tool[c].op /\ t.target = tool[c].target  BY <1>1 DEF ToolRecord
    <2>2. tool' = [tool EXCEPT ![c] = t]  BY <1>1, <1>5
    <2> HIDE DEF t
    <2>3. SoundCall(c, t, Quiet, binding[c], runner[c], sweep)
      BY <1>1, <1>2, <1>3, <2>1, QuietIs DEF SoundCall, Unstarted, Waiting
    <2> QED  BY <1>2, <1>4, <1>5, <2>1, <2>2, <2>3, QuietIs, EmeryMoves
  <1>6. CASE /\ ~recovered /\ tool' = [tool EXCEPT ![c].at = "recovering"]
             /\ sweep' = [holder |-> c, pending |-> FALSE, left |-> {r \in Tools : binding[r].status \in Active}]
    <2> DEFINE t == [tool[c] EXCEPT !.at = "recovering"]
               left == {r \in Tools : binding[r].status \in Active}
               s == [holder |-> c, pending |-> FALSE, left |-> left]
    <2>1. t \in ToolRecord /\ t.at = "recovering" /\ t.op = tool[c].op /\ t.target = tool[c].target  BY <1>1 DEF ToolRecord
    <2>2. tool' = [tool EXCEPT ![c] = t] /\ sweep' = s  BY <1>1, <1>6
    <2>3. left \subseteq Tools /\ \A r \in Tools : r \in left <=> binding[r].status \in Active  OBVIOUS
    <2> HIDE DEF left
    <2>4. s \in SweepRecord /\ s.holder = c /\ s.left = left /\ ~s.pending  BY <2>3 DEF SweepRecord
    <2> HIDE DEF t, s
    <2>5. SoundCall(c, t, Quiet, binding[c], runner[c], s)
      BY <1>1, <1>2, <1>3, <2>1, <2>4, QuietIs DEF SoundCall, Unstarted, Waiting
    <2>6. tool' \in [Tools -> ToolRecord] /\ wire' \in [Tools -> WireRecord] /\ CallsSound'
      BY <1>2, <1>4, <2>1, <2>2, <2>4, <2>5, QuietIs, CallMoves
    <2>7. TerminalShape'  BY <1>2, <2>2, <2>4, <2>6 DEF TerminalInv, TerminalShape
    <2>8. SweepSound'
      <3>1. \A r \in left : binding[r].status # "none"  BY <2>3 DEF Active
      <3>2. ASSUME NEW r \in Tools \ left, binding[r].status # "none" PROVE binding[r].status \notin Active /\ ~runner[r].alive
        <4>1. binding[r].status \notin Active  BY <2>3
        <4>2. binding[r].status \in {"stale"} \cup Final  BY <1>1, <3>2, <4>1 DEF BoundRecord
        <4> QED  BY <4>1, <4>2 DEF TerminalInv, EndedIsGone
      <3>3. ~recovered  BY <1>6
      <3> QED  BY <1>2, <2>2, <2>4, <3>1, <3>2, <3>3 DEF SweepSound, Bound
    <2>9. EndedIsGone' /\ RecoveryComplete'  BY <1>2 DEF TerminalInv, EndedIsGone, RecoveryComplete, Bound
    <2> QED  BY <2>6, <2>7, <2>8, <2>9 DEF TerminalInv
  <1> QED  BY <1>5, <1>6 DEF RecoverOne

LEMMA RecoverCallsStep == ASSUME TerminalInv, NEW c \in Tools, RecoverCalls(c) PROVE TerminalInv'
  <1>1. tool[c] \in ToolRecord /\ SoundCall(c, tool[c], wire[c], binding[c], runner[c], sweep)
        /\ tool \in [Tools -> ToolRecord] /\ sweep \in SweepRecord /\ sweep.left \subseteq Tools
    BY CallKnown DEF TerminalInv, TerminalShape, SweepRecord
  <1>2. tool[c].at = "recovering" /\ UNCHANGED <<tool, runner, binding, sweep, recovered, life, trouble>>
    BY DEF RecoverCalls
  <1>3. PICK r \in sweep.left :
          wire' = [wire EXCEPT ![c] = [Quiet EXCEPT !.stage = "sent", !.op = "end", !.of = r, !.reason = "stale_on_restart"]]
    BY DEF RecoverCalls
  <1> DEFINE w == [Quiet EXCEPT !.stage = "sent", !.op = "end", !.of = r, !.reason = "stale_on_restart"]
  <1>4. w \in WireRecord /\ w.stage = "sent" /\ w.op = "end" /\ w.of = r /\ w.reason \in Final
    BY <1>1, <1>3 DEF Quiet, WireRecord, BindingStatuses, Final
  <1>5. wire' = [wire EXCEPT ![c] = w]  BY <1>3
  <1> HIDE DEF w
  <1>6. SoundCall(c, tool[c], w, binding[c], runner[c], sweep) /\ TrueAnswer(tool[c], w, runner[w.of])
    BY <1>1, <1>2, <1>3, <1>4 DEF SoundCall, TrueAnswer, Unstarted, Waiting
  <1>7. tool' = [tool EXCEPT ![c] = tool[c]] /\ trouble' \in [stops: 0..MaxRunnerStops, silences: 0..MaxSilences]
    BY <1>1, <1>2 DEF TerminalInv, TerminalShape
  <1> QED  BY <1>1, <1>2, <1>4, <1>5, <1>6, <1>7, EmeryMoves

LEMMA SendsStep == ASSUME TerminalInv, NEW c \in Tools, Sends(c) PROVE TerminalInv'
  <1> DEFINE reason == IF tool[tool[c].target].kind = "session" THEN "closed" ELSE "cancelled"
             t == [tool[c] EXCEPT !.at = "calling"]
             w == [Quiet EXCEPT !.stage = "sent", !.op = tool[c].op, !.of = tool[c].target, !.reason = reason]
  <1>1. tool[c] \in ToolRecord /\ SoundCall(c, tool[c], wire[c], binding[c], runner[c], sweep) /\ tool \in [Tools -> ToolRecord]
    BY CallKnown DEF TerminalInv, TerminalShape
  <1>2. tool[c].at = "ready" /\ UNCHANGED <<runner, binding, sweep, recovered, life, trouble>>
        /\ wire' = [wire EXCEPT ![c] = w]
    BY DEF Sends
  <1>3. tool' = [tool EXCEPT ![c] = t]  BY <1>1 DEF Sends
  <1>4. reason \in Final /\ tool[c].op \in {"start", "look", "end"} /\ tool[c].target \in Tools
    BY <1>1, <1>2 DEF Final, SoundCall, Waiting, ToolRecord
  <1> HIDE DEF reason
  <1>5. t \in ToolRecord /\ t.at = "calling" /\ t.op = tool[c].op /\ t.target = tool[c].target  BY <1>1 DEF ToolRecord
  <1>6. w \in WireRecord /\ w.stage = "sent" /\ w.op = tool[c].op /\ w.of = tool[c].target /\ w.reason \in Final
    BY <1>4 DEF Quiet, WireRecord, BindingStatuses
  <1> HIDE DEF t, w
  <1>7. SoundCall(c, t, w, binding[c], runner[c], sweep) /\ TrueAnswer(t, w, runner[w.of])
    BY <1>1, <1>2, <1>4, <1>5, <1>6 DEF SoundCall, TrueAnswer, Unstarted, Waiting
  <1>8. trouble' \in [stops: 0..MaxRunnerStops, silences: 0..MaxSilences]  BY <1>2 DEF TerminalInv, TerminalShape
  <1> QED  BY <1>2, <1>3, <1>5, <1>6, <1>7, <1>8, EmeryMoves

LEMMA OverIs == ASSUME NEW t \in ToolRecord
                PROVE  Over(t) \in ToolRecord /\ Over(t).at = "over" /\ Over(t).op = "none" /\ Over(t).target = NoTool
  BY DEF Over, ToolRecord

LEMMA RefusedStep == ASSUME TerminalInv, NEW c \in Tools, Refused(c) PROVE TerminalInv'
  <1> DEFINE t == Over(tool[c])
  <1>1. tool[c] \in ToolRecord /\ SoundCall(c, tool[c], wire[c], binding[c], runner[c], sweep)
        /\ wire \in [Tools -> WireRecord]
    BY CallKnown DEF TerminalInv, TerminalShape
  <1>2. tool[c].at = "ready" /\ UNCHANGED <<wire, runner, binding, sweep, recovered, life, trouble>>
        /\ tool' = [tool EXCEPT ![c] = t]
    BY DEF Refused
  <1>3. wire[c] = Quiet  BY <1>1, <1>2 DEF SoundCall
  <1>4. wire' = [wire EXCEPT ![c] = Quiet] /\ trouble' \in [stops: 0..MaxRunnerStops, silences: 0..MaxSilences]
    BY <1>1, <1>2, <1>3 DEF TerminalInv, TerminalShape
  <1>5. t \in ToolRecord /\ t.at = "over" /\ t.op = "none"  BY <1>1, OverIs
  <1> HIDE DEF t
  <1>6. SoundCall(c, t, Quiet, binding[c], runner[c], sweep)
    BY <1>1, <1>2, <1>5, QuietIs DEF SoundCall, Unstarted, Waiting
  <1> QED  BY <1>2, <1>4, <1>5, <1>6, QuietIs, EmeryMoves

LEMMA RecoverEndsStep == ASSUME TerminalInv, NEW c \in Tools, RecoverEnds(c) PROVE TerminalInv'
  <1> DEFINE t == [tool[c] EXCEPT !.at = "ready"]
  <1>1. tool[c] \in ToolRecord /\ SoundCall(c, tool[c], wire[c], binding[c], runner[c], sweep)
        /\ tool \in [Tools -> ToolRecord] /\ wire \in [Tools -> WireRecord] /\ sweep \in SweepRecord /\ NoTool \notin Tools
    BY CallKnown, ToolsNamed DEF TerminalInv, TerminalShape
  <1>2. tool[c].at = "recovering" /\ sweep.left = {} /\ recovered' = ~sweep.pending /\ sweep' = NoSweep
        /\ UNCHANGED <<wire, runner, binding, life, trouble>>
    BY DEF RecoverEnds
  <1>3. wire[c] = Quiet /\ sweep.holder = c  BY <1>1, <1>2 DEF SoundCall
  <1>4. wire' = [wire EXCEPT ![c] = Quiet] /\ tool' = [tool EXCEPT ![c] = t]  BY <1>1, <1>2, <1>3 DEF RecoverEnds
  <1>5. t \in ToolRecord /\ t.at = "ready" /\ t.op = tool[c].op /\ t.target = tool[c].target  BY <1>1 DEF ToolRecord
  <1> HIDE DEF t
  <1>6. NoSweep \in SweepRecord /\ NoSweep.holder = NoTool /\ NoSweep.left = {}  BY DEF NoSweep, SweepRecord
  <1>7. SoundCall(c, t, Quiet, binding[c], runner[c], NoSweep)
    BY <1>1, <1>2, <1>5, <1>6, QuietIs DEF SoundCall, Unstarted, Waiting
  <1>8. tool' \in [Tools -> ToolRecord] /\ wire' \in [Tools -> WireRecord] /\ CallsSound'
    BY <1>2, <1>3, <1>4, <1>5, <1>6, <1>7, QuietIs, CallMoves
  <1>9. TerminalShape'
    <2>1. recovered' \in BOOLEAN  BY <1>1, <1>2 DEF SweepRecord
    <2> QED  BY <1>2, <1>6, <1>8, <2>1 DEF TerminalInv, TerminalShape
  <1>10. SweepSound'  BY <1>2, <1>6 DEF SweepSound
  <1>11. EndedIsGone'  BY <1>2 DEF TerminalInv, EndedIsGone
  <1>12. RecoveryComplete'  BY <1>1, <1>2, <1>3 DEF TerminalInv, SweepSound, RecoveryComplete, Bound
  <1> QED  BY <1>8, <1>9, <1>10, <1>11, <1>12 DEF TerminalInv

\* A call of Emery writes one binding.
LEMMA CallBinds ==
    ASSUME TerminalInv, NEW c \in Tools, NEW t \in ToolRecord, NEW w \in WireRecord, NEW s \in SweepRecord,
           NEW r \in Tools, NEW b \in BoundRecord,
           tool' = [tool EXCEPT ![c] = t], wire' = [wire EXCEPT ![c] = w], sweep' = s,
           binding' = [binding EXCEPT ![r] = b],
           s = sweep \/ (sweep.holder \in {NoTool, c} /\ s.holder \in {NoTool, c}),
           (b.status = "none" <=> binding[r].status = "none") \/ r = c,
           UNCHANGED runner,
           SoundCall(c, t, w, binding'[c], runner[c], s), TrueAnswer(t, w, runner[w.of])
    PROVE  /\ tool' \in [Tools -> ToolRecord] /\ wire' \in [Tools -> WireRecord] /\ binding' \in [Tools -> BoundRecord]
           /\ CallsSound'
  <1>1. tool \in [Tools -> ToolRecord] /\ wire \in [Tools -> WireRecord] /\ binding \in [Tools -> BoundRecord]
    BY DEF TerminalInv, TerminalShape
  <1>2. tool'[c] = t /\ wire'[c] = w /\ \A d \in Tools \ {c} : tool'[d] = tool[d] /\ wire'[d] = wire[d]
    BY <1>1
  <1>3. NoTool \notin Tools  BY ToolsNamed
  <1>4. ASSUME NEW d \in Tools, d # c
        PROVE  SoundCall(d, tool[d], wire[d], binding'[d], runner[d], s) /\ TrueAnswer(tool[d], wire[d], runner[wire[d].of])
    <2>1. SoundCall(d, tool[d], wire[d], binding[d], runner[d], sweep) /\ TrueAnswer(tool[d], wire[d], runner[wire[d].of])
      BY CallKnown
    <2>2. s = sweep \/ (sweep.holder # d /\ s.holder # d)  BY <1>3, <1>4
    <2>3. binding'[d].status = "none" <=> binding[d].status = "none"
      <3>1. CASE d = r  BY <1>1, <1>4, <3>1
      <3>2. CASE d # r  BY <1>1, <3>2
      <3> QED  BY <3>1, <3>2
    <2> QED  BY <2>1, <2>2, <2>3 DEF SoundCall
  <1>5. \A d \in Tools : /\ SoundCall(d, tool'[d], wire'[d], binding'[d], runner[d], s)
                         /\ TrueAnswer(tool'[d], wire'[d], runner[wire'[d].of])
    <2> SUFFICES ASSUME NEW d \in Tools
                 PROVE  /\ SoundCall(d, tool'[d], wire'[d], binding'[d], runner[d], s)
                        /\ TrueAnswer(tool'[d], wire'[d], runner[wire'[d].of])
      OBVIOUS
    <2>1. CASE d = c  BY <1>2, <2>1
    <2>2. CASE d # c  BY <1>2, <1>4, <2>2
    <2> QED  BY <2>1, <2>2
  <1> QED  BY <1>1, <1>2, <1>5 DEF CallsSound

LEMMA AnsweredStep == ASSUME TerminalInv, NEW c \in Tools, Answered(c) PROVE TerminalInv'
  <1> DEFINE t == Over(tool[c])
             r == tool[c].target
             reply == wire[c].reply
  <1>1. tool[c] \in ToolRecord /\ wire[c] \in WireRecord /\ SoundCall(c, tool[c], wire[c], binding[c], runner[c], sweep)
        /\ TrueAnswer(tool[c], wire[c], runner[wire[c].of])
        /\ binding \in [Tools -> BoundRecord] /\ sweep \in SweepRecord /\ life \in 1..MaxLives
    BY CallKnown DEF TerminalInv, TerminalShape
  <1>2. tool[c].at = "calling" /\ wire[c].stage = "handled" /\ UNCHANGED <<runner, sweep, recovered, life, trouble>>
        /\ tool' = [tool EXCEPT ![c] = t] /\ wire' = [wire EXCEPT ![c] = Quiet]
    BY DEF Answered
  <1>3. t \in ToolRecord /\ t.at = "over" /\ t.op = "none"  BY <1>1, OverIs
  <1>4. r \in Tools /\ wire[c].of = r /\ (tool[c].op = "start" => r = c)
    BY <1>1, <1>2 DEF SoundCall, Waiting
  <1>5. binding' = CASE tool[c].op = "start" /\ reply = "running" ->
                          [binding EXCEPT ![r] = [status |-> "active", born |-> life]]
                     [] tool[c].op # "start" /\ reply \in Final /\ binding[r].status # "none" ->
                          [binding EXCEPT ![r].status = reply]
                     [] OTHER -> binding
    BY DEF Answered, Recorded, Bound
  <1>6. \A b : SoundCall(c, t, Quiet, b, runner[c], sweep)
    BY <1>1, <1>2, <1>3, QuietIs DEF SoundCall, Unstarted, Waiting
  <1>7. reply \in Final => ~runner[r].alive  BY <1>1, <1>2, <1>4 DEF TrueAnswer
  <1>8. trouble' \in [stops: 0..MaxRunnerStops, silences: 0..MaxSilences]  BY <1>2 DEF TerminalInv, TerminalShape
  <1> HIDE DEF t, r, reply
  <1>9. CASE tool[c].op = "start" /\ reply = "running"
    <2> DEFINE b == [status |-> "active", born |-> life]
    <2>1. binding' = [binding EXCEPT ![r] = b] /\ r = c  BY <1>4, <1>5, <1>9
    <2>2. life \in 0..MaxLives  BY <1>1, TerminalAssumption
    <2>3. b \in BoundRecord /\ b.status = "active" /\ b.born = life  BY <2>2 DEF BoundRecord, Active
    <2> HIDE DEF b
    <2>4. tool' \in [Tools -> ToolRecord] /\ wire' \in [Tools -> WireRecord] /\ binding' \in [Tools -> BoundRecord] /\ CallsSound'
      BY <1>1, <1>2, <1>3, <1>4, <1>6, <2>1, <2>3, QuietIs, CallBinds
    <2>5. TerminalShape'  BY <1>2, <2>4 DEF TerminalInv, TerminalShape
    <2>6. binding'[r] = b /\ \A q \in Tools \ {r} : binding'[q] = binding[q]  BY <1>1, <1>4, <2>1
    <2>7. ~(life < life)  BY <1>1, TerminalAssumption
    <2>8. SweepSound'
      <3>1. sweep.left \subseteq Tools  BY <1>1 DEF SweepRecord
      <3> QED  BY <1>2, <2>3, <2>6, <2>7, <3>1 DEF TerminalInv, SweepSound, Bound
    <2>9. EndedIsGone'  BY <1>2, <2>3, <2>6 DEF TerminalInv, EndedIsGone, Final
    <2>10. RecoveryComplete'  BY <1>2, <2>3, <2>6, <2>7 DEF TerminalInv, RecoveryComplete, Bound
    <2> QED  BY <2>4, <2>5, <2>8, <2>9, <2>10 DEF TerminalInv
  <1>10. CASE tool[c].op # "start" /\ reply \in Final /\ binding[r].status # "none"
    <2> DEFINE b == [binding[r] EXCEPT !.status = reply]
    <2>1. binding' = [binding EXCEPT ![r] = b]  BY <1>1, <1>5, <1>10
    <2>2. b \in BoundRecord /\ b.status = reply /\ b.born = binding[r].born  BY <1>1, <1>4, <1>10 DEF BoundRecord
    <2> HIDE DEF b
    <2>3. b.status # "none" /\ b.status \notin Active  BY <1>10, <2>2 DEF Final, Active
    <2>4. tool' \in [Tools -> ToolRecord] /\ wire' \in [Tools -> WireRecord] /\ binding' \in [Tools -> BoundRecord] /\ CallsSound'
      BY <1>1, <1>2, <1>3, <1>4, <1>6, <1>10, <2>1, <2>2, <2>3, QuietIs, CallBinds
    <2>5. TerminalShape'  BY <1>2, <2>4 DEF TerminalInv, TerminalShape
    <2>6. binding'[r] = b /\ \A q \in Tools \ {r} : binding'[q] = binding[q]  BY <1>1, <1>4, <2>1
    <2>7. ~runner[r].alive  BY <1>7, <1>10
    <2>8. SweepSound'
      <3>1. sweep.left \subseteq Tools  BY <1>1 DEF SweepRecord
      <3> QED  BY <1>2, <2>3, <2>6, <2>7, <3>1 DEF TerminalInv, SweepSound, Bound
    <2>9. EndedIsGone'  BY <1>2, <2>6, <2>7 DEF TerminalInv, EndedIsGone
    <2>10. RecoveryComplete'  BY <1>2, <2>3, <2>6, <2>7, <1>10, <2>2 DEF TerminalInv, RecoveryComplete, Bound
    <2> QED  BY <2>4, <2>5, <2>8, <2>9, <2>10 DEF TerminalInv
  <1>11. CASE ~(tool[c].op = "start" /\ reply = "running") /\ ~(tool[c].op # "start" /\ reply \in Final /\ binding[r].status # "none")
    <2>1. UNCHANGED binding  BY <1>5, <1>11
    <2> QED  BY <1>2, <1>3, <1>6, <1>8, <2>1, QuietIs, EmeryMoves
  <1> QED  BY <1>9, <1>10, <1>11

\* The result of one cleanup: what is marked stale has no process any more.
LEMMA UpdatesStep ==
    ASSUME TerminalInv, NEW c \in Tools, NEW reply, RecoverUpdates(c, reply), tool[c].at = "recovering", wire[c] # Quiet,
           reply # "error" => ~runner[wire[c].of].alive,
           trouble' \in [stops: 0..MaxRunnerStops, silences: 0..MaxSilences],
           UNCHANGED <<tool, runner, recovered, life>>
    PROVE  TerminalInv'
  <1> DEFINE r == wire[c].of
             status == IF reply # "error" THEN "stale" ELSE "recovery_pending"
             b == [binding[r] EXCEPT !.status = status]
             pending == sweep.pending \/ ~(reply # "error")
             s == [sweep EXCEPT !.left = sweep.left \ {r}, !.pending = pending]
  <1>1. tool[c] \in ToolRecord /\ wire[c] \in WireRecord /\ SoundCall(c, tool[c], wire[c], binding[c], runner[c], sweep)
        /\ tool \in [Tools -> ToolRecord] /\ binding \in [Tools -> BoundRecord] /\ sweep \in SweepRecord
    BY CallKnown DEF TerminalInv, TerminalShape
  <1>2. sweep.left \subseteq Tools /\ sweep.pending \in BOOLEAN  BY <1>1 DEF SweepRecord
  <1>3. r \in sweep.left /\ r \in Tools /\ sweep.holder = c /\ binding[r].status # "none"
    BY <1>1, <1>2 DEF SoundCall, TerminalInv, SweepSound, Bound
  <1>4. NoTool \notin Tools  BY ToolsNamed
  <1>5. ~recovered  BY <1>3, <1>4 DEF TerminalInv, SweepSound
  <1>6. wire' = [wire EXCEPT ![c] = Quiet] /\ tool' = [tool EXCEPT ![c] = tool[c]]  BY <1>1 DEF RecoverUpdates
  <1>7. binding' = [binding EXCEPT ![r] = b]  BY <1>1 DEF RecoverUpdates, Cleaned
  <1>8. sweep' = s  BY <1>1 DEF RecoverUpdates, Cleaned, StillPending
  <1>9. b \in BoundRecord /\ b.status = status /\ b.born = binding[r].born
    <2>1. status \in {"stale"} \cup Active  BY DEF Active
    <2>2. binding[r] \in BoundRecord  BY <1>1, <1>3
    <2> HIDE DEF status, r
    <2> QED  BY <2>1, <2>2 DEF BoundRecord
  <1>10. s \in SweepRecord /\ s.holder = c /\ s.left = sweep.left \ {r} /\ s.pending = pending
    <2>1. sweep.left \ {r} \in SUBSET Tools /\ pending \in BOOLEAN  BY <1>2
    <2> HIDE DEF r, pending
    <2> QED  BY <1>1, <1>3, <2>1 DEF SweepRecord
  <1>11. reply # "error" => status = "stale" /\ ~runner[r].alive  OBVIOUS
  <1>12. reply = "error" => status = "recovery_pending" /\ pending  OBVIOUS
  <1>13. ~pending => ~sweep.pending  OBVIOUS
  <1> HIDE DEF r, status, b, pending, s
  <1>14. status # "none"  BY <1>11, <1>12
  <1>15. SoundCall(c, tool[c], Quiet, binding'[c], runner[c], s) /\ TrueAnswer(tool[c], Quiet, runner[Quiet.of])
    <2>1. binding'[c] = binding[c] \/ (r = c /\ tool[c].at # "over")  BY <1>1, <1>7
    <2>2. tool[c].at # "over" => binding[c].status = "none"  BY <1>1 DEF SoundCall
    <2>3. r # c  BY <1>3, <2>2
    <2>4. binding'[c] = binding[c]  BY <2>1, <2>3
    <2> QED  BY <1>1, <1>3, <1>10, <2>4, QuietIs DEF SoundCall, Unstarted, Waiting
  <1>16. b.status = "none" <=> binding[r].status = "none"  BY <1>3, <1>9, <1>14
  <1>17. tool' \in [Tools -> ToolRecord] /\ wire' \in [Tools -> WireRecord] /\ binding' \in [Tools -> BoundRecord] /\ CallsSound'
    BY <1>1, <1>3, <1>6, <1>7, <1>8, <1>9, <1>10, <1>15, <1>16, QuietIs, CallBinds
  <1>18. TerminalShape'  BY <1>8, <1>10, <1>17 DEF TerminalInv, TerminalShape
  <1>19. binding'[r] = b /\ \A q \in Tools \ {r} : binding'[q] = binding[q]  BY <1>1, <1>3, <1>7
  <1>20. SweepSound'
    <2>1. \A q \in s.left : binding'[q].status # "none"
      BY <1>2, <1>10, <1>19 DEF TerminalInv, SweepSound, Bound
    <2>2. ASSUME ~s.pending, NEW q \in Tools \ s.left, binding'[q].status # "none", binding'[q].born < life
          PROVE  binding'[q].status \notin Active /\ ~runner[q].alive
      <3>1. ~pending /\ reply # "error" /\ ~sweep.pending  BY <1>10, <1>12, <1>13, <2>2
      <3>2. CASE q = r  BY <1>9, <1>11, <1>19, <3>1, <3>2 DEF Active
      <3>3. CASE q # r
        <4>1. binding'[q] = binding[q] /\ q \in Tools \ sweep.left  BY <1>10, <1>19, <2>2, <3>3
        <4> QED  BY <1>3, <1>4, <2>2, <3>1, <4>1 DEF TerminalInv, SweepSound, Bound
      <3> QED  BY <3>2, <3>3
    <2> QED  BY <1>5, <1>8, <2>1, <2>2 DEF SweepSound, Bound
  <1>21. EndedIsGone'
    <2> SUFFICES ASSUME NEW q \in Tools, binding'[q].status \in {"stale"} \cup Final PROVE ~runner[q].alive
      BY DEF EndedIsGone
    <2>1. CASE q = r  BY <1>9, <1>11, <1>12, <1>19, <2>1 DEF Final
    <2>2. CASE q # r  BY <1>19, <2>2 DEF TerminalInv, EndedIsGone
    <2> QED  BY <2>1, <2>2
  <1>22. RecoveryComplete'  BY <1>5 DEF RecoveryComplete
  <1> QED  BY <1>17, <1>18, <1>20, <1>21, <1>22 DEF TerminalInv

LEMMA RecoverAnsweredStep == ASSUME TerminalInv, NEW c \in Tools, RecoverAnswered(c) PROVE TerminalInv'
  <1>1. tool[c].at = "recovering" /\ wire[c].stage = "handled" /\ UNCHANGED <<tool, runner, recovered, life, trouble>>
        /\ RecoverUpdates(c, wire[c].reply)
    BY DEF RecoverAnswered
  <1>2. wire[c] # Quiet  BY <1>1, QuietIs
  <1>3. wire[c].reply # "error" => ~runner[wire[c].of].alive  BY <1>1, CallKnown DEF TrueAnswer
  <1>4. trouble' \in [stops: 0..MaxRunnerStops, silences: 0..MaxSilences]  BY <1>1 DEF TerminalInv, TerminalShape
  <1> QED  BY <1>1, <1>2, <1>3, <1>4, UpdatesStep

LEMMA NoAnswerStep == ASSUME TerminalInv, NEW c \in Tools, NoAnswer(c) PROVE TerminalInv'
  <1>1. tool[c] \in ToolRecord /\ wire[c] \in WireRecord /\ SoundCall(c, tool[c], wire[c], binding[c], runner[c], sweep)
        /\ tool \in [Tools -> ToolRecord] /\ wire \in [Tools -> WireRecord]
    BY CallKnown DEF TerminalInv, TerminalShape
  <1>2. trouble' \in [stops: 0..MaxRunnerStops, silences: 0..MaxSilences]
    <2>1. trouble \in [stops: 0..MaxRunnerStops, silences: 0..MaxSilences]  BY DEF TerminalInv, TerminalShape
    <2> DEFINE n == trouble.silences + 1
    <2>2. trouble.silences \in 0..MaxSilences /\ trouble.silences < MaxSilences  BY <2>1 DEF NoAnswer
    <2>3. n \in 0..MaxSilences  BY <2>2, TerminalAssumption
    <2>4. trouble' = [trouble EXCEPT !.silences = n]  BY DEF NoAnswer
    <2> HIDE DEF n
    <2> QED  BY <2>1, <2>3, <2>4
  <1>3. UNCHANGED <<runner, recovered, life>>  BY DEF NoAnswer
  <1>4. CASE tool[c].at = "calling"
    <2> DEFINE t == Over(tool[c])
               w == IF wire[c].stage = "handled" THEN Quiet ELSE wire[c]
    <2>1. tool[c].at # "recovering"  BY <1>4
    <2>2. tool' = [tool EXCEPT ![c] = t] /\ wire' = [wire EXCEPT ![c] = w] /\ UNCHANGED <<binding, sweep>>
      BY <1>1, <2>1 DEF NoAnswer
    <2>3. t \in ToolRecord /\ t.at = "over" /\ t.op = "none"  BY <1>1, OverIs
    <2>4. w \in WireRecord /\ w.stage # "handled" /\ (w = Quiet \/ w = wire[c])  BY <1>1, QuietIs
    <2> HIDE DEF t, w
    <2>5. SoundCall(c, t, w, binding[c], runner[c], sweep)
      BY <1>1, <1>4, <2>3, <2>4, QuietIs DEF SoundCall, Unstarted, Waiting
    <2>6. TrueAnswer(t, w, runner[w.of])  BY <2>4 DEF TrueAnswer
    <2> QED  BY <1>2, <1>3, <2>2, <2>3, <2>4, <2>5, <2>6, EmeryMoves
  <1>5. CASE tool[c].at = "recovering" /\ wire[c] # Quiet /\ RecoverUpdates(c, "error") /\ UNCHANGED tool
    BY <1>2, <1>3, <1>5, UpdatesStep
  <1> QED  BY <1>4, <1>5 DEF NoAnswer

LEMMA EmeryRestartsStep == ASSUME TerminalInv, EmeryRestarts PROVE TerminalInv'
  <1>1. tool \in [Tools -> ToolRecord] /\ wire \in [Tools -> WireRecord] /\ life \in 1..MaxLives
    BY DEF TerminalInv, TerminalShape
  <1>2. /\ life < MaxLives /\ life' = life + 1 /\ recovered' = FALSE /\ sweep' = NoSweep
        /\ tool' = [c \in Tools |-> IF tool[c].at = "new" THEN tool[c] ELSE Over(tool[c])]
        /\ wire' = [c \in Tools |-> IF wire[c].stage = "handled" THEN Quiet ELSE wire[c]]
        /\ UNCHANGED <<runner, binding, trouble>>
    BY DEF EmeryRestarts
  <1>3. NoSweep \in SweepRecord /\ NoSweep.holder = NoTool /\ NoSweep.left = {} /\ NoTool \notin Tools
    BY ToolsNamed DEF NoSweep, SweepRecord
  <1>4. ASSUME NEW c \in Tools
        PROVE  /\ tool'[c] \in ToolRecord /\ wire'[c] \in WireRecord
               /\ SoundCall(c, tool'[c], wire'[c], binding[c], runner[c], NoSweep) /\ TrueAnswer(tool'[c], wire'[c], runner[wire'[c].of])
    <2> DEFINE t == IF tool[c].at = "new" THEN tool[c] ELSE Over(tool[c])
               w == IF wire[c].stage = "handled" THEN Quiet ELSE wire[c]
    <2>1. tool[c] \in ToolRecord /\ wire[c] \in WireRecord /\ SoundCall(c, tool[c], wire[c], binding[c], runner[c], sweep)
      BY CallKnown
    <2>2. tool'[c] = t /\ wire'[c] = w  BY <1>2
    <2>3. Over(tool[c]) \in ToolRecord /\ Over(tool[c]).at = "over" /\ Over(tool[c]).op = "none"  BY <2>1, OverIs
    <2>4. w \in WireRecord /\ w.stage # "handled" /\ (w = Quiet \/ w = wire[c])  BY <2>1, QuietIs
    <2> HIDE DEF w
    <2>5. TrueAnswer(t, w, runner[w.of])  BY <2>4 DEF TrueAnswer
    <2>6. CASE tool[c].at = "new"
      <3>1. t = tool[c] /\ wire[c] = Quiet  BY <2>1, <2>6 DEF SoundCall
      <3>2. w = Quiet  BY <2>4, <3>1
      <3> HIDE DEF t
      <3>3. SoundCall(c, t, w, binding[c], runner[c], NoSweep)
        BY <1>3, <2>1, <2>6, <3>1, <3>2, QuietIs DEF SoundCall, Unstarted, Waiting
      <3> QED  BY <2>1, <2>2, <2>4, <2>5, <3>1, <3>3
    <2>7. CASE tool[c].at # "new"
      <3>1. t = Over(tool[c])  BY <2>7
      <3> HIDE DEF t
      <3>2. t \in ToolRecord /\ t.at = "over" /\ t.op = "none"  BY <2>3, <3>1
      <3>3. SoundCall(c, t, w, binding[c], runner[c], NoSweep)
        BY <1>3, <2>1, <2>4, <3>2, QuietIs DEF SoundCall, Unstarted, Waiting
      <3> QED  BY <2>2, <2>4, <2>5, <3>2, <3>3
    <2> QED  BY <2>6, <2>7
  <1>5. TerminalShape'
    <2>1. tool' \in [Tools -> ToolRecord]
      <3>1. \A c \in Tools : tool'[c] \in ToolRecord  BY <1>4
      <3>2. tool' = [c \in Tools |-> tool'[c]]  BY <1>2
      <3> QED  BY <3>1, <3>2
    <2>2. wire' \in [Tools -> WireRecord]
      <3>1. \A c \in Tools : wire'[c] \in WireRecord  BY <1>4
      <3>2. wire' = [c \in Tools |-> wire'[c]]  BY <1>2
      <3> QED  BY <3>1, <3>2
    <2>3. life' \in 1..MaxLives  BY <1>1, <1>2, TerminalAssumption
    <2> QED  BY <1>2, <1>3, <2>1, <2>2, <2>3 DEF TerminalInv, TerminalShape
  <1>6. CallsSound'  BY <1>2, <1>4 DEF CallsSound
  <1>7. SweepSound'  BY <1>2, <1>3 DEF SweepSound
  <1>8. EndedIsGone' /\ RecoveryComplete'  BY <1>2 DEF TerminalInv, EndedIsGone, RecoveryComplete
  <1> QED  BY <1>5, <1>6, <1>7, <1>8 DEF TerminalInv

LEMMA RunnerRestartsStep == ASSUME TerminalInv, RunnerRestarts PROVE TerminalInv'
  <1>1. wire \in [Tools -> WireRecord] /\ runner \in [Tools -> RunnerRecord]  BY DEF TerminalInv, TerminalShape
  <1>2. /\ runner' = [r \in Tools |-> IF Known(r) THEN [status |-> "lost", alive |-> FALSE] ELSE runner[r]]
        /\ wire' = [c \in Tools |->
             IF wire[c].stage \notin {"sent", "spawning"} THEN wire[c]
             ELSE IF Heard(c) THEN [wire[c] EXCEPT !.stage = "handled", !.reply = "error"] ELSE Quiet]
        /\ UNCHANGED <<tool, binding, sweep, recovered, life>>
    BY DEF RunnerRestarts
  <1>3. trouble' \in [stops: 0..MaxRunnerStops, silences: 0..MaxSilences]
    <2>1. trouble \in [stops: 0..MaxRunnerStops, silences: 0..MaxSilences]  BY DEF TerminalInv, TerminalShape
    <2> DEFINE n == trouble.stops + 1
    <2>2. trouble.stops \in 0..MaxRunnerStops /\ trouble.stops < MaxRunnerStops  BY <2>1 DEF RunnerRestarts
    <2>3. n \in 0..MaxRunnerStops  BY <2>2, TerminalAssumption
    <2>4. trouble' = [trouble EXCEPT !.stops = n]  BY DEF RunnerRestarts
    <2> HIDE DEF n
    <2> QED  BY <2>1, <2>3, <2>4
  <1>4. \A r \in Tools : runner[r].alive => runner[r].status = "running"  BY DEF TerminalInv, TerminalShape
  <1>5. ASSUME NEW r \in Tools
        PROVE  runner'[r] \in RunnerRecord /\ ~runner'[r].alive /\ (runner'[r].status = "none" <=> runner[r].status = "none")
    <2> DEFINE p == [status |-> "lost", alive |-> FALSE]
    <2>1. p \in RunnerRecord /\ p.status = "lost" /\ ~p.alive  BY DEF RunnerRecord, BindingStatuses
    <2>2. runner'[r] = IF Known(r) THEN p ELSE runner[r]  BY <1>2
    <2> HIDE DEF p
    <2>3. CASE Known(r)  BY <2>1, <2>2, <2>3 DEF Known
    <2>4. CASE ~Known(r)
      <3>1. runner[r].status \in {"none", "lost"}  BY <2>4 DEF Known
      <3> QED  BY <1>1, <1>4, <2>2, <2>4, <3>1
    <2> QED  BY <2>3, <2>4
  <1>6. ASSUME NEW c \in Tools
        PROVE  /\ wire'[c] \in WireRecord
               /\ SoundCall(c, tool[c], wire'[c], binding[c], runner'[c], sweep) /\ TrueAnswer(tool[c], wire'[c], runner'[wire'[c].of])
    <2>1. /\ tool[c] \in ToolRecord /\ wire[c] \in WireRecord
          /\ SoundCall(c, tool[c], wire[c], binding[c], runner[c], sweep) /\ TrueAnswer(tool[c], wire[c], runner[wire[c].of])
      BY CallKnown
    <2> DEFINE v == [wire[c] EXCEPT !.stage = "handled", !.reply = "error"]
    <2>2. v \in WireRecord /\ v.stage = "handled" /\ v.reply = "error" /\ v.of = wire[c].of /\ v.op = wire[c].op /\ v.reason = wire[c].reason
      BY <2>1 DEF WireRecord
    <2>3. wire'[c] = IF wire[c].stage \notin {"sent", "spawning"} THEN wire[c] ELSE IF Heard(c) THEN v ELSE Quiet
      BY <1>2
    <2> HIDE DEF v
    <2>4. CASE wire[c].stage \notin {"sent", "spawning"}
      <3>1. wire'[c] = wire[c]  BY <2>3, <2>4
      <3>2. SoundCall(c, tool[c], wire[c], binding[c], runner'[c], sweep)  BY <1>5, <2>1 DEF SoundCall
      <3>3. wire[c].stage = "handled" => wire[c].of \in Tools  BY <2>1, QuietIs DEF SoundCall
      <3>4. TrueAnswer(tool[c], wire[c], runner'[wire[c].of])  BY <1>5, <2>1, <3>3 DEF TrueAnswer
      <3> QED  BY <2>1, <3>1, <3>2, <3>4
    <2>5. CASE wire[c].stage \in {"sent", "spawning"} /\ Heard(c)
      <3>1. wire'[c] = v /\ wire[c] # Quiet /\ v # Quiet  BY <2>2, <2>3, <2>5, QuietIs
      <3>2. tool[c].at \in {"calling", "recovering"}  BY <2>5 DEF Heard
      <3>3. SoundCall(c, tool[c], v, binding[c], runner'[c], sweep)
        BY <1>5, <2>1, <2>2, <3>1, <3>2 DEF SoundCall, Unstarted, Waiting
      <3>4. TrueAnswer(tool[c], v, runner'[v.of])  BY <2>2 DEF TrueAnswer, Final
      <3> QED  BY <2>2, <3>1, <3>3, <3>4
    <2>6. CASE wire[c].stage \in {"sent", "spawning"} /\ ~Heard(c)
      <3>1. wire'[c] = Quiet  BY <2>3, <2>6
      <3>2. SoundCall(c, tool[c], Quiet, binding[c], runner'[c], sweep)
        BY <1>5, <2>1, <2>6, QuietIs DEF SoundCall, Heard
      <3> QED  BY <3>1, <3>2, QuietIs
    <2> QED  BY <2>4, <2>5, <2>6
  <1>7. TerminalShape'
    <2>1. runner' \in [Tools -> RunnerRecord]
      <3>1. \A c \in Tools : runner'[c] \in RunnerRecord  BY <1>5
      <3>2. runner' = [c \in Tools |-> runner'[c]]  BY <1>2
      <3> QED  BY <3>1, <3>2
    <2>2. wire' \in [Tools -> WireRecord]
      <3>1. \A c \in Tools : wire'[c] \in WireRecord  BY <1>6
      <3>2. wire' = [c \in Tools |-> wire'[c]]  BY <1>2
      <3> QED  BY <3>1, <3>2
    <2> QED  BY <1>2, <1>3, <1>5, <2>1, <2>2 DEF TerminalInv, TerminalShape
  <1>8. CallsSound'  BY <1>2, <1>6 DEF CallsSound
  <1>9. SweepSound'  BY <1>2, <1>5 DEF TerminalInv, SweepSound, Bound
  <1>10. EndedIsGone' /\ RecoveryComplete'  BY <1>2, <1>5 DEF TerminalInv, EndedIsGone, RecoveryComplete, Bound
  <1> QED  BY <1>7, <1>8, <1>9, <1>10 DEF TerminalInv

LEMMA TerminalStep == TerminalInv /\ [TerminalNext]_terminalVars => TerminalInv'
  <1> SUFFICES ASSUME TerminalInv, [TerminalNext]_terminalVars PROVE TerminalInv'
    OBVIOUS
  <1>1. ASSUME NEW c \in Tools, NewCall(c) PROVE TerminalInv'  BY <1>1, NewCallStep
  <1>2. ASSUME NEW c \in Tools, Sends(c) PROVE TerminalInv'  BY <1>2, SendsStep
  <1>3. ASSUME NEW c \in Tools, Refused(c) PROVE TerminalInv'  BY <1>3, RefusedStep
  <1>4. ASSUME NEW c \in Tools, Answered(c) PROVE TerminalInv'  BY <1>4, AnsweredStep
  <1>5. ASSUME NEW c \in Tools, NoAnswer(c) PROVE TerminalInv'  BY <1>5, NoAnswerStep
  <1>6. ASSUME NEW c \in Tools, RecoverOne(c) PROVE TerminalInv'  BY <1>6, RecoverOneStep
  <1>7. ASSUME NEW c \in Tools, RecoverCalls(c) PROVE TerminalInv'  BY <1>7, RecoverCallsStep
  <1>8. ASSUME NEW c \in Tools, RecoverAnswered(c) PROVE TerminalInv'  BY <1>8, RecoverAnsweredStep
  <1>9. ASSUME NEW c \in Tools, RecoverEnds(c) PROVE TerminalInv'  BY <1>9, RecoverEndsStep
  <1>10. ASSUME NEW c \in Tools, RunnerStarts(c) PROVE TerminalInv'  BY <1>10, StartsStep
  <1>11. ASSUME NEW c \in Tools, RunnerLooks(c) PROVE TerminalInv'  BY <1>11, LooksStep
  <1>12. ASSUME NEW c \in Tools, RunnerEnds(c) PROVE TerminalInv'  BY <1>12, EndsStep
  <1>13. ASSUME NEW c \in Tools, Exits(c) \/ JobReaped(c) \/ Expires(c) PROVE TerminalInv'  BY <1>13, ExitsStep
  <1>14. CASE EmeryRestarts  BY <1>14, EmeryRestartsStep
  <1>15. CASE RunnerRestarts  BY <1>15, RunnerRestartsStep
  <1>16. CASE UNCHANGED terminalVars
    <2>1. UNCHANGED <<tool, wire, runner, binding, sweep, recovered, life, trouble>>  BY <1>16 DEF terminalVars
    <2>2. TerminalShape'  BY <2>1 DEF TerminalInv, TerminalShape
    <2>3. CallsSound'  BY <2>1 DEF TerminalInv, CallsSound
    <2>4. SweepSound'  BY <2>1 DEF TerminalInv, SweepSound, Bound
    <2>5. EndedIsGone' /\ RecoveryComplete'  BY <2>1 DEF TerminalInv, EndedIsGone, RecoveryComplete, Bound
    <2> QED  BY <2>2, <2>3, <2>4, <2>5 DEF TerminalInv
  <1> QED
    BY <1>1, <1>2, <1>3, <1>4, <1>5, <1>6, <1>7, <1>8, <1>9, <1>10, <1>11, <1>12, <1>13, <1>14, <1>15, <1>16
    DEF TerminalNext

\* What the store of Emery calls over is over on the host, and after a recovery
\* nothing of an earlier process of Emery is open in the store or runs on the host,
\* whichever answers were lost, late or overtaken by a restart of either side.
THEOREM TerminalsHeld == TerminalSpec => []TerminalSound
  <1>1. TerminalInv => TerminalSound  BY DEF TerminalInv, TerminalSound
  <1> QED  BY <1>1, TerminalInitial, TerminalStep, PTL DEF TerminalSpec

-----------------------------------------------------------------------------
(* Browser sessions.  What a session can drive is looked at Chromium by     *)
(* Chromium: which are its own, which of them it knows, and which run.     *)

BrowserRecord == [state: {"none", "live", "closed"}, over: {"no", "idle", "lease"}, tabs: SUBSET Nat]
ChromeRecord == [process: Nat, endpoint: Nat]
CallRecord == [at: {"idle", "version", "reclose", "reclosed", "wait", "unready", "unreadied", "asked"},
               kind: {"open", "list"}, endpoint: Nat]
ShutRecord == [at: {"none", "tabs", "sockets", "process"}, endpoint: Nat]
ReaperRecord == [runs: BOOLEAN, found: Seq(Browsers), closes: BOOLEAN]

BrowserShape ==
    /\ browser \in [Browsers -> BrowserRecord] /\ chrome \in [Browsers -> ChromeRecord]
    /\ ownerCall \in [Browsers -> CallRecord] /\ shut \in [Browsers -> ShutRecord]
    /\ launches \in Seq(Browsers)
    /\ alive \subseteq 1..Len(launches) /\ isolated \subseteq 1..Len(launches) /\ owned \subseteq 1..Len(launches)
    /\ reaper \in ReaperRecord
    /\ IsFiniteSet({s \in Browsers : Live(s)})

\* The Chromiums launched for a session.
OfSession(s, l) == {e \in 1..Len(l) : l[e] = s}

\* A session b with its Chromium ch, call and closing sh, the Chromiums of it (of), and which
\* Chromiums run, are known to be isolated, and have tabs with an owner.
SoundBrowser(known, b, ch, call, sh, of, run, apart, own) ==
    /\ ch.process = ch.endpoint /\ ch.endpoint \in {0} \cup of /\ call.endpoint \in {0} \cup of
    /\ b.state = "none" => b.tabs = {}
    /\ own \cap of \subseteq b.tabs
    /\ sh.at # "none" => b.state = "closed"
    /\ b.state # "closed" \/ sh.at = "tabs" =>
         apart \cap of \subseteq {ch.endpoint} /\ (call.at # "idle" => call.endpoint = ch.endpoint)
    /\ b.state = "closed" /\ sh.at # "tabs" => own \cap of \cap apart = {}
    /\ known =>
         /\ run \cap of \subseteq {ch.process}
         /\ call.at \in {"reclosed", "unreadied"} \/ sh.at = "process" \/ (b.state = "closed" /\ sh.at = "none") => run \cap of = {}
         /\ b.state = "closed" => call.at = "idle"

SessionsSound ==
    \A s \in Browsers : SoundBrowser(s \notin raced, browser[s], chrome[s], ownerCall[s], shut[s], OfSession(s, launches),
                                     alive, isolated, owned)

BrowserInv == BrowserShape /\ SessionsSound

LEMMA BrowserInitial == BrowserInit => BrowserInv
  <1> SUFFICES ASSUME BrowserInit PROVE BrowserInv
    OBVIOUS
  <1>1. launches = <<>> /\ launches \in Seq(Browsers) /\ Len(launches) = 0  BY EmptySeq DEF BrowserInit
  <1>2. BrowserShape
    <2>1. browser \in [Browsers -> BrowserRecord]  BY DEF BrowserInit, BrowserRecord
    <2>2. chrome \in [Browsers -> ChromeRecord]  BY DEF BrowserInit, ChromeRecord
    <2>3. ownerCall \in [Browsers -> CallRecord]  BY DEF BrowserInit, CallRecord, NoCall
    <2>4. shut \in [Browsers -> ShutRecord]  BY DEF BrowserInit, ShutRecord, NoShut
    <2>5. reaper \in ReaperRecord
      <3>1. <<>> \in Seq(Browsers)  BY EmptySeq
      <3> QED  BY <3>1 DEF BrowserInit, ReaperRecord
    <2>6. {s \in Browsers : Live(s)} = {}  BY DEF BrowserInit, Live
    <2>7. IsFiniteSet({s \in Browsers : Live(s)})  BY <2>6, FS_EmptySet
    <2>8. alive = {} /\ isolated = {} /\ owned = {}  BY DEF BrowserInit
    <2> QED  BY <1>1, <2>1, <2>2, <2>3, <2>4, <2>5, <2>7, <2>8 DEF BrowserShape
  <1>3. SessionsSound
    <2> SUFFICES ASSUME NEW s \in Browsers
                 PROVE  SoundBrowser(s \notin raced, browser[s], chrome[s], ownerCall[s], shut[s], OfSession(s, launches), alive, isolated, owned)
      BY DEF SessionsSound
    <2>1. /\ browser[s].state = "none" /\ browser[s].tabs = {} /\ chrome[s].process = 0 /\ chrome[s].endpoint = 0
          /\ ownerCall[s].at = "idle" /\ ownerCall[s].endpoint = 0 /\ shut[s].at = "none"
          /\ alive = {} /\ isolated = {} /\ owned = {}
      BY DEF BrowserInit, NoCall, NoShut
    <2> QED  BY <2>1 DEF SoundBrowser
  <1> QED  BY <1>2, <1>3 DEF BrowserInv

\* What is known of one session.
LEMMA SessionKnown ==
    ASSUME BrowserInv, NEW s \in Browsers
    PROVE  /\ browser[s] \in BrowserRecord /\ chrome[s] \in ChromeRecord /\ ownerCall[s] \in CallRecord /\ shut[s] \in ShutRecord
           /\ SoundBrowser(s \notin raced, browser[s], chrome[s], ownerCall[s], shut[s], OfSession(s, launches), alive, isolated, owned)
           /\ 0 \notin OfSession(s, launches)
  <1>1. 0 \notin OfSession(s, launches)  BY DEF OfSession
  <1> QED  BY <1>1 DEF BrowserInv, BrowserShape, SessionsSound

\* A launch is the session's own.
LEMMA Launched ==
    ASSUME NEW l \in Seq(Browsers), NEW s \in Browsers
    PROVE  /\ Append(l, s) \in Seq(Browsers) /\ Len(Append(l, s)) = Len(l) + 1 /\ Len(l) \in Nat
           /\ OfSession(s, Append(l, s)) = OfSession(s, l) \cup {Len(l) + 1}
           /\ \A d \in Browsers \ {s} : OfSession(d, Append(l, s)) = OfSession(d, l)
  <1> DEFINE m == Append(l, s)
  <1>1. /\ m \in Seq(Browsers) /\ Len(m) = Len(l) + 1 /\ Len(l) \in Nat
        /\ (\A e \in 1..Len(l) : m[e] = l[e]) /\ m[Len(l) + 1] = s
    BY AppendProperties, LenProperties
  <1> HIDE DEF m
  <1>2. 1..Len(m) = 1..Len(l) \cup {Len(l) + 1}  BY <1>1
  <1>3. OfSession(s, m) = OfSession(s, l) \cup {Len(l) + 1}
    BY <1>1, <1>2 DEF OfSession
  <1>4. \A d \in Browsers \ {s} : OfSession(d, m) = OfSession(d, l)
    BY <1>1, <1>2 DEF OfSession
  <1> QED  BY <1>1, <1>3, <1>4 DEF m

\* A step of one session: the others only lose what they do not own.
LEMMA SessionMoves ==
    ASSUME BrowserInv, NEW s \in Browsers,
           NEW b \in BrowserRecord, NEW ch \in ChromeRecord, NEW call \in CallRecord, NEW sh \in ShutRecord,
           browser' = [browser EXCEPT ![s] = b], chrome' = [chrome EXCEPT ![s] = ch],
           ownerCall' = [ownerCall EXCEPT ![s] = call], shut' = [shut EXCEPT ![s] = sh],
           launches' = launches \/ launches' = Append(launches, s),
           alive' \subseteq alive \cup OfSession(s, launches'), isolated' \subseteq isolated \cup OfSession(s, launches'),
           owned' \subseteq owned \cup OfSession(s, launches'),
           raced \subseteq raced', reaper' \in ReaperRecord,
           SoundBrowser(s \notin raced', b, ch, call, sh, OfSession(s, launches'), alive', isolated', owned')
    PROVE  BrowserInv'
  <1>1. /\ browser \in [Browsers -> BrowserRecord] /\ chrome \in [Browsers -> ChromeRecord]
        /\ ownerCall \in [Browsers -> CallRecord] /\ shut \in [Browsers -> ShutRecord] /\ launches \in Seq(Browsers)
        /\ alive \subseteq 1..Len(launches) /\ isolated \subseteq 1..Len(launches) /\ owned \subseteq 1..Len(launches)
    BY DEF BrowserInv, BrowserShape
  <1>2. /\ browser'[s] = b /\ chrome'[s] = ch /\ ownerCall'[s] = call /\ shut'[s] = sh
        /\ \A d \in Browsers \ {s} : browser'[d] = browser[d] /\ chrome'[d] = chrome[d] /\ ownerCall'[d] = ownerCall[d] /\ shut'[d] = shut[d]
    BY <1>1
  <1>3. /\ launches' \in Seq(Browsers) /\ 1..Len(launches) \subseteq 1..Len(launches')
        /\ \A d \in Browsers \ {s} : OfSession(d, launches') = OfSession(d, launches)
    <2>1. CASE launches' = launches  BY <1>1, <2>1
    <2>2. CASE launches' = Append(launches, s)
      <3>1. launches' \in Seq(Browsers) /\ Len(launches') = Len(launches) + 1 /\ Len(launches) \in Nat
            /\ \A d \in Browsers \ {s} : OfSession(d, launches') = OfSession(d, launches)
        BY <1>1, <2>2, Launched
      <3> QED  BY <3>1
    <2> QED  BY <2>1, <2>2
  <1>4. OfSession(s, launches') \subseteq 1..Len(launches')  BY DEF OfSession
  <1>5. \A d \in Browsers \ {s} : OfSession(s, launches') \cap OfSession(d, launches') = {}  BY DEF OfSession
  <1>6. BrowserShape'
    <2>1. IsFiniteSet({d \in Browsers : Live(d)}')
      <3> DEFINE lives == {d \in Browsers : browser[d].state = "live"}
                 livesNow == {d \in Browsers : browser'[d].state = "live"}
      <3>1. IsFiniteSet(lives)  BY DEF BrowserInv, BrowserShape, Live
      <3>2. livesNow \subseteq lives \cup {s}  BY <1>2
      <3> HIDE DEF lives, livesNow
      <3>3. IsFiniteSet(lives \cup {s})  BY <3>1, FS_AddElement
      <3>4. IsFiniteSet(livesNow)  BY <3>2, <3>3, FS_Subset
      <3> QED  BY <3>4 DEF livesNow, Live
    <2>2. alive' \subseteq 1..Len(launches') /\ isolated' \subseteq 1..Len(launches') /\ owned' \subseteq 1..Len(launches')
      BY <1>1, <1>3, <1>4
    <2> QED  BY <1>1, <1>3, <2>1, <2>2 DEF BrowserShape
  <1>7. SessionsSound'
    <2> SUFFICES ASSUME NEW d \in Browsers
                 PROVE  SoundBrowser(d \notin raced', browser'[d], chrome'[d], ownerCall'[d], shut'[d], OfSession(d, launches'), alive', isolated', owned')
      BY DEF SessionsSound
    <2>1. CASE d = s  BY <1>2, <2>1
    <2>2. CASE d # s
      <3> DEFINE of == OfSession(d, launches)
      <3>1. SoundBrowser(d \notin raced, browser[d], chrome[d], ownerCall[d], shut[d], of, alive, isolated, owned)  BY SessionKnown
      <3>2. OfSession(d, launches') = of  BY <1>3, <2>2
      <3>3. alive' \cap of \subseteq alive \cap of /\ isolated' \cap of \subseteq isolated \cap of /\ owned' \cap of \subseteq owned \cap of
        BY <1>5, <2>2, <3>2
      <3> HIDE DEF of
      <3>4. SoundBrowser(d \notin raced', browser[d], chrome[d], ownerCall[d], shut[d], of, alive', isolated', owned')
        BY <3>1, <3>3 DEF SoundBrowser
      <3> QED  BY <1>2, <2>2, <3>2, <3>4
    <2> QED  BY <2>1, <2>2
  <1> QED  BY <1>6, <1>7 DEF BrowserInv

\* Where only the call of a session goes on.
LEMMA CallMovesOn ==
    ASSUME BrowserInv, NEW s \in Browsers, NEW call \in CallRecord, ownerCall' = [ownerCall EXCEPT ![s] = call],
           alive' \subseteq alive, owned' \subseteq owned, reaper' \in ReaperRecord, raced \subseteq raced',
           UNCHANGED <<browser, chrome, launches, isolated, shut>>,
           SoundBrowser(s \notin raced', browser[s], chrome[s], call, shut[s], OfSession(s, launches), alive', isolated, owned')
    PROVE  BrowserInv'
  <1>1. /\ browser \in [Browsers -> BrowserRecord] /\ chrome \in [Browsers -> ChromeRecord] /\ shut \in [Browsers -> ShutRecord]
    BY DEF BrowserInv, BrowserShape
  <1>2. browser' = [browser EXCEPT ![s] = browser[s]] /\ chrome' = [chrome EXCEPT ![s] = chrome[s]] /\ shut' = [shut EXCEPT ![s] = shut[s]]
    BY <1>1
  <1>3. SoundBrowser(s \notin raced', browser[s], chrome[s], call, shut[s], OfSession(s, launches'), alive', isolated', owned')
    OBVIOUS
  <1>4. alive' \subseteq alive \cup OfSession(s, launches') /\ isolated' \subseteq isolated \cup OfSession(s, launches')
        /\ owned' \subseteq owned \cup OfSession(s, launches')
    OBVIOUS
  <1>5. browser[s] \in BrowserRecord /\ chrome[s] \in ChromeRecord /\ shut[s] \in ShutRecord  BY <1>1
  <1> DEFINE b == browser[s]
             ch == chrome[s]
             sh == shut[s]
  <1>6. b \in BrowserRecord /\ ch \in ChromeRecord /\ sh \in ShutRecord  BY <1>5
  <1>7. browser' = [browser EXCEPT ![s] = b] /\ chrome' = [chrome EXCEPT ![s] = ch] /\ shut' = [shut EXCEPT ![s] = sh] /\ launches' = launches
    BY <1>2
  <1>8. SoundBrowser(s \notin raced', b, ch, call, sh, OfSession(s, launches'), alive', isolated', owned')  BY <1>3
  <1> HIDE DEF b, ch, sh
  <1> QED  BY <1>4, <1>6, <1>7, <1>8, SessionMoves

\* Where a process is launched, or is not, for a session that has none.
LEMMA LaunchSound ==
    ASSUME BrowserInv, NEW s \in Browsers, NEW kind \in {"open", "list"}, NEW closed, Launches(s, kind, closed),
           owned' \subseteq owned, UNCHANGED <<browser, shut, reaper, raced>>,
           s \notin raced => alive \cap OfSession(s, launches) = {} /\ browser[s].state # "closed",
           browser[s].state # "closed" \/ shut[s].at = "tabs" => isolated \cap OfSession(s, launches) \subseteq {closed}
    PROVE  BrowserInv'
  <1> DEFINE of == OfSession(s, launches)
  <1>1. /\ browser \in [Browsers -> BrowserRecord] /\ shut \in [Browsers -> ShutRecord] /\ launches \in Seq(Browsers)
        /\ owned \subseteq 1..Len(launches) /\ reaper' \in ReaperRecord
    BY DEF BrowserInv, BrowserShape
  <1>2. /\ SoundBrowser(s \notin raced, browser[s], chrome[s], ownerCall[s], shut[s], of, alive, isolated, owned)
        /\ browser[s] \in BrowserRecord /\ shut[s] \in ShutRecord /\ 0 \notin of
    BY SessionKnown
  <1>3. PICK n \in {0, Len(launches) + 1} :
          /\ launches' = IF n = 0 THEN launches ELSE Append(launches, s)
          /\ alive' = alive \cup ({n} \ {0})
          /\ chrome' = [chrome EXCEPT ![s] = [process |-> n, endpoint |-> n]]
          /\ isolated' = (isolated \ {closed}) \cup ({n} \ {0})
          /\ ownerCall' = [ownerCall EXCEPT ![s] = IF n = 0 THEN NoCall ELSE [at |-> "wait", kind |-> kind, endpoint |-> n]]
    BY DEF Launches
  <1> DEFINE b == browser[s]
             sh == shut[s]
             ch == [process |-> n, endpoint |-> n]
             call == IF n = 0 THEN NoCall ELSE [at |-> "wait", kind |-> kind, endpoint |-> n]
             ofNow == OfSession(s, launches')
  <1>4. Len(launches) \in Nat /\ n \in Nat /\ n \notin 1..Len(launches)  BY <1>1, LenProperties
  <1>5. ch \in ChromeRecord /\ ch.process = n /\ ch.endpoint = n  BY <1>4 DEF ChromeRecord
  <1>6. call \in CallRecord /\ call.endpoint = n /\ call.at \in {"idle", "wait"} /\ (call.at # "idle" => n # 0)
    BY <1>4 DEF CallRecord, NoCall
  <1>7. browser' = [browser EXCEPT ![s] = b] /\ shut' = [shut EXCEPT ![s] = sh] /\ chrome' = [chrome EXCEPT ![s] = ch]
        /\ ownerCall' = [ownerCall EXCEPT ![s] = call]
    BY <1>1, <1>3
  <1>8. (n = 0 => launches' = launches) /\ (n # 0 => launches' = Append(launches, s) /\ n = Len(launches) + 1)  BY <1>3
  <1>9. ofNow = of \cup ({n} \ {0})
    <2>1. CASE n = 0  BY <1>8, <2>1
    <2>2. CASE n # 0
      <3>1. OfSession(s, Append(launches, s)) = OfSession(s, launches) \cup {Len(launches) + 1}  BY <1>1, Launched
      <3> QED  BY <1>8, <2>2, <3>1
    <2> QED  BY <2>1, <2>2
  <1>10. /\ alive' = alive \cup ({n} \ {0}) /\ isolated' = (isolated \ {closed}) \cup ({n} \ {0}) /\ n \notin owned /\ n \notin of
    <2>1. n \notin owned  BY <1>1, <1>4
    <2>2. n \notin of  BY <1>4 DEF OfSession
    <2> QED  BY <1>3, <2>1, <2>2
  <1>11. alive' \subseteq alive \cup ofNow /\ isolated' \subseteq isolated \cup ofNow /\ owned' \subseteq owned \cup ofNow  BY <1>9, <1>10
  <1>12. /\ s \notin raced => alive \cap of = {} /\ b.state # "closed"
         /\ b.state # "closed" \/ sh.at = "tabs" => isolated \cap of \subseteq {closed}
         /\ SoundBrowser(s \notin raced, b, chrome[s], ownerCall[s], sh, of, alive, isolated, owned)
         /\ b \in BrowserRecord /\ sh \in ShutRecord
    BY <1>2
  <1>13. s \notin raced' <=> s \notin raced  OBVIOUS
  <1> HIDE DEF b, sh, ch, call, ofNow, of
  <1>14. SoundBrowser(s \notin raced', b, ch, call, sh, ofNow, alive', isolated', owned')
    BY <1>5, <1>6, <1>9, <1>10, <1>12, <1>13 DEF SoundBrowser
  <1>15. SoundBrowser(s \notin raced', b, ch, call, sh, OfSession(s, launches'), alive', isolated', owned')  BY <1>14 DEF ofNow
  <1>16. /\ alive' \subseteq alive \cup OfSession(s, launches') /\ isolated' \subseteq isolated \cup OfSession(s, launches')
         /\ owned' \subseteq owned \cup OfSession(s, launches')
    BY <1>11 DEF ofNow
  <1>17. (launches' = launches \/ launches' = Append(launches, s)) /\ raced \subseteq raced'  BY <1>8
  <1> QED  BY <1>1, <1>5, <1>6, <1>7, <1>12, <1>15, <1>16, <1>17, SessionMoves

\* Where nothing is known to run and nothing to be isolated.
LEMMA NothingRuns ==
    ASSUME BrowserInv, NEW s \in Browsers, chrome[s].process = 0
    PROVE  /\ s \notin raced => alive \cap OfSession(s, launches) = {}
           /\ browser[s].state # "closed" \/ shut[s].at = "tabs" => isolated \cap OfSession(s, launches) \subseteq {0}
  <1>1. SoundBrowser(s \notin raced, browser[s], chrome[s], ownerCall[s], shut[s], OfSession(s, launches), alive, isolated, owned)
        /\ 0 \notin OfSession(s, launches)
    BY SessionKnown
  <1> QED  BY <1>1 DEF SoundBrowser

LEMMA CallBeginsStep == ASSUME BrowserInv, NEW s \in Browsers, CallBegins(s) PROVE BrowserInv'
  <1>1. /\ browser[s].state = "live" /\ ownerCall[s].at = "idle" /\ UNCHANGED <<browser, targets, owned, shut, reaper, raced>>
    BY DEF CallBegins, Live, At
  <1>2. /\ SoundBrowser(s \notin raced, browser[s], chrome[s], ownerCall[s], shut[s], OfSession(s, launches), alive, isolated, owned)
        /\ chrome[s] \in ChromeRecord /\ reaper' \in ReaperRecord
    BY <1>1, SessionKnown DEF BrowserInv, BrowserShape
  <1>3. PICK kind \in {"open", "list"} :
          IF chrome[s].process \in alive \/ chrome[s].process # 0
          THEN /\ ownerCall' = [ownerCall EXCEPT ![s] = [at |-> IF chrome[s].process \in alive THEN "version" ELSE "reclose",
                                                         kind |-> kind, endpoint |-> chrome[s].endpoint]]
               /\ UNCHANGED <<chrome, launches, alive, isolated>>
          ELSE Launches(s, kind, 0)
    BY DEF CallBegins, NeedsClosing
  <1>4. CASE chrome[s].process \in alive \/ chrome[s].process # 0
    <2> DEFINE call == [at |-> IF chrome[s].process \in alive THEN "version" ELSE "reclose", kind |-> kind, endpoint |-> chrome[s].endpoint]
    <2>1. ownerCall' = [ownerCall EXCEPT ![s] = call] /\ UNCHANGED <<chrome, launches, alive, isolated>>  BY <1>3, <1>4
    <2>2. call \in CallRecord /\ call.at \in {"version", "reclose"} /\ call.endpoint = chrome[s].endpoint
      BY <1>2 DEF CallRecord, ChromeRecord
    <2> HIDE DEF call
    <2>3. SoundBrowser(s \notin raced', browser[s], chrome[s], call, shut[s], OfSession(s, launches), alive', isolated, owned')
      BY <1>1, <1>2, <2>1, <2>2 DEF SoundBrowser
    <2> QED  BY <1>1, <1>2, <2>1, <2>2, <2>3, CallMovesOn
  <1>5. CASE chrome[s].process \notin alive /\ chrome[s].process = 0
    <2>1. Launches(s, kind, 0)  BY <1>3, <1>5
    <2> QED  BY <1>1, <1>5, <2>1, NothingRuns, LaunchSound
  <1> QED  BY <1>4, <1>5

\* A call that goes on at a place, with the endpoint known now or the one it has.
LEMMA CallAt ==
    ASSUME BrowserInv, NEW s \in Browsers, NEW place \in {"asked", "reclose", "reclosed", "unready", "unreadied", "idle"},
           NEW endpoint \in {chrome[s].endpoint, ownerCall[s].endpoint, 0}, endpoint = 0 => place = "idle" \/ chrome[s].endpoint = 0 \/ ownerCall[s].endpoint = 0,
           CallGoes(s, place, endpoint), ownerCall[s].at # "idle"
    PROVE  \E call \in CallRecord :
             /\ ownerCall' = [ownerCall EXCEPT ![s] = call] /\ call.at = place /\ call.endpoint = endpoint
             /\ endpoint \in {0} \cup OfSession(s, launches)
             /\ (browser[s].state # "closed" \/ shut[s].at = "tabs") /\ place # "idle" => endpoint = chrome[s].endpoint
             /\ s \notin raced => browser[s].state # "closed"
  <1>1. /\ ownerCall \in [Browsers -> CallRecord] /\ ownerCall[s] \in CallRecord /\ chrome[s] \in ChromeRecord
        /\ SoundBrowser(s \notin raced, browser[s], chrome[s], ownerCall[s], shut[s], OfSession(s, launches), alive, isolated, owned)
    BY SessionKnown DEF BrowserInv, BrowserShape
  <1> DEFINE call == [ownerCall[s] EXCEPT !.at = place, !.endpoint = endpoint]
  <1>2. ownerCall' = [ownerCall EXCEPT ![s] = call]  BY <1>1 DEF CallGoes
  <1>3. endpoint \in Nat  BY <1>1 DEF CallRecord, ChromeRecord
  <1>4. call \in CallRecord /\ call.at = place /\ call.endpoint = endpoint  BY <1>1, <1>3 DEF CallRecord
  <1> HIDE DEF call
  <1>5. endpoint \in {0} \cup OfSession(s, launches)  BY <1>1 DEF SoundBrowser
  <1>6. (browser[s].state # "closed" \/ shut[s].at = "tabs") /\ place # "idle" => endpoint = chrome[s].endpoint
    BY <1>1 DEF SoundBrowser
  <1>7. s \notin raced => browser[s].state # "closed"  BY <1>1 DEF SoundBrowser
  <1> QED  BY <1>2, <1>4, <1>5, <1>6, <1>7

\* Where a call goes on to a place at which no Chromium is known to have ended.
LEMMA CallGoesOn ==
    ASSUME BrowserInv, NEW s \in Browsers, NEW place \in {"asked", "reclose", "unready", "idle"},
           NEW endpoint \in {chrome[s].endpoint, ownerCall[s].endpoint, 0}, endpoint = 0 => place = "idle" \/ chrome[s].endpoint = 0 \/ ownerCall[s].endpoint = 0,
           CallGoes(s, place, endpoint), ownerCall[s].at # "idle",
           UNCHANGED <<browser, chrome, launches, alive, isolated, owned, shut, reaper, raced>>
    PROVE  BrowserInv'
  <1>1. SoundBrowser(s \notin raced, browser[s], chrome[s], ownerCall[s], shut[s], OfSession(s, launches), alive, isolated, owned)
    BY SessionKnown
  <1>2. reaper' \in ReaperRecord  BY DEF BrowserInv, BrowserShape
  <1>3. PICK call \in CallRecord :
             /\ ownerCall' = [ownerCall EXCEPT ![s] = call] /\ call.at = place /\ call.endpoint = endpoint
             /\ endpoint \in {0} \cup OfSession(s, launches)
             /\ (browser[s].state # "closed" \/ shut[s].at = "tabs") /\ place # "idle" => endpoint = chrome[s].endpoint
             /\ s \notin raced => browser[s].state # "closed"
    BY CallAt
  <1>4. SoundBrowser(s \notin raced', browser[s], chrome[s], call, shut[s], OfSession(s, launches), alive', isolated, owned')
    BY <1>1, <1>3 DEF SoundBrowser
  <1> QED  BY <1>2, <1>3, <1>4, CallMovesOn

LEMMA VersionAnswersStep == ASSUME BrowserInv, NEW s \in Browsers, VersionAnswers(s) PROVE BrowserInv'
  <1>1. /\ ownerCall[s].at = "version" /\ UNCHANGED <<browser, targets, owned, shut, reaper, raced>>
        /\ \/ CallGoes(s, "asked", chrome[s].endpoint) /\ UNCHANGED <<chrome, launches, alive, isolated>>
           \/ CallGoes(s, "reclose", chrome[s].endpoint) /\ UNCHANGED <<chrome, launches, alive, isolated>>
           \/ chrome[s].process = 0 /\ Launches(s, ownerCall[s].kind, 0)
    BY DEF VersionAnswers, NeedsClosing, At
  <1>2. CASE CallGoes(s, "asked", chrome[s].endpoint) /\ UNCHANGED <<chrome, launches, alive, isolated>>
    BY <1>1, <1>2, CallGoesOn
  <1>3. CASE CallGoes(s, "reclose", chrome[s].endpoint) /\ UNCHANGED <<chrome, launches, alive, isolated>>
    BY <1>1, <1>3, CallGoesOn
  <1>4. CASE chrome[s].process = 0 /\ Launches(s, ownerCall[s].kind, 0)
    <2>1. ownerCall[s].kind \in {"open", "list"}  BY SessionKnown DEF CallRecord
    <2>2. s \notin raced => browser[s].state # "closed"
      <3>1. SoundBrowser(s \notin raced, browser[s], chrome[s], ownerCall[s], shut[s], OfSession(s, launches), alive, isolated, owned)
        BY SessionKnown
      <3> QED  BY <1>1, <3>1 DEF SoundBrowser
    <2> QED  BY <1>1, <1>4, <2>1, <2>2, NothingRuns, LaunchSound
  <1> QED  BY <1>1, <1>2, <1>3, <1>4

LEMMA LaunchWaitedStep == ASSUME BrowserInv, NEW s \in Browsers, LaunchWaited(s) PROVE BrowserInv'
  <1>1. /\ ownerCall[s].at = "wait" /\ UNCHANGED <<browser, chrome, launches, alive, isolated, owned, shut, reaper, raced>>
        /\ CallGoes(s, "asked", chrome[s].endpoint) \/ CallGoes(s, "unready", chrome[s].endpoint)
    BY DEF LaunchWaited, At
  <1> QED  BY <1>1, CallGoesOn

LEMMA RequestFailsStep == ASSUME BrowserInv, NEW s \in Browsers, RequestFails(s) PROVE BrowserInv'
  <1>1. /\ ownerCall[s].at = "asked" /\ UNCHANGED <<browser, chrome, launches, alive, isolated, owned, shut, reaper, raced>>
        /\ CallGoes(s, "idle", 0)
    BY DEF RequestFails, At
  <1> QED  BY <1>1, CallGoesOn

\* Where the process of a session is ended within a call.
LEMMA CallEndsChromium ==
    ASSUME BrowserInv, NEW s \in Browsers, NEW place \in {"reclosed", "unreadied"}, ownerCall[s].at \in {"reclose", "unready"},
           ChromeEnds(s, ownerCall[s].endpoint), CallGoes(s, place, ownerCall[s].endpoint), UNCHANGED <<browser, launches, shut, reaper, raced>>
    PROVE  BrowserInv'
  <1> DEFINE of == OfSession(s, launches)
  <1>1. SoundBrowser(s \notin raced, browser[s], chrome[s], ownerCall[s], shut[s], of, alive, isolated, owned)
    BY SessionKnown
  <1>2. reaper' \in ReaperRecord  BY DEF BrowserInv, BrowserShape
  <1>3. PICK call \in CallRecord :
             /\ ownerCall' = [ownerCall EXCEPT ![s] = call] /\ call.at = place /\ call.endpoint = ownerCall[s].endpoint
             /\ ownerCall[s].endpoint \in {0} \cup OfSession(s, launches)
             /\ (browser[s].state # "closed" \/ shut[s].at = "tabs") /\ place # "idle" => ownerCall[s].endpoint = chrome[s].endpoint
             /\ s \notin raced => browser[s].state # "closed"
    BY CallAt
  <1>4. /\ alive' = alive \ {chrome[s].process} /\ owned' \subseteq owned /\ UNCHANGED <<chrome, isolated>>
    BY DEF ChromeEnds, Purged
  <1> HIDE DEF of
  <1>5. SoundBrowser(s \notin raced', browser[s], chrome[s], call, shut[s], of, alive', isolated, owned')
    BY <1>1, <1>3, <1>4 DEF SoundBrowser
  <1> QED  BY <1>2, <1>3, <1>4, <1>5, CallMovesOn DEF of

LEMMA ReclosesStep == ASSUME BrowserInv, NEW s \in Browsers, Recloses(s) PROVE BrowserInv'
  <1>1. CASE At(s, "reclose") /\ ChromeEnds(s, ownerCall[s].endpoint) /\ CallGoes(s, "reclosed", ownerCall[s].endpoint) /\ UNCHANGED launches
    <2>1. ownerCall[s].at \in {"reclose", "unready"} /\ UNCHANGED <<browser, launches, shut, reaper, raced>>
      BY <1>1 DEF At, Recloses
    <2> QED  BY <1>1, <2>1, CallEndsChromium
  <1>2. CASE At(s, "reclosed") /\ Purged(ownerCall[s].endpoint) /\ Launches(s, ownerCall[s].kind, ownerCall[s].endpoint)
    <2>1. ownerCall[s].at = "reclosed" /\ owned' \subseteq owned /\ UNCHANGED <<browser, shut, reaper, raced>>
      BY <1>2 DEF At, Purged, Recloses
    <2>2. SoundBrowser(s \notin raced, browser[s], chrome[s], ownerCall[s], shut[s], OfSession(s, launches), alive, isolated, owned)
          /\ ownerCall[s].kind \in {"open", "list"}
      BY SessionKnown DEF CallRecord
    <2>3. s \notin raced => alive \cap OfSession(s, launches) = {} /\ browser[s].state # "closed"
      BY <2>1, <2>2 DEF SoundBrowser
    <2>4. browser[s].state # "closed" \/ shut[s].at = "tabs" => isolated \cap OfSession(s, launches) \subseteq {ownerCall[s].endpoint}
      BY <2>1, <2>2 DEF SoundBrowser
    <2> QED  BY <1>2, <2>1, <2>2, <2>3, <2>4, LaunchSound
  <1> QED  BY <1>1, <1>2 DEF Recloses

LEMMA GivesUpStep == ASSUME BrowserInv, NEW s \in Browsers, GivesUp(s) PROVE BrowserInv'
  <1>1. CASE At(s, "unready") /\ ChromeEnds(s, ownerCall[s].endpoint) /\ CallGoes(s, "unreadied", ownerCall[s].endpoint)
    <2>1. ownerCall[s].at \in {"reclose", "unready"} /\ UNCHANGED <<browser, launches, shut, reaper, raced>>
      BY <1>1 DEF At, GivesUp
    <2> QED  BY <1>1, <2>1, CallEndsChromium
  <1>2. CASE At(s, "unreadied") /\ ChromeForgotten(s, ownerCall[s].endpoint) /\ CallGoes(s, "idle", 0)
    <2> DEFINE of == OfSession(s, launches)
               b == browser[s]
               sh == shut[s]
               ch == [process |-> 0, endpoint |-> 0]
    <2>1. /\ ownerCall[s].at = "unreadied" /\ owned' \subseteq owned /\ alive' = alive /\ isolated' = isolated \ {ownerCall[s].endpoint}
          /\ chrome' = [chrome EXCEPT ![s] = ch] /\ UNCHANGED <<browser, launches, shut, reaper, raced>>
      BY <1>2 DEF At, Purged, ChromeForgotten, GivesUp
    <2>2. /\ SoundBrowser(s \notin raced, b, chrome[s], ownerCall[s], sh, of, alive, isolated, owned)
          /\ b \in BrowserRecord /\ sh \in ShutRecord /\ reaper' \in ReaperRecord
          /\ browser' = [browser EXCEPT ![s] = b] /\ shut' = [shut EXCEPT ![s] = sh]
      BY <2>1, SessionKnown DEF BrowserInv, BrowserShape
    <2>3. PICK call \in CallRecord : ownerCall' = [ownerCall EXCEPT ![s] = call] /\ call.at = "idle" /\ call.endpoint = 0
      BY <1>2, <2>1, CallAt
    <2>4. ch \in ChromeRecord /\ ch.process = 0 /\ ch.endpoint = 0  BY DEF ChromeRecord
    <2>5. launches' = launches /\ raced \subseteq raced' /\ (s \notin raced' <=> s \notin raced)  BY <2>1
    <2>6. alive' \subseteq alive \cup OfSession(s, launches') /\ isolated' \subseteq isolated \cup OfSession(s, launches')
          /\ owned' \subseteq owned \cup OfSession(s, launches')
      BY <2>1
    <2>7. OfSession(s, launches') = of  BY <2>1
    <2> HIDE DEF of, b, sh, ch
    <2>8. SoundBrowser(s \notin raced', b, ch, call, sh, OfSession(s, launches'), alive', isolated', owned')
      BY <2>1, <2>2, <2>3, <2>4, <2>5, <2>7 DEF SoundBrowser
    <2> QED  BY <2>1, <2>2, <2>3, <2>4, <2>5, <2>6, <2>8, SessionMoves
  <1> QED  BY <1>1, <1>2 DEF GivesUp

\* Where the session and its call change, and its Chromium does not.
LEMMA SessionChanges ==
    ASSUME BrowserInv, NEW s \in Browsers, NEW b \in BrowserRecord, NEW call \in CallRecord, NEW sh \in ShutRecord,
           browser' = [browser EXCEPT ![s] = b], ownerCall' = [ownerCall EXCEPT ![s] = call], shut' = [shut EXCEPT ![s] = sh],
           UNCHANGED <<chrome, launches, alive, isolated>>, owned' \subseteq owned \cup OfSession(s, launches),
           raced \subseteq raced', reaper' \in ReaperRecord,
           SoundBrowser(s \notin raced', b, chrome[s], call, sh, OfSession(s, launches), alive, isolated, owned')
    PROVE  BrowserInv'
  <1> DEFINE ch == chrome[s]
  <1>1. ch \in ChromeRecord /\ chrome' = [chrome EXCEPT ![s] = ch]  BY DEF BrowserInv, BrowserShape
  <1>2. SoundBrowser(s \notin raced', b, ch, call, sh, OfSession(s, launches'), alive', isolated', owned')  OBVIOUS
  <1>3. alive' \subseteq alive \cup OfSession(s, launches') /\ isolated' \subseteq isolated \cup OfSession(s, launches')
        /\ owned' \subseteq owned \cup OfSession(s, launches')
    OBVIOUS
  <1>4. launches' = launches  OBVIOUS
  <1> HIDE DEF ch
  <1> QED  BY <1>1, <1>2, <1>3, <1>4, SessionMoves

LEMMA TouchedTyped ==
    ASSUME NEW b \in BrowserRecord
    PROVE  Touched(b) \in BrowserRecord /\ Touched(b).state = b.state /\ Touched(b).tabs = b.tabs
  BY DEF Touched, BrowserRecord

LEMMA PageAnswersStep == ASSUME BrowserInv, NEW s \in Browsers, PageAnswers(s) PROVE BrowserInv'
  <1> DEFINE of == OfSession(s, launches)
             e == ownerCall[s].endpoint
             opens == ownerCall[s].kind = "open"
             sh == shut[s]
  <1>1. /\ SoundBrowser(s \notin raced, browser[s], chrome[s], ownerCall[s], shut[s], of, alive, isolated, owned)
        /\ browser[s] \in BrowserRecord /\ shut[s] \in ShutRecord /\ reaper' \in ReaperRecord
        /\ browser \in [Browsers -> BrowserRecord] /\ shut' = [shut EXCEPT ![s] = sh]
    BY SessionKnown DEF BrowserInv, BrowserShape, PageAnswers
  <1>2. /\ ownerCall[s].at = "asked" /\ e # 0 /\ UNCHANGED <<chrome, launches, alive, isolated, shut, reaper, raced>>
    BY DEF PageAnswers, At
  <1>3. PICK call \in CallRecord : ownerCall' = [ownerCall EXCEPT ![s] = call] /\ call.at = "idle" /\ call.endpoint = 0
    <2>1. CallGoes(s, "idle", 0)  BY DEF PageAnswers
    <2> QED  BY <1>2, <2>1, CallAt
  <1>4. CASE opens /\ MayAttach(s)
    <2> DEFINE b == Attached(browser[s], e)
    <2>1. owned' = owned \cup {e} /\ browser' = [browser EXCEPT ![s] = b] /\ browser[s].state = "live"
      BY <1>1, <1>4 DEF PageAnswers, MayAttach, Live
    <2>2. e \in of /\ e \in Nat  BY <1>1, <1>2 DEF SoundBrowser, OfSession
    <2>3. b \in BrowserRecord /\ b.state = "live" /\ b.tabs = browser[s].tabs \cup {e}
      <3>1. Touched(browser[s]) \in BrowserRecord /\ Touched(browser[s]).state = "live" /\ browser[s].tabs \subseteq Nat
        BY <1>1, <2>1, TouchedTyped DEF BrowserRecord
      <3>2. Touched(browser[s]).tabs = browser[s].tabs  BY <1>1, TouchedTyped
      <3> QED  BY <2>2, <3>1, <3>2 DEF BrowserRecord, Attached
    <2>4. owned' \subseteq owned \cup OfSession(s, launches)  BY <2>1, <2>2
    <2>5. raced' = raced /\ raced \subseteq raced' /\ sh \in ShutRecord  BY <1>1, <1>2
    <2> HIDE DEF b, of, e, opens
    <2>6. SoundBrowser(s \notin raced', b, chrome[s], call, sh, of, alive, isolated, owned')
      BY <1>1, <1>2, <1>3, <2>1, <2>2, <2>3, <2>5 DEF SoundBrowser
    <2>7. SoundBrowser(s \notin raced', b, chrome[s], call, sh, OfSession(s, launches), alive, isolated, owned')  BY <2>6 DEF of
    <2> HIDE DEF sh
    <2> QED  BY <1>1, <1>2, <1>3, <2>1, <2>3, <2>4, <2>5, <2>7, SessionChanges
  <1>5. CASE ~(opens /\ MayAttach(s))
    <2>1. owned' = owned /\ browser' = IF opens THEN browser ELSE [browser EXCEPT ![s] = Touched(browser[s])]
      BY <1>1, <1>5 DEF PageAnswers
    <2> DEFINE b == IF opens THEN browser[s] ELSE Touched(browser[s])
    <2>2. b \in BrowserRecord /\ b.state = browser[s].state /\ b.tabs = browser[s].tabs /\ browser' = [browser EXCEPT ![s] = b]
      BY <1>1, <2>1, TouchedTyped
    <2>3. raced' = raced /\ raced \subseteq raced' /\ sh \in ShutRecord  BY <1>1, <1>2
    <2>4. owned' \subseteq owned \cup OfSession(s, launches)  BY <2>1
    <2> HIDE DEF b, of, e, opens
    <2>5. SoundBrowser(s \notin raced', b, chrome[s], call, sh, of, alive, isolated, owned')
      BY <1>1, <1>2, <1>3, <2>1, <2>2, <2>3 DEF SoundBrowser
    <2>6. SoundBrowser(s \notin raced', b, chrome[s], call, sh, OfSession(s, launches), alive, isolated, owned')  BY <2>5 DEF of
    <2> HIDE DEF sh
    <2> QED  BY <1>1, <1>2, <1>3, <2>2, <2>3, <2>4, <2>6, SessionChanges
  <1> QED  BY <1>4, <1>5

LEMMA CloseTabStep == ASSUME BrowserInv, NEW s \in Browsers, CloseTab(s) PROVE BrowserInv'
  <1> DEFINE b == browser[s]
             call == ownerCall[s]
             sh == shut[s]
  <1>1. /\ owned' \subseteq owned /\ UNCHANGED <<browser, chrome, launches, alive, isolated, ownerCall, shut, reaper, raced>>
    BY DEF CloseTab
  <1>2. /\ SoundBrowser(s \notin raced, b, chrome[s], call, sh, OfSession(s, launches), alive, isolated, owned)
        /\ b \in BrowserRecord /\ call \in CallRecord /\ sh \in ShutRecord /\ reaper' \in ReaperRecord
        /\ browser' = [browser EXCEPT ![s] = b] /\ ownerCall' = [ownerCall EXCEPT ![s] = call] /\ shut' = [shut EXCEPT ![s] = sh]
    BY <1>1, SessionKnown DEF BrowserInv, BrowserShape
  <1>3. owned' \subseteq owned \cup OfSession(s, launches) /\ raced \subseteq raced'  BY <1>1
  <1> HIDE DEF b, call, sh
  <1>4. SoundBrowser(s \notin raced', b, chrome[s], call, sh, OfSession(s, launches), alive, isolated, owned')
    BY <1>1, <1>2 DEF SoundBrowser
  <1> QED  BY <1>1, <1>2, <1>3, <1>4, SessionChanges

LEMMA TimeRunsOutStep == ASSUME BrowserInv, NEW s \in Browsers, TimeRunsOut(s) PROVE BrowserInv'
  <1>1. PICK over \in {"idle", "lease"} : browser' = [browser EXCEPT ![s].over = over]
    BY DEF TimeRunsOut
  <1> DEFINE b == [browser[s] EXCEPT !.over = over]
             call == ownerCall[s]
             sh == shut[s]
  <1>2. UNCHANGED <<chrome, launches, alive, isolated, targets, owned, ownerCall, shut, reaper, raced>>
    BY DEF TimeRunsOut
  <1>3. /\ SoundBrowser(s \notin raced, browser[s], chrome[s], call, sh, OfSession(s, launches), alive, isolated, owned)
        /\ browser[s] \in BrowserRecord /\ call \in CallRecord /\ sh \in ShutRecord /\ reaper' \in ReaperRecord
        /\ ownerCall' = [ownerCall EXCEPT ![s] = call] /\ shut' = [shut EXCEPT ![s] = sh]
    BY <1>2, SessionKnown DEF BrowserInv, BrowserShape
  <1>4. browser' = [browser EXCEPT ![s] = b]  BY <1>1 DEF BrowserInv, BrowserShape
  <1>5. b \in BrowserRecord /\ b.state = browser[s].state /\ b.tabs = browser[s].tabs  BY <1>3 DEF BrowserRecord
  <1>6. owned' \subseteq owned \cup OfSession(s, launches) /\ raced \subseteq raced'  BY <1>2
  <1> HIDE DEF b, call, sh
  <1>7. SoundBrowser(s \notin raced', b, chrome[s], call, sh, OfSession(s, launches), alive, isolated, owned')
    BY <1>2, <1>3, <1>5 DEF SoundBrowser
  <1> QED  BY <1>2, <1>3, <1>4, <1>5, <1>6, <1>7, SessionChanges

LEMMA StartBrowserStep == ASSUME BrowserInv, NEW s \in Browsers, StartBrowser(s) PROVE BrowserInv'
  <1> DEFINE b == [browser[s] EXCEPT !.state = "live"]
             call == ownerCall[s]
             sh == shut[s]
  <1>1. /\ browser[s].state = "none" /\ browser' = [browser EXCEPT ![s] = b]
        /\ UNCHANGED <<chrome, launches, alive, isolated, targets, owned, ownerCall, shut, raced>>
    BY DEF StartBrowser, BrowserInv, BrowserShape
  <1>2. reaper' \in ReaperRecord
    <2>1. reaper \in ReaperRecord  BY DEF BrowserInv, BrowserShape
    <2> QED  BY <2>1 DEF ReaperRecord, StartBrowser
  <1>3. /\ SoundBrowser(s \notin raced, browser[s], chrome[s], call, sh, OfSession(s, launches), alive, isolated, owned)
        /\ browser[s] \in BrowserRecord /\ call \in CallRecord /\ sh \in ShutRecord
        /\ ownerCall' = [ownerCall EXCEPT ![s] = call] /\ shut' = [shut EXCEPT ![s] = sh]
    BY <1>1, SessionKnown DEF BrowserInv, BrowserShape
  <1>4. b \in BrowserRecord /\ b.state = "live" /\ b.tabs = browser[s].tabs  BY <1>3 DEF BrowserRecord
  <1>5. owned' \subseteq owned \cup OfSession(s, launches) /\ raced \subseteq raced'  BY <1>1
  <1> HIDE DEF b, call, sh
  <1>6. SoundBrowser(s \notin raced', b, chrome[s], call, sh, OfSession(s, launches), alive, isolated, owned')
    BY <1>1, <1>3, <1>4 DEF SoundBrowser
  <1> QED  BY <1>1, <1>2, <1>3, <1>4, <1>5, <1>6, SessionChanges

\* A session that leaves the table, whoever closes it.
LEMMA ShutBeginsSound ==
    ASSUME BrowserInv, NEW s \in Browsers, Live(s), ShutBegins(s), reaper' \in ReaperRecord,
           UNCHANGED <<chrome, launches, alive, isolated, targets, owned, ownerCall>>
    PROVE  BrowserInv'
  <1> DEFINE b == [browser[s] EXCEPT !.state = "closed"]
             call == ownerCall[s]
             sh == [at |-> "tabs", endpoint |-> 0]
  <1>1. /\ browser[s].state = "live" /\ browser' = [browser EXCEPT ![s] = b] /\ shut' = [shut EXCEPT ![s] = sh]
        /\ raced' = IF call.at = "idle" THEN raced ELSE raced \cup {s}
    BY DEF Live, ShutBegins, At, BrowserInv, BrowserShape
  <1>2. /\ SoundBrowser(s \notin raced, browser[s], chrome[s], call, shut[s], OfSession(s, launches), alive, isolated, owned)
        /\ browser[s] \in BrowserRecord /\ call \in CallRecord /\ ownerCall' = [ownerCall EXCEPT ![s] = call]
    BY SessionKnown DEF BrowserInv, BrowserShape
  <1>3. b \in BrowserRecord /\ b.state = "closed" /\ b.tabs = browser[s].tabs  BY <1>2 DEF BrowserRecord
  <1>4. sh \in ShutRecord /\ sh.at = "tabs"  BY DEF ShutRecord
  <1>5. owned' \subseteq owned \cup OfSession(s, launches) /\ raced \subseteq raced' /\ owned' = owned  BY <1>1
  <1>6. s \notin raced' => s \notin raced /\ call.at = "idle"  BY <1>1
  <1> HIDE DEF b, call, sh
  <1>7. SoundBrowser(s \notin raced', b, chrome[s], call, sh, OfSession(s, launches), alive, isolated, owned')
    BY <1>1, <1>2, <1>3, <1>4, <1>5, <1>6 DEF SoundBrowser
  <1> QED  BY <1>1, <1>2, <1>3, <1>4, <1>5, <1>7, SessionChanges

LEMMA OwnerClosesStep == ASSUME BrowserInv, NEW s \in Browsers, OwnerCloses(s) PROVE BrowserInv'
  <1>1. /\ Live(s) /\ ShutBegins(s) /\ UNCHANGED <<chrome, launches, alive, isolated, targets, owned, ownerCall, reaper>>
    BY DEF OwnerCloses
  <1>2. reaper' \in ReaperRecord  BY <1>1 DEF BrowserInv, BrowserShape
  <1> QED  BY <1>1, <1>2, ShutBeginsSound

LEMMA ToolReapsStep == ASSUME BrowserInv, NEW s \in Browsers, ToolReaps(s) PROVE BrowserInv'
  <1>1. /\ Live(s) /\ ShutBegins(s) /\ UNCHANGED <<chrome, launches, alive, isolated, targets, owned, ownerCall, reaper>>
    BY DEF ToolReaps, TimedOut
  <1>2. reaper' \in ReaperRecord  BY <1>1 DEF BrowserInv, BrowserShape
  <1> QED  BY <1>1, <1>2, ShutBeginsSound

LEMMA TabsShutStep == ASSUME BrowserInv, NEW s \in Browsers, TabsShut(s) PROVE BrowserInv'
  <1> DEFINE b == browser[s]
             call == ownerCall[s]
             sh == [at |-> "sockets", endpoint |-> chrome[s].endpoint]
             of == OfSession(s, launches)
  <1>1. /\ shut[s].at = "tabs" /\ shut' = [shut EXCEPT ![s] = sh]
        /\ IF chrome[s].endpoint # 0 THEN owned' = owned \ b.tabs ELSE owned' = owned
        /\ UNCHANGED <<browser, chrome, launches, alive, isolated, ownerCall, reaper, raced>>
    BY DEF TabsShut
  <1>2. /\ SoundBrowser(s \notin raced, b, chrome[s], call, shut[s], of, alive, isolated, owned) /\ 0 \notin of
        /\ b \in BrowserRecord /\ call \in CallRecord /\ reaper' \in ReaperRecord /\ chrome[s] \in ChromeRecord
        /\ browser' = [browser EXCEPT ![s] = b] /\ ownerCall' = [ownerCall EXCEPT ![s] = call]
    BY <1>1, SessionKnown DEF BrowserInv, BrowserShape
  <1>3. sh \in ShutRecord /\ sh.at = "sockets"  BY <1>2 DEF ShutRecord, ChromeRecord
  <1>4. owned' \subseteq owned \cup OfSession(s, launches) /\ raced \subseteq raced' /\ owned' \subseteq owned  BY <1>1
  <1> HIDE DEF b, call, sh, of
  <1>5. owned' \cap of \cap isolated = {}
    BY <1>1, <1>2 DEF SoundBrowser
  <1>6. SoundBrowser(s \notin raced', b, chrome[s], call, sh, of, alive, isolated, owned')
    BY <1>1, <1>2, <1>3, <1>4, <1>5 DEF SoundBrowser
  <1>7. SoundBrowser(s \notin raced', b, chrome[s], call, sh, OfSession(s, launches), alive, isolated, owned')  BY <1>6 DEF of
  <1> QED  BY <1>1, <1>2, <1>3, <1>4, <1>7, SessionChanges

LEMMA ProcessShutStep == ASSUME BrowserInv, NEW s \in Browsers, ProcessShut(s) PROVE BrowserInv'
  <1> DEFINE b == browser[s]
             call == ownerCall[s]
             of == OfSession(s, launches)
  <1>1. UNCHANGED <<browser, launches, ownerCall, reaper, raced>>  BY DEF ProcessShut
  <1>2. /\ SoundBrowser(s \notin raced, b, chrome[s], call, shut[s], of, alive, isolated, owned) /\ 0 \notin of
        /\ b \in BrowserRecord /\ call \in CallRecord /\ reaper' \in ReaperRecord /\ chrome[s] \in ChromeRecord /\ shut[s] \in ShutRecord
        /\ browser' = [browser EXCEPT ![s] = b] /\ ownerCall' = [ownerCall EXCEPT ![s] = call]
    BY <1>1, SessionKnown DEF BrowserInv, BrowserShape
  <1>3. launches' = launches /\ raced \subseteq raced' /\ OfSession(s, launches') = of /\ (s \notin raced' <=> s \notin raced)  BY <1>1
  <1>4. CASE shut[s].at = "sockets" /\ ChromeEnds(s, shut[s].endpoint) /\ shut' = [shut EXCEPT ![s].at = "process"]
    <2> DEFINE sh == [shut[s] EXCEPT !.at = "process"]
               ch == chrome[s]
    <2>1. /\ owned' \subseteq owned /\ alive' = alive \ {ch.process} /\ chrome' = [chrome EXCEPT ![s] = ch] /\ isolated' = isolated
          /\ shut' = [shut EXCEPT ![s] = sh]
      BY <1>4 DEF ChromeEnds, Purged, BrowserInv, BrowserShape
    <2>2. sh \in ShutRecord /\ sh.at = "process" /\ ch \in ChromeRecord  BY <1>2 DEF ShutRecord
    <2>3. /\ alive' \subseteq alive \cup OfSession(s, launches') /\ isolated' \subseteq isolated \cup OfSession(s, launches')
          /\ owned' \subseteq owned \cup OfSession(s, launches')
      BY <2>1
    <2>4. SoundBrowser(s \notin raced, b, ch, call, shut[s], of, alive, isolated, owned)  BY <1>2
    <2> HIDE DEF b, call, sh, of, ch
    <2>5. SoundBrowser(s \notin raced', b, ch, call, sh, OfSession(s, launches'), alive', isolated', owned')
      BY <1>3, <1>4, <2>1, <2>2, <2>4 DEF SoundBrowser
    <2> QED  BY <1>2, <1>3, <2>1, <2>2, <2>3, <2>5, SessionMoves
  <1>5. CASE shut[s].at = "process" /\ ChromeForgotten(s, shut[s].endpoint) /\ shut' = [shut EXCEPT ![s] = NoShut]
    <2> DEFINE sh == NoShut
               ch == [process |-> 0, endpoint |-> 0]
    <2>1. /\ owned' \subseteq owned /\ alive' = alive /\ chrome' = [chrome EXCEPT ![s] = ch] /\ isolated' \subseteq isolated
          /\ shut' = [shut EXCEPT ![s] = sh]
      BY <1>5 DEF ChromeForgotten, Purged
    <2>2. sh \in ShutRecord /\ sh.at = "none" /\ ch \in ChromeRecord /\ ch.process = 0 /\ ch.endpoint = 0
      BY DEF ShutRecord, ChromeRecord, NoShut
    <2>3. /\ alive' \subseteq alive \cup OfSession(s, launches') /\ isolated' \subseteq isolated \cup OfSession(s, launches')
          /\ owned' \subseteq owned \cup OfSession(s, launches')
      BY <2>1
    <2> HIDE DEF b, call, sh, of, ch
    <2>4. SoundBrowser(s \notin raced', b, ch, call, sh, OfSession(s, launches'), alive', isolated', owned')
      BY <1>2, <1>3, <1>5, <2>1, <2>2 DEF SoundBrowser
    <2> QED  BY <1>2, <1>3, <2>1, <2>2, <2>3, <2>4, SessionMoves
  <1> QED  BY <1>4, <1>5 DEF ProcessShut

LEMMA ReaperClosesStep == ASSUME BrowserInv, ReaperCloses PROVE BrowserInv'
  <1> DEFINE s == Head(reaper.found)
  <1>1. /\ reaper.found # <<>> /\ UNCHANGED <<chrome, launches, alive, isolated, targets, owned, ownerCall>>
        /\ \/ Live(s) /\ ShutBegins(s) /\ reaper' = [reaper EXCEPT !.closes = TRUE]
           \/ reaper' = ReaperGoesOn /\ UNCHANGED <<browser, shut, raced>>
    BY DEF ReaperCloses
  <1>2. reaper \in ReaperRecord /\ reaper.found \in Seq(Browsers)  BY DEF BrowserInv, BrowserShape, ReaperRecord
  <1>3. s \in Browsers /\ Tail(reaper.found) \in Seq(Browsers)  BY <1>1, <1>2, HeadTailProperties
  <1>4. reaper' \in ReaperRecord
    <2>1. [reaper EXCEPT !.closes = TRUE] \in ReaperRecord  BY <1>2 DEF ReaperRecord
    <2>2. ReaperGoesOn \in ReaperRecord  BY <1>2, <1>3 DEF ReaperRecord, ReaperGoesOn
    <2> QED  BY <1>1, <2>1, <2>2
  <1>5. CASE Live(s) /\ ShutBegins(s)
    <2> HIDE DEF s
    <2> QED  BY <1>1, <1>3, <1>4, <1>5, ShutBeginsSound
  <1>6. CASE UNCHANGED <<browser, shut, raced>>
    <2> HIDE DEF s
    <2> QED  BY <1>1, <1>4, <1>6 DEF BrowserInv, BrowserShape, SessionsSound, Live
  <1> QED  BY <1>1, <1>5, <1>6

\* A finite set can be gone through.
LEMMA SetToSeqTyped == ASSUME NEW S, IsFiniteSet(S) PROVE SetToSeq(S) \in Seq(S)
  <1>1. Cardinality(S) \in Nat /\ ExistsBijection(1..Cardinality(S), S)  BY FS_CardinalityType
  <1>2. PICK f \in Bijection(1..Cardinality(S), S) : TRUE  BY <1>1 DEF ExistsBijection
  <1>3. f \in [1..Cardinality(S) -> S] /\ IsInjective(f)  BY <1>2 DEF Bijection, Injection, IsInjective
  <1>4. SetToSeq(S) \in [1..Cardinality(S) -> S]  BY <1>3 DEF SetToSeq
  <1> QED  BY <1>1, <1>4, SeqDef

LEMMA ReaperScansStep == ASSUME BrowserInv, ReaperScans PROVE BrowserInv'
  <1>1. /\ reaper' = [reaper EXCEPT !.found = SetToSeq(TimedOut)]
        /\ UNCHANGED <<browser, chrome, launches, alive, isolated, targets, owned, ownerCall, shut, raced>>
    BY DEF ReaperScans
  <1>2. SetToSeq(TimedOut) \in Seq(Browsers)
    <2>1. TimedOut \subseteq {d \in Browsers : Live(d)} /\ TimedOut \subseteq Browsers  BY DEF TimedOut
    <2>2. IsFiniteSet({d \in Browsers : Live(d)})  BY DEF BrowserInv, BrowserShape
    <2>3. IsFiniteSet(TimedOut)
      <3> DEFINE lives == {d \in Browsers : Live(d)}
      <3>1. IsFiniteSet(lives) /\ TimedOut \subseteq lives  BY <2>1, <2>2
      <3> HIDE DEF lives
      <3> QED  BY <3>1, FS_Subset
    <2>4. SetToSeq(TimedOut) \in Seq(TimedOut)  BY <2>3, SetToSeqTyped
    <2> QED  BY <2>1, <2>4
  <1>3. reaper' \in ReaperRecord
    <2> DEFINE found == SetToSeq(TimedOut)
    <2>1. found \in Seq(Browsers) /\ reaper' = [reaper EXCEPT !.found = found]  BY <1>1, <1>2
    <2>2. reaper \in ReaperRecord  BY DEF BrowserInv, BrowserShape
    <2> HIDE DEF found
    <2> QED  BY <2>1, <2>2 DEF ReaperRecord
  <1> QED  BY <1>1, <1>3 DEF BrowserInv, BrowserShape, SessionsSound, Live

\* Every session is closed, whatever its call does, and what was cut short counts as raced.
LEMMA CloseBrowserStep == ASSUME BrowserInv, CloseBrowser PROVE BrowserInv'
  <1> DEFINE cut == IF reaper.closes THEN {d \in {Head(reaper.found)} : shut[d].at # "none"} ELSE {}
  <1>1. /\ shut' = [d \in Browsers |-> IF Live(d) THEN [at |-> "tabs", endpoint |-> 0] ELSE IF d \in cut THEN NoShut ELSE shut[d]]
        /\ browser' = [d \in Browsers |-> IF Live(d) THEN [browser[d] EXCEPT !.state = "closed"] ELSE browser[d]]
        /\ raced' = raced \cup cut \cup {d \in Browsers : Live(d) /\ ~At(d, "idle")}
        /\ owned' = {} /\ UNCHANGED <<chrome, launches, alive, isolated, ownerCall>>
        /\ reaper' = [reaper EXCEPT !.runs = FALSE, !.found = <<>>, !.closes = FALSE]
    BY DEF CloseBrowser
  <1> HIDE DEF cut
  <1>2. ASSUME NEW d \in Browsers
        PROVE  /\ browser'[d] \in BrowserRecord /\ shut'[d] \in ShutRecord /\ browser'[d].state # "live"
               /\ SoundBrowser(d \notin raced', browser'[d], chrome[d], ownerCall[d], shut'[d], OfSession(d, launches), alive, isolated, owned')
    <2> DEFINE of == OfSession(d, launches)
               ch == chrome[d]
               call == ownerCall[d]
    <2>1. /\ SoundBrowser(d \notin raced, browser[d], ch, call, shut[d], of, alive, isolated, owned)
          /\ browser[d] \in BrowserRecord /\ shut[d] \in ShutRecord
      BY SessionKnown
    <2> HIDE DEF of, ch
    <2>2. CASE Live(d)
      <3> DEFINE b == [browser[d] EXCEPT !.state = "closed"]
                 sh == [at |-> "tabs", endpoint |-> 0]
      <3>1. browser'[d] = b /\ shut'[d] = sh /\ browser[d].state = "live"  BY <1>1, <2>2 DEF Live
      <3>2. b \in BrowserRecord /\ b.state = "closed" /\ b.tabs = browser[d].tabs  BY <2>1 DEF BrowserRecord
      <3>3. sh \in ShutRecord /\ sh.at = "tabs"  BY DEF ShutRecord
      <3>4. d \notin raced' => d \notin raced /\ call.at = "idle"  BY <1>1, <2>2 DEF At
      <3>5. owned' = {}  BY <1>1
      <3> HIDE DEF b, sh, call
      <3>6. SoundBrowser(d \notin raced', b, ch, call, sh, of, alive, isolated, owned')
        BY <2>1, <3>1, <3>2, <3>3, <3>4, <3>5 DEF SoundBrowser
      <3> QED  BY <3>1, <3>2, <3>3, <3>6 DEF of, ch, call
    <2>3. CASE ~Live(d)
      <3> DEFINE b == browser[d]
                 sh == IF d \in cut THEN NoShut ELSE shut[d]
      <3>1. browser'[d] = b /\ shut'[d] = sh /\ b.state # "live"  BY <1>1, <2>3 DEF Live
      <3>2. sh \in ShutRecord /\ sh.at \in {"none", shut[d].at}  BY <2>1 DEF ShutRecord, NoShut
      <3>3. d \notin raced' => d \notin raced /\ sh = shut[d]  BY <1>1
      <3>4. owned' = {}  BY <1>1
      <3>5. b.state \in {"none", "live", "closed"} /\ (sh.at = "tabs" => shut[d].at = "tabs")  BY <2>1, <3>2 DEF BrowserRecord
      <3>6. SoundBrowser(d \notin raced, b, ch, call, shut[d], of, alive, isolated, owned)  BY <2>1
      <3> HIDE DEF b, sh, call
      <3>7. SoundBrowser(d \notin raced', b, ch, call, sh, of, alive, isolated, owned')
        BY <3>1, <3>2, <3>3, <3>4, <3>5, <3>6 DEF SoundBrowser
      <3> QED  BY <2>1, <3>1, <3>2, <3>7 DEF of, ch, call, b
    <2> QED  BY <2>2, <2>3
  <1>3. BrowserShape'
    <2>1. browser' \in [Browsers -> BrowserRecord] /\ shut' \in [Browsers -> ShutRecord]
      <3>1. DOMAIN browser' = Browsers /\ browser' = [d \in Browsers |-> browser'[d]]  BY <1>1
      <3>2. DOMAIN shut' = Browsers /\ shut' = [d \in Browsers |-> shut'[d]]  BY <1>1
      <3> QED  BY <1>2, <3>1, <3>2
    <2>2. reaper' \in ReaperRecord
      <3>1. reaper \in ReaperRecord /\ <<>> \in Seq(Browsers)  BY EmptySeq DEF BrowserInv, BrowserShape
      <3> QED  BY <1>1, <3>1 DEF ReaperRecord
    <2>3. IsFiniteSet({d \in Browsers : Live(d)}')
      <3>1. {d \in Browsers : Live(d)}' = {}  BY <1>2 DEF Live
      <3> QED  BY <3>1, FS_EmptySet
    <2> QED  BY <1>1, <2>1, <2>2, <2>3 DEF BrowserInv, BrowserShape
  <1>4. SessionsSound'  BY <1>1, <1>2 DEF SessionsSound
  <1> QED  BY <1>3, <1>4 DEF BrowserInv

\* The invariant is kept by every step.
LEMMA BrowserStep == ASSUME BrowserInv, [BrowserNext]_browserVars PROVE BrowserInv'
  <1>1. CASE UNCHANGED browserVars
    BY <1>1 DEF browserVars, BrowserInv, BrowserShape, SessionsSound, Live
  <1>2. ASSUME NEW s \in Browsers, StartBrowser(s) \/ TimeRunsOut(s) \/ CallBegins(s) \/ CloseTab(s) \/ OwnerCloses(s) \/ ToolReaps(s)
        PROVE  BrowserInv'
    BY <1>2, StartBrowserStep, TimeRunsOutStep, CallBeginsStep, CloseTabStep, OwnerClosesStep, ToolReapsStep
  <1>3. ASSUME NEW s \in Browsers, CallStep(s) PROVE BrowserInv'
    BY <1>3, VersionAnswersStep, ReclosesStep, LaunchWaitedStep, GivesUpStep, PageAnswersStep, RequestFailsStep DEF CallStep
  <1>4. ASSUME NEW s \in Browsers, ShutStep(s) PROVE BrowserInv'
    BY <1>4, TabsShutStep, ProcessShutStep DEF ShutStep
  <1>5. CASE ReaperScans \/ ReaperCloses \/ CloseBrowser
    BY <1>5, ReaperScansStep, ReaperClosesStep, CloseBrowserStep
  <1> QED  BY <1>1, <1>2, <1>3, <1>4, <1>5 DEF BrowserNext

LEMMA BrowserInvImplies == BrowserInv => BrowserSound
  <1> SUFFICES ASSUME BrowserInv PROVE BrowserSound
    OBVIOUS
  <1>1. launches \in Seq(Browsers) /\ alive \subseteq 1..Len(launches) /\ owned \subseteq 1..Len(launches)
    BY DEF BrowserInv, BrowserShape
  <1>2. DrivableIsLive
    <2> SUFFICES ASSUME NEW e \in targets \cap owned \cap isolated PROVE Live(launches[e]) \/ shut[launches[e]].at # "none"
      BY DEF DrivableIsLive
    <2> DEFINE s == launches[e]
    <2>1. s \in Browsers /\ e \in OfSession(s, launches)  BY <1>1, ElementOfSeq DEF OfSession
    <2> HIDE DEF s
    <2>2. SoundBrowser(s \notin raced, browser[s], chrome[s], ownerCall[s], shut[s], OfSession(s, launches), alive, isolated, owned)
          /\ browser[s].state \in {"none", "live", "closed"}
      BY <2>1, SessionKnown DEF BrowserRecord
    <2>3. browser[s].state = "live" \/ shut[s].at # "none"  BY <2>1, <2>2 DEF SoundBrowser
    <2> QED  BY <2>3 DEF s, Live
  <1>3. ChromiumIsKnown
    <2> SUFFICES ASSUME NEW s \in Browsers \ raced
                 PROVE  /\ {e \in alive : launches[e] = s} \subseteq {chrome[s].process}
                        /\ (browser[s].state = "closed" /\ shut[s].at = "none" => {e \in alive : launches[e] = s} = {})
      BY DEF ChromiumIsKnown
    <2>1. {e \in alive : launches[e] = s} = alive \cap OfSession(s, launches)  BY <1>1 DEF OfSession
    <2>2. SoundBrowser(TRUE, browser[s], chrome[s], ownerCall[s], shut[s], OfSession(s, launches), alive, isolated, owned)
      BY SessionKnown
    <2> QED  BY <2>1, <2>2 DEF SoundBrowser
  <1> QED  BY <1>2, <1>3 DEF BrowserSound

\* No answer that comes late opens a way back into a session that was closed, and the Chromiums
\* that run are those of open sessions, one each, unless the closing of a session met a call of
\* it: for any number of sessions, calls and closings in any order.
THEOREM BrowsersHeld == BrowserSpec => []BrowserSound
  BY BrowserInitial, BrowserStep, BrowserInvImplies, PTL DEF BrowserSpec
=============================================================================
