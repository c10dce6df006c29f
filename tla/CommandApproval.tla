---------------------------- MODULE CommandApproval ----------------------------
(***************************************************************************)
(* Approval of guarded commands and browser actions                        *)
(* (emery/command_approval.py, /clear in emery/bot.py).                    *)
(*                                                                         *)
(* A request stands at                                                     *)
(*   idle     not made yet                                                 *)
(*   sending  registered; its prompt is on the way to the chat             *)
(*   waiting  waits for the future, with a timeout                         *)
(*   timed    its timeout fired and its task has not resumed yet           *)
(*   over     returned to the command                                      *)
(* Everything runs on one event loop; a step is the code between two       *)
(* suspensions.                                                            *)
(***************************************************************************)
EXTENDS Naturals

CONSTANTS
    Users,        \* users of the bot
    NoUser,       \* user_id None: nobody can answer such a request
    Askers,       \* who asks, where and for what: records [user, chat, key]
    MaxRequests,  \* bound: requests made
    MaxRestarts,  \* bound: restarts of the bot
    DiskErrors    \* whether the file of grants may fail to be read or written

ASSUME ApprovalAssumption ==
    /\ NoUser \notin Users
    /\ \A a \in Askers : {"user", "chat", "key"} = DOMAIN a /\ a.user \in Users \cup {NoUser}
    /\ MaxRequests \in Nat /\ MaxRestarts \in Nat /\ DiskErrors \in BOOLEAN

VARIABLES
    req,         \* the requests, with the entries of _PENDING_APPROVALS
    session,     \* _SESSION_APPROVALS
    forever,     \* _FOREVER_APPROVALS
    loaded,      \* _FOREVER_APPROVALS_LOADED
    disk,        \* the grants of approval_grants.json
    restarts

approvalVars == <<req, session, forever, loaded, disk, restarts>>

Requests == 1..MaxRequests
Approvals == {"once", "session", "forever"}
Decisions == Approvals \cup {"deny"}

\* entry: in _PENDING_APPROVALS; late: past expires_at; decision: the result of
\* the future.  History: chosen is what the owner pressed, told what the answer
\* to him says; live: his session grant was not cleared.
NoApproval == [at |-> "idle", asker |-> NoUser, entry |-> FALSE, late |-> FALSE,
         decision |-> "none", outcome |-> "none",
         chosen |-> "none", told |-> "none", live |-> FALSE]

ApprovalInit ==
    /\ req = [r \in Requests |-> NoApproval]
    /\ session = {} /\ forever = {} /\ disk = {}
    /\ loaded = FALSE
    /\ restarts = 0

-----------------------------------------------------------------------------
(* Grants *)

\* The key of a grant for ever has no chat.
Lasting(a) == [user |-> a.user, key |-> a.key]

\* Seeded fault: a session grant of one chat serves the user in every chat.
StoredDecision_AnyChat(a, lasting) ==
    Lasting(a) \in lasting \/ \E g \in session : Lasting(g) = Lasting(a)
\* _stored_decision
StoredDecision(a, lasting) == Lasting(a) \in lasting \/ a \in session

\* _load_forever_approvals: the grants in memory after it.
Loads(after) ==
    \/ loaded /\ after = forever /\ UNCHANGED loaded
    \/ ~loaded /\ after = forever \cup disk /\ loaded' = TRUE
    \/ DiskErrors /\ ~loaded /\ after = forever /\ loaded' = TRUE

-----------------------------------------------------------------------------
(* request_command_approval *)

Ask(r, a) ==
    /\ req[r].at = "idle" /\ \A q \in Requests : q < r => req[q].at # "idle"
    /\ Loads(forever')
    /\ req' = [req EXCEPT ![r] =
         IF StoredDecision(a, forever')
         THEN [@ EXCEPT !.at = "over", !.asker = a, !.outcome = "approved"]
         ELSE [@ EXCEPT !.at = "sending", !.asker = a, !.entry = TRUE]]
    /\ UNCHANGED <<session, disk, restarts>>

Sent(r) ==
    /\ req[r].at = "sending"
    /\ \/ req' = [req EXCEPT ![r].at = "waiting"]
       \/ req' = [req EXCEPT ![r].at = "over", ![r].entry = FALSE, ![r].outcome = "unavailable"]
    /\ UNCHANGED <<session, forever, loaded, disk, restarts>>

\* expires_at passes.
Passes(r) ==
    /\ req[r].at \in {"sending", "waiting"} /\ ~req[r].late
    /\ req' = [req EXCEPT ![r].late = TRUE]
    /\ UNCHANGED <<session, forever, loaded, disk, restarts>>

\* The wait began after expires_at was set, so it ends later; a prompt is sent
\* in more time than the loop needs to hand over a result.
TimesOut(r) ==
    /\ req[r].at = "waiting" /\ req[r].late /\ req[r].decision = "none"
    /\ req' = [req EXCEPT ![r].at = "timed"]
    /\ UNCHANGED <<session, forever, loaded, disk, restarts>>

\* Seeded fault: a result that denies is taken for none.
Decision_Truthy(r) == IF req[r].decision = "deny" THEN "none" ELSE req[r].decision
Decision(r) == req[r].decision

Returns(r) ==
    /\ \/ req[r].at = "timed"
       \/ req[r].at = "waiting" /\ Decision(r) # "none"
    /\ req' = [req EXCEPT ![r].at = "over", ![r].entry = FALSE,
         ![r].outcome = IF req[r].at = "timed" THEN "expired"
                        ELSE IF Decision(r) \in Approvals THEN "approved" ELSE "denied"]
    /\ UNCHANGED <<session, forever, loaded, disk, restarts>>

-----------------------------------------------------------------------------
(* resolve_command_approval: a button or /approve, at any time *)

MayAnswer(r, user) == req[r].asker.user = user

\* Seeded fault: expires_at is not looked at.
Expired_Never(r) == FALSE
Expired(r) == req[r].late

AnswerLate(r, user) ==
    /\ req[r].entry /\ MayAnswer(r, user) /\ Expired(r)
    /\ req' = [req EXCEPT ![r].entry = FALSE,
                          ![r].decision = IF @ = "none" THEN "deny" ELSE @]
    /\ UNCHANGED <<session, forever, loaded, disk, restarts>>

Answerable(r, user) ==
    req[r].entry /\ MayAnswer(r, user) /\ ~Expired(r) /\ req[r].decision = "none"

Decided(r, user, pressed, recorded) ==
    req' = [req EXCEPT ![r].decision = recorded, ![r].told = recorded,
                       ![r].chosen = IF user = req[r].asker.user THEN pressed ELSE @,
                       ![r].live = pressed = "session"]

\* _save_forever_approvals
Saved(r, grants) == grants

PressAnswer(r, user, pressed) ==
    /\ Answerable(r, user)
    /\ \/ /\ pressed \in {"deny", "once"}
          /\ Decided(r, user, pressed, pressed)
          /\ UNCHANGED <<session, forever, loaded, disk>>
       \/ /\ pressed = "session"
          /\ session' = session \cup {req[r].asker}
          /\ Decided(r, user, pressed, pressed)
          /\ UNCHANGED <<forever, loaded, disk>>
       \/ /\ pressed = "forever"
          /\ forever' = forever \cup {Lasting(req[r].asker)}   \* loaded by the request
          /\ \/ disk' = Saved(r, forever') /\ Decided(r, user, pressed, "forever")
             \/ DiskErrors /\ UNCHANGED disk /\ Decided(r, user, pressed, "once")
          /\ UNCHANGED <<session, loaded>>
    /\ UNCHANGED restarts

\* clear_session_approvals
Kept(user, chat) == {g \in session : g.chat # chat \/ g.user # user}

Clear(user, chat) ==
    /\ session' = Kept(user, chat)
    /\ req' = [r \in Requests |->
         IF req[r].live /\ req[r].asker.user = user /\ req[r].asker.chat = chat
         THEN [req[r] EXCEPT !.live = FALSE] ELSE req[r]]
    /\ UNCHANGED <<forever, loaded, disk, restarts>>

\* The memory of the process is gone, its requests with it.
Restart ==
    /\ restarts < MaxRestarts
    /\ restarts' = restarts + 1
    /\ session' = {} /\ forever' = {} /\ loaded' = FALSE
    /\ req' = [r \in Requests |->
         IF req[r].at \in {"idle", "over"} THEN [req[r] EXCEPT !.live = FALSE]
         ELSE [req[r] EXCEPT !.at = "over", !.entry = FALSE, !.outcome = "lost", !.live = FALSE]]
    /\ UNCHANGED disk

ApprovalNext ==
    \/ \E r \in Requests :
         \/ \E a \in Askers : Ask(r, a)
         \/ Sent(r) \/ Passes(r) \/ TimesOut(r) \/ Returns(r)
         \/ \E user \in Users :
              AnswerLate(r, user) \/ \E pressed \in Decisions : PressAnswer(r, user, pressed)
    \/ \E a \in Askers : a.user \in Users /\ Clear(a.user, a.chat)
    \/ Restart

ApprovalSpec == ApprovalInit /\ [][ApprovalNext]_approvalVars

\* Telegram calls end, time passes and ready tasks run.
ApprovalFairness ==
    \A r \in Requests :
        /\ WF_approvalVars(Sent(r)) /\ WF_approvalVars(Passes(r))
        /\ WF_approvalVars(TimesOut(r)) /\ WF_approvalVars(Returns(r))

-----------------------------------------------------------------------------
(* Properties *)

Request ==
    [at: {"idle", "sending", "waiting", "timed", "over"}, asker: Askers \cup {NoUser},
     entry: BOOLEAN, late: BOOLEAN, decision: Decisions \cup {"none"},
     outcome: {"none", "approved", "denied", "expired", "unavailable", "lost"},
     chosen: Decisions \cup {"none"}, told: Decisions \cup {"none"}, live: BOOLEAN]

ApprovalTypeOK ==
    /\ req \in [Requests -> Request]
    /\ session \subseteq {a \in Askers : a.user \in Users}
    /\ forever \cup disk \subseteq {Lasting(a) : a \in Askers}
    /\ loaded \in BOOLEAN
    /\ restarts \in 0..MaxRestarts

\* What the owner's answer to request q allows request a: itself only, the same
\* operation in the same chat until /clear or a restart, or for ever.
Covers(q, a) ==
    \/ req[q].chosen = "session" /\ req[q].live /\ req[q].asker = a
    \/ req[q].chosen = "forever" /\ Lasting(req[q].asker) = Lasting(a)

\* Nothing is approved without its owner: a request that asks him is approved
\* only by his answer to it, and one that does not ask only by an earlier
\* answer of his that covers it and still stands.
ApprovedByOwner ==
    [][\A r \in Requests :
         req'[r].outcome = "approved" /\ req[r].outcome # "approved" =>
             \/ req[r].chosen \in Approvals
             \/ req[r].at = "idle" /\ \E q \in Requests : Covers(q, req'[r].asker)]_approvalVars

\* An owner who is told that his answer was recorded gets what he answered: the
\* timeout and expires_at never turn a recorded answer into its opposite.
AnswerHonoured ==
    \A r \in Requests : req[r].told # "none" /\ req[r].at \in {"timed", "over"} =>
        req[r].outcome \in {IF req[r].told = "deny" THEN "denied" ELSE "approved",
                            "unavailable", "lost"}

\* Every request returns to its command, answered or not.
RequestEnds == \A r \in Requests : req[r].at = "sending" ~> req[r].at = "over"
=============================================================================
