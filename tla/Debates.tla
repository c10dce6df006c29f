------------------------------- MODULE Debates -------------------------------
(***************************************************************************)
(* Formal debates of one chat (emery/debate.py).  /debate defines two      *)
(* positions inside its handler; once the user accepts them a task runs    *)
(* the debate: both sides research and open at the same time, rounds of    *)
(* four turns are judged, theses and memo close it, and it is archived.    *)
(*                                                                         *)
(* A page is its normalized URL, a turn is who speaks in which role, and   *)
(* every message to the chat may fail; models and searches never raise     *)
(* (they answer with nothing).                                             *)
(***************************************************************************)
EXTENDS Naturals, Sequences, FiniteSets, SequencesExt

CONSTANTS
    Pages,          \* normalized URLs the searches find
    SourceLimit,    \* sources of one request to the Clerk
    Rounds,         \* question rounds of a debate
    MaxDebates,     \* bound: /debate commands that start one
    MaxRevisions,   \* bound: revisions of the positions
    MaxFailures     \* bound: messages that fail

ASSUME DebateAssumption ==
    /\ Rounds \in Nat \ {0} /\ SourceLimit \in Nat
    /\ MaxDebates \in Nat \ {0} /\ MaxRevisions \in Nat /\ MaxFailures \in Nat

VARIABLES
    debates,        \* the DebateSession objects, in the order they were created
    inChat,         \* ACTIVE_DEBATES of the chat, 0 for none
    defining,       \* the debate whose positions the handler defines, 0 for none
    debateLoops,    \* foreground loops of the debates
    debateArchive,  \* what is in the archive
    debateFaults    \* messages that failed, revisions that were asked for

debateVars == <<debates, inChat, defining, debateLoops, debateArchive, debateFaults>>

Sides == {"pro", "anti"}
Requesters == Sides \cup {"moderator"}
Winners == Sides \cup {"tie"}

\* A request to the Clerk: candidates are chosen against the sources known when it begins,
\* then summarized and committed one by one.
Clerk(at, phase) == [at |-> at, phase |-> phase, targets |-> <<>>, found |-> <<>>]

NewDebate ==
    [status |-> "preparing_positions", at |-> "none", cancel |-> FALSE, round |-> 0,
     sources |-> <<>>, packets |-> <<>>, turns |-> <<>>, results |-> <<>>,
     clerks |-> [r \in Requesters |-> Clerk("idle", "none")]]

DebateInit ==
    /\ debates = <<>> /\ inChat = 0 /\ defining = 0 /\ debateLoops = {} /\ debateArchive = <<>>
    /\ debateFaults = [sends |-> 0, revisions |-> 0]

MayFail == debateFaults.sends < MaxFailures
Fail == debateFaults' = [debateFaults EXCEPT !.sends = @ + 1]

-----------------------------------------------------------------------------
(* The Clerk: _clerk_research *)

RequestClerk(d, r, phase) == [d EXCEPT !.clerks[r] = Clerk("search", phase)]

\* Plan, search, filter and fetch: what comes back is new to what was known at the start.
Picked(d) == {ps \in SeqOf(Pages, SourceLimit) : IsInjective(ps) /\ ToSet(ps) \cap ToSet(d.sources) = {}}

ClerkSearches(n, r) ==
    /\ debates[n].clerks[r].at = "search"
    /\ \E picked \in Picked(debates[n]) :
           debates' = [debates EXCEPT ![n].clerks[r] = [@ EXCEPT !.at = "commit", !.targets = picked]]
    /\ UNCHANGED <<inChat, defining, debateLoops, debateArchive, debateFaults>>

\* Seeded fault: only what was known at the start of the request is left out.
Known_Before(d, page) == FALSE

\* The other side may have committed the page while this one was summarized.
Known(d, page) == page \in ToSet(d.sources)

\* One source is committed and announced; a side gives up when the notice fails.
ClerkCommits(n, r) ==
    LET d == debates[n]  c == d.clerks[r]  page == Head(c.targets) IN
    /\ c.at = "commit" /\ c.targets # <<>>
    /\ \/ /\ Known(d, page)
          /\ debates' = [debates EXCEPT ![n].clerks[r].targets = Tail(@)]
          /\ UNCHANGED debateFaults
       \/ /\ ~Known(d, page)
          /\ \E ok \in BOOLEAN :
              /\ ok \/ (MayFail /\ r \in Sides)    \* the moderator's request announces nothing
              /\ debates' = [debates EXCEPT ![n] =
                    [d EXCEPT !.sources = Append(d.sources, page),
                              !.clerks[r] = [c EXCEPT !.at = IF ok THEN "commit" ELSE "failed", !.targets = Tail(c.targets),
                                                      !.found = Append(c.found, Len(d.sources) + 1)]]]
              /\ IF ok THEN UNCHANGED debateFaults ELSE Fail
    /\ UNCHANGED <<inChat, defining, debateLoops, debateArchive>>

\* The packet is summarized and filed.
ClerkFiles(n, r) ==
    LET c == debates[n].clerks[r] IN
    /\ c.at = "commit" /\ c.targets = <<>>
    /\ debates' = [debates EXCEPT ![n].packets = Append(@, [for |-> r, phase |-> c.phase, ids |-> c.found]),
                                  ![n].clerks[r].at = "filed"]
    /\ UNCHANGED <<inChat, defining, debateLoops, debateArchive, debateFaults>>

\* Light research leads to questions and deep research; deep research to brief and opening thesis.
Turn(round, speaker, kind) == [round |-> round, speaker |-> speaker, kind |-> kind]

SidePrepares(n, side) ==
    LET d == debates[n]  c == d.clerks[side] IN
    /\ c.at = "filed"
    /\ \/ c.phase = "light" /\ debates' = [debates EXCEPT ![n] = RequestClerk(d, side, "deep")]
       \/ /\ c.phase = "deep"
          /\ debates' = [debates EXCEPT ![n].turns = Append(@, Turn(0, side, "opening")), ![n].clerks[side].at = "open"]
    /\ UNCHANGED <<inChat, defining, debateLoops, debateArchive, debateFaults>>

-----------------------------------------------------------------------------
(* The command: positions are defined before its handler returns *)

Busy == {"preparing_positions", "defining_positions", "running"}

DebateCommand ==
    /\ defining = 0 /\ Len(debates) < MaxDebates
    /\ ~(inChat # 0 /\ debates[inChat].status \in Busy)
    /\ debates' = Append(debates, RequestClerk(NewDebate, "moderator", "positions"))
    /\ inChat' = Len(debates) + 1 /\ defining' = Len(debates) + 1
    /\ UNCHANGED <<debateLoops, debateArchive, debateFaults>>

\* _define_positions ends and the user is asked; a prompt that fails is an error.
PositionsDefined ==
    /\ defining # 0 /\ debates[defining].clerks["moderator"].at = "filed"
    /\ \E ok \in BOOLEAN :
        /\ ok \/ MayFail
        /\ debates' = [debates EXCEPT ![defining].status = IF ok THEN "defining_positions" ELSE "error",
                                      ![defining].clerks["moderator"].at = "idle"]
        /\ IF ok THEN UNCHANGED debateFaults ELSE Fail
    /\ defining' = 0
    /\ UNCHANGED <<inChat, debateLoops, debateArchive>>

\* A message while the positions are open revises them; it is handled before the next one.
RevisePositions ==
    /\ defining = 0 /\ inChat # 0 /\ debates[inChat].status = "defining_positions"
    /\ debateFaults.revisions < MaxRevisions
    /\ debateFaults' = [debateFaults EXCEPT !.revisions = @ + 1]
    /\ UNCHANGED <<debates, inChat, defining, debateLoops, debateArchive>>

\* The button or words of acceptance; the button finds its session by id.
BeginDebate ==
    /\ defining = 0 /\ inChat # 0 /\ debates[inChat].status = "defining_positions"
    /\ debates[inChat].at = "none"  \* the task takes its first step before the next update is handled
    /\ debates' = [debates EXCEPT ![inChat].at = "starts"]
    /\ UNCHANGED <<inChat, defining, debateLoops, debateArchive, debateFaults>>

\* _cancel_session_object, by command, button or word.
CancelDebate ==
    /\ defining = 0 /\ inChat # 0 /\ debates[inChat].at # "starts"
    /\ debates' = [debates EXCEPT ![inChat].status = "cancelled",
                                  ![inChat].cancel = debates[inChat].at \notin {"none", "done"}]
    /\ inChat' = 0 /\ debateLoops' = debateLoops \ {inChat}
    /\ UNCHANGED <<defining, debateArchive, debateFaults>>

ClearDebates ==
    /\ defining = 0 /\ debateArchive # <<>> /\ debateArchive' = <<>>
    /\ UNCHANGED <<debates, inChat, defining, debateLoops, debateFaults>>

-----------------------------------------------------------------------------
(* The task of a debate: _run_debate_session *)

Runs(n, place) == debates[n].at = place /\ ~debates[n].cancel

\* An exception: the user is told, which may fail too, and the task closes.
Errs(n) ==
    /\ MayFail /\ Fail
    /\ debates' = [debates EXCEPT ![n].status = "error", ![n].at = "closing"]
    /\ UNCHANGED <<inChat, defining, debateLoops, debateArchive>>

Starts(n) ==
    /\ Runs(n, "starts")
    /\ debateLoops' = debateLoops \cup {n} /\ inChat' = n
    /\ debates' = [debates EXCEPT ![n].status = "running", ![n].at = "announces"]
    /\ UNCHANGED <<defining, debateArchive, debateFaults>>

Announces(n) ==
    /\ Runs(n, "announces")
    /\ debates' = [debates EXCEPT ![n] = [RequestClerk(RequestClerk(@, "pro", "light"), "anti", "light") EXCEPT !.at = "sides"]]
    /\ UNCHANGED <<inChat, defining, debateLoops, debateArchive, debateFaults>>

\* The gather ends with both openings, or with the first side that fails; the other goes on alone.
SidesOpened(n) ==
    /\ Runs(n, "sides") /\ \A side \in Sides : debates[n].clerks[side].at = "open"
    /\ debates' = [debates EXCEPT ![n].at = "opened"]
    /\ UNCHANGED <<inChat, defining, debateLoops, debateArchive, debateFaults>>

\* The moderator's questions and the openings are shown.
RoundsBegin(n) ==
    /\ Runs(n, "opened")
    /\ debates' = [debates EXCEPT ![n].at = "round", ![n].round = 1]
    /\ UNCHANGED <<inChat, defining, debateLoops, debateArchive, debateFaults>>

SideFailed(n) ==
    /\ Runs(n, "sides") /\ \E side \in Sides : debates[n].clerks[side].at = "failed"
    /\ debates' = [debates EXCEPT ![n].status = "error", ![n].at = "closing"]
    /\ UNCHANGED <<inChat, defining, debateLoops, debateArchive, debateFaults>>

First(round) == IF round % 2 = 1 THEN "pro" ELSE "anti"
Second(round) == CHOOSE side \in Sides : side # First(round)

\* The turns of a round in the order of _run_question_round.
RoundTurns(round) ==
    <<Turn(round, First(round), "answer"), Turn(round, Second(round), "answer"),
      Turn(round, First(round), "response"), Turn(round, Second(round), "response")>>

SpokenInRound(d) == Cardinality({i \in DOMAIN d.turns : d.turns[i].round = d.round})
NextTurn(d) == RoundTurns(d.round)[SpokenInRound(d) + 1]
RoundSpoken(d) == SpokenInRound(d) = 4

\* Before an answer the side's Clerk looks for evidence.
TurnResearched(n) ==
    LET d == debates[n]  t == NextTurn(d) IN
    /\ Runs(n, "round") /\ ~RoundSpoken(d) /\ t.kind = "answer" /\ d.clerks[t.speaker].at \in {"open", "idle"}
    /\ debates' = [debates EXCEPT ![n] = RequestClerk(d, t.speaker, "round")]
    /\ UNCHANGED <<inChat, defining, debateLoops, debateArchive, debateFaults>>

TurnSpoken(n) ==
    LET d == debates[n]  t == NextTurn(d) IN
    /\ Runs(n, "round") /\ ~RoundSpoken(d)
    /\ t.kind = "answer" => d.clerks[t.speaker].at = "filed" /\ d.clerks[t.speaker].phase = "round"
    /\ debates' = [debates EXCEPT ![n].turns = Append(@, t), ![n].clerks[t.speaker].at = "idle"]
    /\ UNCHANGED <<inChat, defining, debateLoops, debateArchive, debateFaults>>

TurnFails(n) ==
    /\ Runs(n, "round") /\ \E side \in Sides : debates[n].clerks[side].at = "failed"
    /\ debates' = [debates EXCEPT ![n].status = "error", ![n].at = "closing"]
    /\ UNCHANGED <<inChat, defining, debateLoops, debateArchive, debateFaults>>

\* _judge_round: anything but pro and anti is a tie.  Then the round is shown.
Judged(n) ==
    /\ Runs(n, "round") /\ RoundSpoken(debates[n]) /\ Len(debates[n].results) < debates[n].round
    /\ \E winner \in Winners : debates' = [debates EXCEPT ![n].results = Append(@, winner)]
    /\ UNCHANGED <<inChat, defining, debateLoops, debateArchive, debateFaults>>

RoundShown(n) ==
    /\ Runs(n, "round") /\ Len(debates[n].results) = debates[n].round
    /\ debates' = IF debates[n].round < Rounds THEN [debates EXCEPT ![n].round = @ + 1]
                  ELSE [debates EXCEPT ![n].at = "theses"]
    /\ UNCHANGED <<inChat, defining, debateLoops, debateArchive, debateFaults>>

\* Written at the same time, recorded in a fixed order.
ThesesRecorded(n) ==
    /\ Runs(n, "theses")
    /\ debates' = [debates EXCEPT ![n].at = "memo",
         ![n].turns = @ \o <<Turn(Rounds + 1, "pro", "thesis"), Turn(Rounds + 1, "anti", "thesis")>>]
    /\ UNCHANGED <<inChat, defining, debateLoops, debateArchive, debateFaults>>

Wins(d, side) == Cardinality({i \in DOMAIN d.results : d.results[i] = side})

\* _compute_outcome
Outcome(d) ==
    CASE Wins(d, "pro") > Wins(d, "anti") -> "pro"
      [] Wins(d, "anti") > Wins(d, "pro") -> "anti"
      [] OTHER -> "tie"

\* _archive_session: an entry replaces an older one of the same debate.
Others(n) ==
    LET kept[k \in 0..Len(debateArchive)] ==
            IF k = 0 THEN <<>>
            ELSE IF debateArchive[k].of = n THEN kept[k - 1] ELSE Append(kept[k - 1], debateArchive[k])
    IN  kept[Len(debateArchive)]

Indexed(n) == <<[of |-> n, winner |-> Outcome(debates[n])]>> \o Others(n)

\* _build_final_memo, and nothing awaited between the memo and the index.
Archives(n) ==
    /\ Runs(n, "memo")
    /\ debateArchive' = Indexed(n)
    /\ debates' = [debates EXCEPT ![n].status = "completed", ![n].at = "delivers"]
    /\ UNCHANGED <<inChat, defining, debateLoops, debateFaults>>

\* The chat's entry is dropped whoever has it by now.
Delivers(n) ==
    /\ Runs(n, "delivers")
    /\ debates' = [debates EXCEPT ![n].at = "closing"] /\ inChat' = 0
    /\ UNCHANGED <<defining, debateLoops, debateArchive, debateFaults>>

\* The places where a message is sent.
SendFails(n) ==
    /\ \/ \E place \in {"announces", "opened", "delivers"} : Runs(n, place)
       \/ Runs(n, "round") /\ Len(debates[n].results) = debates[n].round
    /\ Errs(n)

\* Cancelling reaches the sides that still prepare.
CancelLands(n) ==
    /\ debates[n].cancel
    /\ debates' = [debates EXCEPT ![n].cancel = FALSE, ![n].status = "cancelled", ![n].at = "closing",
                   ![n].clerks = IF debates[n].at \in {"sides", "round"} THEN [r \in Requesters |-> Clerk("idle", "none")] ELSE @]
    /\ UNCHANGED <<inChat, defining, debateLoops, debateArchive, debateFaults>>

\* Seeded fault: only a debate that ends by itself leaves the foreground.
LoopsAfter_Completed(n) == IF debates[n].status = "completed" THEN debateLoops \ {n} ELSE debateLoops

LoopsAfter(n) == debateLoops \ {n}

Closes(n) ==
    /\ Runs(n, "closing") /\ debates' = [debates EXCEPT ![n].at = "done"] /\ debateLoops' = LoopsAfter(n)
    /\ UNCHANGED <<inChat, defining, debateArchive, debateFaults>>

-----------------------------------------------------------------------------

DebateStep(n) ==
    \/ Starts(n) \/ Announces(n) \/ SidesOpened(n) \/ RoundsBegin(n) \/ SideFailed(n)
    \/ TurnResearched(n) \/ TurnSpoken(n) \/ TurnFails(n)
    \/ Judged(n) \/ RoundShown(n) \/ ThesesRecorded(n) \/ Archives(n) \/ Delivers(n) \/ SendFails(n) \/ CancelLands(n) \/ Closes(n)

ClerkStep(n, r) == ClerkSearches(n, r) \/ ClerkCommits(n, r) \/ ClerkFiles(n, r) \/ (r \in Sides /\ SidePrepares(n, r))

DebateNext ==
    \/ DebateCommand \/ PositionsDefined \/ RevisePositions \/ BeginDebate \/ CancelDebate \/ ClearDebates
    \/ \E n \in DOMAIN debates : DebateStep(n) \/ \E r \in Requesters : ClerkStep(n, r)

\* Every await of a task ends: requests have timeouts, and the loop runs what is ready.
DebateFairness ==
    /\ WF_debateVars(PositionsDefined)
    /\ \A n \in 1..MaxDebates :
        /\ WF_debateVars(n \in DOMAIN debates /\ DebateStep(n))
        /\ \A r \in Requesters : WF_debateVars(n \in DOMAIN debates /\ ClerkStep(n, r))

DebateSpec == DebateInit /\ [][DebateNext]_debateVars /\ DebateFairness

-----------------------------------------------------------------------------
(* Properties *)

\* Two sides that research at the same time, each against what it knew when it began,
\* leave one source per page, and every packet names the pages its own request committed.
EvidenceSound ==
    \A n \in DOMAIN debates :
        /\ IsInjective(debates[n].sources)
        /\ \A i, j \in DOMAIN debates[n].packets :
            /\ ToSet(debates[n].packets[i].ids) \subseteq DOMAIN debates[n].sources
            /\ i # j => ToSet(debates[n].packets[i].ids) \cap ToSet(debates[n].packets[j].ids) = {}

\* An archived debate has been argued in full: both openings in either order, each round's
\* four turns with the sides taking turns to begin, both theses, and one verdict per round,
\* of which the winner has the most.
ArchivedWhole ==
    \A i \in DOMAIN debateArchive :
        LET d == debates[debateArchive[i].of]
            begins(r) == d.turns[2 + 4 * (r - 1) + 1].speaker
            speakers(kind, r) == {t \in ToSet(d.turns) : t.kind = kind /\ t.round = r} IN
        /\ Len(d.turns) = 4 + 4 * Rounds /\ Len(d.results) = Rounds
        /\ \A r \in 0..(Rounds + 1), kind \in {"opening", "answer", "response", "thesis"} :
            Cardinality(speakers(kind, r)) \in {0, 2}
        /\ \A r \in 1..(Rounds - 1) : begins(r) # begins(r + 1)
        /\ \A side \in Sides \ {debateArchive[i].winner} :
            debateArchive[i].winner # "tie" => Wins(d, side) < Wins(d, debateArchive[i].winner)

\* What a debate has gathered and what it leaves behind are whole.
DebateSound == EvidenceSound /\ ArchivedWhole

\* A debate that begins ends, however it does, and leaves the foreground, so that scheduled
\* work that waits for it can run.
DebateEnds == \A n \in 1..MaxDebates : (n \in debateLoops) ~> (n \notin debateLoops)
=============================================================================
