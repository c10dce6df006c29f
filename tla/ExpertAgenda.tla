----------------------------- MODULE ExpertAgenda -----------------------------
(***************************************************************************)
(* The research loop of one /expert session (emery/expert.py): the agenda  *)
(* of questions, the rounds that work on it, what the main model's         *)
(* evaluation of a round changes, and when the report is written.          *)
(*                                                                         *)
(* The models' answers are arbitrary.  Of a question only its identity     *)
(* (the text, which is compared without case), priority, status, attempts  *)
(* and need level are kept; of the sources only how many were fetched.     *)
(***************************************************************************)
EXTENDS Naturals, Sequences

CONSTANTS
    Asks,           \* texts of questions, of the models and of the user
    PriorityOf,     \* the priority a model gives a question
    MaxAgenda,      \* EXPERT_MAX_AGENDA_QUESTIONS; below 10, so that ids sort as numbers
    MaxNew,         \* EXPERT_MAX_NEW_QUESTIONS
    MaxSubtasks,    \* EXPERT_MAX_SUBTASKS_PER_QUESTION
    FetchesPerRound, ReducedFetches, MinTarget, MaxSources, EnoughSources,
    DefaultRounds, MoreRounds, MoreSources,
    MaxDrafts,      \* bound: questions a model proposes at once
    MaxContinues    \* bound: times the user continues a finished session

ASSUME AgendaAssumption ==
    /\ PriorityOf \in [Asks -> {"core", "supporting", "optional"}]
    /\ MaxAgenda \in Nat \ {0} /\ MaxNew \in Nat /\ MaxSubtasks \in Nat \ {0}
    /\ FetchesPerRound \in Nat \ {0} /\ ReducedFetches \in Nat
    /\ MinTarget \in Nat \ {0} /\ MaxSources \in Nat /\ MinTarget <= MaxSources
    /\ {EnoughSources, DefaultRounds, MoreRounds, MoreSources, MaxDrafts, MaxContinues} \subseteq Nat

VARIABLES
    agenda,     \* research_agenda
    budget,     \* rounds and sources: used, allowed, aimed at; questions the models added
    direction,  \* followup_instruction, "" for none
    assigned,   \* the question of the round
    loopAt      \* where the loop is

agendaVars == <<agenda, budget, direction, assigned, loopAt>>

Rank == [core |-> 0, supporting |-> 1, optional |-> 2]
AgendaPriorities == DOMAIN Rank
Verdicts == {"settled", "needs_more"}   \* settled: answered, sufficient_with_gaps or exhausted
Levels == 0..2   \* 0: nothing gathered, 1: gaps are left, 2: covered
Drafts == UNION {[1..n -> {[ask |-> a, priority |-> PriorityOf[a]] : a \in Asks}] : n \in 0..MaxDrafts}

Least(a, b) == IF a < b THEN a ELSE b
Most(a, b) == IF a > b THEN a ELSE b

\* _normalize_agenda_questions: repeated texts are dropped, ids count on from those there are.
Drafted(kept, d, existing, limit) ==
    IF Len(kept) >= limit \/ \E i \in DOMAIN kept : kept[i].ask = d.ask THEN kept
    ELSE Append(kept, [ask |-> d.ask, priority |-> d.priority, id |-> existing + Len(kept) + 1,
                       status |-> "pending", attempts |-> 0, level |-> 0])
Normalized(drafts, existing, limit) ==
    LET kept[n \in 0..Len(drafts)] == IF n = 0 THEN <<>> ELSE Drafted(kept[n - 1], drafts[n], existing, limit)
    IN  kept[Len(drafts)]

RoundBudget(target) ==
    Most(DefaultRounds, ((target + FetchesPerRound - 1) \div FetchesPerRound) + 2)

AgendaInit ==
    /\ agenda = <<>> /\ direction = "" /\ assigned = 0 /\ loopAt = "plan"
    /\ budget = [round |-> 0, rounds |-> DefaultRounds, target |-> MinTarget, sources |-> 0, added |-> 0, continues |-> 0]

-----------------------------------------------------------------------------
(* The plan *)

\* A model that names no question gets the three of the program.
FallbackPlan(as) == [i \in DOMAIN as |-> [ask |-> as[i], priority |-> "core"]]

MakesPlan ==
    /\ loopAt = "plan" /\ loopAt' = "loop"
    /\ \E drafts \in Drafts \ {<<>>}, target \in MinTarget..MaxSources :
        /\ agenda' = Normalized(drafts, 0, MaxAgenda)
        /\ budget' = [budget EXCEPT !.target = target, !.rounds = Most(@, RoundBudget(target))]
    /\ UNCHANGED <<direction, assigned>>

-----------------------------------------------------------------------------
(* Choosing the question of a round *)

Unfinished(q) == q.attempts < MaxSubtasks /\ q.level # 2

\* _select_next_agenda_question
Candidates == {i \in DOMAIN agenda : agenda[i].status \in {"pending", "needs_more"} /\ Unfinished(agenda[i])}

Key(i) == <<Rank[agenda[i].priority], agenda[i].level, agenda[i].attempts, agenda[i].id, i>>
Before5(a, b) == \E n \in 1..5 : a[n] < b[n] /\ \A m \in 1..(n - 1) : a[m] = b[m]
NextQuestion == CHOOSE i \in Candidates : \A j \in Candidates \ {i} : Before5(Key(i), Key(j))

\* _agenda_has_open_core_questions
OpenCore ==
    \E i \in DOMAIN agenda :
        /\ agenda[i].priority = "core" /\ agenda[i].status \in {"pending", "needs_more", "in_progress"}
        /\ Unfinished(agenda[i])

InBudget == budget.round < budget.rounds /\ budget.sources < MaxSources

\* The user's direction becomes a core question, if the agenda has room; it is forgotten if not.
Directed ==
    IF direction = "" THEN agenda
    ELSE agenda \o Normalized(<<[ask |-> direction, priority |-> "core"]>>, Len(agenda), Least(1, MaxAgenda - Len(agenda)))

\* The head of the while loop, up to its own break.
TakesDirection ==
    /\ loopAt = "loop" /\ InBudget
    /\ agenda' = Directed /\ direction' = "" /\ loopAt' = "select"
    /\ UNCHANGED <<budget, assigned>>

StartsSubtask ==
    /\ loopAt = "select" /\ Candidates # {} /\ ~(budget.sources >= budget.target /\ ~OpenCore)
    /\ assigned' = NextQuestion
    /\ agenda' = [agenda EXCEPT ![NextQuestion].status = "in_progress", ![NextQuestion].attempts = @ + 1]
    /\ budget' = [budget EXCEPT !.round = @ + 1]
    /\ loopAt' = "subtask"
    /\ UNCHANGED direction

\* Seeded fault: a reached target ends the research whatever is open.
ReportDue_Target ==
    \/ loopAt = "loop" /\ ~InBudget
    \/ loopAt = "select" /\ (Candidates = {} \/ budget.sources >= budget.target)

ReportDue ==
    \/ loopAt = "loop" /\ ~InBudget
    \/ loopAt = "select" /\ (Candidates = {} \/ (budget.sources >= budget.target /\ ~OpenCore))

StopsResearch ==
    /\ ReportDue /\ loopAt' = "report"
    /\ UNCHANGED <<agenda, budget, direction, assigned>>

-----------------------------------------------------------------------------
(* A round: sources are fetched, and the main model judges the packet *)

\* _fetch_round: the searches of the round run together, then the fetches of what
\* nobody has seen; what fails to load is kept but not counted.
FetchLimit ==
    Least(MaxSources - budget.sources,
          IF agenda[assigned].level = 1 THEN Least(ReducedFetches, FetchesPerRound) ELSE FetchesPerRound)

Fetches ==
    /\ loopAt = "subtask" /\ loopAt' = "evaluate"
    /\ \E n \in 0..FetchLimit : budget' = [budget EXCEPT !.sources = @ + n]
    /\ UNCHANGED <<agenda, direction, assigned>>

\* _normalize_evaluation_status
Verdict(v, q) == IF v = "needs_more" /\ q.attempts >= MaxSubtasks THEN "settled" ELSE v

\* Seeded fault: the limit on what the models add forgets how long the agenda is.
Additions_Unbounded == Most(0, MaxNew - budget.added)

Additions == Most(0, Least(MaxNew - budget.added, MaxAgenda - Len(agenda)))

\* The ids are given before the texts already in the agenda are dropped.
NewQuestions(drafts) ==
    LET named == Normalized(drafts, Len(agenda), Additions)
        new[n \in 0..Len(named)] ==
            IF n = 0 THEN <<>>
            ELSE IF \E i \in DOMAIN agenda : agenda[i].ask = named[n].ask THEN new[n - 1]
            ELSE Append(new[n - 1], named[n])
    IN  new[Len(named)]

\* _apply_agenda_coverage: of two questions with one id the later one is meant.
Covered(as, id, level) ==
    LET named == {i \in DOMAIN as : as[i].id = id} IN
    [i \in DOMAIN as |-> IF i \in named /\ \A j \in named : j <= i THEN [as[i] EXCEPT !.level = level] ELSE as[i]]

MayStop == budget.sources >= Most(EnoughSources, budget.target \div 2)

\* _apply_agenda_evaluation; questions to the user are off, and one entry of coverage is enough
\* to reach every combination of levels in several rounds.
Evaluates ==
    /\ loopAt = "evaluate"
    /\ \E v \in Verdicts, new \in {NewQuestions(drafts) : drafts \in Drafts}, id \in 0..MaxAgenda, level \in Levels, stop \in BOOLEAN :
        LET judged == [agenda EXCEPT ![assigned].status = Verdict(v, agenda[assigned])]
            grown == judged \o new IN
        /\ id = 0 => level = 0   \* no entry
        /\ agenda' = Covered(grown, id, level)
        /\ budget' = [budget EXCEPT !.added = @ + Len(new)]
        /\ loopAt' = IF stop /\ ~OpenCore' /\ MayStop THEN "report" ELSE "loop"
    /\ assigned' = 0
    /\ UNCHANGED direction

-----------------------------------------------------------------------------
(* The report, and a user who wants more *)

WritesReport ==
    /\ loopAt = "report" /\ loopAt' = "done"
    /\ UNCHANGED <<agenda, budget, direction, assigned>>

\* Typed with a direction, or the button without one.
ContinuesResearch ==
    /\ loopAt = "done" /\ budget.continues < MaxContinues
    /\ budget' = [budget EXCEPT !.rounds = @ + MoreRounds, !.continues = @ + 1,
                  !.target = Least(MaxSources, Most(@ + MoreSources, budget.sources + MoreSources))]
    /\ direction' \in Asks \cup {""}
    /\ loopAt' = "loop"
    /\ UNCHANGED <<agenda, assigned>>

-----------------------------------------------------------------------------

LoopStep == MakesPlan \/ TakesDirection \/ StartsSubtask \/ StopsResearch \/ Fetches \/ Evaluates \/ WritesReport

AgendaNext == LoopStep \/ ContinuesResearch
AgendaSpec == AgendaInit /\ [][AgendaNext]_agendaVars

-----------------------------------------------------------------------------
(* Properties *)

\* Whatever the models answer, one session stays within what it may spend: questions,
\* passes per question, rounds and sources.
WithinBudget ==
    /\ Len(agenda) <= MaxAgenda /\ budget.added <= MaxNew
    /\ \A i \in DOMAIN agenda : agenda[i].attempts <= MaxSubtasks
    /\ budget.round <= budget.rounds /\ budget.sources <= MaxSources

\* A report leaves a core question open only when rounds or sources are used up: the
\* main model's stop, a reached target and supporting questions do not cut it short.
CoreBeforeReport == loopAt \in {"report", "done"} => ~OpenCore \/ ~InBudget

\* Both together: research neither goes on past what it may spend nor ends before it has to.
AgendaKept == WithinBudget /\ CoreBeforeReport
=============================================================================
