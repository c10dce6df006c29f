----------------------------- MODULE SkillStore -----------------------------
(***************************************************************************)
(* The durable skills (emery/skills.py) and the queue of staged changes    *)
(* to them (emery/skill_approval.py), with the tools and commands that use *)
(* them (emery/skill_commands.py).                                         *)
(*                                                                         *)
(* A skill is kept twice: a SKILL.md document, which is the one that       *)
(* counts and which people edit by hand, and an entry of the JSON cache.   *)
(* Every load merges the documents into the entries.  All of it is         *)
(* synchronous, so an operation is interrupted by a crash only: it is the  *)
(* sequence of the disks it leaves, one per durable write, and a crash     *)
(* keeps a prefix of them.                                                 *)
(*                                                                         *)
(* A document has its directory by the name of the skill alone (its        *)
(* category is the default one), whatever the scope of the skill.          *)
(***************************************************************************)
EXTENDS Naturals, Sequences, FiniteSets, SequencesExt

CONSTANTS
    Owners,           \* scopes: private ones and groups
    Groups,           \* the groups among them
    Skills,           \* names of skills, each its own slug
    Bodies,           \* descriptions, procedures and the other texts of a skill
    MaxPerScope,      \* MAX_SKILLS_PER_SCOPE
    MaxChanges,       \* max_items of the queue of changes, decided ones included
    MaxSkillWrites,   \* bound: operations that write
    MaxSkillCrashes   \* bound: restarts in the middle of one

\* An id made from a name is no number.
ASSUME SkillAssumption ==
    /\ Groups \subseteq Owners /\ IsFiniteSet(Skills) /\ Skills \cap Nat = {}
    /\ {MaxPerScope, MaxChanges, MaxSkillWrites, MaxSkillCrashes} \subseteq Nat

VARIABLES
    disk,     \* the documents, the entries of the cache and its next_id
    changes,  \* the queue of staged changes, with how often each was applied and whether it was approved late
    told,     \* what each owner may be shown of each skill, from what was answered
    skillRuns \* operations and crashes so far

skillVars == <<disk, changes, told, skillRuns>>

\* A draft is shown and changed as an active skill is; only retrieval leaves it out.
SkillStatuses == {"active", "archived"}
NoSkill == [id |-> 0, owner |-> "none", body |-> "none", status |-> "none"]
Absent == [body |-> "none", status |-> "none"]

SkillInit ==
    /\ disk = [docs |-> [n \in Skills |-> NoSkill], cache |-> <<>>, nextId |-> 1]
    /\ changes = <<>>
    /\ told = [o \in Owners |-> [n \in Skills |-> {Absent}]]
    /\ skillRuns = [writes |-> 0, crashes |-> 0]

-----------------------------------------------------------------------------
(* Loading: _merge_filesystem_records *)

SkillOrder == SetToSeq(Skills)
FirstOf(hits) == IF hits = {} THEN 0 ELSE CHOOSE k \in hits : \A j \in hits : k <= j

\* The id of a document that gives none is made from its name.
DocumentId(doc, n) == IF doc.id = 0 THEN n ELSE doc.id

\* Seeded fault: an entry that is in the cache is trusted.
ImportedOver_Cache(entries, k, doc, n) == entries
\* What the document says replaces the entry; an id it does not give stays.
ImportedOver(entries, k, doc, n) ==
    [entries EXCEPT ![k] = [id |-> IF doc.id = 0 THEN @.id ELSE doc.id, name |-> n,
                            owner |-> doc.owner, body |-> doc.body, status |-> doc.status]]

ImportedDocument(docs, entries, n) ==
    LET doc == docs[n]
        k == FirstOf({j \in DOMAIN entries : \/ entries[j].id = doc.id
                                             \/ entries[j].name = n /\ entries[j].owner = doc.owner}) IN
    IF doc = NoSkill THEN entries
    ELSE IF k # 0 THEN ImportedOver(entries, k, doc, n)
    ELSE Append(entries, [id |-> DocumentId(doc, n), name |-> n, owner |-> doc.owner,
                          body |-> doc.body, status |-> doc.status])

Entries(d) ==
    LET merged[i \in 0..Cardinality(Skills)] ==
            IF i = 0 THEN d.cache ELSE ImportedDocument(d.docs, merged[i - 1], SkillOrder[i])
    IN  merged[Cardinality(Skills)]

\* Seeded fault: next_id is taken as it was saved.
NextId_Saved(d, entries) == d.nextId
\* A number that a document holds is not given again.
NextId(d, entries) == Max({d.nextId} \cup {i + 1 : i \in {e.id : e \in Range(entries)} \ Skills})

-----------------------------------------------------------------------------
(* Operations: the disks they leave in turn, and whether they succeed *)

Failed == [disks |-> <<>>, ok |-> FALSE]
Document(e) == [id |-> e.id, owner |-> e.owner, body |-> e.body, status |-> e.status]

\* The document is written before the cache.
Persisted(d, entries, k, next) ==
    LET written == [d EXCEPT !.docs[entries[k].name] = Document(entries[k])] IN
    [disks |-> <<written, [written EXCEPT !.cache = entries, !.nextId = next]>>, ok |-> TRUE]

EntryIn(entries, o, n) == FirstOf({j \in DOMAIN entries : entries[j].name = n /\ entries[j].owner = o})

\* save_skill
Saved(d, o, n, body, status) ==
    LET entries == Entries(d)
        k == EntryIn(entries, o, n)
        full == Cardinality({j \in DOMAIN entries : entries[j].owner = o}) >= MaxPerScope IN
    IF status = "archived" \/ (k = 0 /\ full) THEN Failed
    ELSE IF k = 0 THEN Persisted(d, Append(entries, [id |-> NextId(d, entries), name |-> n, owner |-> o, body |-> body, status |-> status]),
                                 Len(entries) + 1, NextId(d, entries) + 1)
    ELSE Persisted(d, [entries EXCEPT ![k].body = body, ![k].status = status], k, NextId(d, entries))

\* set_skill_status
StatusSet(d, o, n, status) ==
    LET entries == Entries(d)
        k == EntryIn(entries, o, n) IN
    IF k = 0 THEN Failed ELSE Persisted(d, [entries EXCEPT ![k].status = status], k, NextId(d, entries))

\* read_skill: an entry that is in scope, shown with the texts of the document in its directory.
ReadFrom(d, entries, o, n) ==
    LET k == EntryIn(entries, o, n) IN
    IF k = 0 THEN NoSkill ELSE IF d.docs[n] # NoSkill THEN d.docs[n] ELSE Document(entries[k])

Read(d, o, n) == ReadFrom(d, Entries(d), o, n)

\* update_skill and then set_skill_status: a skill that is archived cannot be saved again.
StatusUpdated(d, o, n, status) ==
    LET current == Read(d, o, n)
        saved == Saved(d, o, n, current.body, current.status)
        set == StatusSet(Last(saved.disks), o, n, status) IN
    IF current = NoSkill \/ (current.owner \in Groups) # (o \in Groups) \/ ~saved.ok THEN Failed
    ELSE [disks |-> saved.disks \o set.disks, ok |-> set.ok]

\* _apply_record
Applied(d, c) ==
    CASE c.operation = "create" -> Saved(d, c.owner, c.name, c.body, c.status)
      [] c.operation = "update" -> StatusUpdated(d, c.owner, c.name, c.status)
      [] OTHER -> StatusSet(d, c.owner, c.name, "archived")

-----------------------------------------------------------------------------
(* What a caller knows afterwards *)

Meant(o, n, operation, body, status) ==
    IF operation = "create" THEN {[body |-> body, status |-> status]}
    ELSE {[v EXCEPT !.status = status] : v \in told[o][n] \ {Absent}}

SkillKnown(o, n, values) == told' = [told EXCEPT ![o][n] = values]
MayWrite == skillRuns.writes < MaxSkillWrites
Counted(crashed) == skillRuns' = [writes |-> skillRuns.writes + 1, crashes |-> skillRuns.crashes + (IF crashed THEN 1 ELSE 0)]
MayCrash == skillRuns.crashes < MaxSkillCrashes

\* A change without the queue: skill_save and skill_set_status when SKILL_WRITE_APPROVAL is off, /skills archive always.
Directly(o, n, operation, body, status, outcome) ==
    /\ MayWrite /\ outcome.ok
    /\ \E k \in DOMAIN outcome.disks :
        /\ k < Len(outcome.disks) => MayCrash
        /\ disk' = outcome.disks[k] /\ Counted(k < Len(outcome.disks))
        /\ SkillKnown(o, n, Meant(o, n, operation, body, status) \cup (IF k < Len(outcome.disks) THEN told[o][n] ELSE {}))
    /\ UNCHANGED changes

SkillSave(o, n) ==
    \E body \in Bodies : \E outcome \in {Saved(disk, o, n, body, "active")} :
        Directly(o, n, "create", body, "active", outcome)

SkillSetStatus(o, n) ==
    \E status \in SkillStatuses : \E outcome \in {StatusSet(disk, o, n, status)} :
        Directly(o, n, "status", "none", status, outcome)

-----------------------------------------------------------------------------
(* The queue of changes *)

\* Seeded fault: the decision is recorded whether or not the change could be made.
Decides_Anyway(outcome) == TRUE
\* approve: the change is made first and the decision recorded after it.
Decides(outcome) == outcome.ok

\* A change that is not pending any more is made again, and only then is the decision refused.
Approved(c, outcome) ==
    [c EXCEPT !.applied = @ + (IF outcome.ok THEN 1 ELSE 0),
              !.again = @ \/ c.state # "pending",
              !.state = IF @ = "pending" /\ Decides(outcome) THEN "approved" ELSE @]

\* The change at place i of queue, when it is approved now.  A crash keeps some of the disks.
Approves(queue, i) ==
    LET c == queue[i]
        before == told[c.owner][c.name]
        meant == Meant(c.owner, c.name, c.operation, c.body, c.status) IN
    \E outcome \in {Applied(disk, c)} :
        \/ /\ changes' = [queue EXCEPT ![i] = Approved(c, outcome)]
           /\ disk' = IF outcome.disks = <<>> THEN disk ELSE Last(outcome.disks)
           /\ SkillKnown(c.owner, c.name, IF outcome.ok THEN meant ELSE before)
           /\ Counted(FALSE)
        \/ /\ outcome.ok /\ MayCrash
           /\ \E k \in DOMAIN outcome.disks : disk' = outcome.disks[k]
           /\ changes' = [queue EXCEPT ![i].applied = @ + 1]
           /\ SkillKnown(c.owner, c.name, meant \cup before)
           /\ Counted(TRUE)

\* A change is put in the queue; SKILL_AUTO_APPROVE approves it at once.
Staged(o, n, operation, body, status) ==
    LET queue == Append(changes, [operation |-> operation, owner |-> o, name |-> n, body |-> body, status |-> status,
                                  state |-> "pending", applied |-> 0, again |-> FALSE]) IN
    /\ MayWrite /\ Len(changes) < MaxChanges
    /\ \/ Approves(queue, Len(queue))
       \/ changes' = queue /\ Counted(FALSE) /\ UNCHANGED <<disk, told>>

\* skill_save and skill_set_status when SKILL_WRITE_APPROVAL is on
StageSave(o, n) == \E body \in Bodies, status \in SkillStatuses : Staged(o, n, "create", body, status)

StageStatus(o, n) ==
    /\ Read(disk, o, n) # NoSkill
    /\ \E status \in SkillStatuses : Staged(o, n, IF status = "archived" THEN "archive" ELSE "update", "none", status)

\* /skills approve
ApproveChange(i) == MayWrite /\ Approves(changes, i)

\* /skills reject
RejectChange(i) ==
    /\ MayWrite /\ changes[i].state = "pending"
    /\ changes' = [changes EXCEPT ![i].state = "rejected"]
    /\ Counted(FALSE) /\ UNCHANGED <<disk, told>>

\* A person writes a document, or edits the text of one.
HandEdits(n) ==
    \E body \in Bodies, o \in Owners :
        LET doc == disk.docs[n] IN
        /\ MayWrite /\ Counted(FALSE) /\ UNCHANGED changes
        /\ IF doc = NoSkill
           THEN /\ EntryIn(Entries(disk), o, n) = 0
                /\ disk' = [disk EXCEPT !.docs[n] = [id |-> 0, owner |-> o, body |-> body, status |-> "active"]]
                /\ SkillKnown(o, n, {[body |-> body, status |-> "active"]})
           ELSE /\ o = doc.owner /\ disk' = [disk EXCEPT !.docs[n].body = body]
                /\ SkillKnown(o, n, {[v EXCEPT !.body = body] : v \in told[o][n] \ {Absent}})

SkillNext ==
    \/ \E o \in Owners, n \in Skills : SkillSave(o, n) \/ SkillSetStatus(o, n) \/ StageSave(o, n) \/ StageStatus(o, n)
    \/ \E i \in DOMAIN changes : ApproveChange(i) \/ RejectChange(i)
    \/ \E n \in Skills : HandEdits(n)

SkillSpec == SkillInit /\ [][SkillNext]_skillVars

-----------------------------------------------------------------------------
(* Properties *)

\* No two skills have the same id, whatever a crash left of the cache.
IdsUnique == LET entries == Entries(disk) IN \A j, k \in DOMAIN entries : entries[j].id = entries[k].id => j = k

\* A skill reads as it was last saved, changed or edited by hand; after a crash as before it or as
\* meant.  It is stated for names that one scope uses: skills of one name in two scopes have one document.
ReadsAsSaved ==
    LET entries == Entries(disk) IN
    \A o \in Owners, n \in Skills :
        LET skill == ReadFrom(disk, entries, o, n) IN
        (\A p \in Owners \ {o} : told[p][n] = {Absent}) => [body |-> skill.body, status |-> skill.status] \in told[o][n]

\* The queue tells the truth: an approved change was made, once unless there was a crash, and a
\* pending or rejected one was not.  A change that was approved after its decision is excepted:
\* approve makes the change of a rejected record too, and then reports an error.
QueueTrue ==
    \A i \in DOMAIN changes :
        LET c == changes[i] IN
        /\ c.state = "approved" => c.applied > 0
        /\ ~c.again /\ skillRuns.crashes = 0 => c.applied = (IF c.state = "approved" THEN 1 ELSE 0)

\* All three.
SkillsSound == IdsUnique /\ ReadsAsSaved /\ QueueTrue
=============================================================================
