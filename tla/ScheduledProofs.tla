--------------------------- MODULE ScheduledProofs ---------------------------
(***************************************************************************)
(* Theorems about what outlives a turn: the skills (SkillStore), the        *)
(* scheduled jobs (ScheduledJobs), the memories (MemoryStore), the history  *)
(* with its temporary threads (ChatHistory) and the requests of the peer    *)
(* bot and to it (AgentBridge), for every finite set of skills, every set   *)
(* of jobs, legacy jobs, loops, users, texts, threads and requests, and any *)
(* number of writes, crashes, firings, wipes, restarts and turns.           *)
(***************************************************************************)
EXTENDS ScheduledJobs, SkillStore, MemoryStore, ChatHistory, AgentBridge, DataLemmas, SequenceTheorems, TLAPS

-----------------------------------------------------------------------------
(***************************************************************************)
(* Skills.  What a document and the cache say of a skill agrees on its id, *)
(* whatever was written last.                                              *)
(***************************************************************************)

DocumentRecord == [id : Nat \cup Skills, owner : Owners, body : Bodies, status : SkillStatuses]
EntryRecord ==
    [id : (Nat \ {0}) \cup Skills, name : Skills, owner : Owners, body : Bodies, status : SkillStatuses]
SkillValues == [body : Bodies, status : SkillStatuses]
ValueOf(doc) == [body |-> doc.body, status |-> doc.status]

DocsSound(docs) ==
    /\ docs \in [Skills -> DocumentRecord \cup {NoSkill}]
    /\ \A n \in Skills : docs[n].id \in Skills => docs[n].id = n
    /\ \A m, n \in Skills : docs[m].id # 0 /\ docs[m].id = docs[n].id => m = n

IdOfName(e) == e.id \in Skills => e.id = e.name
IdsOnce(es) == \A j, k \in DOMAIN es : es[j].id = es[k].id => j = k
SkillsOnce(es) == \A j, k \in DOMAIN es : es[j].name = es[k].name /\ es[j].owner = es[k].owner => j = k
\* An entry and a document have the same id just when they are the same skill's.
AgreesWith(docs, e) ==
    /\ docs[e.name] # NoSkill
    /\ \A n \in Skills : docs[n].id # 0 => (e.id = docs[n].id <=> e.name = n /\ e.owner = docs[n].owner)
    /\ docs[e.name].id = 0 => e.owner = docs[e.name].owner /\ e.id = e.name
EntrySound(docs, e) == e \in EntryRecord /\ IdOfName(e) /\ AgreesWith(docs, e)
EntriesSound(docs, es) ==
    /\ es \in Seq(EntryRecord) /\ \A j \in DOMAIN es : EntrySound(docs, es[j])
    /\ IdsOnce(es) /\ SkillsOnce(es)

DiskSound(d) ==
    /\ d = [docs |-> d.docs, cache |-> d.cache, nextId |-> d.nextId] /\ d.nextId \in Nat \ {0}
    /\ DocsSound(d.docs) /\ EntriesSound(d.docs, d.cache)

\* What a disk holds has been told of, and is what was told where no other scope uses the name.
Alone(T, o, n) == \A p \in Owners \ {o} : T[p][n] = {Absent}
Knows(d, T) ==
    /\ \A n \in Skills : d.docs[n] # NoSkill =>
          /\ T[d.docs[n].owner][n] # {Absent}
          /\ Alone(T, d.docs[n].owner, n) => ValueOf(d.docs[n]) \in T[d.docs[n].owner][n]
    /\ \A n \in Skills : d.docs[n] = NoSkill => \A o \in Owners : T[o][n] = {Absent}
    /\ \A j \in DOMAIN d.cache : T[d.cache[j].owner][d.cache[j].name] # {Absent}

ToldTyped(T) == T \in [Owners -> [Skills -> SUBSET (SkillValues \cup {Absent})]]

ChangeRecord ==
    [operation : {"create", "update", "archive"}, owner : Owners, name : Skills, body : Bodies \cup {"none"},
     status : SkillStatuses, state : {"pending", "approved", "rejected"}, applied : Nat, again : BOOLEAN]
\* What a change in the queue says of itself is true.
ChangeSound(c, crashes) ==
    /\ c \in ChangeRecord
    /\ c.operation = "create" => c.body \in Bodies
    /\ c.operation = "archive" => c.status = "archived"
    /\ c.state = "approved" => c.applied > 0
    /\ ~c.again /\ crashes = 0 => c.applied = (IF c.state = "approved" THEN 1 ELSE 0)
ChangesSound(queue, crashes) ==
    queue \in Seq(ChangeRecord) /\ \A i \in DOMAIN queue : ChangeSound(queue[i], crashes)

\* What is known of the disk, and of the queue.
Kept(d, T) == DiskSound(d) /\ Knows(d, T) /\ ToldTyped(T)
QueueHeld == ChangesSound(changes, skillRuns.crashes) /\ skillRuns \in [writes : Nat, crashes : Nat]

SkillInv == Kept(disk, told) /\ QueueHeld

LEMMA FirstIsOne ==
    ASSUME NEW hits, hits \subseteq Nat
    PROVE  (hits = {} /\ FirstOf(hits) = 0) \/ (hits # {} /\ FirstOf(hits) \in hits)
  <1>1. CASE hits = {}  BY <1>1 DEF FirstOf
  <1>2. CASE hits # {}
    <2>1. \E k \in hits : \A j \in hits : k <= j  BY <1>2, LeastOf
    <2> QED  BY <1>2, <2>1 DEF FirstOf
  <1> QED  BY <1>1, <1>2

\* Every skill's document is merged.
LEMMA OrderHasAll ==
    /\ Cardinality(Skills) \in Nat /\ SkillOrder \in [1..Cardinality(Skills) -> Skills]
    /\ \A n \in Skills : \E i \in 1..Cardinality(Skills) : SkillOrder[i] = n
  <1> DEFINE N == Cardinality(Skills)
  <1>1. IsFiniteSet(Skills)  BY SkillAssumption
  <1>2. N \in Nat /\ ExistsBijection(1..N, Skills)  BY <1>1, FS_CardinalityType
  <1>3. \E f \in [1..N -> Skills] : IsInjective(f)
    BY <1>2 DEF ExistsBijection, Bijection, Injection
  <1>4. SkillOrder \in [1..N -> Skills] /\ IsInjective(SkillOrder)  BY <1>3 DEF SkillOrder, SetToSeq
  <1>5. ASSUME NEW n \in Skills, \A i \in 1..N : SkillOrder[i] # n PROVE FALSE
    <2>1. IsFiniteSet(Skills \ {n}) /\ Cardinality(Skills \ {n}) = N - 1
      <3>1. IsFiniteSet(Skills \ {n}) /\ Cardinality(Skills \ {n}) = IF n \in Skills THEN N - 1 ELSE N
        BY <1>1, FS_RemoveElement
      <3> QED  BY <3>1
    <2>2. SkillOrder \in [1..N -> Skills \ {n}]  BY <1>4, <1>5
    <2>3. IsFiniteSet(1..N) /\ Cardinality(1..N) = N
      <3>1. 1 \in Int /\ N \in Int  BY <1>2
      <3>2. IsFiniteSet(1..N) /\ Cardinality(1..N) = IF 1 > N THEN 0 ELSE N - 1 + 1  BY <3>1, FS_Interval
      <3> QED  BY <1>2, <3>2
    <2>4. Cardinality(Skills \ {n}) < Cardinality(1..N)  BY <1>2, <2>1, <2>3
    <2>5. \E x, y \in 1..N : x # y /\ SkillOrder[x] = SkillOrder[y]
      <3> HIDE DEF N
      <3> QED  BY <2>1, <2>2, <2>3, <2>4, FS_PigeonHole
    <2> QED  BY <1>4, <2>5 DEF IsInjective
  <1> QED  BY <1>2, <1>4, <1>5

\* What merging a document, or all of them, makes of the entries.
Extends(old, es) ==
    /\ DOMAIN old \subseteq DOMAIN es
    /\ \A j \in DOMAIN old : es[j].id = old[j].id /\ es[j].name = old[j].name /\ es[j].owner = old[j].owner
Comes(docs, old, es) == \A j \in DOMAIN es : j \in DOMAIN old \/ es[j].owner = docs[es[j].name].owner
Merged(docs, es, n) ==
    \E j \in DOMAIN es : es[j] = [id |-> DocumentId(docs[n], n), name |-> n, owner |-> docs[n].owner,
                                  body |-> docs[n].body, status |-> docs[n].status]
Merges(docs, old, es, ns) ==
    /\ EntriesSound(docs, es) /\ Extends(old, es) /\ Comes(docs, old, es)
    /\ \A n \in ns : docs[n] # NoSkill => Merged(docs, es, n)

\* Entries are sound by their ids, names and owners alone.
Alike(old, es) ==
    /\ es \in Seq(EntryRecord) /\ DOMAIN es = DOMAIN old
    /\ \A j \in DOMAIN old : es[j].id = old[j].id /\ es[j].name = old[j].name /\ es[j].owner = old[j].owner

LEMMA AlikeSound ==
    ASSUME NEW docs, NEW old, NEW es, EntriesSound(docs, old), Alike(old, es)
    PROVE  EntriesSound(docs, es) /\ Extends(old, es) /\ Comes(docs, old, es)
  <1>1. es \in Seq(EntryRecord)  BY DEF Alike
  <1>2. \A j \in DOMAIN es : EntrySound(docs, es[j])
    <2> SUFFICES ASSUME NEW j \in DOMAIN es PROVE EntrySound(docs, es[j])
      OBVIOUS
    <2>1. j \in DOMAIN old /\ es[j].id = old[j].id /\ es[j].name = old[j].name /\ es[j].owner = old[j].owner
      BY DEF Alike
    <2>2. EntrySound(docs, old[j])  BY <2>1 DEF EntriesSound
    <2>3. es[j] \in EntryRecord  BY <1>1
    <2>4. IdOfName(es[j])  BY <2>1, <2>2 DEF EntrySound, IdOfName
    <2>5. AgreesWith(docs, es[j])  BY <2>1, <2>2 DEF EntrySound, AgreesWith
    <2> QED  BY <2>3, <2>4, <2>5 DEF EntrySound
  <1>3. IdsOnce(es)
    <2>1. IdsOnce(old)  BY DEF EntriesSound
    <2> QED  BY <2>1 DEF Alike, IdsOnce
  <1>4. SkillsOnce(es)
    <2>1. SkillsOnce(old)  BY DEF EntriesSound
    <2> QED  BY <2>1 DEF Alike, SkillsOnce
  <1>5. EntriesSound(docs, es)  BY <1>1, <1>2, <1>3, <1>4 DEF EntriesSound
  <1> QED  BY <1>5 DEF Alike, Extends, Comes

\* A document finds the entry of its name and its owner, and no other.
LEMMA HitsAre ==
    ASSUME NEW docs, NEW es, NEW n \in Skills, EntriesSound(docs, es)
    PROVE  {j \in DOMAIN es : \/ es[j].id = docs[n].id
                              \/ es[j].name = n /\ es[j].owner = docs[n].owner}
             = {j \in DOMAIN es : es[j].name = n /\ es[j].owner = docs[n].owner}
  <1>1. ASSUME NEW j \in DOMAIN es, es[j].id = docs[n].id
        PROVE  es[j].name = n /\ es[j].owner = docs[n].owner
    <2>1. EntrySound(docs, es[j])  BY DEF EntriesSound
    <2>2. es[j].id # 0  BY <2>1, SkillAssumption DEF EntrySound, EntryRecord
    <2> QED  BY <1>1, <2>1, <2>2 DEF EntrySound, AgreesWith
  <1> QED  BY <1>1

LEMMA EntryInIs ==
    ASSUME NEW es, es \in Seq(EntryRecord), NEW o, NEW n
    PROVE  \/ EntryIn(es, o, n) = 0 /\ \A j \in DOMAIN es : ~(es[j].name = n /\ es[j].owner = o)
           \/ /\ EntryIn(es, o, n) \in DOMAIN es /\ EntryIn(es, o, n) # 0
              /\ es[EntryIn(es, o, n)].name = n /\ es[EntryIn(es, o, n)].owner = o
  <1> DEFINE hits == {j \in DOMAIN es : es[j].name = n /\ es[j].owner = o}
  <1>1. DOMAIN es = 1..Len(es) /\ Len(es) \in Nat  BY LenProperties
  <1>2. hits \subseteq Nat /\ 0 \notin hits  BY <1>1
  <1>3. EntryIn(es, o, n) = FirstOf(hits)  BY DEF EntryIn
  <1>4. (hits = {} /\ FirstOf(hits) = 0) \/ (hits # {} /\ FirstOf(hits) \in hits)
    <2> HIDE DEF hits
    <2> QED  BY <1>2, FirstIsOne
  <1> QED  BY <1>2, <1>3, <1>4

Adds(old, es, e) ==
    /\ es \in Seq(EntryRecord) /\ IdsOnce(es) /\ SkillsOnce(es) /\ Extends(old, es)
    /\ Len(old) + 1 \in DOMAIN es /\ es[Len(old) + 1] = e
    /\ \A j \in DOMAIN old : j \in DOMAIN es /\ es[j] = old[j]
    /\ \A j \in DOMAIN es : (j \in DOMAIN old /\ es[j] = old[j]) \/ (j = Len(old) + 1 /\ es[j] = e)

\* An entry that is the first of its name and owner, with an id of its own, may be added.
LEMMA AddsOne ==
    ASSUME NEW old, NEW e, old \in Seq(EntryRecord), e \in EntryRecord, IdsOnce(old), SkillsOnce(old),
           \A j \in DOMAIN old : ~(old[j].name = e.name /\ old[j].owner = e.owner),
           \A j \in DOMAIN old : old[j].id # e.id
    PROVE  Adds(old, Append(old, e), e)
  <1> DEFINE es == Append(old, e)
  <1>1. old \in Seq(EntryRecord) /\ e \in EntryRecord  OBVIOUS
  <1>2. DOMAIN old = 1..Len(old) /\ Len(old) \in Nat  BY <1>1, LenProperties
  <1>3. es \in Seq(EntryRecord)  BY <1>1, AppendProperties
  <1>4. Len(es) = Len(old) + 1  BY <1>1, AppendProperties
  <1>5. \A j \in 1..Len(old) : es[j] = old[j]  BY <1>1, AppendProperties
  <1>6. es[Len(old) + 1] = e  BY <1>1, AppendProperties
  <1>7. DOMAIN es = 1..Len(es)  BY <1>3, LenProperties
  <1> HIDE DEF es
  <1>8. DOMAIN es = 1..(Len(old) + 1)  BY <1>4, <1>7
  <1>9. \A j \in DOMAIN es : (j \in DOMAIN old /\ es[j] = old[j]) \/ (j = Len(old) + 1 /\ es[j] = e)
    <2> SUFFICES ASSUME NEW j \in DOMAIN es, j \notin DOMAIN old PROVE j = Len(old) + 1
      BY <1>2, <1>5, <1>6
    <2> QED  BY <1>2, <1>8
  <1>10. \A j \in DOMAIN old : j \in DOMAIN es /\ es[j] = old[j]  BY <1>2, <1>5, <1>8
  <1>11. Len(old) + 1 \in DOMAIN es  BY <1>2, <1>8
  <1>12. IdsOnce(es)
    <2> SUFFICES ASSUME NEW j \in DOMAIN es, NEW k \in DOMAIN es, es[j].id = es[k].id PROVE j = k
      BY DEF IdsOnce
    <2>1. CASE j \in DOMAIN old /\ es[j] = old[j] /\ k \in DOMAIN old /\ es[k] = old[k]
      BY <2>1 DEF IdsOnce
    <2> QED  BY <1>9, <2>1
  <1>13. SkillsOnce(es)
    <2> SUFFICES ASSUME NEW j \in DOMAIN es, NEW k \in DOMAIN es, es[j].name = es[k].name, es[j].owner = es[k].owner
                 PROVE  j = k
      BY DEF SkillsOnce
    <2>1. CASE j \in DOMAIN old /\ es[j] = old[j] /\ k \in DOMAIN old /\ es[k] = old[k]
      BY <2>1 DEF SkillsOnce
    <2> QED  BY <1>9, <2>1
  <1>14. Extends(old, es)  BY <1>10 DEF Extends
  <1> QED  BY <1>3, <1>6, <1>9, <1>10, <1>11, <1>12, <1>13, <1>14 DEF es, Adds

MergesOne(docs, old, es, n) ==
    /\ Merges(docs, old, es, {n})
    /\ \A m \in Skills \ {n} : Merged(docs, old, m) => Merged(docs, es, m)

\* An entry that a document makes, where the cache has none of its skill.
LEMMA MergesNew ==
    ASSUME NEW docs, NEW old, NEW n \in Skills, NEW e, DocsSound(docs), EntriesSound(docs, old), docs[n] # NoSkill,
           e = [id |-> DocumentId(docs[n], n), name |-> n, owner |-> docs[n].owner,
                body |-> docs[n].body, status |-> docs[n].status],
           \A j \in DOMAIN old : ~(old[j].name = n /\ old[j].owner = docs[n].owner)
    PROVE  MergesOne(docs, old, Append(old, e), n)
  <1>1. docs[n] \in DocumentRecord
    <2>1. docs \in [Skills -> DocumentRecord \cup {NoSkill}]  BY DEF DocsSound
    <2> QED  BY <2>1
  <1>2. e.id = DocumentId(docs[n], n) /\ e.name = n /\ e.owner = docs[n].owner  OBVIOUS
  <1>3. e \in EntryRecord  BY <1>1 DEF EntryRecord, DocumentRecord, DocumentId
  <1>4. EntrySound(docs, e) /\ \A j \in DOMAIN old : old[j].id # e.id
    <2>1. CASE docs[n].id # 0
      <3>1. e.id = docs[n].id  BY <1>2, <2>1 DEF DocumentId
      <3>2. IdOfName(e)  BY <1>2, <3>1 DEF DocsSound, IdOfName
      <3>3. AgreesWith(docs, e)
        <4>1. \A m \in Skills : docs[m].id # 0 => (e.id = docs[m].id <=> n = m)
          BY <2>1, <3>1 DEF DocsSound
        <4> QED  BY <1>2, <2>1, <4>1 DEF AgreesWith
      <3>4. \A j \in DOMAIN old : old[j].id # e.id
        <4>1. \A j \in DOMAIN old : AgreesWith(docs, old[j])  BY DEF EntriesSound, EntrySound
        <4> QED  BY <2>1, <3>1, <4>1 DEF AgreesWith
      <3> QED  BY <1>3, <3>2, <3>3, <3>4 DEF EntrySound
    <2>2. CASE docs[n].id = 0
      <3>1. e.id = n  BY <1>2, <2>2 DEF DocumentId
      <3>2. IdOfName(e)  BY <1>2, <3>1 DEF IdOfName
      <3>3. AgreesWith(docs, e)
        <4>1. \A m \in Skills : docs[m].id # 0 => docs[m].id # n /\ n # m
          BY <2>2 DEF DocsSound
        <4> QED  BY <1>2, <2>2, <3>1, <4>1 DEF AgreesWith
      <3>4. ASSUME NEW j \in DOMAIN old, old[j].id = n PROVE FALSE
        <4>1. IdOfName(old[j]) /\ AgreesWith(docs, old[j])  BY DEF EntriesSound, EntrySound
        <4>2. old[j].name = n  BY <3>4, <4>1 DEF IdOfName
        <4> QED  BY <2>2, <4>1, <4>2 DEF AgreesWith
      <3> QED  BY <1>3, <3>1, <3>2, <3>3, <3>4 DEF EntrySound
    <2> QED  BY <2>1, <2>2
  <1> DEFINE es == Append(old, e)
  <1>5. Adds(old, es, e)
    <2>1. \A j \in DOMAIN old : ~(old[j].name = e.name /\ old[j].owner = e.owner)  BY <1>2
    <2>2. old \in Seq(EntryRecord) /\ IdsOnce(old) /\ SkillsOnce(old)  BY DEF EntriesSound
    <2> QED  BY <1>3, <1>4, <2>1, <2>2, AddsOne
  <1> HIDE DEF es
  <1>6. Comes(docs, old, es)  BY <1>2, <1>5 DEF Comes, Adds
  <1>7. EntriesSound(docs, es)
    <2>1. \A j \in DOMAIN old : EntrySound(docs, old[j])  BY DEF EntriesSound
    <2> QED  BY <1>4, <1>5, <2>1 DEF Adds, EntriesSound
  <1>8. Merged(docs, es, n)  BY <1>5 DEF Merged, Adds
  <1>9. \A m \in Skills : Merged(docs, old, m) => Merged(docs, es, m)  BY <1>5 DEF Merged, Adds
  <1>10. MergesOne(docs, old, es, n)  BY <1>5, <1>6, <1>7, <1>8, <1>9 DEF MergesOne, Merges, Adds
  <1> QED  BY <1>10 DEF es

\* An entry that a document replaces keeps its id, its name and its owner.
LEMMA MergesOver ==
    ASSUME NEW docs, NEW old, NEW n \in Skills, NEW k \in DOMAIN old, DocsSound(docs), EntriesSound(docs, old),
           docs[n] # NoSkill, old[k].name = n, old[k].owner = docs[n].owner
    PROVE  MergesOne(docs, old, ImportedOver(old, k, docs[n], n), n)
  <1> DEFINE e == [id |-> DocumentId(docs[n], n), name |-> n, owner |-> docs[n].owner,
                   body |-> docs[n].body, status |-> docs[n].status]
             es == [old EXCEPT ![k] = e]
  <1>1. EntrySound(docs, old[k]) /\ old[k].id # 0
    <2>1. EntrySound(docs, old[k])  BY DEF EntriesSound
    <2> QED  BY <2>1, SkillAssumption DEF EntrySound, EntryRecord
  <1>2. old[k].id = DocumentId(docs[n], n)
    <2>1. CASE docs[n].id = 0  BY <1>1, <2>1 DEF EntrySound, AgreesWith, DocumentId
    <2>2. CASE docs[n].id # 0  BY <1>1, <2>2 DEF EntrySound, AgreesWith, DocumentId
    <2> QED  BY <2>1, <2>2
  <1>3. ImportedOver(old, k, docs[n], n) = es
    <2>1. (IF docs[n].id = 0 THEN old[k].id ELSE docs[n].id) = DocumentId(docs[n], n)  BY <1>2 DEF DocumentId
    <2> QED  BY <2>1 DEF ImportedOver
  <1>4. docs[n] \in DocumentRecord
    <2>1. docs \in [Skills -> DocumentRecord \cup {NoSkill}]  BY DEF DocsSound
    <2> QED  BY <2>1
  <1>5. e \in EntryRecord  BY <1>4 DEF EntryRecord, DocumentRecord, DocumentId
  <1>6. old \in Seq(EntryRecord)  BY DEF EntriesSound
  <1>7. e.id = old[k].id /\ e.name = old[k].name /\ e.owner = old[k].owner  BY <1>2
  <1>8. es \in Seq(EntryRecord) /\ DOMAIN es = DOMAIN old
        /\ es[k] = e /\ \A j \in DOMAIN old : j # k => es[j] = old[j]
    <2> HIDE DEF e
    <2> QED  BY <1>5, <1>6
  <1> HIDE DEF e, es
  <1>9. Alike(old, es)  BY <1>7, <1>8 DEF Alike
  <1>10. EntriesSound(docs, es) /\ Extends(old, es) /\ Comes(docs, old, es)  BY <1>9, AlikeSound
  <1>11. Merged(docs, es, n)  BY <1>8 DEF Merged, e
  <1>12. \A m \in Skills \ {n} : Merged(docs, old, m) => Merged(docs, es, m)
    <2> SUFFICES ASSUME NEW m \in Skills \ {n}, Merged(docs, old, m) PROVE Merged(docs, es, m)
      OBVIOUS
    <2>1. PICK j \in DOMAIN old :
             old[j] = [id |-> DocumentId(docs[m], m), name |-> m, owner |-> docs[m].owner,
                       body |-> docs[m].body, status |-> docs[m].status]
      BY DEF Merged
    <2>2. j # k  BY <2>1
    <2> QED  BY <1>8, <2>1, <2>2 DEF Merged
  <1> QED  BY <1>3, <1>10, <1>11, <1>12 DEF MergesOne, Merges

LEMMA ImportsOne ==
    ASSUME NEW docs, NEW old, NEW n \in Skills, DocsSound(docs), EntriesSound(docs, old)
    PROVE  MergesOne(docs, old, ImportedDocument(docs, old, n), n)
  <1>1. CASE docs[n] = NoSkill
    <2>1. ImportedDocument(docs, old, n) = old  BY <1>1 DEF ImportedDocument
    <2>2. old \in Seq(EntryRecord)  BY DEF EntriesSound
    <2>3. Alike(old, old)  BY <2>2 DEF Alike
    <2>4. Extends(old, old) /\ Comes(docs, old, old)  BY <2>3, AlikeSound
    <2> QED  BY <1>1, <2>1, <2>4 DEF MergesOne, Merges
  <1>2. CASE docs[n] # NoSkill
    <2> DEFINE k == EntryIn(old, docs[n].owner, n)
               hits == {j \in DOMAIN old : \/ old[j].id = docs[n].id
                                           \/ old[j].name = n /\ old[j].owner = docs[n].owner}
               e == [id |-> DocumentId(docs[n], n), name |-> n, owner |-> docs[n].owner,
                     body |-> docs[n].body, status |-> docs[n].status]
    <2>1. FirstOf(hits) = k  BY HitsAre DEF EntryIn
    <2>2. ImportedDocument(docs, old, n) = IF k # 0 THEN ImportedOver(old, k, docs[n], n) ELSE Append(old, e)
      <3>1. ImportedDocument(docs, old, n) = IF FirstOf(hits) # 0 THEN ImportedOver(old, FirstOf(hits), docs[n], n)
                                             ELSE Append(old, e)
        BY <1>2 DEF ImportedDocument
      <3> HIDE DEF k, hits, e
      <3> QED  BY <2>1, <3>1
    <2>3. old \in Seq(EntryRecord)  BY DEF EntriesSound
    <2>4. \/ k = 0 /\ \A j \in DOMAIN old : ~(old[j].name = n /\ old[j].owner = docs[n].owner)
          \/ k \in DOMAIN old /\ k # 0 /\ old[k].name = n /\ old[k].owner = docs[n].owner
      BY <2>3, EntryInIs
    <2> HIDE DEF k, hits
    <2>5. CASE k # 0
      <3>1. MergesOne(docs, old, ImportedOver(old, k, docs[n], n), n)  BY <1>2, <2>4, <2>5, MergesOver
      <3> QED  BY <2>2, <2>5, <3>1
    <2>6. CASE k = 0
      <3>1. MergesOne(docs, old, Append(old, e), n)
        <4>1. \A j \in DOMAIN old : ~(old[j].name = n /\ old[j].owner = docs[n].owner)  BY <2>4, <2>6
        <4>2. e = [id |-> DocumentId(docs[n], n), name |-> n, owner |-> docs[n].owner,
                   body |-> docs[n].body, status |-> docs[n].status]
          OBVIOUS
        <4> HIDE DEF e
        <4> QED  BY <1>2, <4>1, <4>2, MergesNew
      <3> QED  BY <2>2, <2>6, <3>1
    <2> QED  BY <2>5, <2>6
  <1> QED  BY <1>1, <1>2

\* What is merged stays so while the other documents are merged.
LEMMA MergesMore ==
    ASSUME NEW docs, NEW first, NEW old, NEW es, NEW ns, NEW n, ns \subseteq Skills, n \in Skills,
           Merges(docs, first, old, ns), MergesOne(docs, old, es, n)
    PROVE  Merges(docs, first, es, ns \cup {n})
  <1>1. EntriesSound(docs, es) /\ Extends(old, es) /\ Comes(docs, old, es)  BY DEF MergesOne, Merges
  <1>2. Extends(first, old) /\ Comes(docs, first, old)  BY DEF Merges
  <1>3. Extends(first, es)  BY <1>1, <1>2 DEF Extends
  <1>4. Comes(docs, first, es)  BY <1>1, <1>2 DEF Extends, Comes
  <1>5. ASSUME NEW m \in ns \cup {n}, docs[m] # NoSkill PROVE Merged(docs, es, m)
    <2>1. CASE m = n  BY <1>5, <2>1 DEF MergesOne, Merges
    <2>2. CASE m # n
      <3>1. m \in ns  BY <2>2
      <3> QED  BY <1>5, <2>2, <3>1 DEF MergesOne, Merges
    <2> QED  BY <2>1, <2>2
  <1> QED  BY <1>1, <1>3, <1>4, <1>5 DEF Merges

\* The entries after a load have every document's skill, and besides them what the cache had.
LEMMA EntriesAre ==
    ASSUME NEW d, DiskSound(d)
    PROVE  Merges(d.docs, d.cache, Entries(d), Skills)
  <1> DEFINE N == Cardinality(Skills)
             S == {es \in Seq(EntryRecord) : EntriesSound(d.docs, es)}
             step == [i \in 1..N |-> [es \in S |-> ImportedDocument(d.docs, es, SkillOrder[i])]]
             P(g) == g = [i \in 0..N |-> IF i = 0 THEN d.cache ELSE ImportedDocument(d.docs, g[i - 1], SkillOrder[i])]
             merged == CHOOSE g : P(g)
             T == {i \in 0..N : Merges(d.docs, d.cache, merged[i], {SkillOrder[j] : j \in 1..i})}
  <1>1. N \in Nat /\ \A i \in 1..N : SkillOrder[i] \in Skills  BY OrderHasAll
  <1>2. DocsSound(d.docs) /\ EntriesSound(d.docs, d.cache)  BY DEF DiskSound
  <1>3. d.cache \in S  BY <1>2 DEF EntriesSound
  <1>4. \A es \in S, n \in Skills : MergesOne(d.docs, es, ImportedDocument(d.docs, es, n), n)
    BY <1>2, ImportsOne
  <1>5. \A es \in S, n \in Skills : ImportedDocument(d.docs, es, n) \in S
    BY <1>4 DEF MergesOne, Merges, EntriesSound
  <1>6. step \in [1..N -> [S -> S]]
    <2> HIDE DEF N, S
    <2> QED  BY <1>1, <1>5
  <1>7. PICK f \in [0..N -> S] : Iterates(f, N, d.cache, step)
    <2> HIDE DEF N, S, step
    <2> QED  BY <1>1, <1>3, <1>6, IterationExists
  <1>8. P(f)
    <2>1. \A i \in 0..N : i # 0 => i \in 1..N /\ i - 1 \in 0..N  BY <1>1
    <2>2. \A i \in 1..N : f[i] = ImportedDocument(d.docs, f[i - 1], SkillOrder[i])
      <3> SUFFICES ASSUME NEW i \in 1..N PROVE f[i] = ImportedDocument(d.docs, f[i - 1], SkillOrder[i])
        OBVIOUS
      <3>1. i - 1 \in 0..N  BY <1>1
      <3>2. f[i] = step[i][f[i - 1]]  BY <1>7 DEF Iterates
      <3>3. f[i - 1] \in S  BY <3>1
      <3> HIDE DEF S, N
      <3> QED  BY <3>2, <3>3
    <2>3. f[0] = d.cache  BY <1>7 DEF Iterates
    <2> HIDE DEF S, step
    <2>4. f = [i \in 0..N |-> f[i]]  OBVIOUS
    <2> QED  BY <2>1, <2>2, <2>3, <2>4
  <1>9. P(merged)
    <2> HIDE DEF P
    <2> QED  BY <1>8
  <1>10. Entries(d) = merged[N]  BY DEF Entries
  <1> HIDE DEF merged
  <1>11. 0..N \subseteq T
    <2>1. 0 \in T
      <3>1. 0 \in 0..N  BY <1>1
      <3>2. merged[0] = d.cache  BY <1>9, <3>1
      <3>3. {SkillOrder[j] : j \in 1..0} = {}  OBVIOUS
      <3>4. d.cache \in Seq(EntryRecord)  BY <1>2 DEF EntriesSound
      <3>5. Alike(d.cache, d.cache)  BY <3>4 DEF Alike
      <3>6. Extends(d.cache, d.cache) /\ Comes(d.docs, d.cache, d.cache)  BY <1>2, <3>5, AlikeSound
      <3>7. Merges(d.docs, d.cache, d.cache, {})  BY <1>2, <3>6 DEF Merges
      <3> QED  BY <3>1, <3>2, <3>3, <3>7
    <2>2. ASSUME NEW i \in 1..N, i - 1 \in T PROVE i \in T
      <3>1. i \in 0..N /\ i # 0 /\ i - 1 \in 0..N  BY <1>1
      <3>2. merged[i] = ImportedDocument(d.docs, merged[i - 1], SkillOrder[i])  BY <1>9, <3>1
      <3> DEFINE ns == {SkillOrder[j] : j \in 1..(i - 1)}
      <3>3. Merges(d.docs, d.cache, merged[i - 1], ns)  BY <2>2
      <3>4. SkillOrder[i] \in Skills  BY <1>1
      <3>5. merged[i - 1] \in S  BY <3>3 DEF Merges, EntriesSound
      <3>6. MergesOne(d.docs, merged[i - 1], merged[i], SkillOrder[i])  BY <1>4, <3>2, <3>4, <3>5
      <3>7. ns \subseteq Skills
        <4>1. \A j \in 1..(i - 1) : j \in 1..N  BY <1>1
        <4> HIDE DEF N
        <4> QED  BY <1>1, <4>1
      <3>8. {SkillOrder[j] : j \in 1..i} = ns \cup {SkillOrder[i]}
        <4>1. 1..i = 1..(i - 1) \cup {i}  BY <1>1
        <4> QED  BY <4>1
      <3>9. Merges(d.docs, d.cache, merged[i], ns \cup {SkillOrder[i]})
        <4> HIDE DEF ns
        <4> QED  BY <3>3, <3>4, <3>6, <3>7, MergesMore
      <3> HIDE DEF N, ns
      <3> QED  BY <3>1, <3>8, <3>9
    <2> HIDE DEF T, N
    <2> QED  BY <1>1, <2>1, <2>2, Upwards
  <1>12. N \in 0..N  BY <1>1
  <1>13. Merges(d.docs, d.cache, Entries(d), {SkillOrder[j] : j \in 1..N})
    <2>1. N \in T  BY <1>11, <1>12
    <2> HIDE DEF N
    <2> QED  BY <1>10, <2>1
  <1>14. {SkillOrder[j] : j \in 1..N} = Skills
    <2>1. \A n \in Skills : \E j \in 1..N : SkillOrder[j] = n  BY OrderHasAll
    <2> HIDE DEF N
    <2> QED  BY <1>1, <2>1
  <1> QED  BY <1>13, <1>14

LEMMA GreatestOf ==
    ASSUME NEW S, S \subseteq Nat, S # {}, NEW b \in Nat, \A y \in S : y <= b
    PROVE  \E x \in S : \A y \in S : x >= y
  <1> DEFINE U == {b - y : y \in S}
  <1>1. U \subseteq Nat /\ U # {}
    <2>1. \A y \in S : y \in Nat /\ y <= b /\ b - y \in Nat  OBVIOUS
    <2> QED  BY <2>1
  <1>2. PICK u \in U : \A v \in U : u <= v
    <2> HIDE DEF U
    <2> QED  BY <1>1, LeastOf
  <1>3. PICK x \in S : u = b - x  BY <1>2
  <1>4. \A y \in S : b - y \in U  OBVIOUS
  <1>5. \A y \in S : b - x <= b - y  BY <1>2, <1>3, <1>4
  <1>6. \A y \in S : x \in Nat /\ y \in Nat /\ (b - x <= b - y => x >= y)  BY <1>3
  <1> QED  BY <1>3, <1>5, <1>6

\* The next id is the id of no entry.
LEMMA NextIdIs ==
    ASSUME NEW d, d.nextId \in Nat \ {0}, NEW es, es \in Seq(EntryRecord)
    PROVE  NextId(d, es) \in Nat \ {0} /\ \A j \in DOMAIN es : es[j].id # NextId(d, es)
  <1> DEFINE N == Len(es)
             T == {k \in 0..N : \E b \in Nat : \A j \in 1..k : es[j].id \in Nat => es[j].id <= b}
             ids == {e.id : e \in Range(es)} \ Skills
             S == {d.nextId} \cup {i + 1 : i \in ids}
  <1>1. N \in Nat /\ DOMAIN es = 1..N  BY LenProperties
  <1>2. 0..N \subseteq T
    <2>1. 0 \in T
      <3>1. 0 \in 0..N /\ 1..0 = {} /\ 0 \in Nat  BY <1>1
      <3> QED  BY <3>1
    <2>2. ASSUME NEW k \in 1..N, k - 1 \in T PROVE k \in T
      <3>1. PICK b \in Nat : \A j \in 1..(k - 1) : es[j].id \in Nat => es[j].id <= b  BY <2>2
      <3>2. k \in 0..N /\ \A j \in 1..k : j = k \/ j \in 1..(k - 1)  BY <1>1
      <3>3. CASE es[k].id \notin Nat
        <4>1. \A j \in 1..k : es[j].id \in Nat => es[j].id <= b  BY <3>1, <3>2, <3>3
        <4> QED  BY <3>2, <4>1
      <3>4. CASE es[k].id \in Nat
        <4>1. b + es[k].id \in Nat  BY <3>4
        <4>2. \A j \in 1..k : es[j].id \in Nat => es[j].id <= b + es[k].id
          <5> SUFFICES ASSUME NEW j \in 1..k, es[j].id \in Nat PROVE es[j].id <= b + es[k].id
            OBVIOUS
          <5>1. CASE j = k  BY <3>4, <5>1
          <5>2. CASE j \in 1..(k - 1)
            <6>1. es[j].id <= b  BY <3>1, <5>2
            <6> QED  BY <3>4, <6>1
          <5> QED  BY <3>2, <5>1, <5>2
        <4> QED  BY <3>2, <4>1, <4>2
      <3> QED  BY <3>3, <3>4
    <2> HIDE DEF T, N
    <2> QED  BY <1>1, <2>1, <2>2, Upwards
  <1>3. PICK b \in Nat : \A j \in 1..N : es[j].id \in Nat => es[j].id <= b
    <2>1. N \in T
      <3>1. N \in 0..N  BY <1>1
      <3> HIDE DEF T, N
      <3> QED  BY <1>2, <3>1
    <2> QED  BY <2>1
  <1>4. \A i \in ids : i \in Nat /\ i <= b
    <2> SUFFICES ASSUME NEW i \in ids PROVE i \in Nat /\ i <= b
      OBVIOUS
    <2>1. PICK j \in DOMAIN es : i = es[j].id  BY DEF Range
    <2>2. es[j] \in EntryRecord  OBVIOUS
    <2>3. i \in Nat  BY <2>1, <2>2 DEF EntryRecord
    <2> QED  BY <1>1, <1>3, <2>1, <2>3
  <1> HIDE DEF ids
  <1>5. S \subseteq Nat \ {0} /\ S # {}  BY <1>4
  <1>6. \A y \in S : y <= b + 1 + d.nextId
    <2>1. \A i \in ids : i + 1 <= b + 1 + d.nextId  BY <1>4
    <2>2. d.nextId <= b + 1 + d.nextId  OBVIOUS
    <2> QED  BY <2>1, <2>2
  <1>7. \E x \in S : \A y \in S : x >= y
    <2>1. b + 1 + d.nextId \in Nat /\ S \subseteq Nat  BY <1>5
    <2> HIDE DEF S
    <2> QED  BY <1>5, <1>6, <2>1, GreatestOf
  <1>8. NextId(d, es) = Max(S)  BY DEF NextId, ids
  <1>9. Max(S) \in S /\ \A y \in S : Max(S) >= y
    <2> HIDE DEF S
    <2> QED  BY <1>7 DEF Max
  <1>10. ASSUME NEW j \in DOMAIN es, es[j].id = Max(S) PROVE FALSE
    <2>1. Max(S) \in Nat
      <3> HIDE DEF S
      <3> QED  BY <1>5, <1>9
    <2>2. es[j].id \notin Skills
      <3> HIDE DEF S
      <3> QED  BY <1>10, <2>1, SkillAssumption
    <2>3. es[j].id \in ids  BY <2>2 DEF ids, Range
    <2>4. es[j].id + 1 \in S  BY <2>3
    <2>5. Max(S) >= es[j].id + 1  BY <1>9, <2>4
    <2> HIDE DEF S
    <2> QED  BY <1>10, <2>1, <2>5
  <1> QED  BY <1>5, <1>8, <1>9, <1>10

-----------------------------------------------------------------------------
(* What an operation leaves *)

\* Fewer entries are as sound.
LEMMA FewerSound ==
    ASSUME NEW docs, NEW old, NEW es, EntriesSound(docs, es), Extends(old, es), old \in Seq(EntryRecord)
    PROVE  EntriesSound(docs, old)
  <1>1. \A j \in DOMAIN old : EntrySound(docs, old[j])
    <2> SUFFICES ASSUME NEW j \in DOMAIN old PROVE EntrySound(docs, old[j])
      OBVIOUS
    <2>1. j \in DOMAIN es /\ es[j].id = old[j].id /\ es[j].name = old[j].name /\ es[j].owner = old[j].owner
      BY DEF Extends
    <2>2. EntrySound(docs, es[j])  BY <2>1 DEF EntriesSound
    <2>3. old[j] \in EntryRecord  OBVIOUS
    <2>4. IdOfName(old[j])  BY <2>1, <2>2 DEF EntrySound, IdOfName
    <2>5. AgreesWith(docs, old[j])  BY <2>1, <2>2 DEF EntrySound, AgreesWith
    <2> QED  BY <2>3, <2>4, <2>5 DEF EntrySound
  <1>2. IdsOnce(old)
    <2>1. IdsOnce(es)  BY DEF EntriesSound
    <2> QED  BY <2>1 DEF Extends, IdsOnce
  <1>3. SkillsOnce(old)
    <2>1. SkillsOnce(es)  BY DEF EntriesSound
    <2> QED  BY <2>1 DEF Extends, SkillsOnce
  <1> QED  BY <1>1, <1>2, <1>3 DEF EntriesSound

\* An entry whose document is written: no other document has the id of an entry of that name.
Writable(docs, es, k) ==
    /\ es \in Seq(EntryRecord) /\ k \in DOMAIN es /\ IdsOnce(es) /\ SkillsOnce(es)
    /\ \A j \in DOMAIN es : IdOfName(es[j]) /\ (es[j].name # es[k].name => AgreesWith(docs, es[j]))
    /\ \A j \in DOMAIN es, m \in Skills :
           es[j].name = es[k].name /\ m # es[k].name /\ docs[m].id # 0 => es[j].id # docs[m].id

LEMMA WritesOne ==
    ASSUME NEW docs, NEW es, NEW k, DocsSound(docs), Writable(docs, es, k)
    PROVE  LET written == [docs EXCEPT ![es[k].name] = Document(es[k])] IN
           DocsSound(written) /\ EntriesSound(written, es)
  <1> DEFINE n == es[k].name
             doc == Document(es[k])
             written == [docs EXCEPT ![n] = doc]
  <1>1. es[k] \in EntryRecord /\ n \in Skills
    <2>1. es[k] \in EntryRecord  BY DEF Writable
    <2> QED  BY <2>1 DEF EntryRecord
  <1>2. /\ doc \in DocumentRecord /\ doc.id # 0 /\ doc.id = es[k].id /\ doc.owner = es[k].owner
        /\ doc # NoSkill
    <2>1. doc.id = es[k].id /\ doc.owner = es[k].owner /\ doc \in DocumentRecord
      BY <1>1 DEF Document, DocumentRecord, EntryRecord
    <2>2. es[k].id # 0  BY <1>1, SkillAssumption DEF EntryRecord
    <2>3. NoSkill.id = 0  BY DEF NoSkill
    <2> QED  BY <2>1, <2>2, <2>3
  <1> HIDE DEF doc
  <1>3. docs \in [Skills -> DocumentRecord \cup {NoSkill}]  BY DEF DocsSound
  <1>4. /\ written \in [Skills -> DocumentRecord \cup {NoSkill}]
        /\ written[n] = doc /\ \A m \in Skills \ {n} : written[m] = docs[m]
    BY <1>1, <1>2, <1>3
  <1> HIDE DEF written
  <1>5. \A m \in Skills : written[m].id \in Skills => written[m].id = m
    <2>1. doc.id \in Skills => doc.id = n  BY <1>2 DEF Writable, IdOfName
    <2> QED  BY <1>4, <2>1 DEF DocsSound
  <1>6. ASSUME NEW m \in Skills \ {n} PROVE docs[m].id # 0 => docs[m].id # doc.id
    BY <1>2 DEF Writable
  <1>7. \A l, m \in Skills : written[l].id # 0 /\ written[l].id = written[m].id => l = m
    <2> SUFFICES ASSUME NEW l \in Skills, NEW m \in Skills, written[l].id # 0, written[l].id = written[m].id
                 PROVE  l = m
      OBVIOUS
    <2>1. CASE l # n /\ m # n  BY <1>4, <2>1 DEF DocsSound
    <2>2. CASE l = n  BY <1>2, <1>4, <1>6, <2>2
    <2>3. CASE m = n  BY <1>2, <1>4, <1>6, <2>3
    <2> QED  BY <2>1, <2>2, <2>3
  <1>8. DocsSound(written)  BY <1>4, <1>5, <1>7 DEF DocsSound
  <1>9. ASSUME NEW j \in DOMAIN es PROVE EntrySound(written, es[j])
    <2>1. es[j] \in EntryRecord /\ IdOfName(es[j])  BY DEF Writable
    <2>2. es[j].name \in Skills  BY <2>1 DEF EntryRecord
    <2>3. es[j].name # n => AgreesWith(docs, es[j])  BY DEF Writable
    <2>4. written[es[j].name] # NoSkill
      <3>1. CASE es[j].name = n  BY <1>2, <1>4, <3>1
      <3>2. CASE es[j].name # n  BY <1>4, <2>2, <2>3, <3>2 DEF AgreesWith
      <3> QED  BY <3>1, <3>2
    <2>5. ASSUME NEW m \in Skills, written[m].id # 0
          PROVE  es[j].id = written[m].id <=> es[j].name = m /\ es[j].owner = written[m].owner
      <3>1. CASE m = n
        <4>1. written[m].id = es[k].id /\ written[m].owner = es[k].owner  BY <1>2, <1>4, <3>1
        <4>2. k \in DOMAIN es /\ IdsOnce(es) /\ SkillsOnce(es)  BY DEF Writable
        <4>3. es[j].id = es[k].id => j = k  BY <4>2 DEF IdsOnce
        <4>4. es[j].name = n /\ es[j].owner = es[k].owner => j = k  BY <4>2 DEF SkillsOnce
        <4> QED  BY <3>1, <4>1, <4>3, <4>4
      <3>2. CASE m # n
        <4>1. written[m] = docs[m]  BY <1>4, <3>2
        <4>2. CASE es[j].name # n  BY <2>3, <2>5, <4>1, <4>2 DEF AgreesWith
        <4>3. CASE es[j].name = n  BY <2>5, <3>2, <4>1, <4>3 DEF Writable
        <4> QED  BY <4>2, <4>3
      <3> QED  BY <3>1, <3>2
    <2>6. written[es[j].name].id = 0 => es[j].owner = written[es[j].name].owner /\ es[j].id = es[j].name
      <3>1. CASE es[j].name = n  BY <1>2, <1>4, <3>1
      <3>2. CASE es[j].name # n  BY <1>4, <2>2, <2>3, <3>2 DEF AgreesWith
      <3> QED  BY <3>1, <3>2
    <2>7. AgreesWith(written, es[j])  BY <2>4, <2>5, <2>6 DEF AgreesWith
    <2> QED  BY <2>1, <2>7 DEF EntrySound
  <1>10. EntriesSound(written, es)  BY <1>9 DEF EntriesSound, Writable
  <1> QED  BY <1>8, <1>10 DEF written, doc

\* A disk that an operation on a skill leaves: what it caches, besides that skill, was cached or has a document.
Rewrote(d, e, o, n) ==
    /\ DiskSound(e) /\ e.docs[n] # NoSkill /\ e.docs[n].owner = o
    /\ \A m \in Skills \ {n} : e.docs[m] = d.docs[m]
    /\ \A j \in DOMAIN e.cache :
           LET entry == e.cache[j] IN
           \/ entry.name = n /\ entry.owner = o
           \/ \E i \in DOMAIN d.cache : entry.name = d.cache[i].name /\ entry.owner = d.cache[i].owner
           \/ d.docs[entry.name] # NoSkill /\ entry.owner = d.docs[entry.name].owner
Leaves(d, out, o, n, doc) ==
    \E e, f : /\ out = [disks |-> <<e, f>>, ok |-> TRUE]
              /\ Rewrote(d, e, o, n) /\ e.docs[n] = doc
              /\ Rewrote(d, f, o, n) /\ f.docs[n] = doc

LEMMA RewroteTwice ==
    ASSUME NEW d, NEW e, NEW f, NEW o, NEW n \in Skills, Rewrote(d, e, o, n), Rewrote(e, f, o, n)
    PROVE  Rewrote(d, f, o, n)
  <1>1. DiskSound(f) /\ f.docs[n] # NoSkill /\ f.docs[n].owner = o  BY DEF Rewrote
  <1>2. \A m \in Skills \ {n} : f.docs[m] = d.docs[m]  BY DEF Rewrote
  <1>3. ASSUME NEW j \in DOMAIN f.cache
        PROVE  \/ f.cache[j].name = n /\ f.cache[j].owner = o
               \/ \E i \in DOMAIN d.cache : f.cache[j].name = d.cache[i].name /\ f.cache[j].owner = d.cache[i].owner
               \/ d.docs[f.cache[j].name] # NoSkill /\ f.cache[j].owner = d.docs[f.cache[j].name].owner
    <2>1. f.cache[j].name \in Skills
      <3>1. f.cache[j] \in EntryRecord  BY <1>1 DEF DiskSound, EntriesSound, EntrySound
      <3> QED  BY <3>1 DEF EntryRecord
    <2>2. CASE \E i \in DOMAIN e.cache : f.cache[j].name = e.cache[i].name /\ f.cache[j].owner = e.cache[i].owner
      BY <2>2 DEF Rewrote
    <2>3. CASE e.docs[f.cache[j].name] # NoSkill /\ f.cache[j].owner = e.docs[f.cache[j].name].owner
      <3>1. CASE f.cache[j].name = n  BY <2>3, <3>1 DEF Rewrote
      <3>2. CASE f.cache[j].name # n  BY <2>1, <2>3, <3>2 DEF Rewrote
      <3> QED  BY <3>1, <3>2
    <2> QED  BY <2>2, <2>3 DEF Rewrote
  <1> QED  BY <1>1, <1>2, <1>3 DEF Rewrote

LEMMA PersistedIs ==
    ASSUME NEW d, NEW es, NEW k, NEW next \in Nat \ {0}, DiskSound(d), Writable(d.docs, es, k), Extends(d.cache, es),
           \A j \in DOMAIN es : \/ j = k \/ j \in DOMAIN d.cache
                                \/ d.docs[es[j].name] # NoSkill /\ es[j].owner = d.docs[es[j].name].owner
    PROVE  Leaves(d, Persisted(d, es, k, next), es[k].owner, es[k].name, Document(es[k]))
  <1> DEFINE n == es[k].name
             o == es[k].owner
             doc == Document(es[k])
             written == [d.docs EXCEPT ![n] = doc]
             e == [docs |-> written, cache |-> d.cache, nextId |-> d.nextId]
             f == [docs |-> written, cache |-> es, nextId |-> next]
  <1>1. d = [docs |-> d.docs, cache |-> d.cache, nextId |-> d.nextId] /\ d.nextId \in Nat \ {0}
    BY DEF DiskSound
  <1>2. Persisted(d, es, k, next) = [disks |-> <<e, f>>, ok |-> TRUE]
    <2>1. [d EXCEPT !.docs[es[k].name] = Document(es[k])] = e
      <3> DEFINE D == d.docs
                 C == d.cache
                 X == d.nextId
      <3>1. d = [docs |-> D, cache |-> C, nextId |-> X]  BY <1>1
      <3> HIDE DEF D, C, X
      <3> DEFINE v == Document(es[k])
                 i == es[k].name
      <3> HIDE DEF v, i
      <3>2. [[docs |-> D, cache |-> C, nextId |-> X] EXCEPT !.docs[i] = v]
              = [docs |-> [D EXCEPT ![i] = v], cache |-> C, nextId |-> X]
        OBVIOUS
      <3>3. [d EXCEPT !.docs[i] = v] = [docs |-> [D EXCEPT ![i] = v], cache |-> C, nextId |-> X]
        BY <3>1, <3>2
      <3> QED  BY <3>3 DEF D, C, X, v, i
    <2>2. [e EXCEPT !.cache = es, !.nextId = next] = f
      <3> DEFINE D == written
                 C == d.cache
                 X == d.nextId
                 r == [docs |-> D, cache |-> C, nextId |-> X]
      <3> HIDE DEF written, D, C, X
      <3>1. [r EXCEPT !.cache = es] = [docs |-> D, cache |-> es, nextId |-> X]  OBVIOUS
      <3>2. [[docs |-> D, cache |-> es, nextId |-> X] EXCEPT !.nextId = next]
              = [docs |-> D, cache |-> es, nextId |-> next]
        OBVIOUS
      <3>3. [r EXCEPT !.cache = es, !.nextId = next] = [[r EXCEPT !.cache = es] EXCEPT !.nextId = next]
        OBVIOUS
      <3>4. [r EXCEPT !.cache = es, !.nextId = next] = [docs |-> D, cache |-> es, nextId |-> next]
        BY <3>1, <3>2, <3>3
      <3> QED  BY <3>4 DEF D, C, X
    <2> HIDE DEF e, f
    <2> QED  BY <2>1, <2>2 DEF Persisted
  <1>3. DocsSound(d.docs) /\ EntriesSound(d.docs, d.cache)  BY DEF DiskSound
  <1>4. DocsSound(written) /\ EntriesSound(written, es)  BY <1>3, WritesOne
  <1>5. EntriesSound(written, d.cache)
    <2>1. d.cache \in Seq(EntryRecord)  BY <1>3 DEF EntriesSound
    <2> HIDE DEF written
    <2> QED  BY <1>4, <2>1, FewerSound
  <1>6. es[k] \in EntryRecord
    <2>1. es \in Seq(EntryRecord) /\ k \in DOMAIN es  BY DEF Writable
    <2> QED  BY <2>1
  <1>7. n \in Skills /\ doc.owner = o /\ doc # NoSkill
    <2>1. es[k].id # 0 /\ NoSkill.id = 0  BY <1>6, SkillAssumption DEF EntryRecord, NoSkill
    <2>2. doc.id = es[k].id /\ doc.owner = o  BY DEF Document
    <2>3. n \in Skills  BY <1>6 DEF EntryRecord
    <2> HIDE DEF doc
    <2> QED  BY <2>1, <2>2, <2>3
  <1>8. written[n] = doc /\ \A m \in Skills \ {n} : written[m] = d.docs[m]
    <2>1. d.docs \in [Skills -> DocumentRecord \cup {NoSkill}]  BY <1>3 DEF DocsSound
    <2> HIDE DEF doc, n
    <2> QED  BY <1>7, <2>1
  <1> HIDE DEF written, doc
  <1>9. DiskSound(e)  BY <1>1, <1>4, <1>5 DEF DiskSound
  <1>10. DiskSound(f)  BY <1>4 DEF DiskSound
  <1>11. e.docs[n] = doc /\ \A m \in Skills \ {n} : e.docs[m] = d.docs[m]  BY <1>8
  <1>12. f.docs[n] = doc /\ \A m \in Skills \ {n} : f.docs[m] = d.docs[m]  BY <1>8
  <1>13. e.cache = d.cache /\ f.cache = es  OBVIOUS
  <1> HIDE DEF e, f
  <1>14. Rewrote(d, e, o, n)
    BY <1>7, <1>9, <1>11, <1>13 DEF Rewrote
  <1>15. ASSUME NEW j \in DOMAIN es
         PROVE  \/ es[j].name = n /\ es[j].owner = o
                \/ \E i \in DOMAIN d.cache : es[j].name = d.cache[i].name /\ es[j].owner = d.cache[i].owner
                \/ d.docs[es[j].name] # NoSkill /\ es[j].owner = d.docs[es[j].name].owner
    BY DEF Extends
  <1>16. Rewrote(d, f, o, n)
    BY <1>7, <1>10, <1>12, <1>13, <1>15 DEF Rewrote
  <1> QED  BY <1>2, <1>11, <1>12, <1>14, <1>16 DEF Leaves, doc

\* An entry may be written when no other document has its id.
LEMMA SoundIsWritable ==
    ASSUME NEW docs, NEW es, NEW k \in DOMAIN es, EntriesSound(docs, es)
    PROVE  Writable(docs, es, k)
  <1>1. es \in Seq(EntryRecord) /\ IdsOnce(es) /\ SkillsOnce(es)  BY DEF EntriesSound
  <1>2. \A j \in DOMAIN es : IdOfName(es[j]) /\ AgreesWith(docs, es[j])  BY DEF EntriesSound, EntrySound
  <1>3. ASSUME NEW j \in DOMAIN es, NEW m \in Skills, es[j].name = es[k].name, m # es[k].name, docs[m].id # 0
        PROVE  es[j].id # docs[m].id
    BY <1>2, <1>3 DEF AgreesWith
  <1> QED  BY <1>1, <1>2, <1>3 DEF Writable

LEMMA RewritesEntry ==
    ASSUME NEW d, NEW es, NEW k \in DOMAIN Entries(d), NEW next \in Nat \ {0}, DiskSound(d), Alike(Entries(d), es)
    PROVE  Leaves(d, Persisted(d, es, k, next), es[k].owner, es[k].name, Document(es[k]))
  <1> DEFINE old == Entries(d)
  <1>1. EntriesSound(d.docs, old) /\ Extends(d.cache, old) /\ Comes(d.docs, d.cache, old)
    BY EntriesAre DEF Merges
  <1> HIDE DEF old
  <1>2. Alike(old, es) /\ k \in DOMAIN es  BY DEF old, Alike
  <1>3. EntriesSound(d.docs, es)  BY <1>1, <1>2, AlikeSound
  <1>4. Writable(d.docs, es, k)  BY <1>2, <1>3, SoundIsWritable
  <1>5. Extends(d.cache, es)  BY <1>1, <1>2 DEF Extends, Alike
  <1>6. ASSUME NEW j \in DOMAIN es, j \notin DOMAIN d.cache
        PROVE  d.docs[es[j].name] # NoSkill /\ es[j].owner = d.docs[es[j].name].owner
    <2>1. d.docs[es[j].name] # NoSkill  BY <1>3 DEF EntriesSound, EntrySound, AgreesWith
    <2>2. j \in DOMAIN old /\ old[j].owner = d.docs[old[j].name].owner  BY <1>1, <1>2, <1>6 DEF Comes, Alike
    <2> QED  BY <1>2, <2>1, <2>2 DEF Alike
  <1> QED  BY <1>4, <1>5, <1>6, PersistedIs

LEMMA AddsEntry ==
    ASSUME NEW d, NEW e, NEW next \in Nat \ {0}, DiskSound(d), e \in EntryRecord, e.id = NextId(d, Entries(d)),
           EntryIn(Entries(d), e.owner, e.name) = 0
    PROVE  Leaves(d, Persisted(d, Append(Entries(d), e), Len(Entries(d)) + 1, next), e.owner, e.name, Document(e))
  <1> DEFINE old == Entries(d)
             k == Len(old) + 1
             es == Append(old, e)
  <1>1. Merges(d.docs, d.cache, old, Skills)  BY EntriesAre
  <1>2. EntriesSound(d.docs, old) /\ Extends(d.cache, old) /\ Comes(d.docs, d.cache, old)  BY <1>1 DEF Merges
  <1>3. old \in Seq(EntryRecord) /\ IdsOnce(old) /\ SkillsOnce(old)
        /\ \A j \in DOMAIN old : EntrySound(d.docs, old[j])
    BY <1>2 DEF EntriesSound
  <1>4. d.nextId \in Nat \ {0}  BY DEF DiskSound
  <1>5. e.id \in Nat \ {0} /\ \A j \in DOMAIN old : old[j].id # e.id  BY <1>3, <1>4, NextIdIs
  <1>6. \A j \in DOMAIN old : ~(old[j].name = e.name /\ old[j].owner = e.owner)
    <2>1. EntryIn(old, e.owner, e.name) = 0  OBVIOUS
    <2> HIDE DEF old
    <2> QED  BY <1>3, <2>1, EntryInIs
  <1> HIDE DEF old
  <1>7. Adds(old, es, e)  BY <1>3, <1>5, <1>6, AddsOne
  <1> HIDE DEF es, k
  <1>8. k \in DOMAIN es /\ es[k] = e  BY <1>7 DEF Adds, k
  <1>9. IdOfName(e)  BY <1>5, SkillAssumption DEF IdOfName
  <1>10. ASSUME NEW j \in DOMAIN es
         PROVE  IdOfName(es[j]) /\ (es[j].name # e.name => AgreesWith(d.docs, es[j]))
    BY <1>3, <1>7, <1>9 DEF Adds, EntrySound
  <1>11. ASSUME NEW j \in DOMAIN es, NEW m \in Skills, es[j].name = e.name, m # e.name, d.docs[m].id # 0
         PROVE  es[j].id # d.docs[m].id
    <2>1. CASE j \in DOMAIN old /\ es[j] = old[j]
      <3>1. AgreesWith(d.docs, es[j])  BY <1>3, <2>1 DEF EntrySound
      <3> QED  BY <1>11, <3>1 DEF AgreesWith
    <2>2. CASE es[j] = e
      <3>1. d.docs[m] # NoSkill  BY <1>11 DEF NoSkill
      <3>2. Merged(d.docs, old, m)  BY <1>1, <3>1 DEF Merges
      <3>3. \E i \in DOMAIN old : old[i].id = d.docs[m].id  BY <1>11, <3>2 DEF Merged, DocumentId
      <3> QED  BY <1>5, <2>2, <3>3
    <2> QED  BY <1>7, <2>1, <2>2 DEF Adds
  <1>12. Writable(d.docs, es, k)
    <2>1. es \in Seq(EntryRecord) /\ IdsOnce(es) /\ SkillsOnce(es)  BY <1>7 DEF Adds
    <2> QED  BY <1>8, <1>10, <1>11, <2>1 DEF Writable
  <1>13. Extends(d.cache, es)  BY <1>2, <1>7 DEF Extends, Adds
  <1>14. ASSUME NEW j \in DOMAIN es, j # k, j \notin DOMAIN d.cache
         PROVE  d.docs[es[j].name] # NoSkill /\ es[j].owner = d.docs[es[j].name].owner
    <2>1. j \in DOMAIN old /\ es[j] = old[j]  BY <1>7, <1>14 DEF Adds, k
    <2>2. d.docs[es[j].name] # NoSkill  BY <1>3, <2>1 DEF EntrySound, AgreesWith
    <2> QED  BY <1>2, <1>14, <2>1, <2>2 DEF Comes
  <1>15. Leaves(d, Persisted(d, es, k, next), es[k].owner, es[k].name, Document(es[k]))
    BY <1>12, <1>13, <1>14, PersistedIs
  <1> QED  BY <1>8, <1>15 DEF es, k, old

\* An entry with another text or another status is alike.
LEMMA BodyChanges ==
    ASSUME NEW es, es \in Seq(EntryRecord), NEW k \in DOMAIN es, NEW body \in Bodies
    PROVE  /\ Alike(es, [es EXCEPT ![k].body = body])
           /\ [es EXCEPT ![k].body = body][k] = [es[k] EXCEPT !.body = body]
           /\ [es EXCEPT ![k].body = body][k].body = body
           /\ [es EXCEPT ![k].body = body][k].status = es[k].status
  <1> DEFINE e == [es[k] EXCEPT !.body = body]
             new == [es EXCEPT ![k] = e]
  <1>1. es[k] \in EntryRecord  OBVIOUS
  <1>2. /\ e \in EntryRecord /\ e.id = es[k].id /\ e.name = es[k].name /\ e.owner = es[k].owner
        /\ e.body = body /\ e.status = es[k].status
    BY <1>1 DEF EntryRecord
  <1> HIDE DEF e
  <1>3. new \in Seq(EntryRecord) /\ DOMAIN new = DOMAIN es
        /\ new[k] = e /\ \A j \in DOMAIN es : j # k => new[j] = es[j]
    BY <1>2
  <1> HIDE DEF new
  <1>4. Alike(es, new)  BY <1>2, <1>3 DEF Alike
  <1> QED  BY <1>2, <1>3, <1>4 DEF new, e

LEMMA StatusChanges ==
    ASSUME NEW es, es \in Seq(EntryRecord), NEW k \in DOMAIN es, NEW status \in SkillStatuses
    PROVE  /\ Alike(es, [es EXCEPT ![k].status = status])
           /\ [es EXCEPT ![k].status = status][k].body = es[k].body
           /\ [es EXCEPT ![k].status = status][k].status = status
  <1> DEFINE e == [es[k] EXCEPT !.status = status]
             new == [es EXCEPT ![k] = e]
  <1>1. es[k] \in EntryRecord  OBVIOUS
  <1>2. /\ e \in EntryRecord /\ e.id = es[k].id /\ e.name = es[k].name /\ e.owner = es[k].owner
        /\ e.body = es[k].body /\ e.status = status
    BY <1>1 DEF EntryRecord
  <1> HIDE DEF e
  <1>3. new \in Seq(EntryRecord) /\ DOMAIN new = DOMAIN es
        /\ new[k] = e /\ \A j \in DOMAIN es : j # k => new[j] = es[j]
    BY <1>2
  <1> HIDE DEF new
  <1>4. Alike(es, new)  BY <1>2, <1>3 DEF Alike
  <1> QED  BY <1>2, <1>3, <1>4 DEF new, e

\* The entries after a load, and where they have a skill.
LEMMA LoadedAre ==
    ASSUME NEW d, NEW o, NEW n, DiskSound(d)
    PROVE  /\ Entries(d) \in Seq(EntryRecord) /\ NextId(d, Entries(d)) \in Nat \ {0}
           /\ NextId(d, Entries(d)) + 1 \in Nat \ {0}
           /\ EntryIn(Entries(d), o, n) # 0 =>
                  /\ EntryIn(Entries(d), o, n) \in DOMAIN Entries(d)
                  /\ Entries(d)[EntryIn(Entries(d), o, n)].name = n
                  /\ Entries(d)[EntryIn(Entries(d), o, n)].owner = o
  <1>1. Entries(d) \in Seq(EntryRecord)  BY EntriesAre DEF Merges, EntriesSound
  <1>2. NextId(d, Entries(d)) \in Nat \ {0}
    <2>1. d.nextId \in Nat \ {0}  BY DEF DiskSound
    <2> QED  BY <1>1, <2>1, NextIdIs
  <1>3. NextId(d, Entries(d)) + 1 \in Nat \ {0}  BY <1>2
  <1> QED  BY <1>1, <1>2, <1>3, EntryInIs

\* What saving a skill leaves has the text and the status that were given.
LEMMA SavedIs ==
    ASSUME NEW d, NEW o \in Owners, NEW n \in Skills, NEW body \in Bodies, NEW status \in SkillStatuses, DiskSound(d)
    PROVE  \/ Saved(d, o, n, body, status) = Failed
           \/ \E doc : /\ Leaves(d, Saved(d, o, n, body, status), o, n, doc)
                       /\ ValueOf(doc) = [body |-> body, status |-> status]
  <1> DEFINE old == Entries(d)
             k == EntryIn(old, o, n)
             full == Cardinality({j \in DOMAIN old : old[j].owner = o}) >= MaxPerScope
             next == NextId(d, old)
             e == [id |-> next, name |-> n, owner |-> o, body |-> body, status |-> status]
             mid == [old EXCEPT ![k].body = body]
             es == [old EXCEPT ![k].body = body, ![k].status = status]
  <1>1. old \in Seq(EntryRecord) /\ next \in Nat \ {0} /\ next + 1 \in Nat \ {0}
        /\ (k # 0 => k \in DOMAIN old /\ old[k].name = n /\ old[k].owner = o)
    BY LoadedAre
  <1>2. Saved(d, o, n, body, status) =
          IF status = "archived" \/ (k = 0 /\ full) THEN Failed
          ELSE IF k = 0 THEN Persisted(d, Append(old, e), Len(old) + 1, next + 1)
          ELSE Persisted(d, es, k, next)
    BY DEF Saved
  <1>3. CASE k = 0
    <2> HIDE DEF next, old
    <2>1. e \in EntryRecord /\ e.id = next /\ e.owner = o /\ e.name = n
      BY <1>1 DEF EntryRecord
    <2>2. ValueOf(Document(e)) = [body |-> body, status |-> status]  BY DEF ValueOf, Document
    <2>3. Leaves(d, Persisted(d, Append(old, e), Len(old) + 1, next + 1), o, n, Document(e))
      <3> HIDE DEF e
      <3>1. EntryIn(Entries(d), e.owner, e.name) = 0 /\ e.id = NextId(d, Entries(d))
        BY <1>3, <2>1 DEF old, next
      <3>2. Leaves(d, Persisted(d, Append(Entries(d), e), Len(Entries(d)) + 1, next + 1), e.owner, e.name, Document(e))
        BY <1>1, <2>1, <3>1, AddsEntry
      <3> QED  BY <2>1, <3>2 DEF old
    <2> HIDE DEF e, full, k
    <2> QED  BY <1>2, <1>3, <2>2, <2>3
  <1>4. CASE k # 0
    <2>1. k \in DOMAIN old /\ old[k].name = n /\ old[k].owner = o  BY <1>1, <1>4
    <2> HIDE DEF next, old, k
    <2>2. Alike(old, mid) /\ mid[k].body = body  BY <1>1, <2>1, BodyChanges
    <2>3. es = [mid EXCEPT ![k].status = status]  BY <1>1, <2>1
    <2>4. mid \in Seq(EntryRecord) /\ k \in DOMAIN mid  BY <2>1, <2>2 DEF Alike
    <2> HIDE DEF mid, es
    <2>5. Alike(mid, es) /\ es[k].body = body /\ es[k].status = status  BY <2>2, <2>3, <2>4, StatusChanges
    <2>6. Alike(old, es)  BY <2>2, <2>5 DEF Alike
    <2>7. es[k].name = n /\ es[k].owner = o  BY <2>1, <2>6 DEF Alike
    <2>8. ValueOf(Document(es[k])) = [body |-> body, status |-> status]  BY <2>5 DEF ValueOf, Document
    <2>9. Leaves(d, Persisted(d, es, k, next), o, n, Document(es[k]))
      <3>1. k \in DOMAIN Entries(d) /\ Alike(Entries(d), es)  BY <2>1, <2>6 DEF old
      <3>2. Leaves(d, Persisted(d, es, k, next), es[k].owner, es[k].name, Document(es[k]))
        BY <1>1, <3>1, RewritesEntry
      <3> QED  BY <2>7, <3>2
    <2> HIDE DEF full
    <2> QED  BY <1>2, <1>4, <2>8, <2>9
  <1> QED  BY <1>3, <1>4

\* The scope has the skill: in the cache, or in its document.
Has(d, o, n) ==
    /\ d.docs[n] # NoSkill
    /\ d.docs[n].owner = o \/ \E j \in DOMAIN d.cache : d.cache[j].name = n /\ d.cache[j].owner = o

LEMMA EntryOfSkill ==
    ASSUME NEW d, NEW o \in Owners, NEW n \in Skills, DiskSound(d)
    PROVE  LET k == EntryIn(Entries(d), o, n) IN
           /\ k # 0 => Has(d, o, n) /\ (d.docs[n].owner = o => Entries(d)[k].body = d.docs[n].body)
           /\ d.docs[n] # NoSkill /\ d.docs[n].owner = o => k # 0
  <1> DEFINE old == Entries(d)
             k == EntryIn(old, o, n)
  <1>1. Merges(d.docs, d.cache, old, Skills)  BY EntriesAre
  <1>2. EntriesSound(d.docs, old) /\ Extends(d.cache, old) /\ Comes(d.docs, d.cache, old)  BY <1>1 DEF Merges
  <1>3. old \in Seq(EntryRecord) /\ SkillsOnce(old) /\ \A j \in DOMAIN old : AgreesWith(d.docs, old[j])
    BY <1>2 DEF EntriesSound, EntrySound
  <1>4. \/ k = 0 /\ \A j \in DOMAIN old : ~(old[j].name = n /\ old[j].owner = o)
        \/ k \in DOMAIN old /\ k # 0 /\ old[k].name = n /\ old[k].owner = o
    BY <1>3, EntryInIs
  <1>5. ASSUME d.docs[n] # NoSkill, d.docs[n].owner = o
        PROVE  \E j \in DOMAIN old : old[j].name = n /\ old[j].owner = o /\ old[j].body = d.docs[n].body
    <2>1. Merged(d.docs, old, n)  BY <1>1, <1>5 DEF Merges
    <2> HIDE DEF old
    <2> QED  BY <1>5, <2>1 DEF Merged
  <1> HIDE DEF old, k
  <1>6. ASSUME k # 0
        PROVE  Has(d, o, n) /\ (d.docs[n].owner = o => old[k].body = d.docs[n].body)
    <2>1. k \in DOMAIN old /\ old[k].name = n /\ old[k].owner = o  BY <1>4, <1>6
    <2>2. d.docs[n] # NoSkill  BY <1>3, <2>1 DEF AgreesWith
    <2>3. Has(d, o, n)  BY <1>2, <2>1, <2>2 DEF Has, Extends, Comes
    <2>4. ASSUME d.docs[n].owner = o PROVE old[k].body = d.docs[n].body
      <3>1. PICK j \in DOMAIN old : old[j].name = n /\ old[j].owner = o /\ old[j].body = d.docs[n].body
        BY <1>5, <2>2, <2>4
      <3>2. j = k  BY <1>3, <2>1, <3>1 DEF SkillsOnce
      <3> QED  BY <3>1, <3>2
    <2> QED  BY <2>3, <2>4
  <1>7. d.docs[n] # NoSkill /\ d.docs[n].owner = o => k # 0  BY <1>4, <1>5
  <1> QED  BY <1>6, <1>7 DEF old, k

\* What setting the status of a skill leaves has that status, and the text of its document.
StatusDoc(d, o, n, doc, status) ==
    doc.status = status /\ Has(d, o, n) /\ (d.docs[n].owner = o => doc.body = d.docs[n].body)

LEMMA StatusSetIs ==
    ASSUME NEW d, NEW o \in Owners, NEW n \in Skills, NEW status \in SkillStatuses, DiskSound(d)
    PROVE  \/ StatusSet(d, o, n, status) = Failed /\ ~(d.docs[n] # NoSkill /\ d.docs[n].owner = o)
           \/ \E doc : Leaves(d, StatusSet(d, o, n, status), o, n, doc) /\ StatusDoc(d, o, n, doc, status)
  <1> DEFINE old == Entries(d)
             k == EntryIn(old, o, n)
             next == NextId(d, old)
             es == [old EXCEPT ![k].status = status]
  <1>1. old \in Seq(EntryRecord) /\ next \in Nat \ {0}
        /\ (k # 0 => k \in DOMAIN old /\ old[k].name = n /\ old[k].owner = o)
    BY LoadedAre
  <1>2. StatusSet(d, o, n, status) = IF k = 0 THEN Failed ELSE Persisted(d, es, k, next)  BY DEF StatusSet
  <1>3. /\ k # 0 => Has(d, o, n) /\ (d.docs[n].owner = o => old[k].body = d.docs[n].body)
        /\ d.docs[n] # NoSkill /\ d.docs[n].owner = o => k # 0
    BY EntryOfSkill
  <1> HIDE DEF next, old, k
  <1>4. CASE k = 0  BY <1>2, <1>3, <1>4
  <1>5. CASE k # 0
    <2>1. k \in DOMAIN old /\ old[k].name = n /\ old[k].owner = o  BY <1>1, <1>5
    <2>2. Alike(old, es) /\ es[k].body = old[k].body /\ es[k].status = status  BY <1>1, <2>1, StatusChanges
    <2> HIDE DEF es
    <2>3. es[k].name = n /\ es[k].owner = o  BY <2>1, <2>2 DEF Alike
    <2>4. StatusDoc(d, o, n, Document(es[k]), status)  BY <1>3, <1>5, <2>2 DEF StatusDoc, Document
    <2>5. Leaves(d, Persisted(d, es, k, next), o, n, Document(es[k]))
      <3>1. k \in DOMAIN Entries(d) /\ Alike(Entries(d), es)  BY <2>1, <2>2 DEF old
      <3>2. Leaves(d, Persisted(d, es, k, next), es[k].owner, es[k].name, Document(es[k]))
        BY <1>1, <3>1, RewritesEntry
      <3> QED  BY <2>3, <3>2
    <2> QED  BY <1>2, <1>5, <2>4, <2>5
  <1> QED  BY <1>4, <1>5

-----------------------------------------------------------------------------
(* What is known after an operation *)

\* An operation leaves nothing when it fails, and else disks that have what was meant; a crash may
\* leave what was known before.
Outcome(d, T, o, n, meant, out) ==
    \/ out = Failed
    \/ /\ out.ok = TRUE /\ DOMAIN out.disks = 1..Len(out.disks) /\ Len(out.disks) \in Nat \ {0}
       /\ meant # {} \/ T[o][n] # {Absent}
       /\ \A k \in DOMAIN out.disks :
              /\ Rewrote(d, out.disks[k], o, n)
              /\ Alone(T, o, n) =>
                     \/ ValueOf(out.disks[k].docs[n]) \in meant
                     \/ k # Len(out.disks) /\ ValueOf(out.disks[k].docs[n]) \in T[o][n]

LEMMA KnownAfter ==
    ASSUME NEW d, NEW e, NEW T, NEW o \in Owners, NEW n \in Skills, NEW V,
           ToldTyped(T), Knows(d, T), Rewrote(d, e, o, n), DiskSound(d),
           V # {Absent}, Alone(T, o, n) => ValueOf(e.docs[n]) \in V
    PROVE  Knows(e, [T EXCEPT ![o][n] = V])
  <1> DEFINE U == [T EXCEPT ![o][n] = V]
  <1>1. /\ U[o][n] = V
        /\ \A p \in Owners, m \in Skills : p # o \/ m # n => U[p][m] = T[p][m]
    BY DEF ToldTyped
  <1> HIDE DEF U
  <1>2. Alone(U, o, n) => Alone(T, o, n)  BY <1>1 DEF Alone
  <1>3. \A p \in Owners, m \in Skills \ {n} : Alone(U, p, m) => Alone(T, p, m)  BY <1>1 DEF Alone
  <1>4. DiskSound(e) /\ e.docs[n] # NoSkill /\ e.docs[n].owner = o /\ \A m \in Skills \ {n} : e.docs[m] = d.docs[m]
    BY DEF Rewrote
  <1>5. \A m \in Skills : d.docs[m] # NoSkill => d.docs[m].owner \in Owners
    <2>1. d.docs \in [Skills -> DocumentRecord \cup {NoSkill}]  BY DEF DiskSound, DocsSound
    <2>2. \A doc \in DocumentRecord : doc.owner \in Owners  BY DEF DocumentRecord
    <2>3. \A m \in Skills : d.docs[m] # NoSkill => d.docs[m] \in DocumentRecord  BY <2>1
    <2> QED  BY <2>2, <2>3
  <1>6. ASSUME NEW m \in Skills, e.docs[m] # NoSkill
        PROVE  /\ U[e.docs[m].owner][m] # {Absent}
               /\ Alone(U, e.docs[m].owner, m) => ValueOf(e.docs[m]) \in U[e.docs[m].owner][m]
    <2>1. CASE m = n  BY <1>1, <1>2, <1>4, <2>1
    <2>2. CASE m # n
      <3>1. e.docs[m] = d.docs[m] /\ d.docs[m].owner \in Owners  BY <1>4, <1>5, <1>6, <2>2
      <3>2. U[d.docs[m].owner][m] = T[d.docs[m].owner][m]  BY <1>1, <2>2, <3>1
      <3> QED  BY <1>3, <1>6, <2>2, <3>1, <3>2 DEF Knows
    <2> QED  BY <2>1, <2>2
  <1>7. ASSUME NEW m \in Skills, e.docs[m] = NoSkill, NEW p \in Owners PROVE U[p][m] = {Absent}
    BY <1>1, <1>4, <1>7 DEF Knows
  <1>8. ASSUME NEW j \in DOMAIN e.cache PROVE U[e.cache[j].owner][e.cache[j].name] # {Absent}
    <2> DEFINE p == e.cache[j].owner
               m == e.cache[j].name
    <2>1. p \in Owners /\ m \in Skills
      <3>1. e.cache[j] \in EntryRecord  BY <1>4 DEF DiskSound, EntriesSound, EntrySound
      <3> QED  BY <3>1 DEF EntryRecord
    <2>2. CASE p = o /\ m = n  BY <1>1, <2>2
    <2>3. CASE ~(p = o /\ m = n)
      <3>1. U[p][m] = T[p][m]  BY <1>1, <2>1, <2>3
      <3>2. T[p][m] # {Absent}
        <4>1. CASE \E i \in DOMAIN d.cache : m = d.cache[i].name /\ p = d.cache[i].owner
          BY <4>1 DEF Knows
        <4>2. CASE d.docs[m] # NoSkill /\ p = d.docs[m].owner  BY <2>1, <4>2 DEF Knows
        <4> QED  BY <2>3, <4>1, <4>2 DEF Rewrote
      <3> QED  BY <3>1, <3>2
    <2> QED  BY <2>2, <2>3
  <1> QED  BY <1>6, <1>7, <1>8 DEF Knows, U

Changed(values, status) == {[v EXCEPT !.status = status] : v \in values \ {Absent}}

LEMMA DocumentTyped ==
    ASSUME NEW d, NEW n \in Skills, DiskSound(d), d.docs[n] # NoSkill
    PROVE  /\ d.docs[n] \in DocumentRecord /\ d.docs[n].owner \in Owners
           /\ d.docs[n].body \in Bodies /\ d.docs[n].status \in SkillStatuses
           /\ ValueOf(d.docs[n]) \in SkillValues /\ ValueOf(d.docs[n]) # Absent
  <1>1. d.docs \in [Skills -> DocumentRecord \cup {NoSkill}]  BY DEF DiskSound, DocsSound
  <1>2. d.docs[n] \in DocumentRecord  BY <1>1
  <1>3. /\ d.docs[n].owner \in Owners /\ d.docs[n].body \in Bodies /\ d.docs[n].status \in SkillStatuses
    BY <1>2 DEF DocumentRecord
  <1>4. ValueOf(d.docs[n]) \in SkillValues  BY <1>3 DEF ValueOf, SkillValues
  <1>5. ValueOf(d.docs[n]) # Absent
    <2>1. ValueOf(d.docs[n]).status # "none"  BY <1>3 DEF ValueOf, SkillStatuses
    <2>2. Absent.status = "none"  BY DEF Absent
    <2> QED  BY <2>1, <2>2
  <1> QED  BY <1>2, <1>3, <1>4, <1>5

\* A skill that a scope has was told of, and where no other scope uses its name as it is.
LEMMA HasIsKnown ==
    ASSUME NEW d, NEW T, NEW o \in Owners, NEW n \in Skills, DiskSound(d), Knows(d, T), Has(d, o, n)
    PROVE  /\ T[o][n] # {Absent}
           /\ Alone(T, o, n) => d.docs[n].owner = o /\ ValueOf(d.docs[n]) \in T[o][n]
  <1>1. T[o][n] # {Absent}
    <2>1. CASE d.docs[n].owner = o  BY <2>1 DEF Has, Knows
    <2>2. CASE \E j \in DOMAIN d.cache : d.cache[j].name = n /\ d.cache[j].owner = o  BY <2>2 DEF Knows
    <2> QED  BY <2>1, <2>2 DEF Has
  <1>2. ASSUME Alone(T, o, n) PROVE d.docs[n].owner = o
    <2>1. T[d.docs[n].owner][n] # {Absent}  BY DEF Has, Knows
    <2>2. d.docs[n].owner \in Owners  BY DocumentTyped DEF Has
    <2> QED  BY <1>2, <2>1, <2>2 DEF Alone
  <1> QED  BY <1>1, <1>2 DEF Has, Knows

LEMMA ChangedTyped ==
    ASSUME NEW values, values \subseteq SkillValues \cup {Absent}, NEW status \in SkillStatuses
    PROVE  /\ Changed(values, status) \subseteq SkillValues
           /\ \A v \in values \ {Absent} : [body |-> v.body, status |-> status] \in Changed(values, status)
  <1>1. ASSUME NEW v \in values \ {Absent}
        PROVE  [v EXCEPT !.status = status] \in SkillValues /\ [v EXCEPT !.status = status] = [body |-> v.body, status |-> status]
    BY DEF SkillValues
  <1> QED  BY <1>1 DEF Changed

\* What is known of a skill and then changed in status is what a status change leaves.
LEMMA StatusDocKnown ==
    ASSUME NEW d, NEW T, NEW o \in Owners, NEW n \in Skills, NEW status \in SkillStatuses, NEW doc,
           DiskSound(d), ToldTyped(T), Knows(d, T), StatusDoc(d, o, n, doc, status)
    PROVE  T[o][n] # {Absent} /\ (Alone(T, o, n) => ValueOf(doc) \in Changed(T[o][n], status))
  <1>1. Has(d, o, n)  BY DEF StatusDoc
  <1>2. /\ T[o][n] # {Absent}
        /\ Alone(T, o, n) => d.docs[n].owner = o /\ ValueOf(d.docs[n]) \in T[o][n]
    BY <1>1, HasIsKnown
  <1>3. T[o][n] \subseteq SkillValues \cup {Absent}  BY DEF ToldTyped
  <1>4. ASSUME Alone(T, o, n) PROVE ValueOf(doc) \in Changed(T[o][n], status)
    <2>1. d.docs[n].owner = o /\ ValueOf(d.docs[n]) \in T[o][n]  BY <1>2, <1>4
    <2>2. ValueOf(d.docs[n]) # Absent  BY <1>1, DocumentTyped DEF Has
    <2>3. ValueOf(doc) = [body |-> ValueOf(d.docs[n]).body, status |-> status]  BY <2>1 DEF StatusDoc, ValueOf
    <2>4. \A v \in T[o][n] \ {Absent} : [body |-> v.body, status |-> status] \in Changed(T[o][n], status)
      BY <1>3, ChangedTyped
    <2> QED  BY <2>1, <2>2, <2>3, <2>4
  <1> QED  BY <1>2, <1>4

LEMMA TwoDisks ==
    ASSUME NEW d, NEW T, NEW o, NEW n, NEW meant, NEW out, NEW doc, Leaves(d, out, o, n, doc),
           meant # {} \/ T[o][n] # {Absent}, Alone(T, o, n) => ValueOf(doc) \in meant
    PROVE  Outcome(d, T, o, n, meant, out)
  <1>1. PICK e, f : /\ out = [disks |-> <<e, f>>, ok |-> TRUE]
                    /\ Rewrote(d, e, o, n) /\ e.docs[n] = doc
                    /\ Rewrote(d, f, o, n) /\ f.docs[n] = doc
    BY DEF Leaves
  <1>2. out.ok = TRUE /\ out.disks = <<e, f>>  BY <1>1
  <1>3. Len(out.disks) = 2 /\ out.disks[1] = e /\ out.disks[2] = f  BY <1>2
  <1>4. DOMAIN out.disks = 1..Len(out.disks) /\ Len(out.disks) \in Nat \ {0}  BY <1>2, <1>3
  <1>5. ASSUME NEW k \in DOMAIN out.disks
        PROVE  /\ Rewrote(d, out.disks[k], o, n)
               /\ Alone(T, o, n) => ValueOf(out.disks[k].docs[n]) \in meant
    <2>1. k = 1 \/ k = 2  BY <1>3, <1>4
    <2> QED  BY <1>1, <1>3, <2>1
  <1> QED  BY <1>2, <1>4, <1>5 DEF Outcome

LEMMA SavedOutcome ==
    ASSUME NEW d, NEW T, NEW o \in Owners, NEW n \in Skills, NEW body \in Bodies, NEW status \in SkillStatuses, DiskSound(d)
    PROVE  Outcome(d, T, o, n, {[body |-> body, status |-> status]}, Saved(d, o, n, body, status))
  <1> DEFINE out == Saved(d, o, n, body, status)
             meant == {[body |-> body, status |-> status]}
  <1>1. CASE out = Failed  BY <1>1 DEF Outcome
  <1>2. CASE out # Failed
    <2>1. PICK doc : Leaves(d, out, o, n, doc) /\ ValueOf(doc) = [body |-> body, status |-> status]
      BY <1>2, SavedIs
    <2>2. meant # {} /\ ValueOf(doc) \in meant  BY <2>1
    <2>3. Outcome(d, T, o, n, meant, out)
      <3> HIDE DEF out, meant
      <3> QED  BY <2>1, <2>2, TwoDisks
    <2> QED  BY <2>3
  <1> QED  BY <1>1, <1>2

LEMMA StatusOutcome ==
    ASSUME NEW d, NEW T, NEW o \in Owners, NEW n \in Skills, NEW status \in SkillStatuses,
           DiskSound(d), ToldTyped(T), Knows(d, T)
    PROVE  Outcome(d, T, o, n, Changed(T[o][n], status), StatusSet(d, o, n, status))
  <1> DEFINE out == StatusSet(d, o, n, status)
             meant == Changed(T[o][n], status)
  <1>1. CASE out = Failed  BY <1>1 DEF Outcome
  <1>2. CASE out # Failed
    <2>1. PICK doc : Leaves(d, out, o, n, doc) /\ StatusDoc(d, o, n, doc, status)
      BY <1>2, StatusSetIs
    <2>2. T[o][n] # {Absent} /\ (Alone(T, o, n) => ValueOf(doc) \in meant)  BY <2>1, StatusDocKnown
    <2>3. Outcome(d, T, o, n, meant, out)
      <3> HIDE DEF out, meant
      <3> QED  BY <2>1, <2>2, TwoDisks
    <2> QED  BY <2>3
  <1> QED  BY <1>1, <1>2

\* An update saves the skill as it is and then sets its status, each in two writes.
LEMMA UpdateOutcome ==
    ASSUME NEW d, NEW T, NEW o \in Owners, NEW n \in Skills, NEW status \in SkillStatuses,
           DiskSound(d), ToldTyped(T), Knows(d, T)
    PROVE  Outcome(d, T, o, n, Changed(T[o][n], status), StatusUpdated(d, o, n, status))
  <1> DEFINE out == StatusUpdated(d, o, n, status)
             meant == Changed(T[o][n], status)
             current == Read(d, o, n)
             saved == Saved(d, o, n, current.body, current.status)
             set == StatusSet(Last(saved.disks), o, n, status)
             fails == current = NoSkill \/ (current.owner \in Groups) # (o \in Groups) \/ ~saved.ok
  <1>1. out = IF fails THEN Failed ELSE [disks |-> saved.disks \o set.disks, ok |-> set.ok]
    BY DEF StatusUpdated
  <1>2. CASE fails
    <2> HIDE DEF fails, meant
    <2> QED  BY <1>1, <1>2 DEF Outcome
  <1>3. CASE ~fails
    <2>1. current # NoSkill /\ saved.ok  BY <1>3
    <2>2. Has(d, o, n) /\ current = d.docs[n]
      <3> DEFINE k == EntryIn(Entries(d), o, n)
      <3>1. current = IF k = 0 THEN NoSkill ELSE IF d.docs[n] # NoSkill THEN d.docs[n] ELSE Document(Entries(d)[k])
        BY DEF Read, ReadFrom
      <3>2. k # 0 => Has(d, o, n)  BY EntryOfSkill
      <3> HIDE DEF k, current
      <3> QED  BY <2>1, <3>1, <3>2 DEF Has
    <2>3. d.docs[n].body \in Bodies /\ d.docs[n].status \in SkillStatuses  BY <2>2, DocumentTyped DEF Has
    <2>4. saved = Saved(d, o, n, d.docs[n].body, d.docs[n].status)
      <3> HIDE DEF current
      <3> QED  BY <2>2
    <2> HIDE DEF current, fails, meant
    <2>5. saved # Failed
      <3>1. Failed.ok = FALSE  BY DEF Failed
      <3> HIDE DEF saved
      <3> QED  BY <2>1, <3>1
    <2>6. PICK doc : /\ Leaves(d, saved, o, n, doc)
                     /\ ValueOf(doc) = [body |-> d.docs[n].body, status |-> d.docs[n].status]
      BY <2>3, <2>4, <2>5, SavedIs
    <2> HIDE DEF saved
    <2>7. PICK e, f : /\ saved = [disks |-> <<e, f>>, ok |-> TRUE]
                      /\ Rewrote(d, e, o, n) /\ e.docs[n] = doc
                      /\ Rewrote(d, f, o, n) /\ f.docs[n] = doc
      BY <2>6 DEF Leaves
    <2>8. saved.disks = <<e, f>> /\ Last(saved.disks) = f
      <3>1. saved.disks = <<e, f>>  BY <2>7
      <3>2. Len(<<e, f>>) = 2 /\ <<e, f>>[2] = f  OBVIOUS
      <3> QED  BY <3>1, <3>2 DEF Last
    <2>9. set = StatusSet(f, o, n, status)  BY <2>8
    <2>10. DiskSound(f) /\ f.docs[n] # NoSkill /\ f.docs[n].owner = o  BY <2>7 DEF Rewrote
    <2>11. PICK doc2 : Leaves(f, set, o, n, doc2) /\ StatusDoc(f, o, n, doc2, status)
      <3> HIDE DEF set
      <3> QED  BY <2>9, <2>10, StatusSetIs
    <2> HIDE DEF set
    <2>12. PICK g, h : /\ set = [disks |-> <<g, h>>, ok |-> TRUE]
                       /\ Rewrote(f, g, o, n) /\ g.docs[n] = doc2
                       /\ Rewrote(f, h, o, n) /\ h.docs[n] = doc2
      BY <2>11 DEF Leaves
    <2>13. Rewrote(d, g, o, n) /\ Rewrote(d, h, o, n)  BY <2>7, <2>12, RewroteTwice
    <2>14. out.ok = TRUE /\ out.disks = <<e, f>> \o <<g, h>>
      <3>1. set.disks = <<g, h>> /\ set.ok = TRUE  BY <2>12
      <3> HIDE DEF out
      <3>2. out = [disks |-> <<e, f>> \o <<g, h>>, ok |-> TRUE]  BY <1>1, <1>3, <2>8, <3>1
      <3> QED  BY <3>2
    <2> HIDE DEF out
    <2>15. /\ Len(out.disks) = 4 /\ DOMAIN out.disks = 1..4
           /\ out.disks[1] = e /\ out.disks[2] = f /\ out.disks[3] = g /\ out.disks[4] = h
      <3> DEFINE s == <<e, f>>
                 t == <<g, h>>
                 S == {e, f, g, h}
      <3>1. s \in Seq(S) /\ t \in Seq(S) /\ Len(s) = 2 /\ Len(t) = 2  OBVIOUS
      <3>2. s[1] = e /\ s[2] = f /\ t[1] = g /\ t[2] = h  OBVIOUS
      <3> DEFINE st == s \o t
      <3> HIDE DEF s, t, S
      <3>3. st \in Seq(S)  BY <3>1, ConcatProperties
      <3>4. Len(st) = Len(s) + Len(t)  BY <3>1, ConcatProperties
      <3>5. \A i \in 1..Len(s) + Len(t) : st[i] = IF i <= Len(s) THEN s[i] ELSE t[i - Len(s)]
        BY <3>1, ConcatProperties
      <3> HIDE DEF st
      <3>6. Len(st) = 4 /\ DOMAIN st = 1..4  BY <3>1, <3>3, <3>4, LenProperties
      <3>7. \A i \in 1..4 : st[i] = IF i <= 2 THEN s[i] ELSE t[i - 2]  BY <3>1, <3>5
      <3>8. st[1] = e /\ st[2] = f  BY <3>2, <3>7
      <3>9. st[3] = t[3 - 2] /\ st[4] = t[4 - 2]  BY <3>7
      <3>10. st[3] = g /\ st[4] = h  BY <3>2, <3>9
      <3> QED  BY <2>14, <3>6, <3>8, <3>10 DEF s, t, st
    <2>16. ValueOf(doc) = ValueOf(d.docs[n])  BY <2>6 DEF ValueOf
    <2>17. StatusDoc(d, o, n, doc2, status)
      <3>1. doc2.status = status /\ doc2.body = doc.body  BY <2>7, <2>10, <2>11 DEF StatusDoc
      <3>2. doc.body = d.docs[n].body  BY <2>6 DEF ValueOf
      <3> QED  BY <2>2, <3>1, <3>2 DEF StatusDoc
    <2>18. T[o][n] # {Absent} /\ (Alone(T, o, n) => ValueOf(doc2) \in meant)  BY <2>17, StatusDocKnown DEF meant
    <2>19. Alone(T, o, n) => ValueOf(doc) \in T[o][n]  BY <2>2, <2>16, HasIsKnown
    <2>20. ASSUME NEW k \in DOMAIN out.disks
           PROVE  /\ Rewrote(d, out.disks[k], o, n)
                  /\ Alone(T, o, n) => \/ ValueOf(out.disks[k].docs[n]) \in meant
                                       \/ k # Len(out.disks) /\ ValueOf(out.disks[k].docs[n]) \in T[o][n]
      <3>1. CASE k = 1  BY <2>7, <2>15, <2>19, <3>1
      <3>2. CASE k = 2  BY <2>7, <2>15, <2>19, <3>2
      <3>3. CASE k = 3  BY <2>12, <2>13, <2>15, <2>18, <3>3
      <3>4. CASE k = 4  BY <2>12, <2>13, <2>15, <2>18, <3>4
      <3>5. k = 1 \/ k = 2 \/ k = 3 \/ k = 4  BY <2>15
      <3> QED  BY <3>1, <3>2, <3>3, <3>4, <3>5
    <2>21. DOMAIN out.disks = 1..Len(out.disks) /\ Len(out.disks) \in Nat \ {0}  BY <2>15
    <2>22. Outcome(d, T, o, n, meant, out)  BY <2>14, <2>18, <2>20, <2>21 DEF Outcome
    <2> QED  BY <2>22 DEF meant, out
  <1> QED  BY <1>2, <1>3

\* What is told after an operation is what its disks have.
LEMMA OutcomeKept ==
    ASSUME NEW d, NEW T, NEW o \in Owners, NEW n \in Skills, NEW meant, NEW out, NEW k, NEW V,
           Kept(d, T), Outcome(d, T, o, n, meant, out), out.ok, k \in DOMAIN out.disks, meant \subseteq SkillValues,
           (k = Len(out.disks) /\ V = meant) \/ V = meant \cup T[o][n]
    PROVE  Kept(out.disks[k], [T EXCEPT ![o][n] = V])
  <1> DEFINE e == out.disks[k]
             U == [T EXCEPT ![o][n] = V]
  <1>1. DiskSound(d) /\ Knows(d, T) /\ ToldTyped(T)  BY DEF Kept
  <1>2. out # Failed
    <2>1. Failed.ok = FALSE  BY DEF Failed
    <2> QED  BY <2>1
  <1>3. Rewrote(d, e, o, n)  BY <1>2 DEF Outcome
  <1>4. Absent \notin SkillValues  BY DEF Absent, SkillValues, SkillStatuses
  <1>5. V # {Absent}
    <2>1. meant # {} \/ T[o][n] # {Absent}  BY <1>2 DEF Outcome
    <2> QED  BY <1>4, <2>1
  <1>6. Alone(T, o, n) => ValueOf(e.docs[n]) \in V  BY <1>2 DEF Outcome
  <1>7. ToldTyped(U)
    <2>1. T[o][n] \subseteq SkillValues \cup {Absent}  BY <1>1 DEF ToldTyped
    <2>2. V \subseteq SkillValues \cup {Absent}  BY <2>1
    <2> QED  BY <1>1, <2>2 DEF ToldTyped
  <1> HIDE DEF e
  <1>8. Knows(e, U)  BY <1>1, <1>3, <1>5, <1>6, KnownAfter
  <1>9. DiskSound(e)  BY <1>3 DEF Rewrote
  <1> QED  BY <1>7, <1>8, <1>9 DEF Kept, e

\* A change is typed, and each of its operations leaves what is meant by it.
LEMMA MeantIs ==
    ASSUME Kept(disk, told), NEW o \in Owners, NEW n \in Skills, NEW body, NEW status \in SkillStatuses, NEW operation,
           operation = "create" => body \in Bodies
    PROVE  /\ Meant(o, n, operation, body, status) \subseteq SkillValues
           /\ operation # "create" => Meant(o, n, operation, body, status) = Changed(told[o][n], status)
  <1>1. told[o][n] \subseteq SkillValues \cup {Absent}  BY DEF Kept, ToldTyped
  <1>2. CASE operation = "create"  BY <1>2 DEF Meant, SkillValues
  <1>3. CASE operation # "create"
    <2>1. Meant(o, n, operation, body, status) = Changed(told[o][n], status)  BY <1>3 DEF Meant, Changed
    <2>2. Changed(told[o][n], status) \subseteq SkillValues  BY <1>1, ChangedTyped
    <2> QED  BY <2>1, <2>2
  <1> QED  BY <1>2, <1>3

LEMMA RunsCount ==
    ASSUME NEW crashed \in BOOLEAN, skillRuns \in [writes : Nat, crashes : Nat], Counted(crashed)
    PROVE  /\ skillRuns' \in [writes : Nat, crashes : Nat]
           /\ crashed => skillRuns'.crashes # 0
           /\ ~crashed => skillRuns'.crashes = skillRuns.crashes
           /\ skillRuns'.crashes = 0 => skillRuns.crashes = 0
  BY DEF Counted

LEMMA QueueAfter ==
    ASSUME NEW queue, NEW crashes, ChangesSound(queue, crashes), NEW later, later = 0 => crashes = 0
    PROVE  ChangesSound(queue, later)
  BY DEF ChangesSound, ChangeSound

LEMMA QueueStays ==
    ASSUME QueueHeld, NEW crashed \in BOOLEAN, Counted(crashed), UNCHANGED changes
    PROVE  QueueHeld'
  <1>1. skillRuns \in [writes : Nat, crashes : Nat] /\ ChangesSound(changes, skillRuns.crashes)  BY DEF QueueHeld
  <1>2. skillRuns' \in [writes : Nat, crashes : Nat] /\ (skillRuns'.crashes = 0 => skillRuns.crashes = 0)
    BY <1>1, RunsCount
  <1>3. ChangesSound(changes, skillRuns'.crashes)  BY <1>1, <1>2, QueueAfter
  <1> QED  BY <1>2, <1>3 DEF QueueHeld

LEMMA DirectlyKeeps ==
    ASSUME SkillInv, NEW o \in Owners, NEW n \in Skills, NEW body, NEW status \in SkillStatuses, NEW operation, NEW out,
           operation = "create" => body \in Bodies,
           Outcome(disk, told, o, n, Meant(o, n, operation, body, status), out),
           Directly(o, n, operation, body, status, out)
    PROVE  SkillInv'
  <1> DEFINE meant == Meant(o, n, operation, body, status)
  <1>1. Kept(disk, told) /\ QueueHeld  BY DEF SkillInv
  <1>2. meant \subseteq SkillValues  BY <1>1, MeantIs
  <1> HIDE DEF meant
  <1>3. PICK k \in DOMAIN out.disks :
          /\ disk' = out.disks[k] /\ Counted(k < Len(out.disks))
          /\ told' = [told EXCEPT ![o][n] = meant \cup (IF k < Len(out.disks) THEN told[o][n] ELSE {})]
    BY DEF Directly, SkillKnown, meant
  <1>4. out.ok /\ UNCHANGED changes  BY DEF Directly
  <1>5. QueueHeld'
    <2>1. (k < Len(out.disks)) \in BOOLEAN  OBVIOUS
    <2> QED  BY <1>1, <1>3, <1>4, <2>1, QueueStays
  <1>6. k = Len(out.disks) \/ k < Len(out.disks)
    <2>1. Failed.ok = FALSE  BY DEF Failed
    <2>2. DOMAIN out.disks = 1..Len(out.disks) /\ Len(out.disks) \in Nat \ {0}  BY <1>4, <2>1 DEF Outcome
    <2> QED  BY <2>2
  <1> DEFINE V == meant \cup (IF k < Len(out.disks) THEN told[o][n] ELSE {})
  <1>7. (k = Len(out.disks) /\ V = meant) \/ V = meant \cup told[o][n]
    <2>1. CASE k < Len(out.disks)  BY <2>1
    <2>2. CASE ~(k < Len(out.disks))  BY <1>6, <2>2
    <2> QED  BY <2>1, <2>2
  <1> HIDE DEF V
  <1>8. Outcome(disk, told, o, n, meant, out)  BY DEF meant
  <1>9. Kept(out.disks[k], [told EXCEPT ![o][n] = V])  BY <1>1, <1>2, <1>4, <1>7, <1>8, OutcomeKept
  <1>10. Kept(disk', told')  BY <1>3, <1>9 DEF V
  <1> QED  BY <1>5, <1>10 DEF SkillInv

\* A change that is made says so.
LEMMA ApprovedSound ==
    ASSUME NEW c, NEW crashes, ChangeSound(c, crashes), NEW out, out.ok \in BOOLEAN
    PROVE  ChangeSound(Approved(c, out), crashes)
  <1> DEFINE applied == c.applied + (IF out.ok THEN 1 ELSE 0)
             again == c.again \/ c.state # "pending"
             state == IF c.state = "pending" /\ out.ok THEN "approved" ELSE c.state
             r == Approved(c, out)
             made == [c EXCEPT !.applied = applied]
             seen == [made EXCEPT !.again = again]
  <1>1. c \in ChangeRecord  BY DEF ChangeSound
  <1>2. c.applied \in Nat /\ c.again \in BOOLEAN /\ c.state \in {"pending", "approved", "rejected"}
    BY <1>1 DEF ChangeRecord
  <1>3. applied \in Nat /\ again \in BOOLEAN /\ state \in {"pending", "approved", "rejected"}  BY <1>2
  <1>4. r = [seen EXCEPT !.state = state]  BY <1>1 DEF Approved, Decides, ChangeRecord
  <1> HIDE DEF applied, again, state, r
  <1>5. made \in ChangeRecord /\ made.applied = applied /\ made.state = c.state
        /\ made.operation = c.operation /\ made.body = c.body /\ made.status = c.status
    BY <1>1, <1>3 DEF ChangeRecord
  <1> HIDE DEF made
  <1>6. seen \in ChangeRecord /\ seen.again = again /\ seen.applied = applied
        /\ seen.operation = c.operation /\ seen.body = c.body /\ seen.status = c.status
    BY <1>3, <1>5 DEF ChangeRecord
  <1> HIDE DEF seen
  <1>7. r \in ChangeRecord /\ r.state = state /\ r.again = again /\ r.applied = applied
        /\ r.operation = c.operation /\ r.body = c.body /\ r.status = c.status
    BY <1>3, <1>4, <1>6 DEF ChangeRecord
  <1>8. state = "approved" => applied > 0  BY <1>2 DEF ChangeSound, state, applied
  <1>9. ~again /\ crashes = 0 => applied = (IF state = "approved" THEN 1 ELSE 0)
    BY <1>2 DEF ChangeSound, state, applied, again
  <1>10. ChangeSound(r, crashes)  BY <1>7, <1>8, <1>9 DEF ChangeSound
  <1> QED  BY <1>10 DEF r

LEMMA CrashedSound ==
    ASSUME NEW c, NEW crashes, ChangeSound(c, crashes), NEW later, later # 0
    PROVE  ChangeSound([c EXCEPT !.applied = @ + 1], later)
  <1>1. c \in ChangeRecord  BY DEF ChangeSound
  <1>2. [c EXCEPT !.applied = @ + 1] \in ChangeRecord  BY <1>1 DEF ChangeRecord
  <1>3. c.applied \in Nat  BY <1>1 DEF ChangeRecord
  <1> QED  BY <1>1, <1>2, <1>3 DEF ChangeSound, ChangeRecord

LEMMA OneChanges ==
    ASSUME NEW queue, NEW crashes, ChangesSound(queue, crashes), NEW i \in DOMAIN queue, NEW c, ChangeSound(c, crashes)
    PROVE  ChangesSound([queue EXCEPT ![i] = c], crashes)
  <1>1. c \in ChangeRecord  BY DEF ChangeSound
  <1>2. queue \in Seq(ChangeRecord)  BY DEF ChangesSound
  <1>3. [queue EXCEPT ![i] = c] \in Seq(ChangeRecord)  BY <1>1, <1>2
  <1>4. \A j \in DOMAIN [queue EXCEPT ![i] = c] :
          j \in DOMAIN queue /\ [queue EXCEPT ![i] = c][j] = (IF j = i THEN c ELSE queue[j])
    BY <1>2
  <1>5. \A j \in DOMAIN queue : ChangeSound(queue[j], crashes)  BY DEF ChangesSound
  <1> QED  BY <1>3, <1>4, <1>5 DEF ChangesSound

LEMMA AppliedOutcome ==
    ASSUME Kept(disk, told), NEW crashes, NEW c, ChangeSound(c, crashes)
    PROVE  /\ Outcome(disk, told, c.owner, c.name, Meant(c.owner, c.name, c.operation, c.body, c.status), Applied(disk, c))
           /\ c.owner \in Owners /\ c.name \in Skills
           /\ Meant(c.owner, c.name, c.operation, c.body, c.status) \subseteq SkillValues
  <1> DEFINE o == c.owner
             n == c.name
             meant == Meant(c.owner, c.name, c.operation, c.body, c.status)
  <1>1. /\ o \in Owners /\ n \in Skills /\ c.status \in SkillStatuses
        /\ c.operation = "create" => c.body \in Bodies
        /\ c.operation = "archive" => c.status = "archived"
        /\ c.operation \in {"create", "update", "archive"}
    BY DEF ChangeSound, ChangeRecord
  <1>2. DiskSound(disk) /\ Knows(disk, told) /\ ToldTyped(told)  BY DEF Kept
  <1>3. meant \subseteq SkillValues /\ (c.operation # "create" => meant = Changed(told[o][n], c.status))
    BY <1>1, MeantIs
  <1>4. CASE c.operation = "create"
    <2>1. meant = {[body |-> c.body, status |-> c.status]}  BY <1>4 DEF Meant
    <2>2. Applied(disk, c) = Saved(disk, o, n, c.body, c.status)  BY <1>4 DEF Applied
    <2>3. Outcome(disk, told, o, n, {[body |-> c.body, status |-> c.status]}, Saved(disk, o, n, c.body, c.status))
      BY <1>1, <1>2, <1>4, SavedOutcome
    <2> QED  BY <1>1, <1>3, <2>1, <2>2, <2>3
  <1>5. CASE c.operation = "update"
    <2>1. Applied(disk, c) = StatusUpdated(disk, o, n, c.status)  BY <1>5 DEF Applied
    <2>2. Outcome(disk, told, o, n, Changed(told[o][n], c.status), StatusUpdated(disk, o, n, c.status))
      BY <1>1, <1>2, UpdateOutcome
    <2> QED  BY <1>1, <1>3, <1>5, <2>1, <2>2
  <1>6. CASE c.operation = "archive"
    <2>1. Applied(disk, c) = StatusSet(disk, o, n, c.status)  BY <1>1, <1>6 DEF Applied
    <2>2. Outcome(disk, told, o, n, Changed(told[o][n], c.status), StatusSet(disk, o, n, c.status))
      BY <1>1, <1>2, StatusOutcome
    <2> QED  BY <1>1, <1>3, <1>6, <2>1, <2>2
  <1> QED  BY <1>1, <1>4, <1>5, <1>6

\* A change that is approved, whatever is left of it.
LEMMA ApprovesKeeps ==
    ASSUME SkillInv, NEW queue, ChangesSound(queue, skillRuns.crashes), NEW i \in DOMAIN queue, Approves(queue, i)
    PROVE  SkillInv'
  <1> DEFINE c == queue[i]
             o == c.owner
             n == c.name
             out == Applied(disk, c)
             before == told[o][n]
             meant == Meant(o, n, c.operation, c.body, c.status)
             K == skillRuns.crashes
  <1>1. Kept(disk, told) /\ skillRuns \in [writes : Nat, crashes : Nat]  BY DEF SkillInv, QueueHeld
  <1>2. ChangeSound(c, K) /\ queue \in Seq(ChangeRecord)  BY DEF ChangesSound
  <1> HIDE DEF c
  <1>3. Outcome(disk, told, o, n, meant, out) /\ o \in Owners /\ n \in Skills /\ meant \subseteq SkillValues
    BY <1>1, <1>2, AppliedOutcome
  <1>4. \/ /\ changes' = [queue EXCEPT ![i] = Approved(c, out)]
           /\ disk' = IF out.disks = <<>> THEN disk ELSE Last(out.disks)
           /\ told' = [told EXCEPT ![o][n] = IF out.ok THEN meant ELSE before]
           /\ Counted(FALSE)
        \/ /\ out.ok /\ \E k \in DOMAIN out.disks : disk' = out.disks[k]
           /\ changes' = [queue EXCEPT ![i].applied = @ + 1]
           /\ told' = [told EXCEPT ![o][n] = meant \cup before]
           /\ Counted(TRUE)
    BY DEF Approves, SkillKnown, c
  <1> HIDE DEF o, n, out, before, meant
  <1>5. Failed.ok = FALSE /\ Failed.disks = <<>>  BY DEF Failed
  <1>6. CASE /\ changes' = [queue EXCEPT ![i] = Approved(c, out)]
             /\ disk' = IF out.disks = <<>> THEN disk ELSE Last(out.disks)
             /\ told' = [told EXCEPT ![o][n] = IF out.ok THEN meant ELSE before]
             /\ Counted(FALSE)
    <2>1. skillRuns' \in [writes : Nat, crashes : Nat] /\ skillRuns'.crashes = K  BY <1>1, <1>6, RunsCount
    <2>2. out.ok \in BOOLEAN  BY <1>3, <1>5 DEF Outcome
    <2>3. ChangesSound(changes', K)
      <3>1. ChangeSound(Approved(c, out), K)  BY <1>2, <2>2, ApprovedSound
      <3> HIDE DEF K
      <3> QED  BY <1>6, <3>1, OneChanges DEF K
    <2>4. QueueHeld'  BY <2>1, <2>3 DEF QueueHeld
    <2>5. CASE out.ok
      <3> DEFINE k == Len(out.disks)
      <3>1. out # Failed  BY <1>5, <2>5
      <3>2. DOMAIN out.disks = 1..Len(out.disks) /\ Len(out.disks) \in Nat \ {0}  BY <1>3, <3>1 DEF Outcome
      <3>3. k \in DOMAIN out.disks /\ out.disks # <<>>
        <4>1. Len(<<>>) = 0  OBVIOUS
        <4> QED  BY <3>2, <4>1
      <3>4. disk' = out.disks[k]  BY <1>6, <3>3 DEF Last
      <3>5. Kept(out.disks[k], [told EXCEPT ![o][n] = meant])  BY <1>1, <1>3, <2>5, <3>3, OutcomeKept
      <3>6. Kept(disk', told')  BY <1>6, <2>5, <3>4, <3>5
      <3> QED  BY <2>4, <3>6 DEF SkillInv
    <2>6. CASE ~out.ok
      <3>1. out = Failed  BY <1>3, <2>6 DEF Outcome
      <3>2. disk' = disk  BY <1>5, <1>6, <3>1
      <3>3. told' = told
        <4>1. told \in [Owners -> [Skills -> SUBSET (SkillValues \cup {Absent})]]  BY <1>1 DEF Kept, ToldTyped
        <4> QED  BY <1>3, <1>6, <2>6, <4>1 DEF before
      <3>4. Kept(disk', told')  BY <1>1, <3>2, <3>3
      <3> QED  BY <2>4, <3>4 DEF SkillInv
    <2> QED  BY <2>5, <2>6
  <1>7. CASE /\ out.ok /\ \E k \in DOMAIN out.disks : disk' = out.disks[k]
             /\ changes' = [queue EXCEPT ![i].applied = @ + 1]
             /\ told' = [told EXCEPT ![o][n] = meant \cup before]
             /\ Counted(TRUE)
    <2>1. skillRuns' \in [writes : Nat, crashes : Nat] /\ skillRuns'.crashes # 0  BY <1>1, <1>7, RunsCount
    <2>2. ChangesSound(changes', skillRuns'.crashes)
      <3> DEFINE later == skillRuns'.crashes
      <3>1. later # 0  BY <2>1
      <3> HIDE DEF later
      <3>2. ChangeSound([c EXCEPT !.applied = @ + 1], later)  BY <1>2, <3>1, CrashedSound
      <3>3. ChangesSound(queue, later)  BY <3>1, QueueAfter
      <3>4. ChangesSound([queue EXCEPT ![i] = [c EXCEPT !.applied = @ + 1]], later)  BY <3>2, <3>3, OneChanges
      <3>5. changes' = [queue EXCEPT ![i] = [c EXCEPT !.applied = @ + 1]]  BY <1>7 DEF c
      <3> QED  BY <3>4, <3>5 DEF later
    <2>3. QueueHeld'  BY <2>1, <2>2 DEF QueueHeld
    <2>4. PICK k \in DOMAIN out.disks : disk' = out.disks[k]  BY <1>7
    <2>5. Kept(out.disks[k], [told EXCEPT ![o][n] = meant \cup told[o][n]])
      <3> DEFINE V == meant \cup told[o][n]
      <3>1. V = meant \cup told[o][n]  OBVIOUS
      <3> HIDE DEF V
      <3>2. Kept(out.disks[k], [told EXCEPT ![o][n] = V])  BY <1>1, <1>3, <1>7, <3>1, OutcomeKept
      <3> QED  BY <3>2 DEF V
    <2>6. Kept(disk', told')  BY <1>7, <2>4, <2>5 DEF before
    <2> QED  BY <2>3, <2>6 DEF SkillInv
  <1> QED  BY <1>4, <1>6, <1>7

\* A change that is staged, and perhaps approved at once.
LEMMA StagedKeeps ==
    ASSUME SkillInv, NEW o \in Owners, NEW n \in Skills, NEW operation \in {"create", "update", "archive"}, NEW body,
           body \in Bodies \cup {"none"}, NEW status \in SkillStatuses, operation = "create" => body \in Bodies,
           operation = "archive" => status = "archived", Staged(o, n, operation, body, status)
    PROVE  SkillInv'
  <1> DEFINE c == [operation |-> operation, owner |-> o, name |-> n, body |-> body, status |-> status,
                   state |-> "pending", applied |-> 0, again |-> FALSE]
             queue == Append(changes, c)
             K == skillRuns.crashes
  <1>1. /\ Kept(disk, told) /\ skillRuns \in [writes : Nat, crashes : Nat] /\ ChangesSound(changes, K)
    BY DEF SkillInv, QueueHeld
  <1>2. ChangeSound(c, K)
    <2>1. c \in ChangeRecord  BY DEF ChangeRecord
    <2> QED  BY <2>1 DEF ChangeSound
  <1>3. Approves(queue, Len(queue)) \/ (changes' = queue /\ Counted(FALSE) /\ UNCHANGED <<disk, told>>)
    BY DEF Staged
  <1> HIDE DEF c, K
  <1>4. ChangesSound(queue, K) /\ Len(queue) \in DOMAIN queue
    <2>1. changes \in Seq(ChangeRecord) /\ c \in ChangeRecord  BY <1>1, <1>2 DEF ChangesSound, ChangeSound
    <2>2. queue \in Seq(ChangeRecord)  BY <2>1, AppendProperties
    <2>3. Len(queue) = Len(changes) + 1  BY <2>1, AppendProperties
    <2>4. \A i \in 1..Len(changes) : queue[i] = changes[i]  BY <2>1, AppendProperties
    <2>5. queue[Len(changes) + 1] = c  BY <2>1, AppendProperties
    <2>6. DOMAIN queue = 1..Len(queue) /\ DOMAIN changes = 1..Len(changes) /\ Len(changes) \in Nat
      BY <2>1, <2>2, LenProperties
    <2> HIDE DEF queue
    <2>7. \A i \in DOMAIN queue : i \in DOMAIN changes \/ i = Len(changes) + 1  BY <2>3, <2>6
    <2>8. \A i \in DOMAIN queue : ChangeSound(queue[i], K)
      BY <1>1, <1>2, <2>4, <2>5, <2>6, <2>7 DEF ChangesSound
    <2>9. Len(queue) \in DOMAIN queue  BY <2>3, <2>6
    <2> QED  BY <2>2, <2>8, <2>9 DEF ChangesSound
  <1> HIDE DEF queue
  <1>5. CASE Approves(queue, Len(queue))  BY <1>4, <1>5, ApprovesKeeps DEF K
  <1>6. CASE changes' = queue /\ Counted(FALSE) /\ UNCHANGED <<disk, told>>
    <2>1. skillRuns' \in [writes : Nat, crashes : Nat] /\ skillRuns'.crashes = K
      BY <1>1, <1>6, RunsCount DEF K
    <2>2. QueueHeld'  BY <1>4, <1>6, <2>1 DEF QueueHeld
    <2>3. Kept(disk', told')  BY <1>1, <1>6
    <2> QED  BY <2>2, <2>3 DEF SkillInv
  <1> QED  BY <1>3, <1>5, <1>6

\* A document that is written by hand has no id yet; one that is edited keeps its id and its owner.
LEMMA EditSound ==
    ASSUME NEW d, NEW n \in Skills, NEW doc \in DocumentRecord, DiskSound(d),
           \/ d.docs[n] = NoSkill /\ doc.id = 0
           \/ d.docs[n] # NoSkill /\ doc.id = d.docs[n].id /\ doc.owner = d.docs[n].owner
    PROVE  Rewrote(d, [docs |-> [d.docs EXCEPT ![n] = doc], cache |-> d.cache, nextId |-> d.nextId], doc.owner, n)
  <1> DEFINE written == [d.docs EXCEPT ![n] = doc]
             e == [docs |-> written, cache |-> d.cache, nextId |-> d.nextId]
  <1>1. DocsSound(d.docs) /\ EntriesSound(d.docs, d.cache) /\ d.nextId \in Nat \ {0}  BY DEF DiskSound
  <1>2. d.docs \in [Skills -> DocumentRecord \cup {NoSkill}]  BY <1>1 DEF DocsSound
  <1>3. /\ written \in [Skills -> DocumentRecord \cup {NoSkill}]
        /\ written[n] = doc /\ \A m \in Skills \ {n} : written[m] = d.docs[m]
    BY <1>2
  <1>4. doc # NoSkill /\ NoSkill.id = 0
    <2>1. doc.status # "none" /\ NoSkill.status = "none"  BY DEF DocumentRecord, SkillStatuses, NoSkill
    <2> QED  BY <2>1 DEF NoSkill
  <1> HIDE DEF written
  <1>5. doc.id # 0 => doc.id = d.docs[n].id /\ doc.owner = d.docs[n].owner  OBVIOUS
  <1>6. DocsSound(written)
    <2>1. ASSUME NEW m \in Skills, written[m].id \in Skills PROVE written[m].id = m
      <3>1. CASE m # n  BY <1>1, <1>3, <2>1, <3>1 DEF DocsSound
      <3>2. CASE m = n
        <4>1. doc.id # 0  BY <1>3, <2>1, <3>2, SkillAssumption
        <4> QED  BY <1>1, <1>3, <1>5, <2>1, <3>2, <4>1 DEF DocsSound
      <3> QED  BY <3>1, <3>2
    <2>2. ASSUME NEW l \in Skills, NEW m \in Skills, written[l].id # 0, written[l].id = written[m].id PROVE l = m
      <3>1. written[l].id = d.docs[l].id  BY <1>3, <1>5, <2>2
      <3>2. written[m].id = d.docs[m].id  BY <1>3, <1>5, <2>2
      <3> QED  BY <1>1, <2>2, <3>1, <3>2 DEF DocsSound
    <2> QED  BY <1>3, <2>1, <2>2 DEF DocsSound
  <1>7. ASSUME NEW j \in DOMAIN d.cache PROVE EntrySound(written, d.cache[j])
    <2> DEFINE entry == d.cache[j]
    <2>1. EntrySound(d.docs, entry)  BY <1>1 DEF EntriesSound
    <2> HIDE DEF entry
    <2>2. entry \in EntryRecord /\ IdOfName(entry) /\ AgreesWith(d.docs, entry)  BY <2>1 DEF EntrySound
    <2>3. entry.name \in Skills  BY <2>2 DEF EntryRecord
    <2>4. written[entry.name] # NoSkill
      <3>1. CASE entry.name = n  BY <1>3, <1>4, <3>1
      <3>2. CASE entry.name # n  BY <1>3, <2>2, <2>3, <3>2 DEF AgreesWith
      <3> QED  BY <3>1, <3>2
    <2>5. ASSUME NEW m \in Skills, written[m].id # 0
          PROVE  entry.id = written[m].id <=> entry.name = m /\ entry.owner = written[m].owner
      <3>1. written[m].id = d.docs[m].id /\ written[m].owner = d.docs[m].owner  BY <1>3, <1>5, <2>5
      <3> QED  BY <2>2, <2>5, <3>1 DEF AgreesWith
    <2>6. ASSUME written[entry.name].id = 0
          PROVE  entry.owner = written[entry.name].owner /\ entry.id = entry.name
      <3>1. CASE entry.name # n  BY <1>3, <2>2, <2>3, <2>6, <3>1 DEF AgreesWith
      <3>2. CASE entry.name = n
        <4>1. d.docs[n] # NoSkill  BY <2>2, <3>2 DEF AgreesWith
        <4>2. doc.id = d.docs[n].id /\ doc.owner = d.docs[n].owner  BY <4>1
        <4> QED  BY <1>3, <2>2, <2>6, <3>2, <4>2 DEF AgreesWith
      <3> QED  BY <3>1, <3>2
    <2>7. AgreesWith(written, entry)  BY <2>4, <2>5, <2>6 DEF AgreesWith
    <2>8. EntrySound(written, entry)  BY <2>2, <2>7 DEF EntrySound
    <2> QED  BY <2>8 DEF entry
  <1>8. EntriesSound(written, d.cache)  BY <1>1, <1>7 DEF EntriesSound
  <1>9. DiskSound(e)  BY <1>1, <1>6, <1>8 DEF DiskSound
  <1>10. e.docs[n] = doc /\ e.cache = d.cache /\ \A m \in Skills \ {n} : e.docs[m] = d.docs[m]  BY <1>3
  <1> HIDE DEF e
  <1>11. Rewrote(d, e, doc.owner, n)  BY <1>4, <1>9, <1>10 DEF Rewrote
  <1> QED  BY <1>11 DEF e, written

LEMMA EditKept ==
    ASSUME NEW d, NEW T, NEW n \in Skills, NEW doc \in DocumentRecord, Kept(d, T),
           \/ d.docs[n] = NoSkill /\ doc.id = 0
           \/ d.docs[n] # NoSkill /\ doc.id = d.docs[n].id /\ doc.owner = d.docs[n].owner,
           NEW V, V \subseteq SkillValues, Alone(T, doc.owner, n) => ValueOf(doc) \in V
    PROVE  Kept([docs |-> [d.docs EXCEPT ![n] = doc], cache |-> d.cache, nextId |-> d.nextId],
                [T EXCEPT ![doc.owner][n] = V])
  <1> DEFINE e == [docs |-> [d.docs EXCEPT ![n] = doc], cache |-> d.cache, nextId |-> d.nextId]
             o == doc.owner
             U == [T EXCEPT ![o][n] = V]
  <1>1. DiskSound(d) /\ Knows(d, T) /\ ToldTyped(T)  BY DEF Kept
  <1>2. Rewrote(d, e, o, n)  BY <1>1, EditSound
  <1>3. e.docs[n] = doc
    <2>1. d.docs \in [Skills -> DocumentRecord \cup {NoSkill}]  BY <1>1 DEF DiskSound, DocsSound
    <2>2. [d.docs EXCEPT ![n] = doc][n] = doc  BY <2>1
    <2> QED  BY <2>2
  <1> HIDE DEF e
  <1>4. o \in Owners  BY DEF DocumentRecord
  <1>5. Absent \notin SkillValues  BY DEF Absent, SkillValues, SkillStatuses
  <1>6. V # {Absent}  BY <1>5
  <1>7. ToldTyped(U)
    <2>1. V \in SUBSET (SkillValues \cup {Absent})  OBVIOUS
    <2> HIDE DEF o
    <2> QED  BY <1>1, <1>4, <2>1 DEF ToldTyped
  <1>8. Knows(e, U)
    <2>1. Alone(T, o, n) => ValueOf(e.docs[n]) \in V  BY <1>3
    <2> HIDE DEF o
    <2> QED  BY <1>1, <1>2, <1>4, <1>6, <2>1, KnownAfter
  <1>9. DiskSound(e)  BY <1>2 DEF Rewrote
  <1> HIDE DEF U
  <1>10. Kept(e, U)  BY <1>7, <1>8, <1>9 DEF Kept
  <1> QED  BY <1>10 DEF e, U, o

LEMMA SkillHandEdits == ASSUME SkillInv, NEW n \in Skills, HandEdits(n) PROVE SkillInv'
  <1>1. Kept(disk, told) /\ QueueHeld  BY DEF SkillInv
  <1>2. DiskSound(disk) /\ Knows(disk, told) /\ ToldTyped(told)  BY <1>1 DEF Kept
  <1> DEFINE D == disk.docs
             C == disk.cache
             X == disk.nextId
             old == disk.docs[n]
  <1>3. disk = [docs |-> D, cache |-> C, nextId |-> X]  BY <1>2 DEF DiskSound
  <1>4. PICK body \in Bodies, o \in Owners :
          /\ Counted(FALSE) /\ UNCHANGED changes
          /\ IF old = NoSkill
             THEN /\ disk' = [disk EXCEPT !.docs[n] = [id |-> 0, owner |-> o, body |-> body, status |-> "active"]]
                  /\ told' = [told EXCEPT ![o][n] = {[body |-> body, status |-> "active"]}]
             ELSE /\ o = old.owner /\ disk' = [disk EXCEPT !.docs[n].body = body]
                  /\ told' = [told EXCEPT ![o][n] = {[v EXCEPT !.body = body] : v \in told[o][n] \ {Absent}}]
    BY DEF HandEdits, SkillKnown
  <1>5. QueueHeld'  BY <1>1, <1>4, QueueStays
  <1>6. CASE old = NoSkill
    <2> DEFINE doc == [id |-> 0, owner |-> o, body |-> body, status |-> "active"]
               V == {[body |-> body, status |-> "active"]}
    <2>1. doc \in DocumentRecord /\ doc.id = 0 /\ doc.owner = o  BY DEF DocumentRecord, SkillStatuses
    <2>2. V \subseteq SkillValues /\ ValueOf(doc) \in V  BY DEF SkillValues, SkillStatuses, ValueOf
    <2>3. disk' = [disk EXCEPT !.docs[n] = doc] /\ told' = [told EXCEPT ![o][n] = V]  BY <1>4, <1>6
    <2> HIDE DEF doc, V
    <2>4. disk' = [docs |-> [D EXCEPT ![n] = doc], cache |-> C, nextId |-> X]
      <3> HIDE DEF D, C, X
      <3>1. [[docs |-> D, cache |-> C, nextId |-> X] EXCEPT !.docs[n] = doc]
              = [docs |-> [D EXCEPT ![n] = doc], cache |-> C, nextId |-> X]
        OBVIOUS
      <3>2. [disk EXCEPT !.docs[n] = doc] = [[docs |-> D, cache |-> C, nextId |-> X] EXCEPT !.docs[n] = doc]
        BY <1>3
      <3> QED  BY <2>3, <3>1, <3>2
    <2>5. Kept([docs |-> [D EXCEPT ![n] = doc], cache |-> C, nextId |-> X], [told EXCEPT ![doc.owner][n] = V])
      BY <1>1, <1>6, <2>1, <2>2, EditKept
    <2>6. [told EXCEPT ![doc.owner][n] = V] = [told EXCEPT ![o][n] = V]  BY <2>1
    <2>7. Kept(disk', told')
      <3> HIDE DEF D, C, X
      <3> QED  BY <2>3, <2>4, <2>5, <2>6
    <2> QED  BY <1>5, <2>7 DEF SkillInv
  <1>7. CASE old # NoSkill
    <2> DEFINE doc == [old EXCEPT !.body = body]
               V == {[v EXCEPT !.body = body] : v \in told[o][n] \ {Absent}}
    <2>1. old \in DocumentRecord /\ ValueOf(old) # Absent  BY <1>2, <1>7, DocumentTyped
    <2>2. o = old.owner /\ disk' = [disk EXCEPT !.docs[n].body = body] /\ told' = [told EXCEPT ![o][n] = V]
      BY <1>4, <1>7
    <2>3. /\ doc \in DocumentRecord /\ doc.id = old.id /\ doc.owner = o
          /\ ValueOf(doc) = [body |-> body, status |-> old.status]
      <3> HIDE DEF old
      <3> QED  BY <2>1, <2>2 DEF DocumentRecord, ValueOf
    <2>4. \A v \in told[o][n] \ {Absent} :
            /\ [v EXCEPT !.body = body] \in SkillValues
            /\ [v EXCEPT !.body = body] = [body |-> body, status |-> v.status]
      <3>1. told[o][n] \subseteq SkillValues \cup {Absent}  BY <1>2 DEF ToldTyped
      <3>2. \A v \in told[o][n] \ {Absent} : v \in SkillValues  BY <3>1
      <3> QED  BY <3>2 DEF SkillValues
    <2>5. V \subseteq SkillValues  BY <2>4
    <2>6. ASSUME Alone(told, o, n) PROVE ValueOf(doc) \in V
      <3>1. ValueOf(old) \in told[o][n] \ {Absent}  BY <1>2, <1>7, <2>1, <2>2, <2>6 DEF Knows
      <3>2. ValueOf(old).status = old.status  BY DEF ValueOf
      <3>3. ValueOf(doc) = [ValueOf(old) EXCEPT !.body = body]  BY <2>3, <2>4, <3>1, <3>2
      <3> HIDE DEF doc, old
      <3> QED  BY <3>1, <3>3
    <2>7. disk' = [docs |-> [D EXCEPT ![n] = doc], cache |-> C, nextId |-> X]
      <3>1. doc = [D[n] EXCEPT !.body = body]  OBVIOUS
      <3> HIDE DEF D, C, X, doc, old
      <3>2. [[docs |-> D, cache |-> C, nextId |-> X] EXCEPT !.docs[n].body = body]
              = [docs |-> [D EXCEPT ![n].body = body], cache |-> C, nextId |-> X]
        OBVIOUS
      <3>3. [D EXCEPT ![n].body = body] = [D EXCEPT ![n] = doc]  BY <3>1
      <3>4. [disk EXCEPT !.docs[n].body = body] = [[docs |-> D, cache |-> C, nextId |-> X] EXCEPT !.docs[n].body = body]
        BY <1>3
      <3> QED  BY <2>2, <3>2, <3>3, <3>4
    <2> HIDE DEF doc, V
    <2>8. Kept([docs |-> [D EXCEPT ![n] = doc], cache |-> C, nextId |-> X], [told EXCEPT ![doc.owner][n] = V])
      BY <1>1, <1>7, <2>2, <2>3, <2>5, <2>6, EditKept
    <2>9. [told EXCEPT ![doc.owner][n] = V] = [told EXCEPT ![o][n] = V]  BY <2>3
    <2>10. Kept(disk', told')
      <3> HIDE DEF D, C, X
      <3> QED  BY <2>2, <2>7, <2>8, <2>9
    <2> QED  BY <1>5, <2>10 DEF SkillInv
  <1> QED  BY <1>6, <1>7

LEMMA SkillRejects == ASSUME SkillInv, NEW i \in DOMAIN changes, RejectChange(i) PROVE SkillInv'
  <1> DEFINE c == [changes[i] EXCEPT !.state = "rejected"]
             K == skillRuns.crashes
  <1>1. /\ Kept(disk, told) /\ skillRuns \in [writes : Nat, crashes : Nat] /\ ChangesSound(changes, K)
    BY DEF SkillInv, QueueHeld
  <1>2. changes[i].state = "pending" /\ changes' = [changes EXCEPT ![i] = c] /\ Counted(FALSE) /\ UNCHANGED <<disk, told>>
    BY DEF RejectChange
  <1>3. ChangeSound(changes[i], K)  BY <1>1 DEF ChangesSound
  <1>4. ChangeSound(c, K)
    <2>1. changes[i] \in ChangeRecord  BY <1>3 DEF ChangeSound
    <2>2. c \in ChangeRecord /\ c.state = "rejected" /\ c.again = changes[i].again /\ c.applied = changes[i].applied
          /\ c.operation = changes[i].operation /\ c.body = changes[i].body /\ c.status = changes[i].status
      BY <2>1 DEF ChangeRecord
    <2> HIDE DEF c
    <2> QED  BY <1>2, <1>3, <2>2 DEF ChangeSound
  <1> HIDE DEF c
  <1>5. ChangesSound(changes', K)
    <2>1. ChangesSound([changes EXCEPT ![i] = c], K)
      <3> HIDE DEF K
      <3> QED  BY <1>1, <1>4, OneChanges
    <2> QED  BY <1>2, <2>1
  <1>6. skillRuns' \in [writes : Nat, crashes : Nat] /\ skillRuns'.crashes = K  BY <1>1, <1>2, RunsCount
  <1>7. QueueHeld'  BY <1>5, <1>6 DEF QueueHeld
  <1>8. Kept(disk', told')  BY <1>1, <1>2
  <1> QED  BY <1>7, <1>8 DEF SkillInv

LEMMA SkillStep == SkillInv /\ [SkillNext]_skillVars => SkillInv'
  <1> SUFFICES ASSUME SkillInv, [SkillNext]_skillVars PROVE SkillInv'
    OBVIOUS
  <1>1. Kept(disk, told) /\ ChangesSound(changes, skillRuns.crashes)  BY DEF SkillInv, QueueHeld
  <1>2. DiskSound(disk) /\ Knows(disk, told) /\ ToldTyped(told)  BY <1>1 DEF Kept
  <1>3. "active" \in SkillStatuses /\ "archived" \in SkillStatuses  BY DEF SkillStatuses
  <1>4. ASSUME NEW o \in Owners, NEW n \in Skills, SkillSave(o, n) PROVE SkillInv'
    <2>1. PICK body \in Bodies : Directly(o, n, "create", body, "active", Saved(disk, o, n, body, "active"))
      BY <1>4 DEF SkillSave
    <2>2. Outcome(disk, told, o, n, {[body |-> body, status |-> "active"]}, Saved(disk, o, n, body, "active"))
      BY <1>2, <1>3, SavedOutcome
    <2>3. Meant(o, n, "create", body, "active") = {[body |-> body, status |-> "active"]}  BY DEF Meant
    <2> QED  BY <1>3, <2>1, <2>2, <2>3, DirectlyKeeps
  <1>5. ASSUME NEW o \in Owners, NEW n \in Skills, SkillSetStatus(o, n) PROVE SkillInv'
    <2>1. PICK status \in SkillStatuses : Directly(o, n, "status", "none", status, StatusSet(disk, o, n, status))
      BY <1>5 DEF SkillSetStatus
    <2>2. Outcome(disk, told, o, n, Changed(told[o][n], status), StatusSet(disk, o, n, status))
      BY <1>2, StatusOutcome
    <2>3. Meant(o, n, "status", "none", status) = Changed(told[o][n], status)  BY <1>1, MeantIs
    <2>4. Outcome(disk, told, o, n, Meant(o, n, "status", "none", status), StatusSet(disk, o, n, status))
      BY <2>2, <2>3
    <2> DEFINE operation == "status"
               body == "none"
               out == StatusSet(disk, o, n, status)
    <2>5. operation = "create" => body \in Bodies  OBVIOUS
    <2>6. Directly(o, n, operation, body, status, out)  BY <2>1
    <2>7. Outcome(disk, told, o, n, Meant(o, n, operation, body, status), out)  BY <2>4
    <2> HIDE DEF operation, body, out
    <2> QED  BY <2>5, <2>6, <2>7, DirectlyKeeps
  <1>6. ASSUME NEW o \in Owners, NEW n \in Skills, StageSave(o, n) PROVE SkillInv'
    <2>1. PICK body \in Bodies, status \in SkillStatuses : Staged(o, n, "create", body, status)  BY <1>6 DEF StageSave
    <2>2. "create" \in {"create", "update", "archive"} /\ "create" # "archive" /\ body \in Bodies \cup {"none"}  OBVIOUS
    <2> QED  BY <2>1, <2>2, StagedKeeps
  <1>7. ASSUME NEW o \in Owners, NEW n \in Skills, StageStatus(o, n) PROVE SkillInv'
    <2>1. PICK status \in SkillStatuses : Staged(o, n, IF status = "archived" THEN "archive" ELSE "update", "none", status)
      BY <1>7 DEF StageStatus
    <2> DEFINE operation == IF status = "archived" THEN "archive" ELSE "update"
    <2>2. /\ operation \in {"create", "update", "archive"} /\ operation # "create"
          /\ operation = "archive" => status = "archived"
          /\ "none" \in Bodies \cup {"none"}
      OBVIOUS
    <2>3. Staged(o, n, operation, "none", status)  BY <2>1
    <2> HIDE DEF operation
    <2> QED  BY <2>2, <2>3, StagedKeeps
  <1>8. ASSUME NEW i \in DOMAIN changes, ApproveChange(i) PROVE SkillInv'
    BY <1>1, <1>8, ApprovesKeeps DEF ApproveChange
  <1>9. ASSUME NEW i \in DOMAIN changes, RejectChange(i) PROVE SkillInv'
    BY <1>9, SkillRejects
  <1>10. ASSUME NEW n \in Skills, HandEdits(n) PROVE SkillInv'
    BY <1>10, SkillHandEdits
  <1>11. CASE UNCHANGED skillVars
    BY <1>11 DEF skillVars, SkillInv, QueueHeld
  <1> QED  BY <1>4, <1>5, <1>6, <1>7, <1>8, <1>9, <1>10, <1>11 DEF SkillNext

LEMMA SkillInitially == SkillInit => SkillInv
  <1> SUFFICES ASSUME SkillInit PROVE SkillInv
    OBVIOUS
  <1> DEFINE none == [n \in Skills |-> NoSkill]
  <1>1. disk.docs = none /\ disk.cache = <<>> /\ disk.nextId = 1
        /\ disk = [docs |-> disk.docs, cache |-> disk.cache, nextId |-> disk.nextId]
    BY DEF SkillInit
  <1>2. DocsSound(none)
    <2>1. NoSkill.id = 0 /\ 0 \notin Skills  BY SkillAssumption DEF NoSkill
    <2> QED  BY <2>1 DEF DocsSound
  <1>3. EntriesSound(none, <<>>)  BY DEF EntriesSound, IdsOnce, SkillsOnce
  <1>4. DiskSound(disk)
    <2> HIDE DEF none
    <2> QED  BY <1>1, <1>2, <1>3 DEF DiskSound
  <1>5. told = [o \in Owners |-> [n \in Skills |-> {Absent}]]  BY DEF SkillInit
  <1>6. Knows(disk, told)  BY <1>1, <1>5 DEF Knows
  <1>7. ToldTyped(told)  BY <1>5 DEF ToldTyped
  <1>8. QueueHeld  BY DEF SkillInit, QueueHeld, ChangesSound
  <1> QED  BY <1>4, <1>6, <1>7, <1>8 DEF SkillInv, Kept

LEMMA SkillImplies == SkillInv => SkillsSound
  <1> SUFFICES ASSUME SkillInv PROVE SkillsSound
    OBVIOUS
  <1> DEFINE entries == Entries(disk)
  <1>1. DiskSound(disk) /\ Knows(disk, told) /\ ToldTyped(told)  BY DEF SkillInv, Kept
  <1>2. EntriesSound(disk.docs, entries)  BY <1>1, EntriesAre DEF Merges
  <1>3. IdsUnique
    <2>1. IdsOnce(entries)  BY <1>2 DEF EntriesSound
    <2> QED  BY <2>1 DEF IdsUnique, IdsOnce
  <1>4. ASSUME NEW o \in Owners, NEW n \in Skills, Alone(told, o, n)
        PROVE  ValueOf(ReadFrom(disk, entries, o, n)) \in told[o][n]
    <2> DEFINE k == EntryIn(entries, o, n)
               skill == ReadFrom(disk, entries, o, n)
    <2>1. skill = IF k = 0 THEN NoSkill ELSE IF disk.docs[n] # NoSkill THEN disk.docs[n] ELSE Document(entries[k])
      BY DEF ReadFrom
    <2>2. /\ k # 0 => Has(disk, o, n)
          /\ disk.docs[n] # NoSkill /\ disk.docs[n].owner = o => k # 0
      BY <1>1, EntryOfSkill
    <2> HIDE DEF k, skill
    <2>3. CASE k # 0
      <3>1. skill = disk.docs[n]  BY <2>1, <2>2, <2>3 DEF Has
      <3>2. ValueOf(disk.docs[n]) \in told[o][n]  BY <1>1, <1>4, <2>2, <2>3, HasIsKnown
      <3> QED  BY <3>1, <3>2 DEF skill
    <2>4. CASE k = 0
      <3>1. disk.docs[n] = NoSkill
        <4> SUFFICES ASSUME disk.docs[n] # NoSkill PROVE FALSE
          OBVIOUS
        <4>1. disk.docs[n].owner # o  BY <2>2, <2>4
        <4>2. disk.docs[n].owner \in Owners  BY <1>1, DocumentTyped
        <4>3. told[disk.docs[n].owner][n] # {Absent}  BY <1>1 DEF Knows
        <4> QED  BY <1>4, <4>1, <4>2, <4>3 DEF Alone
      <3>2. told[o][n] = {Absent}  BY <1>1, <3>1 DEF Knows
      <3>3. ValueOf(NoSkill) = Absent  BY DEF ValueOf, NoSkill, Absent
      <3> QED  BY <2>1, <2>4, <3>2, <3>3 DEF skill
    <2> QED  BY <2>3, <2>4
  <1>5. ReadsAsSaved  BY <1>4 DEF ReadsAsSaved, Alone, ValueOf
  <1>6. QueueTrue
    <2>1. \A i \in DOMAIN changes : ChangeSound(changes[i], skillRuns.crashes)  BY DEF SkillInv, QueueHeld, ChangesSound
    <2> QED  BY <2>1 DEF QueueTrue, ChangeSound
  <1> QED  BY <1>3, <1>5, <1>6 DEF SkillsSound

\* No two skills have one id, a skill reads as it was last saved, changed or edited, or after a crash as
\* before it, and the queue of changes says of each whether it was made.
THEOREM SkillsHeld == SkillSpec => []SkillsSound
  BY SkillInitially, SkillStep, SkillImplies, PTL DEF SkillSpec

-----------------------------------------------------------------------------
(* Scheduled jobs *)

\* Only jobs of the legacy file have no chat, in the file and when deferred.
ChatlessIsLegacy ==
    /\ chatless \subseteq Legacy
    /\ \A i \in DOMAIN deferred : ~deferred[i].chat => deferred[i].job \in Legacy

\* PromisesKept for one job; a recurring job keeps its timer.
JobKept(j) ==
    /\ asked[j] = "kept" => j \in store /\ (j \in timers \/ InHand(j))
    /\ asked[j] = "kept" /\ ~Once(j) => j \in timers
    /\ asked[j] = "removed" => j \notin store /\ j \notin timers

ScheduledInv ==
    /\ ScheduledTypeOK
    /\ ChatlessIsLegacy
    /\ \A j \in Scheduled \ Legacy : JobKept(j)

USE ScheduledAssumption

-----------------------------------------------------------------------------
\* Loading the file neither adds nor drops a job that is not a legacy one.
LEMMA LoadKeeps ==
    /\ \A j \in Scheduled \ Legacy : j \in Loaded <=> j \in store
    /\ ScheduledTypeOK => Loaded \subseteq Scheduled /\ LoadedChatless \subseteq Scheduled
    /\ ChatlessIsLegacy => LoadedChatless \subseteq Legacy
  BY DEF Loaded, LoadedChatless, ScheduledTypeOK, ChatlessIsLegacy

\* What is left of the deque after its i-th entry.
LEMMA RestOfDeque ==
    ASSUME deferred \in Seq(Entry), NEW i \in DOMAIN deferred
    PROVE  LET rest == SubSeq(deferred, i + 1, Len(deferred))
           IN  /\ rest \in Seq(Entry)
               /\ DOMAIN rest = 1..(Len(deferred) - i)
               /\ \A k \in DOMAIN rest : i + k \in DOMAIN deferred /\ rest[k] = deferred[i + k]
  <1> DEFINE rest == SubSeq(deferred, i + 1, Len(deferred))
  <1>1. i \in 1..Len(deferred) /\ Len(deferred) \in Nat  OBVIOUS
  <1>2. \A k \in (i + 1)..Len(deferred) : deferred[k] \in Entry  BY <1>1
  <1>3. /\ rest \in Seq(Entry)
        /\ Len(rest) = IF i + 1 <= Len(deferred) THEN Len(deferred) - (i + 1) + 1 ELSE 0
        /\ \A k \in 1..(Len(deferred) - (i + 1) + 1) : rest[k] = deferred[(i + 1) + k - 1]
    BY <1>1, <1>2, SubSeqProperties
  <1>4. Len(rest) = Len(deferred) - i  BY <1>1, <1>3
  <1>5. DOMAIN rest = 1..(Len(deferred) - i)  BY <1>3, <1>4
  <1>6. ASSUME NEW k \in DOMAIN rest
        PROVE  i + k \in DOMAIN deferred /\ rest[k] = deferred[i + k]
    BY <1>1, <1>3, <1>5
  <1> QED  BY <1>3, <1>5, <1>6

-----------------------------------------------------------------------------
(* The invariant holds at first and is kept, one lemma for each part *)

LEMMA ScheduledInitInv == ScheduledInit => ScheduledInv
  <1> SUFFICES ASSUME ScheduledInit PROVE ScheduledInv
    OBVIOUS
  <1>1. ScheduledTypeOK
    BY DEF ScheduledInit, ScheduledTypeOK, NoDrain, DrainState
  <1>2. ChatlessIsLegacy
    BY DEF ScheduledInit, ChatlessIsLegacy
  <1>3. \A j \in Scheduled \ Legacy : JobKept(j)
    BY DEF ScheduledInit, JobKept
  <1> QED  BY <1>1, <1>2, <1>3 DEF ScheduledInv

\* The end of a run, of a timer or of the drain.
LEMMA FinishedStep ==
    ASSUME ScheduledInv, NEW j \in Scheduled, Finished(j)
    PROVE  /\ store' \subseteq Scheduled /\ chatless' \subseteq Legacy
           /\ asked' \in [Scheduled -> {"none", "kept", "removed", "done", "missed"}]
           /\ \A k \in Scheduled \ Legacy :
                /\ asked'[k] = "kept" => asked[k] = "kept" /\ k \in store' /\ (k # j \/ ~Once(k))
                /\ asked'[k] = "removed" => asked[k] = "removed" /\ k \notin store'
  <1> USE DEF ScheduledInv, ScheduledTypeOK
  <1>1. CASE Once(j)
    <2>1. /\ store' = Loaded \ {j} /\ chatless' = LoadedChatless \ {j}
          /\ asked' = [asked EXCEPT ![j] = IF asked[j] = "kept" THEN "done" ELSE asked[j]]
      BY <1>1 DEF Finished
    <2>2. store' \subseteq Scheduled /\ chatless' \subseteq Legacy
      BY <2>1, LoadKeeps
    <2>3. asked' \in [Scheduled -> {"none", "kept", "removed", "done", "missed"}]
      BY <2>1
    <2>4. ASSUME NEW k \in Scheduled \ Legacy
          PROVE  /\ asked'[k] = "kept" => asked[k] = "kept" /\ k \in store' /\ (k # j \/ ~Once(k))
                 /\ asked'[k] = "removed" => asked[k] = "removed" /\ k \notin store'
      <3>1. k # j => asked'[k] = asked[k]  BY <2>1
      <3>2. asked'[j] # "kept" /\ (asked'[j] = "removed" => asked[j] = "removed")  BY <2>1
      <3> QED  BY <2>1, <3>1, <3>2, LoadKeeps DEF JobKept
    <2> QED  BY <2>2, <2>3, <2>4
  <1>2. CASE ~Once(j)
    <2>1. UNCHANGED <<store, chatless, asked>>  BY <1>2 DEF Finished
    <2> QED  BY <1>2, <2>1 DEF JobKept, ChatlessIsLegacy
  <1> QED  BY <1>1, <1>2

\* The drain keeps every deferred run in hand, except those without a chat.
LEMMA DrainStep ==
    ASSUME ScheduledInv, DrainGoesOn
    PROVE  /\ deferred' \in Seq(Entry) /\ drain' \in DrainState
           /\ \A i \in DOMAIN deferred' : ~deferred'[i].chat => deferred'[i].job \in Legacy
           /\ \A j \in Scheduled \ Legacy :
                (\E i \in DOMAIN deferred : deferred[i].job = j) =>
                   \/ drain' = [at |-> "run", job |-> j]
                   \/ \E i \in DOMAIN deferred' : deferred'[i].job = j
  <1> USE DEF ScheduledInv, ScheduledTypeOK, ChatlessIsLegacy
  <1>1. CASE drain' = NoDrain /\ UNCHANGED deferred
    BY <1>1 DEF NoDrain, DrainState
  <1>2. CASE \E i \in DOMAIN deferred :
               /\ FirstRun(i) /\ drain' = [at |-> "run", job |-> deferred[i].job]
               /\ deferred' = SubSeq(deferred, i + 1, Len(deferred))
    <2> PICK i \in DOMAIN deferred :
               /\ FirstRun(i) /\ drain' = [at |-> "run", job |-> deferred[i].job]
               /\ deferred' = SubSeq(deferred, i + 1, Len(deferred))
      BY <1>2
    <2>1. /\ deferred' \in Seq(Entry) /\ DOMAIN deferred' = 1..(Len(deferred) - i)
          /\ \A k \in DOMAIN deferred' : i + k \in DOMAIN deferred /\ deferred'[k] = deferred[i + k]
      BY RestOfDeque
    <2>2. drain' \in DrainState
      <3>1. deferred[i] \in Entry  OBVIOUS
      <3>2. deferred[i].job \in Scheduled  BY <3>1 DEF Entry
      <3> QED  BY <3>2 DEF DrainState
    <2>3. \A k \in DOMAIN deferred' : ~deferred'[k].chat => deferred'[k].job \in Legacy  BY <2>1
    <2>4. ASSUME NEW j \in Scheduled \ Legacy, NEW k \in DOMAIN deferred, deferred[k].job = j
          PROVE  \/ drain' = [at |-> "run", job |-> j]
                 \/ \E m \in DOMAIN deferred' : deferred'[m].job = j
      <3>1. i \in 1..Len(deferred) /\ k \in 1..Len(deferred) /\ Len(deferred) \in Nat  OBVIOUS
      <3>2. CASE k < i
        <4>1. k \in 1..(i - 1)  BY <3>1, <3>2
        <4>2. ~deferred[k].chat  BY <4>1 DEF FirstRun
        <4> QED  BY <2>4, <4>2
      <3>3. CASE k = i  BY <2>4, <3>3
      <3>4. CASE k > i
        <4>1. k - i \in DOMAIN deferred' /\ i + (k - i) = k  BY <2>1, <3>1, <3>4
        <4>2. deferred'[k - i].job = j  BY <2>1, <2>4, <4>1
        <4> QED  BY <4>1, <4>2
      <3> QED  BY <3>1, <3>2, <3>3, <3>4
    <2> QED  BY <2>1, <2>2, <2>3, <2>4
  <1>3. CASE drain' = NoDrain /\ deferred' = <<>> /\ \A i \in DOMAIN deferred : ~deferred[i].chat
    BY <1>3 DEF NoDrain, DrainState
  <1> QED  BY <1>1, <1>2, <1>3 DEF DrainGoesOn

LEMMA ScheduledStep == ScheduledInv /\ [ScheduledNext]_scheduledVars => ScheduledInv'
  <1> SUFFICES ASSUME ScheduledInv, [ScheduledNext]_scheduledVars PROVE ScheduledInv'
    OBVIOUS
  <1> USE DEF ScheduledInv
  <1>1. CASE UNCHANGED scheduledVars
    BY <1>1 DEF scheduledVars, ScheduledTypeOK, ChatlessIsLegacy, JobKept, InHand
  <1>2. ASSUME NEW j \in Scheduled, AddScheduledJob(j) PROVE ScheduledInv'
    <2>1. ScheduledTypeOK'
      BY <1>2, LoadKeeps DEF AddScheduledJob, ScheduledTypeOK
    <2>2. ChatlessIsLegacy'
      BY <1>2, LoadKeeps DEF AddScheduledJob, ChatlessIsLegacy
    <2>3. ASSUME NEW k \in Scheduled \ Legacy PROVE JobKept(k)'
      <3>1. InHand(k)' <=> InHand(k)  BY <1>2 DEF AddScheduledJob, InHand
      <3>2. CASE k = j /\ store' = Loaded \cup {j} /\ timers' = timers \cup {j}
                 /\ asked' = [asked EXCEPT ![j] = "kept"]
        BY <3>2 DEF JobKept, ScheduledTypeOK
      <3>3. CASE k # j /\ store' = Loaded \cup {j} /\ timers' = timers \cup {j}
                 /\ asked' = [asked EXCEPT ![j] = "kept"]
        BY <3>1, <3>3, LoadKeeps DEF JobKept, ScheduledTypeOK
      <3>4. CASE store' = Loaded /\ UNCHANGED <<timers, asked>>
        BY <3>1, <3>4, LoadKeeps DEF JobKept
      <3> QED  BY <1>2, <3>2, <3>3, <3>4 DEF AddScheduledJob
    <2> QED  BY <2>1, <2>2, <2>3
  <1>3. ASSUME NEW j \in Scheduled, RemoveScheduledJob(j) PROVE ScheduledInv'
    <2>1. ScheduledTypeOK'
      BY <1>3, LoadKeeps DEF RemoveScheduledJob, ScheduledTypeOK
    <2>2. ChatlessIsLegacy'
      BY <1>3, LoadKeeps DEF RemoveScheduledJob, ChatlessIsLegacy
    <2>3. ASSUME NEW k \in Scheduled \ Legacy PROVE JobKept(k)'
      <3>1. InHand(k)' <=> InHand(k)  BY <1>3 DEF RemoveScheduledJob, InHand
      <3>2. CASE k = j
        BY <1>3, <3>2 DEF RemoveScheduledJob, JobKept, ScheduledTypeOK
      <3>3. CASE k # j
        BY <1>3, <3>1, <3>3, LoadKeeps DEF RemoveScheduledJob, JobKept, ScheduledTypeOK
      <3> QED  BY <3>2, <3>3
    <2> QED  BY <2>1, <2>2, <2>3
  <1>4. ASSUME ListScheduledJobs PROVE ScheduledInv'
    <2>1. ScheduledTypeOK'
      BY <1>4, LoadKeeps DEF ListScheduledJobs, ScheduledTypeOK
    <2>2. ChatlessIsLegacy'
      BY <1>4, LoadKeeps DEF ListScheduledJobs, ChatlessIsLegacy
    <2>3. ASSUME NEW k \in Scheduled \ Legacy PROVE JobKept(k)'
      BY <1>4, LoadKeeps DEF ListScheduledJobs, JobKept, InHand
    <2> QED  BY <2>1, <2>2, <2>3
  <1>5. ASSUME UpdateJobsWithChatId PROVE ScheduledInv'
    <2>1. ScheduledTypeOK'
      BY <1>5, LoadKeeps DEF UpdateJobsWithChatId, Schedulable, ScheduledTypeOK
    <2>2. ChatlessIsLegacy'
      BY <1>5, LoadKeeps DEF UpdateJobsWithChatId, ChatlessIsLegacy
    <2>3. ASSUME NEW k \in Scheduled \ Legacy PROVE JobKept(k)'
      <3>1. InHand(k)' <=> InHand(k)  BY <1>5 DEF UpdateJobsWithChatId, InHand
      <3>2. k \notin LoadedChatless  BY LoadKeeps
      <3>3. k \in timers' <=> k \in timers  BY <1>5, <3>2 DEF UpdateJobsWithChatId, Schedulable
      <3>4. k \in store' <=> k \in store  BY <1>5, LoadKeeps DEF UpdateJobsWithChatId
      <3> QED  BY <1>5, <3>1, <3>3, <3>4 DEF UpdateJobsWithChatId, JobKept
    <2> QED  BY <2>1, <2>2, <2>3
  <1>6. ASSUME NEW j \in Scheduled, TimerFires(j) PROVE ScheduledInv'
    <2> DEFINE entry == [job |-> j, chat |-> j \notin chatless]
    <2>0. entry \in Entry  BY DEF Entry
    <2>1. CASE deferred' = Append(deferred, entry) /\ UNCHANGED running
      <3>1. /\ deferred' \in Seq(Entry) /\ Len(deferred') = Len(deferred) + 1
            /\ \A i \in DOMAIN deferred : i \in DOMAIN deferred' /\ deferred'[i] = deferred[i]
            /\ \A i \in DOMAIN deferred' : i \in DOMAIN deferred \/ deferred'[i] = entry
            /\ Len(deferred) + 1 \in DOMAIN deferred' /\ deferred'[Len(deferred) + 1] = entry
        BY <2>0, <2>1 DEF ScheduledTypeOK
      <3>2. ScheduledTypeOK'
        BY <1>6, <2>1, <3>1 DEF TimerFires, ScheduledTypeOK
      <3>3. ChatlessIsLegacy'
        <4>1. chatless' = chatless  BY <1>6 DEF TimerFires
        <4>2. ASSUME NEW i \in DOMAIN deferred', ~deferred'[i].chat PROVE deferred'[i].job \in Legacy
          <5>1. CASE i \in DOMAIN deferred  BY <3>1, <4>2, <5>1 DEF ChatlessIsLegacy
          <5>2. CASE deferred'[i] = entry
            <6>1. entry.chat = (j \notin chatless) /\ entry.job = j  OBVIOUS
            <6>2. ~entry.chat  BY <4>2, <5>2
            <6>3. deferred'[i].job = j  BY <5>2, <6>1
            <6> QED  BY <6>1, <6>2, <6>3 DEF ChatlessIsLegacy
          <5> QED  BY <3>1, <5>1, <5>2
        <4> QED  BY <4>1, <4>2 DEF ChatlessIsLegacy
      <3>4. ASSUME NEW k \in Scheduled \ Legacy PROVE JobKept(k)'
        <4>1. InHand(k) => InHand(k)'  BY <1>6, <2>1, <3>1 DEF TimerFires, InHand
        <4>2. InHand(j)'  BY <3>1 DEF InHand
        <4> QED  BY <1>6, <4>1, <4>2 DEF TimerFires, JobKept
      <3> QED  BY <3>2, <3>3, <3>4
    <2>2. CASE running' = [running EXCEPT ![j] = @ + 1] /\ UNCHANGED deferred
      <3>1. running[j] \in Nat /\ running[j] + 1 \in Nat /\ running[j] + 1 > 0  BY DEF ScheduledTypeOK
      <3>2. running' \in [Scheduled -> Nat]  BY <2>2, <3>1 DEF ScheduledTypeOK
      <3>3. ScheduledTypeOK'  BY <1>6, <2>2, <3>2 DEF TimerFires, ScheduledTypeOK
      <3>4. ChatlessIsLegacy'  BY <1>6, <2>2 DEF TimerFires, ChatlessIsLegacy
      <3>5. ASSUME NEW k \in Scheduled \ Legacy PROVE JobKept(k)'
        <4>1. CASE k = j
          <5>1. running'[k] > 0  BY <2>2, <3>1, <4>1 DEF ScheduledTypeOK
          <5> QED  BY <1>6, <4>1, <5>1 DEF TimerFires, JobKept, InHand
        <4>2. CASE k # j
          <5>1. running'[k] = running[k]  BY <2>2, <4>2 DEF ScheduledTypeOK
          <5> QED  BY <1>6, <2>2, <4>2, <5>1 DEF TimerFires, JobKept, InHand
        <4> QED  BY <4>1, <4>2
      <3> QED  BY <3>3, <3>4, <3>5
    <2>3. CASE j \in chatless /\ UNCHANGED <<running, deferred>>
      <3>1. ScheduledTypeOK'  BY <1>6, <2>3 DEF TimerFires, ScheduledTypeOK
      <3>2. ChatlessIsLegacy'  BY <1>6, <2>3 DEF TimerFires, ChatlessIsLegacy
      <3>3. ASSUME NEW k \in Scheduled \ Legacy PROVE JobKept(k)'
        <4>1. k # j  BY <2>3 DEF ChatlessIsLegacy
        <4> QED  BY <1>6, <2>3, <4>1 DEF TimerFires, JobKept, InHand
      <3> QED  BY <3>1, <3>2, <3>3
    <2> QED  BY <1>6, <2>1, <2>2, <2>3 DEF TimerFires
  <1>7. ASSUME NEW j \in Scheduled, RunEnds(j) PROVE ScheduledInv'
    <2>1. /\ running[j] \in Nat /\ running[j] > 0 /\ running' = [running EXCEPT ![j] = @ - 1]
          /\ Finished(j) /\ UNCHANGED <<timers, deferred, drain, foreground, late>>
      BY <1>7 DEF RunEnds, ScheduledTypeOK
    <2>2. running[j] - 1 \in Nat  BY <2>1
    <2>3. running' \in [Scheduled -> Nat]  BY <2>1, <2>2 DEF ScheduledTypeOK
    <2>4. ScheduledTypeOK'  BY <2>1, <2>3, FinishedStep DEF ScheduledTypeOK
    <2>5. ChatlessIsLegacy'  BY <2>1, FinishedStep DEF ChatlessIsLegacy
    <2>6. ASSUME NEW k \in Scheduled \ Legacy PROVE JobKept(k)'
      <3>1. /\ asked'[k] = "kept" => asked[k] = "kept" /\ k \in store' /\ (k # j \/ ~Once(k))
            /\ asked'[k] = "removed" => asked[k] = "removed" /\ k \notin store'
        BY <2>1, FinishedStep
      <3>2. k # j => running'[k] = running[k]  BY <2>1 DEF ScheduledTypeOK
      <3>3. k # j => (InHand(k)' <=> InHand(k))  BY <2>1, <3>2 DEF InHand
      <3> QED  BY <2>1, <3>1, <3>3 DEF JobKept
    <2> QED  BY <2>4, <2>5, <2>6
  <1>8. ASSUME DrainStarts PROVE ScheduledInv'
    <2>1. /\ drain.at = "created" /\ DrainGoesOn
          /\ UNCHANGED <<store, chatless, timers, running, foreground, late, asked>>
      BY <1>8 DEF DrainStarts
    <2>2. ScheduledTypeOK'  BY <2>1, DrainStep DEF ScheduledTypeOK
    <2>3. ChatlessIsLegacy'  BY <2>1, DrainStep DEF ChatlessIsLegacy
    <2>4. ASSUME NEW k \in Scheduled \ Legacy PROVE JobKept(k)'
      <3>1. drain # [at |-> "run", job |-> k]  BY <2>1
      <3>2. InHand(k) => InHand(k)'  BY <2>1, <3>1, DrainStep DEF InHand
      <3> QED  BY <2>1, <3>2 DEF JobKept
    <2> QED  BY <2>2, <2>3, <2>4
  <1>9. ASSUME DrainRunEnds PROVE ScheduledInv'
    <2>1. /\ drain.at = "run" /\ Finished(drain.job) /\ DrainGoesOn
          /\ UNCHANGED <<timers, running, foreground, late>>
      BY <1>9 DEF DrainRunEnds
    <2>2. drain.job \in Scheduled  BY <2>1 DEF ScheduledTypeOK, DrainState
    <2>3. ScheduledInv'
      <3>1. ScheduledTypeOK'
        BY <2>1, <2>2, DrainStep, FinishedStep DEF ScheduledTypeOK
      <3>2. ChatlessIsLegacy'  BY <2>1, <2>2, DrainStep, FinishedStep DEF ChatlessIsLegacy
      <3>3. ASSUME NEW k \in Scheduled \ Legacy PROVE JobKept(k)'
        <4>1. /\ asked'[k] = "kept" => asked[k] = "kept" /\ k \in store' /\ (k # drain.job \/ ~Once(k))
              /\ asked'[k] = "removed" => asked[k] = "removed" /\ k \notin store'
          BY <2>1, <2>2, FinishedStep
        <4>2. k # drain.job => (InHand(k) => InHand(k)')  BY <2>1, DrainStep DEF InHand
        <4> QED  BY <2>1, <4>1, <4>2 DEF JobKept
      <3> QED  BY <3>1, <3>2, <3>3
    <2> QED  BY <2>3
  <1>10. ASSUME NEW l \in Loops, LoopStarts(l) PROVE ScheduledInv'
    <2>1. foreground' \subseteq Loops  BY <1>10 DEF LoopStarts, ScheduledTypeOK
    <2>2. UNCHANGED <<store, chatless, timers, deferred, drain, running, late, asked>>
      BY <1>10 DEF LoopStarts
    <2> QED  BY <2>1, <2>2 DEF ScheduledTypeOK, ChatlessIsLegacy, JobKept, InHand
  <1>11. ASSUME NEW l \in Loops, LoopEnds(l) PROVE ScheduledInv'
    <2>1. foreground' \subseteq Loops  BY <1>11 DEF LoopEnds, ScheduledTypeOK
    <2>2. UNCHANGED <<store, chatless, timers, deferred, running, late, asked>>
      BY <1>11 DEF LoopEnds
    <2>3. drain' \in DrainState  BY <1>11 DEF LoopEnds, ScheduledTypeOK, DrainState
    <2>4. ASSUME NEW k \in Scheduled PROVE InHand(k) => InHand(k)'
      <3>1. drain = [at |-> "run", job |-> k] => drain' = drain
        BY <1>11 DEF LoopEnds, Triggered, NoDrain
      <3> QED  BY <2>2, <3>1 DEF InHand
    <2> QED  BY <2>1, <2>2, <2>3, <2>4 DEF ScheduledTypeOK, ChatlessIsLegacy, JobKept
  <1>12. ASSUME SchedulerRestarts PROVE ScheduledInv'
    <2>1. /\ \E missed \in SUBSET {j \in Loaded : KindOf[j] = "at"} : late' = late \cup missed
          /\ timers' = Loaded \ late' /\ store' = Loaded \ late'
          /\ chatless' = LoadedChatless \cap Loaded
          /\ deferred' = <<>> /\ drain' = NoDrain /\ running' = [j \in Scheduled |-> 0]
          /\ foreground' = {}
          /\ asked' = [j \in Scheduled |-> IF asked[j] = "kept" /\ j \in late' THEN "missed" ELSE asked[j]]
      BY <1>12 DEF SchedulerRestarts, Schedulable
    <2>2. ScheduledTypeOK'
      BY <2>1, LoadKeeps DEF ScheduledTypeOK, NoDrain, DrainState
    <2>3. ChatlessIsLegacy'  BY <2>1, LoadKeeps DEF ChatlessIsLegacy
    <2>4. ASSUME NEW k \in Scheduled \ Legacy PROVE JobKept(k)'
      BY <2>1, LoadKeeps DEF JobKept
    <2> QED  BY <2>2, <2>3, <2>4
  <1> QED
    BY <1>1, <1>2, <1>3, <1>4, <1>5, <1>6, <1>7, <1>8, <1>9, <1>10, <1>11, <1>12
    DEF ScheduledNext

-----------------------------------------------------------------------------
\* The file, the timers, the deferred runs and the drain keep their shape.
THEOREM ScheduledTypes == ScheduledSpec => []ScheduledTypeOK
  <1>1. ScheduledInv => ScheduledTypeOK  BY DEF ScheduledInv
  <1> QED  BY <1>1, ScheduledInitInv, ScheduledStep, PTL DEF ScheduledSpec

\* A scheduled job is neither lost nor left over, whatever happens to its
\* timer, its deferred runs and its file.
LEMMA JobsAreKept == ScheduledSpec => []PromisesKept
  <1>1. ScheduledInv => PromisesKept  BY DEF ScheduledInv, JobKept, PromisesKept
  <1> QED  BY <1>1, ScheduledInitInv, ScheduledStep, PTL DEF ScheduledSpec

\* A deferred run always has a foreground loop or a drain to wait for.
LEMMA RunsAreDrained == ScheduledSpec => []NoRunStranded
  <1>1. ScheduledInit => NoRunStranded  BY DEF ScheduledInit, NoRunStranded
  <1>2. NoRunStranded /\ [ScheduledNext]_scheduledVars => NoRunStranded'
    <2> SUFFICES ASSUME NoRunStranded, [ScheduledNext]_scheduledVars, deferred' # <<>>, foreground' = {}
                 PROVE  drain' # NoDrain
      BY DEF NoRunStranded
    <2>1. ASSUME UNCHANGED <<deferred, foreground, drain>> PROVE drain' # NoDrain
      BY <2>1 DEF NoRunStranded
    <2>2. ASSUME NEW j \in Scheduled, TimerFires(j) PROVE drain' # NoDrain
      BY <2>2 DEF TimerFires, NoRunStranded
    <2>3. ASSUME DrainGoesOn, UNCHANGED foreground PROVE drain' # NoDrain
      BY <2>3 DEF DrainGoesOn, NoDrain
    <2>4. ASSUME NEW l \in Loops, LoopStarts(l) PROVE drain' # NoDrain
      BY <2>4 DEF LoopStarts
    <2>5. ASSUME NEW l \in Loops, LoopEnds(l) PROVE drain' # NoDrain
      BY <2>5 DEF LoopEnds, Triggered, NoDrain
    <2>6. ASSUME SchedulerRestarts PROVE drain' # NoDrain
      BY <2>6 DEF SchedulerRestarts
    <2> QED
      BY <2>1, <2>2, <2>3, <2>4, <2>5, <2>6
      DEF ScheduledNext, scheduledVars, AddScheduledJob, RemoveScheduledJob, ListScheduledJobs,
          UpdateJobsWithChatId, RunEnds, DrainStarts, DrainRunEnds
  <1> QED  BY <1>1, <1>2, PTL DEF ScheduledSpec

\* Both of them: no job is lost or left over, and no deferred run is left waiting.
THEOREM JobsHeld == ScheduledSpec => []ScheduledSound
  <1>1. PromisesKept /\ NoRunStranded => ScheduledSound  BY DEF ScheduledSound
  <1> QED  BY <1>1, JobsAreKept, RunsAreDrained, PTL

-----------------------------------------------------------------------------
(***************************************************************************)
(* The memories (MemoryStore).  What the task in the background knows of   *)
(* an item goes by its id, which no later item is given again.             *)
(***************************************************************************)

USE MemoryAssumption

KeyRecord == [owner: Users \cup {Nobody}, kind: {"fact", "topic"},
              scope: {"system", "shared_household", "private", "group_context"}, text: Texts]
ItemRecord == [id: Nat, owner: Users \cup {Nobody}, kind: {"fact", "topic"},
               scope: {"system", "shared_household", "private", "group_context"},
               text: Texts, embedding: Texts \cup {NoText}]

\* What is known of the item id, which may be gone: its text.
KnownAs(id, text, items, next) == id < next /\ \A item \in items : item.id = id => item.text = text

ItemsSound(items, next) ==
    /\ items \subseteq ItemRecord
    /\ \A item \in items : /\ item.id < next /\ item.embedding \in {NoText, item.text}
                           /\ item.scope = "group_context" => item.kind = "topic" /\ item.owner = Nobody
    /\ \A m, n \in items : m # n => m.id # n.id

TaskSound(task, items, next) ==
    /\ DOMAIN task.resolved \subseteq Nat
    /\ task.targets \subseteq ItemRecord
    /\ \A target \in task.targets : KnownAs(target.id, target.text, items, next)
    /\ \A id \in DOMAIN task.resolved : KnownAs(id, task.resolved[id], items, next)

\* A task has these fields, whatever they hold.
TaskShape(task) == task = [running |-> task.running, first |-> task.first,
                           targets |-> task.targets, resolved |-> task.resolved]

MemoryInv ==
    /\ nextMemory \in Nat
    /\ ItemsSound(memories, nextMemory)
    /\ {KeyOf(item) : item \in memories} = promised
    /\ TaskSound(consolidation, memories, nextMemory) /\ TaskShape(consolidation)

LEMMA NoTask == \A items, next : TaskSound(NotConsolidating, items, next) /\ TaskShape(NotConsolidating)
  <1>1. DOMAIN <<>> = {}  OBVIOUS
  <1> QED  BY <1>1 DEF TaskSound, TaskShape, NotConsolidating

LEMMA MemoryInitially == MemoryInit => MemoryInv
  BY NoTask DEF MemoryInit, MemoryInv, ItemsSound

\* One that is stored has an id that nothing knows yet.
LEMMA StoreStep ==
    ASSUME MemoryInv, NEW key \in KeyRecord, NEW othertags \in BOOLEAN, StoreItem(key, othertags),
           key.scope = "group_context" => key.kind = "topic" /\ key.owner = Nobody
    PROVE  MemoryInv'
  <1> DEFINE new == [id |-> nextMemory, owner |-> key.owner, kind |-> key.kind, scope |-> key.scope,
                     text |-> key.text, embedding |-> NoText]
  <1>1. /\ nextMemory \in Nat /\ nextMemory' = nextMemory + 1 /\ promised' = promised \cup {key}
        /\ consolidation' = consolidation /\ memories' = Stored(memories, nextMemory, key, othertags)
    BY DEF StoreItem, NextMemory, MemoryInv
  <1>2. new \in ItemRecord /\ new.id = nextMemory /\ KeyOf(new) = key /\ new.embedding = NoText
        /\ new.scope = key.scope /\ new.kind = key.kind /\ new.owner = key.owner
    BY <1>1 DEF ItemRecord, KeyRecord, KeyOf
  <1> HIDE DEF new
  <1>3. \/ memories' = memories /\ \E item \in memories : KeyOf(item) = key
        \/ memories' = memories \cup {new}
    BY <1>1 DEF Stored, new
  <1>4. \A item \in memories : item.id \in Nat  BY DEF MemoryInv, ItemsSound, ItemRecord
  <1>5. ItemsSound(memories', nextMemory')
    <2>1. \A item \in memories' : item \in memories \/ item = new  BY <1>3
    <2>2. \A item \in memories : item.id < nextMemory  BY DEF MemoryInv, ItemsSound
    <2> QED  BY <1>1, <1>2, <1>4, <2>1, <2>2 DEF MemoryInv, ItemsSound
  <1>6. {KeyOf(item) : item \in memories'} = promised'
    BY <1>1, <1>2, <1>3 DEF MemoryInv
  <1>7. ASSUME NEW id \in Nat, NEW text, KnownAs(id, text, memories, nextMemory)
        PROVE  KnownAs(id, text, memories', nextMemory')
    <2>1. id < nextMemory /\ id < nextMemory'  BY <1>1, <1>7 DEF KnownAs
    <2>2. \A item \in memories' : item.id = id => item \in memories  BY <1>1, <1>2, <1>3, <2>1
    <2> QED  BY <1>7, <2>1, <2>2 DEF KnownAs
  <1>8. TaskSound(consolidation', memories', nextMemory') /\ TaskShape(consolidation')
    <2>1. \A target \in consolidation.targets : target.id \in Nat  BY DEF MemoryInv, TaskSound, ItemRecord
    <2> QED  BY <1>1, <1>7, <2>1 DEF MemoryInv, TaskSound
  <1> QED  BY <1>1, <1>5, <1>6, <1>8 DEF MemoryInv

LEMMA SaveStep ==
    \A u \in Users, text \in Texts :
        MemoryInv /\ (SaveUserMemory(u, text) \/ StoreTopicMemory(u, text)) => MemoryInv'
  <1> SUFFICES ASSUME NEW u \in Users, NEW text \in Texts, MemoryInv,
                      SaveUserMemory(u, text) \/ StoreTopicMemory(u, text)
               PROVE  MemoryInv'
    OBVIOUS
  <1>1. CASE SaveUserMemory(u, text)
    <2> DEFINE key == [owner |-> u, kind |-> "fact", scope |-> FactScope[text], text |-> text]
    <2>1. FactScope[text] \in {"system", "shared_household", "private"}  OBVIOUS
    <2>2. key \in KeyRecord /\ key.scope # "group_context"  BY <2>1 DEF KeyRecord
    <2>3. StoreItem(key, FALSE)  BY <1>1 DEF SaveUserMemory
    <2> HIDE DEF key
    <2> QED  BY <2>2, <2>3, StoreStep
  <1>2. CASE StoreTopicMemory(u, text)
    <2>1. PICK class \in {"private", "household", "group"}, othertags \in BOOLEAN :
            StoreItem(TopicKey(u, class, text), othertags)
      BY <1>2 DEF StoreTopicMemory
    <2>2. /\ TopicKey(u, class, text) \in KeyRecord /\ TopicKey(u, class, text).kind = "topic"
          /\ TopicKey(u, class, text).scope = "group_context" => TopicKey(u, class, text).owner = Nobody
      BY DEF TopicKey, KeyRecord
    <2> QED  BY <2>1, <2>2, StoreStep
  <1> QED  BY <1>1, <1>2

LEMMA WipeStep == \A u \in Users : MemoryInv /\ WipeMemory(u) => MemoryInv'
  <1> SUFFICES ASSUME NEW u \in Users, MemoryInv, WipeMemory(u) PROVE MemoryInv'
    OBVIOUS
  <1>1. /\ memories' = {item \in memories : item.owner # u \/ item.scope = "group_context"}
        /\ promised' = {key \in promised : key.owner # u \/ key.scope = "group_context"}
        /\ UNCHANGED <<nextMemory, consolidation>>
    BY DEF WipeMemory, WipedOf
  <1>2. ItemsSound(memories', nextMemory')  BY <1>1 DEF MemoryInv, ItemsSound
  <1>3. {KeyOf(item) : item \in memories'} = promised'
    <2>1. \A item : KeyOf(item).owner = item.owner /\ KeyOf(item).scope = item.scope  BY DEF KeyOf
    <2> QED  BY <1>1, <2>1 DEF MemoryInv
  <1>4. TaskSound(consolidation', memories', nextMemory') /\ TaskShape(consolidation')
    BY <1>1 DEF MemoryInv, TaskSound, KnownAs
  <1> QED  BY <1>1, <1>2, <1>3, <1>4 DEF MemoryInv

\* The task begins with what the file holds.
LEMMA StartsStep == MemoryInv /\ ConsolidationStarts => MemoryInv'
  <1> SUFFICES ASSUME MemoryInv, ConsolidationStarts PROVE MemoryInv'
    OBVIOUS
  <1>1. /\ UNCHANGED <<memories, nextMemory, promised>>
        /\ \/ consolidation' = NotConsolidating
           \/ consolidation' = [running |-> TRUE, first |-> memories, targets |-> Targets(memories),
                                resolved |-> <<>>]
    BY DEF ConsolidationStarts
  <1>2. CASE consolidation' = NotConsolidating  BY <1>1, <1>2, NoTask DEF MemoryInv
  <1>3. CASE consolidation' = [running |-> TRUE, first |-> memories, targets |-> Targets(memories),
                               resolved |-> <<>>]
    <2>1. DOMAIN consolidation'.resolved = {}  BY <1>3
    <2>2. consolidation'.targets \subseteq memories  BY <1>3 DEF Targets
    <2>3. ASSUME NEW target \in memories PROVE KnownAs(target.id, target.text, memories, nextMemory)
      BY DEF MemoryInv, ItemsSound, KnownAs
    <2>4. TaskSound(consolidation', memories, nextMemory)
      BY <2>1, <2>2, <2>3 DEF MemoryInv, ItemsSound, TaskSound
    <2>5. TaskShape(consolidation')  BY <1>3 DEF TaskShape
    <2> QED  BY <1>1, <2>4, <2>5 DEF MemoryInv
  <1> QED  BY <1>1, <1>2, <1>3

LEMMA EmbeddedStep == MemoryInv /\ TextEmbedded => MemoryInv'
  <1> SUFFICES ASSUME MemoryInv, TextEmbedded PROVE MemoryInv'
    OBVIOUS
  <1>0. PICK target \in consolidation.targets :
           \E vector \in {target.text, NoText} :
              consolidation' = [consolidation EXCEPT !.targets = @ \ {target},
                                                     !.resolved = Resolved(@, target.id, vector)]
    BY DEF TextEmbedded
  <1>1. PICK vector \in {target.text, NoText} :
           consolidation' = [consolidation EXCEPT !.targets = @ \ {target},
                                                  !.resolved = Resolved(@, target.id, vector)]
    BY <1>0
  <1>2. UNCHANGED <<memories, nextMemory, promised>>  BY DEF TextEmbedded
  <1> DEFINE r == Resolved(consolidation.resolved, target.id, vector)
  <1>3. /\ consolidation'.targets = consolidation.targets \ {target} /\ consolidation'.resolved = r
        /\ TaskShape(consolidation')
    BY <1>1 DEF MemoryInv, TaskShape
  <1>4. /\ target.id \in Nat /\ KnownAs(target.id, target.text, memories, nextMemory)
    BY DEF MemoryInv, TaskSound, ItemRecord
  <1>5. /\ DOMAIN consolidation.resolved \subseteq Nat
        /\ \A id \in DOMAIN consolidation.resolved : KnownAs(id, consolidation.resolved[id], memories, nextMemory)
    BY DEF MemoryInv, TaskSound
  <1>6. DOMAIN r \subseteq Nat /\ \A id \in DOMAIN r : KnownAs(id, r[id], memories, nextMemory)
    <2>1. CASE vector = NoText  BY <1>5, <2>1 DEF Resolved
    <2>2. CASE vector # NoText
      <3>1. vector = target.text  BY <2>2
      <3>2. DOMAIN r = DOMAIN consolidation.resolved \cup {target.id}  BY <2>2 DEF Resolved
      <3>3. \A id \in DOMAIN r : r[id] = IF id = target.id THEN vector ELSE consolidation.resolved[id]
        BY <2>2, <3>2 DEF Resolved
      <3> HIDE DEF r
      <3> QED  BY <1>4, <1>5, <3>1, <3>2, <3>3
    <2> QED  BY <2>1, <2>2
  <1> HIDE DEF r
  <1>7. TaskSound(consolidation', memories, nextMemory)  BY <1>3, <1>6 DEF MemoryInv, TaskSound
  <1> QED  BY <1>2, <1>3, <1>7 DEF MemoryInv

\* What is written are the items of now, with the embeddings of their texts.
LEMMA EndsStep == MemoryInv /\ ConsolidationEnds => MemoryInv'
  <1> SUFFICES ASSUME MemoryInv, ConsolidationEnds PROVE MemoryInv'
    OBVIOUS
  <1> DEFINE r == consolidation.resolved
             new(item) == IF item.id \in DOMAIN r THEN [item EXCEPT !.embedding = r[item.id]] ELSE item
  <1>1. /\ memories' = {new(item) : item \in memories}
        /\ consolidation' = NotConsolidating /\ UNCHANGED <<nextMemory, promised>>
    BY DEF ConsolidationEnds, Embedded, Reread
  <1>2. ASSUME NEW item \in memories
        PROVE  /\ new(item) \in ItemRecord /\ new(item).id = item.id /\ KeyOf(new(item)) = KeyOf(item)
               /\ new(item).text = item.text /\ new(item).kind = item.kind
               /\ new(item).scope = item.scope /\ new(item).owner = item.owner
               /\ new(item).embedding \in {NoText, item.text}
    <2>1. item \in ItemRecord /\ item.embedding \in {NoText, item.text}  BY DEF MemoryInv, ItemsSound
    <2>2. item.id \in DOMAIN r => r[item.id] = item.text  BY DEF MemoryInv, TaskSound, KnownAs
    <2>3. CASE item.id \in DOMAIN r
      <3>1. new(item) = [item EXCEPT !.embedding = item.text]  BY <2>2, <2>3
      <3> HIDE DEF new
      <3> QED  BY <2>1, <3>1 DEF ItemRecord, KeyOf
    <2>4. CASE item.id \notin DOMAIN r  BY <2>1, <2>4
    <2> QED  BY <2>3, <2>4
  <1> HIDE DEF new
  <1>3. ItemsSound(memories', nextMemory')
    <2>1. memories' \subseteq ItemRecord  BY <1>1, <1>2
    <2>2. ASSUME NEW m \in memories'
          PROVE  /\ m.id < nextMemory /\ m.embedding \in {NoText, m.text}
                 /\ m.scope = "group_context" => m.kind = "topic" /\ m.owner = Nobody
      <3>1. PICK item \in memories : m = new(item)  BY <1>1
      <3>2. item.id < nextMemory /\ (item.scope = "group_context" => item.kind = "topic" /\ item.owner = Nobody)
        BY DEF MemoryInv, ItemsSound
      <3> QED  BY <1>2, <3>1, <3>2
    <2>3. ASSUME NEW m \in memories', NEW n \in memories', m.id = n.id PROVE m = n
      <3>1. PICK a \in memories : m = new(a)  BY <1>1
      <3>2. PICK b \in memories : n = new(b)  BY <1>1
      <3>3. a.id = b.id  BY <1>2, <2>3, <3>1, <3>2
      <3> QED  BY <3>1, <3>2, <3>3 DEF MemoryInv, ItemsSound
    <2> QED  BY <1>1, <2>1, <2>2, <2>3 DEF ItemsSound
  <1>4. {KeyOf(item) : item \in memories'} = promised'
    <2>1. {KeyOf(item) : item \in memories'} = {KeyOf(item) : item \in memories}
      <3>1. \A m \in memories' : \E item \in memories : KeyOf(m) = KeyOf(item)  BY <1>1, <1>2
      <3>2. \A item \in memories : \E m \in memories' : KeyOf(m) = KeyOf(item)  BY <1>1, <1>2
      <3> QED  BY <3>1, <3>2
    <2> QED  BY <1>1, <2>1 DEF MemoryInv
  <1> QED  BY <1>1, <1>3, <1>4, NoTask DEF MemoryInv

LEMMA MemoryStep == MemoryInv /\ [MemoryNext]_memoryVars => MemoryInv'
  <1> SUFFICES ASSUME MemoryInv, [MemoryNext]_memoryVars PROVE MemoryInv'
    OBVIOUS
  <1>1. CASE UNCHANGED memoryVars \/ ConsolidationSkipped  BY <1>1 DEF MemoryInv, memoryVars, ConsolidationSkipped
  <1>2. CASE MemoryRestarts  BY <1>2, NoTask DEF MemoryInv, MemoryRestarts
  <1> QED  BY <1>1, <1>2, SaveStep, WipeStep, StartsStep, EmbeddedStep, EndsStep DEF MemoryNext

LEMMA MemoryImplies == MemoryInv => MemorySound
  <1> SUFFICES ASSUME MemoryInv PROVE MemorySound
    OBVIOUS
  <1>1. ASSUME NEW u \in Users,
               NEW item \in Recalled(u, TRUE, [here |-> 1..nextMemory, household |-> TRUE, secondary |-> u]),
               item.scope # "system"
        PROVE  item.kind = "topic" /\ item.owner = Nobody
    <2>1. item \in memories /\ item.scope = "group_context"  BY <1>1 DEF Recalled
    <2> QED  BY <2>1 DEF MemoryInv, ItemsSound
  <1> QED  BY <1>1 DEF MemoryInv, ItemsSound, MemorySound

\* The file holds what was stored and not wiped since, each item once and with the embedding of no other
\* text, whatever the task in the background read before; and a group recalls nobody's own memories.
THEOREM MemoriesHeld == MemorySpec => []MemorySound
  BY MemoryInitially, MemoryStep, MemoryImplies, PTL DEF MemorySpec

-----------------------------------------------------------------------------
(***************************************************************************)
(* The history of a chat and its temporary threads                         *)
(***************************************************************************)

Heard == [role : {"user", "system", "assistant"}, filed : Threads, thread : Threads, temporary : BOOLEAN]
TurnHeard == [thread : Threads, kind : {"message", "reaction"}, temporary : BOOLEAN,
              at : {"asked", "steers", "running", "noted", "sending", "done", "failed"}]
Summaries == [due : Nat, snippet : SUBSET Heard, lastLen : Nat]

HistoryShape ==
    /\ history \in Seq(Heard) /\ temporary \subseteq Threads /\ backups \in [Threads -> Seq(Heard)]
    /\ turnsOf \in Seq(TurnHeard) /\ notes \in [Threads -> SUBSET Nat] /\ summaries \in Summaries

\* Only turns that are not temporary take notes, and what a turn of the thread finishes has none.
NotesHeld ==
    \A t \in Threads : \A k \in notes[t] :
        /\ k \in DOMAIN turnsOf /\ turnsOf[k].thread = t
        /\ ~turnsOf[k].temporary /\ turnsOf[k].at \in {"running", "sending", "failed"}

\* What users said in temporary threads is of those that are so still.
Permanent(entries, open) ==
    \A i \in DOMAIN entries : entries[i].temporary /\ entries[i].role # "assistant" => entries[i].thread \in open

\* While no two threads were temporary at once nothing temporary is in a backup, a topic or the
\* stretch that a topic is made of.
NothingLeaks ==
    ~overlapped =>
        /\ \A t, u \in temporary : t = u
        /\ Permanent(history, temporary)
        /\ \A t \in Threads : Permanent(backups[t], {})
        /\ \A entry \in summaries.snippet \cup topics : ~entry.temporary

HistoryInv == HistoryShape /\ NotesHeld /\ NothingLeaks

\* What is filed under the other threads is part of the history.
LEMMA OthersAre ==
    ASSUME NEW t \in Threads, history \in Seq(Heard)
    PROVE  /\ OtherThreads(t) \in Seq(Heard)
           /\ \A i \in DOMAIN OtherThreads(t) : \E j \in DOMAIN history : OtherThreads(t)[i] = history[j]
  <1> DEFINE N == Len(history)
             S == {history[j] : j \in DOMAIN history}
             step == [n \in 1..N |-> [s \in Seq(S) |-> IF history[n].filed = t THEN s ELSE Append(s, history[n])]]
             P(g) == g = [n \in 0..N |-> IF n = 0 THEN <<>>
                                         ELSE IF history[n].filed = t THEN g[n - 1] ELSE Append(g[n - 1], history[n])]
             kept == CHOOSE g : P(g)
             T == {n \in 0..N : kept[n] \in Seq(S)}
  <1>1. N \in Nat /\ \A n \in 1..N : history[n] \in S  OBVIOUS
  <1>2. <<>> \in Seq(S)  OBVIOUS
  <1>3. step \in [1..N -> [Seq(S) -> Seq(S)]]
    <2> SUFFICES ASSUME NEW n \in 1..N, NEW s \in Seq(S)
                 PROVE  (IF history[n].filed = t THEN s ELSE Append(s, history[n])) \in Seq(S)
      OBVIOUS
    <2>1. history[n] \in S  BY <1>1
    <2> HIDE DEF S
    <2> QED  BY <2>1
  <1>4. PICK f \in [0..N -> Seq(S)] : Iterates(f, N, <<>>, step)
    <2> HIDE DEF N, S, step
    <2> QED  BY <1>1, <1>2, <1>3, IterationExists
  <1>5. P(f)
    <2>1. \A n \in 0..N : n # 0 => n \in 1..N /\ n - 1 \in 0..N  BY <1>1
    <2>2. \A n \in 1..N : f[n] = IF history[n].filed = t THEN f[n - 1] ELSE Append(f[n - 1], history[n])
      <3> SUFFICES ASSUME NEW n \in 1..N PROVE f[n] = IF history[n].filed = t THEN f[n - 1] ELSE Append(f[n - 1], history[n])
        OBVIOUS
      <3>1. n - 1 \in 0..N  BY <1>1
      <3>2. f[n] = step[n][f[n - 1]]  BY <1>4 DEF Iterates
      <3>3. f[n - 1] \in Seq(S)  BY <3>1
      <3> HIDE DEF S
      <3> QED  BY <3>2, <3>3
    <2>3. f[0] = <<>>  BY <1>4 DEF Iterates
    <2> HIDE DEF S, step
    <2>4. f = [n \in 0..N |-> f[n]]  OBVIOUS
    <2> QED  BY <2>1, <2>2, <2>3, <2>4
  <1>6. P(kept)
    <2> HIDE DEF P
    <2> QED  BY <1>5
  <1>7. OtherThreads(t) = kept[N]  BY DEF OtherThreads
  <1>8. 0..N \subseteq T
    <2>1. 0 \in T
      <3>1. 0 \in 0..N  BY <1>1
      <3>2. kept[0] = <<>>  BY <1>6, <3>1
      <3> QED  BY <1>2, <3>1, <3>2
    <2>2. ASSUME NEW n \in 1..N, n - 1 \in T PROVE n \in T
      <3>1. n \in 0..N /\ n # 0  BY <1>1
      <3>2. kept[n] = IF history[n].filed = t THEN kept[n - 1] ELSE Append(kept[n - 1], history[n])  BY <1>6, <3>1
      <3>3. history[n] \in S  BY <1>1
      <3>4. kept[n - 1] \in Seq(S)  BY <2>2
      <3> HIDE DEF S, kept
      <3>5. kept[n] \in Seq(S)  BY <3>2, <3>3, <3>4
      <3> QED  BY <3>1, <3>5
    <2> HIDE DEF T, N
    <2> QED  BY <1>1, <2>1, <2>2, Upwards
  <1>9. N \in 0..N  BY <1>1
  <1>10. OtherThreads(t) \in Seq(S)  BY <1>7, <1>8, <1>9
  <1>11. S \subseteq Heard  OBVIOUS
  <1>12. \A s \in Seq(S) : s \in Seq(Heard) /\ \A i \in DOMAIN s : s[i] \in S
    <2> HIDE DEF S
    <2> QED  BY <1>11
  <1> QED  BY <1>10, <1>12
\* What a topic is made of is the end of the history.
LEMMA RecentIs ==
    ASSUME HistoryShape, summaries.lastLen <= Len(history)
    PROVE  \A i \in DOMAIN Recent : Recent[i] \in Heard /\ \E j \in DOMAIN history : Recent[i] = history[j]
  <1> DEFINE N == Len(history)
             M == {summaries.lastLen, N - SummaryWindow}
  <1>1. N \in Nat /\ history \in Seq(Heard) /\ summaries.lastLen \in Nat  BY DEF HistoryShape, Summaries
  <1>2. SummaryWindow \in Nat  BY HistoryAssumption
  <1>3. Max(M) \in M /\ \A y \in M : Max(M) >= y
    <2>1. \E x \in M : \A y \in M : x >= y
      <3>1. CASE summaries.lastLen >= N - SummaryWindow  BY <1>1, <1>2, <3>1
      <3>2. CASE ~(summaries.lastLen >= N - SummaryWindow)  BY <1>1, <1>2, <3>2
      <3> QED  BY <3>1, <3>2
    <2> HIDE DEF M
    <2> QED  BY <2>1 DEF Max
  <1>4. Max(M) \in 0..N
    <2>1. Max(M) >= summaries.lastLen  BY <1>3
    <2> QED  BY <1>1, <1>2, <1>3, <2>1
  <1> DEFINE m == Max(M)
  <1> HIDE DEF m
  <1>5. m \in 0..N  BY <1>4 DEF m
  <1>6. Recent = SubSeq(history, 1 + m, N)  BY DEF Recent, m
  <1>7. 1 + m \in 1..(N + 1) /\ N \in ((1 + m) - 1)..N  BY <1>1, <1>5
  <1>8. /\ Len(Recent) = N - m /\ Recent \in Seq(Heard)
        /\ \A i \in 1..(N - m) : Recent[i] = history[m + i]
    <2>1. /\ SubSeq(history, 1 + m, N) \in Seq(Heard)
          /\ Len(SubSeq(history, 1 + m, N)) = IF 1 + m <= N THEN N - (1 + m) + 1 ELSE 0
          /\ \A i \in 1..(N - (1 + m) + 1) : SubSeq(history, 1 + m, N)[i] = history[(1 + m) + i - 1]
      BY <1>1, <1>7, SubSeqProperties
    <2>2. \A i \in 1..(N - m) : (1 + m) + i - 1 = m + i  BY <1>1, <1>5
    <2>3. N - (1 + m) + 1 = N - m /\ (~(1 + m <= N) => N - m = 0)  BY <1>1, <1>5
    <2> QED  BY <1>6, <2>1, <2>2, <2>3
  <1>9. ASSUME NEW i \in DOMAIN Recent PROVE i \in 1..(N - m) /\ m + i \in DOMAIN history /\ Recent[i] \in Heard
    <2>1. DOMAIN Recent = 1..(N - m)  BY <1>1, <1>5, <1>8, LenProperties
    <2> QED  BY <1>1, <1>5, <1>8, <2>1
  <1> QED  BY <1>8, <1>9

LEMMA HistoryInitially == HistoryInit => HistoryInv
  <1> SUFFICES ASSUME HistoryInit PROVE HistoryInv
    OBVIOUS
  <1>1. HistoryShape  BY DEF HistoryInit, HistoryShape, Summaries
  <1>2. NotesHeld  BY DEF HistoryInit, NotesHeld
  <1>3. NothingLeaks  BY DEF HistoryInit, NothingLeaks, Permanent
  <1> QED  BY <1>1, <1>2, <1>3 DEF HistoryInv

\* What is appended leaks nothing if it is not temporary, or its thread is, or Emery said it.
LEMMA AppendedIsHeard ==
    ASSUME NEW role \in {"user", "system", "assistant"}, NEW filed \in Threads, NEW t \in Threads, NEW temp \in BOOLEAN,
           NEW s \in Seq(Heard), NEW open, ~temp \/ role = "assistant" \/ t \in open
    PROVE  /\ Append(s, HistoryEntry(role, filed, t, temp)) \in Seq(Heard)
           /\ Permanent(s, open) => Permanent(Append(s, HistoryEntry(role, filed, t, temp)), open)
  <1> DEFINE e == HistoryEntry(role, filed, t, temp)
  <1>1. e \in Heard /\ e.temporary = temp /\ e.role = role /\ e.thread = t  BY DEF HistoryEntry, Heard
  <1> HIDE DEF e
  <1>2. Append(s, e) \in Seq(Heard)  BY <1>1
  <1>3. ASSUME Permanent(s, open) PROVE Permanent(Append(s, e), open)
    <2>1. ASSUME NEW i \in DOMAIN Append(s, e) PROVE Append(s, e)[i] = e \/ (i \in DOMAIN s /\ Append(s, e)[i] = s[i])
      OBVIOUS
    <2>2. ASSUME NEW i \in DOMAIN Append(s, e), Append(s, e)[i].temporary, Append(s, e)[i].role # "assistant"
          PROVE  Append(s, e)[i].thread \in open
      <3>1. CASE Append(s, e)[i] = e  BY <1>1, <2>2, <3>1
      <3>2. CASE i \in DOMAIN s /\ Append(s, e)[i] = s[i]  BY <1>3, <2>2, <3>2 DEF Permanent
      <3> QED  BY <2>1, <3>1, <3>2
    <2> QED  BY <2>2 DEF Permanent
  <1> QED  BY <1>2, <1>3 DEF e

NotesBy == {"running", "sending", "failed"}

\* Notes stay with turns that go on as they were.
LEMMA NotesStay ==
    ASSUME NotesHeld, notes' = notes,
           \A k \in DOMAIN turnsOf :
               /\ k \in DOMAIN turnsOf' /\ turnsOf'[k].thread = turnsOf[k].thread
               /\ ~turnsOf[k].temporary /\ turnsOf[k].at \in NotesBy
                    => ~turnsOf'[k].temporary /\ turnsOf'[k].at \in NotesBy
    PROVE  NotesHeld'
  BY DEF NotesHeld, NotesBy

LEMMA TurnAppended ==
    ASSUME NotesHeld, HistoryShape, notes' = notes, NEW turn \in TurnHeard, turnsOf' = Append(turnsOf, turn)
    PROVE  turnsOf' \in Seq(TurnHeard) /\ NotesHeld'
  <1>1. turnsOf \in Seq(TurnHeard)  BY DEF HistoryShape
  <1>2. turnsOf' \in Seq(TurnHeard) /\ \A k \in DOMAIN turnsOf : k \in DOMAIN turnsOf' /\ turnsOf'[k] = turnsOf[k]
    BY <1>1
  <1> QED  BY <1>2, NotesStay

\* A turn changes where it is, and perhaps whether it is temporary.
LEMMA TurnMoved ==
    ASSUME HistoryShape, NEW k \in DOMAIN turnsOf, NEW turn \in TurnHeard, turnsOf' = [turnsOf EXCEPT ![k] = turn],
           turn.thread = turnsOf[k].thread
    PROVE  /\ turnsOf' \in Seq(TurnHeard) /\ DOMAIN turnsOf' = DOMAIN turnsOf
           /\ turnsOf'[k] = turn /\ \A j \in DOMAIN turnsOf \ {k} : turnsOf'[j] = turnsOf[j]
  BY DEF HistoryShape

LEMMA HandleMessageHeard == ASSUME HistoryInv, NEW t \in Threads, HandleMessage(t) PROVE HistoryInv'
  <1>1. HistoryShape /\ NotesHeld /\ NothingLeaks  BY DEF HistoryInv
  <1>2. UNCHANGED <<temporary, backups, notes, summaries, topics, overlapped>>
        /\ history' = Append(history, HistoryEntry("user", t, t, t \in temporary))
    BY DEF HandleMessage
  <1>3. PICK at \in {"asked", "steers"} :
          turnsOf' = Append(turnsOf, [thread |-> t, kind |-> "message", temporary |-> FALSE, at |-> at])
    BY DEF HandleMessage
  <1>4. [thread |-> t, kind |-> "message", temporary |-> FALSE, at |-> at] \in TurnHeard  BY DEF TurnHeard
  <1>5. turnsOf' \in Seq(TurnHeard) /\ NotesHeld'  BY <1>1, <1>2, <1>3, <1>4, TurnAppended
  <1>6. /\ history' \in Seq(Heard)
        /\ Permanent(history, temporary) => Permanent(history', temporary)
    <2>1. history \in Seq(Heard) /\ (t \in temporary) \in BOOLEAN  BY <1>1 DEF HistoryShape
    <2>2. ~(t \in temporary) \/ "user" = "assistant" \/ t \in temporary  OBVIOUS
    <2> QED  BY <1>2, <2>1, <2>2, AppendedIsHeard
  <1>7. HistoryShape'  BY <1>1, <1>2, <1>5, <1>6 DEF HistoryShape
  <1>8. NothingLeaks'  BY <1>1, <1>2, <1>6 DEF NothingLeaks
  <1> QED  BY <1>5, <1>7, <1>8 DEF HistoryInv

LEMMA TurnStartsHeard == ASSUME HistoryInv, NEW k \in DOMAIN turnsOf, TurnStartsIn(k) PROVE HistoryInv'
  <1> DEFINE temp == turnsOf[k].thread \in temporary
             turn == [turnsOf[k] EXCEPT !.at = "running", !.temporary = temp]
  <1>1. HistoryShape /\ NotesHeld /\ NothingLeaks  BY DEF HistoryInv
  <1>2. UNCHANGED <<history, temporary, backups, notes, summaries, topics, overlapped>> /\ turnsOf[k].at = "asked"
    BY DEF TurnStartsIn
  <1>3. turnsOf[k] \in TurnHeard  BY <1>1 DEF HistoryShape
  <1>4. turnsOf' = [turnsOf EXCEPT ![k] = turn]  BY <1>3 DEF TurnStartsIn, TurnHeard
  <1>5. turn \in TurnHeard /\ turn.thread = turnsOf[k].thread
    <2>1. temp \in BOOLEAN  OBVIOUS
    <2> HIDE DEF temp
    <2> QED  BY <1>3, <2>1 DEF TurnHeard
  <1> HIDE DEF turn
  <1>6. /\ turnsOf' \in Seq(TurnHeard) /\ DOMAIN turnsOf' = DOMAIN turnsOf
        /\ turnsOf'[k] = turn /\ \A j \in DOMAIN turnsOf \ {k} : turnsOf'[j] = turnsOf[j]
    BY <1>1, <1>4, <1>5, TurnMoved
  <1>7. NotesHeld'  BY <1>1, <1>2, <1>5, <1>6, NotesStay DEF NotesBy
  <1>8. HistoryShape'  BY <1>1, <1>2, <1>6 DEF HistoryShape
  <1>9. NothingLeaks'  BY <1>1, <1>2 DEF NothingLeaks
  <1> QED  BY <1>7, <1>8, <1>9 DEF HistoryInv

LEMMA HandleReactionHeard == ASSUME HistoryInv, NEW t \in Threads, HandleReaction(t) PROVE HistoryInv'
  <1> DEFINE temp == t \in temporary
             noted == HistoryEntry("user", Main, t, temp)
             said == HistoryEntry(IF temp THEN "user" ELSE "system", Main, t, temp)
  <1>1. HistoryShape /\ NotesHeld /\ NothingLeaks  BY DEF HistoryInv
  <1>2. UNCHANGED <<temporary, backups, notes, summaries, topics, overlapped>>  BY DEF HandleReaction
  <1>3. PICK turn \in BOOLEAN :
          /\ history' = Append(history, noted) \o IF turn THEN <<said>> ELSE <<>>
          /\ turnsOf' = Append(turnsOf, [thread |-> t, kind |-> "reaction", temporary |-> temp,
                                        at |-> IF turn THEN "running" ELSE "noted"])
    BY DEF HandleReaction
  <1>4. [thread |-> t, kind |-> "reaction", temporary |-> temp, at |-> IF turn THEN "running" ELSE "noted"] \in TurnHeard
    BY DEF TurnHeard
  <1>5. turnsOf' \in Seq(TurnHeard) /\ NotesHeld'  BY <1>1, <1>2, <1>3, <1>4, TurnAppended
  <1>6. history \in Seq(Heard) /\ Main \in Threads /\ temp \in BOOLEAN /\ (~temp \/ t \in temporary)
    BY <1>1, HistoryAssumption DEF HistoryShape
  <1>7. /\ Append(history, noted) \in Seq(Heard)
        /\ Permanent(history, temporary) => Permanent(Append(history, noted), temporary)
    BY <1>6, AppendedIsHeard
  <1>8. /\ Append(Append(history, noted), said) \in Seq(Heard)
        /\ Permanent(Append(history, noted), temporary) => Permanent(Append(Append(history, noted), said), temporary)
    <2>1. (IF temp THEN "user" ELSE "system") \in {"user", "system", "assistant"}  OBVIOUS
    <2> HIDE DEF noted, temp
    <2> QED  BY <1>6, <1>7, <2>1, AppendedIsHeard
  <1> HIDE DEF noted, said
  <1>9. history' = Append(history, noted) \/ history' = Append(Append(history, noted), said)
    <2>1. CASE turn
      <3>1. said \in Heard  BY <1>6 DEF said, Heard, HistoryEntry
      <3>2. Append(history, noted) \o <<said>> = Append(Append(history, noted), said)  BY <1>7, <3>1, AppendIsConcat
      <3> QED  BY <1>3, <2>1, <3>2
    <2>2. CASE ~turn  BY <1>3, <1>7, <2>2
    <2> QED  BY <2>1, <2>2
  <1>10. history' \in Seq(Heard) /\ (Permanent(history, temporary) => Permanent(history', temporary))
    BY <1>7, <1>8, <1>9
  <1>11. HistoryShape'  BY <1>1, <1>2, <1>5, <1>10 DEF HistoryShape
  <1>12. NothingLeaks'  BY <1>1, <1>2, <1>10 DEF NothingLeaks
  <1> QED  BY <1>5, <1>11, <1>12 DEF HistoryInv

LEMMA JotDownHeard == ASSUME HistoryInv, NEW k \in DOMAIN turnsOf, JotDownNote(k) PROVE HistoryInv'
  <1>1. HistoryShape /\ NotesHeld /\ NothingLeaks  BY DEF HistoryInv
  <1>2. UNCHANGED <<history, temporary, backups, turnsOf, summaries, topics, overlapped>>
        /\ turnsOf[k].at = "running" /\ ~turnsOf[k].temporary
        /\ notes' = [notes EXCEPT ![turnsOf[k].thread] = @ \cup {k}]
    BY DEF JotDownNote
  <1>3. k \in Nat /\ turnsOf[k] \in TurnHeard  BY <1>1 DEF HistoryShape
  <1>4. turnsOf[k].thread \in Threads  BY <1>3 DEF TurnHeard
  <1>5. HistoryShape'  BY <1>1, <1>2, <1>3, <1>4 DEF HistoryShape
  <1>6. NotesHeld'
    <2>1. notes \in [Threads -> SUBSET Nat]  BY <1>1 DEF HistoryShape
    <2>2. \A t \in Threads : \A j \in notes'[t] : j \in notes[t] \/ (j = k /\ t = turnsOf[k].thread)  BY <1>2, <1>4, <2>1
    <2> QED  BY <1>1, <1>2, <2>2 DEF NotesHeld
  <1>7. NothingLeaks'  BY <1>1, <1>2 DEF NothingLeaks
  <1> QED  BY <1>5, <1>6, <1>7 DEF HistoryInv

\* A turn that ends well takes the notes of its thread with it, unless it is temporary and has none.
LEMMA NotesEnd ==
    ASSUME HistoryShape, NotesHeld, NEW k \in DOMAIN turnsOf, turnsOf' = [turnsOf EXCEPT ![k].at = "done"],
           notes' = IF KeepsNotes(k) THEN notes ELSE [notes EXCEPT ![turnsOf[k].thread] = {}]
    PROVE  turnsOf' \in Seq(TurnHeard) /\ notes' \in [Threads -> SUBSET Nat] /\ NotesHeld'
  <1> DEFINE turn == [turnsOf[k] EXCEPT !.at = "done"]
  <1>1. turnsOf[k] \in TurnHeard /\ notes \in [Threads -> SUBSET Nat]  BY DEF HistoryShape
  <1>2. turnsOf' = [turnsOf EXCEPT ![k] = turn]  BY <1>1 DEF TurnHeard
  <1>3. turn \in TurnHeard /\ turn.thread = turnsOf[k].thread  BY <1>1 DEF TurnHeard
  <1> HIDE DEF turn
  <1>4. /\ turnsOf' \in Seq(TurnHeard) /\ DOMAIN turnsOf' = DOMAIN turnsOf
        /\ turnsOf'[k] = turn /\ \A j \in DOMAIN turnsOf \ {k} : turnsOf'[j] = turnsOf[j]
    BY <1>2, <1>3, TurnMoved
  <1>5. notes' \in [Threads -> SUBSET Nat]  BY <1>1
  <1>6. ASSUME NEW t \in Threads, NEW j \in notes'[t] PROVE j \in notes[t] /\ j # k
    <2>1. CASE KeepsNotes(k)  BY <2>1, <1>6 DEF KeepsNotes, NotesHeld
    <2>2. CASE ~KeepsNotes(k)
      <3>1. j \in notes[t] /\ t # turnsOf[k].thread  BY <1>1, <1>6, <2>2
      <3> QED  BY <3>1 DEF NotesHeld
    <2> QED  BY <2>1, <2>2
  <1>7. NotesHeld'  BY <1>4, <1>6 DEF NotesHeld
  <1> QED  BY <1>4, <1>5, <1>7

LEMMA TurnEndsHeard == ASSUME HistoryInv, NEW k \in DOMAIN turnsOf, TurnEndsIn(k) PROVE HistoryInv'
  <1> DEFINE t == turnsOf[k].thread
             entry == HistoryEntry("assistant", t, t, turnsOf[k].temporary)
  <1>1. HistoryShape /\ NotesHeld /\ NothingLeaks  BY DEF HistoryInv
  <1>2. /\ UNCHANGED <<temporary, backups, topics, overlapped>> /\ history' = Append(history, entry)
        /\ turnsOf' = [turnsOf EXCEPT ![k].at = "done"]
        /\ notes' = IF KeepsNotes(k) THEN notes ELSE [notes EXCEPT ![turnsOf[k].thread] = {}]
        /\ summaries' = IF turnsOf[k].temporary THEN summaries ELSE [summaries EXCEPT !.due = @ + 1]
    BY DEF TurnEndsIn
  <1>3. turnsOf' \in Seq(TurnHeard) /\ notes' \in [Threads -> SUBSET Nat] /\ NotesHeld'  BY <1>1, <1>2, NotesEnd
  <1>4. turnsOf[k] \in TurnHeard /\ history \in Seq(Heard)  BY <1>1 DEF HistoryShape
  <1>5. history' \in Seq(Heard) /\ (Permanent(history, temporary) => Permanent(history', temporary))
    <2>1. t \in Threads /\ turnsOf[k].temporary \in BOOLEAN  BY <1>4 DEF TurnHeard
    <2> QED  BY <1>2, <1>4, <2>1, AppendedIsHeard
  <1>6. summaries' \in Summaries /\ summaries'.snippet = summaries.snippet
    <2>1. summaries \in Summaries  BY <1>1 DEF HistoryShape
    <2>2. summaries.due \in Nat  BY <2>1 DEF Summaries
    <2>3. summaries.due + 1 \in Nat  BY <2>2
    <2>4. [summaries EXCEPT !.due = @ + 1] \in Summaries /\ [summaries EXCEPT !.due = @ + 1].snippet = summaries.snippet
      BY <2>1, <2>3 DEF Summaries
    <2>5. CASE turnsOf[k].temporary  BY <1>2, <2>1, <2>5
    <2>6. CASE ~turnsOf[k].temporary
      <3>1. summaries' = [summaries EXCEPT !.due = @ + 1]  BY <1>2, <2>6
      <3> QED  BY <2>4, <3>1
    <2> QED  BY <2>5, <2>6
  <1>7. HistoryShape'  BY <1>1, <1>2, <1>3, <1>5, <1>6 DEF HistoryShape
  <1>8. NothingLeaks'  BY <1>1, <1>2, <1>5, <1>6 DEF NothingLeaks
  <1> QED  BY <1>3, <1>7, <1>8 DEF HistoryInv

LEMMA ReactionSentHeard == ASSUME HistoryInv, NEW k \in DOMAIN turnsOf, ReactionSent(k) PROVE HistoryInv'
  <1>1. HistoryShape /\ NotesHeld /\ NothingLeaks  BY DEF HistoryInv
  <1>2. /\ UNCHANGED <<history, temporary, backups, summaries, topics, overlapped>>
        /\ turnsOf' = [turnsOf EXCEPT ![k].at = "done"]
        /\ notes' = IF KeepsNotes(k) THEN notes ELSE [notes EXCEPT ![turnsOf[k].thread] = {}]
    BY DEF ReactionSent
  <1>3. turnsOf' \in Seq(TurnHeard) /\ notes' \in [Threads -> SUBSET Nat] /\ NotesHeld'  BY <1>1, <1>2, NotesEnd
  <1>4. HistoryShape'  BY <1>1, <1>2, <1>3 DEF HistoryShape
  <1>5. NothingLeaks'  BY <1>1, <1>2 DEF NothingLeaks
  <1> QED  BY <1>3, <1>4, <1>5 DEF HistoryInv

\* A turn that is on its way stays a bearer of notes.
LEMMA TurnGoesOn ==
    ASSUME HistoryShape, NotesHeld, NEW k \in DOMAIN turnsOf, NEW at \in NotesBy, turnsOf' = [turnsOf EXCEPT ![k].at = at],
           notes' = notes
    PROVE  turnsOf' \in Seq(TurnHeard) /\ NotesHeld'
  <1> DEFINE turn == [turnsOf[k] EXCEPT !.at = at]
  <1>1. turnsOf[k] \in TurnHeard  BY DEF HistoryShape
  <1>2. turnsOf' = [turnsOf EXCEPT ![k] = turn]  BY <1>1 DEF TurnHeard
  <1>3. turn \in TurnHeard /\ turn.thread = turnsOf[k].thread /\ turn.temporary = turnsOf[k].temporary /\ turn.at = at
    BY <1>1 DEF TurnHeard, NotesBy
  <1> HIDE DEF turn
  <1>4. /\ turnsOf' \in Seq(TurnHeard) /\ DOMAIN turnsOf' = DOMAIN turnsOf
        /\ turnsOf'[k] = turn /\ \A j \in DOMAIN turnsOf \ {k} : turnsOf'[j] = turnsOf[j]
    BY <1>2, <1>3, TurnMoved
  <1>5. NotesHeld'  BY <1>3, <1>4, NotesStay
  <1> QED  BY <1>4, <1>5

LEMMA ReactionEndsHeard == ASSUME HistoryInv, NEW k \in DOMAIN turnsOf, ReactionEnds(k) PROVE HistoryInv'
  <1> DEFINE entry == HistoryEntry("assistant", Main, turnsOf[k].thread, turnsOf[k].temporary)
  <1>1. HistoryShape /\ NotesHeld /\ NothingLeaks  BY DEF HistoryInv
  <1>2. UNCHANGED <<temporary, backups, notes, summaries, topics, overlapped>> /\ history' = Append(history, entry)
        /\ turnsOf' = [turnsOf EXCEPT ![k].at = "sending"]
    BY DEF ReactionEnds
  <1>3. turnsOf' \in Seq(TurnHeard) /\ NotesHeld'  BY <1>1, <1>2, TurnGoesOn DEF NotesBy
  <1>4. turnsOf[k] \in TurnHeard /\ history \in Seq(Heard)  BY <1>1 DEF HistoryShape
  <1>5. history' \in Seq(Heard) /\ (Permanent(history, temporary) => Permanent(history', temporary))
    <2>1. turnsOf[k].thread \in Threads /\ turnsOf[k].temporary \in BOOLEAN /\ Main \in Threads
      BY <1>4, HistoryAssumption DEF TurnHeard
    <2> QED  BY <1>2, <1>4, <2>1, AppendedIsHeard
  <1>6. HistoryShape'  BY <1>1, <1>2, <1>3, <1>5 DEF HistoryShape
  <1>7. NothingLeaks'  BY <1>1, <1>2, <1>5 DEF NothingLeaks
  <1> QED  BY <1>3, <1>6, <1>7 DEF HistoryInv

LEMMA TurnRaisesHeard == ASSUME HistoryInv, NEW k \in DOMAIN turnsOf, TurnRaises(k) PROVE HistoryInv'
  <1>1. HistoryShape /\ NotesHeld /\ NothingLeaks  BY DEF HistoryInv
  <1>2. UNCHANGED <<history, temporary, backups, notes, summaries, topics, overlapped>>
        /\ turnsOf' = [turnsOf EXCEPT ![k].at = "failed"]
    BY DEF TurnRaises
  <1>3. turnsOf' \in Seq(TurnHeard) /\ NotesHeld'  BY <1>1, <1>2, TurnGoesOn DEF NotesBy
  <1>4. HistoryShape'  BY <1>1, <1>2, <1>3 DEF HistoryShape
  <1>5. NothingLeaks'  BY <1>1, <1>2 DEF NothingLeaks
  <1> QED  BY <1>3, <1>4, <1>5 DEF HistoryInv

LEMMA TemporaryOnHeard == ASSUME HistoryInv, NEW t \in Threads, TemporaryOn(t) PROVE HistoryInv'
  <1>1. HistoryShape /\ NotesHeld /\ NothingLeaks  BY DEF HistoryInv
  <1>2. UNCHANGED <<turnsOf, notes, summaries, topics>> /\ backups' = [backups EXCEPT ![t] = history]
        /\ temporary' = temporary \cup {t} /\ history' = OtherThreads(t) /\ overlapped' = (overlapped \/ temporary # {})
    BY DEF TemporaryOn
  <1>3. /\ OtherThreads(t) \in Seq(Heard)
        /\ \A i \in DOMAIN OtherThreads(t) : \E j \in DOMAIN history : OtherThreads(t)[i] = history[j]
    BY <1>1, OthersAre DEF HistoryShape
  <1>4. HistoryShape'  BY <1>1, <1>2, <1>3 DEF HistoryShape
  <1>5. NotesHeld'  BY <1>1, <1>2 DEF NotesHeld
  <1>6. NothingLeaks'
    <2> SUFFICES ASSUME ~overlapped' PROVE NothingLeaks'
      BY DEF NothingLeaks
    <2>1. ~overlapped /\ temporary = {}  BY <1>2
    <2>2. \A u, v \in temporary' : u = v  BY <1>2, <2>1
    <2>3. Permanent(history, {})  BY <1>1, <2>1 DEF NothingLeaks
    <2>4. Permanent(history', temporary')  BY <1>2, <1>3, <2>3 DEF Permanent
    <2>5. \A u \in Threads : backups'[u] = backups[u] \/ backups'[u] = history  BY <1>1, <1>2 DEF HistoryShape
    <2>6. \A u \in Threads : Permanent(backups'[u], {})  BY <1>1, <2>1, <2>3, <2>5 DEF NothingLeaks
    <2> QED  BY <1>1, <1>2, <2>1, <2>2, <2>4, <2>6 DEF NothingLeaks
  <1> QED  BY <1>4, <1>5, <1>6 DEF HistoryInv

LEMMA TemporaryOffHeard == ASSUME HistoryInv, NEW t \in Threads, TemporaryOff(t) PROVE HistoryInv'
  <1>1. HistoryShape /\ NotesHeld /\ NothingLeaks  BY DEF HistoryInv
  <1>2. UNCHANGED <<turnsOf, notes, summaries, topics, overlapped>> /\ backups' = [backups EXCEPT ![t] = <<>>]
        /\ temporary' = temporary \ {t} /\ history' = backups[t]
    BY DEF TemporaryOff, Restored
  <1>3. HistoryShape'  BY <1>1, <1>2 DEF HistoryShape
  <1>4. NotesHeld'  BY <1>1, <1>2 DEF NotesHeld
  <1>5. NothingLeaks'
    <2> SUFFICES ASSUME ~overlapped PROVE NothingLeaks'
      BY <1>2 DEF NothingLeaks
    <2>1. \A u, v \in temporary' : u = v  BY <1>1, <1>2 DEF NothingLeaks
    <2>2. Permanent(history', temporary')  BY <1>1, <1>2 DEF NothingLeaks, Permanent
    <2>3. \A u \in Threads : backups'[u] = backups[u] \/ backups'[u] = <<>>  BY <1>1, <1>2 DEF HistoryShape
    <2>4. \A u \in Threads : Permanent(backups'[u], {})  BY <1>1, <2>3 DEF NothingLeaks, Permanent
    <2> QED  BY <1>1, <1>2, <2>1, <2>2, <2>4 DEF NothingLeaks
  <1> QED  BY <1>3, <1>4, <1>5 DEF HistoryInv

LEMMA SummaryBeginsHeard == ASSUME HistoryInv, NEW t \in Threads, SummaryBegins(t) PROVE HistoryInv'
  <1>1. HistoryShape /\ NotesHeld /\ NothingLeaks  BY DEF HistoryInv
  <1>2. UNCHANGED <<history, temporary, backups, turnsOf, notes, topics, overlapped>> /\ summaries.due > 0
    BY DEF SummaryBegins
  <1>3. summaries \in Summaries /\ summaries.due - 1 \in Nat /\ Len(history) \in Nat /\ summaries.lastLen \in Nat
    BY <1>1, <1>2 DEF HistoryShape, Summaries
  <1>4. CASE summaries' = [summaries EXCEPT !.due = @ - 1]
    <2>1. summaries' \in Summaries /\ summaries'.snippet = summaries.snippet  BY <1>3, <1>4 DEF Summaries
    <2>2. HistoryShape' /\ NotesHeld'  BY <1>1, <1>2, <2>1 DEF HistoryShape, NotesHeld
    <2>3. NothingLeaks'  BY <1>1, <1>2, <2>1 DEF NothingLeaks
    <2> QED  BY <2>2, <2>3 DEF HistoryInv
  <1>5. CASE ~(ChatTemporary(t) \/ summaries.snippet # NoSummary \/ Len(history) < summaries.lastLen + SummaryEvery)
    <2> DEFINE made == IF Cardinality(FromUsers(Recent)) < 2 THEN NoSummary ELSE {Recent[i] : i \in FromUsers(Recent)}
    <2>1. temporary = {} /\ summaries.lastLen <= Len(history)
      <3>1. SummaryEvery \in Nat  BY HistoryAssumption
      <3> QED  BY <1>3, <1>5, <3>1 DEF ChatTemporary
    <2>2. \A i \in DOMAIN Recent : Recent[i] \in Heard /\ \E j \in DOMAIN history : Recent[i] = history[j]
      BY <1>1, <2>1, RecentIs
    <2>3. summaries' = [due |-> summaries.due - 1, lastLen |-> Len(history), snippet |-> made]
      BY <1>5 DEF SummaryBegins
    <2>4. \A e \in made : \E i \in DOMAIN Recent : e = Recent[i] /\ Recent[i].role = "user"  BY DEF FromUsers, NoSummary
    <2>5. made \subseteq Heard  BY <2>2, <2>4
    <2> HIDE DEF made
    <2>6. summaries' \in Summaries /\ summaries'.snippet = made  BY <1>3, <2>3, <2>5 DEF Summaries
    <2>7. HistoryShape' /\ NotesHeld'  BY <1>1, <1>2, <2>6 DEF HistoryShape, NotesHeld
    <2>8. ASSUME ~overlapped, NEW e \in made PROVE ~e.temporary
      <3>1. Permanent(history, {})  BY <1>1, <2>1, <2>8 DEF NothingLeaks
      <3>2. PICK j \in DOMAIN history : e = history[j] /\ e.role = "user"  BY <2>2, <2>4
      <3> QED  BY <3>1, <3>2 DEF Permanent
    <2>9. NothingLeaks'  BY <1>1, <1>2, <2>6, <2>8 DEF NothingLeaks
    <2> QED  BY <2>7, <2>9 DEF HistoryInv
  <1> QED  BY <1>4, <1>5 DEF SummaryBegins

LEMMA SummaryAnsweredHeard == ASSUME HistoryInv, NEW t \in Threads, SummaryAnswered(t) PROVE HistoryInv'
  <1>1. HistoryShape /\ NotesHeld /\ NothingLeaks  BY DEF HistoryInv
  <1>2. UNCHANGED <<history, temporary, backups, turnsOf, notes, overlapped>>
        /\ summaries' = [summaries EXCEPT !.snippet = {}] /\ topics' \subseteq topics \cup summaries.snippet
    BY DEF SummaryAnswered, NoSummary
  <1>3. summaries' \in Summaries /\ summaries'.snippet = {}  BY <1>1, <1>2 DEF HistoryShape, Summaries
  <1>4. HistoryShape' /\ NotesHeld'  BY <1>1, <1>2, <1>3 DEF HistoryShape, NotesHeld
  <1>5. NothingLeaks'  BY <1>1, <1>2, <1>3 DEF NothingLeaks
  <1> QED  BY <1>4, <1>5 DEF HistoryInv

LEMMA HistoryStep == HistoryInv /\ [HistoryNext]_historyVars => HistoryInv'
  <1> SUFFICES ASSUME HistoryInv, [HistoryNext]_historyVars PROVE HistoryInv'
    OBVIOUS
  <1>1. HistoryShape /\ NotesHeld /\ NothingLeaks  BY DEF HistoryInv
  <1>2. CASE UNCHANGED historyVars
    <2>1. UNCHANGED <<history, temporary, backups, turnsOf, notes, summaries, topics, overlapped>>  BY <1>2 DEF historyVars
    <2>2. HistoryShape' /\ NotesHeld'  BY <1>1, <2>1 DEF HistoryShape, NotesHeld
    <2>3. NothingLeaks'  BY <1>1, <2>1 DEF NothingLeaks
    <2> QED  BY <2>2, <2>3 DEF HistoryInv
  <1>3. ASSUME NEW t \in Threads, ClearScratchpad(t) PROVE HistoryInv'
    <2>1. UNCHANGED <<history, temporary, backups, turnsOf, summaries, topics, overlapped>> /\ notes' = [notes EXCEPT ![t] = {}]
      BY <1>3 DEF ClearScratchpad
    <2>2. HistoryShape'  BY <1>1, <2>1 DEF HistoryShape
    <2>3. \A u \in Threads : notes'[u] \subseteq notes[u]  BY <1>1, <2>1 DEF HistoryShape
    <2>4. NotesHeld'  BY <1>1, <2>1, <2>3 DEF NotesHeld
    <2>5. NothingLeaks'  BY <1>1, <2>1 DEF NothingLeaks
    <2> QED  BY <2>2, <2>4, <2>5 DEF HistoryInv
  <1>4. CASE HandleClear
    <2>1. UNCHANGED <<temporary, backups, turnsOf, notes, summaries, topics, overlapped>> /\ history' = <<>>
      BY <1>4 DEF HandleClear
    <2>2. HistoryShape' /\ NotesHeld'  BY <1>1, <2>1 DEF HistoryShape, NotesHeld
    <2>3. NothingLeaks'  BY <1>1, <2>1 DEF NothingLeaks, Permanent
    <2> QED  BY <2>2, <2>3 DEF HistoryInv
  <1> QED
    BY <1>2, <1>3, <1>4, HandleMessageHeard, TemporaryOnHeard, TemporaryOffHeard, HandleReactionHeard, SummaryBeginsHeard,
       SummaryAnsweredHeard, TurnStartsHeard, JotDownHeard, TurnEndsHeard, TurnRaisesHeard, ReactionEndsHeard, ReactionSentHeard
    DEF HistoryNext

\* While no two threads of a chat were temporary at once, what a user says in a temporary thread is
\* gone from the history when the thread is temporary no more and becomes no topic, whatever summary,
\* turn or reaction was under way (set_temporary_mode, summarize_topics_background); and a note goes
\* with the turn that ends well (_clear_completed_turn_scratchpad).
THEOREM TemporaryHeld == HistorySpec => []TemporaryLeavesNothing
  <1>1. HistoryInv => TemporaryLeavesNothing
    <2> SUFFICES ASSUME HistoryInv PROVE TemporaryLeavesNothing
      OBVIOUS
    <2>1. NotesHeld /\ NothingLeaks  BY DEF HistoryInv
    <2>2. ASSUME ~overlapped, NEW entry \in Range(history), entry.temporary, entry.role # "assistant"
          PROVE  entry.thread \in temporary
      BY <2>1, <2>2 DEF NothingLeaks, Permanent, Range
    <2>3. ~overlapped => \A entry \in topics : ~entry.temporary  BY <2>1 DEF NothingLeaks
    <2>4. \A t \in Threads : \A k \in notes[t] : turnsOf[k].at # "done"  BY <2>1 DEF NotesHeld
    <2> QED  BY <2>2, <2>3, <2>4 DEF TemporaryLeavesNothing
  <1> QED  BY <1>1, HistoryInitially, HistoryStep, PTL DEF HistorySpec

-----------------------------------------------------------------------------
(***************************************************************************)
(* The bridge to the peer bot                                              *)
(***************************************************************************)

AskedShape == outgoing \in [Ours -> AskedRequest] /\ route \in [Ours -> Ages]
CacheShape == /\ completed \in [Theirs -> Ages] /\ ran \in [Theirs -> Nat]
              /\ forgotten \in [Theirs -> Nat]

\* Emery remembers a request whose response is cached or being made.
Running(p) == handling = [at |-> "engine", id |-> p]
Remembers(p) == completed[p] # "none" \/ Running(p)

\* What has run is remembered or has been forgotten since.
Accounted(p) ==
    /\ ran[p] <= forgotten[p] + (IF Remembers(p) THEN 1 ELSE 0)
    /\ Running(p) => p \in inflight

RunsInv == CacheShape /\ \A p \in Theirs : Accounted(p)
RoutesInv == AskedShape /\ WaitersRouted

LEMMA AgesOf == "none" \in Ages /\ "young" \in Ages /\ "old" \in Ages
  BY DEF Ages

-----------------------------------------------------------------------------
(* Requests of the peer run once *)

LEMMA RunsInitial == BridgeInit => RunsInv
  <1> SUFFICES ASSUME BridgeInit PROVE RunsInv
    OBVIOUS
  <1>1. CacheShape  BY AgesOf DEF BridgeInit, CacheShape
  <1>2. ASSUME NEW p \in Theirs PROVE Accounted(p)
    BY DEF BridgeInit, NoHandler, Accounted, Remembers, Running
  <1> QED  BY <1>1, <1>2 DEF RunsInv

\* Pruning forgets what it drops from the cache.
LEMMA PruningForgets ==
    ASSUME CacheShape, Prunes
    PROVE  /\ completed' \in [Theirs -> Ages] /\ forgotten' \in [Theirs -> Nat]
           /\ \A p \in Theirs :
                \/ completed'[p] = completed[p] /\ forgotten'[p] = forgotten[p]
                \/ completed'[p] = "none" /\ forgotten'[p] = forgotten[p] + 1
           /\ \A p \in Theirs : completed'[p] = "none" \/ IsKnown(p)
  <1>1. completed' \in [Theirs -> Ages]  BY AgesOf DEF Prunes, CacheShape
  <1>2. forgotten' \in [Theirs -> Nat]  BY DEF Prunes, CacheShape
  <1>3. \A p \in Theirs : completed[p] \in {"none", "young", "old"}  BY DEF CacheShape, Ages
  <1> QED  BY <1>1, <1>2, <1>3 DEF Prunes, CacheShape, IsKnown

\* A step that prunes and gives nothing to the engine.
LEMMA PrunedRuns ==
    ASSUME RunsInv, Prunes, UNCHANGED <<ran, inflight>>, handling = NoHandler \/ UNCHANGED handling,
           \A p \in Theirs : ~Running(p)' \/ Running(p)
    PROVE  RunsInv'
  <1>1. CacheShape'  BY PruningForgets DEF RunsInv, CacheShape
  <1>2. ASSUME NEW p \in Theirs PROVE Accounted(p)'
    <2>1. /\ ran[p] \in Nat /\ forgotten[p] \in Nat /\ Accounted(p)
          /\ Running(p)' = Running(p)
      BY <1>2 DEF RunsInv, CacheShape, Running, NoHandler
    <2>2. \/ completed'[p] = completed[p] /\ forgotten'[p] = forgotten[p]
          \/ completed'[p] = "none" /\ forgotten'[p] = forgotten[p] + 1
      BY PruningForgets DEF RunsInv
    <2>3. CASE completed'[p] = completed[p] /\ forgotten'[p] = forgotten[p]
      BY <2>1, <2>3 DEF Accounted, Remembers
    <2>4. CASE completed'[p] = "none" /\ forgotten'[p] = forgotten[p] + 1
      <3>1. ran[p] <= forgotten[p] + 1  BY <2>1 DEF Accounted
      <3>2. ran'[p] <= forgotten'[p]  BY <2>4, <3>1
      <3> QED  BY <2>1, <2>4, <3>2 DEF Accounted, Remembers
    <2> QED  BY <2>2, <2>3, <2>4
  <1> QED  BY <1>1, <1>2 DEF RunsInv

\* A step that touches neither the cache nor the engine.
LEMMA OtherRuns ==
    ASSUME RunsInv, UNCHANGED <<completed, ran, forgotten>>,
           \A p \in Theirs : /\ Running(p)' = Running(p)
                             /\ Running(p) => p \in inflight'
    PROVE  RunsInv'
  BY DEF RunsInv, CacheShape, Accounted, Remembers

LEMMA RunsSteps == RunsInv /\ [BridgeNext]_bridgeVars => RunsInv'
  <1> SUFFICES ASSUME RunsInv, [BridgeNext]_bridgeVars PROVE RunsInv'
    OBVIOUS
  <1>t. CacheShape /\ \A p \in Theirs : Accounted(p)  BY DEF RunsInv
  <1>1. ASSUME NEW i \in Ours, ToolAsks(i) PROVE RunsInv'
    <2>1. Prunes /\ UNCHANGED <<ran, inflight, handling>>  BY <1>1 DEF ToolAsks, SendsRequest
    <2>2. \A p \in Theirs : Running(p)' = Running(p)  BY <2>1 DEF Running
    <2> QED  BY <2>1, <2>2, PrunedRuns
  <1>2. ASSUME NEW i \in Ours, ToolSent(i) \/ ToolTimesOut(i) \/ UserTypes(i) PROVE RunsInv'
    BY <1>2, <1>t, OtherRuns DEF ToolSent, ToolTimesOut, UserTypes, Running, Accounted
  <1>3. ASSUME NEW i \in Ours, HumanAsks(i) \/ ResponseComes(i) PROVE RunsInv'
    <2>1. handling = NoHandler /\ Prunes /\ UNCHANGED <<ran, inflight>>
      BY <1>3 DEF HumanAsks, ResponseComes, Takes, SendsRequest
    <2>h. handling' = NoHandler \/ handling' = [at |-> "ask", id |-> i]
                             \/ handling' = [at |-> "show", id |-> i]
      <3>1. CASE HumanAsks(i)  BY <3>1 DEF HumanAsks
      <3>2. CASE ResponseComes(i)  BY <2>1, <3>2 DEF ResponseComes
      <3> QED  BY <1>3, <3>1, <3>2
    <2>2. \A p \in Theirs : ~Running(p)'  BY <2>h DEF Running, NoHandler
    <2>3. \A p \in Theirs : ~Running(p)' \/ Running(p)  BY <2>2
    <2> QED  BY <2>1, <2>3, PrunedRuns
  <1>4. ASSUME NEW i \in Ours, HumanSent(i) \/ Shown(i) PROVE RunsInv'
    <2>1. UNCHANGED <<completed, ran, forgotten, inflight>>
      BY <1>4 DEF HumanSent, Shown
    <2>2. \A p \in Theirs : ~Running(p) /\ ~Running(p)'
      BY <1>4 DEF HumanSent, Shown, Running, NoHandler
    <2>3. \A p \in Theirs : Running(p)' = Running(p) /\ (Running(p) => p \in inflight')
      BY <2>2 DEF Running
    <2> QED  BY <2>1, <2>3, OtherRuns
  <1>5. ASSUME NEW p \in Theirs, RequestComes(p) PROVE RunsInv'
    <2>0. handling = NoHandler /\ Prunes  BY <1>5 DEF RequestComes, Takes
    <2>1. CASE UNCHANGED <<inflight, ran>> /\ ~\E q \in Theirs : Running(q)'
      BY <2>0, <2>1, PrunedRuns
    <2>2. CASE /\ ~IsKnown(p) /\ handling' = [at |-> "engine", id |-> p]
               /\ inflight' = inflight \cup {p} /\ ran' = [ran EXCEPT ![p] = @ + 1]
      <3>1. /\ completed' \in [Theirs -> Ages] /\ forgotten' \in [Theirs -> Nat]
            /\ completed'[p] = "none"
        BY <1>t, <2>0, <2>2, PruningForgets
      <3>2. ran' \in [Theirs -> Nat]  BY <1>t, <2>2 DEF CacheShape
      <3>3. ASSUME NEW q \in Theirs PROVE Accounted(q)'
        <4>1. /\ ran[q] \in Nat /\ forgotten[q] \in Nat /\ Accounted(q) /\ ~Running(q)
          BY <1>t, <2>0 DEF CacheShape, Running, NoHandler
        <4>2. \/ completed'[q] = completed[q] /\ forgotten'[q] = forgotten[q]
              \/ completed'[q] = "none" /\ forgotten'[q] = forgotten[q] + 1
          BY <1>t, <2>0, PruningForgets
        <4>3. CASE q = p
          <5>1. Running(p)' /\ p \in inflight' /\ ran'[p] = ran[p] + 1
            BY <1>t, <2>2 DEF Running, CacheShape
          <5>2. ran[p] <= forgotten'[p]
            BY <3>1, <4>1, <4>2, <4>3 DEF Accounted, Remembers
          <5>3. forgotten'[p] \in Nat  BY <3>1
          <5>4. ran'[p] <= forgotten'[p] + 1  BY <4>1, <4>3, <5>1, <5>2, <5>3
          <5> QED  BY <4>3, <5>1, <5>4 DEF Accounted, Remembers
        <4>4. CASE q # p
          <5>1. ~Running(q)' /\ ran'[q] = ran[q]
            BY <1>t, <2>2, <4>4 DEF Running, CacheShape
          <5>2. CASE completed'[q] = completed[q] /\ forgotten'[q] = forgotten[q]
            BY <4>1, <5>1, <5>2 DEF Accounted, Remembers
          <5>3. CASE completed'[q] = "none" /\ forgotten'[q] = forgotten[q] + 1
            <6>1. ran'[q] <= forgotten'[q]  BY <4>1, <5>1, <5>3 DEF Accounted
            <6> QED  BY <4>1, <5>1, <5>3, <6>1 DEF Accounted, Remembers
          <5> QED  BY <4>2, <5>2, <5>3
        <4> QED  BY <4>3, <4>4
      <3> QED  BY <3>1, <3>2, <3>3 DEF RunsInv, CacheShape
    <2> QED
      BY <1>5, <2>0, <2>1, <2>2 DEF RequestComes, Running, NoHandler
  <1>6. ASSUME NEW p \in Theirs, EngineAnswers(p) PROVE RunsInv'
    <2>1. completed' \in [Theirs -> Ages]  BY <1>6, <1>t, AgesOf DEF EngineAnswers, Remembered, CacheShape
    <2>2. ASSUME NEW q \in Theirs PROVE Accounted(q)'
      <3>1. Remembers(q) => completed'[q] # "none"
        BY <1>6, <1>t DEF EngineAnswers, Remembered, Remembers, Running, CacheShape
      <3>2. ~Running(q)' /\ UNCHANGED <<ran, forgotten>>
        BY <1>6 DEF EngineAnswers, Running
      <3>3. ran[q] \in Nat /\ forgotten[q] \in Nat  BY <1>t DEF CacheShape
      <3>4. ran[q] <= forgotten[q] + (IF Remembers(q) THEN 1 ELSE 0)
        BY <1>t DEF Accounted
      <3>5. CASE completed'[q] = "none"
        <4>1. ran'[q] <= forgotten'[q]  BY <3>1, <3>2, <3>3, <3>4, <3>5
        <4> QED  BY <3>2, <3>3, <3>5, <4>1 DEF Accounted, Remembers
      <3>6. CASE completed'[q] # "none"
        <4>1. ran'[q] <= forgotten'[q] + 1  BY <3>2, <3>3, <3>4
        <4> QED  BY <3>2, <3>6, <4>1 DEF Accounted, Remembers
      <3> QED  BY <3>5, <3>6
    <2>3. UNCHANGED <<ran, forgotten>>  BY <1>6 DEF EngineAnswers
    <2> QED  BY <1>t, <2>1, <2>2, <2>3 DEF RunsInv, CacheShape
  <1>7. ASSUME NEW p \in Theirs, ReplyEnds(p) PROVE RunsInv'
    <2>1. UNCHANGED <<completed, ran, forgotten>>  BY <1>7 DEF ReplyEnds
    <2>2. \A q \in Theirs : ~Running(q) /\ ~Running(q)'
      BY <1>7 DEF ReplyEnds, Running, NoHandler
    <2>3. \A q \in Theirs : Running(q)' = Running(q) /\ (Running(q) => q \in inflight')
      BY <2>2 DEF Running
    <2> QED  BY <2>1, <2>3, OtherRuns
  <1>8. ASSUME NEW u \in Update, PeerSends(u) PROVE RunsInv'
    BY <1>8, <1>t, OtherRuns DEF PeerSends, Running, Accounted
  <1>9. CASE TimePasses
    <2>1. /\ completed' \in [Theirs -> Ages] /\ UNCHANGED <<ran, forgotten, handling, inflight>>
          /\ \A q \in Theirs : completed'[q] = "none" <=> completed[q] = "none"
      BY <1>9, <1>t, AgesOf DEF TimePasses, CacheShape
    <2> QED  BY <1>t, <2>1 DEF RunsInv, CacheShape, Accounted, Remembers, Running
  <1>10. CASE BridgeRestarts
    <2>1. /\ completed' = [p \in Theirs |-> "none"] /\ handling' = NoHandler /\ ran' = ran
          /\ forgotten' = [p \in Theirs |->
                IF completed[p] # "none" \/ p \in inflight THEN forgotten[p] + 1 ELSE forgotten[p]]
      BY <1>10 DEF BridgeRestarts
    <2>2. completed' \in [Theirs -> Ages] /\ forgotten' \in [Theirs -> Nat]
      BY <2>1, <1>t, AgesOf DEF CacheShape
    <2>3. ASSUME NEW q \in Theirs PROVE Accounted(q)'
      <3>1. ~Running(q)'  BY <2>1 DEF Running, NoHandler
      <3>2. ran[q] \in Nat /\ forgotten[q] \in Nat /\ Accounted(q)  BY <1>t DEF CacheShape
      <3>3. Remembers(q) => completed[q] # "none" \/ q \in inflight
        BY <3>2 DEF Remembers, Accounted
      <3>4. ran[q] <= forgotten'[q]
        BY <2>1, <3>2, <3>3 DEF Accounted
      <3>5. forgotten'[q] \in Nat  BY <2>2
      <3>6. ran'[q] <= forgotten'[q]  BY <2>1, <3>4
      <3> QED  BY <2>1, <3>1, <3>2, <3>5, <3>6 DEF Accounted, Remembers
    <2> QED  BY <1>t, <2>1, <2>2, <2>3 DEF RunsInv, CacheShape
  <1>11. CASE UNCHANGED bridgeVars
    BY <1>t, <1>11, OtherRuns DEF bridgeVars, Running, Accounted
  <1> QED
    BY <1>1, <1>2, <1>3, <1>4, <1>5, <1>6, <1>7, <1>8, <1>9, <1>10, <1>11 DEF BridgeNext

\* A request of the peer is run once, whatever arrives twice and whatever fails
\* when the answer is sent, unless Emery has forgotten it in between.
LEMMA PeerRequestsRunOnce == BridgeSpec => []RunsOnce
  <1>1. RunsInv => RunsOnce
    <2> SUFFICES ASSUME RunsInv, NEW p \in Theirs PROVE ran[p] <= 1 + forgotten[p]
      BY DEF RunsOnce
    <2>1. ran[p] \in Nat /\ forgotten[p] \in Nat /\ Accounted(p)  BY DEF RunsInv, CacheShape
    <2> QED  BY <2>1 DEF Accounted
  <1> QED  BY <1>1, RunsInitial, RunsSteps, PTL DEF BridgeSpec

-----------------------------------------------------------------------------
(* A turn that waits for the peer can be answered *)

LEMMA PrunedRoutesTyped ==
    ASSUME RoutesInv
    PROVE  /\ PrunedRoutes \in [Ours -> Ages]
           /\ \A i \in Ours : route[i] = "young" => PrunedRoutes[i] = "young"
  BY AgesOf DEF RoutesInv, AskedShape, PrunedRoutes

\* What one of Emery's requests must satisfy.
Waits(i) == outgoing[i].tool /\ outgoing[i].at \in {"sending", "waiting"} /\ ~outgoing[i].done

\* A step that asks: the new request has its route.
LEMMA SendsRoutes ==
    ASSUME RoutesInv, NEW i \in Ours, NEW tool \in BOOLEAN, SendsRequest(i, tool)
    PROVE  RoutesInv'
  <1>1. /\ route' = [PrunedRoutes EXCEPT ![i] = "young"]
        /\ outgoing' = [outgoing EXCEPT ![i] = [at |-> "sending", tool |-> tool, done |-> FALSE]]
    BY DEF SendsRequest, Registered
  <1>2. [at |-> "sending", tool |-> tool, done |-> FALSE] \in AskedRequest
    BY DEF AskedRequest
  <1>3. AskedShape'
    BY <1>1, <1>2, PrunedRoutesTyped, AgesOf DEF RoutesInv, AskedShape
  <1>4. ASSUME NEW j \in Ours, Waits(j)' PROVE route'[j] = "young"
    <2>1. CASE j = i  BY <1>1, <2>1, PrunedRoutesTyped
    <2>2. CASE j # i
      <3>1. outgoing'[j] = outgoing[j] /\ route'[j] = PrunedRoutes[j]
        BY <1>1, <2>2, PrunedRoutesTyped DEF RoutesInv, AskedShape
      <3>2. route[j] = "young"  BY <1>4, <3>1 DEF RoutesInv, WaitersRouted, Waits
      <3> QED  BY <3>1, <3>2, PrunedRoutesTyped
    <2> QED  BY <2>1, <2>2
  <1> QED  BY <1>3, <1>4 DEF RoutesInv, WaitersRouted, Waits

\* A step in which only one request changes: it stops waiting, or keeps its route.
LEMMA OneRequestRoutes ==
    ASSUME RoutesInv, NEW i \in Ours, NEW new \in AskedRequest, NEW age \in Ages,
           NEW R \in [Ours -> Ages],
           \A j \in Ours : route[j] = "young" => R[j] = "young",
           outgoing' = [outgoing EXCEPT ![i] = new], route' = [R EXCEPT ![i] = age],
           new.tool /\ new.at \in {"sending", "waiting"} /\ ~new.done => age = "young"
    PROVE  RoutesInv'
  <1>1. AskedShape'  BY DEF RoutesInv, AskedShape
  <1>2. ASSUME NEW j \in Ours, Waits(j)' PROVE route'[j] = "young"
    <2>1. CASE j = i
      <3>1. outgoing'[j] = new /\ route'[j] = age  BY <2>1 DEF RoutesInv, AskedShape
      <3> QED  BY <1>2, <3>1 DEF Waits
    <2>2. CASE j # i
      <3>1. outgoing'[j] = outgoing[j] /\ route'[j] = R[j]
        BY <2>2 DEF RoutesInv, AskedShape
      <3>2. route[j] = "young"  BY <1>2, <3>1 DEF RoutesInv, WaitersRouted, Waits
      <3> QED  BY <3>1, <3>2
    <2> QED  BY <2>1, <2>2
  <1> QED  BY <1>1, <1>2 DEF RoutesInv, WaitersRouted, Waits

\* A step that changes no request and takes no route from a waiting one.
LEMMA OtherRoutes ==
    ASSUME RoutesInv, UNCHANGED outgoing, route' \in [Ours -> Ages],
           \A j \in Ours : Waits(j) /\ route[j] = "young" => route'[j] = "young"
    PROVE  RoutesInv'
  BY DEF RoutesInv, AskedShape, WaitersRouted, Waits

\* The request i with another state.
With(i, at) == [at |-> at, tool |-> outgoing[i].tool, done |-> outgoing[i].done]
AskedStates == {"new", "typed", "sending", "waiting", "answered", "timed_out", "failed", "lost"}

LEMMA WithTyped ==
    ASSUME AskedShape, NEW i \in Ours, NEW at \in AskedStates
    PROVE  /\ With(i, at) \in AskedRequest
           /\ [outgoing EXCEPT ![i].at = at] = [outgoing EXCEPT ![i] = With(i, at)]
  <1>1. outgoing[i] \in AskedRequest  BY DEF AskedShape
  <1>2. With(i, at) \in AskedRequest  BY <1>1 DEF With, AskedRequest, AskedStates
  <1>3. [outgoing[i] EXCEPT !.at = at] = With(i, at)  BY <1>1 DEF With, AskedRequest
  <1> QED  BY <1>2, <1>3

\* A request that stops waiting, with or without its route.
LEMMA StopsRoutes ==
    ASSUME RoutesInv, NEW i \in Ours, NEW at \in {"typed", "answered", "timed_out", "failed"},
           outgoing' = [outgoing EXCEPT ![i].at = at],
           route' = route \/ route' = [route EXCEPT ![i] = "none"]
    PROVE  RoutesInv'
  <1>1. AskedShape /\ at \in AskedStates  BY DEF RoutesInv, AskedStates
  <1>2. /\ With(i, at) \in AskedRequest
        /\ outgoing' = [outgoing EXCEPT ![i] = With(i, at)]
    BY <1>1, WithTyped
  <1>3. With(i, at).at \notin {"sending", "waiting"}  BY DEF With
  <1>4. \E age \in Ages : route' = [route EXCEPT ![i] = age]
    BY <1>1, AgesOf DEF AskedShape
  <1>5. PICK age \in Ages : route' = [route EXCEPT ![i] = age]  BY <1>4
  <1>6. route \in [Ours -> Ages]  BY <1>1 DEF AskedShape
  <1> QED  BY <1>2, <1>3, <1>5, <1>6, OneRequestRoutes

\* Sending ends in waiting for the answer, in the answer or in failure.
LEMMA SendEndsRoutes ==
    ASSUME RoutesInv, NEW i \in Ours, SendEnds(i)
    PROVE  RoutesInv'
  <1>1. AskedShape /\ outgoing[i].at = "sending"  BY DEF RoutesInv, SendEnds
  <1>2. CASE outgoing' = [outgoing EXCEPT ![i].at = "failed"] /\ route' = [route EXCEPT ![i] = "none"]
    BY <1>2, StopsRoutes
  <1>3. CASE outgoing' = [outgoing EXCEPT ![i].at = "answered"] /\ route' = route
    BY <1>3, StopsRoutes
  <1>4. CASE ~outgoing[i].done /\ outgoing' = [outgoing EXCEPT ![i].at = "waiting"] /\ route' = route
    <2>1. /\ With(i, "waiting") \in AskedRequest
          /\ outgoing' = [outgoing EXCEPT ![i] = With(i, "waiting")]
      BY <1>1, <1>4, WithTyped DEF AskedStates
    <2>2. route \in [Ours -> Ages] /\ route[i] \in Ages /\ route' = [route EXCEPT ![i] = route[i]]
      BY <1>1, <1>4 DEF AskedShape
    <2>3. With(i, "waiting").tool => route[i] = "young"
      BY <1>1, <1>4 DEF With, RoutesInv, WaitersRouted
    <2> QED  BY <2>1, <2>2, <2>3, OneRequestRoutes
  <1> QED  BY <1>2, <1>3, <1>4 DEF SendEnds

LEMMA RoutesSteps == RoutesInv /\ [BridgeNext]_bridgeVars => RoutesInv'
  <1> SUFFICES ASSUME RoutesInv, [BridgeNext]_bridgeVars PROVE RoutesInv'
    OBVIOUS
  <1>t. /\ AskedShape /\ route \in [Ours -> Ages] /\ PrunedRoutes \in [Ours -> Ages]
        /\ \A j \in Ours : route[j] = "young" => PrunedRoutes[j] = "young"
    BY PrunedRoutesTyped DEF RoutesInv, AskedShape
  <1>1. ASSUME NEW i \in Ours, ToolAsks(i) PROVE RoutesInv'
    BY <1>1, SendsRoutes DEF ToolAsks
  <1>2. ASSUME NEW i \in Ours, ToolSent(i) \/ HumanSent(i) PROVE RoutesInv'
    BY <1>2, SendEndsRoutes DEF ToolSent, HumanSent
  <1>3. ASSUME NEW i \in Ours, ToolTimesOut(i) PROVE RoutesInv'
    BY <1>3, StopsRoutes DEF ToolTimesOut
  <1>4. ASSUME NEW i \in Ours, HumanAsks(i) PROVE RoutesInv'
    BY <1>4, SendsRoutes DEF HumanAsks
  <1>5. ASSUME NEW i \in Ours, ResponseComes(i) PROVE RoutesInv'
    <2>1. CASE route' = PrunedRoutes /\ outgoing' = outgoing
      BY <1>t, <2>1, OtherRoutes
    <2>2. CASE /\ route' = [PrunedRoutes EXCEPT ![i] = "none"]
               /\ outgoing' = [outgoing EXCEPT ![i] = [at |-> IF @.at = "waiting" THEN "answered" ELSE @.at,
                                                 tool |-> TRUE, done |-> TRUE]]
      <3> DEFINE at == IF outgoing[i].at = "waiting" THEN "answered" ELSE outgoing[i].at
                 new == [at |-> at, tool |-> TRUE, done |-> TRUE]
      <3>1. outgoing[i] \in AskedRequest  BY <1>t DEF AskedShape
      <3>2. new \in AskedRequest  BY <3>1 DEF AskedRequest
      <3>3. outgoing' = [outgoing EXCEPT ![i] = new]
        BY <1>t, <2>2 DEF AskedShape
      <3>4. new.done  OBVIOUS
      <3> HIDE DEF new
      <3> QED  BY <1>t, <2>2, <3>2, <3>3, <3>4, AgesOf, OneRequestRoutes
    <2> QED  BY <1>5, <2>1, <2>2 DEF ResponseComes
  <1>6. ASSUME NEW i \in Ours, Shown(i) PROVE RoutesInv'
    <2>1. CASE outgoing' = [outgoing EXCEPT ![i].at = "answered"] /\ route' = [route EXCEPT ![i] = "none"]
      BY <2>1, StopsRoutes
    <2>2. CASE UNCHANGED <<outgoing, route>>  BY <1>t, <2>2, OtherRoutes
    <2> QED  BY <1>6, <2>1, <2>2 DEF Shown
  <1>7. ASSUME NEW i \in Ours, UserTypes(i) PROVE RoutesInv'
    BY <1>7, StopsRoutes DEF UserTypes
  <1>8. ASSUME NEW p \in Theirs, RequestComes(p) PROVE RoutesInv'
    <2>1. route' = PrunedRoutes /\ outgoing' = outgoing  BY <1>8 DEF RequestComes
    <2> QED  BY <1>t, <2>1, OtherRoutes
  <1>9. ASSUME UNCHANGED <<outgoing, route>> PROVE RoutesInv'
    BY <1>9, <1>t, OtherRoutes
  <1>10. CASE TimePasses
    <2>1. PICK R \in SUBSET {i \in Ours : /\ route[i] = "young"
                                          /\ ~(outgoing[i].tool /\ outgoing[i].at \in {"sending", "waiting"})} :
             route' = [i \in Ours |-> IF i \in R THEN "old" ELSE route[i]]
      BY <1>10 DEF TimePasses
    <2>2. route' \in [Ours -> Ages]  BY <1>t, <2>1, AgesOf
    <2>3. \A j \in Ours : Waits(j) => j \notin R  BY DEF Waits
    <2>4. \A j \in Ours : Waits(j) /\ route[j] = "young" => route'[j] = "young"
      BY <2>1, <2>3
    <2>5. outgoing' = outgoing  BY <1>10 DEF TimePasses
    <2> QED  BY <2>2, <2>4, <2>5, OtherRoutes
  <1>11. CASE BridgeRestarts
    <2> DEFINE Lost(i) == [at |-> "lost", tool |-> outgoing[i].tool, done |-> outgoing[i].done]
    <2>1. /\ route' = [i \in Ours |-> "none"]
          /\ outgoing' = [i \in Ours |-> IF outgoing[i].at \in {"sending", "waiting"}
                                      THEN [outgoing[i] EXCEPT !.at = "lost"] ELSE outgoing[i]]
      BY <1>11 DEF BridgeRestarts
    <2>2. ASSUME NEW i \in Ours
          PROVE  /\ outgoing[i] \in AskedRequest /\ [outgoing[i] EXCEPT !.at = "lost"] = Lost(i)
                 /\ Lost(i) \in AskedRequest
      <3>1. outgoing[i] \in AskedRequest  BY <1>t DEF AskedShape
      <3>2. [outgoing[i] EXCEPT !.at = "lost"] = Lost(i)  BY <3>1 DEF AskedRequest
      <3>3. Lost(i) \in AskedRequest  BY <3>1 DEF AskedRequest
      <3> QED  BY <3>1, <3>2, <3>3
    <2>3. \A i \in Ours : Lost(i).at = "lost"  OBVIOUS
    <2> HIDE DEF Lost
    <2>4. outgoing' = [i \in Ours |-> IF outgoing[i].at \in {"sending", "waiting"} THEN Lost(i) ELSE outgoing[i]]
      BY <2>1, <2>2
    <2>5. AskedShape'  BY <2>1, <2>2, <2>4, AgesOf DEF AskedShape
    <2>6. \A j \in Ours : ~Waits(j)'  BY <2>3, <2>4 DEF Waits
    <2> QED  BY <2>5, <2>6 DEF RoutesInv, WaitersRouted, Waits
  <1>12. ASSUME NEW p \in Theirs, EngineAnswers(p) \/ ReplyEnds(p) PROVE RoutesInv'
    BY <1>9, <1>12 DEF EngineAnswers, ReplyEnds
  <1>13. ASSUME NEW u \in Update, PeerSends(u) PROVE RoutesInv'
    BY <1>9, <1>13 DEF PeerSends
  <1>14. CASE UNCHANGED bridgeVars  BY <1>9, <1>14 DEF bridgeVars
  <1> QED
    BY <1>1, <1>2, <1>3, <1>4, <1>5, <1>6, <1>7, <1>8, <1>10, <1>11, <1>12, <1>13, <1>14
       DEF BridgeNext

\* Whenever a turn waits for the peer there is a route by which the response
\* finds it, from before the request can be answered until it is.
LEMMA WaitersAreRouted == BridgeSpec => []WaitersRouted
  <1>1. BridgeInit => RoutesInv
    <2> SUFFICES ASSUME BridgeInit PROVE RoutesInv
      OBVIOUS
    <2>1. AskedShape  BY AgesOf DEF BridgeInit, AskedShape, AskedRequest
    <2>2. WaitersRouted  BY DEF BridgeInit, WaitersRouted
    <2> QED  BY <2>1, <2>2 DEF RoutesInv
  <1>2. RoutesInv => WaitersRouted  BY DEF RoutesInv
  <1> QED  BY <1>1, <1>2, RoutesSteps, PTL DEF BridgeSpec

\* Both of them: no request of the peer is run again, and no answer of the peer
\* goes astray while a turn waits for it.
THEOREM BridgeHeld == BridgeSpec => []BridgeSound
  <1>1. RunsOnce /\ WaitersRouted => BridgeSound  BY DEF BridgeSound
  <1> QED  BY <1>1, PeerRequestsRunOnce, WaitersAreRouted, PTL
=============================================================================
