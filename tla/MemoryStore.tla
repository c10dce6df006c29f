---------------------------- MODULE MemoryStore ----------------------------
(* The durable memories of Emery (emery/memory.py): facts that the tool        *)
(* save_user_memory adds, topics that a summary adds, the background task that *)
(* gives each its embedding, and /wipe.  The file is written whole under a     *)
(* lock; the task lets go of the lock while it waits for the embeddings.       *)
EXTENDS Naturals, FiniteSets

CONSTANTS
    Users,              \* who memories belong to
    Texts,              \* what is remembered
    FactScope,          \* what a fact is about: the cameras, the household or its owner
    MaxMemories,        \* bound: ids given
    MaxWipes,           \* bound: wipes
    MaxMemoryRestarts   \* bound: restarts

ASSUME MemoryAssumption ==
    /\ FactScope \in [Texts -> {"system", "shared_household", "private"}]
    /\ MaxMemories \in Nat /\ MaxWipes \in Nat /\ MaxMemoryRestarts \in Nat

VARIABLES
    memories,           \* the items of the file, whose order is the one of their ids
    nextMemory,         \* next_id of the file
    due,                \* consolidations that were created and have not begun
    consolidation,      \* the one under way: items it has yet to embed, embeddings it has
    promised,           \* history: what was stored and not wiped since
    wipes, memoryRestarts

memoryVars == <<memories, nextMemory, due, consolidation, promised, wipes, memoryRestarts>>

Nobody == "nobody"
NoText == "none"
NotConsolidating == [running |-> FALSE, first |-> {}, targets |-> {}, resolved |-> <<>>]

KeyOf(item) == [owner |-> item.owner, kind |-> item.kind, scope |-> item.scope, text |-> item.text]

Embedded(items, vectors) ==
    {IF item.id \in DOMAIN vectors THEN [item EXCEPT !.embedding = vectors[item.id]] ELSE item : item \in items}

\* One that is known is not stored again; a topic is known by its tags, too.
Stored(items, id, key, othertags) ==
    IF ~othertags /\ \E item \in items : KeyOf(item) = key THEN items
    ELSE items \cup {[id |-> id, owner |-> key.owner, kind |-> key.kind, scope |-> key.scope,
                      text |-> key.text, embedding |-> NoText]}

MemoryInit ==
    /\ memories = {} /\ nextMemory = 1 /\ due = 0 /\ consolidation = NotConsolidating
    /\ promised = {} /\ wipes = 0 /\ memoryRestarts = 0

-----------------------------------------------------------------------------
\* Seeded fault: an item is numbered by its place.
NextMemory_Place(items) == Cardinality(items) + 1
\* Every store takes an id, also when the item turns out to be known, and no id comes back.
NextMemory(items) == nextMemory + 1

StoreItem(key, othertags) ==
    /\ nextMemory <= MaxMemories
    /\ memories' = Stored(memories, nextMemory, key, othertags)
    /\ nextMemory' = NextMemory(memories')
    /\ promised' = promised \cup {key}
    /\ due' = due + 1
    /\ UNCHANGED <<consolidation, wipes, memoryRestarts>>

SaveUserMemory(u, text) ==
    StoreItem([owner |-> u, kind |-> "fact", scope |-> FactScope[text], text |-> text], FALSE)

TopicKey(u, class, text) ==
    [owner |-> IF class = "group" THEN Nobody ELSE u, kind |-> "topic", text |-> text,
     scope |-> CASE class = "group" -> "group_context" [] class = "household" -> "shared_household" [] OTHER -> "private"]

StoreTopicMemory(u, text) ==
    \E class \in {"private", "household", "group"}, othertags \in BOOLEAN :
        StoreItem(TopicKey(u, class, text), othertags)

\* Seeded fault: a wipe takes the topics of the groups along.
WipedOf_All(items, u) == {item \in items : item.owner # u /\ item.scope # "group_context"}
WipedOf(items, u) == {item \in items : item.owner # u \/ item.scope = "group_context"}

WipeMemory(u) ==
    /\ wipes < MaxWipes
    /\ wipes' = wipes + 1
    /\ memories' = WipedOf(memories, u)
    /\ promised' = {key \in promised : key.owner # u \/ key.scope = "group_context"}
    /\ UNCHANGED <<nextMemory, due, consolidation, memoryRestarts>>

-----------------------------------------------------------------------------
Targets(items) == {item \in items : item.embedding = NoText}

\* A task that finds another one running, or its chat temporary, returns: what
\* was saved meanwhile waits for the next save.
ConsolidationSkipped ==
    /\ due > 0
    /\ due' = due - 1
    /\ UNCHANGED <<memories, nextMemory, consolidation, promised, wipes, memoryRestarts>>

ConsolidationStarts ==
    /\ due > 0 /\ ~consolidation.running
    /\ due' = due - 1
    /\ consolidation' =
        IF Targets(memories) = {} THEN NotConsolidating
        ELSE [running |-> TRUE, first |-> memories, targets |-> Targets(memories), resolved |-> <<>>]
    /\ UNCHANGED <<memories, nextMemory, promised, wipes, memoryRestarts>>

Resolved(vectors, id, vector) ==
    IF vector = NoText THEN vectors
    ELSE [k \in DOMAIN vectors \cup {id} |-> IF k = id THEN vector ELSE vectors[k]]

\* The service answers for the next text, or has no answer.
TextEmbedded ==
    /\ \E target \in consolidation.targets :
        /\ \A other \in consolidation.targets : target.id <= other.id
        /\ \E vector \in {target.text, NoText} :
            consolidation' = [consolidation EXCEPT !.targets = @ \ {target},
                                                   !.resolved = Resolved(@, target.id, vector)]
    /\ UNCHANGED <<memories, nextMemory, due, promised, wipes, memoryRestarts>>

\* Seeded fault: what is written is the file as the task read it first.
Reread_First(first) == first
\* The file is read again: what was stored and wiped meanwhile stays so.
Reread(first) == memories

ConsolidationEnds ==
    /\ consolidation.running /\ consolidation.targets = {}
    /\ memories' = Embedded(Reread(consolidation.first), consolidation.resolved)
    /\ consolidation' = NotConsolidating
    /\ UNCHANGED <<nextMemory, due, promised, wipes, memoryRestarts>>

MemoryRestarts ==
    /\ memoryRestarts < MaxMemoryRestarts
    /\ memoryRestarts' = memoryRestarts + 1
    /\ due' = 0 /\ consolidation' = NotConsolidating
    /\ UNCHANGED <<memories, nextMemory, promised, wipes>>

MemoryNext ==
    \/ \E u \in Users, text \in Texts : SaveUserMemory(u, text) \/ StoreTopicMemory(u, text)
    \/ \E u \in Users : WipeMemory(u)
    \/ ConsolidationSkipped \/ ConsolidationStarts \/ TextEmbedded \/ ConsolidationEnds
    \/ MemoryRestarts

MemorySpec == MemoryInit /\ [][MemoryNext]_memoryVars

-----------------------------------------------------------------------------
\* Seeded fault: in a group the users are recalled what they own, too.
Recalled_Own(u, group, about) ==
    {item \in memories : item.owner = u \/ item.scope \in {"system", "group_context"}}
\* What may be recalled for a user, by the chat, the topics that were summed up here and
\* what the question mentions.
Recalled(u, group, about) ==
    {item \in memories :
        IF item.scope = "group_context" THEN item.id \in about.here
        ELSE IF group THEN item.scope = "system"
        ELSE \/ item.owner = u
             \/ about.household /\ item.scope = "shared_household"
             \/ item.owner = about.secondary}

-----------------------------------------------------------------------------
(* Properties *)

\* What the file holds is what was stored and not wiped since, whatever the task in the background
\* read before and writes after; every item has an id of its own and no embedding but its text's.  And
\* what a group is reminded of belongs to nobody: the cameras and the topics of groups.
MemorySound ==
    /\ {KeyOf(item) : item \in memories} = promised
    /\ \A m, n \in memories : m # n => m.id # n.id
    /\ \A item \in memories : item.embedding \in {NoText, item.text}
    /\ \A u \in Users :
        LET about == [here |-> 1..nextMemory, household |-> TRUE, secondary |-> u] IN
        \A item \in Recalled(u, TRUE, about) : item.scope # "system" => item.kind = "topic" /\ item.owner = Nobody
=============================================================================
