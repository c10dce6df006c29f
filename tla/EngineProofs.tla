---------------------------- MODULE EngineProofs ----------------------------
(***************************************************************************)
(* Theorems about the turns of a chat (TurnSteering), the streams of a     *)
(* turn (ModelStream) and the tool calls of turns (ToolTurn), for every    *)
(* number of messages, of passes, of chunks, of messages that may wait,    *)
(* of turns, and every limit on what is remembered and called.             *)
(***************************************************************************)
EXTENDS TurnSteering, ModelStream, ToolTurn, DataLemmas, SequenceTheorems, FiniteSetTheorems, TLAPS

(* Steering *)

Ordered(s) == \A i, k \in DOMAIN s : i < k => s[i] < s[k]
Steered(r) == r.applied \o r.pending
InQueue(m, q) == \E i \in DOMAIN q : q[i] = m
Ended == {"final", "deliver", "done"}
Placed == {"pending", "late", "applied"}

\* What a turn is by itself: it takes messages until it leaves the engine, fails by leaving it,
\* and has its steering messages in the order in which they came.
SoundTurn(r) ==
    /\ r \in Turn
    /\ r.accepting => r.at \notin {"deliver", "done"}
    /\ r.failed => r.at \in {"deliver", "done"}
    /\ r.attempts = 2 => r.at = "final"
    /\ Ordered(Steered(r))

\* A message that waits is in the queue of a turn that has not ended, unless the turn failed.
WaitsIn(m, r) == r.at # "none" /\ (r.failed \/ (r.at \notin Ended /\ InQueue(m, r.pending)))

TurnShape ==
    /\ msg \in [Messages -> Message] /\ sent \in 0..MaxMessages
    /\ active \in Messages \cup {NoTurn} /\ turn \in [Messages -> Turn]
\* Messages are handled one after the other.
Arrived ==
    \A m \in Messages : /\ msg[m].at = "unsent" <=> m > sent
                        /\ msg[m].at = "preparing" => m = sent
\* The queues hold what was accepted.
Entries == \A t \in Messages : \A i \in DOMAIN Steered(turn[t]) : msg[Steered(turn[t])[i]].at \in Placed
Waiting == \A m \in Messages : msg[m].at = "pending" => msg[m].turn \in Messages /\ WaitsIn(m, turn[msg[m].turn])
\* A turn belongs to the message it was started for.
Asked ==
    /\ \A t \in Messages : turn[t].at # "none" => msg[t].at = "asked"
    /\ active # NoTurn => turn[active].at # "none"
HoldsModel ==
    /\ modelLock \in Messages \cup {NoTurn, Other}
    /\ \A t \in Messages : turn[t].at = "request" => modelLock = t

TurnInv ==
    /\ TurnShape /\ (\A t \in Messages : SoundTurn(turn[t]))
    /\ Arrived /\ Entries /\ Waiting /\ Asked /\ HoldsModel

LEMMA SteeredType == ASSUME NEW r \in Turn PROVE Steered(r) \in Seq(Messages)
  BY DEF Steered, Turn

LEMMA AppendLast ==
    ASSUME NEW s \in Seq(Messages), NEW q \in Seq(Messages), NEW m \in Messages
    PROVE  s \o Append(q, m) = Append(s \o q, m)
  <1>1. s \o q \in Seq(Messages) /\ <<m>> \in Seq(Messages)  OBVIOUS
  <1>2. Append(q, m) = q \o <<m>>  BY AppendIsConcat
  <1>3. Append(s \o q, m) = (s \o q) \o <<m>>  BY <1>1, AppendIsConcat
  <1>4. (s \o q) \o <<m>> = s \o (q \o <<m>>)  BY <1>1, ConcatAssociative
  <1> QED  BY <1>2, <1>3, <1>4

LEMMA InSecond ==
    ASSUME NEW s \in Seq(Messages), NEW q \in Seq(Messages), NEW i \in DOMAIN q
    PROVE  \E n \in DOMAIN (s \o q) : (s \o q)[n] = q[i]
  <1>1. Len(s) \in Nat /\ Len(q) \in Nat /\ i \in 1..Len(q)  OBVIOUS
  <1>2. Len(s) + i \in 1..(Len(s) + Len(q))  BY <1>1
  <1>3. s \o q \in Seq(Messages) /\ DOMAIN (s \o q) = 1..(Len(s) + Len(q))  OBVIOUS
  <1>4. (s \o q)[Len(s) + i] = q[i]  BY <1>1, <1>2
  <1> QED  BY <1>2, <1>3, <1>4

LEMMA AppendOrdered ==
    ASSUME NEW s \in Seq(Messages), NEW m \in Messages, Ordered(s), \A i \in DOMAIN s : s[i] < m
    PROVE  Ordered(Append(s, m))
  <1> SUFFICES ASSUME NEW i \in DOMAIN Append(s, m), NEW k \in DOMAIN Append(s, m), i < k
               PROVE  Append(s, m)[i] < Append(s, m)[k]
    BY DEF Ordered
  <1>1. Len(Append(s, m)) = Len(s) + 1 /\ DOMAIN Append(s, m) = 1..(Len(s) + 1) /\ DOMAIN s = 1..Len(s) /\ Len(s) \in Nat
    OBVIOUS
  <1>2. i \in DOMAIN s /\ Append(s, m)[i] = s[i]  BY <1>1
  <1>3. CASE k \in DOMAIN s
    <2>1. Append(s, m)[k] = s[k]  BY <1>1, <1>3
    <2> QED  BY <1>2, <1>3, <2>1 DEF Ordered
  <1>4. CASE k \notin DOMAIN s
    <2>1. k = Len(s) + 1 /\ Append(s, m)[k] = m  BY <1>1, <1>4
    <2> QED  BY <1>2, <2>1
  <1> QED  BY <1>3, <1>4

LEMMA FreshTyped ==
    ASSUME NEW at \in {"none", "begin", "deliver"}
    PROVE  FreshTurn(at) \in Turn
  BY TurnAssumption DEF FreshTurn, Turn

LEMMA FreshSound ==
    ASSUME NEW at \in {"none", "begin"}
    PROVE  SoundTurn(FreshTurn(at)) /\ Steered(FreshTurn(at)) = <<>>
  <1>1. FreshTurn(at) \in Turn  BY FreshTyped
  <1>2. Steered(FreshTurn(at)) = <<>>  BY DEF FreshTurn, Steered
  <1>3. Ordered(Steered(FreshTurn(at)))  BY <1>2 DEF Ordered
  <1> QED  BY <1>1, <1>2, <1>3 DEF SoundTurn, FreshTurn

LEMMA TurnInitial == TurnInit => TurnInv
  <1> SUFFICES ASSUME TurnInit PROVE TurnInv
    OBVIOUS
  <1>1. ASSUME NEW t \in Messages PROVE turn[t] = FreshTurn("none") /\ SoundTurn(turn[t]) /\ Steered(turn[t]) = <<>>
    BY FreshSound DEF TurnInit
  <1>2. turn \in [Messages -> Turn]  BY <1>1 DEF TurnInit, SoundTurn
  <1>3. TurnShape  BY <1>2, TurnAssumption DEF TurnInit, TurnShape, Message
  <1>4. Arrived  BY DEF TurnInit, Arrived, Messages
  <1>5. Entries /\ Waiting  BY <1>1 DEF TurnInit, Entries, Waiting
  <1>6. Asked /\ HoldsModel  BY <1>1 DEF TurnInit, Asked, HoldsModel, FreshTurn
  <1> QED  BY <1>1, <1>3, <1>4, <1>5, <1>6 DEF TurnInv

\* What a message may become while a turn moves on: nothing else, or taken in.
Taking == \A m \in Messages : \/ msg'[m] = msg[m]
                              \/ msg[m].at \in Placed /\ msg'[m] = [msg[m] EXCEPT !.at = "applied"]

\* A step of one turn.
LEMMA OneTurnMoves ==
    ASSUME TurnInv, NEW t \in Messages, NEW r, SoundTurn(r), turn' = [turn EXCEPT ![t] = r],
           turn[t].at # "none", r.at # "none", sent' = sent, msg' \in [Messages -> Message], Taking,
           active' \in {active, t, NoTurn},
           \A i \in DOMAIN Steered(r) : msg'[Steered(r)[i]].at \in Placed,
           \A m \in Messages : msg'[m].at = "pending" /\ msg[m].turn = t /\ WaitsIn(m, turn[t]) => WaitsIn(m, r),
           HoldsModel'
    PROVE  TurnInv'
  <1>1. turn \in [Messages -> Turn] /\ r \in Turn /\ msg \in [Messages -> Message] /\ sent \in 0..MaxMessages
        /\ active \in Messages \cup {NoTurn}
    BY DEF TurnInv, TurnShape, SoundTurn
  <1>2. TurnShape'  BY <1>1 DEF TurnShape
  <1>3. turn'[t] = r /\ \A u \in Messages \ {t} : turn'[u] = turn[u]  BY <1>1
  <1>4. \A u \in Messages : SoundTurn(turn'[u])  BY <1>3 DEF TurnInv
  <1>5. \A m \in Messages : /\ msg'[m].turn = msg[m].turn
                            /\ msg'[m].at = msg[m].at \/ (msg[m].at \in Placed /\ msg'[m].at = "applied")
    BY <1>1 DEF Taking, Message
  <1>6. Arrived'
    BY <1>5 DEF TurnInv, Arrived, Placed
  <1>7. Entries'
    <2> SUFFICES ASSUME NEW u \in Messages, NEW i \in DOMAIN Steered(turn'[u]) PROVE msg'[Steered(turn'[u])[i]].at \in Placed
      BY DEF Entries
    <2>1. CASE u = t  BY <1>3, <2>1
    <2>2. CASE u # t
      <3>1. turn'[u] = turn[u] /\ msg[Steered(turn[u])[i]].at \in Placed  BY <1>3, <2>2 DEF TurnInv, Entries
      <3>2. Steered(turn[u]) \in Seq(Messages)  BY <1>1, SteeredType
      <3>3. Steered(turn[u])[i] \in Messages  BY <3>1, <3>2
      <3> QED  BY <1>5, <3>1, <3>3 DEF Placed
    <2> QED  BY <2>1, <2>2
  <1>8. Waiting'
    <2> SUFFICES ASSUME NEW m \in Messages, msg'[m].at = "pending"
                 PROVE  msg'[m].turn \in Messages /\ WaitsIn(m, turn'[msg'[m].turn])
      BY DEF Waiting
    <2>1. msg[m].at = "pending" /\ msg'[m].turn = msg[m].turn  BY <1>5
    <2>2. msg[m].turn \in Messages /\ WaitsIn(m, turn[msg[m].turn])  BY <2>1 DEF TurnInv, Waiting
    <2>3. CASE msg[m].turn = t  BY <1>3, <2>1, <2>2, <2>3
    <2>4. CASE msg[m].turn # t  BY <1>3, <2>1, <2>2, <2>4
    <2> QED  BY <2>3, <2>4
  <1>9. Asked'
    <2>1. \A u \in Messages : msg[u].at = "asked" => msg'[u].at = "asked"  BY <1>5 DEF Placed
    <2>2. \A u \in Messages : turn'[u].at # "none" => turn[u].at # "none"  BY <1>3
    <2>3. \A u \in Messages : turn'[u].at # "none" => msg'[u].at = "asked"  BY <2>1, <2>2 DEF TurnInv, Asked
    <2>4. active' # NoTurn => turn'[active'].at # "none"  BY <1>1, <1>3 DEF TurnInv, Asked
    <2> QED  BY <2>3, <2>4 DEF Asked
  <1> QED  BY <1>2, <1>4, <1>6, <1>7, <1>8, <1>9 DEF TurnInv


-----------------------------------------------------------------------------
LEMMA ReceiveStep == ASSUME TurnInv, Receive PROVE TurnInv'
  <1> DEFINE n == sent + 1
  <1>0. sent \in 0..MaxMessages /\ sent < MaxMessages  BY DEF Receive, TurnInv, TurnShape
  <1>1. n \in Messages /\ sent' = n /\ msg' = [msg EXCEPT ![n].at = "preparing"] /\ UNCHANGED <<active, turn, modelLock>>
    BY <1>0, TurnAssumption DEF Receive, Messages
  <1>2. TurnShape'  BY <1>1 DEF TurnInv, TurnShape, Message, Messages
  <1>3. msg'[n].at = "preparing" /\ msg[n].at = "unsent" /\ \A m \in Messages \ {n} : msg'[m] = msg[m]
    BY <1>1 DEF TurnInv, TurnShape, Message, Arrived, Messages
  <1>4. \A t \in Messages : SoundTurn(turn'[t])  BY <1>1 DEF TurnInv
  <1>5. Arrived'
    BY <1>1, <1>3 DEF TurnInv, TurnShape, Arrived, Receive, UpdatesFree, Messages
  <1>6. Entries'
    <2> SUFFICES ASSUME NEW t \in Messages, NEW i \in DOMAIN Steered(turn[t]) PROVE msg'[Steered(turn[t])[i]].at \in Placed
      BY <1>1 DEF Entries
    <2>1. msg[Steered(turn[t])[i]].at \in Placed  BY DEF TurnInv, Entries
    <2>2. Steered(turn[t]) \in Seq(Messages)  BY SteeredType DEF TurnInv, TurnShape
    <2>3. Steered(turn[t])[i] \in Messages  BY <2>2
    <2> QED  BY <1>3, <2>1, <2>3 DEF Placed
  <1>7. Waiting'  BY <1>1, <1>3 DEF TurnInv, Waiting
  <1>8. Asked' /\ HoldsModel'  BY <1>1, <1>3 DEF TurnInv, Asked, HoldsModel
  <1> QED  BY <1>2, <1>4, <1>5, <1>6, <1>7, <1>8 DEF TurnInv

\* A message is refused, joins the queue of the turn, or starts a turn of its own.
LEMMA HandleStep == ASSUME TurnInv, NEW m \in Messages, Handle(m) PROVE TurnInv'
  <1>1. msg[m].at = "preparing" /\ m = sent /\ turn[m].at = "none" /\ UNCHANGED <<sent, active, modelLock>>
    BY DEF Handle, TurnInv, Arrived, Asked
  <1>2. msg \in [Messages -> Message] /\ turn \in [Messages -> Turn] /\ sent \in 0..MaxMessages /\ active \in Messages \cup {NoTurn}
    BY DEF TurnInv, TurnShape
  <1>3. ASSUME NEW t \in Messages, NEW i \in DOMAIN Steered(turn[t])
        PROVE  /\ Steered(turn[t])[i] \in Messages \ {m} /\ Steered(turn[t])[i] < m
               /\ msg[Steered(turn[t])[i]].at \in Placed
    <2>1. Steered(turn[t]) \in Seq(Messages)  BY <1>2, SteeredType
    <2>2. Steered(turn[t])[i] \in Messages  BY <2>1
    <2>3. msg[Steered(turn[t])[i]].at \in Placed  BY DEF TurnInv, Entries
    <2>4. Steered(turn[t])[i] <= sent /\ Steered(turn[t])[i] # m
      BY <1>1, <1>2, <2>2, <2>3 DEF TurnInv, Arrived, Placed, Messages
    <2> QED  BY <1>1, <2>2, <2>3, <2>4 DEF Messages
  <1>4. CASE msg' = [msg EXCEPT ![m].at = "busy"] /\ UNCHANGED turn
    <2>1. msg' \in [Messages -> Message] /\ msg'[m].at = "busy" /\ \A k \in Messages \ {m} : msg'[k] = msg[k]
      BY <1>2, <1>4 DEF Message
    <2>2. TurnShape'  BY <1>1, <1>2, <1>4, <2>1 DEF TurnShape
    <2>3. Arrived'  BY <1>1, <2>1 DEF TurnInv, Arrived
    <2>4. Entries'  BY <1>3, <1>4, <2>1 DEF Entries
    <2>5. Waiting'  BY <1>4, <2>1 DEF TurnInv, Waiting
    <2>6. Asked' /\ HoldsModel'  BY <1>1, <1>4, <2>1 DEF TurnInv, Asked, HoldsModel
    <2> QED  BY <1>4, <2>2, <2>3, <2>4, <2>5, <2>6 DEF TurnInv
  <1>5. CASE /\ Steerable /\ Len(turn[active].pending) < MaxPending
             /\ turn' = [turn EXCEPT ![active].pending = Append(@, m)]
             /\ msg' = [msg EXCEPT ![m] = [at |-> IF turn[active].at = "final" THEN "late" ELSE "pending", turn |-> active]]
    <2> DEFINE a == active
               r == [turn[active] EXCEPT !.pending = Append(turn[active].pending, m)]
    <2>1. a \in Messages /\ turn[a] \in Turn /\ SoundTurn(turn[a]) /\ turn[a].accepting /\ turn[a].at \notin {"none", "deliver", "done"}
      BY <1>2, <1>5 DEF Steerable, TurnInv, Asked, SoundTurn
    <2>2a. turn[a].pending \in Seq(Messages) /\ turn[a].applied \in Seq(Messages)  BY <2>1 DEF Turn
    <2>2b. Append(turn[a].pending, m) \in Seq(Messages)  BY <2>2a
    <2>2. turn' = [turn EXCEPT ![a] = r] /\ r \in Turn /\ r.at = turn[a].at /\ r.failed = turn[a].failed
      <3>1. turn' = [turn EXCEPT ![a] = r]  BY <1>2, <1>5, <2>1
      <3>2. r \in Turn  BY <2>1, <2>2b DEF Turn
      <3>3. r.at = turn[a].at /\ r.failed = turn[a].failed  BY <2>1 DEF Turn
      <3> QED  BY <3>1, <3>2, <3>3
    <2>3. Steered(r) = Append(Steered(turn[a]), m)
      <3>1. r.applied = turn[a].applied /\ r.pending = Append(turn[a].pending, m)  BY <2>1 DEF Turn
      <3>2. turn[a].applied \o Append(turn[a].pending, m) = Append(turn[a].applied \o turn[a].pending, m)
        BY <2>2a, AppendLast
      <3> QED  BY <3>1, <3>2 DEF Steered
    <2>4. Ordered(Steered(r))
      BY <1>3, <2>1, <2>3, SteeredType, AppendOrdered DEF SoundTurn
    <2>5. SoundTurn(r)  BY <2>1, <2>2, <2>4 DEF SoundTurn, Turn
    <2>6. turn'[a] = r /\ \A u \in Messages \ {a} : turn'[u] = turn[u]  BY <1>2, <2>1, <2>2
    <2>7. msg' \in [Messages -> Message] /\ msg'[m].at \in {"late", "pending"} /\ msg'[m].turn = a
          /\ (msg'[m].at = "pending" => turn[a].at # "final") /\ \A k \in Messages \ {m} : msg'[k] = msg[k]
      BY <1>2, <1>5, <2>1 DEF Message
    <2> HIDE DEF a, r
    <2>8. TurnShape'  BY <1>1, <1>2, <2>1, <2>2, <2>7 DEF TurnShape
    <2>9. Arrived'  BY <1>1, <2>7 DEF TurnInv, Arrived
    <2>10. Entries'
      <3> SUFFICES ASSUME NEW t \in Messages, NEW i \in DOMAIN Steered(turn'[t]) PROVE msg'[Steered(turn'[t])[i]].at \in Placed
        BY DEF Entries
      <3>1. CASE t # a
        <4>1. turn'[t] = turn[t]  BY <2>6, <3>1
        <4> QED  BY <1>3, <2>7, <4>1
      <3>2. CASE t = a
        <4>1. Steered(turn[a]) \in Seq(Messages)  BY <2>1, SteeredType
        <4>2. Steered(turn'[t])[i] = m \/ (i \in DOMAIN Steered(turn[a]) /\ Steered(turn'[t])[i] = Steered(turn[a])[i])
          BY <2>3, <2>6, <3>2, <4>1
        <4> QED  BY <1>3, <2>1, <2>7, <4>2 DEF Placed
      <3> QED  BY <3>1, <3>2
    <2>11. InQueue(m, r.pending) /\ \A k \in Messages : InQueue(k, turn[a].pending) => InQueue(k, r.pending)
      <3>1. turn[a].pending \in Seq(Messages) /\ r.pending = Append(turn[a].pending, m)
        BY <2>1 DEF Turn, r, a
      <3> QED  BY <3>1 DEF InQueue
    <2>12. Waiting'
      <3> SUFFICES ASSUME NEW k \in Messages, msg'[k].at = "pending"
                   PROVE  msg'[k].turn \in Messages /\ WaitsIn(k, turn'[msg'[k].turn])
        BY DEF Waiting
      <3>1. CASE k = m
        BY <2>1, <2>2, <2>6, <2>7, <2>11, <3>1 DEF WaitsIn, Ended
      <3>2. CASE k # m
        <4>1. msg[k].turn \in Messages /\ WaitsIn(k, turn[msg[k].turn]) /\ msg'[k] = msg[k]
          BY <2>7, <3>2 DEF TurnInv, Waiting
        <4> QED  BY <2>2, <2>6, <2>11, <4>1 DEF WaitsIn
      <3> QED  BY <3>1, <3>2
    <2>13. Asked' /\ HoldsModel'
      BY <1>1, <2>1, <2>2, <2>6, <2>7 DEF TurnInv, Asked, HoldsModel
    <2> QED  BY <2>5, <2>6, <2>8, <2>9, <2>10, <2>12, <2>13 DEF TurnInv
  <1>6. CASE /\ turn' = [turn EXCEPT ![m] = FreshTurn("begin")]
             /\ msg' = [msg EXCEPT ![m] = [at |-> "asked", turn |-> m]]
    <2> DEFINE r == FreshTurn("begin")
    <2>1. SoundTurn(r) /\ Steered(r) = <<>> /\ r.at = "begin"  BY FreshSound DEF FreshTurn
    <2> HIDE DEF r
    <2>2. turn'[m] = r /\ \A u \in Messages \ {m} : turn'[u] = turn[u]  BY <1>2, <1>6 DEF r
    <2>3. msg' \in [Messages -> Message] /\ msg'[m].at = "asked" /\ msg'[m].turn = m /\ \A k \in Messages \ {m} : msg'[k] = msg[k]
      BY <1>2, <1>6 DEF Message
    <2>4. turn' \in [Messages -> Turn]  BY <1>2, <1>6, <2>1 DEF r, SoundTurn
    <2>5. TurnShape'  BY <1>1, <1>2, <2>3, <2>4 DEF TurnShape
    <2>6. Arrived'  BY <1>1, <2>3 DEF TurnInv, Arrived
    <2>7. Entries'
      <3> SUFFICES ASSUME NEW t \in Messages, NEW i \in DOMAIN Steered(turn'[t]) PROVE msg'[Steered(turn'[t])[i]].at \in Placed
        BY DEF Entries
      <3>1. turn'[t] = turn[t]  BY <2>1, <2>2
      <3> QED  BY <1>3, <2>3, <3>1
    <2>8. Waiting'
      <3> SUFFICES ASSUME NEW k \in Messages, msg'[k].at = "pending"
                   PROVE  msg'[k].turn \in Messages /\ WaitsIn(k, turn'[msg'[k].turn])
        BY DEF Waiting
      <3>1. k # m  BY <2>3
      <3>2. msg[k].turn \in Messages /\ WaitsIn(k, turn[msg[k].turn]) /\ msg'[k] = msg[k]
        BY <2>3, <3>1 DEF TurnInv, Waiting
      <3>3. msg[k].turn # m  BY <1>1, <3>2 DEF WaitsIn
      <3> QED  BY <2>2, <3>2, <3>3
    <2>9. Asked' /\ HoldsModel'
      BY <1>1, <1>2, <2>1, <2>2, <2>3 DEF TurnInv, Asked, HoldsModel
    <2> QED  BY <2>1, <2>2, <2>5, <2>6, <2>7, <2>8, <2>9 DEF TurnInv
  <1> QED  BY <1>4, <1>5, <1>6 DEF Handle

\* A step of one turn that leaves its queue alone.
LEMMA QueueKept ==
    ASSUME TurnInv, NEW t \in Messages, NEW r, r \in Turn, turn' = [turn EXCEPT ![t] = r],
           turn[t].at # "none", r.at \notin {"none", "deliver", "done"}, UNCHANGED <<msg, sent>>, active' \in {active, t},
           r.applied = turn[t].applied, r.pending = turn[t].pending, r.failed = turn[t].failed, ~r.failed,
           r.at = "final" => r.pending = <<>>, r.attempts = 2 => r.at = "final", HoldsModel'
    PROVE  TurnInv'
  <1>1. turn \in [Messages -> Turn] /\ msg \in [Messages -> Message] /\ SoundTurn(turn[t])  BY DEF TurnInv, TurnShape
  <1>2. Steered(r) = Steered(turn[t])  BY DEF Steered
  <1>3. SoundTurn(r)  BY <1>1, <1>2 DEF SoundTurn
  <1>4. \A i \in DOMAIN Steered(r) : msg'[Steered(r)[i]].at \in Placed  BY <1>2 DEF TurnInv, Entries
  <1>5. ASSUME NEW m \in Messages, WaitsIn(m, turn[t]) PROVE WaitsIn(m, r)
    <2>1. InQueue(m, r.pending)  BY <1>5 DEF WaitsIn
    <2>2. r.pending # <<>>  BY <2>1 DEF InQueue
    <2> QED  BY <2>1, <2>2 DEF WaitsIn, Ended
  <1>6. Taking  BY DEF Taking
  <1> QED  BY <1>1, <1>3, <1>4, <1>5, <1>6, OneTurnMoves

\* A turn that leaves the engine loses its queue: it failed, or nothing was left in it that waits.
LEMMA LeavesStep ==
    ASSUME TurnInv, NEW t \in Messages, NEW isFailed \in BOOLEAN, Leaves(t, isFailed),
           turn[t].at # "none", isFailed \/ turn[t].at = "final", UNCHANGED <<msg, sent>>, HoldsModel'
    PROVE  TurnInv'
  <1> DEFINE r == [FreshTurn("deliver") EXCEPT !.accepting = FALSE, !.failed = isFailed]
  <1>1. turn' = [turn EXCEPT ![t] = r] /\ active' \in {active, t, NoTurn}  BY DEF Leaves
  <1>2. r \in Turn /\ Steered(r) = <<>> /\ r.at = "deliver" /\ r.failed = isFailed
        /\ ~r.accepting /\ r.attempts = 0
    <2> DEFINE f == FreshTurn("deliver")
    <2>1. f \in Turn /\ f.at = "deliver" /\ f.applied = <<>> /\ f.pending = <<>> /\ f.attempts = 0
      BY FreshTyped DEF FreshTurn
    <2> HIDE DEF f
    <2>2. r = [f EXCEPT !.accepting = FALSE, !.failed = isFailed]  BY DEF f
    <2>3. r \in Turn /\ r.at = "deliver" /\ r.failed = isFailed /\ ~r.accepting /\ r.attempts = 0
          /\ r.applied = <<>> /\ r.pending = <<>>
      BY <2>1, <2>2 DEF Turn
    <2>4. Steered(r) = <<>>  BY <2>3 DEF Steered
    <2> QED  BY <2>3, <2>4
  <1> HIDE DEF r
  <1>3. SoundTurn(r)  BY <1>2 DEF SoundTurn, Ordered
  <1>4. \A i \in DOMAIN Steered(r) : msg'[Steered(r)[i]].at \in Placed  BY <1>2
  <1>5. ASSUME NEW m \in Messages, WaitsIn(m, turn[t]) PROVE WaitsIn(m, r)
    <2>1. isFailed  BY <1>5 DEF WaitsIn, Ended, TurnInv, SoundTurn
    <2> QED  BY <1>2, <2>1 DEF WaitsIn
  <1>6. Taking /\ msg' \in [Messages -> Message] /\ sent' = sent  BY DEF Taking, TurnInv, TurnShape
  <1> QED  BY <1>1, <1>2, <1>3, <1>4, <1>5, <1>6, OneTurnMoves

\* A turn that takes its queue into its request.
LEMMA TakesStep ==
    ASSUME TurnInv, NEW t \in Messages, NEW r, r \in Turn, turn' = [turn EXCEPT ![t] = r],
           turn[t].at \in {"loop", "text"}, r.at \in {"loop", "ask"}, msg' = Taken(t), UNCHANGED <<sent, active>>,
           r.applied = turn[t].applied \o turn[t].pending, r.pending = <<>>, ~r.failed,
           r.attempts # 2, HoldsModel'
    PROVE  TurnInv'
  <1>1. turn \in [Messages -> Turn] /\ msg \in [Messages -> Message] /\ turn[t] \in Turn /\ SoundTurn(turn[t])
    BY DEF TurnInv, TurnShape
  <1>2. turn[t].applied \in Seq(Messages) /\ turn[t].pending \in Seq(Messages) /\ Steered(turn[t]) \in Seq(Messages)
    BY <1>1, SteeredType DEF Turn
  <1>3. Steered(r) = Steered(turn[t])
    <2>1. Steered(turn[t]) \o <<>> = Steered(turn[t])  BY <1>2, ConcatEmptySeq
    <2> QED  BY <2>1 DEF Steered
  <1>4. SoundTurn(r)  BY <1>1, <1>3 DEF SoundTurn
  <1>5. ASSUME NEW m \in Messages, InQueue(m, turn[t].pending) PROVE msg[m].at \in Placed
    <2>1. PICK i \in DOMAIN turn[t].pending : turn[t].pending[i] = m  BY <1>5 DEF InQueue
    <2>2. PICK n \in DOMAIN Steered(turn[t]) : Steered(turn[t])[n] = m
      BY <1>2, <2>1, InSecond DEF Steered
    <2> QED  BY <2>2 DEF TurnInv, Entries
  <1>6. \A m \in Messages : msg'[m] = IF InQueue(m, turn[t].pending) THEN [msg[m] EXCEPT !.at = "applied"] ELSE msg[m]
    BY DEF Taken, InQueue
  <1>7. Taking  BY <1>5, <1>6 DEF Taking
  <1>8. msg' \in [Messages -> Message]  BY <1>1 DEF Taken, Message
  <1>9. \A m \in Messages : msg[m].at \in Placed => msg'[m].at \in Placed
    BY <1>1, <1>6 DEF Placed, Message
  <1>10. ASSUME NEW i \in DOMAIN Steered(r) PROVE msg'[Steered(r)[i]].at \in Placed
    <2>1. Steered(r)[i] \in Messages /\ msg[Steered(r)[i]].at \in Placed  BY <1>2, <1>3 DEF TurnInv, Entries
    <2> QED  BY <1>9, <2>1
  <1>11. ASSUME NEW m \in Messages, msg'[m].at = "pending", WaitsIn(m, turn[t]) PROVE FALSE
    <2>1. InQueue(m, turn[t].pending)  BY <1>1, <1>11 DEF WaitsIn, SoundTurn
    <2> QED  BY <1>1, <1>6, <1>11, <2>1 DEF Message
  <1> QED  BY <1>4, <1>7, <1>8, <1>10, <1>11, OneTurnMoves

LEMMA TurnFacts ==
    ASSUME TurnInv, NEW t \in Messages
    PROVE  /\ turn \in [Messages -> Turn] /\ turn[t] \in Turn /\ SoundTurn(turn[t])
           /\ msg \in [Messages -> Message] /\ HoldsModel
           /\ turn[t].applied \in Seq(Messages) /\ turn[t].pending \in Seq(Messages)
           /\ turn[t].at \notin {"deliver", "done"} => ~turn[t].failed
           /\ turn[t].at # "final" => turn[t].attempts \in 0..1
  BY DEF TurnInv, TurnShape, SoundTurn, Turn

\* The lock of the model is with the one turn that stands at its request.
LEMMA LockKept ==
    ASSUME TurnInv, NEW t \in Messages,
           \A u \in Messages \ {t} : turn'[u].at = "request" => turn[u].at = "request",
           \/ modelLock' = modelLock /\ (turn'[t].at = "request" => turn[t].at = "request")
           \/ modelLock' = Released(t) /\ turn'[t].at # "request"
    PROVE  HoldsModel'
  <1>1. HoldsModel /\ NoTurn \notin Messages  BY DEF TurnInv, NoTurn, Messages
  <1>2. modelLock' \in Messages \cup {NoTurn, Other}  BY <1>1 DEF HoldsModel, Released
  <1>3. \A u \in Messages : turn'[u].at = "request" => modelLock' = u  BY <1>1 DEF HoldsModel, Released
  <1> QED  BY <1>2, <1>3 DEF HoldsModel

LEMMA BeginStep == ASSUME TurnInv, NEW t \in Messages, Begin(t) PROVE TurnInv'
  <1> DEFINE r == [turn[t] EXCEPT !.at = "loop"]
  <1>1. turn[t].at = "begin" /\ turn' = [turn EXCEPT ![t] = r] /\ active' = t /\ UNCHANGED <<msg, sent, modelLock>>
    BY DEF Begin
  <1>2. r \in Turn /\ r.at = "loop" /\ r.applied = turn[t].applied /\ r.pending = turn[t].pending /\ r.failed = turn[t].failed
        /\ r.attempts = turn[t].attempts
    BY TurnFacts DEF Turn
  <1>3. ~r.failed /\ r.attempts # 2  BY <1>1, <1>2, TurnFacts
  <1> HIDE DEF r
  <1>4. HoldsModel'  BY <1>1, <1>2, TurnFacts, LockKept
  <1> QED  BY <1>1, <1>2, <1>3, <1>4, QueueKept

LEMMA LoopTopStep == ASSUME TurnInv, NEW t \in Messages, LoopTop(t) PROVE TurnInv'
  <1>1. turn[t].at = "loop" /\ UNCHANGED <<sent, modelLock>>  BY DEF LoopTop
  <1>2. CASE turn' = [turn EXCEPT ![t] = [Consumed(@) EXCEPT !.at = "ask"]] /\ msg' = Taken(t) /\ UNCHANGED active
    <2> DEFINE r == [Consumed(turn[t]) EXCEPT !.at = "ask"]
    <2>1. turn' = [turn EXCEPT ![t] = r]  BY <1>2
    <2>2. turn[t].applied \o turn[t].pending \in Seq(Messages) /\ <<>> \in Seq(Messages)  BY TurnFacts
    <2>3. r \in Turn /\ r.at = "ask" /\ r.applied = turn[t].applied \o turn[t].pending /\ r.pending = <<>>
          /\ r.failed = turn[t].failed /\ r.attempts = turn[t].attempts
      BY <2>2, TurnFacts DEF Turn, Consumed
    <2>4. ~r.failed /\ r.attempts # 2  BY <1>1, <2>3, TurnFacts
    <2> HIDE DEF r
    <2>5. HoldsModel'  BY <1>1, <2>1, <2>3, TurnFacts, LockKept
    <2> QED  BY <1>1, <1>2, <2>1, <2>3, <2>4, <2>5, TakesStep
  <1>3. CASE Leaves(t, TRUE) /\ UNCHANGED msg
    <2>1. turn'[t].at = "deliver" /\ \A u \in Messages \ {t} : turn'[u] = turn[u]  BY <1>3, TurnFacts DEF Leaves, FreshTurn
    <2>2. HoldsModel'  BY <1>1, <2>1, LockKept
    <2> QED  BY <1>1, <1>3, <2>2, LeavesStep
  <1> QED  BY <1>2, <1>3 DEF LoopTop

LEMMA AsksStep == ASSUME TurnInv, NEW t \in Messages, AsksModel(t) PROVE TurnInv'
  <1> DEFINE r == [turn[t] EXCEPT !.at = "request"]
  <1>1. turn[t].at = "ask" /\ modelLock = NoTurn /\ modelLock' = t /\ turn' = [turn EXCEPT ![t] = r]
        /\ UNCHANGED <<msg, sent, active>>
    BY DEF AsksModel
  <1>2. r \in Turn /\ r.at = "request" /\ r.applied = turn[t].applied /\ r.pending = turn[t].pending /\ r.failed = turn[t].failed
        /\ r.attempts = turn[t].attempts
    BY TurnFacts DEF Turn
  <1>3. ~r.failed /\ r.attempts # 2  BY <1>1, <1>2, TurnFacts
  <1> HIDE DEF r
  <1>4. HoldsModel'
    <2>1. HoldsModel /\ NoTurn \notin Messages  BY DEF TurnInv, NoTurn, Messages
    <2>2. \A u \in Messages : turn[u].at # "request"  BY <1>1, <2>1 DEF HoldsModel
    <2>3. \A u \in Messages \ {t} : turn'[u] = turn[u]  BY <1>1, TurnFacts
    <2> QED  BY <1>1, <2>2, <2>3 DEF HoldsModel
  <1> QED  BY <1>1, <1>2, <1>3, <1>4, QueueKept

LEMMA RespondsStep == ASSUME TurnInv, NEW t \in Messages, Responds(t) PROVE TurnInv'
  <1>1. turn[t].at = "request" /\ modelLock' = Released(t) /\ UNCHANGED <<msg, sent, active>>  BY DEF Responds
  <1>2. PICK r : /\ r \in {[turn[t] EXCEPT !.at = "tools"]} \cup {[turn[t] EXCEPT !.at = "text", !.empty = e] : e \in BOOLEAN}
                 /\ turn' = [turn EXCEPT ![t] = r]
    BY TurnFacts DEF Responds
  <1>3. r \in Turn /\ r.at \in {"tools", "text"} /\ r.applied = turn[t].applied /\ r.pending = turn[t].pending
        /\ r.failed = turn[t].failed /\ r.attempts = turn[t].attempts
    BY <1>2, TurnFacts DEF Turn
  <1>4. ~r.failed /\ r.attempts # 2  BY <1>1, <1>3, TurnFacts
  <1>5. HoldsModel'  BY <1>1, <1>2, <1>3, TurnFacts, LockKept
  <1> QED  BY <1>1, <1>2, <1>3, <1>4, <1>5, QueueKept

LEMMA FailsStep == ASSUME TurnInv, NEW t \in Messages, Fails(t) PROVE TurnInv'
  <1>1. turn[t].at \in {"request", "tools"} /\ modelLock' = Released(t) /\ Leaves(t, TRUE) /\ UNCHANGED <<msg, sent>>
    BY DEF Fails
  <1>2. turn'[t].at = "deliver" /\ \A u \in Messages \ {t} : turn'[u] = turn[u]  BY <1>1, TurnFacts DEF Leaves, FreshTurn
  <1>3. HoldsModel'  BY <1>1, <1>2, LockKept
  <1> QED  BY <1>1, <1>3, LeavesStep

LEMMA NextLoopTyped ==
    ASSUME NEW r \in Turn, NEW steered \in BOOLEAN, NEW force \in BOOLEAN
    PROVE  LET x == NextLoop(r, steered, force)
           IN  /\ x \in Turn /\ x.at = "loop" /\ x.applied = r.applied /\ x.pending = r.pending
               /\ x.failed = r.failed /\ x.attempts = r.attempts
  <1> DEFINE ext == IF steered /\ r.loop + 1 >= ToolLoop THEN Extended(r) ELSE r.ext
             spent == r.loop + 1 >= ToolLoop + ext
  <1>1. r.ext \in 0..MaxPending /\ r.loop \in Nat /\ r.forced \in BOOLEAN  BY DEF Turn
  <1>2. ext \in 0..MaxPending  BY <1>1, TurnAssumption DEF Extended
  <1>3. NextLoop(r, steered, force) =
          [r EXCEPT !.at = "loop", !.loop = r.loop + 1, !.ext = ext, !.forced = r.forced \/ force \/ spent]
    BY DEF NextLoop
  <1> HIDE DEF ext
  <1>4. spent \in BOOLEAN  BY <1>1, <1>2, TurnAssumption
  <1> HIDE DEF spent
  <1> DEFINE x == NextLoop(r, steered, force)
             f == r.forced \/ force \/ spent
             n == r.loop + 1
             s == 0..MaxPending
  <1>5. /\ f \in BOOLEAN /\ n \in Nat /\ ext \in s
        /\ x = [r EXCEPT !.at = "loop", !.loop = n, !.ext = ext, !.forced = f]
    BY <1>1, <1>2, <1>3
  <1> HIDE DEF x, f, n
  <1>6. x \in Turn
    <2>1. Turn = [at: {"none", "begin", "loop", "ask", "request", "tools", "text", "final", "deliver", "done"},
                  accepting: BOOLEAN, failed: BOOLEAN, forced: BOOLEAN, pending: Seq(Messages), applied: Seq(Messages),
                  loop: Nat, ext: s, attempts: 0..2, empty: BOOLEAN]
      BY DEF Turn
    <2> HIDE DEF s
    <2> QED  BY <1>5, <2>1
  <1>7. /\ x.at = "loop" /\ x.applied = r.applied /\ x.pending = r.pending
        /\ x.failed = r.failed /\ x.attempts = r.attempts
    BY <1>5 DEF Turn
  <1> QED  BY <1>6, <1>7 DEF x

LEMMA ToolsStep == ASSUME TurnInv, NEW t \in Messages, ToolsDone(t) PROVE TurnInv'
  <1>1. turn[t].at = "tools" /\ UNCHANGED <<msg, sent, active, modelLock>>  BY DEF ToolsDone
  <1>2. PICK overBudget \in BOOLEAN : turn' = [turn EXCEPT ![t] = NextLoop(@, turn[t].pending # <<>>, overBudget)]
    BY DEF ToolsDone
  <1> DEFINE r == NextLoop(turn[t], turn[t].pending # <<>>, overBudget)
  <1>3. r \in Turn /\ r.at = "loop" /\ r.applied = turn[t].applied /\ r.pending = turn[t].pending
        /\ r.failed = turn[t].failed /\ r.attempts = turn[t].attempts
    BY TurnFacts, NextLoopTyped
  <1>4. turn' = [turn EXCEPT ![t] = r]  BY <1>2
  <1> HIDE DEF r
  <1>5. ~r.failed /\ r.attempts # 2  BY <1>1, <1>3, TurnFacts
  <1>6. HoldsModel'  BY <1>1, <1>3, <1>4, TurnFacts, LockKept
  <1> QED  BY <1>1, <1>3, <1>4, <1>5, <1>6, QueueKept

LEMMA AnotherPass ==
    ASSUME NEW r \in Turn
    PROVE  /\ [r EXCEPT !.at = "loop", !.loop = r.loop + 1] \in Turn
           /\ [r EXCEPT !.at = "loop", !.loop = r.loop + 1, !.forced = TRUE] \in Turn
  <1> DEFINE n == r.loop + 1
  <1>1. n \in Nat  BY DEF Turn
  <1> HIDE DEF n
  <1>2. [r EXCEPT !.at = "loop", !.loop = n] \in Turn  BY <1>1 DEF Turn
  <1>3. [r EXCEPT !.at = "loop", !.loop = n, !.forced = TRUE] \in Turn  BY <1>1 DEF Turn
  <1> QED  BY <1>2, <1>3 DEF n

LEMMA TextStep == ASSUME TurnInv, NEW t \in Messages, TextDone(t) PROVE TurnInv'
  <1>1. turn[t].at = "text" /\ UNCHANGED <<sent, active, modelLock>>  BY DEF TextDone
  <1>2. turn[t] \in Turn /\ turn[t].attempts \in 0..1 /\ ~turn[t].failed  BY <1>1, TurnFacts
  <1>3. CASE turn' = [turn EXCEPT ![t] = NextLoop(Consumed(turn[t]), TRUE, FALSE)] /\ msg' = Taken(t)
    <2> DEFINE c == Consumed(turn[t])
               r == NextLoop(c, TRUE, FALSE)
    <2>1. turn[t].applied \o turn[t].pending \in Seq(Messages) /\ <<>> \in Seq(Messages)  BY TurnFacts
    <2>2. c \in Turn /\ c.applied = turn[t].applied \o turn[t].pending /\ c.pending = <<>>
          /\ c.failed = turn[t].failed /\ c.attempts = turn[t].attempts
      BY <1>2, <2>1 DEF Turn, Consumed
    <2> HIDE DEF c
    <2>3. /\ r \in Turn /\ r.at = "loop" /\ r.applied = c.applied /\ r.pending = c.pending
          /\ r.failed = c.failed /\ r.attempts = c.attempts
      BY <2>2, NextLoopTyped
    <2>4. turn' = [turn EXCEPT ![t] = r]  BY <1>3 DEF c
    <2> HIDE DEF r
    <2>5. HoldsModel'  BY <1>1, <2>3, <2>4, TurnFacts, LockKept
    <2>6. ~r.failed /\ r.attempts # 2  BY <1>2, <2>2, <2>3
    <2> QED  BY <1>1, <1>3, <2>2, <2>3, <2>4, <2>5, <2>6, TakesStep
  <1>4. CASE turn' = [turn EXCEPT ![t] = [turn[t] EXCEPT !.at = "loop", !.loop = turn[t].loop + 1, !.forced = TRUE]] /\ UNCHANGED msg
    <2> DEFINE r == [turn[t] EXCEPT !.at = "loop", !.loop = turn[t].loop + 1, !.forced = TRUE]
    <2>0. r \in Turn  BY <1>2, AnotherPass
    <2>1. r \in Turn /\ r.at = "loop" /\ r.applied = turn[t].applied /\ r.pending = turn[t].pending
          /\ r.failed = turn[t].failed /\ r.attempts = turn[t].attempts
      BY <1>2, <2>0 DEF Turn
    <2>2. turn' = [turn EXCEPT ![t] = r]  BY <1>4
    <2> HIDE DEF r
    <2>3. HoldsModel'  BY <1>1, <2>1, <2>2, TurnFacts, LockKept
    <2>4. ~r.failed /\ r.attempts # 2  BY <1>2, <2>1
    <2> QED  BY <1>1, <1>4, <2>1, <2>2, <2>3, <2>4, QueueKept
  <1>5. CASE /\ ~TextSteered(t) /\ turn[t].empty /\ turn[t].forced
             /\ turn' = [turn EXCEPT ![t] = IF Attempt(turn[t]).attempts < 2
                                           THEN [Attempt(turn[t]) EXCEPT !.at = "loop", !.loop = @ + 1]
                                           ELSE [Attempt(turn[t]) EXCEPT !.at = "final"]]
             /\ UNCHANGED msg
    <2> DEFINE a == Attempt(turn[t])
               r == IF a.attempts < 2 THEN [a EXCEPT !.at = "loop", !.loop = @ + 1] ELSE [a EXCEPT !.at = "final"]
    <2>1. turn[t].attempts + 1 \in 0..2  BY <1>2
    <2>2. a \in Turn /\ a.applied = turn[t].applied /\ a.pending = turn[t].pending /\ a.failed = turn[t].failed
      BY <1>2, <2>1 DEF Attempt, Turn
    <2>3. turn' = [turn EXCEPT ![t] = r]  BY <1>5
    <2> HIDE DEF a
    <2>4. r \in Turn /\ r.applied = a.applied /\ r.pending = a.pending /\ r.failed = a.failed
          /\ r.at \in {"loop", "final"} /\ (r.attempts = 2 => r.at = "final")
      <3>1. CASE a.attempts < 2
        <4>1. [a EXCEPT !.at = "loop", !.loop = @ + 1] \in Turn  BY <2>2, AnotherPass
        <4>2. r = [a EXCEPT !.at = "loop", !.loop = @ + 1]  BY <3>1
        <4>3. r.at = "loop" /\ r.applied = a.applied /\ r.pending = a.pending /\ r.failed = a.failed /\ r.attempts = a.attempts
          BY <2>2, <4>2 DEF Turn
        <4>4. a.attempts # 2  BY <3>1
        <4> QED  BY <4>1, <4>2, <4>3, <4>4
      <3>2. CASE ~(a.attempts < 2)
        <4>1. [a EXCEPT !.at = "final"] \in Turn  BY <2>2 DEF Turn
        <4>2. r = [a EXCEPT !.at = "final"]  BY <3>2
        <4>3. r.at = "final" /\ r.applied = a.applied /\ r.pending = a.pending /\ r.failed = a.failed
          BY <2>2, <4>2 DEF Turn
        <4> QED  BY <4>1, <4>2, <4>3
      <3> QED  BY <3>1, <3>2
    <2> HIDE DEF r
    <2>5. r.pending = <<>> /\ ~r.failed  BY <1>1, <1>2, <1>5, <2>2, <2>4 DEF TextSteered
    <2>6. HoldsModel'  BY <1>1, <2>3, <2>4, TurnFacts, LockKept
    <2> QED  BY <1>1, <1>5, <2>2, <2>3, <2>4, <2>5, <2>6, QueueKept
  <1>6. CASE ~TextSteered(t) /\ turn' = [turn EXCEPT ![t].at = "final"] /\ UNCHANGED msg
    <2> DEFINE r == [turn[t] EXCEPT !.at = "final"]
    <2>1. r \in Turn /\ r.at = "final" /\ r.applied = turn[t].applied /\ r.pending = turn[t].pending
          /\ r.failed = turn[t].failed /\ r.attempts = turn[t].attempts
      BY <1>2 DEF Turn
    <2>2. turn' = [turn EXCEPT ![t] = r]  BY <1>6
    <2> HIDE DEF r
    <2>3. HoldsModel'  BY <1>1, <2>1, <2>2, TurnFacts, LockKept
    <2>4. ~r.failed /\ r.pending = <<>>  BY <1>1, <1>2, <1>6, <2>1 DEF TextSteered
    <2> QED  BY <1>1, <1>6, <2>1, <2>2, <2>3, <2>4, QueueKept
  <1> QED  BY <1>3, <1>4, <1>5, <1>6 DEF TextDone

LEMMA ReturnsStep == ASSUME TurnInv, NEW t \in Messages, EngineReturns(t) PROVE TurnInv'
  <1>1. turn[t].at = "final" /\ Leaves(t, FALSE) /\ UNCHANGED <<msg, sent, modelLock>>  BY DEF EngineReturns
  <1>2. turn'[t].at = "deliver" /\ \A u \in Messages \ {t} : turn'[u] = turn[u]  BY <1>1, TurnFacts DEF Leaves, FreshTurn
  <1>3. HoldsModel'  BY <1>1, <1>2, LockKept
  <1> QED  BY <1>1, <1>3, LeavesStep

\* The turn registered by now takes no more messages, whichever it is.
LEMMA DeliveredStep == ASSUME TurnInv, NEW t \in Messages, Delivered(t) PROVE TurnInv'
  <1>1. turn[t].at = "deliver" /\ active' = NoTurn /\ UNCHANGED <<msg, sent, modelLock>>  BY DEF Delivered
  <1>2. ASSUME NEW u \in Messages
        PROVE  /\ turn'[u] \in Turn /\ SoundTurn(turn'[u]) /\ Steered(turn'[u]) = Steered(turn[u])
               /\ turn'[u].at = IF u = t THEN "done" ELSE turn[u].at
               /\ turn'[u].pending = turn[u].pending /\ turn'[u].failed = turn[u].failed
    <2> DEFINE r == [turn[u] EXCEPT !.at = IF u = t THEN "done" ELSE @, !.accepting = @ /\ u # active]
    <2>1. turn'[u] = r /\ turn[u] \in Turn /\ SoundTurn(turn[u])  BY TurnFacts DEF Delivered
    <2>2. /\ r \in Turn /\ r.applied = turn[u].applied /\ r.pending = turn[u].pending /\ r.failed = turn[u].failed
          /\ r.at = (IF u = t THEN "done" ELSE turn[u].at) /\ (r.accepting => turn[u].accepting) /\ r.attempts = turn[u].attempts
      BY <2>1 DEF Turn
    <2> HIDE DEF r
    <2>3. Steered(r) = Steered(turn[u])  BY <2>2 DEF Steered
    <2>4. SoundTurn(r)  BY <1>1, <2>1, <2>2, <2>3 DEF SoundTurn
    <2> QED  BY <2>1, <2>2, <2>3, <2>4
  <1>3. TurnShape'
    <2>1. turn' = [u \in Messages |-> turn'[u]]  BY DEF Delivered
    <2>2. turn' \in [Messages -> Turn]  BY <1>2, <2>1
    <2> QED  BY <1>1, <2>2 DEF TurnInv, TurnShape
  <1>4. Arrived'  BY <1>1 DEF TurnInv, Arrived
  <1>5. Entries'
    <2> SUFFICES ASSUME NEW u \in Messages, NEW i \in DOMAIN Steered(turn'[u]) PROVE msg'[Steered(turn'[u])[i]].at \in Placed
      BY DEF Entries
    <2>1. Steered(turn'[u]) = Steered(turn[u])  BY <1>2
    <2> QED  BY <1>1, <2>1 DEF TurnInv, Entries
  <1>6. Waiting'
    <2> SUFFICES ASSUME NEW m \in Messages, msg[m].at = "pending" PROVE msg[m].turn \in Messages /\ WaitsIn(m, turn'[msg[m].turn])
      BY <1>1 DEF Waiting
    <2>1. msg[m].turn \in Messages /\ WaitsIn(m, turn[msg[m].turn])  BY DEF TurnInv, Waiting
    <2> QED  BY <1>1, <1>2, <2>1 DEF WaitsIn, Ended
  <1>7. Asked'  BY <1>1, <1>2 DEF TurnInv, Asked
  <1>8. HoldsModel'  BY <1>1, <1>2, LockKept
  <1> QED  BY <1>2, <1>3, <1>4, <1>5, <1>6, <1>7, <1>8 DEF TurnInv

LEMMA OtherStep == ASSUME TurnInv, OtherTakes \/ OtherDone PROVE TurnInv'
  <1>1. UNCHANGED <<msg, sent, active, turn>> /\ modelLock \notin Messages /\ modelLock' \in {NoTurn, Other}
    BY TurnAssumption DEF OtherTakes, OtherDone, Messages, NoTurn, Other
  <1>2. HoldsModel'  BY <1>1 DEF TurnInv, HoldsModel
  <1> QED  BY <1>1, <1>2 DEF TurnInv, TurnShape, Arrived, Entries, Waiting, Asked

LEMMA TurnStep == TurnInv /\ [TurnNext]_turnVars => TurnInv'
  <1> SUFFICES ASSUME TurnInv, [TurnNext]_turnVars PROVE TurnInv'
    OBVIOUS
  <1>1. CASE UNCHANGED turnVars
    BY <1>1 DEF turnVars, TurnInv, TurnShape, Arrived, Entries, Waiting, Asked, HoldsModel
  <1>2. ASSUME NEW t \in Messages, EngineStep(t) PROVE TurnInv'
    BY <1>2, LoopTopStep, RespondsStep, FailsStep, ToolsStep, TextStep, ReturnsStep, DeliveredStep DEF EngineStep
  <1>3. ASSUME NEW t \in Messages, Handle(t) \/ Begin(t) \/ AsksModel(t) PROVE TurnInv'
    BY <1>3, HandleStep, BeginStep, AsksStep
  <1> QED  BY <1>1, <1>2, <1>3, ReceiveStep, OtherStep DEF TurnNext

\* A message that steers is taken into its turn once, in the order in which the messages came, and
\* one that was accepted before the turn had its answer is in one of its requests: handle_message,
\* _consume_steering_messages and the loop of emery_engine.
THEOREM SteeringHeld == TurnSpec => []SteeringSound
  <1>1. TurnInv => SteeringSound
    <2> SUFFICES ASSUME TurnInv PROVE SteeringInOrder /\ SteeringApplied
      BY DEF SteeringSound
    <2>1. SteeringInOrder  BY DEF TurnInv, SoundTurn, Ordered, Steered, SteeringInOrder
    <2>2. SteeringApplied  BY DEF TurnInv, Waiting, WaitsIn, Ended, SteeringApplied
    <2> QED  BY <2>1, <2>2
  <1> QED  BY <1>1, TurnInitial, TurnStep, PTL DEF TurnSpec

\* The turns, their queues and budgets stay within their types: the steering extensions within
\* LIVE_STEERING_MAX_PENDING, the requests for a text at two.
THEOREM TurnTyped == TurnSpec => []TurnTypeOK
  <1>1. TurnInv => TurnTypeOK  BY DEF TurnInv, TurnShape, HoldsModel, TurnTypeOK
  <1> QED  BY <1>1, TurnInitial, TurnStep, PTL DEF TurnSpec

\* However many turns a chat has, and whoever else asks the model, one request is with it at a
\* time: main_model_lock.
THEOREM OneRequest ==
    TurnSpec => [](\A t, u \in Messages : turn[t].at = "request" /\ turn[u].at = "request" => t = u)
  <1>1. TurnInv => \A t, u \in Messages : turn[t].at = "request" /\ turn[u].at = "request" => t = u
    BY DEF TurnInv, HoldsModel
  <1> QED  BY <1>1, TurnInitial, TurnStep, PTL DEF TurnSpec

-----------------------------------------------------------------------------
(* Streams *)

Event == [kind: {"prefill", "progress", "reasoning", "preamble", "applied", "deferred", "live", "final", "error"}, of: Nat]
Events == {shown[i] : i \in DOMAIN shown}
Of(kind, n) == [kind |-> kind, of |-> n]

RequestRecord ==
    [at: {"between", "opening", "reading", "closing", "ending", "plain", "response", "over"}, n: Nat, pieces: Nat,
     seen: BOOLEAN, broken: BOOLEAN, reasoning: BOOLEAN, preamble: {"none", "kept", "shown"},
     streamed: BOOLEAN, repeats: BOOLEAN]
SteeringRecord ==
    [pending: Nat, event: BOOLEAN, idEvent: BOOLEAN, id: Nat, sent: BOOLEAN, active: BOOLEAN, total: Nat]
MonitorRecord == [at: {"none", "waiting", "waiting_id", "posting"}, for: Nat]
SummarizerRecord == [at: {"none", "sleeping", "asking"}, for: Nat, made: Nat]

StreamShape ==
    /\ request \in RequestRecord
    /\ steering \in SteeringRecord
    /\ monitor \in MonitorRecord /\ summarizer \in SummarizerRecord
    /\ shown \in Seq(Event)

\* A stream has its monitor until it is closed and its summarizer until it ends, and both were made for it.
TasksOfStream ==
    /\ monitor.at # "none" => request.at \in {"opening", "reading", "closing"} /\ monitor.for = request.n
    /\ summarizer.at # "none" => request.at \in {"reading", "closing", "ending"} /\ summarizer.for = request.n
    /\ ~request.repeats

\* A completion is known of the stream alone, and the control waits for a message.
SteeringOfStream ==
    /\ steering.active <=> request.at \in {"opening", "reading"}
    /\ steering.active => steering.id \in {NoCompletion, request.n}
    /\ steering.event => steering.pending > 0
    /\ monitor.at \in {"waiting_id", "posting"} => steering.pending > 0
    /\ monitor.at = "waiting_id" => ~steering.sent
    /\ monitor.at = "posting" => steering.sent
    /\ \A c \in controls : c.id = c.during

\* What was not yet shown of the request, while it still may be.
NotYetShown ==
    /\ \A e \in Events : e.of <= request.n
    /\ request.at \notin {"between", "over"} => Of("final", request.n) \notin Events /\ Of("error", request.n) \notin Events
    /\ request.at \in {"opening", "reading"} /\ ~request.reasoning => Of("reasoning", request.n) \notin Events
    /\ request.at \in {"opening", "reading"} /\ request.preamble # "shown" => Of("preamble", request.n) \notin Events
    /\ request.at \in {"opening", "reading", "closing"} /\ (~steering.sent \/ monitor.at = "posting") =>
         Of("applied", request.n) \notin Events /\ Of("deferred", request.n) \notin Events
    /\ summarizer.at # "none" => Of("reasoning", request.n) \in Events

StreamInv == StreamShape /\ TasksOfStream /\ SteeringOfStream /\ NotYetShown /\ ShownInOrder

LEMMA StreamInitial == StreamInit => StreamInv
  <1> SUFFICES ASSUME StreamInit PROVE StreamInv
    OBVIOUS
  <1>1. Events = {}  BY DEF StreamInit, Events
  <1>2. StreamShape  BY DEF StreamInit, StreamShape, RequestRecord, SteeringRecord, MonitorRecord, SummarizerRecord, NoTask, NoSummarizer, NoCompletion
  <1>3. TasksOfStream /\ SteeringOfStream  BY DEF StreamInit, TasksOfStream, SteeringOfStream, NoTask, NoSummarizer
  <1>4. NotYetShown  BY <1>1 DEF StreamInit, NotYetShown, NoSummarizer
  <1>5. ShownInOrder  BY DEF StreamInit, ShownInOrder
  <1> QED  BY <1>2, <1>3, <1>4, <1>5 DEF StreamInv

\* The parts that do not look at what was shown keep the order of it.
LEMMA NothingShown ==
    ASSUME StreamInv, StreamShape', TasksOfStream', SteeringOfStream', NotYetShown', shown' = shown
    PROVE  StreamInv'
  BY DEF StreamInv, ShownInOrder

LEMMA MessageStep == ASSUME StreamInv, MessageSteers PROVE StreamInv'
  <1>1. steering' = [steering EXCEPT !.pending = @ + 1, !.event = TRUE, !.total = @ + 1]
        /\ UNCHANGED <<request, monitor, summarizer, controls, shown>>
    BY DEF MessageSteers
  <1>2. StreamShape'
    <2> DEFINE p == steering.pending + 1
               n == steering.total + 1
    <2>1. p \in Nat /\ n \in Nat  BY DEF StreamInv, StreamShape, RequestRecord, SteeringRecord, MonitorRecord, SummarizerRecord
    <2>2. steering' = [steering EXCEPT !.pending = p, !.event = TRUE, !.total = n]  BY <1>1
    <2> HIDE DEF p, n
    <2>3. steering' \in SteeringRecord
      BY <2>1, <2>2 DEF StreamInv, StreamShape, RequestRecord, SteeringRecord, MonitorRecord, SummarizerRecord
    <2> QED  BY <1>1, <2>3 DEF StreamInv, StreamShape, RequestRecord, SteeringRecord, MonitorRecord, SummarizerRecord
  <1>3. TasksOfStream'  BY <1>1 DEF StreamInv, StreamShape, RequestRecord, SteeringRecord, MonitorRecord, SummarizerRecord, TasksOfStream, MessageSteers
  <1>4. SteeringOfStream'
    <2>1. steering'.active = steering.active /\ steering'.id = steering.id /\ steering'.sent = steering.sent
          /\ steering'.pending = steering.pending + 1 /\ steering.pending \in Nat
      BY <1>1 DEF StreamInv, StreamShape, RequestRecord, SteeringRecord, MonitorRecord, SummarizerRecord
    <2>2. steering'.pending > 0  BY <2>1
    <2> QED  BY <1>1, <2>1, <2>2 DEF StreamInv, SteeringOfStream
  <1>5. Events' = Events  BY <1>1 DEF Events
  <1>6. NotYetShown'  BY <1>1, <1>5 DEF StreamInv, StreamShape, RequestRecord, SteeringRecord, MonitorRecord, SummarizerRecord, TasksOfStream, SteeringOfStream, NotYetShown, MessageSteers
  <1> QED  BY <1>1, <1>2, <1>3, <1>4, <1>6, NothingShown

LEMMA OpenStep == ASSUME StreamInv, StreamOpens PROVE StreamInv'
  <1>1. request' = [request EXCEPT !.at = "reading"]
        /\ UNCHANGED <<steering, monitor, summarizer, controls, shown>>
    BY DEF StreamOpens
  <1>2. StreamShape'  BY <1>1 DEF StreamInv, StreamShape, RequestRecord, SteeringRecord, MonitorRecord, SummarizerRecord, StreamOpens
  <1>3. TasksOfStream'  BY <1>1 DEF StreamInv, StreamShape, RequestRecord, SteeringRecord, MonitorRecord, SummarizerRecord, TasksOfStream, StreamOpens
  <1>4. SteeringOfStream'  BY <1>1 DEF StreamInv, StreamShape, RequestRecord, SteeringRecord, MonitorRecord, SummarizerRecord, TasksOfStream, SteeringOfStream, StreamOpens
  <1>5. Events' = Events  BY <1>1 DEF Events
  <1>6. NotYetShown'  BY <1>1, <1>5 DEF StreamInv, StreamShape, RequestRecord, SteeringRecord, MonitorRecord, SummarizerRecord, TasksOfStream, SteeringOfStream, NotYetShown, StreamOpens
  <1> QED  BY <1>1, <1>2, <1>3, <1>4, <1>6, NothingShown

LEMMA CloseStep == ASSUME StreamInv, StreamRefused \/ ReaderEnds PROVE StreamInv'
  <1>0. PICK isBroken \in BOOLEAN : request.at \in {"opening", "reading"} /\ Closes(isBroken)
    BY DEF StreamRefused, ReaderEnds, Closes, Lowered
  <1>1. request' = [request EXCEPT !.at = "closing", !.broken = isBroken] /\ steering' = [steering EXCEPT !.active = FALSE, !.idEvent = TRUE]
        /\ UNCHANGED <<monitor, summarizer, controls, shown>>
    BY <1>0 DEF StreamRefused, ReaderEnds, Closes, Lowered
  <1>2. StreamShape'  BY <1>0, <1>1 DEF StreamInv, StreamShape, RequestRecord, SteeringRecord, MonitorRecord, SummarizerRecord, StreamRefused, ReaderEnds, Closes, Lowered
  <1>3. TasksOfStream'  BY <1>0, <1>1 DEF StreamInv, StreamShape, RequestRecord, SteeringRecord, MonitorRecord, SummarizerRecord, TasksOfStream, StreamRefused, ReaderEnds, Closes, Lowered
  <1>4. SteeringOfStream'  BY <1>0, <1>1 DEF StreamInv, StreamShape, RequestRecord, SteeringRecord, MonitorRecord, SummarizerRecord, TasksOfStream, SteeringOfStream, StreamRefused, ReaderEnds, Closes, Lowered
  <1>5. Events' = Events  BY <1>1 DEF Events
  <1>6. NotYetShown'  BY <1>0, <1>1, <1>5 DEF StreamInv, StreamShape, RequestRecord, SteeringRecord, MonitorRecord, SummarizerRecord, TasksOfStream, SteeringOfStream, NotYetShown, StreamRefused, ReaderEnds, Closes, Lowered
  <1> QED  BY <1>1, <1>2, <1>3, <1>4, <1>6, NothingShown

LEMMA SummaryDueStep == ASSUME StreamInv, SummaryDue PROVE StreamInv'
  <1>1. summarizer' = [summarizer EXCEPT !.at = "asking"]
        /\ UNCHANGED <<request, steering, monitor, controls, shown>>
    BY DEF SummaryDue
  <1>2. StreamShape'  BY <1>1 DEF StreamInv, StreamShape, RequestRecord, SteeringRecord, MonitorRecord, SummarizerRecord, SummaryDue
  <1>3. TasksOfStream'  BY <1>1 DEF StreamInv, StreamShape, RequestRecord, SteeringRecord, MonitorRecord, SummarizerRecord, TasksOfStream, SummaryDue
  <1>4. SteeringOfStream'  BY <1>1 DEF StreamInv, StreamShape, RequestRecord, SteeringRecord, MonitorRecord, SummarizerRecord, TasksOfStream, SteeringOfStream, SummaryDue
  <1>5. Events' = Events  BY <1>1 DEF Events
  <1>6. NotYetShown'  BY <1>1, <1>5 DEF StreamInv, StreamShape, RequestRecord, SteeringRecord, MonitorRecord, SummarizerRecord, TasksOfStream, SteeringOfStream, NotYetShown, SummaryDue
  <1> QED  BY <1>1, <1>2, <1>3, <1>4, <1>6, NothingShown

LEMMA CancelStep == ASSUME StreamInv, MonitorCancelled PROVE StreamInv'
  <1>1. request' = [request EXCEPT !.at = "ending"] /\ monitor' = NoTask
        /\ UNCHANGED <<steering, summarizer, controls, shown>>
    BY DEF MonitorCancelled, TaskEnded, NoTask
  <1>2. StreamShape'  BY <1>1 DEF StreamInv, StreamShape, RequestRecord, SteeringRecord, MonitorRecord, SummarizerRecord, MonitorCancelled, TaskEnded, NoTask
  <1>3. TasksOfStream'  BY <1>1 DEF StreamInv, StreamShape, RequestRecord, SteeringRecord, MonitorRecord, SummarizerRecord, TasksOfStream, MonitorCancelled, TaskEnded, NoTask
  <1>4. SteeringOfStream'  BY <1>1 DEF StreamInv, StreamShape, RequestRecord, SteeringRecord, MonitorRecord, SummarizerRecord, TasksOfStream, SteeringOfStream, MonitorCancelled, TaskEnded, NoTask
  <1>5. Events' = Events  BY <1>1 DEF Events
  <1>6. NotYetShown'  BY <1>1, <1>5 DEF StreamInv, StreamShape, RequestRecord, SteeringRecord, MonitorRecord, SummarizerRecord, TasksOfStream, SteeringOfStream, NotYetShown, MonitorCancelled, TaskEnded, NoTask
  <1> QED  BY <1>1, <1>2, <1>3, <1>4, <1>6, NothingShown

LEMMA PlainStep == ASSUME StreamInv, PlainAnswered PROVE StreamInv'
  <1>0. PICK q \in {[request EXCEPT !.at = "response", !.reasoning = r] : r \in BOOLEAN} \cup {[request EXCEPT !.at = "over"]} :
              request.at = "plain" /\ request' = q /\ UNCHANGED <<steering, monitor, summarizer, controls, shown>>
    BY DEF PlainAnswered
  <1>1. request' = q
        /\ UNCHANGED <<steering, monitor, summarizer, controls, shown>>
    BY <1>0 DEF PlainAnswered
  <1>2. StreamShape'  BY <1>0, <1>1 DEF StreamInv, StreamShape, RequestRecord, SteeringRecord, MonitorRecord, SummarizerRecord, PlainAnswered
  <1>3. TasksOfStream'  BY <1>0, <1>1 DEF StreamInv, StreamShape, RequestRecord, SteeringRecord, MonitorRecord, SummarizerRecord, TasksOfStream, PlainAnswered
  <1>4. SteeringOfStream'  BY <1>0, <1>1 DEF StreamInv, StreamShape, RequestRecord, SteeringRecord, MonitorRecord, SummarizerRecord, TasksOfStream, SteeringOfStream, PlainAnswered
  <1>5. Events' = Events  BY <1>1 DEF Events
  <1>6. NotYetShown'  BY <1>0, <1>1, <1>5 DEF StreamInv, StreamShape, RequestRecord, SteeringRecord, MonitorRecord, SummarizerRecord, TasksOfStream, SteeringOfStream, NotYetShown, PlainAnswered
  <1> QED  BY <1>1, <1>2, <1>3, <1>4, <1>6, NothingShown

LEMMA WakesOver == ASSUME StreamInv, MonitorWakes, ~steering.active PROVE StreamInv'
  <1>1. steering' = [steering EXCEPT !.event = FALSE] /\ monitor' = NoTask
        /\ UNCHANGED <<request, summarizer, controls, shown>>
    BY DEF MonitorWakes, NoTask
  <1>2. StreamShape'  BY <1>1 DEF StreamInv, StreamShape, RequestRecord, SteeringRecord, MonitorRecord, SummarizerRecord, MonitorWakes, NoTask
  <1>3. TasksOfStream'  BY <1>1 DEF StreamInv, StreamShape, RequestRecord, SteeringRecord, MonitorRecord, SummarizerRecord, TasksOfStream, MonitorWakes, NoTask
  <1>4. SteeringOfStream'  BY <1>1 DEF StreamInv, StreamShape, RequestRecord, SteeringRecord, MonitorRecord, SummarizerRecord, TasksOfStream, SteeringOfStream, MonitorWakes, NoTask
  <1>5. Events' = Events  BY <1>1 DEF Events
  <1>6. NotYetShown'  BY <1>1, <1>5 DEF StreamInv, StreamShape, RequestRecord, SteeringRecord, MonitorRecord, SummarizerRecord, TasksOfStream, SteeringOfStream, NotYetShown, MonitorWakes, NoTask
  <1> QED  BY <1>1, <1>2, <1>3, <1>4, <1>6, NothingShown

LEMMA WakesAgain == ASSUME StreamInv, MonitorWakes, steering.active, steering.sent PROVE StreamInv'
  <1>1. steering' = [steering EXCEPT !.event = FALSE]
        /\ UNCHANGED <<request, monitor, summarizer, controls, shown>>
    BY DEF MonitorWakes
  <1>2. StreamShape'  BY <1>1 DEF StreamInv, StreamShape, RequestRecord, SteeringRecord, MonitorRecord, SummarizerRecord, MonitorWakes
  <1>3. TasksOfStream'  BY <1>1 DEF StreamInv, StreamShape, RequestRecord, SteeringRecord, MonitorRecord, SummarizerRecord, TasksOfStream, MonitorWakes
  <1>4. SteeringOfStream'  BY <1>1 DEF StreamInv, StreamShape, RequestRecord, SteeringRecord, MonitorRecord, SummarizerRecord, TasksOfStream, SteeringOfStream, MonitorWakes
  <1>5. Events' = Events  BY <1>1 DEF Events
  <1>6. NotYetShown'  BY <1>1, <1>5 DEF StreamInv, StreamShape, RequestRecord, SteeringRecord, MonitorRecord, SummarizerRecord, TasksOfStream, SteeringOfStream, NotYetShown, MonitorWakes
  <1> QED  BY <1>1, <1>2, <1>3, <1>4, <1>6, NothingShown

LEMMA WakesEarly == ASSUME StreamInv, MonitorWakes, steering.active, ~steering.sent, steering.id = NoCompletion PROVE StreamInv'
  <1>1. steering' = [steering EXCEPT !.event = FALSE] /\ monitor' = [monitor EXCEPT !.at = "waiting_id"]
        /\ UNCHANGED <<request, summarizer, controls, shown>>
    BY DEF MonitorWakes
  <1>2. StreamShape'  BY <1>1 DEF StreamInv, StreamShape, RequestRecord, SteeringRecord, MonitorRecord, SummarizerRecord, MonitorWakes
  <1>3. TasksOfStream'  BY <1>1 DEF StreamInv, StreamShape, RequestRecord, SteeringRecord, MonitorRecord, SummarizerRecord, TasksOfStream, MonitorWakes
  <1>4. SteeringOfStream'  BY <1>1 DEF StreamInv, StreamShape, RequestRecord, SteeringRecord, MonitorRecord, SummarizerRecord, TasksOfStream, SteeringOfStream, MonitorWakes
  <1>5. Events' = Events  BY <1>1 DEF Events
  <1>6. NotYetShown'  BY <1>1, <1>5 DEF StreamInv, StreamShape, RequestRecord, SteeringRecord, MonitorRecord, SummarizerRecord, TasksOfStream, SteeringOfStream, NotYetShown, MonitorWakes
  <1> QED  BY <1>1, <1>2, <1>3, <1>4, <1>6, NothingShown

LEMMA WakesPosts == ASSUME StreamInv, MonitorWakes, steering.active, ~steering.sent, steering.id # NoCompletion PROVE StreamInv'
  <1>1. steering' = [steering EXCEPT !.event = FALSE, !.sent = TRUE] /\ monitor' = [monitor EXCEPT !.at = "posting"] /\ controls' = controls \cup {[id |-> steering.id, during |-> IF steering.active THEN request.n ELSE 0]}
        /\ UNCHANGED <<request, summarizer, shown>>
    BY DEF MonitorWakes, Posts
  <1>2. StreamShape'  BY <1>1 DEF StreamInv, StreamShape, RequestRecord, SteeringRecord, MonitorRecord, SummarizerRecord, MonitorWakes, Posts
  <1>3. TasksOfStream'  BY <1>1 DEF StreamInv, StreamShape, RequestRecord, SteeringRecord, MonitorRecord, SummarizerRecord, TasksOfStream, MonitorWakes, Posts
  <1>4. SteeringOfStream'  BY <1>1 DEF StreamInv, StreamShape, RequestRecord, SteeringRecord, MonitorRecord, SummarizerRecord, TasksOfStream, SteeringOfStream, MonitorWakes, Posts
  <1>5. Events' = Events  BY <1>1 DEF Events
  <1>6. NotYetShown'  BY <1>1, <1>5 DEF StreamInv, StreamShape, RequestRecord, SteeringRecord, MonitorRecord, SummarizerRecord, TasksOfStream, SteeringOfStream, NotYetShown, MonitorWakes, Posts
  <1> QED  BY <1>1, <1>2, <1>3, <1>4, <1>6, NothingShown

LEMMA HasIdPosts == ASSUME StreamInv, MonitorHasId, steering.active, steering.id # NoCompletion PROVE StreamInv'
  <1>1. steering' = [steering EXCEPT !.sent = TRUE] /\ monitor' = [monitor EXCEPT !.at = "posting"] /\ controls' = controls \cup {[id |-> steering.id, during |-> IF steering.active THEN request.n ELSE 0]}
        /\ UNCHANGED <<request, summarizer, shown>>
    BY DEF MonitorHasId, Posts
  <1>2. StreamShape'  BY <1>1 DEF StreamInv, StreamShape, RequestRecord, SteeringRecord, MonitorRecord, SummarizerRecord, MonitorHasId, Posts
  <1>3. TasksOfStream'  BY <1>1 DEF StreamInv, StreamShape, RequestRecord, SteeringRecord, MonitorRecord, SummarizerRecord, TasksOfStream, MonitorHasId, Posts
  <1>4. SteeringOfStream'  BY <1>1 DEF StreamInv, StreamShape, RequestRecord, SteeringRecord, MonitorRecord, SummarizerRecord, TasksOfStream, SteeringOfStream, MonitorHasId, Posts
  <1>5. Events' = Events  BY <1>1 DEF Events
  <1>6. NotYetShown'  BY <1>1, <1>5 DEF StreamInv, StreamShape, RequestRecord, SteeringRecord, MonitorRecord, SummarizerRecord, TasksOfStream, SteeringOfStream, NotYetShown, MonitorHasId, Posts
  <1> QED  BY <1>1, <1>2, <1>3, <1>4, <1>6, NothingShown

LEMMA HasIdOver == ASSUME StreamInv, MonitorHasId, ~(steering.active /\ steering.id # NoCompletion) PROVE StreamInv'
  <1>1. monitor' = NoTask
        /\ UNCHANGED <<request, steering, summarizer, controls, shown>>
    BY DEF MonitorHasId, NoTask
  <1>2. StreamShape'  BY <1>1 DEF StreamInv, StreamShape, RequestRecord, SteeringRecord, MonitorRecord, SummarizerRecord, MonitorHasId, NoTask
  <1>3. TasksOfStream'  BY <1>1 DEF StreamInv, StreamShape, RequestRecord, SteeringRecord, MonitorRecord, SummarizerRecord, TasksOfStream, MonitorHasId, NoTask
  <1>4. SteeringOfStream'  BY <1>1 DEF StreamInv, StreamShape, RequestRecord, SteeringRecord, MonitorRecord, SummarizerRecord, TasksOfStream, SteeringOfStream, MonitorHasId, NoTask
  <1>5. Events' = Events  BY <1>1 DEF Events
  <1>6. NotYetShown'  BY <1>1, <1>5 DEF StreamInv, StreamShape, RequestRecord, SteeringRecord, MonitorRecord, SummarizerRecord, TasksOfStream, SteeringOfStream, NotYetShown, MonitorHasId, NoTask
  <1> QED  BY <1>1, <1>2, <1>3, <1>4, <1>6, NothingShown

\* An event that is new to its request, and comes before its end, keeps the order.
LEMMA ShownGrows ==
    ASSUME StreamInv, NEW kind, NEW n \in Nat, Of(kind, n) \in Event, n >= request.n, Emits(kind, n),
           Of("final", n) \notin Events, Of("error", n) \notin Events,
           kind \notin {"progress", "live"} => Of(kind, n) \notin Events,
           kind = "live" => Of("reasoning", n) \in Events
    PROVE  ShownInOrder' /\ shown' \in Seq(Event) /\ Events' = Events \cup {Of(kind, n)}
  <1> DEFINE e == Of(kind, n)
  <1>1. shown \in Seq(Event) /\ shown' = Append(shown, e) /\ e.kind = kind /\ e.of = n
    BY DEF StreamInv, StreamShape, Emits, Of
  <1>2. \A i \in DOMAIN shown : shown[i] \in Event /\ shown[i].of <= n /\ shown[i] = Of(shown[i].kind, shown[i].of)
                                /\ shown[i] \in Events
    <2> SUFFICES ASSUME NEW i \in DOMAIN shown
                 PROVE  shown[i] \in Event /\ shown[i].of <= n /\ shown[i] = Of(shown[i].kind, shown[i].of) /\ shown[i] \in Events
      OBVIOUS
    <2>1. shown[i] \in Event /\ shown[i] \in Events  BY <1>1 DEF Events
    <2>2. shown[i].of <= request.n /\ request.n \in Nat  BY <2>1 DEF StreamInv, StreamShape, RequestRecord, NotYetShown
    <2>3. shown[i].of \in Nat /\ shown[i] = Of(shown[i].kind, shown[i].of)  BY <2>1 DEF Event, Of
    <2> QED  BY <2>1, <2>2, <2>3
  <1> HIDE DEF e
  <1>3. /\ Len(shown) \in Nat /\ DOMAIN shown = 1..Len(shown) /\ DOMAIN shown' = 1..(Len(shown) + 1)
        /\ Len(shown') = Len(shown) + 1
        /\ shown'[Len(shown) + 1] = e /\ \A i \in DOMAIN shown : shown'[i] = shown[i]
    BY <1>1
  <1>4. shown' \in Seq(Event)  BY <1>1 DEF e
  <1>5. Events' = Events \cup {e}  BY <1>3 DEF Events
  <1>6. ShownInOrder  BY DEF StreamInv
  <1>7. ASSUME NEW i \in 1..(Len(shown') - 1) PROVE shown'[i].of <= shown'[i + 1].of
    <2>1. CASE i = Len(shown)  BY <1>1, <1>2, <1>3, <2>1
    <2>2. CASE i # Len(shown)
      <3> DEFINE n0 == Len(shown)
      <3>b. n0 \in Nat /\ DOMAIN shown = 1..n0 /\ Len(shown') = n0 + 1 /\ i # n0  BY <1>3, <2>2
      <3> HIDE DEF n0
      <3>c. Len(shown') - 1 = n0  BY <3>b
      <3>d. i \in 1..n0  BY <3>c
      <3>0. n0 \in Nat /\ DOMAIN shown = 1..n0 /\ i \in 1..n0 /\ i # n0  BY <3>b, <3>d
      <3>a. i \in 1..(n0 - 1) /\ i \in 1..n0 /\ i + 1 \in 1..n0  BY <3>0
      <3>1. i \in 1..(Len(shown) - 1) /\ i \in DOMAIN shown /\ i + 1 \in DOMAIN shown  BY <3>0, <3>a DEF n0
      <3> QED  BY <1>3, <1>6, <3>1 DEF ShownInOrder
    <2> QED  BY <2>1, <2>2
  <1>8. ASSUME NEW i \in DOMAIN shown, shown[i].of = n
        PROVE  shown[i].kind \notin {"final", "error"} /\ (shown[i].kind = kind => kind \in {"progress", "live"})
    BY <1>2, <1>8
  <1>9. ASSUME NEW i \in DOMAIN shown', NEW j \in DOMAIN shown', shown'[i].of = shown'[j].of
        PROVE  /\ i < j => shown'[i].kind \notin {"final", "error"}
               /\ shown'[i].kind = shown'[j].kind /\ i # j => shown'[i].kind \in {"progress", "live"}
    <2>1. CASE i \in DOMAIN shown /\ j \in DOMAIN shown
      BY <1>3, <1>6, <1>9, <2>1 DEF ShownInOrder
    <2>2. CASE i \in DOMAIN shown /\ j = Len(shown) + 1
      BY <1>1, <1>3, <1>8, <1>9, <2>2
    <2>3. CASE i = Len(shown) + 1 /\ j \in DOMAIN shown
      <3>1. ~(i < j)  BY <1>3, <2>3
      <3> QED  BY <1>1, <1>3, <1>8, <1>9, <2>3, <3>1
    <2>4. CASE i = Len(shown) + 1 /\ j = Len(shown) + 1  BY <2>4
    <2> QED  BY <1>3, <2>1, <2>2, <2>3, <2>4
  <1>10. ASSUME NEW j \in DOMAIN shown', shown'[j].kind = "live"
         PROVE  \E i \in 1..(j - 1) : shown'[i] = [kind |-> "reasoning", of |-> shown'[j].of]
    <2>1. CASE j \in DOMAIN shown
      <3>1. shown[j].kind = "live" /\ shown'[j] = shown[j]  BY <1>3, <1>10, <2>1
      <3>2. PICK i \in 1..(j - 1) : shown[i] = [kind |-> "reasoning", of |-> shown[j].of]
        BY <1>6, <2>1, <3>1 DEF ShownInOrder
      <3>3. i \in DOMAIN shown  BY <1>3, <2>1
      <3> QED  BY <1>3, <3>1, <3>2, <3>3
    <2>2. CASE j = Len(shown) + 1
      <3>1. Of("reasoning", n) \in Events /\ shown'[j].of = n  BY <1>1, <1>3, <1>10, <2>2
      <3>2. PICK i \in DOMAIN shown : shown[i] = Of("reasoning", n)  BY <3>1 DEF Events
      <3>3. i \in 1..(j - 1)  BY <1>3, <2>2
      <3> QED  BY <1>3, <3>1, <3>2, <3>3 DEF Of
    <2> QED  BY <1>3, <2>1, <2>2
  <1>11. ShownInOrder'  BY <1>7, <1>9, <1>10 DEF ShownInOrder
  <1> QED  BY <1>4, <1>5, <1>11 DEF e

\* A chunk names the completion of the stream at most.
LEMMA ReadsFacts ==
    ASSUME StreamInv, NEW withId, Reads(withId)
    PROVE  /\ request.at = "reading"
           /\ steering' \in SteeringRecord
           /\ steering'.pending = steering.pending /\ steering'.event = steering.event /\ steering'.sent = steering.sent
           /\ steering'.active = steering.active /\ steering'.id \in {NoCompletion, request.n}
  <1>1. steering \in SteeringRecord
        /\ request.n \in Nat /\ request.at = "reading" /\ steering.id \in {NoCompletion, request.n}
    BY DEF StreamInv, StreamShape, RequestRecord, SteeringRecord, MonitorRecord, SummarizerRecord, SteeringOfStream, Reads
  <1>2. CASE steering' = steering  BY <1>1, <1>2
  <1>3. CASE steering' = [steering EXCEPT !.id = request.n, !.idEvent = TRUE]  BY <1>1, <1>3 DEF SteeringRecord
  <1> QED  BY <1>1, <1>2, <1>3 DEF Reads

LEMMA PieceFacts ==
    ASSUME StreamInv
    PROVE  LET q == Piece(request)
           IN  /\ q \in RequestRecord
               /\ q.at = request.at /\ q.n = request.n /\ q.reasoning = request.reasoning /\ q.preamble = request.preamble
               /\ q.repeats = request.repeats
  <1> DEFINE p == request.pieces + 1
             q == Piece(request)
  <1>1. p \in Nat  BY DEF StreamInv, StreamShape, RequestRecord, SteeringRecord, MonitorRecord, SummarizerRecord
  <1>2. q = [request EXCEPT !.pieces = p, !.seen = TRUE]  BY DEF Piece
  <1> HIDE DEF p, q
  <1>3. q \in RequestRecord
    BY <1>1, <1>2 DEF StreamInv, StreamShape, RequestRecord, SteeringRecord, MonitorRecord, SummarizerRecord
  <1>4. /\ q.at = request.at /\ q.n = request.n /\ q.reasoning = request.reasoning /\ q.preamble = request.preamble
        /\ q.repeats = request.repeats
    BY <1>2 DEF StreamInv, StreamShape, RequestRecord, SteeringRecord, MonitorRecord, SummarizerRecord
  <1> QED  BY <1>3, <1>4 DEF q

\* A chunk that is read: what it makes of the request, and what it shows.
LEMMA ChunkSteps ==
    ASSUME StreamInv, NEW withId \in BOOLEAN,
           PrefillShown(withId) \/ ReasoningComes(withId) \/ ContentComes(withId) \/ FragmentComes(withId)
    PROVE  StreamInv'
  <1> DEFINE q == Piece(request)
  <1>1. /\ q \in RequestRecord
        /\ q.at = request.at /\ q.n = request.n /\ q.reasoning = request.reasoning /\ q.preamble = request.preamble
        /\ q.repeats = request.repeats
    BY PieceFacts
  <1> HIDE DEF q
  <1>2. Reads(withId)  BY DEF PrefillShown, ReasoningComes, ContentComes, FragmentComes
  <1>3. /\ request.at = "reading" /\ request.n \in Nat
        /\ steering' \in SteeringRecord
        /\ steering'.pending = steering.pending /\ steering'.event = steering.event /\ steering'.sent = steering.sent
        /\ steering'.active = steering.active /\ steering'.id \in {NoCompletion, request.n}
    BY <1>2, ReadsFacts DEF StreamInv, StreamShape, RequestRecord, SteeringRecord, MonitorRecord, SummarizerRecord
  <1>4. Of("final", request.n) \notin Events /\ Of("error", request.n) \notin Events
        /\ (~request.reasoning => Of("reasoning", request.n) \notin Events)
        /\ (request.preamble # "shown" => Of("preamble", request.n) \notin Events)
    BY <1>3 DEF StreamInv, NotYetShown
  <1>5. \A kind \in {"progress", "reasoning", "preamble"} : Of(kind, request.n) \in Event
    BY <1>3 DEF Of, Event
  <1>6. CASE PrefillShown(withId)
    <2> DEFINE x == q
    <2>1. request' = x /\ UNCHANGED <<monitor, controls, summarizer>>
      BY <1>6 DEF q, PrefillShown, ReasoningComes, ContentComes, FragmentComes
    <2>2. /\ x \in RequestRecord
          /\ x.at = "reading" /\ x.n = request.n /\ x.repeats = request.repeats
          /\ (x.reasoning <=> request.reasoning)
          /\ (x.preamble # "shown" => request.preamble # "shown")
      BY <1>1, <1>3, <1>6 DEF RequestRecord
    <2> HIDE DEF x
    <2>3. Emits("progress", request.n)  BY <1>6 DEF PrefillShown, ReasoningComes, ContentComes, FragmentComes
    <2>4. ShownInOrder' /\ shown' \in Seq(Event) /\ Events' = Events \cup {Of("progress", request.n)}
      BY <1>3, <1>4, <1>5, <1>6, <2>3, ShownGrows
    <2>5. StreamShape'  BY <1>3, <2>1, <2>2, <2>4 DEF StreamInv, StreamShape, RequestRecord, SteeringRecord, MonitorRecord, SummarizerRecord
    <2>6. TasksOfStream'  BY <1>3, <2>1, <2>2 DEF StreamInv, TasksOfStream
    <2>7. SteeringOfStream'  BY <1>3, <2>1, <2>2 DEF StreamInv, SteeringOfStream
    <2>8. NotYetShown'  BY <1>3, <1>4, <1>6, <2>1, <2>2, <2>4 DEF StreamInv, NotYetShown, TasksOfStream, Of
    <2> QED  BY <2>4, <2>5, <2>6, <2>7, <2>8 DEF StreamInv
  <1>7. CASE ReasoningComes(withId) /\ request.reasoning
    <2> DEFINE x == [q EXCEPT !.reasoning = TRUE]
    <2>1. request' = x /\ UNCHANGED <<monitor, controls, summarizer>>
      BY <1>7 DEF q, PrefillShown, ReasoningComes, ContentComes, FragmentComes
    <2>2. /\ x \in RequestRecord
          /\ x.at = "reading" /\ x.n = request.n /\ x.repeats = request.repeats
          /\ (x.reasoning <=> TRUE)
          /\ (x.preamble # "shown" => request.preamble # "shown")
      BY <1>1, <1>3, <1>7 DEF RequestRecord
    <2> HIDE DEF x
    <2>3. UNCHANGED shown  BY <1>7 DEF PrefillShown, ReasoningComes, ContentComes, FragmentComes
    <2>4. ShownInOrder' /\ shown' \in Seq(Event) /\ Events' = Events  BY <2>3 DEF StreamInv, StreamShape, RequestRecord, SteeringRecord, MonitorRecord, SummarizerRecord, ShownInOrder, Events
    <2>5. StreamShape'  BY <1>3, <2>1, <2>2, <2>4 DEF StreamInv, StreamShape, RequestRecord, SteeringRecord, MonitorRecord, SummarizerRecord
    <2>6. TasksOfStream'  BY <1>3, <2>1, <2>2 DEF StreamInv, TasksOfStream
    <2>7. SteeringOfStream'  BY <1>3, <2>1, <2>2 DEF StreamInv, SteeringOfStream
    <2>8. NotYetShown'  BY <1>3, <1>4, <1>7, <2>1, <2>2, <2>4 DEF StreamInv, NotYetShown, TasksOfStream, Of
    <2> QED  BY <2>4, <2>5, <2>6, <2>7, <2>8 DEF StreamInv
  <1>8. CASE ReasoningComes(withId) /\ ~request.reasoning
    <2> DEFINE x == [q EXCEPT !.reasoning = TRUE]
    <2>1. request' = x /\ UNCHANGED <<monitor, controls>> /\ summarizer' = [at |-> "sleeping", for |-> request.n, made |-> 0]
      BY <1>8 DEF q, PrefillShown, ReasoningComes, ContentComes, FragmentComes
    <2>2. /\ x \in RequestRecord
          /\ x.at = "reading" /\ x.n = request.n /\ x.repeats = request.repeats
          /\ (x.reasoning <=> TRUE)
          /\ (x.preamble # "shown" => request.preamble # "shown")
      BY <1>1, <1>3, <1>8 DEF RequestRecord
    <2> HIDE DEF x
    <2>3. Emits("reasoning", request.n)  BY <1>8 DEF PrefillShown, ReasoningComes, ContentComes, FragmentComes
    <2>4. ShownInOrder' /\ shown' \in Seq(Event) /\ Events' = Events \cup {Of("reasoning", request.n)}
      BY <1>3, <1>4, <1>5, <1>8, <2>3, ShownGrows
    <2>5. StreamShape'  BY <1>3, <2>1, <2>2, <2>4 DEF StreamInv, StreamShape, RequestRecord, SteeringRecord, MonitorRecord, SummarizerRecord
    <2>6. TasksOfStream'  BY <1>3, <2>1, <2>2 DEF StreamInv, TasksOfStream
    <2>7. SteeringOfStream'  BY <1>3, <2>1, <2>2 DEF StreamInv, SteeringOfStream
    <2>8. NotYetShown'  BY <1>3, <1>4, <1>8, <2>1, <2>2, <2>4 DEF StreamInv, NotYetShown, TasksOfStream, Of
    <2> QED  BY <2>4, <2>5, <2>6, <2>7, <2>8 DEF StreamInv
  <1>9. CASE ContentComes(withId)
    <2>0. PICK tagged \in BOOLEAN : request' = [Piece(request) EXCEPT !.preamble = IF tagged /\ @ = "none" THEN "kept" ELSE @]
      BY <1>9 DEF ContentComes
    <2> DEFINE x == [q EXCEPT !.preamble = IF tagged /\ @ = "none" THEN "kept" ELSE @]
    <2>1. request' = x /\ UNCHANGED <<monitor, controls, summarizer>>
      BY <1>9, <2>0 DEF q, PrefillShown, ReasoningComes, ContentComes, FragmentComes
    <2>2. /\ x \in RequestRecord
          /\ x.at = "reading" /\ x.n = request.n /\ x.repeats = request.repeats
          /\ (x.reasoning <=> request.reasoning)
          /\ (x.preamble # "shown" => request.preamble # "shown")
      BY <1>1, <1>3, <1>9 DEF RequestRecord
    <2> HIDE DEF x
    <2>3. UNCHANGED shown  BY <1>9 DEF PrefillShown, ReasoningComes, ContentComes, FragmentComes
    <2>4. ShownInOrder' /\ shown' \in Seq(Event) /\ Events' = Events  BY <2>3 DEF StreamInv, StreamShape, RequestRecord, SteeringRecord, MonitorRecord, SummarizerRecord, ShownInOrder, Events
    <2>5. StreamShape'  BY <1>3, <2>1, <2>2, <2>4 DEF StreamInv, StreamShape, RequestRecord, SteeringRecord, MonitorRecord, SummarizerRecord
    <2>6. TasksOfStream'  BY <1>3, <2>1, <2>2 DEF StreamInv, TasksOfStream
    <2>7. SteeringOfStream'  BY <1>3, <2>1, <2>2 DEF StreamInv, SteeringOfStream
    <2>8. NotYetShown'  BY <1>3, <1>4, <1>9, <2>1, <2>2, <2>4 DEF StreamInv, NotYetShown, TasksOfStream, Of
    <2> QED  BY <2>4, <2>5, <2>6, <2>7, <2>8 DEF StreamInv
  <1>10. CASE FragmentComes(withId) /\ request.preamble # "kept"
    <2> DEFINE x == [q EXCEPT !.preamble = IF @ = "kept" THEN "shown" ELSE @]
    <2>1. request' = x /\ UNCHANGED <<monitor, controls, summarizer>>
      BY <1>10 DEF q, PrefillShown, ReasoningComes, ContentComes, FragmentComes
    <2>2. /\ x \in RequestRecord
          /\ x.at = "reading" /\ x.n = request.n /\ x.repeats = request.repeats
          /\ (x.reasoning <=> request.reasoning)
          /\ (x.preamble # "shown" => request.preamble # "shown")
      BY <1>1, <1>3, <1>10 DEF RequestRecord
    <2> HIDE DEF x
    <2>3. UNCHANGED shown  BY <1>10 DEF PrefillShown, ReasoningComes, ContentComes, FragmentComes
    <2>4. ShownInOrder' /\ shown' \in Seq(Event) /\ Events' = Events  BY <2>3 DEF StreamInv, StreamShape, RequestRecord, SteeringRecord, MonitorRecord, SummarizerRecord, ShownInOrder, Events
    <2>5. StreamShape'  BY <1>3, <2>1, <2>2, <2>4 DEF StreamInv, StreamShape, RequestRecord, SteeringRecord, MonitorRecord, SummarizerRecord
    <2>6. TasksOfStream'  BY <1>3, <2>1, <2>2 DEF StreamInv, TasksOfStream
    <2>7. SteeringOfStream'  BY <1>3, <2>1, <2>2 DEF StreamInv, SteeringOfStream
    <2>8. NotYetShown'  BY <1>3, <1>4, <1>10, <2>1, <2>2, <2>4 DEF StreamInv, NotYetShown, TasksOfStream, Of
    <2> QED  BY <2>4, <2>5, <2>6, <2>7, <2>8 DEF StreamInv
  <1>11. CASE FragmentComes(withId) /\ request.preamble = "kept"
    <2> DEFINE x == [q EXCEPT !.preamble = IF @ = "kept" THEN "shown" ELSE @]
    <2>1. request' = x /\ UNCHANGED <<monitor, controls, summarizer>>
      BY <1>11 DEF q, PrefillShown, ReasoningComes, ContentComes, FragmentComes
    <2>2. /\ x \in RequestRecord
          /\ x.at = "reading" /\ x.n = request.n /\ x.repeats = request.repeats
          /\ (x.reasoning <=> request.reasoning)
          /\ (x.preamble # "shown" => request.preamble # "shown") /\ x.preamble = "shown"
      BY <1>1, <1>3, <1>11 DEF RequestRecord
    <2> HIDE DEF x
    <2>3. Emits("preamble", request.n)  BY <1>11 DEF PrefillShown, ReasoningComes, ContentComes, FragmentComes
    <2>4. ShownInOrder' /\ shown' \in Seq(Event) /\ Events' = Events \cup {Of("preamble", request.n)}
      BY <1>3, <1>4, <1>5, <1>11, <2>3, ShownGrows
    <2>5. StreamShape'  BY <1>3, <2>1, <2>2, <2>4 DEF StreamInv, StreamShape, RequestRecord, SteeringRecord, MonitorRecord, SummarizerRecord
    <2>6. TasksOfStream'  BY <1>3, <2>1, <2>2 DEF StreamInv, TasksOfStream
    <2>7. SteeringOfStream'  BY <1>3, <2>1, <2>2 DEF StreamInv, SteeringOfStream
    <2>8. NotYetShown'  BY <1>3, <1>4, <1>11, <2>1, <2>2, <2>4 DEF StreamInv, NotYetShown, TasksOfStream, Of
    <2> QED  BY <2>4, <2>5, <2>6, <2>7, <2>8 DEF StreamInv
  <1> QED  BY <1>6, <1>7, <1>8, <1>9, <1>10, <1>11

LEMMA AnotherSummary ==
    ASSUME NEW u \in SummarizerRecord
    PROVE  [u EXCEPT !.at = "sleeping", !.made = @ + 1] \in SummarizerRecord
  <1> DEFINE n == u.made + 1
  <1>1. n \in Nat  BY DEF SummarizerRecord
  <1> HIDE DEF n
  <1>2. [u EXCEPT !.at = "sleeping", !.made = n] \in SummarizerRecord  BY <1>1 DEF SummarizerRecord
  <1> QED  BY <1>2 DEF n

\* What may still be shown of the request.
LEMMA MayShow ==
    ASSUME StreamInv
    PROVE  /\ request.n \in Nat /\ \A kind : [kind |-> kind, of |-> 0] \in Event => Of(kind, request.n) \in Event
           /\ request.at \notin {"between", "over"} => Of("final", request.n) \notin Events /\ Of("error", request.n) \notin Events
           /\ monitor.at = "posting" =>
                /\ monitor.for = request.n /\ request.at \in {"opening", "reading", "closing"}
                /\ Of("applied", request.n) \notin Events /\ Of("deferred", request.n) \notin Events
           /\ summarizer.at # "none" =>
                /\ summarizer.for = request.n /\ request.at \in {"reading", "closing", "ending"}
                /\ Of("reasoning", request.n) \in Events
  <1>1. request.n \in Nat  BY DEF StreamInv, StreamShape, RequestRecord
  <1>2. \A kind : [kind |-> kind, of |-> 0] \in Event => Of(kind, request.n) \in Event
    BY <1>1 DEF Of, Event
  <1>3. /\ request.at \notin {"between", "over"} => Of("final", request.n) \notin Events /\ Of("error", request.n) \notin Events
        /\ summarizer.at # "none" => Of("reasoning", request.n) \in Events
    BY DEF StreamInv, NotYetShown
  <1>4. /\ monitor.at = "posting" => monitor.for = request.n /\ request.at \in {"opening", "reading", "closing"}
        /\ summarizer.at # "none" => summarizer.for = request.n /\ request.at \in {"reading", "closing", "ending"}
    BY DEF StreamInv, TasksOfStream
  <1>5. monitor.at = "posting" => Of("applied", request.n) \notin Events /\ Of("deferred", request.n) \notin Events
    BY <1>4 DEF StreamInv, NotYetShown
  <1> QED  BY <1>1, <1>2, <1>3, <1>4, <1>5

LEMMA KindsOfEvents ==
    \A kind \in {"prefill", "progress", "reasoning", "preamble", "applied", "deferred", "live", "final", "error"} :
      [kind |-> kind, of |-> 0] \in Event
  BY DEF Event

LEMMA AnsweredStep == ASSUME StreamInv, ControlAnswered PROVE StreamInv'
  <1>f. /\ request.n \in Nat
        /\ \A kind \in {"prefill", "progress", "reasoning", "preamble", "applied", "deferred", "live", "final", "error"} :
             Of(kind, request.n) \in Event
        /\ request.at \notin {"between", "over"} => Of("final", request.n) \notin Events /\ Of("error", request.n) \notin Events
        /\ ~request.repeats
        /\ monitor.at = "posting" =>
             /\ monitor.for = request.n /\ request.at \in {"opening", "reading", "closing"}
             /\ Of("applied", request.n) \notin Events /\ Of("deferred", request.n) \notin Events
        /\ summarizer.at # "none" =>
             /\ summarizer.for = request.n /\ request.at \in {"reading", "closing", "ending"}
             /\ Of("reasoning", request.n) \in Events
    BY MayShow, KindsOfEvents DEF StreamInv, TasksOfStream
  <1>1. CASE ControlAnswered /\ Emits("applied", request.n)
    <2>1. monitor' = [monitor EXCEPT !.at = "waiting"]
          /\ UNCHANGED <<request, steering, summarizer, controls>>
      BY <1>f, <1>1 DEF ControlAnswered
    <2>2. Emits("applied", request.n)  BY <1>f, <1>1 DEF ControlAnswered
    <2>3. ShownInOrder' /\ shown' \in Seq(Event) /\ Events' = Events \cup {Of("applied", request.n)}
      BY <1>f, <1>1, <2>2, ShownGrows DEF ControlAnswered
    <2>m. monitor' \in MonitorRecord /\ monitor'.at = "waiting" /\ monitor'.for = monitor.for
      BY <1>f, <1>1, <2>1 DEF StreamInv, StreamShape, MonitorRecord, NoSummarizer, TasksOfStream
    <2>4. StreamShape'  BY <2>1, <2>3, <2>m DEF StreamInv, StreamShape
    <2>5. TasksOfStream'  BY <1>f, <1>1, <2>1, <2>m DEF StreamInv, TasksOfStream, ControlAnswered
    <2>6. SteeringOfStream'  BY <1>f, <1>1, <2>1, <2>m DEF StreamInv, TasksOfStream, SteeringOfStream, ControlAnswered
    <2>7. NotYetShown'  BY <1>f, <1>1, <2>1, <2>3, <2>m DEF StreamInv, TasksOfStream, SteeringOfStream, NotYetShown, Of, ControlAnswered
    <2> QED  BY <2>3, <2>4, <2>5, <2>6, <2>7 DEF StreamInv
  <1>2. CASE ControlAnswered /\ Emits("deferred", request.n)
    <2>1. monitor' = [monitor EXCEPT !.at = "waiting"]
          /\ UNCHANGED <<request, steering, summarizer, controls>>
      BY <1>f, <1>2 DEF ControlAnswered
    <2>2. Emits("deferred", request.n)  BY <1>f, <1>2 DEF ControlAnswered
    <2>3. ShownInOrder' /\ shown' \in Seq(Event) /\ Events' = Events \cup {Of("deferred", request.n)}
      BY <1>f, <1>2, <2>2, ShownGrows DEF ControlAnswered
    <2>m. monitor' \in MonitorRecord /\ monitor'.at = "waiting" /\ monitor'.for = monitor.for
      BY <1>f, <1>2, <2>1 DEF StreamInv, StreamShape, MonitorRecord, NoSummarizer, TasksOfStream
    <2>4. StreamShape'  BY <2>1, <2>3, <2>m DEF StreamInv, StreamShape
    <2>5. TasksOfStream'  BY <1>f, <1>2, <2>1, <2>m DEF StreamInv, TasksOfStream, ControlAnswered
    <2>6. SteeringOfStream'  BY <1>f, <1>2, <2>1, <2>m DEF StreamInv, TasksOfStream, SteeringOfStream, ControlAnswered
    <2>7. NotYetShown'  BY <1>f, <1>2, <2>1, <2>3, <2>m DEF StreamInv, TasksOfStream, SteeringOfStream, NotYetShown, Of, ControlAnswered
    <2> QED  BY <2>3, <2>4, <2>5, <2>6, <2>7 DEF StreamInv
  <1> QED  BY <1>f, <1>1, <1>2 DEF ControlAnswered

LEMMA SummaryComesStep == ASSUME StreamInv, SummaryComes PROVE StreamInv'
  <1>f. /\ request.n \in Nat
        /\ \A kind \in {"prefill", "progress", "reasoning", "preamble", "applied", "deferred", "live", "final", "error"} :
             Of(kind, request.n) \in Event
        /\ request.at \notin {"between", "over"} => Of("final", request.n) \notin Events /\ Of("error", request.n) \notin Events
        /\ ~request.repeats
        /\ monitor.at = "posting" =>
             /\ monitor.for = request.n /\ request.at \in {"opening", "reading", "closing"}
             /\ Of("applied", request.n) \notin Events /\ Of("deferred", request.n) \notin Events
        /\ summarizer.at # "none" =>
             /\ summarizer.for = request.n /\ request.at \in {"reading", "closing", "ending"}
             /\ Of("reasoning", request.n) \in Events
    BY MayShow, KindsOfEvents DEF StreamInv, TasksOfStream
  <1>1. CASE SummaryComes /\ Emits("live", summarizer.for)
    <2>1. summarizer' = [summarizer EXCEPT !.at = "sleeping", !.made = @ + 1]
          /\ UNCHANGED <<request, steering, monitor, controls>>
      BY <1>f, <1>1 DEF SummaryComes
    <2>2. Emits("live", request.n)  BY <1>f, <1>1 DEF SummaryComes
    <2>3. ShownInOrder' /\ shown' \in Seq(Event) /\ Events' = Events \cup {Of("live", request.n)}
      BY <1>f, <1>1, <2>2, ShownGrows DEF SummaryComes
    <2>s. summarizer' \in SummarizerRecord /\ summarizer'.at = "sleeping" /\ summarizer'.for = summarizer.for
      BY <1>f, <1>1, <2>1, AnotherSummary DEF StreamInv, StreamShape, SummarizerRecord, NoSummarizer, TasksOfStream
    <2>4. StreamShape'  BY <2>1, <2>3, <2>s DEF StreamInv, StreamShape
    <2>5. TasksOfStream'  BY <1>f, <1>1, <2>1, <2>s DEF StreamInv, TasksOfStream, SummaryComes
    <2>6. SteeringOfStream'  BY <1>f, <1>1, <2>1, <2>s DEF StreamInv, TasksOfStream, SteeringOfStream, SummaryComes
    <2>7. NotYetShown'  BY <1>f, <1>1, <2>1, <2>3, <2>s DEF StreamInv, TasksOfStream, SteeringOfStream, NotYetShown, Of, SummaryComes
    <2> QED  BY <2>3, <2>4, <2>5, <2>6, <2>7 DEF StreamInv
  <1>2. CASE SummaryComes /\ UNCHANGED shown
    <2>1. summarizer' = [summarizer EXCEPT !.at = "sleeping", !.made = @ + 1]
          /\ UNCHANGED <<request, steering, monitor, controls>>
      BY <1>f, <1>2 DEF SummaryComes
    <2>2. UNCHANGED shown  BY <1>2 DEF SummaryComes
    <2>3. ShownInOrder' /\ shown' \in Seq(Event) /\ Events' = Events  BY <2>2 DEF StreamInv, StreamShape, ShownInOrder, Events
    <2>s. summarizer' \in SummarizerRecord /\ summarizer'.at = "sleeping" /\ summarizer'.for = summarizer.for
      BY <1>f, <1>2, <2>1, AnotherSummary DEF StreamInv, StreamShape, SummarizerRecord, NoSummarizer, TasksOfStream
    <2>4. StreamShape'  BY <2>1, <2>3, <2>s DEF StreamInv, StreamShape
    <2>5. TasksOfStream'  BY <1>f, <1>2, <2>1, <2>s DEF StreamInv, TasksOfStream, SummaryComes
    <2>6. SteeringOfStream'  BY <1>f, <1>2, <2>1, <2>s DEF StreamInv, TasksOfStream, SteeringOfStream, SummaryComes
    <2>7. NotYetShown'  BY <1>f, <1>2, <2>1, <2>3, <2>s DEF StreamInv, TasksOfStream, SteeringOfStream, NotYetShown, Of, SummaryComes
    <2> QED  BY <2>3, <2>4, <2>5, <2>6, <2>7 DEF StreamInv
  <1> QED  BY <1>1, <1>2 DEF SummaryComes

LEMMA StreamOverStep == ASSUME StreamInv, SummarizerCancelled PROVE StreamInv'
  <1>f. /\ request.n \in Nat
        /\ \A kind \in {"prefill", "progress", "reasoning", "preamble", "applied", "deferred", "live", "final", "error"} :
             Of(kind, request.n) \in Event
        /\ request.at \notin {"between", "over"} => Of("final", request.n) \notin Events /\ Of("error", request.n) \notin Events
        /\ ~request.repeats
        /\ monitor.at = "posting" =>
             /\ monitor.for = request.n /\ request.at \in {"opening", "reading", "closing"}
             /\ Of("applied", request.n) \notin Events /\ Of("deferred", request.n) \notin Events
        /\ summarizer.at # "none" =>
             /\ summarizer.for = request.n /\ request.at \in {"reading", "closing", "ending"}
             /\ Of("reasoning", request.n) \in Events
    BY MayShow, KindsOfEvents DEF StreamInv, TasksOfStream
  <1>1. CASE SummarizerCancelled /\ Repeatable(request)
    <2>1. request' = [request EXCEPT !.at = "plain", !.streamed = FALSE, !.repeats = FALSE, !.reasoning = FALSE] /\ summarizer' = NoSummarizer
          /\ UNCHANGED <<steering, monitor, controls>>
      BY <1>f, <1>1 DEF SummarizerCancelled, Silenced, NoSummarizer, Repeatable
    <2>2. UNCHANGED shown  BY <1>1 DEF SummarizerCancelled, Silenced, NoSummarizer, Repeatable
    <2>3. ShownInOrder' /\ shown' \in Seq(Event) /\ Events' = Events  BY <2>2 DEF StreamInv, StreamShape, ShownInOrder, Events
    <2>r. request' \in RequestRecord /\ request'.at = "plain" /\ request'.n = request.n /\ request'.reasoning = FALSE /\ request'.preamble = request.preamble /\ request'.repeats = FALSE
      BY <1>f, <1>1, <2>1 DEF StreamInv, StreamShape, RequestRecord, NoSummarizer, TasksOfStream
    <2>s. summarizer' \in SummarizerRecord
      BY <1>f, <1>1, <2>1 DEF StreamInv, StreamShape, SummarizerRecord, NoSummarizer, TasksOfStream
    <2>4. StreamShape'  BY <2>1, <2>3, <2>r, <2>s DEF StreamInv, StreamShape
    <2>5. TasksOfStream'  BY <1>f, <1>1, <2>1, <2>r, <2>s DEF StreamInv, TasksOfStream, SummarizerCancelled, Silenced, NoSummarizer, Repeatable
    <2>6. SteeringOfStream'  BY <1>f, <1>1, <2>1, <2>r, <2>s DEF StreamInv, TasksOfStream, SteeringOfStream, SummarizerCancelled, Silenced, NoSummarizer, Repeatable
    <2>7. NotYetShown'  BY <1>f, <1>1, <2>1, <2>3, <2>r, <2>s DEF StreamInv, TasksOfStream, SteeringOfStream, NotYetShown, Of, SummarizerCancelled, Silenced, NoSummarizer, Repeatable
    <2> QED  BY <2>3, <2>4, <2>5, <2>6, <2>7 DEF StreamInv
  <1>2. CASE SummarizerCancelled /\ ~Repeatable(request) /\ request.broken
    <2>1. request' = [request EXCEPT !.at = "over"] /\ summarizer' = NoSummarizer
          /\ UNCHANGED <<steering, monitor, controls>>
      BY <1>f, <1>2 DEF SummarizerCancelled, Silenced, NoSummarizer, Repeatable
    <2>2. Emits("error", request.n)  BY <1>f, <1>2 DEF SummarizerCancelled, Silenced, NoSummarizer, Repeatable
    <2>3. ShownInOrder' /\ shown' \in Seq(Event) /\ Events' = Events \cup {Of("error", request.n)}
      BY <1>f, <1>2, <2>2, ShownGrows DEF SummarizerCancelled, Silenced, NoSummarizer, Repeatable
    <2>r. request' \in RequestRecord /\ request'.at = "over" /\ request'.n = request.n /\ request'.reasoning = request.reasoning /\ request'.preamble = request.preamble /\ request'.repeats = request.repeats
      BY <1>f, <1>2, <2>1 DEF StreamInv, StreamShape, RequestRecord, NoSummarizer, TasksOfStream
    <2>s. summarizer' \in SummarizerRecord
      BY <1>f, <1>2, <2>1 DEF StreamInv, StreamShape, SummarizerRecord, NoSummarizer, TasksOfStream
    <2>4. StreamShape'  BY <2>1, <2>3, <2>r, <2>s DEF StreamInv, StreamShape
    <2>5. TasksOfStream'  BY <1>f, <1>2, <2>1, <2>r, <2>s DEF StreamInv, TasksOfStream, SummarizerCancelled, Silenced, NoSummarizer, Repeatable
    <2>6. SteeringOfStream'  BY <1>f, <1>2, <2>1, <2>r, <2>s DEF StreamInv, TasksOfStream, SteeringOfStream, SummarizerCancelled, Silenced, NoSummarizer, Repeatable
    <2>7. NotYetShown'  BY <1>f, <1>2, <2>1, <2>3, <2>r, <2>s DEF StreamInv, TasksOfStream, SteeringOfStream, NotYetShown, Of, SummarizerCancelled, Silenced, NoSummarizer, Repeatable
    <2> QED  BY <2>3, <2>4, <2>5, <2>6, <2>7 DEF StreamInv
  <1>3. CASE SummarizerCancelled /\ ~Repeatable(request) /\ ~request.broken
    <2>1. request' = [request EXCEPT !.at = "response"] /\ summarizer' = NoSummarizer
          /\ UNCHANGED <<steering, monitor, controls>>
      BY <1>f, <1>3 DEF SummarizerCancelled, Silenced, NoSummarizer, Repeatable
    <2>2. UNCHANGED shown  BY <1>3 DEF SummarizerCancelled, Silenced, NoSummarizer, Repeatable
    <2>3. ShownInOrder' /\ shown' \in Seq(Event) /\ Events' = Events  BY <2>2 DEF StreamInv, StreamShape, ShownInOrder, Events
    <2>r. request' \in RequestRecord /\ request'.at = "response" /\ request'.n = request.n /\ request'.reasoning = request.reasoning /\ request'.preamble = request.preamble /\ request'.repeats = request.repeats
      BY <1>f, <1>3, <2>1 DEF StreamInv, StreamShape, RequestRecord, NoSummarizer, TasksOfStream
    <2>s. summarizer' \in SummarizerRecord
      BY <1>f, <1>3, <2>1 DEF StreamInv, StreamShape, SummarizerRecord, NoSummarizer, TasksOfStream
    <2>4. StreamShape'  BY <2>1, <2>3, <2>r, <2>s DEF StreamInv, StreamShape
    <2>5. TasksOfStream'  BY <1>f, <1>3, <2>1, <2>r, <2>s DEF StreamInv, TasksOfStream, SummarizerCancelled, Silenced, NoSummarizer, Repeatable
    <2>6. SteeringOfStream'  BY <1>f, <1>3, <2>1, <2>r, <2>s DEF StreamInv, TasksOfStream, SteeringOfStream, SummarizerCancelled, Silenced, NoSummarizer, Repeatable
    <2>7. NotYetShown'  BY <1>f, <1>3, <2>1, <2>3, <2>r, <2>s DEF StreamInv, TasksOfStream, SteeringOfStream, NotYetShown, Of, SummarizerCancelled, Silenced, NoSummarizer, Repeatable
    <2> QED  BY <2>3, <2>4, <2>5, <2>6, <2>7 DEF StreamInv
  <1> QED  BY <1>1, <1>2, <1>3 DEF SummarizerCancelled

LEMMA HandledStep == ASSUME StreamInv, ResponseHandled PROVE StreamInv'
  <1>f. /\ request.n \in Nat
        /\ \A kind \in {"prefill", "progress", "reasoning", "preamble", "applied", "deferred", "live", "final", "error"} :
             Of(kind, request.n) \in Event
        /\ request.at \notin {"between", "over"} => Of("final", request.n) \notin Events /\ Of("error", request.n) \notin Events
        /\ ~request.repeats
        /\ monitor.at = "posting" =>
             /\ monitor.for = request.n /\ request.at \in {"opening", "reading", "closing"}
             /\ Of("applied", request.n) \notin Events /\ Of("deferred", request.n) \notin Events
        /\ summarizer.at # "none" =>
             /\ summarizer.for = request.n /\ request.at \in {"reading", "closing", "ending"}
             /\ Of("reasoning", request.n) \in Events
    BY MayShow, KindsOfEvents DEF StreamInv, TasksOfStream
  <1>0. PICK at \in {"between", "over"} : request' = [request EXCEPT !.at = at]  BY DEF ResponseHandled
  <1>1. CASE ResponseHandled /\ request.reasoning
    <2>1. request' = [request EXCEPT !.at = at]
          /\ UNCHANGED <<steering, monitor, summarizer, controls>>
      BY <1>0, <1>f, <1>1 DEF ResponseHandled
    <2>2. Emits("final", request.n)  BY <1>0, <1>f, <1>1 DEF ResponseHandled
    <2>3. ShownInOrder' /\ shown' \in Seq(Event) /\ Events' = Events \cup {Of("final", request.n)}
      BY <1>0, <1>f, <1>1, <2>2, ShownGrows DEF ResponseHandled
    <2>r. request' \in RequestRecord /\ request'.at = at /\ request'.n = request.n /\ request'.reasoning = request.reasoning /\ request'.preamble = request.preamble /\ request'.repeats = request.repeats
      BY <1>0, <1>f, <1>1, <2>1 DEF StreamInv, StreamShape, RequestRecord, NoSummarizer, TasksOfStream
    <2>4. StreamShape'  BY <2>1, <2>3, <2>r DEF StreamInv, StreamShape
    <2>5. TasksOfStream'  BY <1>0, <1>f, <1>1, <2>1, <2>r DEF StreamInv, TasksOfStream, ResponseHandled
    <2>6. SteeringOfStream'  BY <1>0, <1>f, <1>1, <2>1, <2>r DEF StreamInv, TasksOfStream, SteeringOfStream, ResponseHandled
    <2>7. NotYetShown'  BY <1>0, <1>f, <1>1, <2>1, <2>3, <2>r DEF StreamInv, TasksOfStream, SteeringOfStream, NotYetShown, Of, ResponseHandled
    <2> QED  BY <2>3, <2>4, <2>5, <2>6, <2>7 DEF StreamInv
  <1>2. CASE ResponseHandled /\ ~request.reasoning
    <2>1. request' = [request EXCEPT !.at = at]
          /\ UNCHANGED <<steering, monitor, summarizer, controls>>
      BY <1>0, <1>f, <1>2 DEF ResponseHandled
    <2>2. UNCHANGED shown  BY <1>0, <1>2 DEF ResponseHandled
    <2>3. ShownInOrder' /\ shown' \in Seq(Event) /\ Events' = Events  BY <2>2 DEF StreamInv, StreamShape, ShownInOrder, Events
    <2>r. request' \in RequestRecord /\ request'.at = at /\ request'.n = request.n /\ request'.reasoning = request.reasoning /\ request'.preamble = request.preamble /\ request'.repeats = request.repeats
      BY <1>0, <1>f, <1>2, <2>1 DEF StreamInv, StreamShape, RequestRecord, NoSummarizer, TasksOfStream
    <2>4. StreamShape'  BY <2>1, <2>3, <2>r DEF StreamInv, StreamShape
    <2>5. TasksOfStream'  BY <1>0, <1>f, <1>2, <2>1, <2>r DEF StreamInv, TasksOfStream, ResponseHandled
    <2>6. SteeringOfStream'  BY <1>0, <1>f, <1>2, <2>1, <2>r DEF StreamInv, TasksOfStream, SteeringOfStream, ResponseHandled
    <2>7. NotYetShown'  BY <1>0, <1>f, <1>2, <2>1, <2>3, <2>r DEF StreamInv, TasksOfStream, SteeringOfStream, NotYetShown, Of, ResponseHandled
    <2> QED  BY <2>3, <2>4, <2>5, <2>6, <2>7 DEF StreamInv
  <1> QED  BY <1>1, <1>2

LEMMA PastEvents ==
    ASSUME StreamInv PROVE \A e \in Events : e.of <= request.n /\ e.of \in Nat
  <1> SUFFICES ASSUME NEW e \in Events PROVE e.of <= request.n /\ e.of \in Nat
    OBVIOUS
  <1>1. shown \in Seq(Event)  BY DEF StreamInv, StreamShape
  <1>2. e \in Event  BY <1>1 DEF Events
  <1> QED  BY <1>2 DEF StreamInv, NotYetShown, Event

\* A request of its own begins with nothing shown, and with no task of the one before.
LEMMA StreamStartsStep == ASSUME StreamInv, StreamStarts PROVE StreamInv'
  <1> DEFINE n == request.n + 1
             q == [request EXCEPT !.at = "opening", !.n = n, !.pieces = 0, !.seen = FALSE, !.broken = FALSE,
                                  !.reasoning = FALSE, !.preamble = "none"]
             s == Unsteered(Consumes(steering))
  <1>1. /\ request' = q /\ steering' = s /\ monitor' = [at |-> "waiting", for |-> n] /\ UNCHANGED <<summarizer, controls>>
        /\ Emits("prefill", n) /\ request.at = "between"
    BY DEF StreamStarts
  <1>2. request.n \in Nat /\ n \in Nat /\ request \in RequestRecord /\ steering \in SteeringRecord /\ n > request.n
    BY DEF StreamInv, StreamShape, RequestRecord
  <1>3. s \in SteeringRecord /\ s.pending = 0 /\ ~s.event /\ s.id = NoCompletion /\ ~s.sent /\ s.active
    BY <1>2 DEF SteeringRecord, Unsteered, Consumes, NoCompletion
  <1> HIDE DEF n, s
  <1>4. q \in RequestRecord /\ q.at = "opening" /\ q.n = n /\ ~q.reasoning /\ q.preamble = "none" /\ q.repeats = request.repeats
    BY <1>2 DEF RequestRecord
  <1> HIDE DEF q
  <1>5. \A e \in Events : e.of <= request.n /\ e.of \in Nat
    BY PastEvents
  <1>6. \A kind : Of(kind, n) \notin Events  BY <1>2, <1>5 DEF Of
  <1>7. Of("prefill", n) \in Event  BY <1>2 DEF Of, Event
  <1>8. ShownInOrder' /\ shown' \in Seq(Event) /\ Events' = Events \cup {Of("prefill", n)}
    BY <1>1, <1>2, <1>6, <1>7, ShownGrows
  <1>9. StreamShape'  BY <1>1, <1>2, <1>3, <1>4, <1>8 DEF StreamInv, StreamShape, MonitorRecord
  <1>10. summarizer.at = "none" /\ ~request.repeats  BY <1>1 DEF StreamInv, TasksOfStream
  <1>11. TasksOfStream'  BY <1>1, <1>4, <1>10 DEF TasksOfStream
  <1>12. SteeringOfStream'  BY <1>1, <1>3, <1>4 DEF StreamInv, SteeringOfStream
  <1>13. \A e \in Events' : e.of <= n  BY <1>2, <1>5, <1>8 DEF Of
  <1>14. NotYetShown'  BY <1>1, <1>4, <1>6, <1>8, <1>10, <1>13 DEF NotYetShown, Of
  <1> QED  BY <1>8, <1>9, <1>11, <1>12, <1>14 DEF StreamInv

LEMMA PlainStartsStep == ASSUME StreamInv, PlainStarts PROVE StreamInv'
  <1> DEFINE n == request.n + 1
             q == [request EXCEPT !.at = "plain", !.n = n, !.seen = FALSE, !.reasoning = FALSE]
             s == Consumes(steering)
  <1>1. /\ request' = q /\ steering' = s /\ UNCHANGED <<monitor, summarizer, controls, shown>> /\ request.at = "between"
    BY DEF PlainStarts
  <1>2. request.n \in Nat /\ n \in Nat /\ request \in RequestRecord /\ steering \in SteeringRecord /\ n > request.n
    BY DEF StreamInv, StreamShape, RequestRecord
  <1>3. s \in SteeringRecord /\ s.pending = 0 /\ ~s.event /\ s.active = steering.active
    BY <1>2 DEF SteeringRecord, Consumes
  <1> HIDE DEF n, s
  <1>4. q \in RequestRecord /\ q.at = "plain" /\ q.n = n /\ q.repeats = request.repeats
    BY <1>2 DEF RequestRecord
  <1> HIDE DEF q
  <1>5. \A e \in Events : e.of <= request.n /\ e.of \in Nat
    BY PastEvents
  <1>6. \A kind : Of(kind, n) \notin Events  BY <1>2, <1>5 DEF Of
  <1>7. StreamShape'  BY <1>1, <1>2, <1>3, <1>4 DEF StreamInv, StreamShape
  <1>8. monitor.at = "none" /\ summarizer.at = "none" /\ ~request.repeats /\ ~steering.active
    BY <1>1 DEF StreamInv, TasksOfStream, SteeringOfStream
  <1>9. TasksOfStream'  BY <1>1, <1>4, <1>8 DEF TasksOfStream
  <1>10. SteeringOfStream'  BY <1>1, <1>3, <1>4, <1>8 DEF StreamInv, SteeringOfStream
  <1>11. Events' = Events  BY <1>1 DEF Events
  <1>12. \A e \in Events : e.of <= n  BY <1>2, <1>5
  <1>13. NotYetShown'  BY <1>1, <1>4, <1>6, <1>8, <1>11, <1>12 DEF NotYetShown
  <1> QED  BY <1>1, <1>7, <1>9, <1>10, <1>13, NothingShown

LEMMA StreamStep == StreamInv /\ [StreamNext]_streamVars => StreamInv'
  <1> SUFFICES ASSUME StreamInv, [StreamNext]_streamVars PROVE StreamInv'
    OBVIOUS
  <1>1. CASE UNCHANGED streamVars
    BY <1>1 DEF streamVars, StreamInv, StreamShape, TasksOfStream, SteeringOfStream, NotYetShown, ShownInOrder, Events
  <1>2. CASE MonitorWakes
    BY <1>2, WakesOver, WakesAgain, WakesEarly, WakesPosts
  <1>3. CASE MonitorHasId
    BY <1>3, HasIdPosts, HasIdOver
  <1>4. ASSUME NEW withId \in BOOLEAN,
               PrefillShown(withId) \/ ReasoningComes(withId) \/ ContentComes(withId) \/ FragmentComes(withId)
        PROVE  StreamInv'
    BY <1>4, ChunkSteps
  <1> QED
    BY <1>1, <1>2, <1>3, <1>4, MessageStep, StreamStartsStep, PlainStartsStep, OpenStep, CloseStep, AnsweredStep, SummaryDueStep,
       SummaryComesStep, CancelStep, StreamOverStep, PlainStep, HandledStep DEF StreamNext

\* The reasoning is cut short for the completion that streams and for none before it, what is shown
\* follows the requests, and no task of a stream outlives it: the reader of emery_engine,
\* _monitor_llama_steering and _run_live_reasoning_summaries.
THEOREM StreamsHeld == StreamSpec => []StreamsSound
  <1>1. StreamInv => StreamsSound
    <2> SUFFICES ASSUME StreamInv PROVE ControlsAimed /\ ShownInOrder /\ StreamLeavesNothing
      BY DEF StreamsSound
    <2>1. ControlsAimed  BY DEF StreamInv, TasksOfStream, SteeringOfStream, ControlsAimed
    <2>2. StreamLeavesNothing
      BY DEF StreamInv, TasksOfStream, StreamLeavesNothing
    <2> QED  BY <2>1, <2>2 DEF StreamInv
  <1> QED  BY <1>1, StreamInitial, StreamStep, PTL DEF StreamSpec

-----------------------------------------------------------------------------
(***************************************************************************)
(* The tool calls of a turn                                                *)
(***************************************************************************)

CallId == ToolTurns \X Nat
ToolMessage == {m \in [role : {"user", "assistant", "tool"}, ids : Seq(CallId), size : Nat] :
                  m.role = "tool" => 1 \in DOMAIN m.ids}

LEMMA MostIsThere ==
    ASSUME NEW n \in Nat, NEW T, T \subseteq 0..n, T # {}
    PROVE  MostOf(T) \in T /\ \A j \in T : j <= MostOf(T)
  <1> DEFINE D == {n - k : k \in T}
  <1>1. D \subseteq Nat /\ D # {}
    <2>1. \A k \in T : n - k \in Nat  OBVIOUS
    <2> QED  BY <2>1
  <1>2. PICK d \in D : \A y \in D : d <= y
    <2> HIDE DEF D
    <2> QED  BY <1>1, LeastOf
  <1>3. PICK k \in T : d = n - k  OBVIOUS
  <1>4. ASSUME NEW j \in T PROVE j <= k
    <2>1. n - j \in D  OBVIOUS
    <2>2. n - k <= n - j  BY <1>2, <1>3, <2>1
    <2> QED  BY <2>2
  <1> QED  BY <1>4 DEF MostOf

\* There is a function of the sizes: were there a least number of messages without one, there
\* would be one for the number before it.
IsSizes(f, m, n) == f \in [0..n -> Nat] /\ f[0] = 0 /\ \A k \in 1..n : f[k] = f[k - 1] + m[Len(m) - k + 1].size

LEMMA SizesExist ==
    ASSUME NEW m \in Seq(ToolMessage)
    PROVE  \A n \in 0..Len(m) : \E f : IsSizes(f, m, n)
  <1> DEFINE T == {n \in 0..Len(m) : ~\E f : IsSizes(f, m, n)}
  <1> SUFFICES ASSUME T # {} PROVE FALSE
    OBVIOUS
  <1>0. Len(m) \in Nat  OBVIOUS
  <1>1. T \subseteq Nat  OBVIOUS
  <1>2. PICK n \in T : \A y \in T : n <= y
    <2> HIDE DEF T
    <2> QED  BY <1>1, LeastOf
  <1>3. n \in Nat /\ n <= Len(m) /\ ~\E f : IsSizes(f, m, n)  BY <1>0
  <1>4. CASE n = 0
    <2> DEFINE f == [k \in 0..0 |-> 0]
    <2>1. IsSizes(f, m, 0)  BY DEF IsSizes
    <2> QED  BY <1>3, <1>4, <2>1
  <1>5. CASE n # 0
    <2>1. n - 1 \in 0..Len(m) /\ n - 1 \notin T  BY <1>0, <1>2, <1>3, <1>5
    <2>2. PICK g : IsSizes(g, m, n - 1)  BY <2>1
    <2> DEFINE f == [k \in 0..n |-> IF k = n THEN g[n - 1] + m[Len(m) - n + 1].size ELSE g[k]]
    <2>3. Len(m) - n + 1 \in 1..Len(m)  BY <1>0, <1>3, <1>5
    <2>4. m[Len(m) - n + 1] \in ToolMessage  BY <2>3
    <2>5. m[Len(m) - n + 1].size \in Nat  BY <2>4 DEF ToolMessage
    <2>6. g \in [0..(n - 1) -> Nat] /\ g[0] = 0  BY <2>2 DEF IsSizes
    <2>7. f \in [0..n -> Nat]  BY <1>3, <1>5, <2>5, <2>6
    <2>8. f[0] = 0  BY <1>3, <1>5, <2>6
    <2>9. ASSUME NEW k \in 1..n PROVE f[k] = f[k - 1] + m[Len(m) - k + 1].size
      <3>1. CASE k = n  BY <1>3, <1>5, <3>1
      <3>2. CASE k # n
        <4>1. k \in 1..(n - 1) /\ k - 1 \in 0..n /\ k - 1 # n /\ k \in 0..n  BY <1>3, <3>2
        <4>2. g[k] = g[k - 1] + m[Len(m) - k + 1].size  BY <2>2, <4>1 DEF IsSizes
        <4> QED  BY <3>2, <4>1, <4>2
      <3> QED  BY <3>1, <3>2
    <2> HIDE DEF f
    <2>10. IsSizes(f, m, n)  BY <2>7, <2>8, <2>9 DEF IsSizes
    <2> QED  BY <1>3, <2>10
  <1> QED  BY <1>4, <1>5

LEMMA SizesAre == ASSUME NEW m \in Seq(ToolMessage) PROVE IsSizes(SizesOf(m), m, Len(m))
  <1> DEFINE P(g) == g = [k \in 0..Len(m) |-> IF k = 0 THEN 0 ELSE g[k - 1] + m[Len(m) - k + 1].size]
  <1>0. Len(m) \in Nat  OBVIOUS
  <1>1. PICK f : IsSizes(f, m, Len(m))  BY <1>0, SizesExist
  <1>2. P(f)  BY <1>0, <1>1 DEF IsSizes
  <1>3. SizesOf(m) = CHOOSE g : P(g)  BY DEF SizesOf
  <1> HIDE DEF P
  <1>4. P(SizesOf(m))  BY <1>2, <1>3
  <1> DEFINE s == SizesOf(m)
  <1>5. s = [k \in 0..Len(m) |-> IF k = 0 THEN 0 ELSE s[k - 1] + m[Len(m) - k + 1].size]  BY <1>4 DEF P
  <1>6. \A k \in 0..Len(m) : s[k] = f[k]
    <2> DEFINE T == {k \in 0..Len(m) : s[k] # f[k]}
    <2> HIDE DEF s
    <2> SUFFICES ASSUME T # {} PROVE FALSE
      OBVIOUS
    <2>1. T \subseteq Nat  BY <1>0
    <2>2. PICK k \in T : \A y \in T : k <= y
      <3> HIDE DEF T
      <3> QED  BY <2>1, LeastOf
    <2>3. k # 0  BY <1>0, <1>1, <1>5 DEF IsSizes
    <2>4. k \in 1..Len(m) /\ k - 1 \in 0..Len(m) /\ k - 1 \notin T  BY <1>0, <2>2, <2>3
    <2>5. s[k - 1] = f[k - 1]  BY <2>4
    <2>6. f[k] = f[k - 1] + m[Len(m) - k + 1].size  BY <1>1, <2>4 DEF IsSizes
    <2>7. s[k] = s[k - 1] + m[Len(m) - k + 1].size  BY <1>5, <2>3, <2>4
    <2> QED  BY <2>5, <2>6, <2>7
  <1>7. DOMAIN s = 0..Len(m) /\ DOMAIN f = 0..Len(m) /\ f \in [0..Len(m) -> Nat]  BY <1>1, <1>5 DEF IsSizes
  <1> HIDE DEF s
  <1>8. s = f
    <2>1. s = [k \in 0..Len(m) |-> s[k]]  BY <1>5, <1>7
    <2>2. f = [k \in 0..Len(m) |-> f[k]]  BY <1>7
    <2> QED  BY <1>6, <2>1, <2>2
  <1> QED  BY <1>1, <1>8 DEF s

\* Fewer messages are not larger.
LEMMA SizesGrow ==
    ASSUME NEW m \in Seq(ToolMessage), NEW j \in 0..Len(m), NEW k \in 0..Len(m), j <= k
    PROVE  SizesOf(m)[j] <= SizesOf(m)[k] /\ SizesOf(m)[j] \in Nat /\ SizesOf(m)[k] \in Nat
  <1> DEFINE s == SizesOf(m)
             T == {i \in j..Len(m) : ~(s[j] <= s[i])}
  <1>0. Len(m) \in Nat /\ j \in Nat  OBVIOUS
  <1>1. IsSizes(s, m, Len(m))  BY SizesAre
  <1> HIDE DEF s
  <1>2. s \in [0..Len(m) -> Nat]  BY <1>1 DEF IsSizes
  <1>3. T = {}
    <2> SUFFICES ASSUME T # {} PROVE FALSE
      OBVIOUS
    <2>1. T \subseteq Nat  BY <1>0
    <2>2. PICK i \in T : \A y \in T : i <= y
      <3> HIDE DEF T
      <3> QED  BY <2>1, LeastOf
    <2>3. i # j  BY <1>0, <1>2
    <2>4. i \in 1..Len(m) /\ i - 1 \in j..Len(m) /\ i - 1 \notin T  BY <1>0, <2>2, <2>3
    <2>5. s[j] <= s[i - 1]  BY <2>4
    <2>6. s[i] = s[i - 1] + m[Len(m) - i + 1].size  BY <1>1, <2>4 DEF IsSizes
    <2>7. m[Len(m) - i + 1] \in ToolMessage  BY <1>0, <2>4
    <2>8. m[Len(m) - i + 1].size \in Nat  BY <2>7 DEF ToolMessage
    <2>9. s[i] \in Nat /\ s[i - 1] \in Nat /\ s[j] \in Nat  BY <1>0, <1>2, <2>4
    <2> QED  BY <2>5, <2>6, <2>8, <2>9
  <1>4. k \in j..Len(m)  BY <1>0
  <1>5. s[j] <= s[k]  BY <1>3, <1>4
  <1> QED  BY <1>2, <1>5 DEF s

LEMMA LatestIs ==
    ASSUME NEW m \in Seq(ToolMessage), NEW k \in 0..Len(m)
    PROVE  /\ Latest(m, k) \in Seq(ToolMessage) /\ Len(Latest(m, k)) = k
           /\ \A i \in 1..k : Latest(m, k)[i] = m[Len(m) - k + i]
  <1>0. Len(m) \in Nat /\ Len(m) - k + 1 \in Int /\ k \in Nat OBVIOUS
  <1>1. \A i \in (Len(m) - k + 1)..Len(m) : m[i] \in ToolMessage  BY <1>0
  <1> DEFINE a == Len(m) - k + 1
  <1>2. Latest(m, k) = [i \in 1..(Len(m) - a + 1) |-> m[a + i - 1]]  BY <1>0 DEF Latest
  <1>3. Len(m) - a + 1 = k  BY <1>0
  <1>4. Latest(m, k) = [i \in 1..k |-> m[a + i - 1]]  BY <1>2, <1>3
  <1>5. \A i \in 1..k : a + i - 1 \in (Len(m) - k + 1)..Len(m) /\ a + i - 1 = Len(m) - k + i  BY <1>0
  <1>6. Latest(m, k) \in [1..k -> ToolMessage]  BY <1>1, <1>4, <1>5
  <1>7. Latest(m, k) \in Seq(ToolMessage) /\ Len(Latest(m, k)) = k  BY <1>0, <1>6
  <1> QED  BY <1>4, <1>5, <1>7

\* The end of the end is an end.
LEMMA EndOfEnd ==
    ASSUME NEW m \in Seq(ToolMessage), NEW k \in 0..Len(m), NEW j \in 0..k
    PROVE  Latest(Latest(m, k), j) = Latest(m, j)
  <1> DEFINE c == Latest(m, k)
  <1>0. Len(m) \in Nat /\ k \in Nat /\ j \in Nat /\ j \in 0..Len(m)  OBVIOUS
  <1>1. c \in Seq(ToolMessage) /\ Len(c) = k /\ \A i \in 1..k : c[i] = m[Len(m) - k + i]  BY LatestIs
  <1> HIDE DEF c
  <1>2. /\ Latest(c, j) \in Seq(ToolMessage) /\ Len(Latest(c, j)) = j
        /\ \A i \in 1..j : Latest(c, j)[i] = c[Len(c) - j + i]
    BY <1>0, <1>1, LatestIs
  <1>3. /\ Latest(m, j) \in Seq(ToolMessage) /\ Len(Latest(m, j)) = j
        /\ \A i \in 1..j : Latest(m, j)[i] = m[Len(m) - j + i]
    BY <1>0, LatestIs
  <1>4. \A i \in 1..j : Latest(c, j)[i] = Latest(m, j)[i]
    <2> SUFFICES ASSUME NEW i \in 1..j PROVE Latest(c, j)[i] = Latest(m, j)[i]
      OBVIOUS
    <2>1. k - j + i \in 1..k /\ Len(m) - k + (k - j + i) = Len(m) - j + i  BY <1>0
    <2>2. c[k - j + i] = m[Len(m) - j + i]  BY <1>1, <2>1
    <2> QED  BY <1>1, <1>2, <1>3, <2>2
  <1>5. Latest(c, j) = Latest(m, j)
    BY <1>2, <1>3, <1>4, SeqEqual
  <1> QED  BY <1>5 DEF c

LEMMA NewestIs ==
    ASSUME NEW m \in Seq(ToolMessage)
    PROVE  \E k \in 0..Len(m) :
             /\ Newest(m) = Latest(m, k)
             /\ k <= 1 \/ SizesOf(m)[k] <= Context
             /\ Len(m) > 0 => k > 0
  <1> DEFINE T == {k \in 0..Len(m) : k <= 1 \/ SizesOf(m)[k] <= Context}
  <1>0. Len(m) \in Nat  OBVIOUS
  <1>1. 0 \in T /\ T \subseteq 0..Len(m) /\ (Len(m) > 0 => 1 \in T)  BY <1>0
  <1>2. Newest(m) = Latest(m, MostOf(T))  BY DEF Newest
  <1>3. MostOf(T) \in T /\ \A j \in T : j <= MostOf(T)
    <2> HIDE DEF T
    <2> QED  BY <1>0, <1>1, MostIsThere
  <1>4. Len(m) > 0 => MostOf(T) > 0
    <2> HIDE DEF T
    <2>1. MostOf(T) \in 0..Len(m)  BY <1>1, <1>3
    <2> QED  BY <1>0, <1>1, <1>3, <2>1
  <1> QED  BY <1>2, <1>3, <1>4

LEMMA WithoutResultsIs ==
    ASSUME NEW c \in Seq(ToolMessage)
    PROVE  \E k \in 0..Len(c) :
             /\ WithoutResults(c) = Latest(c, k)
             /\ c # <<>> /\ c[Len(c)].role # "tool" => k > 0
  <1> DEFINE others == {i \in DOMAIN c : c[i].role # "tool"}
  <1>0. Len(c) \in Nat /\ DOMAIN c = 1..Len(c)  OBVIOUS
  <1>1. CASE others = {}
    <2>1. WithoutResults(c) = <<>>  BY <1>1 DEF WithoutResults
    <2>2. Latest(c, 0) = <<>>  BY <1>0, LatestIs
    <2>3. c # <<>> => Len(c) \in 1..Len(c)  BY <1>0
    <2>4. ~(c # <<>> /\ c[Len(c)].role # "tool")  BY <1>0, <1>1, <2>3
    <2> QED  BY <1>0, <2>1, <2>2, <2>4
  <1>2. CASE others # {}
    <2>1. others \subseteq Nat  BY <1>0
    <2> DEFINE first == CHOOSE i \in others : \A j \in others : i <= j
    <2>2. first \in others
      <3> HIDE DEF others
      <3>1. \E i \in others : \A j \in others : i <= j  BY <1>2, <2>1, LeastOf
      <3> QED  BY <3>1
    <2>3. WithoutResults(c) = SubSeq(c, first, Len(c))  BY <1>2 DEF WithoutResults
    <2>4. first \in 1..Len(c)  BY <1>0, <2>2
    <2> HIDE DEF first
    <2>5. Len(c) - first + 1 \in 1..Len(c) /\ Len(c) - (Len(c) - first + 1) + 1 = first  BY <1>0, <2>4
    <2>6. WithoutResults(c) = Latest(c, Len(c) - first + 1)  BY <2>3, <2>5 DEF Latest
    <2> QED  BY <1>0, <2>5, <2>6
  <1> QED  BY <1>1, <1>2

\* _compact_history_for_model keeps an end of the history that fits, and the last message
\* if that is a question.
LEMMA CompactedIs ==
    ASSUME NEW m \in Seq(ToolMessage)
    PROVE  \E k \in 0..Len(m) :
             /\ Compacted(m) = Latest(m, k)
             /\ k > 1 => SizesOf(m)[k] <= Context
             /\ m # <<>> /\ m[Len(m)].role = "user" => k > 0
  <1> DEFINE cut == WithoutResults(Newest(m))
  <1>0. Len(m) \in Nat /\ Context \in Nat  BY ToolTurnAssumption
  <1>1. PICK n \in 0..Len(m) : /\ Newest(m) = Latest(m, n)
                               /\ n <= 1 \/ SizesOf(m)[n] <= Context
                               /\ Len(m) > 0 => n > 0
    BY NewestIs
  <1>2. /\ Latest(m, n) \in Seq(ToolMessage) /\ Len(Latest(m, n)) = n
        /\ \A i \in 1..n : Latest(m, n)[i] = m[Len(m) - n + i]
    BY LatestIs
  <1>3. PICK w \in 0..n : /\ WithoutResults(Latest(m, n)) = Latest(Latest(m, n), w)
                          /\ Latest(m, n) # <<>> /\ Latest(m, n)[n].role # "tool" => w > 0
    BY <1>2, WithoutResultsIs
  <1>4. cut = Latest(m, w)  BY <1>1, <1>3, EndOfEnd
  <1>5. w \in 0..Len(m) /\ w <= n  BY <1>0
  <1> HIDE DEF cut
  <1>6. cut \in Seq(ToolMessage) /\ Len(cut) = w /\ \A i \in 1..w : cut[i] = m[Len(m) - w + i]
    BY <1>4, <1>5, LatestIs
  <1>7. ASSUME NEW k \in 0..w, k > 1 PROVE SizesOf(m)[k] <= Context
    <2>1. k \in 0..Len(m) /\ k <= n /\ n > 1  BY <1>0, <1>5, <1>7
    <2>2. SizesOf(m)[k] <= SizesOf(m)[n] /\ SizesOf(m)[k] \in Nat /\ SizesOf(m)[n] \in Nat  BY <2>1, SizesGrow
    <2> QED  BY <1>0, <1>1, <2>1, <2>2
  <1>8. ASSUME m # <<>>, m[Len(m)].role = "user" PROVE w > 0 /\ cut[w] = m[Len(m)]
    <2>1. Len(m) > 0 /\ n > 0  BY <1>0, <1>1, <1>8
    <2>2. Latest(m, n)[n] = m[Len(m)] /\ Latest(m, n) # <<>>  BY <1>0, <1>2, <2>1
    <2>3. w > 0  BY <1>3, <1>8, <2>2
    <2> QED  BY <1>0, <1>5, <1>6, <2>3
  <1>9. CASE Unanswered(cut)
    <2>1. Compacted(m) = Tail(cut) /\ cut # <<>> /\ Head(cut).role = "assistant"
      BY <1>9 DEF Compacted, Unanswered, cut
    <2>2. w > 0  BY <1>6, <2>1
    <2>3. Tail(cut) = SubSeq(cut, 2, w) /\ Head(cut) = cut[1]  BY <1>6, <2>1
    <2>4. Latest(cut, w - 1) = SubSeq(cut, w - (w - 1) + 1, w)  BY <1>6 DEF Latest
    <2>5. w - (w - 1) + 1 = 2 /\ w - 1 \in 0..w /\ w - 1 \in 0..Len(m)  BY <1>5, <2>2
    <2>6. Compacted(m) = Latest(cut, w - 1)  BY <2>1, <2>3, <2>4, <2>5
    <2>7. Compacted(m) = Latest(m, w - 1)  BY <1>4, <1>5, <2>5, <2>6, EndOfEnd
    <2>8. w - 1 > 1 => SizesOf(m)[w - 1] <= Context  BY <1>7, <2>5
    <2>9. m # <<>> /\ m[Len(m)].role = "user" => w - 1 > 0
      <3>1. SUFFICES ASSUME m # <<>>, m[Len(m)].role = "user", w = 1 PROVE FALSE  BY <2>2, <1>5
      <3> QED  BY <1>8, <2>1, <2>3, <3>1
    <2> QED  BY <2>5, <2>7, <2>8, <2>9
  <1>10. CASE ~Unanswered(cut)
    <2>1. Compacted(m) = cut  BY <1>10 DEF Compacted, cut
    <2> QED  BY <1>4, <1>5, <1>7, <1>8, <2>1
  <1> QED  BY <1>9, <1>10

LEMMA CopyIsSound == ASSUME chat \in Seq(ToolMessage) PROVE CopySound
  <1>1. PICK k \in 0..Len(chat) : /\ Compacted(chat) = Latest(chat, k)
                                  /\ k > 1 => SizesOf(chat)[k] <= Context
                                  /\ chat # <<>> /\ chat[Len(chat)].role = "user" => k > 0
    BY CompactedIs
  <1>2. Len(Latest(chat, k)) = k  BY LatestIs
  <1>3. Last(chat) = chat[Len(chat)]  BY DEF Last
  <1> QED  BY <1>1, <1>2, <1>3 DEF CopySound

(* Calls and their results *)

\* A message in which no call of the turn is asked or answered.
Quiet(m, t) == \A n \in DOMAIN m.ids : m.ids[n][1] # t

LEMMA AfterAppend ==
    ASSUME NEW ms \in Seq(ToolMessage), NEW m \in ToolMessage
    PROVE  LET a == Append(ms, m)
           IN  /\ a \in Seq(ToolMessage) /\ Len(a) = Len(ms) + 1 /\ Len(ms) \in Nat
               /\ DOMAIN a = 1..(Len(ms) + 1) /\ DOMAIN ms = 1..Len(ms)
               /\ a[Len(ms) + 1] = m /\ \A i \in 1..Len(ms) : a[i] = ms[i]
               /\ \A i \in 1..Len(ms) : \A id : (AsksAt(a, i, id) <=> AsksAt(ms, i, id)) /\ (GivesAt(a, i, id) <=> GivesAt(ms, i, id))
               /\ \A id : AsksAt(a, Len(ms) + 1, id) <=> m.role = "assistant" /\ \E k \in DOMAIN m.ids : m.ids[k] = id
               /\ \A id : GivesAt(a, Len(ms) + 1, id) <=> m.role = "tool" /\ m.ids[1] = id
  <1> DEFINE a == Append(ms, m)
  <1>1. /\ a \in Seq(ToolMessage) /\ Len(a) = Len(ms) + 1 /\ Len(ms) \in Nat
        /\ DOMAIN a = 1..(Len(ms) + 1) /\ DOMAIN ms = 1..Len(ms)
        /\ a[Len(ms) + 1] = m /\ \A i \in 1..Len(ms) : a[i] = ms[i]
    OBVIOUS
  <1> HIDE DEF a
  <1>2. \A i \in 1..Len(ms) : \A id : (AsksAt(a, i, id) <=> AsksAt(ms, i, id)) /\ (GivesAt(a, i, id) <=> GivesAt(ms, i, id))
    BY <1>1 DEF AsksAt, GivesAt
  <1>3. \A id : AsksAt(a, Len(ms) + 1, id) <=> m.role = "assistant" /\ \E k \in DOMAIN m.ids : m.ids[k] = id
    BY <1>1 DEF AsksAt
  <1>4. \A id : GivesAt(a, Len(ms) + 1, id) <=> m.role = "tool" /\ m.ids[1] = id
    BY <1>1 DEF GivesAt
  <1> QED  BY <1>1, <1>2, <1>3, <1>4 DEF a

\* The parts of AnsweredUpTo by name.
AskedOnce(ms, t, asked) ==
    \A k \in 1..asked : /\ \E i \in DOMAIN ms : AsksAt(ms, i, <<t, k>>)
                        /\ \A i, j \in DOMAIN ms : AsksAt(ms, i, <<t, k>>) /\ AsksAt(ms, j, <<t, k>>) => i = j
GivenAfter(ms, t, done) ==
    \A k \in 1..done : /\ \E i \in DOMAIN ms : GivesAt(ms, i, <<t, k>>)
                       /\ \A i \in DOMAIN ms : GivesAt(ms, i, <<t, k>>) => \E a \in 1..(i - 1) : AsksAt(ms, a, <<t, k>>)
GivenInOrder(ms, t, done) ==
    \A k \in 1..done : \A l \in k..done : \A i, j \in DOMAIN ms :
      GivesAt(ms, i, <<t, k>>) /\ GivesAt(ms, j, <<t, l>>) => IF k = l THEN i = j ELSE i < j
OnlyThose(ms, t, asked, done) ==
    \A i \in DOMAIN ms : \A n \in DOMAIN ms[i].ids :
      ms[i].ids[n][1] = t =>
        (ms[i].role = "tool" /\ ms[i].ids[n][2] \in 1..done) \/ (ms[i].role = "assistant" /\ ms[i].ids[n][2] \in 1..asked)

LEMMA AnsweredParts ==
    ASSUME NEW ms, NEW t, NEW asked, NEW done
    PROVE  AnsweredUpTo(ms, t, asked, done)
             <=> AskedOnce(ms, t, asked) /\ GivenAfter(ms, t, done) /\ GivenInOrder(ms, t, done) /\ OnlyThose(ms, t, asked, done)
  BY DEF AnsweredUpTo, AskedOnce, GivenAfter, GivenInOrder, OnlyThose

LEMMA AppendQuiet ==
    ASSUME NEW ms \in Seq(ToolMessage), NEW m \in ToolMessage, NEW t, NEW asked \in Nat, NEW done \in Nat,
           AnsweredUpTo(ms, t, asked, done), Quiet(m, t)
    PROVE  AnsweredUpTo(Append(ms, m), t, asked, done)
  <1> DEFINE a == Append(ms, m)
             L == Len(ms)
  <1>1. /\ a \in Seq(ToolMessage) /\ L \in Nat /\ DOMAIN a = 1..(L + 1) /\ DOMAIN ms = 1..L
        /\ a[L + 1] = m /\ \A i \in 1..L : a[i] = ms[i]
        /\ \A i \in 1..L : \A id : (AsksAt(a, i, id) <=> AsksAt(ms, i, id)) /\ (GivesAt(a, i, id) <=> GivesAt(ms, i, id))
        /\ \A id : AsksAt(a, L + 1, id) <=> m.role = "assistant" /\ \E k \in DOMAIN m.ids : m.ids[k] = id
        /\ \A id : GivesAt(a, L + 1, id) <=> m.role = "tool" /\ m.ids[1] = id
    BY AfterAppend
  <1>2. \A k : <<t, k>>[1] = t  OBVIOUS
  <1>3. \A k : ~AsksAt(a, L + 1, <<t, k>>) /\ ~GivesAt(a, L + 1, <<t, k>>)  BY <1>1, <1>2 DEF Quiet, ToolMessage
  <1>0. AskedOnce(ms, t, asked) /\ GivenAfter(ms, t, done) /\ GivenInOrder(ms, t, done) /\ OnlyThose(ms, t, asked, done)
    BY AnsweredParts
  <1> HIDE DEF a, L
  <1>4. \A i \in DOMAIN a : \A k : AsksAt(a, i, <<t, k>>) \/ GivesAt(a, i, <<t, k>>) => i \in DOMAIN ms
    BY <1>1, <1>3
  <1>5. AskedOnce(a, t, asked)
    BY <1>0, <1>1, <1>4 DEF AskedOnce
  <1>6. GivenAfter(a, t, done)
    <2> SUFFICES ASSUME NEW k \in 1..done
                 PROVE  /\ \E i \in DOMAIN a : GivesAt(a, i, <<t, k>>)
                        /\ \A i \in DOMAIN a : GivesAt(a, i, <<t, k>>) => \E b \in 1..(i - 1) : AsksAt(a, b, <<t, k>>)
      BY DEF GivenAfter
    <2>1. \E i \in DOMAIN a : GivesAt(a, i, <<t, k>>)  BY <1>0, <1>1 DEF GivenAfter
    <2>2. ASSUME NEW i \in DOMAIN a, GivesAt(a, i, <<t, k>>) PROVE \E b \in 1..(i - 1) : AsksAt(a, b, <<t, k>>)
      <3>1. i \in DOMAIN ms /\ GivesAt(ms, i, <<t, k>>)  BY <1>1, <1>4, <2>2
      <3>2. PICK b \in 1..(i - 1) : AsksAt(ms, b, <<t, k>>)  BY <1>0, <3>1 DEF GivenAfter
      <3>3. b \in 1..L  BY <1>1, <3>1
      <3> QED  BY <1>1, <3>2, <3>3
    <2> QED  BY <2>1, <2>2
  <1>7. GivenInOrder(a, t, done)
    <2> SUFFICES ASSUME NEW k \in 1..done, NEW l \in k..done, NEW i \in DOMAIN a, NEW j \in DOMAIN a,
                        GivesAt(a, i, <<t, k>>), GivesAt(a, j, <<t, l>>)
                 PROVE  IF k = l THEN i = j ELSE i < j
      BY DEF GivenInOrder
    <2>1. i \in DOMAIN ms /\ j \in DOMAIN ms /\ GivesAt(ms, i, <<t, k>>) /\ GivesAt(ms, j, <<t, l>>)  BY <1>1, <1>4
    <2> QED  BY <1>0, <2>1 DEF GivenInOrder
  <1>8. OnlyThose(a, t, asked, done)
    <2> SUFFICES ASSUME NEW i \in DOMAIN a, NEW n \in DOMAIN a[i].ids, a[i].ids[n][1] = t
                 PROVE  \/ a[i].role = "tool" /\ a[i].ids[n][2] \in 1..done
                        \/ a[i].role = "assistant" /\ a[i].ids[n][2] \in 1..asked
      BY DEF OnlyThose
    <2>1. i # L + 1  BY <1>1 DEF Quiet
    <2>2. i \in DOMAIN ms /\ a[i] = ms[i]  BY <1>1, <2>1
    <2> QED  BY <1>0, <2>2 DEF OnlyThose
  <1> QED  BY <1>5, <1>6, <1>7, <1>8, AnsweredParts DEF a

\* The calls of a response, numbered on from those before.
LEMMA AppendAsking ==
    ASSUME NEW ms \in Seq(ToolMessage), NEW m \in ToolMessage, NEW t, NEW asked \in Nat, NEW n \in Nat,
           AnsweredUpTo(ms, t, asked, asked),
           m.role = "assistant", m.ids = [i \in 1..n |-> <<t, asked + i>>]
    PROVE  AnsweredUpTo(Append(ms, m), t, asked + n, asked)
  <1> DEFINE a == Append(ms, m)
             L == Len(ms)
  <1> HIDE DEF a, L
  <1>1. /\ a \in Seq(ToolMessage) /\ L \in Nat /\ DOMAIN a = 1..(L + 1) /\ DOMAIN ms = 1..L
        /\ a[L + 1] = m /\ \A i \in 1..L : a[i] = ms[i]
        /\ \A i \in 1..L : \A id : (AsksAt(a, i, id) <=> AsksAt(ms, i, id)) /\ (GivesAt(a, i, id) <=> GivesAt(ms, i, id))
        /\ \A id : AsksAt(a, L + 1, id) <=> m.role = "assistant" /\ \E k \in DOMAIN m.ids : m.ids[k] = id
        /\ \A id : GivesAt(a, L + 1, id) <=> m.role = "tool" /\ m.ids[1] = id
    BY ONLY m \in ToolMessage, ms \in Seq(ToolMessage), AfterAppend DEF a, L
  <1>2. DOMAIN m.ids = 1..n /\ \A i \in 1..n : m.ids[i] = <<t, asked + i>>  OBVIOUS
  <1>3. \A k : ~GivesAt(a, L + 1, <<t, k>>)  BY <1>1
  <1>0. AskedOnce(ms, t, asked) /\ GivenAfter(ms, t, asked) /\ GivenInOrder(ms, t, asked) /\ OnlyThose(ms, t, asked, asked)
    BY AnsweredParts
  <1>4. \A k \in Nat : AsksAt(a, L + 1, <<t, k>>) <=> k \in (asked + 1)..(asked + n)
    <2> SUFFICES ASSUME NEW k \in Nat PROVE AsksAt(a, L + 1, <<t, k>>) <=> k \in (asked + 1)..(asked + n)
      OBVIOUS
    <2>0. AsksAt(a, L + 1, <<t, k>>) <=> \E i \in DOMAIN m.ids : m.ids[i] = <<t, k>>  BY <1>1
    <2>1. AsksAt(a, L + 1, <<t, k>>) <=> \E i \in 1..n : <<t, asked + i>> = <<t, k>>  BY ONLY <2>0, <1>2
    <2>2. ASSUME k \in (asked + 1)..(asked + n) PROVE \E i \in 1..n : <<t, asked + i>> = <<t, k>>
      <3>1. k - asked \in 1..n /\ asked + (k - asked) = k  BY <2>2
      <3> QED  BY <3>1
    <2>3. ASSUME NEW i \in 1..n, <<t, asked + i>> = <<t, k>> PROVE k \in (asked + 1)..(asked + n)
      <3>1. asked + i = k  BY <2>3
      <3> QED  BY <3>1
    <2> QED  BY <2>1, <2>2, <2>3
  <1>5. \A i \in DOMAIN ms : \A k \in Nat : AsksAt(ms, i, <<t, k>>) => k \in 1..asked
    <2> SUFFICES ASSUME NEW i \in DOMAIN ms, NEW k \in Nat, AsksAt(ms, i, <<t, k>>) PROVE k \in 1..asked
      OBVIOUS
    <2>1. PICK x \in DOMAIN ms[i].ids : ms[i].ids[x] = <<t, k>>  BY DEF AsksAt
    <2>2. ms[i].ids[x][1] = t /\ ms[i].ids[x][2] = k  BY <2>1
    <2>3. ms[i].role = "assistant"  BY DEF AsksAt
    <2> QED  BY <1>0, <2>2, <2>3 DEF OnlyThose
  <1>6. AskedOnce(a, t, asked + n)
    <2> SUFFICES ASSUME NEW k \in 1..(asked + n)
                 PROVE  /\ \E i \in DOMAIN a : AsksAt(a, i, <<t, k>>)
                        /\ \A i, j \in DOMAIN a : AsksAt(a, i, <<t, k>>) /\ AsksAt(a, j, <<t, k>>) => i = j
      BY DEF AskedOnce
    <2>1. CASE k \in 1..asked
      <3>1. ~AsksAt(a, L + 1, <<t, k>>)  BY <1>4, <2>1
      <3>2. \A i \in DOMAIN a : AsksAt(a, i, <<t, k>>) => i \in DOMAIN ms /\ AsksAt(ms, i, <<t, k>>)  BY <1>1, <3>1
      <3>3. \E i \in DOMAIN ms : AsksAt(ms, i, <<t, k>>)  BY <1>0, <2>1 DEF AskedOnce
      <3>4. \A i, j \in DOMAIN ms : AsksAt(ms, i, <<t, k>>) /\ AsksAt(ms, j, <<t, k>>) => i = j  BY <1>0, <2>1 DEF AskedOnce
      <3>5. \E i \in DOMAIN a : AsksAt(a, i, <<t, k>>)  BY <1>1, <3>3
      <3> QED  BY <3>2, <3>4, <3>5
    <2>2. CASE k \notin 1..asked
      <3>1. k \in Nat /\ k \in (asked + 1)..(asked + n)  BY <2>2
      <3>2. AsksAt(a, L + 1, <<t, k>>)  BY <1>4, <3>1
      <3>3. \A i \in DOMAIN ms : ~AsksAt(ms, i, <<t, k>>)  BY <1>5, <2>2, <3>1
      <3>4. \A i \in DOMAIN a : AsksAt(a, i, <<t, k>>) => i = L + 1  BY <1>1, <3>3
      <3>5. L + 1 \in DOMAIN a  BY <1>1
      <3> QED  BY <3>2, <3>4, <3>5
    <2> QED  BY <2>1, <2>2
  <1>7. GivenAfter(a, t, asked)
    <2> SUFFICES ASSUME NEW k \in 1..asked
                 PROVE  /\ \E i \in DOMAIN a : GivesAt(a, i, <<t, k>>)
                        /\ \A i \in DOMAIN a : GivesAt(a, i, <<t, k>>) => \E b \in 1..(i - 1) : AsksAt(a, b, <<t, k>>)
      BY DEF GivenAfter
    <2>1. \E i \in DOMAIN a : GivesAt(a, i, <<t, k>>)  BY <1>0, <1>1 DEF GivenAfter
    <2>2. ASSUME NEW i \in DOMAIN a, GivesAt(a, i, <<t, k>>) PROVE \E b \in 1..(i - 1) : AsksAt(a, b, <<t, k>>)
      <3>1. i \in DOMAIN ms /\ GivesAt(ms, i, <<t, k>>)  BY <1>1, <1>3, <2>2
      <3>2. PICK b \in 1..(i - 1) : AsksAt(ms, b, <<t, k>>)  BY <1>0, <3>1 DEF GivenAfter
      <3>3. b \in 1..L  BY <1>1, <3>1
      <3> QED  BY <1>1, <3>2, <3>3
    <2> QED  BY <2>1, <2>2
  <1>8. GivenInOrder(a, t, asked)
    <2> SUFFICES ASSUME NEW k \in 1..asked, NEW l \in k..asked, NEW i \in DOMAIN a, NEW j \in DOMAIN a,
                        GivesAt(a, i, <<t, k>>), GivesAt(a, j, <<t, l>>)
                 PROVE  IF k = l THEN i = j ELSE i < j
      BY DEF GivenInOrder
    <2>1. i \in DOMAIN ms /\ j \in DOMAIN ms /\ GivesAt(ms, i, <<t, k>>) /\ GivesAt(ms, j, <<t, l>>)  BY <1>1, <1>3
    <2> QED  BY <1>0, <2>1 DEF GivenInOrder
  <1>9. OnlyThose(a, t, asked + n, asked)
    <2> SUFFICES ASSUME NEW i \in DOMAIN a, NEW x \in DOMAIN a[i].ids, a[i].ids[x][1] = t
                 PROVE  \/ a[i].role = "tool" /\ a[i].ids[x][2] \in 1..asked
                        \/ a[i].role = "assistant" /\ a[i].ids[x][2] \in 1..(asked + n)
      BY DEF OnlyThose
    <2>1. CASE i = L + 1
      <3>1. x \in 1..n /\ a[i].ids[x] = <<t, asked + x>>  BY <1>1, <1>2, <2>1
      <3>2. a[i].ids[x][2] = asked + x  BY <3>1
      <3> QED  BY <1>1, <2>1, <3>1, <3>2
    <2>2. CASE i # L + 1
      <3>1. i \in DOMAIN ms /\ a[i] = ms[i]  BY <1>1, <2>2
      <3>2. \/ ms[i].role = "tool" /\ ms[i].ids[x][2] \in 1..asked
            \/ ms[i].role = "assistant" /\ ms[i].ids[x][2] \in 1..asked
        BY <1>0, <3>1 DEF OnlyThose
      <3>3. \A y \in 1..asked : y \in 1..(asked + n)  OBVIOUS
      <3> QED  BY <3>1, <3>2, <3>3
    <2> QED  BY <2>1, <2>2
  <1> QED  BY <1>6, <1>7, <1>8, <1>9, AnsweredParts DEF a

\* The result of the first call that has none.
LEMMA AppendResult ==
    ASSUME NEW ms \in Seq(ToolMessage), NEW m \in ToolMessage, NEW t, NEW asked \in Nat, NEW done \in Nat,
           AnsweredUpTo(ms, t, asked, done), done < asked,
           m.role = "tool", m.ids = <<<<t, done + 1>>>>
    PROVE  AnsweredUpTo(Append(ms, m), t, asked, done + 1)
  <1> DEFINE a == Append(ms, m)
             L == Len(ms)
  <1> HIDE DEF a, L
  <1>1. /\ a \in Seq(ToolMessage) /\ L \in Nat /\ DOMAIN a = 1..(L + 1) /\ DOMAIN ms = 1..L
        /\ a[L + 1] = m /\ \A i \in 1..L : a[i] = ms[i]
        /\ \A i \in 1..L : \A id : (AsksAt(a, i, id) <=> AsksAt(ms, i, id)) /\ (GivesAt(a, i, id) <=> GivesAt(ms, i, id))
        /\ \A id : AsksAt(a, L + 1, id) <=> m.role = "assistant" /\ \E k \in DOMAIN m.ids : m.ids[k] = id
        /\ \A id : GivesAt(a, L + 1, id) <=> m.role = "tool" /\ m.ids[1] = id
    BY ONLY m \in ToolMessage, ms \in Seq(ToolMessage), AfterAppend DEF a, L
  <1>2. DOMAIN m.ids = {1} /\ m.ids[1] = <<t, done + 1>>  OBVIOUS
  <1>3. \A k : ~AsksAt(a, L + 1, <<t, k>>)  BY <1>1
  <1>4. \A k \in Nat : GivesAt(a, L + 1, <<t, k>>) <=> k = done + 1
    <2> SUFFICES ASSUME NEW k \in Nat PROVE GivesAt(a, L + 1, <<t, k>>) <=> k = done + 1
      OBVIOUS
    <2>1. GivesAt(a, L + 1, <<t, k>>) <=> <<t, done + 1>> = <<t, k>>  BY <1>1, <1>2
    <2> QED  BY <2>1
  <1>0. AskedOnce(ms, t, asked) /\ GivenAfter(ms, t, done) /\ GivenInOrder(ms, t, done) /\ OnlyThose(ms, t, asked, done)
    BY AnsweredParts
  <1>5. ASSUME NEW i \in DOMAIN ms, NEW k \in Nat, GivesAt(ms, i, <<t, k>>) PROVE k \in 1..done
    <2>0. ms[i] \in ToolMessage  BY <1>1
    <2>1. ms[i].ids[1] = <<t, k>> /\ ms[i].role = "tool"  BY <1>5 DEF GivesAt
    <2>2. ms[i].ids[1][1] = t /\ ms[i].ids[1][2] = k /\ 1 \in DOMAIN ms[i].ids  BY <2>0, <2>1 DEF ToolMessage
    <2> QED  BY <1>0, <2>1, <2>2 DEF OnlyThose
  <1>6. AskedOnce(a, t, asked)
    <2> SUFFICES ASSUME NEW k \in 1..asked
                 PROVE  /\ \E i \in DOMAIN a : AsksAt(a, i, <<t, k>>)
                        /\ \A i, j \in DOMAIN a : AsksAt(a, i, <<t, k>>) /\ AsksAt(a, j, <<t, k>>) => i = j
      BY DEF AskedOnce
    <2>1. \A i \in DOMAIN a : AsksAt(a, i, <<t, k>>) => i \in DOMAIN ms /\ AsksAt(ms, i, <<t, k>>)  BY <1>1, <1>3
    <2>2. \E i \in DOMAIN ms : AsksAt(ms, i, <<t, k>>)  BY <1>0 DEF AskedOnce
    <2>3. \A i, j \in DOMAIN ms : AsksAt(ms, i, <<t, k>>) /\ AsksAt(ms, j, <<t, k>>) => i = j  BY <1>0 DEF AskedOnce
    <2>4. \E i \in DOMAIN a : AsksAt(a, i, <<t, k>>)  BY <1>1, <2>2
    <2> QED  BY <2>1, <2>3, <2>4
  <1>7. GivenAfter(a, t, done + 1)
    <2> SUFFICES ASSUME NEW k \in 1..(done + 1)
                 PROVE  /\ \E i \in DOMAIN a : GivesAt(a, i, <<t, k>>)
                        /\ \A i \in DOMAIN a : GivesAt(a, i, <<t, k>>) => \E b \in 1..(i - 1) : AsksAt(a, b, <<t, k>>)
      BY DEF GivenAfter
    <2>1. CASE k = done + 1
      <3>1. L + 1 \in DOMAIN a /\ GivesAt(a, L + 1, <<t, k>>)  BY <1>1, <1>4, <2>1
      <3>2. k \in 1..asked  BY <2>1
      <3>3. PICK b \in DOMAIN ms : AsksAt(ms, b, <<t, k>>)  BY <1>0, <3>2 DEF AskedOnce
      <3>4. \A i \in DOMAIN ms : ~GivesAt(ms, i, <<t, k>>)  BY <1>5, <2>1
      <3>5. \A i \in DOMAIN a : GivesAt(a, i, <<t, k>>) => i = L + 1  BY <1>1, <3>4
      <3>6. b \in 1..((L + 1) - 1) /\ AsksAt(a, b, <<t, k>>)  BY <1>1, <3>3
      <3>7. \A i \in DOMAIN a : GivesAt(a, i, <<t, k>>) => \E c \in 1..(i - 1) : AsksAt(a, c, <<t, k>>)  BY <3>5, <3>6
      <3> QED  BY <3>1, <3>7
    <2>2. CASE k # done + 1
      <3>1. k \in 1..done  BY <2>2
      <3>2. PICK i \in DOMAIN ms : GivesAt(ms, i, <<t, k>>)  BY <1>0, <3>1 DEF GivenAfter
      <3>3. \E j \in DOMAIN a : GivesAt(a, j, <<t, k>>)  BY <1>1, <3>2
      <3>4. ASSUME NEW j \in DOMAIN a, GivesAt(a, j, <<t, k>>) PROVE \E b \in 1..(j - 1) : AsksAt(a, b, <<t, k>>)
        <4>1. j # L + 1  BY <1>4, <2>2, <3>4
        <4>2. j \in DOMAIN ms /\ GivesAt(ms, j, <<t, k>>)  BY <1>1, <3>4, <4>1
        <4>3. PICK b \in 1..(j - 1) : AsksAt(ms, b, <<t, k>>)  BY <1>0, <3>1, <4>2 DEF GivenAfter
        <4>4. b \in 1..L  BY <1>1, <4>2
        <4> QED  BY <1>1, <4>3, <4>4
      <3> QED  BY <3>3, <3>4
    <2> QED  BY <2>1, <2>2
  <1>8. GivenInOrder(a, t, done + 1)
    <2> SUFFICES ASSUME NEW k \in 1..(done + 1), NEW l \in k..(done + 1), NEW i \in DOMAIN a, NEW j \in DOMAIN a,
                        GivesAt(a, i, <<t, k>>), GivesAt(a, j, <<t, l>>)
                 PROVE  IF k = l THEN i = j ELSE i < j
      BY DEF GivenInOrder
    <2>1. \A x \in DOMAIN a : \A y \in Nat : GivesAt(a, x, <<t, y>>) => (y = done + 1 /\ x = L + 1) \/ (y \in 1..done /\ x \in DOMAIN ms /\ GivesAt(ms, x, <<t, y>>))
      BY <1>1, <1>4, <1>5
    <2>2. (k = done + 1 /\ i = L + 1) \/ (k \in 1..done /\ i \in DOMAIN ms /\ GivesAt(ms, i, <<t, k>>))  BY <2>1
    <2>3. (l = done + 1 /\ j = L + 1) \/ (l \in 1..done /\ j \in DOMAIN ms /\ GivesAt(ms, j, <<t, l>>))  BY <2>1
    <2>4. CASE l \in 1..done /\ j \in DOMAIN ms /\ GivesAt(ms, j, <<t, l>>)
      <3>1. k \in 1..done /\ l \in k..done  BY <2>4
      <3> QED  BY <1>0, <2>2, <2>4, <3>1 DEF GivenInOrder
    <2>5. CASE l = done + 1 /\ j = L + 1
      <3>1. CASE k = l  BY <2>2, <2>5, <3>1
      <3>2. CASE k # l
        <4>1. i \in 1..L  BY <1>1, <2>2, <2>5, <3>2
        <4> QED  BY <1>1, <2>5, <3>2, <4>1
      <3> QED  BY <3>1, <3>2
    <2> QED  BY <2>3, <2>4, <2>5
  <1>9. OnlyThose(a, t, asked, done + 1)
    <2> SUFFICES ASSUME NEW i \in DOMAIN a, NEW x \in DOMAIN a[i].ids, a[i].ids[x][1] = t
                 PROVE  \/ a[i].role = "tool" /\ a[i].ids[x][2] \in 1..(done + 1)
                        \/ a[i].role = "assistant" /\ a[i].ids[x][2] \in 1..asked
      BY DEF OnlyThose
    <2>1. CASE i = L + 1
      <3>1. x = 1 /\ a[i].ids[x] = <<t, done + 1>>  BY <1>1, <1>2, <2>1
      <3>2. a[i].ids[x][2] = done + 1  BY <3>1
      <3> QED  BY <1>1, <2>1, <3>1, <3>2
    <2>2. CASE i # L + 1
      <3>1. i \in DOMAIN ms /\ a[i] = ms[i]  BY <1>1, <2>2
      <3>2. \/ ms[i].role = "tool" /\ ms[i].ids[x][2] \in 1..done
            \/ ms[i].role = "assistant" /\ ms[i].ids[x][2] \in 1..asked
        BY <1>0, <3>1 DEF OnlyThose
      <3>3. \A y \in 1..done : y \in 1..(done + 1)  OBVIOUS
      <3> QED  BY <3>1, <3>2, <3>3
    <2> QED  BY <2>1, <2>2
  <1> QED  BY <1>6, <1>7, <1>8, <1>9, AnsweredParts DEF a

\* In the end of a history there is no call of a turn that has none in the history.
LEMMA EndIsQuiet ==
    ASSUME NEW m \in Seq(ToolMessage), NEW k \in 0..Len(m), NEW t, AnsweredUpTo(m, t, 0, 0)
    PROVE  AnsweredUpTo(Latest(m, k), t, 0, 0) /\ Latest(m, k) \in Seq(ToolMessage)
  <1> DEFINE c == Latest(m, k)
  <1>1. c \in Seq(ToolMessage) /\ Len(c) = k /\ \A i \in 1..k : c[i] = m[Len(m) - k + i]
    BY LatestIs
  <1> HIDE DEF c
  <1>2. OnlyThose(m, t, 0, 0)  BY AnsweredParts
  <1>3. OnlyThose(c, t, 0, 0)
    <2> SUFFICES ASSUME NEW i \in DOMAIN c, NEW x \in DOMAIN c[i].ids, c[i].ids[x][1] = t
                 PROVE  FALSE
      BY DEF OnlyThose
    <2>1. i \in 1..k /\ Len(m) \in Nat  BY <1>1
    <2>2. c[i] = m[Len(m) - k + i] /\ Len(m) - k + i \in DOMAIN m  BY <1>1, <2>1
    <2> QED  BY <1>2, <2>2 DEF OnlyThose
  <1>4. AskedOnce(c, t, 0) /\ GivenAfter(c, t, 0) /\ GivenInOrder(c, t, 0)  BY DEF AskedOnce, GivenAfter, GivenInOrder
  <1>5. AnsweredUpTo(c, t, 0, 0)  BY <1>3, <1>4, AnsweredParts
  <1> QED  BY <1>1, <1>5 DEF c

(* What a turn may do *)

ToolRun == [tool : STRING, key : STRING, pass : Nat, bridged : BOOLEAN]
Photo == [id : CallId, is : {"queued", "sent", "refused", "expired"}]
EngineRecord ==
    [at : {"idle", "pass", "request", "calls", "running", "deliver", "over", "lost"}, batch : Seq(Call), ids : Seq(CallId),
     asked : Nat, pass : Nat, total : Nat, inPass : Nat, searches : Nat, fetches : Nat, seen : SUBSET ({"search", "fetch"} \X STRING),
     forced : BOOLEAN, tries : Nat, failed : BOOLEAN, found : SUBSET STRING, views : Nat, viewsInPass : Nat, stored : Nat]

OfPass(ran, p, kind) == {i \in DOMAIN ran : ran[i].pass = p /\ ran[i].tool \in kind}
Once(ran, kind) ==
    \A i, j \in DOMAIN ran : i # j /\ ran[i].tool \in kind /\ ran[j].tool \in kind => ran[i].key # ran[j].key

\* What has run is within the limits of the turn and of each pass, ran the way it is offered,
\* and no source or search ran twice.
RunsSound(ran) ==
    /\ Len(ran) <= CallsPerTurn
    /\ \A p \in Nat : /\ Cardinality(OfPass(ran, p, {"web_search"})) <= SearchesPerPass
                      /\ Cardinality(OfPass(ran, p, FetchTools)) <= FetchesPerPass
    /\ \A i \in DOMAIN ran : ran[i].tool \in Handled /\ (ran[i].bridged <=> ran[i].tool \notin Eager)
    /\ Once(ran, FetchTools) /\ Once(ran, {"web_search"})

\* Until it is over a turn has charged what it ran: to its total, to the pass if that goes on,
\* and to what it has seen.
Charges(r, ran) ==
    r.at \notin {"over", "lost"} =>
      /\ Len(ran) <= r.total /\ r.total <= CallsPerTurn
      /\ r.searches <= SearchesPerPass /\ r.fetches <= FetchesPerPass
      /\ \A i \in DOMAIN ran : /\ ran[i].pass <= r.pass
                               /\ r.at = "pass" => ran[i].pass < r.pass
                               /\ ran[i].tool = "web_search" => <<"search", ran[i].key>> \in r.seen
                               /\ ran[i].tool \in FetchTools => <<"fetch", ran[i].key>> \in r.seen
      /\ r.at \in {"request", "calls", "running"} =>
           /\ Cardinality(OfPass(ran, r.pass, {"web_search"})) <= r.searches
           /\ Cardinality(OfPass(ran, r.pass, FetchTools)) <= r.fetches

\* The calls that have no result yet are the last that were asked.
Outstanding(t, r) ==
    /\ Len(r.ids) <= r.asked
    /\ \A i \in DOMAIN r.ids : r.ids[i] = <<t, r.asked - Len(r.ids) + i>>
    /\ r.at \in {"calls", "running"} => Len(r.ids) = Len(r.batch) /\ \A i \in DOMAIN r.batch : r.batch[i].fn \in Offered
    /\ r.at = "running" => r.batch # <<>>
    /\ r.at \notin {"calls", "running"} /\ ~r.failed => r.ids = <<>>
    /\ r.at \in {"idle", "pass", "request", "calls", "running"} => ~r.failed
    /\ r.at = "idle" => r = FreshEngine

InLimits(r, ph) ==
    /\ r.at \in {"pass", "request"} /\ r.pass > 0 /\ r.total >= CallsPerTurn => r.forced
    /\ r.viewsInPass <= ViewsPerPass /\ Len(ph) <= PhotosPerTurn
    /\ r.at = "over" => \A i \in DOMAIN ph : ph[i].is # "queued"

\* The history and the turn's copy have the results of all calls but those outstanding.
Histories(t, r, o, c) ==
    /\ r.at # "lost" /\ ~r.failed => AnsweredUpTo(c, t, r.asked, r.asked - Len(r.ids))
    /\ r.at \notin {"idle", "over", "lost"} /\ ~r.failed => AnsweredUpTo(o, t, r.asked, r.asked - Len(r.ids))

ToolShape ==
    /\ chat \in Seq(ToolMessage) /\ own \in [ToolTurns -> Seq(ToolMessage)]
    /\ tools \in [ToolTurns -> EngineRecord] /\ ranTools \in [ToolTurns -> Seq(ToolRun)]
    /\ photos \in [ToolTurns -> Seq(Photo)]
SoundTools(t, r, ran, ph) == RunsSound(ran) /\ Charges(r, ran) /\ Outstanding(t, r) /\ InLimits(r, ph)

ToolInv ==
    /\ ToolShape
    /\ \A t \in ToolTurns : SoundTools(t, tools[t], ranTools[t], photos[t]) /\ Histories(t, tools[t], own[t], chat)

\* A step of one turn leaves the others as they are; what it says in the history is quiet for them.
LEMMA RunStep ==
    ASSUME ToolInv, NEW t \in ToolTurns, NEW x \in EngineRecord, NEW o \in Seq(ToolMessage), NEW ran \in Seq(ToolRun),
           NEW ph \in Seq(Photo),
           tools' = [tools EXCEPT ![t] = x], own' = [own EXCEPT ![t] = o], ranTools' = [ranTools EXCEPT ![t] = ran],
           photos' = [photos EXCEPT ![t] = ph],
           chat' = chat \/ \E m \in ToolMessage : chat' = Append(chat, m) /\ \A u \in ToolTurns \ {t} : Quiet(m, u),
           SoundTools(t, x, ran, ph), Histories(t, x, o, chat')
    PROVE  ToolInv'
  <1>0. ToolShape  BY DEF ToolInv
  <1>1. chat' \in Seq(ToolMessage)
    <2>1. CASE chat' = chat  BY <1>0, <2>1 DEF ToolShape
    <2>2. CASE \E m \in ToolMessage : chat' = Append(chat, m)  BY <1>0, <2>2 DEF ToolShape
    <2> QED  BY <2>1, <2>2
  <1>2. ToolShape'  BY <1>0, <1>1 DEF ToolShape
  <1>3. /\ tools'[t] = x /\ own'[t] = o /\ ranTools'[t] = ran /\ photos'[t] = ph
        /\ \A u \in ToolTurns \ {t} : tools'[u] = tools[u] /\ own'[u] = own[u] /\ ranTools'[u] = ranTools[u] /\ photos'[u] = photos[u]
    BY <1>0 DEF ToolShape
  <1>4. ASSUME NEW u \in ToolTurns
        PROVE  SoundTools(u, tools'[u], ranTools'[u], photos'[u]) /\ Histories(u, tools'[u], own'[u], chat')
    <2>1. CASE u = t  BY <1>3, <2>1
    <2>2. CASE u # t
      <3>1. SoundTools(u, tools[u], ranTools[u], photos[u]) /\ Histories(u, tools[u], own[u], chat)  BY DEF ToolInv
      <3>2. tools[u].asked \in Nat /\ tools[u].asked - Len(tools[u].ids) \in Nat
        <4>1. tools[u] \in EngineRecord  BY <1>0 DEF ToolShape
        <4>2. tools[u].asked \in Nat /\ tools[u].ids \in Seq(CallId)  BY <4>1 DEF EngineRecord
        <4>3. Len(tools[u].ids) \in Nat  BY <4>2
        <4> QED  BY <3>1, <4>2, <4>3 DEF SoundTools, Outstanding
      <3>3. AnsweredUpTo(chat, u, tools[u].asked, tools[u].asked - Len(tools[u].ids))
              => AnsweredUpTo(chat', u, tools[u].asked, tools[u].asked - Len(tools[u].ids))
        BY <1>0, <2>2, <3>2, AppendQuiet DEF ToolShape
      <3>4. Histories(u, tools[u], own[u], chat')  BY <3>1, <3>3 DEF Histories
      <3> QED  BY <1>3, <2>2, <3>1, <3>4
    <2> QED  BY <2>1, <2>2
  <1> QED  BY <1>2, <1>4 DEF ToolInv

LEMMA ToolLimits ==
    /\ CallsPerTurn \in Nat /\ CallsPerPass \in Nat /\ SearchesPerPass \in Nat /\ FetchesPerPass \in Nat
    /\ PhotosPerTurn \in Nat /\ ViewsPerTurn \in Nat /\ ViewsPerPass \in Nat /\ MaxPasses \in Nat
  BY ToolTurnAssumption

LEMMA FreshIs == /\ FreshEngine \in EngineRecord /\ [FreshEngine EXCEPT !.at = "lost"] \in EngineRecord
                 /\ FreshEngine.at = "idle" /\ FreshEngine.ids = <<>> /\ FreshEngine.asked = 0 /\ FreshEngine.total = 0 /\ FreshEngine.pass = 0
                 /\ FreshEngine.searches = 0 /\ FreshEngine.fetches = 0 /\ FreshEngine.viewsInPass = 0 /\ ~FreshEngine.failed
  <1>1. <<>> \in Seq(Call) /\ <<>> \in Seq(CallId) /\ {} \in SUBSET ({"search", "fetch"} \X STRING) /\ {} \in SUBSET STRING /\ (MaxPasses = 0) \in BOOLEAN
    OBVIOUS
  <1>2. FreshEngine \in EngineRecord  BY <1>1 DEF FreshEngine, EngineRecord
  <1>3. [FreshEngine EXCEPT !.at = "lost"] \in EngineRecord  BY <1>2 DEF EngineRecord
  <1> QED  BY <1>2, <1>3 DEF FreshEngine

LEMMA ToolInitial == ToolInit => ToolInv
  <1> SUFFICES ASSUME ToolInit PROVE ToolInv
    OBVIOUS
  <1>1. <<>> \in Seq(ToolMessage) /\ <<>> \in Seq(ToolRun) /\ <<>> \in Seq(Photo)  OBVIOUS
  <1>2. ToolShape  BY <1>1, FreshIs DEF ToolInit, ToolShape
  <1>3. ASSUME NEW t \in ToolTurns
        PROVE  SoundTools(t, tools[t], ranTools[t], photos[t]) /\ Histories(t, tools[t], own[t], chat)
    <2>1. tools[t] = FreshEngine /\ ranTools[t] = <<>> /\ photos[t] = <<>> /\ chat = <<>>  BY DEF ToolInit
    <2>2. CallsPerTurn >= 0 /\ SearchesPerPass >= 0 /\ FetchesPerPass >= 0 /\ PhotosPerTurn >= 0 /\ ViewsPerPass >= 0
      BY ToolLimits
    <2>3. Len(<<>>) = 0 /\ DOMAIN <<>> = {}  OBVIOUS
    <2>4. \A p, kind : OfPass(<<>>, p, kind) = {}  BY <2>3 DEF OfPass
    <2>5. Cardinality({}) = 0  BY FS_EmptySet
    <2>6. RunsSound(<<>>)
      <3>1. Once(<<>>, FetchTools) /\ Once(<<>>, {"web_search"})  BY <2>3 DEF Once
      <3>2. \A p \in Nat : /\ Cardinality(OfPass(<<>>, p, {"web_search"})) <= SearchesPerPass
                            /\ Cardinality(OfPass(<<>>, p, FetchTools)) <= FetchesPerPass
        BY <2>2, <2>4, <2>5
      <3> QED  BY <2>2, <2>3, <3>1, <3>2 DEF RunsSound
    <2>7. Charges(FreshEngine, <<>>)  BY <2>2, <2>3, FreshIs DEF Charges
    <2>8. Outstanding(t, FreshEngine)  BY <2>3, FreshIs DEF Outstanding
    <2>9. InLimits(FreshEngine, <<>>)  BY <2>2, <2>3, FreshIs DEF InLimits
    <2>10. AnsweredUpTo(<<>>, t, 0, 0)
      BY <2>3, AnsweredParts DEF AskedOnce, GivenAfter, GivenInOrder, OnlyThose
    <2>11. Histories(t, FreshEngine, own[t], <<>>)  BY <2>3, <2>10, FreshIs DEF Histories
    <2> QED  BY <2>1, <2>6, <2>7, <2>8, <2>9, <2>11 DEF SoundTools
  <1> QED  BY <1>2, <1>3 DEF ToolInv

\* A turn goes on by itself.
LEMMA LocalStep ==
    ASSUME ToolInv, NEW t \in ToolTurns, NEW x \in EngineRecord,
           tools' = [tools EXCEPT ![t] = x], UNCHANGED <<chat, own, ranTools, photos>>,
           SoundTools(t, x, ranTools[t], photos[t]), Histories(t, x, own[t], chat)
    PROVE  ToolInv'
  <1>1. /\ own[t] \in Seq(ToolMessage) /\ ranTools[t] \in Seq(ToolRun) /\ photos[t] \in Seq(Photo)
        /\ own' = [own EXCEPT ![t] = own[t]] /\ ranTools' = [ranTools EXCEPT ![t] = ranTools[t]] /\ photos' = [photos EXCEPT ![t] = photos[t]]
        /\ chat' = chat
    BY DEF ToolInv, ToolShape
  <1>2. Histories(t, x, own[t], chat')  BY <1>1
  <1> HIDE DEF ToolInv
  <1> QED  BY <1>1, <1>2, RunStep

LEMMA ToolFacts ==
    ASSUME ToolInv, NEW t \in ToolTurns
    PROVE  /\ tools[t] \in EngineRecord /\ own[t] \in Seq(ToolMessage) /\ ranTools[t] \in Seq(ToolRun) /\ photos[t] \in Seq(Photo)
           /\ chat \in Seq(ToolMessage)
           /\ RunsSound(ranTools[t]) /\ Charges(tools[t], ranTools[t]) /\ Outstanding(t, tools[t]) /\ InLimits(tools[t], photos[t])
           /\ Histories(t, tools[t], own[t], chat)
  BY DEF ToolInv, ToolShape, SoundTools

LEMMA EngineEntersStep == ASSUME ToolInv, NEW t \in ToolTurns, EngineEnters(t) PROVE ToolInv'
  <1> DEFINE r == tools[t]
             x == [r EXCEPT !.at = "pass"]
             o == Copied(chat)
  <1>0. /\ r \in EngineRecord /\ ranTools[t] \in Seq(ToolRun) /\ photos[t] \in Seq(Photo) /\ chat \in Seq(ToolMessage)
        /\ RunsSound(ranTools[t]) /\ Charges(r, ranTools[t]) /\ Outstanding(t, r) /\ InLimits(r, photos[t])
        /\ Histories(t, r, own[t], chat)
    BY ToolFacts
  <1>1. r.at = "idle" /\ own' = [own EXCEPT ![t] = o] /\ tools' = [tools EXCEPT ![t] = x] /\ UNCHANGED <<chat, ranTools, photos>>
    BY <1>0 DEF EngineEnters, EngineRecord, ToolInv, ToolShape
  <1>2. r = FreshEngine  BY <1>0, <1>1 DEF Outstanding
  <1>3. /\ x \in EngineRecord /\ x.at = "pass" /\ x.ids = <<>> /\ x.asked = 0 /\ x.total = 0 /\ x.pass = 0
        /\ x.searches = 0 /\ x.fetches = 0 /\ x.viewsInPass = 0 /\ ~x.failed
    BY <1>0, <1>2, FreshIs DEF EngineRecord
  <1>4. Len(<<>>) = 0 /\ DOMAIN <<>> = {}  OBVIOUS
  <1>5. AnsweredUpTo(chat, t, 0, 0)  BY <1>0, <1>2, <1>4, FreshIs DEF Histories
  <1>6. o \in Seq(ToolMessage) /\ AnsweredUpTo(o, t, 0, 0)
    <2>1. PICK k \in 0..Len(chat) : Compacted(chat) = Latest(chat, k)  BY <1>0, CompactedIs
    <2> QED  BY <1>0, <1>5, <2>1, EndIsQuiet DEF Copied
  <1>7. /\ ranTools' = [ranTools EXCEPT ![t] = ranTools[t]] /\ photos' = [photos EXCEPT ![t] = photos[t]] /\ chat' = chat
    BY <1>1 DEF ToolInv, ToolShape
  <1>8. Len(ranTools[t]) = 0 /\ DOMAIN ranTools[t] = {}
    <2>1. Len(ranTools[t]) <= 0 /\ Len(ranTools[t]) \in Nat  BY <1>0, <1>1, <1>2, FreshIs DEF Charges
    <2> QED  BY <1>0, <2>1
  <1> HIDE DEF r, x, o
  <1>9. Charges(x, ranTools[t])  BY <1>3, <1>8, ToolLimits DEF Charges
  <1>10. Outstanding(t, x)  BY <1>3, <1>4 DEF Outstanding
  <1>11. InLimits(x, photos[t])  BY <1>0, <1>3, ToolLimits DEF InLimits
  <1>12. Histories(t, x, o, chat')  BY <1>3, <1>4, <1>5, <1>6, <1>7 DEF Histories
  <1>13. SoundTools(t, x, ranTools[t], photos[t])  BY <1>0, <1>9, <1>10, <1>11 DEF SoundTools
  <1> QED  BY <1>0, <1>1, <1>3, <1>6, <1>7, <1>12, <1>13, RunStep

LEMMA PassBeginsStep == ASSUME ToolInv, NEW t \in ToolTurns, PassBegins(t) PROVE ToolInv'
  <1> DEFINE r == tools[t]
             y == [Afresh(r) EXCEPT !.at = "request"]
             z == [r EXCEPT !.at = "deliver", !.failed = TRUE]
  <1>0. /\ r \in EngineRecord /\ ranTools[t] \in Seq(ToolRun) /\ photos[t] \in Seq(Photo)
        /\ RunsSound(ranTools[t]) /\ Charges(r, ranTools[t]) /\ Outstanding(t, r) /\ InLimits(r, photos[t])
        /\ Histories(t, r, own[t], chat)
    BY ToolFacts
  <1>1. r.at = "pass" /\ UNCHANGED <<chat, own, ranTools, photos>>
    BY DEF PassBegins
  <1>a. /\ r.pass < MaxPasses \/ r.forced => tools' = [tools EXCEPT ![t] = y]
        /\ ~(r.pass < MaxPasses \/ r.forced) => tools' = [tools EXCEPT ![t] = z]
    BY DEF PassBegins
  <1>2. /\ y \in EngineRecord /\ y.at = "request" /\ y.ids = r.ids /\ y.asked = r.asked /\ y.total = r.total /\ y.pass = r.pass
        /\ y.seen = r.seen /\ y.searches = 0 /\ y.fetches = 0 /\ y.viewsInPass = 0 /\ y.failed = r.failed /\ y.forced = r.forced
    BY <1>0 DEF EngineRecord, Afresh
  <1>3. /\ z \in EngineRecord /\ z.at = "deliver" /\ z.ids = r.ids /\ z.asked = r.asked /\ z.total = r.total /\ z.pass = r.pass
        /\ z.seen = r.seen /\ z.searches = r.searches /\ z.fetches = r.fetches /\ z.viewsInPass = r.viewsInPass /\ z.failed
    BY <1>0 DEF EngineRecord
  <1>4. r.pass \in Nat  BY <1>0 DEF EngineRecord
  <1> HIDE DEF r, y, z
  <1>5. CASE r.pass < MaxPasses \/ r.forced
    <2>1. \A kind : OfPass(ranTools[t], r.pass, kind) = {}
      <3>1. \A i \in DOMAIN ranTools[t] : ranTools[t][i].pass < r.pass  BY <1>0, <1>1 DEF Charges
      <3> QED  BY <1>4, <3>1 DEF OfPass
    <2>2. Cardinality({}) = 0  BY FS_EmptySet
    <2>c. /\ Len(ranTools[t]) <= r.total /\ r.total <= CallsPerTurn
          /\ \A i \in DOMAIN ranTools[t] :
               /\ ranTools[t][i].pass <= r.pass
               /\ ranTools[t][i].tool = "web_search" => <<"search", ranTools[t][i].key>> \in r.seen
               /\ ranTools[t][i].tool \in FetchTools => <<"fetch", ranTools[t][i].key>> \in r.seen
      BY <1>0, <1>1 DEF Charges
    <2>d. /\ Cardinality(OfPass(ranTools[t], r.pass, {"web_search"})) = 0
          /\ Cardinality(OfPass(ranTools[t], r.pass, FetchTools)) = 0
      BY <2>1, <2>2
    <2>3. Charges(y, ranTools[t])
      BY <1>2, <2>c, <2>d, ToolLimits DEF Charges
    <2>4. Outstanding(t, y)  BY <1>0, <1>1, <1>2 DEF Outstanding
    <2>5. InLimits(y, photos[t])  BY <1>0, <1>1, <1>2, ToolLimits DEF InLimits
    <2>6. Histories(t, y, own[t], chat)  BY <1>0, <1>1, <1>2 DEF Histories
    <2>7. SoundTools(t, y, ranTools[t], photos[t])  BY <1>0, <2>3, <2>4, <2>5 DEF SoundTools
    <2> QED  BY <1>1, <1>2, <1>5, <1>a, <2>6, <2>7, LocalStep
  <1>6. CASE ~(r.pass < MaxPasses \/ r.forced)
    <2>3. Charges(z, ranTools[t])
      BY <1>0, <1>1, <1>3 DEF Charges
    <2>4. Outstanding(t, z)  BY <1>0, <1>1, <1>3 DEF Outstanding
    <2>5. InLimits(z, photos[t])  BY <1>0, <1>1, <1>3 DEF InLimits
    <2>6. Histories(t, z, own[t], chat)  BY <1>0, <1>1, <1>3 DEF Histories
    <2>7. SoundTools(t, z, ranTools[t], photos[t])  BY <1>0, <2>3, <2>4, <2>5 DEF SoundTools
    <2> QED  BY <1>1, <1>3, <1>6, <1>a, <2>6, <2>7, LocalStep
  <1> QED  BY <1>5, <1>6

LEMMA ChargesKept ==
    ASSUME NEW r \in EngineRecord, NEW x \in EngineRecord, NEW ran \in Seq(ToolRun), Charges(r, ran), r.at \notin {"over", "lost"},
           x.total = r.total, x.seen = r.seen, x.searches = r.searches, x.fetches = r.fetches, x.pass = r.pass, x.at # "pass",
           x.at \in {"request", "calls", "running"} => r.at \in {"request", "calls", "running"}
    PROVE  Charges(x, ran)
  BY DEF Charges

\* The next pass has run nothing yet.
LEMMA ChargesOfPast ==
    ASSUME NEW r \in EngineRecord, NEW x \in EngineRecord, NEW ran \in Seq(ToolRun), Charges(r, ran), r.at \notin {"over", "lost"},
           x.total = r.total, x.seen = r.seen, x.searches = r.searches, x.fetches = r.fetches, x.pass = r.pass + 1, x.at = "pass"
    PROVE  Charges(x, ran)
  <1>1. r.pass \in Nat  BY DEF EngineRecord
  <1>2. \A i \in DOMAIN ran : ran[i].pass \in Nat
    <2> SUFFICES ASSUME NEW i \in DOMAIN ran PROVE ran[i].pass \in Nat
      OBVIOUS
    <2>1. ran[i] \in ToolRun  OBVIOUS
    <2> QED  BY <2>1 DEF ToolRun
  <1>3. /\ Len(ran) <= r.total /\ r.total <= CallsPerTurn /\ r.searches <= SearchesPerPass /\ r.fetches <= FetchesPerPass
        /\ \A i \in DOMAIN ran :
             /\ ran[i].pass <= r.pass
             /\ ran[i].tool = "web_search" => <<"search", ran[i].key>> \in r.seen
             /\ ran[i].tool \in FetchTools => <<"fetch", ran[i].key>> \in r.seen
    BY DEF Charges
  <1>4. \A i \in DOMAIN ran : ran[i].pass <= x.pass /\ ran[i].pass < x.pass
    <2> SUFFICES ASSUME NEW i \in DOMAIN ran PROVE ran[i].pass <= x.pass /\ ran[i].pass < x.pass
      OBVIOUS
    <2>1. ran[i].pass \in Nat /\ ran[i].pass <= r.pass /\ x.pass = r.pass + 1  BY <1>2, <1>3
    <2> HIDE DEF Charges
    <2> QED  BY ONLY <1>1, <2>1
  <1> QED  BY <1>3, <1>4 DEF Charges

\* A request or a call fails, or the model has answered.
LEMMA LeavesLoop ==
    ASSUME ToolInv, NEW t \in ToolTurns, tools[t].at \in {"request", "running"},
           NEW failed \in BOOLEAN, tools[t].at = "running" => failed,
           tools' = [tools EXCEPT ![t] = [tools[t] EXCEPT !.at = "deliver", !.failed = failed]],
           UNCHANGED <<chat, own, ranTools, photos>>
    PROVE  ToolInv'
  <1> DEFINE r == tools[t]
             x == [r EXCEPT !.at = "deliver", !.failed = failed]
  <1>0. /\ r \in EngineRecord /\ ranTools[t] \in Seq(ToolRun) /\ photos[t] \in Seq(Photo)
        /\ RunsSound(ranTools[t]) /\ Charges(r, ranTools[t]) /\ Outstanding(t, r) /\ InLimits(r, photos[t])
        /\ Histories(t, r, own[t], chat)
    BY ToolFacts
  <1>1. r.at \in {"request", "running"} /\ tools' = [tools EXCEPT ![t] = x] /\ (r.at = "running" => failed)
    OBVIOUS
  <1>3. /\ x \in EngineRecord /\ x.at = "deliver" /\ x.ids = r.ids /\ x.asked = r.asked /\ x.total = r.total /\ x.pass = r.pass
        /\ x.seen = r.seen /\ x.searches = r.searches /\ x.fetches = r.fetches /\ x.viewsInPass = r.viewsInPass /\ x.failed = failed
    BY <1>0 DEF EngineRecord
  <1> HIDE DEF r, x
  <1>4. Charges(x, ranTools[t])  BY <1>0, <1>1, <1>3, ChargesKept
  <1>5. Outstanding(t, x)  BY <1>0, <1>1, <1>3 DEF Outstanding
  <1>6. InLimits(x, photos[t])  BY <1>0, <1>1, <1>3 DEF InLimits
  <1>7. Histories(t, x, own[t], chat)  BY <1>0, <1>1, <1>3 DEF Histories, Outstanding
  <1>8. SoundTools(t, x, ranTools[t], photos[t])  BY <1>0, <1>4, <1>5, <1>6 DEF SoundTools
  <1> QED  BY <1>1, <1>3, <1>7, <1>8, LocalStep

\* Another pass begins: with the calls of the last one done, or for a request without tools.
LEMMA GoesOn ==
    ASSUME ToolInv, NEW t \in ToolTurns,
           tools[t].at = "request" \/ (tools[t].at = "calls" /\ tools[t].batch = <<>>),
           NEW forced \in BOOLEAN, NEW tries \in Nat, tools[t].total >= CallsPerTurn => forced,
           tools' = [tools EXCEPT ![t] = [tools[t] EXCEPT !.at = "pass", !.pass = @ + 1, !.forced = forced, !.tries = tries]],
           UNCHANGED <<chat, own, ranTools, photos>>
    PROVE  ToolInv'
  <1> DEFINE r == tools[t]
             x == [r EXCEPT !.at = "pass", !.pass = @ + 1, !.forced = forced, !.tries = tries]
  <1>0. /\ r \in EngineRecord /\ ranTools[t] \in Seq(ToolRun) /\ photos[t] \in Seq(Photo)
        /\ RunsSound(ranTools[t]) /\ Charges(r, ranTools[t]) /\ Outstanding(t, r) /\ InLimits(r, photos[t])
        /\ Histories(t, r, own[t], chat)
    BY ToolFacts
  <1>1. /\ r.at = "request" \/ (r.at = "calls" /\ r.batch = <<>>)
        /\ tools' = [tools EXCEPT ![t] = x] /\ (r.total >= CallsPerTurn => forced)
    OBVIOUS
  <1>3. /\ x \in EngineRecord /\ x.at = "pass" /\ x.ids = r.ids /\ x.asked = r.asked /\ x.total = r.total /\ x.pass = r.pass + 1
        /\ x.seen = r.seen /\ x.searches = r.searches /\ x.fetches = r.fetches /\ x.viewsInPass = r.viewsInPass /\ x.failed = r.failed
        /\ x.forced = forced
    <2>1. r.pass \in Nat /\ r.pass + 1 \in Nat  BY <1>0 DEF EngineRecord
    <2>2. x \in EngineRecord  BY <1>0, <2>1 DEF EngineRecord
    <2> QED  BY <1>0, <2>2 DEF EngineRecord
  <1>i. r.ids \in Seq(CallId)  BY <1>0 DEF EngineRecord
  <1> HIDE DEF r, x
  <1>e. r.ids = <<>>
    <2>1. CASE r.at = "request"  BY <1>0, <2>1 DEF Outstanding
    <2>2. CASE r.at = "calls" /\ r.batch = <<>>
      <3>1. Len(r.ids) = 0  BY <1>0, <2>2 DEF Outstanding
      <3> QED  BY <1>i, <3>1
    <2> QED  BY <1>1, <2>1, <2>2
  <1>4. Charges(x, ranTools[t])  BY <1>0, <1>1, <1>3, ChargesOfPast
  <1>5. Outstanding(t, x)  BY <1>0, <1>1, <1>3, <1>e DEF Outstanding
  <1>6. InLimits(x, photos[t])  BY <1>0, <1>1, <1>3 DEF InLimits
  <1>7. Histories(t, x, own[t], chat)  BY <1>0, <1>1, <1>3 DEF Histories
  <1>8. SoundTools(t, x, ranTools[t], photos[t])  BY <1>0, <1>4, <1>5, <1>6 DEF SoundTools
  <1> QED  BY <1>1, <1>3, <1>7, <1>8, LocalStep

LEMMA ModelFailsStep == ASSUME ToolInv, NEW t \in ToolTurns, ModelFails(t) \/ CallRaises(t) PROVE ToolInv'
  <1>1. tools[t] \in EngineRecord /\ tools \in [ToolTurns -> EngineRecord]  BY DEF ToolInv, ToolShape
  <1>2. tools' = [tools EXCEPT ![t] = [tools[t] EXCEPT !.at = "deliver", !.failed = TRUE]]
    BY <1>1 DEF ModelFails, CallRaises, EngineRecord
  <1>3. tools[t].at \in {"request", "running"} /\ UNCHANGED <<chat, own, ranTools, photos>>
    BY DEF ModelFails, CallRaises
  <1> QED  BY <1>2, <1>3, LeavesLoop

LEMMA CallsDoneStep == ASSUME ToolInv, NEW t \in ToolTurns, CallsDone(t) PROVE ToolInv'
  <1> DEFINE r == tools[t]
             forced == r.forced \/ Spent(r)
  <1>1. r \in EngineRecord  BY DEF ToolInv, ToolShape
  <1>2. tools' = [tools EXCEPT ![t] = [r EXCEPT !.at = "pass", !.pass = @ + 1, !.forced = forced, !.tries = r.tries]]
    <2>1. [r EXCEPT !.at = "pass", !.pass = @ + 1, !.forced = forced, !.tries = r.tries]
            = [r EXCEPT !.at = "pass", !.pass = @ + 1, !.forced = @ \/ Spent(r)]
      BY <1>1 DEF EngineRecord
    <2> QED  BY <2>1 DEF CallsDone
  <1>3. r.at = "calls" /\ r.batch = <<>> /\ UNCHANGED <<chat, own, ranTools, photos>>
    BY DEF CallsDone
  <1>4. forced \in BOOLEAN /\ r.tries \in Nat /\ (r.total >= CallsPerTurn => forced)
    BY <1>1 DEF EngineRecord, Spent
  <1> HIDE DEF forced
  <1> QED  BY <1>2, <1>3, <1>4, GoesOn

LEMMA ModelSaysStep == ASSUME ToolInv, NEW t \in ToolTurns, ModelSays(t) PROVE ToolInv'
  <1> DEFINE r == tools[t]
             x == [r EXCEPT !.at = "pass", !.pass = @ + 1, !.forced = TRUE]
             y == [r EXCEPT !.at = "pass", !.pass = @ + 1, !.tries = 1]
             z == [r EXCEPT !.at = "deliver"]
  <1>1. r \in EngineRecord /\ r.at = "request" /\ UNCHANGED <<chat, own, ranTools, photos>>
    BY DEF ToolInv, ToolShape, ModelSays
  <1>2. \/ tools' = [tools EXCEPT ![t] = x]
        \/ r.forced /\ tools' = [tools EXCEPT ![t] = y]
        \/ tools' = [tools EXCEPT ![t] = z]
    BY DEF ModelSays
  <1>3. ~r.failed  BY <1>1, ToolFacts DEF Outstanding
  <1>4. r.forced \in BOOLEAN /\ r.tries \in Nat /\ r.failed = FALSE  BY <1>1, <1>3 DEF EngineRecord
  <1>5. CASE tools' = [tools EXCEPT ![t] = x]
    <2>1. x = [r EXCEPT !.at = "pass", !.pass = @ + 1, !.forced = TRUE, !.tries = r.tries]
      BY <1>1 DEF EngineRecord
    <2> QED  BY <1>1, <1>4, <1>5, <2>1, GoesOn
  <1>6. CASE r.forced /\ tools' = [tools EXCEPT ![t] = y]
    <2>1. y = [r EXCEPT !.at = "pass", !.pass = @ + 1, !.forced = TRUE, !.tries = 1]
      BY <1>1, <1>4, <1>6 DEF EngineRecord
    <2> QED  BY <1>1, <1>6, <2>1, GoesOn
  <1>7. CASE tools' = [tools EXCEPT ![t] = z]
    <2>1. z = [r EXCEPT !.at = "deliver", !.failed = FALSE]
      BY <1>1, <1>4 DEF EngineRecord
    <2> QED  BY <1>1, <1>7, <2>1, LeavesLoop
  <1> QED  BY <1>2, <1>5, <1>6, <1>7

LEMMA ModelCallsStep == ASSUME ToolInv, NEW t \in ToolTurns, ModelCalls(t) PROVE ToolInv'
  <1> DEFINE r == tools[t]
  <1>0. /\ r \in EngineRecord /\ own[t] \in Seq(ToolMessage) /\ ranTools[t] \in Seq(ToolRun) /\ photos[t] \in Seq(Photo)
        /\ chat \in Seq(ToolMessage)
        /\ RunsSound(ranTools[t]) /\ Charges(r, ranTools[t]) /\ Outstanding(t, r) /\ InLimits(r, photos[t])
        /\ Histories(t, r, own[t], chat)
    BY ToolFacts
  <1>1. PICK batch \in Batches[t] :
          IF Refuses(batch)
          THEN /\ tools' = [tools EXCEPT ![t].at = "deliver", ![t].failed = TRUE]
               /\ UNCHANGED <<chat, own>>
          ELSE /\ Appends(t, Said("assistant", NewIds(t, batch), 1))
               /\ tools' = [tools EXCEPT ![t].at = "calls", ![t].batch = batch, ![t].ids = NewIds(t, batch),
                                         ![t].asked = @ + Len(batch)]
    BY DEF ModelCalls
  <1>2. r.at = "request" /\ UNCHANGED <<ranTools, photos>>  BY DEF ModelCalls
  <1>3. batch \in Seq(Call)  BY ToolTurnAssumption
  <1>4. CASE Refuses(batch)
    <2>1. tools' = [tools EXCEPT ![t] = [tools[t] EXCEPT !.at = "deliver", !.failed = TRUE]] /\ UNCHANGED <<chat, own>>
      BY <1>0, <1>1, <1>4 DEF EngineRecord, ToolInv, ToolShape
    <2> QED  BY <1>2, <2>1, LeavesLoop
  <1>5. CASE ~Refuses(batch)
    <2> DEFINE n == Len(batch)
               ids == NewIds(t, batch)
               m == Said("assistant", ids, 1)
               x == [r EXCEPT !.at = "calls", !.batch = batch, !.ids = ids, !.asked = @ + n]
               o == Append(own[t], m)
    <2>1. /\ tools' = [tools EXCEPT ![t] = x] /\ chat' = Append(chat, m) /\ own' = [own EXCEPT ![t] = o]
          /\ ranTools' = [ranTools EXCEPT ![t] = ranTools[t]] /\ photos' = [photos EXCEPT ![t] = photos[t]]
      BY <1>0, <1>1, <1>2, <1>5 DEF Appends, EngineRecord, ToolInv, ToolShape
    <2>2. n \in Nat /\ DOMAIN batch = 1..n /\ r.asked \in Nat /\ r.asked + n \in Nat /\ r.ids = <<>> /\ r.failed = FALSE
      BY <1>0, <1>2, <1>3 DEF EngineRecord, Outstanding
    <2>3. ids = [i \in 1..n |-> <<t, r.asked + i>>]  BY <2>2 DEF NewIds
    <2> HIDE DEF ids
    <2>4. ids \in Seq(CallId) /\ Len(ids) = n /\ DOMAIN ids = 1..n
      <3>1. \A i \in 1..n : <<t, r.asked + i>> \in CallId  BY <2>2 DEF CallId
      <3>2. ids \in [1..n -> CallId]  BY <2>3, <3>1
      <3> QED  BY <2>2, <3>2
    <2>5. m \in ToolMessage /\ m.role = "assistant" /\ m.ids = ids  BY <2>4 DEF Said, ToolMessage
    <2>6. /\ x \in EngineRecord /\ x.at = "calls" /\ x.ids = ids /\ x.batch = batch /\ x.asked = r.asked + n /\ x.total = r.total /\ x.pass = r.pass
          /\ x.seen = r.seen /\ x.searches = r.searches /\ x.fetches = r.fetches /\ x.viewsInPass = r.viewsInPass /\ x.failed = r.failed
      BY <1>0, <1>3, <2>2, <2>4 DEF EngineRecord
    <2>7. \A u \in ToolTurns \ {t} : Quiet(m, u)
      <3> SUFFICES ASSUME NEW u \in ToolTurns \ {t}, NEW i \in DOMAIN m.ids PROVE m.ids[i][1] # u
        BY DEF Quiet
      <3>1. m.ids[i] = <<t, r.asked + i>>  BY <2>3, <2>4, <2>5
      <3> QED  BY <3>1
    <2> HIDE DEF m, x, n
    <2>8. Charges(x, ranTools[t])
      <3> HIDE DEF r
      <3> QED  BY <1>0, <1>2, <2>6, ChargesKept
    <2>9. Outstanding(t, x)
      <3>1. \A i \in DOMAIN batch : batch[i].fn \in Offered  BY <1>5 DEF Refuses
      <3>2. \A i \in 1..n : ids[i] = <<t, x.asked - Len(ids) + i>>
        <4>1. \A i \in 1..n : (r.asked + n) - n + i = r.asked + i  BY <2>2
        <4> QED  BY <2>3, <2>4, <2>6, <4>1
      <3>3. Len(ids) <= r.asked + n  BY <2>2, <2>4
      <3>4. Len(ids) = Len(batch)  BY <2>4 DEF n
      <3> QED  BY <2>2, <2>4, <2>6, <3>1, <3>2, <3>3, <3>4 DEF Outstanding
    <2>10. InLimits(x, photos[t])
      <3> HIDE DEF r
      <3> QED  BY <1>0, <2>6 DEF InLimits
    <2>11. AnsweredUpTo(chat, t, r.asked, r.asked) /\ AnsweredUpTo(own[t], t, r.asked, r.asked)
      <3>1. Len(<<>>) = 0 /\ r.asked - 0 = r.asked  BY <2>2
      <3> QED  BY <1>0, <1>2, <2>2, <3>1 DEF Histories
    <2>12. AnsweredUpTo(Append(chat, m), t, r.asked + n, r.asked) /\ AnsweredUpTo(o, t, r.asked + n, r.asked)
      BY <1>0, <2>2, <2>3, <2>5, <2>11, AppendAsking
    <2>13. x.asked - Len(x.ids) = r.asked  BY <2>2, <2>4, <2>6
    <2>14. Histories(t, x, o, chat')  BY <2>1, <2>6, <2>12, <2>13 DEF Histories
    <2>15. SoundTools(t, x, ranTools[t], photos[t])  BY <1>0, <2>8, <2>9, <2>10 DEF SoundTools
    <2>16. o \in Seq(ToolMessage)  BY <1>0, <2>5, AfterAppend
    <2> HIDE DEF o
    <2> QED  BY <1>0, <2>1, <2>5, <2>6, <2>7, <2>14, <2>15, <2>16, RunStep
  <1> QED  BY <1>4, <1>5

\* The first outstanding call has its result, and maybe an image for the model after it.
LEMMA ResultStep ==
    ASSUME ToolInv, NEW t \in ToolTurns, tools[t].at \in {"calls", "running"}, tools[t].batch # <<>>,
           NEW x \in EngineRecord, NEW ph \in Seq(Photo), NEW view \in BOOLEAN,
           x.at = "calls", x.batch = Tail(tools[t].batch), x.ids = Tail(tools[t].ids), x.asked = tools[t].asked,
           x.total = tools[t].total, x.pass = tools[t].pass, x.seen = tools[t].seen, x.searches = tools[t].searches,
           x.fetches = tools[t].fetches, x.failed = tools[t].failed, InLimits(x, ph),
           tools' = [tools EXCEPT ![t] = x], ranTools' = ranTools, photos' = [photos EXCEPT ![t] = ph],
           Results(t, view)
    PROVE  ToolInv'
  <1> DEFINE r == tools[t]
             m == Said("tool", <<Head(r.ids)>>, 1)
             v == Said("user", <<>>, 1)
             o == IF view THEN Append(Append(own[t], m), v) ELSE Append(own[t], m)
             d == r.asked - Len(r.ids)
  <1>0. /\ r \in EngineRecord /\ own[t] \in Seq(ToolMessage) /\ ranTools[t] \in Seq(ToolRun) /\ photos[t] \in Seq(Photo)
        /\ chat \in Seq(ToolMessage)
        /\ RunsSound(ranTools[t]) /\ Charges(r, ranTools[t]) /\ Outstanding(t, r) /\ InLimits(r, photos[t])
        /\ Histories(t, r, own[t], chat)
    BY ToolFacts
  <1>1. /\ r.at \in {"calls", "running"} /\ r.batch # <<>>
        /\ x.at = "calls" /\ x.batch = Tail(r.batch) /\ x.ids = Tail(r.ids) /\ x.asked = r.asked
        /\ x.total = r.total /\ x.pass = r.pass /\ x.seen = r.seen /\ x.searches = r.searches /\ x.fetches = r.fetches /\ x.failed = r.failed
    OBVIOUS
  <1>2. /\ chat' = Append(chat, m) /\ own' = [own EXCEPT ![t] = o]
        /\ ranTools' = [ranTools EXCEPT ![t] = ranTools[t]]
    BY DEF Results, ToolInv, ToolShape
  <1>3. /\ r.ids \in Seq(CallId) /\ r.batch \in Seq(Call) /\ r.asked \in Nat /\ r.failed = FALSE
        /\ Len(r.ids) = Len(r.batch) /\ Len(r.ids) <= r.asked
        /\ \A i \in DOMAIN r.ids : r.ids[i] = <<t, r.asked - Len(r.ids) + i>>
        /\ \A i \in DOMAIN r.batch : r.batch[i].fn \in Offered
    BY <1>0, <1>1 DEF EngineRecord, Outstanding
  <1> HIDE DEF r
  <1>4. /\ Len(r.ids) \in Nat /\ Len(r.ids) > 0 /\ 1 \in DOMAIN r.ids /\ DOMAIN r.ids = 1..Len(r.ids) /\ DOMAIN r.batch = 1..Len(r.ids)
        /\ Head(r.ids) = r.ids[1] /\ Len(Tail(r.ids)) = Len(r.ids) - 1 /\ Len(Tail(r.batch)) = Len(r.ids) - 1
        /\ \A i \in 1..(Len(r.ids) - 1) : Tail(r.ids)[i] = r.ids[i + 1] /\ Tail(r.batch)[i] = r.batch[i + 1]
        /\ DOMAIN Tail(r.ids) = 1..(Len(r.ids) - 1) /\ DOMAIN Tail(r.batch) = 1..(Len(r.ids) - 1)
    BY <1>1, <1>3
  <1>5. d \in Nat /\ d < r.asked /\ r.asked - (Len(r.ids) - 1) = d + 1  BY <1>3, <1>4
  <1>6. Head(r.ids) = <<t, d + 1>>  BY <1>3, <1>4
  <1>7. m.role = "tool" /\ m.ids = <<<<t, d + 1>>>> /\ v.ids = <<>> /\ v.role = "user"  BY <1>6 DEF Said
  <1>8. m \in ToolMessage /\ v \in ToolMessage
    <2>1. <<t, d + 1>> \in CallId  BY <1>5 DEF CallId
    <2>2. <<<<t, d + 1>>>> \in Seq(CallId) /\ <<>> \in Seq(CallId)  BY <2>1
    <2>3. 1 \in DOMAIN <<<<t, d + 1>>>>  OBVIOUS
    <2> QED  BY <1>6, <2>2, <2>3 DEF Said, ToolMessage
  <1>9. \A u \in ToolTurns \ {t} : Quiet(m, u)
    <2> SUFFICES ASSUME NEW u \in ToolTurns \ {t}, NEW i \in DOMAIN m.ids PROVE m.ids[i][1] # u
      BY DEF Quiet
    <2>1. m.ids[i] = <<t, d + 1>>  BY <1>7
    <2> QED  BY <2>1
  <1>10. Quiet(v, t)  BY <1>7 DEF Quiet
  <1> HIDE DEF m, v
  <1>11. AnsweredUpTo(chat, t, r.asked, d) /\ AnsweredUpTo(own[t], t, r.asked, d)
    BY <1>0, <1>1, <1>3 DEF Histories
  <1> HIDE DEF d
  <1>12. AnsweredUpTo(Append(chat, m), t, r.asked, d + 1) /\ AnsweredUpTo(Append(own[t], m), t, r.asked, d + 1)
    BY <1>0, <1>3, <1>5, <1>7, <1>8, <1>11, AppendResult
  <1>13. Append(own[t], m) \in Seq(ToolMessage) /\ Append(Append(own[t], m), v) \in Seq(ToolMessage)
    BY <1>0, <1>8
  <1>14. AnsweredUpTo(Append(Append(own[t], m), v), t, r.asked, d + 1)
    <2>1. d + 1 \in Nat /\ r.asked \in Nat  BY <1>3, <1>5
    <2> QED  BY <1>8, <1>10, <1>12, <1>13, <2>1, AppendQuiet
  <1>15. o \in Seq(ToolMessage) /\ AnsweredUpTo(o, t, r.asked, d + 1)  BY <1>12, <1>13, <1>14
  <1> HIDE DEF o
  <1>16. x.asked - Len(x.ids) = d + 1  BY <1>1, <1>4, <1>5
  <1>17. Histories(t, x, o, chat')  BY <1>1, <1>2, <1>12, <1>15, <1>16 DEF Histories
  <1>18. Charges(x, ranTools[t])  BY <1>0, <1>1, ChargesKept
  <1>19. Outstanding(t, x)
    <2>1. \A i \in DOMAIN x.ids : x.ids[i] = <<t, x.asked - Len(x.ids) + i>>
      <3> SUFFICES ASSUME NEW i \in 1..(Len(r.ids) - 1) PROVE Tail(r.ids)[i] = <<t, r.asked - (Len(r.ids) - 1) + i>>
        BY <1>1, <1>4
      <3>a. Len(r.ids) \in Nat /\ r.asked \in Nat /\ i \in Nat /\ i + 1 \in 1..Len(r.ids)  BY <1>3, <1>4
      <3>b. r.asked - Len(r.ids) + (i + 1) = r.asked - (Len(r.ids) - 1) + i  BY ONLY <3>a
      <3>1. i + 1 \in DOMAIN r.ids /\ r.asked - Len(r.ids) + (i + 1) = r.asked - (Len(r.ids) - 1) + i  BY <1>4, <3>a, <3>b
      <3>2. r.ids[i + 1] = <<t, r.asked - Len(r.ids) + (i + 1)>>  BY <1>3, <3>1
      <3> QED  BY <1>4, <3>1, <3>2
    <2>2. \A i \in DOMAIN x.batch : x.batch[i].fn \in Offered
      <3> SUFFICES ASSUME NEW i \in 1..(Len(r.ids) - 1) PROVE Tail(r.batch)[i].fn \in Offered
        BY <1>1, <1>4
      <3>1. i + 1 \in DOMAIN r.batch  BY <1>4
      <3> QED  BY <1>3, <1>4, <3>1
    <2>a. Len(x.ids) = Len(r.ids) - 1 /\ Len(x.batch) = Len(r.ids) - 1 /\ x.asked = r.asked  BY <1>1, <1>4
    <2>b. Len(r.ids) \in Nat /\ r.asked \in Nat /\ Len(r.ids) <= r.asked  BY <1>3, <1>4
    <2>3. Len(x.ids) <= x.asked /\ Len(x.ids) = Len(x.batch)  BY ONLY <2>a, <2>b
    <2> QED  BY <1>1, <1>3, <2>1, <2>2, <2>3 DEF Outstanding
  <1>20. SoundTools(t, x, ranTools[t], ph)  BY <1>0, <1>18, <1>19 DEF SoundTools
  <1> QED  BY <1>0, <1>2, <1>8, <1>9, <1>15, <1>17, <1>20, RunStep

LEMMA NextCall ==
    ASSUME NEW r \in EngineRecord, r.batch # <<>>
    PROVE  /\ Head(r.batch) \in Call /\ Tail(r.batch) \in Seq(Call)
           /\ r.ids # <<>> => Tail(r.ids) \in Seq(CallId)
  BY DEF EngineRecord

LEMMA CallRefusedStep == ASSUME ToolInv, NEW t \in ToolTurns, CallRefused(t) PROVE ToolInv'
  <1> DEFINE r == tools[t]
             forced == r.forced \/ EndsTools(r, Head(r.batch))
             x == [r EXCEPT !.batch = Tail(@), !.ids = Tail(@), !.forced = forced]
  <1>0. /\ r \in EngineRecord /\ photos[t] \in Seq(Photo) /\ Outstanding(t, r) /\ InLimits(r, photos[t])
    BY ToolFacts
  <1>1. /\ r.at = "calls" /\ r.batch # <<>> /\ tools' = [tools EXCEPT ![t] = x] /\ UNCHANGED <<ranTools, photos>>
        /\ Appends(t, Said("tool", <<Head(r.ids)>>, 1))
    BY DEF CallRefused
  <1>2. Results(t, FALSE)  BY <1>1 DEF Appends, Results
  <1>3. r.ids # <<>>
    <2>1. Len(r.ids) = Len(r.batch) /\ r.batch \in Seq(Call)  BY <1>0, <1>1 DEF Outstanding, EngineRecord
    <2>2. Len(r.batch) # 0  BY <1>1, <2>1
    <2> QED  BY <2>1, <2>2
  <1>4. forced \in BOOLEAN  BY <1>0 DEF EngineRecord, EndsTools
  <1>5. Tail(r.batch) \in Seq(Call) /\ Tail(r.ids) \in Seq(CallId)  BY <1>0, <1>1, <1>3, NextCall
  <1> HIDE DEF forced
  <1>6. /\ x \in EngineRecord /\ x.at = "calls" /\ x.batch = Tail(r.batch) /\ x.ids = Tail(r.ids) /\ x.asked = r.asked
        /\ x.total = r.total /\ x.pass = r.pass /\ x.seen = r.seen /\ x.searches = r.searches /\ x.fetches = r.fetches
        /\ x.failed = r.failed /\ x.viewsInPass = r.viewsInPass
    BY <1>0, <1>1, <1>4, <1>5 DEF EngineRecord
  <1> HIDE DEF x
  <1>7. InLimits(x, photos[t])  BY <1>0, <1>6 DEF InLimits
  <1>8. photos' = [photos EXCEPT ![t] = photos[t]]  BY <1>1 DEF ToolInv, ToolShape
  <1> QED  BY <1>0, <1>1, <1>2, <1>6, <1>7, <1>8, ResultStep

LEMMA CallEndsStep == ASSUME ToolInv, NEW t \in ToolTurns, CallEnds(t) PROVE ToolInv'
  <1> DEFINE r == tools[t]
             c == Head(r.batch)
  <1>0. /\ r \in EngineRecord /\ photos[t] \in Seq(Photo) /\ Outstanding(t, r) /\ InLimits(r, photos[t])
    BY ToolFacts
  <1>1. r.at = "running" /\ Results(t, FALSE) /\ UNCHANGED <<ranTools, photos>>
    BY DEF CallEnds
  <1>2. r.batch # <<>>  BY <1>0, <1>1 DEF Outstanding
  <1>3. r.ids # <<>>
    <2>1. Len(r.ids) = Len(r.batch) /\ r.batch \in Seq(Call)  BY <1>0, <1>1 DEF Outstanding, EngineRecord
    <2>2. Len(r.batch) # 0  BY <1>2, <2>1
    <2> QED  BY <2>1, <2>2
  <1>4. c \in Call /\ Tail(r.batch) \in Seq(Call) /\ Tail(r.ids) \in Seq(CallId)  BY <1>0, <1>2, <1>3, NextCall
  <1>5. PICK images \in BOOLEAN :
          tools' = [tools EXCEPT ![t] = [Onwards(r) EXCEPT !.found = IF images THEN WithImagesOf(r, c.key) ELSE @]]
    BY DEF CallEnds
  <1> DEFINE found == IF images THEN WithImagesOf(r, c.key) ELSE r.found
             x == [Onwards(r) EXCEPT !.found = found]
  <1>6. found \in SUBSET STRING  BY <1>0, <1>4 DEF EngineRecord, Call, WithImagesOf
  <1>7. tools' = [tools EXCEPT ![t] = x]
    <2>1. Onwards(r).found = r.found  BY <1>0 DEF Onwards, EngineRecord
    <2> QED  BY <1>5, <2>1
  <1> HIDE DEF found
  <1>8. /\ x \in EngineRecord /\ x.at = "calls" /\ x.batch = Tail(r.batch) /\ x.ids = Tail(r.ids) /\ x.asked = r.asked
        /\ x.total = r.total /\ x.pass = r.pass /\ x.seen = r.seen /\ x.searches = r.searches /\ x.fetches = r.fetches
        /\ x.failed = r.failed /\ x.viewsInPass = r.viewsInPass
    BY <1>0, <1>4, <1>6 DEF EngineRecord, Onwards
  <1> HIDE DEF x
  <1>9. InLimits(x, photos[t])  BY <1>0, <1>8 DEF InLimits
  <1>10. photos' = [photos EXCEPT ![t] = photos[t]]  BY <1>1 DEF ToolInv, ToolShape
  <1> QED  BY <1>0, <1>1, <1>2, <1>7, <1>8, <1>9, <1>10, ResultStep

LEMMA ImageUsedStep == ASSUME ToolInv, NEW t \in ToolTurns, ImageUsed(t) PROVE ToolInv'
  <1> DEFINE r == tools[t]
             n == r.stored + 1
             x == [Onwards(r) EXCEPT !.stored = n]
             y == [Viewed(Onwards(r)) EXCEPT !.stored = n]
             p == Append(photos[t], [id |-> Downloaded(t), is |-> "queued"])
  <1>0. /\ r \in EngineRecord /\ photos[t] \in Seq(Photo) /\ Outstanding(t, r) /\ InLimits(r, photos[t])
    BY ToolFacts
  <1>1. r.at = "running" /\ UNCHANGED ranTools
    BY DEF ImageUsed
  <1>2. r.batch # <<>>  BY <1>0, <1>1 DEF Outstanding
  <1>3. r.ids # <<>>
    <2>1. Len(r.ids) = Len(r.batch) /\ r.batch \in Seq(Call)  BY <1>0, <1>1 DEF Outstanding, EngineRecord
    <2>2. Len(r.batch) # 0  BY <1>2, <2>1
    <2> QED  BY <2>1, <2>2
  <1>4. Tail(r.batch) \in Seq(Call) /\ Tail(r.ids) \in Seq(CallId)  BY <1>0, <1>2, <1>3, NextCall
  <1>5. n \in Nat  BY <1>0 DEF EngineRecord
  <1>6. Onwards(r).stored = r.stored /\ Viewed(Onwards(r)).stored = r.stored  BY <1>0 DEF Onwards, Viewed, EngineRecord
  <1>7. \/ tools' = [tools EXCEPT ![t] = x] /\ Results(t, FALSE) /\ UNCHANGED photos
        \/ tools' = [tools EXCEPT ![t] = y] /\ Results(t, TRUE) /\ UNCHANGED photos /\ MayView(r)
        \/ tools' = [tools EXCEPT ![t] = x] /\ Results(t, FALSE) /\ photos' = [photos EXCEPT ![t] = p] /\ MaySend(t)
    BY <1>0, <1>6 DEF ImageUsed, Queued
  <1>8. Downloaded(t) \in CallId  BY <1>5 DEF Downloaded, CallId
  <1>9. p \in Seq(Photo) /\ Len(p) = Len(photos[t]) + 1
    <2>1. [id |-> Downloaded(t), is |-> "queued"] \in Photo  BY <1>8 DEF Photo
    <2> QED  BY <1>0, <2>1
  <1> HIDE DEF n, p
  <1>10. /\ x \in EngineRecord /\ x.at = "calls" /\ x.batch = Tail(r.batch) /\ x.ids = Tail(r.ids) /\ x.asked = r.asked
         /\ x.total = r.total /\ x.pass = r.pass /\ x.seen = r.seen /\ x.searches = r.searches /\ x.fetches = r.fetches
         /\ x.failed = r.failed /\ x.viewsInPass = r.viewsInPass
    BY <1>0, <1>4, <1>5 DEF EngineRecord, Onwards
  <1>11. /\ y \in EngineRecord /\ y.at = "calls" /\ y.batch = Tail(r.batch) /\ y.ids = Tail(r.ids) /\ y.asked = r.asked
         /\ y.total = r.total /\ y.pass = r.pass /\ y.seen = r.seen /\ y.searches = r.searches /\ y.fetches = r.fetches
         /\ y.failed = r.failed /\ y.viewsInPass = r.viewsInPass + 1
    <2>1. r.views + 1 \in Nat /\ r.viewsInPass + 1 \in Nat  BY <1>0 DEF EngineRecord
    <2>2. Onwards(r) \in EngineRecord /\ Onwards(r).views = r.views /\ Onwards(r).viewsInPass = r.viewsInPass
      BY <1>0, <1>4 DEF EngineRecord, Onwards
    <2>3. y = [r EXCEPT !.at = "calls", !.batch = Tail(@), !.ids = Tail(@), !.views = r.views + 1,
                        !.viewsInPass = r.viewsInPass + 1, !.stored = n]
      BY <1>0, <2>2 DEF EngineRecord, Onwards, Viewed
    <2> HIDE DEF y
    <2> QED  BY <1>0, <1>4, <1>5, <2>1, <2>3 DEF EngineRecord
  <1>12. photos = [photos EXCEPT ![t] = photos[t]]  BY DEF ToolInv, ToolShape
  <1> HIDE DEF x, y
  <1>13. CASE tools' = [tools EXCEPT ![t] = x] /\ Results(t, FALSE) /\ UNCHANGED photos
    <2>1. InLimits(x, photos[t])  BY <1>0, <1>10 DEF InLimits
    <2>2. photos' = [photos EXCEPT ![t] = photos[t]]  BY <1>12, <1>13
    <2> QED  BY <1>0, <1>1, <1>2, <1>10, <1>13, <2>1, <2>2, ResultStep
  <1>14. CASE tools' = [tools EXCEPT ![t] = y] /\ Results(t, TRUE) /\ UNCHANGED photos /\ MayView(r)
    <2>0. r.viewsInPass \in Nat /\ r.viewsInPass < ViewsPerPass /\ ViewsPerPass \in Nat  BY <1>0, <1>14, ToolLimits DEF EngineRecord, MayView
    <2>1. InLimits(y, photos[t])  BY <1>0, <1>11, <2>0 DEF InLimits
    <2>2. photos' = [photos EXCEPT ![t] = photos[t]]  BY <1>12, <1>14
    <2> QED  BY <1>0, <1>1, <1>2, <1>11, <1>14, <2>1, <2>2, ResultStep
  <1>15. CASE tools' = [tools EXCEPT ![t] = x] /\ Results(t, FALSE) /\ photos' = [photos EXCEPT ![t] = p] /\ MaySend(t)
    <2>0. Len(photos[t]) \in Nat /\ Len(photos[t]) < PhotosPerTurn /\ PhotosPerTurn \in Nat  BY <1>0, <1>15, ToolLimits DEF MaySend
    <2>1. InLimits(x, p)  BY <1>0, <1>9, <1>10, <2>0 DEF InLimits
    <2> QED  BY <1>0, <1>1, <1>2, <1>9, <1>10, <1>15, <2>1, ResultStep
  <1> QED  BY <1>7, <1>13, <1>14, <1>15

\* A handler runs directly when its tool is offered, and through the bridge when it is not.
LEMMA HandlerIs ==
    ASSUME NEW c \in Call, c.fn \in Offered, NEW tool \in Handlers(c), tool # "none"
    PROVE  /\ tool \in STRING /\ tool \in Handled /\ ((c.fn = "tool_call") <=> tool \notin Eager)
           /\ tool = "web_search" => c.fn = "web_search"
           /\ tool \in FetchTools => c.fn \in FetchTools
  <1>0. c.fn \in STRING /\ c.of \in STRING  BY DEF Call
  <1>e. "web_search" \in Eager /\ FetchTools \subseteq Eager  BY ToolTurnAssumption
  <1>1. CASE c.fn = "tool_call"
    <2>1. Bridged(c.of) /\ tool = c.of  BY <1>1 DEF Handlers
    <2>2. tool \in Handled /\ tool \notin Eager  BY <2>1 DEF Bridged, OfferedAs, Enabled
    <2> QED  BY <1>0, <1>1, <1>e, <2>1, <2>2
  <1>2. CASE c.fn # "tool_call"
    <2>1. c.fn \notin BridgeTools /\ tool = c.fn  BY <1>2 DEF Handlers, BridgeTools
    <2>2. c.fn \in Handled /\ OfferedAs(c.fn) = "eager"  BY <2>1 DEF Offered
    <2>3. c.fn \in Eager  BY <2>2 DEF OfferedAs
    <2> QED  BY <1>0, <1>2, <2>1, <2>2, <2>3
  <1> QED  BY <1>1, <1>2

LEMMA KindCounted ==
    ASSUME NEW ran \in Seq(ToolRun), NEW p \in Nat, NEW kind
    PROVE  OfPass(ran, p, kind) \subseteq 1..Len(ran) /\ IsFiniteSet(OfPass(ran, p, kind)) /\ Cardinality(OfPass(ran, p, kind)) \in Nat
  <1>1. Len(ran) \in Nat /\ DOMAIN ran = 1..Len(ran)  OBVIOUS
  <1>2. OfPass(ran, p, kind) \subseteq 1..Len(ran)  BY <1>1 DEF OfPass
  <1>3. IsFiniteSet(1..Len(ran))  BY <1>1, FS_Interval
  <1>4. IsFiniteSet(OfPass(ran, p, kind))  BY <1>2, <1>3, FS_Subset
  <1> QED  BY <1>2, <1>4, FS_CardinalityType

LEMMA KindAdded ==
    ASSUME NEW ran \in Seq(ToolRun), NEW q \in ToolRun, NEW p \in Nat, NEW kind
    PROVE  Cardinality(OfPass(Append(ran, q), p, kind)) =
             IF q.pass = p /\ q.tool \in kind THEN Cardinality(OfPass(ran, p, kind)) + 1 ELSE Cardinality(OfPass(ran, p, kind))
  <1> DEFINE S == OfPass(ran, p, kind)
             L == Len(ran)
             a == Append(ran, q)
  <1>1. L \in Nat /\ DOMAIN ran = 1..L /\ DOMAIN a = 1..(L + 1) /\ a[L + 1] = q /\ \A i \in 1..L : a[i] = ran[i]
    OBVIOUS
  <1>2. S \subseteq 1..L /\ IsFiniteSet(S)  BY KindCounted
  <1>3. L + 1 \notin S  BY <1>1, <1>2
  <1>4. Cardinality(S \cup {L + 1}) = Cardinality(S) + 1  BY <1>2, <1>3, FS_AddElement
  <1> HIDE DEF a, L
  <1>5. CASE q.pass = p /\ q.tool \in kind
    <2>1. OfPass(a, p, kind) = S \cup {L + 1}  BY <1>1, <1>5 DEF OfPass
    <2> QED  BY <1>4, <1>5, <2>1 DEF a
  <1>6. CASE ~(q.pass = p /\ q.tool \in kind)
    <2>1. OfPass(a, p, kind) = S  BY <1>1, <1>6 DEF OfPass
    <2> QED  BY <1>6, <2>1 DEF a
  <1> QED  BY <1>5, <1>6

LEMMA OnceAdded ==
    ASSUME NEW ran \in Seq(ToolRun), NEW q \in ToolRun, NEW kind, Once(ran, kind),
           q.tool \in kind => \A i \in DOMAIN ran : ran[i].tool \in kind => ran[i].key # q.key
    PROVE  Once(Append(ran, q), kind)
  <1> DEFINE L == Len(ran)
             a == Append(ran, q)
  <1>1. L \in Nat /\ DOMAIN ran = 1..L /\ DOMAIN a = 1..(L + 1) /\ a[L + 1] = q /\ \A i \in 1..L : a[i] = ran[i]
    OBVIOUS
  <1> HIDE DEF a, L
  <1>2. ASSUME NEW i \in DOMAIN a, NEW j \in DOMAIN a, i # j, a[i].tool \in kind, a[j].tool \in kind
        PROVE  a[i].key # a[j].key
    <2>1. CASE i \in 1..L /\ j \in 1..L  BY <1>1, <1>2, <2>1 DEF Once
    <2>2. CASE i = L + 1  BY <1>1, <1>2, <2>2
    <2>3. CASE j = L + 1  BY <1>1, <1>2, <2>3
    <2> QED  BY <1>1, <2>1, <2>2, <2>3
  <1> QED  BY <1>2 DEF Once, a

\* The call is charged and its handler, if it has one, runs.
LEMMA CallStartsStep == ASSUME ToolInv, NEW t \in ToolTurns, CallStarts(t) PROVE ToolInv'
  <1> DEFINE r == tools[t]
             c == Head(r.batch)
             ran == ranTools[t]
             x == Charged(r, c)
  <1>0. /\ r \in EngineRecord /\ own[t] \in Seq(ToolMessage) /\ ran \in Seq(ToolRun) /\ photos[t] \in Seq(Photo)
        /\ RunsSound(ran) /\ Charges(r, ran) /\ Outstanding(t, r) /\ InLimits(r, photos[t])
        /\ Histories(t, r, own[t], chat)
    BY ToolFacts
  <1>1. r.at = "calls" /\ r.batch # <<>> /\ Affordable(r, c) /\ tools' = [tools EXCEPT ![t] = x] /\ UNCHANGED <<chat, own, photos>>
    BY DEF CallStarts
  <1>2. PICK tool \in Handlers(c) :
          ranTools' = IF tool = "none" THEN ranTools
                      ELSE [ranTools EXCEPT ![t] = Append(@, [tool |-> tool, key |-> c.key, pass |-> r.pass, bridged |-> c.fn = "tool_call"])]
    BY DEF CallStarts
  <1>3. c \in Call /\ c.key \in STRING  BY <1>0, <1>1, NextCall DEF Call
  <1>4. c.fn \in Offered
    <2>1. r.batch \in Seq(Call)  BY <1>0 DEF EngineRecord
    <2>2. 1 \in DOMAIN r.batch /\ c = r.batch[1]  BY <1>1, <2>1
    <2> QED  BY <1>0, <1>1, <2>2 DEF Outstanding
  <1>5. /\ r.total \in Nat /\ r.inPass \in Nat /\ r.searches \in Nat /\ r.fetches \in Nat /\ r.pass \in Nat
        /\ r.seen \in SUBSET ({"search", "fetch"} \X STRING)
    BY <1>0 DEF EngineRecord
  <1> DEFINE searches == IF c.fn = "web_search" THEN r.searches + 1 ELSE r.searches
             fetches == IF c.fn \in FetchTools THEN r.fetches + 1 ELSE r.fetches
             seen == IF c.fn = "web_search" THEN r.seen \cup {<<"search", c.key>>}
                     ELSE IF c.fn \in FetchTools THEN r.seen \cup {<<"fetch", c.key>>} ELSE r.seen
  <1>6. searches \in Nat /\ fetches \in Nat /\ seen \in SUBSET ({"search", "fetch"} \X STRING)  BY <1>3, <1>5
  <1>7. x = [r EXCEPT !.at = "running", !.total = r.total + 1, !.inPass = r.inPass + 1, !.searches = searches,
                      !.fetches = fetches, !.seen = seen]
    BY <1>0 DEF Charged, EngineRecord
  <1>8. searches <= SearchesPerPass /\ fetches <= FetchesPerPass /\ r.searches <= searches /\ r.fetches <= fetches
    BY <1>0, <1>1, <1>5, ToolLimits DEF Affordable, Charges
  <1>9. r.total + 1 <= CallsPerTurn  BY <1>1, <1>5, ToolLimits DEF Affordable
  <1>10. r.seen \subseteq seen  OBVIOUS
  <1>11. /\ c.fn = "web_search" => searches = r.searches + 1 /\ <<"search", c.key>> \in seen /\ <<"search", c.key>> \notin r.seen
         /\ c.fn \in FetchTools => fetches = r.fetches + 1 /\ <<"fetch", c.key>> \in seen /\ <<"fetch", c.key>> \notin r.seen
    <2>1. "web_search" \notin FetchTools  BY DEF FetchTools
    <2> QED  BY <1>1, <2>1 DEF Affordable, Fetched
  <1> HIDE DEF searches, fetches, seen, x
  <1>12. /\ x \in EngineRecord /\ x.at = "running" /\ x.batch = r.batch /\ x.ids = r.ids /\ x.asked = r.asked
         /\ x.total = r.total + 1 /\ x.pass = r.pass /\ x.seen = seen /\ x.searches = searches /\ x.fetches = fetches
         /\ x.failed = r.failed /\ x.viewsInPass = r.viewsInPass
    <2>1. r.total + 1 \in Nat /\ r.inPass + 1 \in Nat  BY <1>5
    <2>2. r \in EngineRecord  BY <1>0
    <2> HIDE DEF r, c
    <2>3. x \in EngineRecord  BY <1>6, <1>7, <2>1, <2>2 DEF EngineRecord
    <2> QED  BY <1>7, <2>2, <2>3 DEF EngineRecord
  <1>13. Outstanding(t, x)
    <2> HIDE DEF r
    <2> QED  BY <1>0, <1>1, <1>12 DEF Outstanding
  <1>14. InLimits(x, photos[t])
    <2> HIDE DEF r
    <2> QED  BY <1>0, <1>12 DEF InLimits
  <1>15. Histories(t, x, own[t], chat)
    <2> HIDE DEF r
    <2> QED  BY <1>0, <1>1, <1>12 DEF Histories
  <1>16. /\ Len(ran) <= r.total /\ Len(ran) \in Nat
         /\ \A i \in DOMAIN ran : /\ ran[i].pass <= r.pass
                                  /\ ran[i].tool = "web_search" => <<"search", ran[i].key>> \in r.seen
                                  /\ ran[i].tool \in FetchTools => <<"fetch", ran[i].key>> \in r.seen
         /\ Cardinality(OfPass(ran, r.pass, {"web_search"})) <= r.searches
         /\ Cardinality(OfPass(ran, r.pass, FetchTools)) <= r.fetches
    BY <1>0, <1>1 DEF Charges
  <1>k. \A kind : \A p \in Nat : Cardinality(OfPass(ran, p, kind)) \in Nat
    BY <1>0, KindCounted
  <1>17. CASE tool = "none"
    <2>1. ranTools' = ranTools  BY <1>2, <1>17
    <2>2. Cardinality(OfPass(ran, r.pass, {"web_search"})) <= searches /\ Cardinality(OfPass(ran, r.pass, FetchTools)) <= fetches
      BY <1>5, <1>6, <1>8, <1>16, <1>k
    <2>3. Charges(x, ran)
      <3>1. Len(ran) <= r.total + 1  BY <1>5, <1>16
      <3> HIDE DEF r, ran
      <3> QED  BY <1>8, <1>9, <1>10, <1>12, <1>16, <2>2, <3>1 DEF Charges
    <2>4. SoundTools(t, x, ran, photos[t])  BY <1>0, <1>13, <1>14, <2>3 DEF SoundTools
    <2> QED  BY <1>1, <1>12, <1>15, <2>1, <2>4, LocalStep
  <1>18. CASE tool # "none"
    <2> DEFINE q == [tool |-> tool, key |-> c.key, pass |-> r.pass, bridged |-> c.fn = "tool_call"]
               more == Append(ran, q)
               L == Len(ran)
    <2>1. /\ tool \in STRING /\ tool \in Handled /\ ((c.fn = "tool_call") <=> tool \notin Eager)
          /\ tool = "web_search" => c.fn = "web_search"
          /\ tool \in FetchTools => c.fn \in FetchTools
      BY <1>3, <1>4, <1>18, HandlerIs
    <2>2. q \in ToolRun /\ q.tool = tool /\ q.key = c.key /\ q.pass = r.pass /\ (q.bridged <=> c.fn = "tool_call")
      BY <1>3, <1>5, <2>1 DEF ToolRun
    <2>3. ranTools' = [ranTools EXCEPT ![t] = more]  BY <1>2, <1>18 DEF ToolInv, ToolShape
    <2>4. more \in Seq(ToolRun) /\ Len(more) = L + 1 /\ DOMAIN more = 1..(L + 1) /\ DOMAIN ran = 1..L
          /\ more[L + 1] = q /\ \A i \in 1..L : more[i] = ran[i]
      BY <1>0, <2>2
    <2>5. \A kind : \A p \in Nat : Cardinality(OfPass(more, p, kind)) =
            IF r.pass = p /\ tool \in kind THEN Cardinality(OfPass(ran, p, kind)) + 1 ELSE Cardinality(OfPass(ran, p, kind))
      <3> HIDE DEF q, ran
      <3>1. \A kind : \A p \in Nat : Cardinality(OfPass(Append(ran, q), p, kind)) =
              IF q.pass = p /\ q.tool \in kind THEN Cardinality(OfPass(ran, p, kind)) + 1 ELSE Cardinality(OfPass(ran, p, kind))
        BY <1>0, <2>2, KindAdded
      <3> QED  BY <2>2, <3>1
    <2>6. /\ Cardinality(OfPass(more, r.pass, {"web_search"})) <= searches
          /\ Cardinality(OfPass(more, r.pass, FetchTools)) <= fetches
      <3> HIDE DEF r, ran, more, c
      <3>1. CASE tool = "web_search"
        <4>1. tool \notin FetchTools  BY <3>1 DEF FetchTools
        <4> QED  BY <1>5, <1>6, <1>8, <1>11, <1>16, <1>k, <2>1, <2>5, <3>1, <4>1
      <3>2. CASE tool \in FetchTools
        <4>1. tool \notin {"web_search"}  BY <3>2 DEF FetchTools
        <4> QED  BY <1>5, <1>6, <1>8, <1>11, <1>16, <1>k, <2>1, <2>5, <3>2, <4>1
      <3>3. CASE tool # "web_search" /\ tool \notin FetchTools
        <4>1. tool \notin {"web_search"}  BY <3>3
        <4> QED  BY <1>5, <1>6, <1>8, <1>16, <1>k, <2>5, <3>3, <4>1
      <3> QED  BY <3>1, <3>2, <3>3
    <2> HIDE DEF q, more, L
    <2>7. ASSUME NEW i \in DOMAIN more
          PROVE  /\ more[i].pass <= r.pass
                 /\ more[i].tool = "web_search" => <<"search", more[i].key>> \in seen
                 /\ more[i].tool \in FetchTools => <<"fetch", more[i].key>> \in seen
                 /\ more[i].tool \in Handled /\ (more[i].bridged <=> more[i].tool \notin Eager)
      <3>1. CASE i \in 1..L
        <4>1. ran[i].tool \in Handled /\ (ran[i].bridged <=> ran[i].tool \notin Eager)
          BY <1>0, <2>4, <3>1 DEF RunsSound
        <4>2. more[i] = ran[i] /\ i \in DOMAIN ran  BY <2>4, <3>1
        <4> HIDE DEF ran, r
        <4> QED  BY <1>10, <1>16, <4>1, <4>2
      <3>2. CASE i \notin 1..L
        <4>1. i = L + 1 /\ more[i] = q  BY <1>16, <2>4, <3>2 DEF L
        <4> HIDE DEF ran, r, c
        <4> QED  BY <1>5, <1>11, <2>1, <2>2, <4>1
      <3> QED  BY <3>1, <3>2
    <2>8. Charges(x, more)
      <3>1. Len(more) <= r.total + 1  BY <1>5, <1>16, <2>4 DEF L
      <3> HIDE DEF r, ran, c
      <3> QED  BY <1>8, <1>9, <1>12, <2>6, <2>7, <3>1 DEF Charges
    <2>9. Once(more, FetchTools) /\ Once(more, {"web_search"})
      <3>1. Once(ran, FetchTools) /\ Once(ran, {"web_search"})  BY <1>0 DEF RunsSound
      <3>2. q.tool \in FetchTools => \A i \in DOMAIN ran : ran[i].tool \in FetchTools => ran[i].key # q.key
        <4> HIDE DEF r, ran, c
        <4> QED  BY <1>11, <1>16, <2>1, <2>2
      <3>3. q.tool \in {"web_search"} => \A i \in DOMAIN ran : ran[i].tool \in {"web_search"} => ran[i].key # q.key
        <4> HIDE DEF r, ran, c
        <4> QED  BY <1>11, <1>16, <2>1, <2>2
      <3> QED  BY <1>0, <2>2, <3>1, <3>2, <3>3, OnceAdded DEF more
    <2>10. \A p \in Nat : /\ Cardinality(OfPass(more, p, {"web_search"})) <= SearchesPerPass
                          /\ Cardinality(OfPass(more, p, FetchTools)) <= FetchesPerPass
      <3> SUFFICES ASSUME NEW p \in Nat
                   PROVE  /\ Cardinality(OfPass(more, p, {"web_search"})) <= SearchesPerPass
                          /\ Cardinality(OfPass(more, p, FetchTools)) <= FetchesPerPass
        OBVIOUS
      <3>1. CASE p = r.pass
        <4>1. /\ Cardinality(OfPass(more, p, {"web_search"})) \in Nat /\ Cardinality(OfPass(more, p, FetchTools)) \in Nat
          BY <1>k, <2>5
        <4>2. /\ Cardinality(OfPass(more, p, {"web_search"})) <= searches
              /\ Cardinality(OfPass(more, p, FetchTools)) <= fetches
          BY <2>6, <3>1
        <4> QED  BY ONLY <1>6, <1>8, <4>1, <4>2, ToolLimits
      <3>2. CASE p # r.pass
        <4>1. /\ Cardinality(OfPass(more, p, {"web_search"})) = Cardinality(OfPass(ran, p, {"web_search"}))
              /\ Cardinality(OfPass(more, p, FetchTools)) = Cardinality(OfPass(ran, p, FetchTools))
          BY <2>5, <3>2
        <4> QED  BY <1>0, <4>1 DEF RunsSound
      <3> QED  BY <3>1, <3>2
    <2>11. Len(more) <= CallsPerTurn
      BY <1>5, <1>9, <1>16, <2>4, ToolLimits DEF L
    <2>12. RunsSound(more)  BY <2>7, <2>9, <2>10, <2>11 DEF RunsSound
    <2>13. SoundTools(t, x, more, photos[t])  BY <1>13, <1>14, <2>8, <2>12 DEF SoundTools
    <2>14. own' = [own EXCEPT ![t] = own[t]] /\ photos' = [photos EXCEPT ![t] = photos[t]] /\ chat' = chat
      BY <1>1 DEF ToolInv, ToolShape
    <2>15. Histories(t, x, own[t], chat')  BY <1>15, <2>14
    <2> QED  BY <1>0, <1>1, <1>12, <2>3, <2>4, <2>13, <2>14, <2>15, RunStep
  <1> QED  BY <1>17, <1>18

LEMMA PhotoDeliveredStep == ASSUME ToolInv, NEW t \in ToolTurns, PhotoDelivered(t) PROVE ToolInv'
  <1> DEFINE r == tools[t]
             ph == photos[t]
  <1>0. /\ r \in EngineRecord /\ own[t] \in Seq(ToolMessage) /\ ranTools[t] \in Seq(ToolRun) /\ ph \in Seq(Photo)
        /\ RunsSound(ranTools[t]) /\ Charges(r, ranTools[t]) /\ Outstanding(t, r) /\ InLimits(r, ph)
        /\ Histories(t, r, own[t], chat)
    BY ToolFacts
  <1>1. r.at = "deliver" /\ UNCHANGED <<chat, own, tools, ranTools>>  BY DEF PhotoDelivered
  <1>2. PICK i \in NextPhoto(t) : \E outcome \in {"sent", "refused", "expired"} : photos' = [photos EXCEPT ![t][i].is = outcome]
    BY DEF PhotoDelivered
  <1>3. PICK outcome \in {"sent", "refused", "expired"} : photos' = [photos EXCEPT ![t][i].is = outcome]  BY <1>2
  <1>4. i \in DOMAIN ph  BY DEF NextPhoto
  <1> DEFINE e == [ph[i] EXCEPT !.is = outcome]
             more == [ph EXCEPT ![i] = e]
  <1>5. photos' = [photos EXCEPT ![t] = more]  BY <1>3
  <1>6. ph[i] \in Photo  BY <1>0, <1>4
  <1>7. e \in Photo  BY <1>6 DEF Photo
  <1> HIDE DEF e
  <1>8. more \in Seq(Photo) /\ Len(more) = Len(ph)  BY <1>0, <1>4, <1>7
  <1> HIDE DEF more, ph, r
  <1>9. InLimits(r, more)  BY <1>0, <1>1, <1>8 DEF InLimits
  <1>10. SoundTools(t, r, ranTools[t], more)  BY <1>0, <1>9 DEF SoundTools
  <1>11. /\ tools' = [tools EXCEPT ![t] = r] /\ own' = [own EXCEPT ![t] = own[t]] /\ ranTools' = [ranTools EXCEPT ![t] = ranTools[t]]
         /\ chat' = chat
    BY <1>1 DEF ToolInv, ToolShape, r
  <1>12. Histories(t, r, own[t], chat')  BY <1>0, <1>11
  <1> QED  BY <1>0, <1>5, <1>8, <1>10, <1>11, <1>12, RunStep

LEMMA AnswerRaisesStep == ASSUME ToolInv, NEW t \in ToolTurns, AnswerRaises(t) PROVE ToolInv'
  <1> DEFINE x == [FreshEngine EXCEPT !.at = "lost"]
  <1>0. /\ ranTools[t] \in Seq(ToolRun) /\ photos[t] \in Seq(Photo) /\ RunsSound(ranTools[t]) /\ InLimits(tools[t], photos[t])
    BY ToolFacts
  <1>1. /\ tools' = [tools EXCEPT ![t] = x] /\ own' = [own EXCEPT ![t] = <<>>]
        /\ ranTools' = [ranTools EXCEPT ![t] = ranTools[t]] /\ photos' = [photos EXCEPT ![t] = photos[t]] /\ chat' = chat
    BY DEF AnswerRaises, ToolInv, ToolShape
  <1>2. x \in EngineRecord /\ x.at = "lost" /\ x.ids = <<>> /\ x.asked = 0 /\ x.viewsInPass = 0 /\ ~x.failed
    BY FreshIs DEF EngineRecord
  <1> HIDE DEF x
  <1>3. Len(<<>>) = 0 /\ DOMAIN <<>> = {} /\ <<>> \in Seq(ToolMessage)  OBVIOUS
  <1>4. Charges(x, ranTools[t])  BY <1>2 DEF Charges
  <1>5. Outstanding(t, x)  BY <1>2, <1>3 DEF Outstanding
  <1>6. InLimits(x, photos[t])  BY <1>0, <1>2, ToolLimits DEF InLimits
  <1>7. Histories(t, x, <<>>, chat')  BY <1>2 DEF Histories
  <1>8. SoundTools(t, x, ranTools[t], photos[t])  BY <1>0, <1>4, <1>5, <1>6 DEF SoundTools
  <1> QED  BY <1>0, <1>1, <1>2, <1>3, <1>7, <1>8, RunStep

\* When there is no next photo none waits: the first that waited would be the next.
LEMMA NoneWaits ==
    ASSUME NEW t \in ToolTurns, photos[t] \in Seq(Photo), NextPhoto(t) = {}
    PROVE  \A i \in DOMAIN photos[t] : photos[t][i].is # "queued"
  <1> DEFINE T == {i \in DOMAIN photos[t] : photos[t][i].is = "queued"}
  <1> SUFFICES ASSUME T # {} PROVE FALSE
    OBVIOUS
  <1>1. Len(photos[t]) \in Nat /\ DOMAIN photos[t] = 1..Len(photos[t])  OBVIOUS
  <1>2. T \subseteq Nat  BY <1>1
  <1>3. PICK i \in T : \A j \in T : i <= j
    <2> HIDE DEF T
    <2> QED  BY <1>2, LeastOf
  <1>4. \A j \in 1..(i - 1) : photos[t][j].is # "queued"
    <2> SUFFICES ASSUME NEW j \in 1..(i - 1), photos[t][j].is = "queued" PROVE FALSE
      OBVIOUS
    <2>1. j \in DOMAIN photos[t] /\ j < i  BY <1>1
    <2> QED  BY <1>1, <1>3, <2>1
  <1> QED  BY <1>4 DEF NextPhoto

LEMMA TurnOverStep == ASSUME ToolInv, NEW t \in ToolTurns, TurnOver(t) PROVE ToolInv'
  <1> DEFINE r == tools[t]
             x == [FreshEngine EXCEPT !.at = "over", !.failed = r.failed, !.asked = r.asked]
             m == Said("assistant", <<>>, 1)
  <1>0. /\ r \in EngineRecord /\ ranTools[t] \in Seq(ToolRun) /\ photos[t] \in Seq(Photo) /\ chat \in Seq(ToolMessage)
        /\ RunsSound(ranTools[t]) /\ Outstanding(t, r) /\ InLimits(r, photos[t]) /\ Histories(t, r, own[t], chat)
    BY ToolFacts
  <1>1. /\ tools' = [tools EXCEPT ![t] = x] /\ own' = [own EXCEPT ![t] = <<>>] /\ chat' = Append(chat, m)
        /\ ranTools' = [ranTools EXCEPT ![t] = ranTools[t]] /\ photos' = [photos EXCEPT ![t] = photos[t]]
        /\ r.at = "deliver" /\ NextPhoto(t) = {}
    BY DEF TurnOver, ToolInv, ToolShape
  <1>2. \A i \in DOMAIN photos[t] : photos[t][i].is # "queued"  BY <1>0, <1>1, NoneWaits
  <1>3. r.failed \in BOOLEAN /\ r.asked \in Nat  BY <1>0 DEF EngineRecord
  <1>4. /\ x \in EngineRecord /\ x.at = "over" /\ x.ids = <<>> /\ x.asked = r.asked /\ x.viewsInPass = 0 /\ x.failed = r.failed
    BY <1>3, FreshIs DEF EngineRecord
  <1>5. m \in ToolMessage /\ \A u \in ToolTurns : Quiet(m, u)
    <2>1. <<>> \in Seq(CallId) /\ DOMAIN <<>> = {}  OBVIOUS
    <2> QED  BY <2>1 DEF Said, ToolMessage, Quiet
  <1>6. ~r.failed => r.ids = <<>>  BY <1>0, <1>1 DEF Outstanding
  <1> HIDE DEF x, m, r
  <1>7. Len(<<>>) = 0 /\ DOMAIN <<>> = {} /\ <<>> \in Seq(ToolMessage)  OBVIOUS
  <1>8. ~r.failed => AnsweredUpTo(chat, t, r.asked, r.asked)
    <2>1. r.asked - 0 = r.asked  BY <1>3
    <2> QED  BY <1>0, <1>1, <1>6, <1>7, <2>1 DEF Histories
  <1>9. ~r.failed => AnsweredUpTo(chat', t, r.asked, r.asked)  BY <1>0, <1>1, <1>3, <1>5, <1>8, AppendQuiet
  <1>10. Histories(t, x, <<>>, chat')
    <2>1. x.asked - Len(x.ids) = r.asked  BY <1>3, <1>4, <1>7
    <2> QED  BY <1>4, <1>9, <2>1 DEF Histories
  <1>11. Charges(x, ranTools[t])  BY <1>4 DEF Charges
  <1>12. Outstanding(t, x)  BY <1>3, <1>4, <1>7 DEF Outstanding
  <1>13. InLimits(x, photos[t])  BY <1>0, <1>2, <1>4, ToolLimits DEF InLimits
  <1>14. SoundTools(t, x, ranTools[t], photos[t])  BY <1>0, <1>11, <1>12, <1>13 DEF SoundTools
  <1> QED  BY <1>0, <1>1, <1>4, <1>5, <1>7, <1>10, <1>14, RunStep

LEMMA UserAsksStep == ASSUME ToolInv, UserAsks PROVE ToolInv'
  <1>1. PICK size \in {1, Context + 1} : chat' = Append(chat, Said("user", <<>>, size))  BY DEF UserAsks
  <1>2. UNCHANGED <<own, tools, ranTools, photos>>  BY DEF UserAsks
  <1> DEFINE m == Said("user", <<>>, size)
  <1>3. m \in ToolMessage /\ \A u \in ToolTurns : Quiet(m, u)
    <2>1. <<>> \in Seq(CallId) /\ DOMAIN <<>> = {}  OBVIOUS
    <2>2. size \in Nat  BY ToolTurnAssumption
    <2> QED  BY <2>1, <2>2 DEF Said, ToolMessage, Quiet
  <1>4. chat \in Seq(ToolMessage) /\ chat' = Append(chat, m)  BY <1>1 DEF ToolInv, ToolShape
  <1> HIDE DEF m
  <1>5. ToolShape'  BY <1>2, <1>3, <1>4 DEF ToolInv, ToolShape
  <1>6. ASSUME NEW u \in ToolTurns
        PROVE  SoundTools(u, tools[u], ranTools[u], photos[u]) /\ Histories(u, tools[u], own[u], chat')
    <2>1. /\ tools[u] \in EngineRecord /\ Outstanding(u, tools[u]) /\ Histories(u, tools[u], own[u], chat)
          /\ SoundTools(u, tools[u], ranTools[u], photos[u])
      BY ToolFacts DEF ToolInv
    <2>2. tools[u].asked \in Nat /\ tools[u].asked - Len(tools[u].ids) \in Nat
      <3>1. tools[u].asked \in Nat /\ tools[u].ids \in Seq(CallId)  BY <2>1 DEF EngineRecord
      <3>2. Len(tools[u].ids) \in Nat  BY <3>1
      <3> QED  BY <2>1, <3>1, <3>2 DEF Outstanding
    <2>3. AnsweredUpTo(chat, u, tools[u].asked, tools[u].asked - Len(tools[u].ids))
            => AnsweredUpTo(chat', u, tools[u].asked, tools[u].asked - Len(tools[u].ids))
      BY <1>3, <1>4, <2>2, AppendQuiet
    <2> QED  BY <2>1, <2>3 DEF Histories
  <1> QED  BY <1>2, <1>5, <1>6 DEF ToolInv

LEMMA ToolStep == ToolInv /\ [ToolNext]_toolVars => ToolInv'
  <1> SUFFICES ASSUME ToolInv, [ToolNext]_toolVars PROVE ToolInv'
    OBVIOUS
  <1>1. CASE UNCHANGED toolVars \/ ArtifactExpires
    <2>1. UNCHANGED <<chat, own, tools, ranTools, photos>>  BY <1>1 DEF toolVars, ArtifactExpires
    <2>2. ToolShape'  BY <2>1 DEF ToolInv, ToolShape
    <2> QED  BY <2>1, <2>2 DEF ToolInv
  <1>2. CASE UserAsks  BY <1>2, UserAsksStep
  <1>3. ASSUME NEW t \in ToolTurns,
               \/ EngineEnters(t) \/ PassBegins(t) \/ ModelCalls(t) \/ ModelFails(t) \/ ModelSays(t)
               \/ CallRefused(t) \/ CallStarts(t) \/ CallEnds(t) \/ CallRaises(t) \/ ImageUsed(t) \/ CallsDone(t)
               \/ PhotoDelivered(t) \/ AnswerRaises(t) \/ TurnOver(t)
        PROVE  ToolInv'
    BY <1>3, EngineEntersStep, PassBeginsStep, ModelCallsStep, ModelFailsStep, ModelSaysStep, CallRefusedStep, CallStartsStep,
       CallEndsStep, ImageUsedStep, CallsDoneStep, PhotoDeliveredStep, AnswerRaisesStep, TurnOverStep
  <1> QED  BY <1>1, <1>2, <1>3 DEF ToolNext

\* Whatever the model asks, the tools of a turn stay within the limits of the turn and of each pass and
\* no source is fetched twice; before the model is asked again every call has its one result, in order,
\* in the turn's copy and in the history turns share; no photo of a turn that has answered is left; and
\* what a turn sends is an end of the history that fits: the loop of emery_engine, _tool_budget_error,
\* _compact_history_for_model and _deliver_pending_media.
THEOREM ToolsHeld == ToolSpec => []ToolsSound
  <1>1. ToolInv => ToolsSound
    <2> SUFFICES ASSUME ToolInv PROVE BudgetsHold /\ CallsAnswered /\ PhotosSettled /\ CopySound
      BY DEF ToolsSound
    <2>1. ASSUME NEW t \in ToolTurns
          PROVE  /\ ranTools[t] \in Seq(ToolRun) /\ RunsSound(ranTools[t]) /\ InLimits(tools[t], photos[t])
                 /\ tools[t] \in EngineRecord /\ Outstanding(t, tools[t]) /\ Histories(t, tools[t], own[t], chat)
      BY <2>1, ToolFacts
    <2>2. BudgetsHold
      <3> SUFFICES ASSUME NEW t \in ToolTurns
                   PROVE  /\ Len(ranTools[t]) <= CallsPerTurn
                          /\ \A p \in Passes(t) : /\ Cardinality(InPass(t, p, {"web_search"})) <= SearchesPerPass
                                                  /\ Cardinality(InPass(t, p, FetchTools)) <= FetchesPerPass
                          /\ \A i \in DOMAIN ranTools[t] : ranTools[t][i].tool \in Handled /\ (ranTools[t][i].bridged <=> ranTools[t][i].tool \notin Eager)
                          /\ tools[t].at = "request" /\ tools[t].pass > 0 /\ tools[t].total >= CallsPerTurn => tools[t].forced
                          /\ ~Repeated(t, FetchTools) /\ ~Repeated(t, {"web_search"})
                          /\ tools[t].viewsInPass <= ViewsPerPass /\ Len(photos[t]) <= PhotosPerTurn
        BY DEF BudgetsHold
      <3>1. \A p \in Passes(t) : p \in Nat
        <4> SUFFICES ASSUME NEW i \in DOMAIN ranTools[t] PROVE ranTools[t][i].pass \in Nat
          BY DEF Passes
        <4>1. ranTools[t][i] \in ToolRun  BY <2>1
        <4> QED  BY <4>1 DEF ToolRun
      <3>2. \A p, kind : InPass(t, p, kind) = OfPass(ranTools[t], p, kind)  BY DEF InPass, OfPass
      <3>3. ~Repeated(t, FetchTools) /\ ~Repeated(t, {"web_search"})  BY <2>1 DEF RunsSound, Once, Repeated
      <3>4. Len(ranTools[t]) <= CallsPerTurn /\ \A p \in Passes(t) : /\ Cardinality(InPass(t, p, {"web_search"})) <= SearchesPerPass
                                                                    /\ Cardinality(InPass(t, p, FetchTools)) <= FetchesPerPass
        BY <2>1, <3>1, <3>2 DEF RunsSound
      <3> QED  BY <2>1, <3>3, <3>4 DEF RunsSound, InLimits
    <2>3. CallsAnswered
      <3> SUFFICES ASSUME NEW t \in ToolTurns
                   PROVE  /\ tools[t].at = "request" => AnsweredUpTo(own[t], t, tools[t].asked, tools[t].asked)
                          /\ tools[t].at = "over" /\ ~tools[t].failed => AnsweredUpTo(chat, t, tools[t].asked, tools[t].asked)
        BY DEF CallsAnswered
      <3>1. tools[t].asked \in Nat  BY <2>1 DEF EngineRecord
      <3>2. Len(<<>>) = 0 /\ tools[t].asked - 0 = tools[t].asked  BY <3>1
      <3> QED  BY <2>1, <3>2 DEF Outstanding, Histories
    <2>4. PhotosSettled  BY <2>1 DEF InLimits, PhotosSettled
    <2>5. CopySound  BY CopyIsSound DEF ToolInv, ToolShape
    <2> QED  BY <2>2, <2>3, <2>4, <2>5
  <1> QED  BY <1>1, ToolInitial, ToolStep, PTL DEF ToolSpec
=============================================================================
