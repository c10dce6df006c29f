----------------------------- MODULE DataLemmas -----------------------------
(***************************************************************************)
(* Induction for the theorems of the other modules.  The library states it *)
(* for an operator, which the provers cannot instantiate; here it is for   *)
(* sets and functions: a set of numbers has a least one, a set that holds  *)
(* zero and goes on from each number to the next holds them all, and a     *)
(* function is given by its first value and the step to each next one.     *)
(***************************************************************************)
EXTENDS Naturals, Sequences, FiniteSetTheorems, TLAPS

\* A set of numbers has a least one, which is what induction over data rests on here: the
\* smaller of two intervals is a strict subset of the other.
LEMMA LeastOf == ASSUME NEW T, T \subseteq Nat, T # {} PROVE \E x \in T : \A y \in T : x <= y
  <1> DEFINE U == {0..x : x \in T}
  <1>1. U \subseteq FiniteSubsetsOf(Nat)
    <2> SUFFICES ASSUME NEW x \in T PROVE 0..x \in FiniteSubsetsOf(Nat)
      OBVIOUS
    <2>1. x \in Nat /\ 0..x \subseteq Nat  OBVIOUS
    <2>2. IsFiniteSet(0..x)  BY <2>1, FS_Interval
    <2> QED  BY <2>1, <2>2 DEF FiniteSubsetsOf
  <1>2. U # {}  OBVIOUS
  <1>3. IsWellFoundedOn(StrictSubsetOrdering(Nat), FiniteSubsetsOf(Nat))  BY FS_StrictSubsetOrderingWellFounded
  <1>4. PICK X \in U : \A Y \in U : <<Y, X>> \notin StrictSubsetOrdering(Nat)
    <2> HIDE DEF U
    <2> QED  BY <1>1, <1>2, <1>3, WFMin
  <1>5. PICK x \in T : X = 0..x  OBVIOUS
  <1>6. ASSUME NEW y \in T PROVE x <= y
    <2>1. x \in Nat /\ y \in Nat  OBVIOUS
    <2>2. SUFFICES ASSUME y < x PROVE FALSE  BY <2>1
    <2>3. 0..y \subseteq 0..x /\ x \in 0..x /\ x \notin 0..y  BY <2>1, <2>2
    <2>4. <<0..y, X>> \in StrictSubsetOrdering(Nat)  BY <1>5, <2>1, <2>3 DEF StrictSubsetOrdering
    <2> QED  BY <1>4, <2>4
  <1> QED  BY <1>6

\* What holds of zero and goes on from each number to the next holds up to any number.
LEMMA Upwards ==
    ASSUME NEW n \in Nat, NEW T, 0 \in T, \A k \in 1..n : k - 1 \in T => k \in T
    PROVE  0..n \subseteq T
  <1> DEFINE U == {k \in 0..n : k \notin T}
  <1> SUFFICES ASSUME U # {} PROVE FALSE
    OBVIOUS
  <1>1. U \subseteq Nat  OBVIOUS
  <1>2. PICK k \in U : \A y \in U : k <= y
    <2> HIDE DEF U
    <2> QED  BY <1>1, LeastOf
  <1>3. k \in Nat /\ k <= n /\ k \notin T  OBVIOUS
  <1>4. k # 0  BY <1>3
  <1>5. k \in 1..n /\ k - 1 \in 0..n /\ ~(k <= k - 1)  BY <1>3, <1>4
  <1>6. k - 1 \in T  BY <1>2, <1>5
  <1> QED  BY <1>3, <1>5, <1>6

\* There is a function with a given first value and given steps from each value to the next.
Iterates(f, n, first, step) == DOMAIN f = 0..n /\ f[0] = first /\ \A k \in 1..n : f[k] = step[k][f[k - 1]]

LEMMA IterationExists ==
    ASSUME NEW n \in Nat, NEW S, NEW first \in S, NEW step \in [1..n -> [S -> S]]
    PROVE  \E f \in [0..n -> S] : Iterates(f, n, first, step)
  <1> DEFINE T == {m \in 0..n : \E f \in [0..m -> S] : Iterates(f, m, first, step)}
  <1>1. 0 \in T
    <2> DEFINE f == [k \in 0..0 |-> first]
    <2>1. f \in [0..0 -> S] /\ Iterates(f, 0, first, step)  BY DEF Iterates
    <2> QED  BY <2>1
  <1>2. ASSUME NEW m \in 1..n, m - 1 \in T PROVE m \in T
    <2>1. m \in Nat /\ m - 1 \in Nat /\ m - 1 \in 0..(m - 1)  OBVIOUS
    <2>2. PICK g \in [0..(m - 1) -> S] : Iterates(g, m - 1, first, step)  BY <1>2
    <2> DEFINE f == [k \in 0..m |-> IF k = m THEN step[m][g[m - 1]] ELSE g[k]]
    <2>3. step[m][g[m - 1]] \in S  BY <2>1, <2>2
    <2>4. f \in [0..m -> S]
      <3>1. \A k \in 0..m : k # m => k \in 0..(m - 1)  BY <2>1
      <3> QED  BY <2>2, <2>3, <3>1
    <2>5. f[0] = first  BY <2>1, <2>2 DEF Iterates
    <2>6. ASSUME NEW k \in 1..m PROVE f[k] = step[k][f[k - 1]]
      <3>1. k - 1 \in 0..(m - 1) /\ k - 1 # m /\ k - 1 \in 0..m /\ k \in 0..m  BY <2>1
      <3>2. f[k - 1] = g[k - 1]  BY <3>1
      <3>3. CASE k = m  BY <3>1, <3>2, <3>3
      <3>4. CASE k # m
        <4>1. k \in 1..(m - 1)  BY <2>1, <3>4
        <4>2. g[k] = step[k][g[k - 1]]  BY <2>2, <4>1 DEF Iterates
        <4> QED  BY <3>1, <3>2, <3>4, <4>2
      <3> QED  BY <3>3, <3>4
    <2> HIDE DEF f
    <2>7. Iterates(f, m, first, step)  BY <2>4, <2>5, <2>6 DEF Iterates
    <2> QED  BY <2>1, <2>4, <2>7
  <1>3. 0..n \subseteq T
    <2> HIDE DEF T
    <2> QED  BY <1>1, <1>2, Upwards
  <1>4. n \in 0..n  OBVIOUS
  <1> QED  BY <1>3, <1>4
\* Of those that have a number one has the least.
LEMMA LeastBy == ASSUME NEW T, T # {}, NEW f \in [T -> Nat] PROVE \E x \in T : \A y \in T : f[x] <= f[y]
  <1> DEFINE U == {f[x] : x \in T}
  <1>1. U \subseteq Nat /\ U # {}  OBVIOUS
  <1>2. PICK u \in U : \A v \in U : u <= v
    <2> HIDE DEF U
    <2> QED  BY <1>1, LeastOf
  <1> QED  BY <1>2

\* Of those whose keys are tuples of numbers, one comes before or at the same place as each other.
NotAfter(k, n, x, y) ==
    \/ \E m \in 1..n : k[m][x] < k[m][y] /\ \A q \in 1..(m - 1) : k[q][x] = k[q][y]
    \/ \A m \in 1..n : k[m][x] = k[m][y]

LEMMA LeastKey ==
    ASSUME NEW C, C # {}, NEW n \in Nat, NEW k \in [1..n -> [C -> Nat]]
    PROVE  \E x \in C : \A y \in C : NotAfter(k, n, x, y)
  <1> DEFINE T == {i \in 0..n : \E x \in C : \A y \in C : NotAfter(k, i, x, y)}
  <1>1. 0 \in T
    <2>1. PICK x : x \in C  OBVIOUS
    <2>2. \A y \in C : NotAfter(k, 0, x, y)  BY DEF NotAfter
    <2> QED  BY <2>1, <2>2
  <1>2. ASSUME NEW i \in 1..n, i - 1 \in T PROVE i \in T
    <2>1. PICK x \in C : \A y \in C : NotAfter(k, i - 1, x, y)  BY <1>2
    <2> DEFINE E == {y \in C : \A m \in 1..(i - 1) : k[m][x] = k[m][y]}
               f == [y \in E |-> k[i][y]]
    <2>2. x \in E /\ f \in [E -> Nat]  OBVIOUS
    <2>3. PICK e \in E : \A y \in E : f[e] <= f[y]
      <3> HIDE DEF E, f
      <3> QED  BY <2>2, LeastBy
    <2>4. e \in C /\ \A m \in 1..(i - 1) : k[m][e] = k[m][x]  OBVIOUS
    <2>5. ASSUME NEW y \in C PROVE NotAfter(k, i, e, y)
      <3>1. CASE \E m \in 1..(i - 1) : k[m][x] < k[m][y] /\ \A q \in 1..(m - 1) : k[q][x] = k[q][y]
        <4>1. PICK m \in 1..(i - 1) : k[m][x] < k[m][y] /\ \A q \in 1..(m - 1) : k[q][x] = k[q][y]  BY <3>1
        <4>2. m \in 1..i /\ \A q \in 1..(m - 1) : q \in 1..(i - 1)  OBVIOUS
        <4>3. k[m][e] < k[m][y] /\ \A q \in 1..(m - 1) : k[q][e] = k[q][y]  BY <2>4, <4>1, <4>2
        <4> QED  BY <4>2, <4>3 DEF NotAfter
      <3>2. CASE \A m \in 1..(i - 1) : k[m][x] = k[m][y]
        <4>1. y \in E /\ f[e] <= f[y]  BY <2>3, <3>2
        <4>2. k[i][e] <= k[i][y] /\ k[i][e] \in Nat /\ k[i][y] \in Nat  BY <2>4, <4>1
        <4>3. \A m \in 1..(i - 1) : k[m][e] = k[m][y]  BY <2>4, <3>2
        <4>4. \A m \in 1..i : m # i => m \in 1..(i - 1)  OBVIOUS
        <4>5. CASE k[i][e] < k[i][y]
          <5>1. i \in 1..i  OBVIOUS
          <5> QED  BY <4>3, <4>5, <5>1 DEF NotAfter
        <4>6. CASE k[i][e] = k[i][y]
          <5>1. \A m \in 1..i : k[m][e] = k[m][y]  BY <4>3, <4>4, <4>6
          <5> QED  BY <5>1 DEF NotAfter
        <4> QED  BY <4>2, <4>5, <4>6
      <3> QED  BY <2>1, <3>1, <3>2 DEF NotAfter
    <2> QED  BY <2>4, <2>5
  <1>3. n \in 0..n  OBVIOUS
  <1> HIDE DEF T
  <1>4. n \in T  BY <1>1, <1>2, <1>3, Upwards
  <1> QED  BY <1>4 DEF T
=============================================================================
