----------------------------- MODULE FoldTheorems -----------------------------
(***************************************************************************)
(* Induction over the naturals and over finite sets, and folds.  What is   *)
(* proved by induction is stated as membership in a set, since a theorem   *)
(* with a predicate as its parameter cannot be cited.                      *)
(***************************************************************************)
EXTENDS Integers, FiniteSets, Sequences, FiniteSetsExt, FiniteSetTheorems,
        WellFoundedInduction, TLAPS

-----------------------------------------------------------------------------
(* Induction over finite sets *)

\* Induction, by the least number that is missing.
LEMMA NatsAll ==
  ASSUME NEW A, A \subseteq Nat, 0 \in A, \A n \in A : n + 1 \in A
  PROVE  A = Nat
<1> SUFFICES ASSUME Nat \ A # {}
             PROVE  FALSE
  OBVIOUS
<1>1. IsWellFoundedOn(OpToRel(<, Nat), Nat)
  BY NatLessThanWellFounded
<1>2. PICK m \in Nat \ A : \A n \in Nat \ A : ~(<<n, m>> \in OpToRel(<, Nat))
  BY <1>1, WFMin, Zenon
<1>3. m - 1 \in Nat /\ m - 1 \notin A
  <2> DEFINE k == m - 1
  <2>1. k \in Nat /\ k + 1 = m
    <3>1. m \in Nat /\ m # 0
      OBVIOUS
    <3> QED BY <3>1
  <2> HIDE DEF k
  <2>2. k \notin A
    BY <1>2, <2>1
  <2> QED BY <2>1, <2>2 DEF k
<1>4. <<m - 1, m>> \in OpToRel(<, Nat)
  BY <1>2, <1>3 DEF OpToRel
<1> QED BY <1>2, <1>3, <1>4

\* d picks an element of every set; a class of sets that holds every set that
\* it holds without the element picked.
Picks(d, S) == \A s \in SUBSET S : s # {} => d[s] \in s
ClosedUnder(d, A, S) == \A s \in SUBSET S : s # {} /\ s \ {d[s]} \in A => s \in A

LEMMA OneLess ==
  ASSUME NEW s, IsFiniteSet(s), NEW x, x \in s
  PROVE  Cardinality(s \ {x}) = Cardinality(s) - 1
BY FS_RemoveElement

\* Induction over the subsets of a finite set, an element taken away at a time,
\* or added.
LEMMA SubsetsByRemoval ==
  ASSUME NEW S, IsFiniteSet(S), NEW d, Picks(d, S), NEW A, {} \in A, ClosedUnder(d, A, S)
  PROVE  SUBSET S \subseteq A
<1> DEFINE B == {n \in Nat : \A s \in SUBSET S : Cardinality(s) = n => s \in A}
<1>1. 0 \in B
  <2>1. \A s \in SUBSET S : Cardinality(s) = 0 => s = {}
    BY FS_Subset, FS_EmptySet
  <2> QED BY <2>1
<1>2. ASSUME NEW n \in B
      PROVE  n + 1 \in B
  <2>1. ASSUME NEW s \in SUBSET S, Cardinality(s) = n + 1
        PROVE  s \in A
    <3>1. IsFiniteSet(s) /\ n \in Nat
      BY FS_Subset
    <3>2. s # {} /\ d[s] \in s
      BY <2>1, <3>1, FS_EmptySet DEF Picks
    <3>3. Cardinality(s \ {d[s]}) = n
      <4>1. Cardinality(s \ {d[s]}) = Cardinality(s) - 1
        BY <3>1, <3>2, OneLess
      <4> QED BY <2>1, <3>1, <4>1
    <3>4. s \ {d[s]} \in SUBSET S
      OBVIOUS
    <3>5. s \ {d[s]} \in A
      BY <3>3, <3>4
    <3> QED BY <3>2, <3>5 DEF ClosedUnder
  <2> QED BY <2>1
<1>3. B = Nat
  <2>1. B \subseteq Nat
    OBVIOUS
  <2> HIDE DEF B
  <2> QED BY <1>1, <1>2, <2>1, NatsAll
<1>4. SUFFICES ASSUME NEW s \in SUBSET S
               PROVE  s \in A
  OBVIOUS
<1>5. Cardinality(s) \in Nat
  BY FS_Subset, FS_CardinalityType
<1>6. Cardinality(s) \in B
  <2> HIDE DEF B
  <2> QED BY <1>3, <1>5
<1> QED BY <1>6

LEMMA SubsetsByAddition ==
  ASSUME NEW S, IsFiniteSet(S), NEW A, {} \in A,
         \A T \in SUBSET S : \A x \in S \ T : T \in A => T \cup {x} \in A
  PROVE  SUBSET S \subseteq A
<1> DEFINE d == [s \in SUBSET S |-> CHOOSE x \in s : TRUE]
<1>1. Picks(d, S)
  BY DEF Picks
<1>2. ClosedUnder(d, A, S)
  <2> HIDE DEF d
  <2>1. ASSUME NEW s \in SUBSET S, s # {}, s \ {d[s]} \in A
        PROVE  s \in A
    <3>1. d[s] \in S \ (s \ {d[s]}) /\ s \ {d[s]} \in SUBSET S /\ (s \ {d[s]}) \cup {d[s]} = s
      BY <1>1, <2>1 DEF Picks
    <3>2. (s \ {d[s]}) \cup {d[s]} \in A
      BY <2>1, <3>1
    <3> QED BY <3>1, <3>2
  <2> QED BY <2>1 DEF ClosedUnder
<1> QED BY <1>1, <1>2, SubsetsByRemoval

\* A fold over the subsets of a finite set exists: each is folded after the
\* element picked is taken away.
IsFold(g, d, step, base, S) ==
  \A s \in SUBSET S : g[s] = IF s = {} THEN base ELSE step[<<d[s], g[s \ {d[s]}]>>]

LEMMA FoldExists ==
  ASSUME NEW S, IsFiniteSet(S), NEW V, NEW base \in V, NEW d, Picks(d, S),
         NEW step \in [S \X V -> V]
  PROVE  \E g \in [SUBSET S -> V] : IsFold(g, d, step, base, S)
<1> DEFINE D(n) == {s \in SUBSET S : Cardinality(s) <= n}
           Folds(g, n) == \A s \in D(n) : g[s] = IF s = {} THEN base ELSE step[<<d[s], g[s \ {d[s]}]>>]
           A == {n \in Nat : \E g \in [D(n) -> V] : Folds(g, n)}
<1>1. \A s \in SUBSET S : IsFiniteSet(s) /\ Cardinality(s) \in Nat /\ Cardinality(s) <= Cardinality(S)
  BY FS_Subset, FS_CardinalityType
<1>2. 0 \in A
  <2>1. \A s \in D(0) : s = {}
    <3>1. TAKE s \in D(0)
    <3>2. IsFiniteSet(s) /\ Cardinality(s) = 0
      BY <1>1
    <3> QED BY <3>2, FS_EmptySet
  <2>2. [s \in D(0) |-> base] \in [D(0) -> V] /\ Folds([s \in D(0) |-> base], 0)
    BY <2>1
  <2> QED BY <2>2
<1>3. ASSUME NEW n \in A
      PROVE  n + 1 \in A
  <2>1. PICK g \in [D(n) -> V] : Folds(g, n)
    OBVIOUS
  <2> DEFINE h == [s \in D(n + 1) |-> IF s = {} THEN base ELSE step[<<d[s], g[s \ {d[s]}]>>]]
  <2>2. \A s \in D(n + 1) : s # {} => d[s] \in S /\ s \ {d[s]} \in D(n)
    <3>1. TAKE s \in D(n + 1)
    <3>2. HAVE s # {}
    <3>3. d[s] \in s /\ IsFiniteSet(s)
      BY <1>1, <3>2 DEF Picks
    <3>4. Cardinality(s \ {d[s]}) = Cardinality(s) - 1
      BY <3>3, OneLess
    <3>5. Cardinality(s) \in Nat /\ Cardinality(s) <= n + 1 /\ n \in Nat
      BY <1>1
    <3> QED BY <3>3, <3>4, <3>5
  <2>3. D(n) \subseteq D(n + 1)
    BY <1>1
  <2>4. \A s \in D(n) : h[s] = g[s]
    BY <2>1, <2>3
  <2>5. h \in [D(n + 1) -> V]
    <3>1. \A s \in D(n + 1) : s # {} => <<d[s], g[s \ {d[s]}]>> \in S \X V
      <4> HIDE DEF D
      <4> QED BY <2>2
    <3>2. \A s \in D(n + 1) : s # {} => step[<<d[s], g[s \ {d[s]}]>>] \in V
      <4> HIDE DEF D
      <4> QED BY <3>1
    <3> HIDE DEF D
    <3> QED BY <3>2
  <2>6. Folds(h, n + 1)
    <3>1. TAKE s \in D(n + 1)
    <3>2. CASE s = {}
      BY <3>2
    <3>3. CASE s # {}
      <4>1. h[s \ {d[s]}] = g[s \ {d[s]}]
        <5> HIDE DEF h, D
        <5> QED BY <2>2, <2>4, <3>3
      <4>2. h[s] = step[<<d[s], g[s \ {d[s]}]>>]
        <5> HIDE DEF D
        <5> QED BY <3>3
      <4> HIDE DEF h, D
      <4> QED BY <3>3, <4>1, <4>2
    <3> QED BY <3>2, <3>3
  <2>7. n + 1 \in Nat
    OBVIOUS
  <2> HIDE DEF h, D, Folds
  <2> QED BY <2>5, <2>6, <2>7
<1>4. A = Nat
  <2>1. A \subseteq Nat
    OBVIOUS
  <2> HIDE DEF A
  <2> QED BY <1>2, <1>3, <2>1, NatsAll
<1>5. D(Cardinality(S)) = SUBSET S
  BY <1>1
<1>6. Cardinality(S) \in A
  <2>1. Cardinality(S) \in Nat
    BY FS_CardinalityType
  <2> HIDE DEF A
  <2> QED BY <1>4, <2>1
<1>7. PICK g \in [D(Cardinality(S)) -> V] : Folds(g, Cardinality(S))
  <2> HIDE DEF Folds, D
  <2> QED BY <1>6
<1>8. g \in [SUBSET S -> V]
  <2> HIDE DEF D, Folds
  <2> QED BY <1>5, <1>7
<1>9. IsFold(g, d, step, base, S)
  <2> HIDE DEF D
  <2> QED BY <1>5, <1>7 DEF IsFold
<1> QED BY <1>8, <1>9

-----------------------------------------------------------------------------
(* Folds from left to right *)

LEMMA MaxOfSome ==
  ASSUME NEW n \in Nat, NEW s \in SUBSET (1..n), s # {}
  PROVE  Max(s) \in s /\ \A y \in s : y <= Max(s)
<1> DEFINE A == {k \in Nat : \A t \in SUBSET (1..k) : t # {} => \E m \in t : \A y \in t : m >= y}
<1>1. 0 \in A
  <2>1. 1..0 = {}
    OBVIOUS
  <2> QED BY <2>1
<1>2. ASSUME NEW k \in A
      PROVE  k + 1 \in A
  <2>1. ASSUME NEW t \in SUBSET (1..(k + 1)), t # {}
        PROVE  \E m \in t : \A y \in t : m >= y
    <3>1. CASE k + 1 \in t
      BY <3>1
    <3>2. CASE k + 1 \notin t
      <4>1. t \in SUBSET (1..k)
        BY <3>2
      <4> QED BY <1>2, <2>1, <4>1
    <3> QED BY <3>1, <3>2
  <2> QED BY <1>2, <2>1
<1>3. n \in A
  <2>1. A \subseteq Nat
    OBVIOUS
  <2> HIDE DEF A
  <2> QED BY <1>1, <1>2, <2>1, NatsAll
<1>4. \E m \in s : \A y \in s : m >= y
  BY <1>3
<1> QED BY <1>4 DEF Max

\* What is folded from the left over the places 1..n: the largest place last.
FoldsLeft(g, step, base, n) ==
  \A s \in SUBSET (1..n) :
    g[s] = IF s = {} THEN base ELSE step[<<Max(s), g[s \ {Max(s)}]>>]

LEMMA FoldLeftExists ==
  ASSUME NEW n \in Nat, NEW V, NEW base \in V, NEW step \in [(1..n) \X V -> V]
  PROVE  \E g \in [SUBSET (1..n) -> V] : FoldsLeft(g, step, base, n)
<1> DEFINE S == 1..n
           d == [s \in SUBSET S |-> Max(s)]
<1>1. IsFiniteSet(S)
  BY FS_Interval
<1>2. \A s \in SUBSET S : d[s] = Max(s) /\ (s # {} => d[s] \in s)
  BY MaxOfSome
<1> HIDE DEF d, S
<1>3. Picks(d, S)
  BY <1>2 DEF Picks
<1>4. PICK g \in [SUBSET S -> V] : IsFold(g, d, step, base, S)
  BY <1>1, <1>3, FoldExists DEF S
<1>5. FoldsLeft(g, step, base, n)
  <2> SUFFICES ASSUME NEW s \in SUBSET S
               PROVE  g[s] = IF s = {} THEN base ELSE step[<<Max(s), g[s \ {Max(s)}]>>]
    BY DEF FoldsLeft, S
  <2>1. g[s] = IF s = {} THEN base ELSE step[<<d[s], g[s \ {d[s]}]>>]
    BY <1>4 DEF IsFold
  <2>2. d[s] = Max(s)
    BY <1>2
  <2> QED BY <2>1, <2>2, Zenon
<1> QED BY <1>4, <1>5 DEF S

LEMMA LastPlace ==
  ASSUME NEW i \in Nat \ {0}
  PROVE  Max(1..i) = i /\ (1..i) \ {i} = 1..(i - 1) /\ 1..i # {}
<1>1. 1..i # {} /\ i \in 1..i /\ (1..i) \ {i} = 1..(i - 1) /\ 1..i \in SUBSET (1..i)
  OBVIOUS
<1>2. Max(1..i) \in 1..i /\ i <= Max(1..i)
  BY <1>1, MaxOfSome
<1> QED BY <1>1, <1>2

\* Induction up to a bound.
LEMMA UpTo ==
  ASSUME NEW n \in Nat, NEW A, 0 \in A, \A i \in 1..n : i - 1 \in A => i \in A
  PROVE  0..n \subseteq A
<1> DEFINE B == {k \in Nat : k <= n => k \in A}
<1>1. 0 \in B
  OBVIOUS
<1>2. ASSUME NEW k \in B
      PROVE  k + 1 \in B
  <2>1. CASE k + 1 <= n
    <3>1. k \in A /\ k + 1 \in 1..n /\ (k + 1) - 1 = k
      BY <2>1
    <3> QED BY <3>1
  <2>2. CASE ~(k + 1 <= n)
    BY <2>2
  <2> QED BY <2>1, <2>2
<1>3. B = Nat
  <2>1. B \subseteq Nat
    OBVIOUS
  <2> HIDE DEF B
  <2> QED BY <1>1, <1>2, <2>1, NatsAll
<1> QED BY <1>3

\* A sum from left to right, over the places 1..n.
AddsUp(h, values, n) ==
  h = [s \in SUBSET (1..n) |-> IF s = {} THEN 0 ELSE h[s \ {Max(s)}] + values[Max(s)]]

LEMMA SumExists ==
  ASSUME NEW n \in Nat, NEW values \in [1..n -> Nat]
  PROVE  \E h : AddsUp(h, values, n)
<1> DEFINE step == [x \in (1..n) \X Nat |-> x[2] + values[x[1]]]
<1>1. /\ step \in [(1..n) \X Nat -> Nat]
      /\ \A i \in 1..n, v \in Nat : step[<<i, v>>] = v + values[i]
  OBVIOUS
<1> HIDE DEF step
<1>2. PICK g \in [SUBSET (1..n) -> Nat] : FoldsLeft(g, step, 0, n)
  BY <1>1, FoldLeftExists
<1>3. ASSUME NEW s \in SUBSET (1..n), s # {}
      PROVE  g[s] = g[s \ {Max(s)}] + values[Max(s)]
  <2>1. Max(s) \in 1..n
    BY <1>3, MaxOfSome
  <2>2. g[s \ {Max(s)}] \in Nat
    OBVIOUS
  <2>3. g[s] = step[<<Max(s), g[s \ {Max(s)}]>>]
    BY <1>2, <1>3 DEF FoldsLeft
  <2> QED BY <1>1, <2>1, <2>2, <2>3
<1>4. AddsUp(g, values, n)
  BY <1>2, <1>3 DEF FoldsLeft, AddsUp
<1> QED BY <1>4

LEMMA SumsOfBeginnings ==
  ASSUME NEW n \in Nat, NEW values \in [1..n -> Nat], NEW h, AddsUp(h, values, n)
  PROVE  /\ h[1..0] = 0
         /\ \A i \in 0..n : h[1..i] \in Nat
         /\ \A i \in 1..n : h[1..i] = h[1..(i - 1)] + values[i]
<1>1. ASSUME NEW i \in 1..n
      PROVE  h[1..i] = h[1..(i - 1)] + values[i]
  <2>1. Max(1..i) = i /\ (1..i) \ {i} = 1..(i - 1) /\ 1..i # {}
    BY LastPlace
  <2>2. 1..i \in SUBSET (1..n)
    OBVIOUS
  <2>3. h[1..i] = h[(1..i) \ {Max(1..i)}] + values[Max(1..i)]
    BY <2>1, <2>2 DEF AddsUp
  <2> QED BY <2>1, <2>3
<1>2. h[1..0] = 0
  <2>1. 1..0 = {} /\ {} \in SUBSET (1..n)
    OBVIOUS
  <2>2. h[{}] = 0
    BY <2>1 DEF AddsUp
  <2> QED BY <2>1, <2>2
<1>3. \A i \in 0..n : h[1..i] \in Nat
  <2> DEFINE A == {i \in 0..n : h[1..i] \in Nat}
  <2>1. 0 \in A
    BY <1>2
  <2>2. ASSUME NEW i \in 1..n, i - 1 \in A
        PROVE  i \in A
    <3>1. h[1..i] = h[1..(i - 1)] + values[i] /\ h[1..(i - 1)] \in Nat /\ values[i] \in Nat /\ i \in 0..n
      BY <1>1, <2>2
    <3> QED BY <3>1
  <2>3. 0..n \subseteq A
    <3> HIDE DEF A
    <3> QED BY <2>1, <2>2, UpTo
  <2> QED BY <2>3
<1> QED BY <1>1, <1>2, <1>3

-----------------------------------------------------------------------------
(* Finite sets in order *)

\* The pairs of a strict total order on S.
Linear(before, S) ==
  /\ \A x \in S : <<x, x>> \notin before
  /\ \A x, y \in S : x = y \/ <<x, y>> \in before \/ <<y, x>> \in before
  /\ \A x, y, z \in S : <<x, y>> \in before /\ <<y, z>> \in before => <<x, z>> \in before

Enumerates(p, S, before) ==
  /\ p \in [1..Cardinality(S) -> S]
  /\ \A i, j \in 1..Cardinality(S) : i < j => <<p[i], p[j]>> \in before

IsLast(x, T, before) == x \in T /\ \A y \in T \ {x} : <<y, x>> \in before

LEMMA LastExists ==
  ASSUME NEW S, IsFiniteSet(S), NEW before, Linear(before, S), NEW s \in SUBSET S, s # {}
  PROVE  \E x \in s : IsLast(x, s, before)
<1> DEFINE A == {T \in SUBSET S : T # {} => \E x \in T : IsLast(x, T, before)}
<1>1. {} \in A
  OBVIOUS
<1>2. ASSUME NEW T \in SUBSET S, NEW y \in S \ T, T \in A
      PROVE  T \cup {y} \in A
  <2>1. CASE T = {}
    BY <2>1 DEF IsLast
  <2>2. CASE T # {}
    <3>1. PICK x \in T : IsLast(x, T, before)
      BY <1>2, <2>2
    <3>2. CASE <<x, y>> \in before
      <4>1. \A z \in T : <<z, y>> \in before
        BY <1>2, <3>1, <3>2 DEF IsLast, Linear
      <4> QED BY <4>1 DEF IsLast
    <3>3. CASE <<y, x>> \in before
      BY <3>1, <3>3 DEF IsLast
    <3> QED BY <1>2, <3>1, <3>2, <3>3 DEF Linear
  <2> QED BY <2>1, <2>2
<1>3. s \in A
  <2> HIDE DEF A
  <2> QED BY <1>1, <1>2, SubsetsByAddition
<1> QED BY <1>3

LEMMA LongerOrder ==
  ASSUME NEW S, NEW before, NEW s \in SUBSET S, IsFiniteSet(s), NEW x, IsLast(x, s, before),
         NEW p, Enumerates(p, s \ {x}, before)
  PROVE  \E q : Enumerates(q, s, before)
<1> DEFINE n == Cardinality(s \ {x})
           q == [i \in 1..(n + 1) |-> IF i \in 1..n THEN p[i] ELSE x]
<1>1. n \in Nat /\ Cardinality(s) = n + 1 /\ x \in s
  <2>1. Cardinality(s \ {x}) = Cardinality(s) - 1 /\ x \in s
    BY OneLess DEF IsLast
  <2>2. IsFiniteSet(s \ {x})
    BY FS_Subset
  <2>3. Cardinality(s) \in Nat /\ Cardinality(s \ {x}) \in Nat
    BY <2>2, FS_CardinalityType
  <2> QED BY <2>1, <2>3
<1>2. /\ p \in [1..n -> s \ {x}]
      /\ \A i, j \in 1..n : i < j => <<p[i], p[j]>> \in before
  BY DEF Enumerates
<1>3. \A y \in s \ {x} : <<y, x>> \in before
  BY DEF IsLast
<1> HIDE DEF n
<1>4. q \in [1..(n + 1) -> s]
  BY <1>1, <1>2
<1>5. ASSUME NEW i \in 1..(n + 1), NEW j \in 1..(n + 1), i < j
      PROVE  <<q[i], q[j]>> \in before
  <2>1. i \in 1..n /\ q[i] = p[i] /\ p[i] \in s \ {x}
    BY <1>1, <1>2, <1>5
  <2>2. CASE j \in 1..n
    BY <1>2, <1>5, <2>1, <2>2
  <2>3. CASE j \notin 1..n
    BY <1>3, <2>1, <2>3
  <2> QED BY <2>2, <2>3
<1> HIDE DEF q
<1>6. Enumerates(q, s, before)
  BY <1>1, <1>4, <1>5, Zenon DEF Enumerates
<1> QED BY <1>6

\* A finite set can be put in order.
LEMMA OrderExists ==
  ASSUME NEW S, IsFiniteSet(S), NEW before, Linear(before, S)
  PROVE  \E p : Enumerates(p, S, before)
<1> DEFINE A == {T \in SUBSET S : \E p : Enumerates(p, T, before)}
           d == [T \in SUBSET S |-> CHOOSE x \in T : IsLast(x, T, before)]
<1>1. \A T \in SUBSET S : T # {} => d[T] \in T /\ IsLast(d[T], T, before)
  <2>1. TAKE T \in SUBSET S
  <2>2. HAVE T # {}
  <2>3. \E x \in T : IsLast(x, T, before)
    BY <2>2, LastExists
  <2>4. d[T] = CHOOSE x \in T : IsLast(x, T, before)
    OBVIOUS
  <2> HIDE DEF d
  <2> QED BY <2>3, <2>4
<1>2. {} \in A
  <2>1. Cardinality({}) = 0 /\ 1..0 = {}
    BY FS_EmptySet
  <2>2. Enumerates([i \in {} |-> i], {}, before)
    BY <2>1 DEF Enumerates
  <2> QED BY <2>2
<1> HIDE DEF d
<1>3. Picks(d, S)
  BY <1>1 DEF Picks
<1>4. ClosedUnder(d, A, S)
  <2>1. ASSUME NEW T \in SUBSET S, T # {}, T \ {d[T]} \in A
        PROVE  T \in A
    <3>1. PICK p : Enumerates(p, T \ {d[T]}, before)
      BY <2>1
    <3>2. IsLast(d[T], T, before) /\ IsFiniteSet(T)
      BY <1>1, <2>1, FS_Subset
    <3>3. \E q : Enumerates(q, T, before)
      BY <3>1, <3>2, LongerOrder
    <3> QED BY <3>3
  <2> HIDE DEF A
  <2> QED BY <2>1 DEF ClosedUnder
<1>5. S \in A
  <2> HIDE DEF A
  <2> QED BY <1>2, <1>3, <1>4, SubsetsByRemoval
<1> QED BY <1>5

\* What is in order is there once.
LEMMA OrderIsOnto ==
  ASSUME NEW S, IsFiniteSet(S), NEW before, Linear(before, S), NEW p, Enumerates(p, S, before)
  PROVE  p \in Bijection(1..Cardinality(S), S)
<1> DEFINE n == Cardinality(S)
<1>1. n \in Nat
  BY FS_CardinalityType
<1>2. /\ p \in [1..n -> S]
      /\ \A i, j \in 1..n : i < j => <<p[i], p[j]>> \in before
  BY DEF Enumerates
<1> HIDE DEF n
<1>3. ASSUME NEW i \in 1..n, NEW j \in 1..n, p[i] = p[j]
      PROVE  i = j
  <2>1. p[i] \in S /\ <<p[i], p[i]>> \notin before
    BY <1>2 DEF Linear
  <2>2. ~(i < j) /\ ~(j < i)
    BY <1>2, <1>3, <2>1
  <2> QED BY <1>1, <2>2
<1>4. p \in Injection(1..n, S)
  BY <1>2, <1>3 DEF Injection, IsInjective
<1>5. Cardinality(1..n) = n
  BY <1>1, FS_Interval
<1>6. p \in Surjection(1..n, S)
  <2>1. Cardinality(1..n) = Cardinality(S)
    BY <1>5 DEF n
  <2> QED BY <1>4, <2>1, FS_Injection
<1> QED BY <1>4, <1>6 DEF Bijection, n
=============================================================================
