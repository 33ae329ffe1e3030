---------------------------- MODULE Ledgers_proofs ----------------------------
(***************************************************************************)
(* Every answer of a ledger follows from its log, and turns stay together, *)
(* for all numbers of owners, items and operations.  Sums over finite sets *)
(* are folds, which the proofs reach by induction over the subsets of a    *)
(* finite set; that induction is stated with sets in place of predicates.  *)
(***************************************************************************)
EXTENDS Ledgers, FoldTheorems

-----------------------------------------------------------------------------
(* Sums *)

\* How MapThenSumSet folds f over the subsets of a finite set.
Element(s) == CHOOSE x \in s : TRUE
IsSum(g, f, S) ==
  \A s \in SUBSET S : g[s] = IF s = {} THEN 0 ELSE f[Element(s)] + g[s \ {Element(s)}]

LEMMA ElementIn ==
  ASSUME NEW s, s # {}
  PROVE  Element(s) \in s
BY DEF Element

\* Two folds of f agree where both are defined.
SumsEqual(h, g, T) == \A s \in SUBSET T : h[s] = g[s]

LEMMA SumsAgree ==
  ASSUME NEW S, IsFiniteSet(S), NEW T \in SUBSET S, NEW f, NEW g, NEW h,
         IsSum(g, f, S), IsSum(h, f, T)
  PROVE  SumsEqual(h, g, T)
<1> DEFINE A == {s \in SUBSET T : h[s] = g[s]}
           d == [s \in SUBSET T |-> Element(s)]
<1>1. \A s \in SUBSET T : d[s] = Element(s) /\ (s # {} => d[s] \in s)
  BY ElementIn
<1>2. {} \in A
  BY DEF IsSum
<1>3. ClosedUnder(d, A, T)
  <2> SUFFICES \A s \in SUBSET T : s # {} /\ s \ {d[s]} \in A => s \in A
    BY DEF ClosedUnder
  <2>1. TAKE s \in SUBSET T
  <2>2. HAVE s # {} /\ s \ {d[s]} \in A
  <2>3. h[s \ {Element(s)}] = g[s \ {Element(s)}]
    BY <1>1, <2>2
  <2>4. s \in SUBSET S
    OBVIOUS
  <2> QED BY <2>2, <2>3, <2>4 DEF IsSum
<1>4. IsFiniteSet(T)
  BY FS_Subset
<1>5. Picks(d, T)
  BY <1>1 DEF Picks
<1>6. SUBSET T \subseteq A
  <2> HIDE DEF A, d
  <2> QED BY <1>2, <1>3, <1>4, <1>5, SubsetsByRemoval
<1> QED BY <1>6 DEF SumsEqual

LEMMA SumUnfolds ==
  ASSUME NEW S, IsFiniteSet(S), NEW f, \A x \in S : f[x] \in Int
  PROVE  \E g \in [SUBSET S -> Int] : IsSum(g, f, S) /\ SumOver(f, S) = g[S]
<1> DEFINE Fold(g) == [s \in SUBSET S |-> IF s = {} THEN 0 ELSE f[Element(s)] + g[s \ {Element(s)}]]
           d == [s \in SUBSET S |-> Element(s)]
           step == [p \in S \X Int |-> f[p[1]] + p[2]]
<1>1. \A s \in SUBSET S : d[s] = Element(s) /\ (s # {} => d[s] \in s)
  BY ElementIn
<1>2. /\ step \in [S \X Int -> Int]
      /\ \A x \in S, n \in Int : step[<<x, n>>] = f[x] + n
  OBVIOUS
<1>3. PICK g \in [SUBSET S -> Int] : IsFold(g, d, step, 0, S)
  <2>1. 0 \in Int
    OBVIOUS
  <2> HIDE DEF d, step
  <2>2. Picks(d, S)
    BY <1>1 DEF Picks
  <2> QED BY <1>2, <2>1, <2>2, FoldExists
<1>4. IsSum(g, f, S)
  <2>1. ASSUME NEW s \in SUBSET S, s # {}
        PROVE  step[<<d[s], g[s \ {d[s]}]>>] = f[Element(s)] + g[s \ {Element(s)}]
    <3> HIDE DEF d, step
    <3>1. d[s] = Element(s) /\ d[s] \in S /\ s \ {d[s]} \in SUBSET S
      BY <1>1, <2>1
    <3>2. g[s \ {d[s]}] \in Int
      BY <1>3, <3>1
    <3>3. step[<<d[s], g[s \ {d[s]}]>>] = f[d[s]] + g[s \ {d[s]}]
      BY <1>2, <3>1, <3>2
    <3> QED BY <3>1, <3>3
  <2> HIDE DEF d, step
  <2> QED BY <1>3, <2>1 DEF IsSum, IsFold
<1>5. g = Fold(g)
  <2> HIDE DEF d, step
  <2> QED BY <1>3, <1>4 DEF IsSum
<1> DEFINE h == CHOOSE k : k = Fold(k)
<1>6. h = Fold(h)
  <2> HIDE DEF Fold
  <2> QED BY <1>5, Zenon
<1>7. SumOver(f, S) = h[S]
  BY DEF SumOver, MapThenSumSet, MapThenFoldSet, Element
<1> HIDE DEF h
<1>8. IsSum(h, f, S)
  BY <1>6 DEF IsSum
<1>9. h[S] = g[S]
  <2>1. S \in SUBSET S
    OBVIOUS
  <2> QED BY <1>4, <1>8, <2>1, SumsAgree DEF SumsEqual
<1> QED BY <1>3, <1>4, <1>7, <1>9

\* The order in which the elements are taken does not matter.
AnyOrder(g, f, S) == \A s \in SUBSET S : \A x \in s : g[s] = f[x] + g[s \ {x}]

LEMMA SumRemoves ==
  ASSUME NEW S, IsFiniteSet(S), NEW f, \A x \in S : f[x] \in Int,
         NEW g \in [SUBSET S -> Int], IsSum(g, f, S)
  PROVE  AnyOrder(g, f, S)
<1> DEFINE B == {n \in Nat : \A s \in SUBSET S : Cardinality(s) = n =>
                              \A x \in s : g[s] = f[x] + g[s \ {x}]}
<1>1. 0 \in B
  <2>1. \A s \in SUBSET S : Cardinality(s) = 0 => s = {}
    BY FS_Subset, FS_EmptySet
  <2> QED BY <2>1
<1>2. ASSUME NEW n \in B
      PROVE  n + 1 \in B
  <2>1. ASSUME NEW s \in SUBSET S, Cardinality(s) = n + 1, NEW x \in s
        PROVE  g[s] = f[x] + g[s \ {x}]
    <3> DEFINE e == Element(s)
    <3>1. e \in s /\ g[s] = f[e] + g[s \ {e}]
      BY ElementIn DEF IsSum
    <3>2. \A y \in s : Cardinality(s \ {y}) = n
      <4>1. IsFiniteSet(s) /\ n \in Nat
        BY FS_Subset
      <4>2. \A y \in s : Cardinality(s \ {y}) = Cardinality(s) - 1
        BY <4>1, OneLess
      <4> QED BY <2>1, <4>1, <4>2
    <3> HIDE DEF e
    <3>3. CASE x # e
      <4>1. g[s \ {e}] = f[x] + g[(s \ {e}) \ {x}]
        BY <3>1, <3>2, <3>3
      <4>2. g[s \ {x}] = f[e] + g[(s \ {x}) \ {e}]
        BY <3>1, <3>2, <3>3
      <4>3. (s \ {e}) \ {x} = (s \ {x}) \ {e} /\ (s \ {e}) \ {x} \in SUBSET S
        OBVIOUS
      <4>4. f[x] \in Int /\ f[e] \in Int /\ g[(s \ {e}) \ {x}] \in Int
        BY <3>1, <4>3
      <4>5. g[s] = f[e] + (f[x] + g[(s \ {e}) \ {x}]) /\ g[s \ {x}] = f[e] + g[(s \ {e}) \ {x}]
        BY <3>1, <4>1, <4>2, <4>3
      <4> DEFINE rest == g[(s \ {e}) \ {x}]
                 p == f[e]
                 q == f[x]
      <4>6. p \in Int /\ q \in Int /\ rest \in Int /\ g[s] = p + (q + rest) /\ g[s \ {x}] = p + rest
        BY <4>4, <4>5
      <4> HIDE DEF rest, p
      <4> QED BY <4>6
    <3> QED BY <3>1, <3>3
  <2> QED BY <2>1
<1>3. B = Nat
  <2>1. B \subseteq Nat
    OBVIOUS
  <2> HIDE DEF B
  <2> QED BY <1>1, <1>2, <2>1, NatsAll
<1>4. SUFFICES ASSUME NEW s \in SUBSET S
               PROVE  \A x \in s : g[s] = f[x] + g[s \ {x}]
  BY DEF AnyOrder
<1>5. Cardinality(s) \in Nat
  BY FS_Subset, FS_CardinalityType
<1>6. Cardinality(s) \in B
  <2> HIDE DEF B
  <2> QED BY <1>3, <1>5
<1> QED BY <1>6

\* What the proofs use of a sum: it is an integer, the empty one is 0, an
\* element adds its own part, and only the elements' parts matter.
LEMMA SumEmpty ==
  ASSUME NEW f
  PROVE  SumOver(f, {}) = 0
<1>1. PICK g : IsSum(g, f, {}) /\ SumOver(f, {}) = g[{}]
  BY SumUnfolds, FS_EmptySet
<1> QED BY <1>1 DEF IsSum

LEMMA SumTyped ==
  ASSUME NEW S, IsFiniteSet(S), NEW f, \A x \in S : f[x] \in Int
  PROVE  SumOver(f, S) \in Int
<1>1. PICK g \in [SUBSET S -> Int] : IsSum(g, f, S) /\ SumOver(f, S) = g[S]
  BY SumUnfolds, Zenon
<1> QED BY <1>1

LEMMA SumAdd ==
  ASSUME NEW S, IsFiniteSet(S), NEW x, x \notin S, NEW f, \A y \in S \cup {x} : f[y] \in Int
  PROVE  SumOver(f, S \cup {x}) = f[x] + SumOver(f, S)
<1> DEFINE T == S \cup {x}
<1>1. IsFiniteSet(T)
  BY FS_AddElement
<1>2. PICK g \in [SUBSET T -> Int] : IsSum(g, f, T) /\ SumOver(f, T) = g[T]
  BY <1>1, SumUnfolds
<1>3. PICK h : IsSum(h, f, S) /\ SumOver(f, S) = h[S]
  BY SumUnfolds
<1>4. h[S] = g[S]
  <2>1. S \in SUBSET T /\ S \in SUBSET S
    OBVIOUS
  <2> HIDE DEF T
  <2>2. SumsEqual(h, g, S)
    BY <1>1, <1>2, <1>3, <2>1, SumsAgree
  <2> QED BY <2>1, <2>2 DEF SumsEqual
<1>5. g[T] = f[x] + g[T \ {x}]
  <2>1. T \in SUBSET T /\ x \in T
    OBVIOUS
  <2>2. \A y \in T : f[y] \in Int
    OBVIOUS
  <2> HIDE DEF T
  <2>3. AnyOrder(g, f, T)
    BY <1>1, <1>2, <2>2, SumRemoves
  <2> QED BY <2>1, <2>3 DEF AnyOrder
<1>6. T \ {x} = S
  OBVIOUS
<1> QED BY <1>2, <1>3, <1>4, <1>5, <1>6

\* The sum of the sums, for the elements of a finite set.
LEMMA SumOfSums ==
  ASSUME NEW S, IsFiniteSet(S), NEW f, NEW g, NEW h,
         \A x \in S : f[x] \in Int /\ g[x] \in Int /\ h[x] = f[x] + g[x]
  PROVE  SumOver(h, S) = SumOver(f, S) + SumOver(g, S)
<1> DEFINE A == {T \in SUBSET S : SumOver(h, T) = SumOver(f, T) + SumOver(g, T)}
<1>1. {} \in A
  BY SumEmpty
<1>2. ASSUME NEW T \in SUBSET S, NEW x \in S \ T, T \in A
      PROVE  T \cup {x} \in A
  <2>1. IsFiniteSet(T)
    BY FS_Subset
  <2>2. /\ SumOver(f, T \cup {x}) = f[x] + SumOver(f, T)
        /\ SumOver(g, T \cup {x}) = g[x] + SumOver(g, T)
        /\ SumOver(h, T \cup {x}) = h[x] + SumOver(h, T)
    <3>1. \A y \in T \cup {x} : f[y] \in Int /\ g[y] \in Int /\ h[y] \in Int
      OBVIOUS
    <3> QED BY <2>1, <3>1, SumAdd
  <2>3. SumOver(f, T) \in Int /\ SumOver(g, T) \in Int /\ f[x] \in Int /\ g[x] \in Int
    BY <2>1, SumTyped
  <2> QED BY <1>2, <2>2, <2>3
<1>3. SUBSET S \subseteq A
  <2> HIDE DEF A
  <2> QED BY <1>1, <1>2, SubsetsByAddition
<1> QED BY <1>3

LEMMA SumSame ==
  ASSUME NEW S, IsFiniteSet(S), NEW f, NEW g,
         \A x \in S : f[x] \in Int /\ g[x] = f[x]
  PROVE  SumOver(g, S) = SumOver(f, S)
<1> DEFINE A == {T \in SUBSET S : SumOver(g, T) = SumOver(f, T)}
<1>1. {} \in A
  BY SumEmpty
<1>2. ASSUME NEW T \in SUBSET S, NEW x \in S \ T, T \in A
      PROVE  T \cup {x} \in A
  <2>1. IsFiniteSet(T)
    BY FS_Subset
  <2>2. /\ SumOver(f, T \cup {x}) = f[x] + SumOver(f, T)
        /\ SumOver(g, T \cup {x}) = g[x] + SumOver(g, T)
    <3>1. \A y \in T \cup {x} : f[y] \in Int /\ g[y] \in Int
      OBVIOUS
    <3> QED BY <2>1, <3>1, SumAdd
  <2> QED BY <1>2, <2>2
<1>3. SUBSET S \subseteq A
  <2> HIDE DEF A
  <2> QED BY <1>1, <1>2, SubsetsByAddition
<1> QED BY <1>3

-----------------------------------------------------------------------------
(* Types *)

LogOps == {"add", "clear", "clear_all", "accept", "duplicate", "grant", "revoke", "bind", "plan",
           "reserve"}
Entries == [op : LogOps, owner : Owners \cup {None}, item : Items \cup {None}, n : Int]

LedgerTypes ==
  /\ kind \in [class : Classes, hard : BOOLEAN, defaultDeny : BOOLEAN, estimate : 1..(MaxTokens + 1)]
  /\ counts \in [Owners -> [Items -> Nat]]
  /\ plan \in [tokens : Int, steps : Int]
  /\ log \in Seq(Entries)

\* What is logged, and where.
Appends(op, o, x, n) ==
  \E r \in Entries : /\ r.op = op /\ r.owner = o /\ r.item = x /\ r.n = n
                     /\ log' = Append(log, r)

LEMMA Logged ==
  ASSUME LedgerTypes, NEW op \in LogOps, NEW o \in Owners \cup {None}, NEW x \in Items \cup {None},
         NEW n \in Int, Log(op, o, x, n)
  PROVE  kind' = kind /\ log' \in Seq(Entries) /\ Appends(op, o, x, n)
<1> DEFINE r == [op |-> op, owner |-> o, item |-> x, n |-> n]
<1>1. r \in Entries /\ r.op = op /\ r.owner = o /\ r.item = x /\ r.n = n
  BY DEF Entries
<1>2. log' = Append(log, r) /\ kind' = kind
  BY DEF Log
<1> HIDE DEF r
<1>3. log' \in Seq(Entries)
  BY <1>1, <1>2 DEF LedgerTypes
<1> QED BY <1>1, <1>2, <1>3 DEF Appends

LEMMA LogGrows ==
  ASSUME log \in Seq(Entries), NEW r \in Entries, log' = Append(log, r)
  PROVE  /\ Len(log) \in Nat /\ DOMAIN log = 1..Len(log)
         /\ Len(log') = Len(log) + 1 /\ DOMAIN log' = 1..(Len(log) + 1)
         /\ log'[Len(log) + 1] = r /\ \A i \in 1..Len(log) : log'[i] = log[i]
         /\ \A i \in 1..Len(log) : log[i] \in Entries
OBVIOUS

\* The entries after one of the log: those that were there, and the new one.
LEMMA Later ==
  ASSUME log \in Seq(Entries), NEW r \in Entries, log' = Append(log, r), NEW i \in 1..Len(log)
  PROVE  /\ (i + 1)..Len(log') = ((i + 1)..Len(log)) \cup {Len(log) + 1}
         /\ \A j \in (i + 1)..Len(log) : j \in 1..Len(log) /\ log'[j] = log[j]
         /\ log'[Len(log) + 1] = r
BY LogGrows

-----------------------------------------------------------------------------
(* What one more entry does to what stands in the log *)

LEMMA StandingAppend ==
  ASSUME log \in Seq(Entries), NEW r \in Entries, log' = Append(log, r), NEW o, NEW x
  PROVE  Standing(o, x)' =
           IF Drops(r, o, x) THEN {}
           ELSE IF r.owner = o /\ r.item = x /\ r.op \notin {"clear", "clear_all"}
                  THEN Standing(o, x) \cup {Len(log) + 1} ELSE Standing(o, x)
<1> DEFINE n == Len(log)
           Adds == r.owner = o /\ r.item = x /\ r.op \notin {"clear", "clear_all"}
<1>1. /\ n \in Nat /\ DOMAIN log = 1..n /\ Len(log') = n + 1 /\ DOMAIN log' = 1..(n + 1)
      /\ log'[n + 1] = r /\ \A i \in 1..n : log'[i] = log[i]
  BY LogGrows
<1>2. ASSUME NEW i \in 1..n
      PROVE  i \in Standing(o, x)' <=> i \in Standing(o, x) /\ ~Drops(r, o, x)
  <2>1. /\ (i + 1)..Len(log') = ((i + 1)..n) \cup {n + 1}
        /\ \A j \in (i + 1)..n : log'[j] = log[j]
    BY Later
  <2>2. i \in Standing(o, x)' <=>
          /\ log[i].owner = o /\ log[i].item = x /\ log[i].op \notin {"clear", "clear_all"}
          /\ \A j \in (i + 1)..Len(log') : ~Drops(log'[j], o, x)
    BY <1>1 DEF Standing
  <2>3. (\A j \in (i + 1)..Len(log') : ~Drops(log'[j], o, x))
          <=> (\A j \in (i + 1)..n : ~Drops(log[j], o, x)) /\ ~Drops(r, o, x)
    BY <1>1, <2>1
  <2> QED BY <1>1, <2>2, <2>3 DEF Standing
<1>3. n + 1 \in Standing(o, x)' <=> Adds
  BY <1>1 DEF Standing
<1>4. Standing(o, x)' \subseteq 1..(n + 1) /\ Standing(o, x) \subseteq 1..n
  BY <1>1 DEF Standing
<1>5. 1..(n + 1) = (1..n) \cup {n + 1} /\ n + 1 \notin 1..n
  BY <1>1
<1>6. Drops(r, o, x) => ~Adds
  BY DEF Drops
<1> DEFINE S == Standing(o, x)
           T == Standing(o, x)'
           m == n + 1
<1>7. /\ \A i \in 1..n : i \in T <=> i \in S /\ ~Drops(r, o, x)
      /\ m \in T <=> Adds
      /\ T \subseteq (1..n) \cup {m} /\ S \subseteq 1..n /\ m \notin 1..n
  BY <1>2, <1>3, <1>4, <1>5
<1> HIDE DEF n, m, S, T, Adds
<1>8. CASE Drops(r, o, x)
  <2>1. T = {}
    BY <1>6, <1>7, <1>8
  <2> QED BY <1>8, <2>1 DEF T
<1>9. CASE ~Drops(r, o, x) /\ Adds
  <2>1. T = S \cup {m}
    BY <1>7, <1>9
  <2> QED BY <1>9, <2>1 DEF S, T, Adds, m, n
<1>10. CASE ~Drops(r, o, x) /\ ~Adds
  <2>1. T = S
    BY <1>7, <1>10
  <2> QED BY <1>10, <2>1 DEF S, T, Adds
<1> QED BY <1>8, <1>9, <1>10

LEMMA StandingFinite ==
  ASSUME log \in Seq(Entries), NEW o, NEW x
  PROVE  /\ IsFiniteSet(Standing(o, x)) /\ Standing(o, x) \subseteq DOMAIN log
         /\ \A i \in DOMAIN log : Amounts[i] \in Int /\ Amounts[i] = log[i].n
<1>1. IsFiniteSet(1..Len(log)) /\ DOMAIN log = 1..Len(log)
  BY FS_Interval
<1>2. \A e \in Entries : e.n \in Int
  BY DEF Entries
<1>3. \A i \in DOMAIN log : log[i] \in Entries
  OBVIOUS
<1> QED BY <1>1, <1>2, <1>3, FS_Subset DEF Standing, Amounts

LEMMA RecordedAppend ==
  ASSUME log \in Seq(Entries), NEW r \in Entries, log' = Append(log, r), NEW o, NEW x
  PROVE  /\ Recorded(o, x) \in Int
         /\ Recorded(o, x)' =
              IF Drops(r, o, x) THEN 0
              ELSE IF r.owner = o /\ r.item = x /\ r.op \notin {"clear", "clear_all"}
                     THEN Recorded(o, x) + r.n ELSE Recorded(o, x)
<1> DEFINE S == Standing(o, x)
           m == Len(log) + 1
<1>1. IsFiniteSet(S) /\ S \subseteq DOMAIN log /\ \A i \in DOMAIN log : Amounts[i] \in Int
  BY StandingFinite
<1>2. SumOver(Amounts, S) \in Int
  BY <1>1, SumTyped
<1>3. /\ m \notin DOMAIN log /\ m \in DOMAIN log' /\ DOMAIN log \subseteq DOMAIN log' /\ log'[m] = r
      /\ \A i \in DOMAIN log : log'[i] = log[i]
  BY LogGrows
<1>4. \A i \in DOMAIN log : Amounts'[i] = Amounts[i]
  BY <1>3 DEF Amounts
<1>5. Amounts'[m] = r.n /\ r.n \in Int
  BY <1>3 DEF Amounts, Entries
<1> HIDE DEF m
<1>6. SumOver(Amounts', S) = SumOver(Amounts, S)
  <2>1. \A i \in S : Amounts[i] \in Int /\ Amounts'[i] = Amounts[i]
    BY <1>1, <1>4
  <2> DEFINE f == Amounts
             g == Amounts'
  <2> HIDE DEF f, g, S
  <2>2. \A i \in S : f[i] \in Int /\ g[i] = f[i]
    BY <2>1 DEF f, g
  <2>3. SumOver(g, S) = SumOver(f, S)
    BY <1>1, <2>2, SumSame
  <2> QED BY <2>3 DEF f, g
<1>7. SumOver(Amounts', S \cup {m}) = r.n + SumOver(Amounts', S)
  <2>1. m \notin S /\ \A i \in S \cup {m} : Amounts'[i] \in Int
    BY <1>1, <1>3, <1>4, <1>5
  <2> DEFINE g == Amounts'
  <2> HIDE DEF g, S
  <2>2. \A i \in S \cup {m} : g[i] \in Int
    BY <2>1 DEF g
  <2>3. SumOver(g, S \cup {m}) = g[m] + SumOver(g, S)
    BY <1>1, <2>1, <2>2, SumAdd
  <2> QED BY <1>5, <2>3 DEF g
<1>8. SumOver(Amounts', {}) = 0
  BY SumEmpty
<1>9. Recorded(o, x) = SumOver(Amounts, S) /\ Recorded(o, x)' = SumOver(Amounts', S')
  BY DEF Recorded
<1>10. S' = IF Drops(r, o, x) THEN {}
            ELSE IF r.owner = o /\ r.item = x /\ r.op \notin {"clear", "clear_all"}
                   THEN S \cup {m} ELSE S
  BY StandingAppend DEF m
<1> HIDE DEF S
<1> QED BY <1>2, <1>5, <1>6, <1>7, <1>8, <1>9, <1>10

LEMMA GrantedAppend ==
  ASSUME log \in Seq(Entries), NEW r \in Entries, log' = Append(log, r), NEW o, NEW x
  PROVE  Granted(o, x)' <=> \/ r.op = "grant" /\ r.owner = o /\ r.item = x
                            \/ Granted(o, x) /\ ~Ends(r, o, x)
<1> DEFINE n == Len(log)
           Since(i) == /\ log[i].op = "grant" /\ log[i].owner = o /\ log[i].item = x
                       /\ \A j \in (i + 1)..n : ~Ends(log[j], o, x)
           SinceNow(i) == /\ log'[i].op = "grant" /\ log'[i].owner = o /\ log'[i].item = x
                          /\ \A j \in (i + 1)..Len(log') : ~Ends(log'[j], o, x)
<1>1. /\ n \in Nat /\ DOMAIN log = 1..n /\ Len(log') = n + 1 /\ DOMAIN log' = 1..(n + 1)
      /\ log'[n + 1] = r /\ \A i \in 1..n : log'[i] = log[i]
  BY LogGrows
<1>2. ASSUME NEW i \in 1..n
      PROVE  SinceNow(i) <=> Since(i) /\ ~Ends(r, o, x)
  <2>1. /\ (i + 1)..Len(log') = ((i + 1)..n) \cup {n + 1}
        /\ \A j \in (i + 1)..n : log'[j] = log[j]
    BY Later
  <2>2. (\A j \in (i + 1)..Len(log') : ~Ends(log'[j], o, x))
          <=> (\A j \in (i + 1)..n : ~Ends(log[j], o, x)) /\ ~Ends(r, o, x)
    BY <1>1, <2>1
  <2> QED BY <1>1, <2>2
<1>3. SinceNow(n + 1) <=> r.op = "grant" /\ r.owner = o /\ r.item = x
  BY <1>1
<1>4. 1..(n + 1) = (1..n) \cup {n + 1}
  BY <1>1
<1>5. Granted(o, x) <=> \E i \in 1..n : Since(i)
  BY <1>1 DEF Granted
<1>6. Granted(o, x)' <=> \E i \in 1..(n + 1) : SinceNow(i)
  BY <1>1 DEF Granted
<1> HIDE DEF Since, SinceNow, n
<1> QED BY <1>2, <1>3, <1>4, <1>5, <1>6

LEMMA PinnedAppend ==
  ASSUME log \in Seq(Entries), NEW r \in Entries, log' = Append(log, r), NEW o, NEW x
  PROVE  Pinned(o, x)' <=>
           IF r.owner = o THEN r.item = x /\ r.op \notin {"clear", "clear_all"} ELSE Pinned(o, x)
<1> DEFINE n == Len(log)
           Last(i) == \A j \in (i + 1)..n : log[j].owner # o
           LastNow(i) == \A j \in (i + 1)..Len(log') : log'[j].owner # o
<1>1. n \in Nat /\ DOMAIN log = 1..n /\ Len(log') = n + 1 /\ log'[n + 1] = r
  BY LogGrows
<1>2. Standing(o, x) \subseteq 1..n
  BY <1>1 DEF Standing
<1>3. ASSUME NEW i \in 1..n
      PROVE  LastNow(i) <=> Last(i) /\ r.owner # o
  <2>1. /\ (i + 1)..Len(log') = ((i + 1)..n) \cup {n + 1}
        /\ \A j \in (i + 1)..n : log'[j] = log[j]
    BY Later
  <2> QED BY <1>1, <2>1
<1>4. LastNow(n + 1)
  BY <1>1
<1>5. Standing(o, x)' = IF Drops(r, o, x) THEN {}
                        ELSE IF r.owner = o /\ r.item = x /\ r.op \notin {"clear", "clear_all"}
                               THEN Standing(o, x) \cup {n + 1} ELSE Standing(o, x)
  BY StandingAppend
<1>6. /\ Pinned(o, x) <=> \E i \in Standing(o, x) : Last(i)
      /\ Pinned(o, x)' <=> \E i \in Standing(o, x)' : LastNow(i)
  BY DEF Pinned
<1> HIDE DEF n, Last, LastNow
<1>7. r.owner # o => ~Drops(r, o, x)
  BY DEF Drops
<1>8. CASE r.owner # o
  BY <1>2, <1>3, <1>5, <1>6, <1>7, <1>8
<1>9. CASE r.owner = o /\ r.item = x /\ r.op \notin {"clear", "clear_all"}
  <2>1. ~Drops(r, o, x)
    BY <1>9 DEF Drops
  <2> QED BY <1>4, <1>5, <1>6, <1>9, <2>1
<1>10. CASE r.owner = o /\ ~(r.item = x /\ r.op \notin {"clear", "clear_all"})
  BY <1>2, <1>3, <1>5, <1>6, <1>10
<1> QED BY <1>8, <1>9, <1>10

-----------------------------------------------------------------------------
(* What an operation does to the log and to the rows *)

\* The operations that take from what is recorded, and those that are on x of o.
Resets(op, o, x, p, y) == p = o /\ (op = "clear_all" \/ (op = "clear" /\ x = y))
Concerns(op, o, x, p, y) == p = o /\ x = y /\ op \notin {"clear", "clear_all"}

LEMMA After ==
  ASSUME LedgerTypes, NEW op \in LogOps, NEW o \in Owners \cup {None}, NEW x \in Items \cup {None},
         NEW n \in Int, Log(op, o, x, n), NEW p, NEW y
  PROVE  /\ Recorded(p, y) \in Int
         /\ Recorded(p, y)' = IF Resets(op, o, x, p, y) THEN 0
                              ELSE IF Concerns(op, o, x, p, y) THEN Recorded(p, y) + n
                              ELSE Recorded(p, y)
         /\ Standing(p, y)' = IF Resets(op, o, x, p, y) THEN {}
                              ELSE IF Concerns(op, o, x, p, y) THEN Standing(p, y) \cup {Len(log) + 1}
                              ELSE Standing(p, y)
         /\ Granted(p, y)' <=> \/ op = "grant" /\ p = o /\ x = y
                               \/ /\ Granted(p, y)
                                  /\ ~(p = o /\ (op = "clear_all" \/ (op = "revoke" /\ x = y)))
         /\ Pinned(p, y)' <=> IF p = o THEN Concerns(op, o, x, p, y) ELSE Pinned(p, y)
<1>1. PICK r \in Entries : /\ r.op = op /\ r.owner = o /\ r.item = x /\ r.n = n
                           /\ log' = Append(log, r)
  <2>1. Appends(op, o, x, n)
    BY Logged
  <2> QED BY <2>1, Zenon DEF Appends
<1>2. log \in Seq(Entries)
  BY DEF LedgerTypes
<1>3. /\ Drops(r, p, y) <=> Resets(op, o, x, p, y)
      /\ r.owner = p /\ r.item = y /\ r.op \notin {"clear", "clear_all"} <=> Concerns(op, o, x, p, y)
      /\ Ends(r, p, y) <=> p = o /\ (op = "clear_all" \/ (op = "revoke" /\ x = y))
  BY <1>1 DEF Drops, Resets, Concerns, Ends
<1>4. /\ Recorded(p, y) \in Int
      /\ Recorded(p, y)' = IF Resets(op, o, x, p, y) THEN 0
                           ELSE IF Concerns(op, o, x, p, y) THEN Recorded(p, y) + n
                           ELSE Recorded(p, y)
  BY <1>1, <1>2, <1>3, RecordedAppend
<1>5. Standing(p, y)' = IF Resets(op, o, x, p, y) THEN {}
                        ELSE IF Concerns(op, o, x, p, y) THEN Standing(p, y) \cup {Len(log) + 1}
                        ELSE Standing(p, y)
  BY <1>1, <1>2, <1>3, StandingAppend
<1>6. Granted(p, y)' <=> \/ op = "grant" /\ p = o /\ x = y
                         \/ /\ Granted(p, y)
                            /\ ~(p = o /\ (op = "clear_all" \/ (op = "revoke" /\ x = y)))
  BY <1>1, <1>2, <1>3, GrantedAppend
<1>7. Pinned(p, y)' <=> IF p = o THEN Concerns(op, o, x, p, y) ELSE Pinned(p, y)
  <2>1. Pinned(p, y)' <=>
          IF r.owner = p THEN r.item = y /\ r.op \notin {"clear", "clear_all"} ELSE Pinned(p, y)
    BY <1>1, <1>2, PinnedAppend
  <2> QED BY <1>1, <2>1 DEF Concerns
<1> QED BY <1>4, <1>5, <1>6, <1>7

Rows == [Owners -> [Items -> Nat]]

LEMMA OneCell ==
  ASSUME counts \in Rows, NEW o \in Owners, NEW x \in Items, NEW v \in Nat,
         counts' = [counts EXCEPT ![o][x] = v]
  PROVE  /\ counts' \in Rows
         /\ \A p \in Owners, y \in Items :
              counts'[p][y] = IF p = o /\ y = x THEN v ELSE counts[p][y]
         /\ \A p \in Owners \ {o} : counts'[p] = counts[p]
BY DEF Rows

LEMMA ChargedCell ==
  ASSUME counts \in Rows, NEW o \in Owners, NEW x \in Items, Charge(o, x, 1)
  PROVE  /\ counts' \in Rows
         /\ \A p \in Owners, y \in Items :
              counts'[p][y] = IF p = o /\ y = x THEN counts[p][y] + 1 ELSE counts[p][y]
<1>1. counts[o][x] \in Nat
  BY DEF Rows
<1> DEFINE v == counts[o][x] + 1
<1>2. v \in Nat /\ counts' = [counts EXCEPT ![o][x] = v]
  BY <1>1 DEF Charge
<1> HIDE DEF v
<1>3. /\ counts' \in Rows
      /\ \A p \in Owners, y \in Items : counts'[p][y] = IF p = o /\ y = x THEN v ELSE counts[p][y]
  BY <1>2, OneCell
<1> QED BY <1>3 DEF v

LEMMA OneRow ==
  ASSUME counts \in Rows, NEW o \in Owners, NEW row \in [Items -> Nat],
         counts' = [counts EXCEPT ![o] = row]
  PROVE  /\ counts' \in Rows /\ counts'[o] = row
         /\ \A p \in Owners \ {o} : counts'[p] = counts[p]
BY DEF Rows

LEMMA ClearedRow ==
  ASSUME counts \in Rows, NEW o \in Owners, NEW xs, Clear(o, xs)
  PROVE  /\ counts' \in Rows
         /\ \A p \in Owners, y \in Items :
              counts'[p][y] = IF p = o /\ y \in xs THEN 0 ELSE counts[p][y]
         /\ \A p \in Owners \ {o} : counts'[p] = counts[p]
         /\ Items \subseteq xs => counts'[o] = Empty
<1> DEFINE row == [x \in Items |-> IF x \in xs THEN 0 ELSE counts[o][x]]
<1>1. row \in [Items -> Nat] /\ counts' = [counts EXCEPT ![o] = row]
  BY DEF Rows, Clear
<1>2. Items \subseteq xs => row = Empty
  BY DEF Empty
<1>3. \A y \in Items : row[y] = IF y \in xs THEN 0 ELSE counts[o][y]
  OBVIOUS
<1> HIDE DEF row
<1>4. counts' \in Rows /\ counts'[o] = row /\ \A p \in Owners \ {o} : counts'[p] = counts[p]
  BY <1>1, OneRow
<1>5. \A p \in Owners, y \in Items :
        counts'[p][y] = IF p = o /\ y \in xs THEN 0 ELSE counts[p][y]
  BY <1>3, <1>4
<1> QED BY <1>2, <1>4, <1>5

-----------------------------------------------------------------------------
(* The operations of each class *)

LEMMA Steps ==
  ASSUME Next
  PROVE  \/ /\ kind.class = "quota"
            /\ \E o \in Owners : \/ \E x \in Items : RecordCall(o, x) \/ ResetCalls(o, x)
                                 \/ ResetAllCalls(o)
         \/ kind.class = "turns" /\ \E o \in Owners : RecordTurn(o) \/ ResetTurns(o)
         \/ /\ kind.class = "tokens"
            /\ \E o \in Owners : (\E used \in [Items -> 0..1] : RecordTokens(o, used)) \/ ResetTokens(o)
         \/ /\ kind.class = "fairness"
            /\ \E o \in Owners : (\E x \in Items : RecordBotTurn(o, x)) \/ ResetFairness(o)
         \/ /\ kind.class = "barrier"
            /\ \E o \in Owners : (\E x \in Items : Arrive(o, x)) \/ ResetBarrier(o)
         \/ /\ kind.class = "deduper"
            /\ \E o \in Owners : (\E x \in Items : Observe(o, x)) \/ ResetResults(o)
         \/ /\ kind.class = "permission"
            /\ \E o \in Owners, x \in Items : GrantTool(o, x) \/ RevokeTool(o, x)
         \/ /\ kind.class = "sticky"
            /\ \E o \in Owners : (\E x \in Items : Bind(o, x)) \/ Unbind(o)
         \/ /\ kind.class = "roles"
            /\ \E o \in Owners : \/ \E x \in Items : ClaimRole(o, x) \/ ReleaseRole(o, x)
                                 \/ ResetRole(o)
         \/ kind.class = "critic" /\ \E o \in Owners, x \in Items : DecideReview(o, x)
         \/ /\ kind.class = "votes"
            /\ (\E o \in Owners, x \in Items : AddVote(o, x)) \/ ClearVotes
         \/ /\ kind.class = "planner"
            /\ MakePlan \/ \E n \in 0..MaxTokens : Reserve(n)
         \/ UNCHANGED ledgerVars
<1>1. ASSUME NEW o \in Owners, NEW x \in Items
      PROVE  /\ RecordCall(o, x) => kind.class = "quota"
             /\ ResetCalls(o, x) => kind.class = "quota"
             /\ RecordBotTurn(o, x) => kind.class = "fairness"
             /\ Arrive(o, x) => kind.class = "barrier"
             /\ Observe(o, x) => kind.class = "deduper"
             /\ GrantTool(o, x) => kind.class = "permission"
             /\ RevokeTool(o, x) => kind.class = "permission"
             /\ Bind(o, x) => kind.class = "sticky"
             /\ ClaimRole(o, x) => kind.class = "roles"
             /\ ReleaseRole(o, x) => kind.class = "roles"
             /\ DecideReview(o, x) => kind.class = "critic"
             /\ AddVote(o, x) => kind.class = "votes"
  BY DEF RecordCall, ResetCalls, RecordBotTurn, Arrive, Observe, GrantTool, RevokeTool, Bind,
         ClaimRole, ReleaseRole, DecideReview, AddVote
<1>2. ASSUME NEW o \in Owners
      PROVE  /\ \A used \in [Items -> 0..1] : RecordTokens(o, used) => kind.class = "tokens"
             /\ RecordTurn(o) => kind.class = "turns"
             /\ Unbind(o) => kind.class = "sticky"
             /\ ResetAllCalls(o) => kind.class = "quota"
             /\ ResetTurns(o) => kind.class = "turns"
             /\ ResetTokens(o) => kind.class = "tokens"
             /\ ResetFairness(o) => kind.class = "fairness"
             /\ ResetBarrier(o) => kind.class = "barrier"
             /\ ResetResults(o) => kind.class = "deduper"
             /\ ResetRole(o) => kind.class = "roles"
  BY DEF RecordTokens, RecordTurn, Unbind, ResetAllCalls, ResetTurns, ResetTokens, ResetFairness,
         ResetBarrier, ResetResults, ResetRole, ClearRow
<1>3. /\ ClearVotes => kind.class = "votes"
      /\ MakePlan => kind.class = "planner"
      /\ \A n \in 0..MaxTokens : Reserve(n) => kind.class = "planner"
      /\ Read => UNCHANGED ledgerVars
  BY DEF ClearVotes, MakePlan, Reserve, Read
<1> HIDE DEF ledgerVars
<1>4. CASE \E o \in Owners, x \in Items :
             \/ RecordCall(o, x) \/ ResetCalls(o, x) \/ RecordBotTurn(o, x)
             \/ Arrive(o, x) \/ Observe(o, x)
             \/ GrantTool(o, x) \/ RevokeTool(o, x) \/ Bind(o, x)
             \/ ClaimRole(o, x) \/ ReleaseRole(o, x) \/ DecideReview(o, x) \/ AddVote(o, x)
  BY <1>1, <1>4
<1>5. CASE \E o \in Owners :
             \/ \E used \in [Items -> 0..1] : RecordTokens(o, used)
             \/ RecordTurn(o) \/ Unbind(o)
             \/ ResetAllCalls(o) \/ ResetTurns(o) \/ ResetTokens(o) \/ ResetFairness(o)
             \/ ResetBarrier(o) \/ ResetResults(o) \/ ResetRole(o)
  BY <1>2, <1>5
<1>6. CASE ClearVotes \/ MakePlan \/ (\E n \in 0..MaxTokens : Reserve(n)) \/ Read
  BY <1>3, <1>6
<1> QED BY <1>4, <1>5, <1>6 DEF Next

\* No operation changes the class or the mode of its object.
LEMMA KindKept ==
  ASSUME Next
  PROVE  kind' = kind
<1>1. ASSUME NEW o \in Owners, NEW x \in Items,
             \/ RecordCall(o, x) \/ ResetCalls(o, x) \/ RecordBotTurn(o, x)
             \/ Arrive(o, x) \/ Observe(o, x) \/ GrantTool(o, x) \/ RevokeTool(o, x) \/ Bind(o, x)
             \/ ClaimRole(o, x) \/ ReleaseRole(o, x) \/ DecideReview(o, x) \/ AddVote(o, x)
      PROVE  kind' = kind
  BY <1>1 DEF RecordCall, ResetCalls, Arrive, Observe, GrantTool, RevokeTool, Bind, ClaimRole,
         ReleaseRole, DecideReview, AddVote, RecordBotTurn, Log
<1>2. ASSUME NEW o \in Owners,
             \/ \E used \in [Items -> 0..1] : RecordTokens(o, used)
             \/ RecordTurn(o) \/ Unbind(o) \/ ResetAllCalls(o) \/ ResetTurns(o) \/ ResetTokens(o)
             \/ ResetFairness(o) \/ ResetBarrier(o) \/ ResetResults(o) \/ ResetRole(o)
      PROVE  kind' = kind
  BY <1>2 DEF RecordTokens, RecordTurn, Unbind, ResetAllCalls, ResetTurns, ResetTokens,
         ResetBarrier, ResetResults, ResetRole, ResetFairness, ClearRow, Log
<1>3. ClearVotes \/ MakePlan \/ (\E n \in 0..MaxTokens : Reserve(n)) \/ Read => kind' = kind
  BY DEF ClearVotes, MakePlan, Reserve, Read, ledgerVars, Log
<1> QED BY <1>1, <1>2, <1>3 DEF Next

\* One unit is charged to x of o, one item of o is cleared, and all of them.
LEMMA CellCharged ==
  ASSUME LedgerTypes, NEW o \in Owners, NEW x \in Items, NEW op \in {"add", "accept", "duplicate"},
         Charge(o, x, 1), Log(op, o, x, 1)
  PROVE  /\ LedgerTypes'
         /\ \A p \in Owners, y \in Items :
              /\ counts'[p][y] = IF p = o /\ y = x THEN counts[p][y] + 1 ELSE counts[p][y]
              /\ Recorded(p, y)' = IF p = o /\ y = x THEN Recorded(p, y) + 1 ELSE Recorded(p, y)
              /\ Standing(p, y)' = IF p = o /\ y = x THEN Standing(p, y) \cup {Len(log) + 1}
                                   ELSE Standing(p, y)
<1>1. counts \in Rows /\ op \in LogOps /\ 1 \in Int /\ o \in Owners \cup {None} /\ x \in Items \cup {None}
  BY DEF LedgerTypes, Rows, LogOps
<1>2. kind' = kind /\ log' \in Seq(Entries)
  BY <1>1, Logged
<1>3. plan' = plan
  BY DEF Charge
<1>4. /\ counts' \in Rows
      /\ \A p \in Owners, y \in Items :
           counts'[p][y] = IF p = o /\ y = x THEN counts[p][y] + 1 ELSE counts[p][y]
  BY <1>1, ChargedCell
<1>5. ASSUME NEW p \in Owners, NEW y \in Items
      PROVE  /\ Recorded(p, y)' = IF p = o /\ y = x THEN Recorded(p, y) + 1 ELSE Recorded(p, y)
             /\ Standing(p, y)' = IF p = o /\ y = x THEN Standing(p, y) \cup {Len(log) + 1}
                                  ELSE Standing(p, y)
  <2>1. ~Resets(op, o, x, p, y) /\ (Concerns(op, o, x, p, y) <=> p = o /\ y = x)
    BY DEF Resets, Concerns
  <2> QED BY <1>1, <2>1, After
<1>6. LedgerTypes'
  BY <1>2, <1>3, <1>4 DEF LedgerTypes, Rows
<1> QED BY <1>4, <1>5, <1>6

LEMMA ItemCleared ==
  ASSUME LedgerTypes, NEW o \in Owners, NEW x \in Items, Clear(o, {x}), Log("clear", o, x, 0)
  PROVE  /\ LedgerTypes'
         /\ \A p \in Owners, y \in Items :
              /\ counts'[p][y] = IF p = o /\ y = x THEN 0 ELSE counts[p][y]
              /\ Recorded(p, y)' = IF p = o /\ y = x THEN 0 ELSE Recorded(p, y)
<1>1. /\ counts \in Rows /\ "clear" \in LogOps /\ 0 \in Int
      /\ o \in Owners \cup {None} /\ x \in Items \cup {None}
  BY DEF LedgerTypes, Rows, LogOps
<1>2. kind' = kind /\ log' \in Seq(Entries)
  BY <1>1, Logged
<1>3. plan' = plan
  BY DEF Clear
<1>4. /\ counts' \in Rows
      /\ \A p \in Owners, y \in Items : counts'[p][y] = IF p = o /\ y \in {x} THEN 0 ELSE counts[p][y]
  BY <1>1, ClearedRow
<1>5. ASSUME NEW p \in Owners, NEW y \in Items
      PROVE  Recorded(p, y)' = IF p = o /\ y = x THEN 0 ELSE Recorded(p, y)
  <2>1. ~Concerns("clear", o, x, p, y) /\ (Resets("clear", o, x, p, y) <=> p = o /\ y = x)
    BY DEF Resets, Concerns
  <2> QED BY <1>1, <2>1, After
<1>6. LedgerTypes'
  BY <1>2, <1>3, <1>4 DEF LedgerTypes, Rows
<1> QED BY <1>4, <1>5, <1>6

LEMMA RowCleared ==
  ASSUME LedgerTypes, NEW o \in Owners, NEW class, ClearRow(o, class)
  PROVE  /\ LedgerTypes' /\ plan' = plan /\ counts'[o] = Empty
         /\ \A p \in Owners \ {o} : counts'[p] = counts[p]
         /\ \A p \in Owners, y \in Items \cup {None} :
              /\ Recorded(p, y)' = IF p = o THEN 0 ELSE Recorded(p, y)
              /\ Standing(p, y)' = IF p = o THEN {} ELSE Standing(p, y)
              /\ Granted(p, y)' <=> Granted(p, y) /\ p # o
              /\ Pinned(p, y)' <=> Pinned(p, y) /\ p # o
<1>1. /\ counts \in Rows /\ "clear_all" \in LogOps /\ 0 \in Int
      /\ o \in Owners \cup {None} /\ None \in Items \cup {None}
  BY DEF LedgerTypes, Rows, LogOps
<1>2. Clear(o, Items) /\ Log("clear_all", o, None, 0)
  BY DEF ClearRow
<1>3. kind' = kind /\ log' \in Seq(Entries)
  BY <1>1, <1>2, Logged
<1>4. plan' = plan
  BY <1>2 DEF Clear
<1>5. counts' \in Rows /\ counts'[o] = Empty /\ \A p \in Owners \ {o} : counts'[p] = counts[p]
  BY <1>1, <1>2, ClearedRow
<1>6. ASSUME NEW p \in Owners, NEW y \in Items \cup {None}
      PROVE  /\ Recorded(p, y)' = IF p = o THEN 0 ELSE Recorded(p, y)
             /\ Standing(p, y)' = IF p = o THEN {} ELSE Standing(p, y)
             /\ Granted(p, y)' <=> Granted(p, y) /\ p # o
             /\ Pinned(p, y)' <=> Pinned(p, y) /\ p # o
  <2>1. ~Concerns("clear_all", o, None, p, y) /\ (Resets("clear_all", o, None, p, y) <=> p = o)
    BY DEF Resets, Concerns
  <2>2. /\ Recorded(p, y)' = IF p = o THEN 0 ELSE Recorded(p, y)
        /\ Standing(p, y)' = IF p = o THEN {} ELSE Standing(p, y)
    BY <1>1, <1>2, <2>1, After
  <2>3. Granted(p, y)' <=> Granted(p, y) /\ p # o
    <3>1. Granted(p, y)' <=> \/ "clear_all" = "grant" /\ p = o /\ None = y
                             \/ /\ Granted(p, y)
                                /\ ~(p = o /\ ("clear_all" = "clear_all" \/ ("clear_all" = "revoke" /\ None = y)))
      BY <1>1, <1>2, After
    <3> QED BY <3>1
  <2>4. Pinned(p, y)' <=> Pinned(p, y) /\ p # o
    BY <1>1, <1>2, <2>1, After
  <2> QED BY <2>2, <2>3, <2>4
<1>7. LedgerTypes'
  BY <1>3, <1>4, <1>5 DEF LedgerTypes, Rows
<1> QED BY <1>4, <1>5, <1>6, <1>7

\* The value of x of o is set, and an entry without an amount is logged.
LEMMA CellSet ==
  ASSUME LedgerTypes, NEW o \in Owners, NEW x \in Items, NEW v \in {0, 1}, NEW op \in LogOps,
         NEW n \in Int, counts' = [counts EXCEPT ![o][x] = v], UNCHANGED plan, Log(op, o, x, n)
  PROVE  /\ LedgerTypes'
         /\ \A p \in Owners, y \in Items :
              counts'[p][y] = IF p = o /\ y = x THEN v ELSE counts[p][y]
         /\ \A p \in Owners \ {o} : counts'[p] = counts[p]
<1>1. counts \in Rows /\ v \in Nat /\ o \in Owners \cup {None} /\ x \in Items \cup {None}
  BY DEF LedgerTypes, Rows
<1>2. kind' = kind /\ log' \in Seq(Entries)
  BY <1>1, Logged
<1>3. /\ counts' \in Rows
      /\ \A p \in Owners, y \in Items : counts'[p][y] = IF p = o /\ y = x THEN v ELSE counts[p][y]
      /\ \A p \in Owners \ {o} : counts'[p] = counts[p]
  BY <1>1, OneCell
<1>4. LedgerTypes'
  BY <1>2, <1>3 DEF LedgerTypes, Rows
<1> QED BY <1>3, <1>4

LEMMA RowSet ==
  ASSUME LedgerTypes, NEW o \in Owners, NEW x \in Items,
         counts' = [counts EXCEPT ![o] = [Empty EXCEPT ![x] = 1]], UNCHANGED plan, Log("bind", o, x, 0)
  PROVE  /\ LedgerTypes' /\ counts'[o] = [Empty EXCEPT ![x] = 1]
         /\ \A p \in Owners \ {o} : counts'[p] = counts[p]
         /\ \A p \in Owners, y \in Items : Pinned(p, y)' <=> IF p = o THEN y = x ELSE Pinned(p, y)
<1>1. /\ counts \in Rows /\ "bind" \in LogOps /\ 0 \in Int
      /\ o \in Owners \cup {None} /\ x \in Items \cup {None}
  BY DEF LedgerTypes, Rows, LogOps
<1>2. kind' = kind /\ log' \in Seq(Entries)
  BY <1>1, Logged
<1> DEFINE row == [Empty EXCEPT ![x] = 1]
<1>3. row \in [Items -> Nat]
  BY DEF Empty
<1>4. counts' = [counts EXCEPT ![o] = row]
  OBVIOUS
<1> HIDE DEF row
<1>5. counts' \in Rows /\ counts'[o] = row /\ \A p \in Owners \ {o} : counts'[p] = counts[p]
  BY <1>1, <1>3, <1>4, OneRow
<1>6. ASSUME NEW p \in Owners, NEW y \in Items
      PROVE  Pinned(p, y)' <=> IF p = o THEN y = x ELSE Pinned(p, y)
  <2>1. p = o => (Concerns("bind", o, x, p, y) <=> y = x)
    BY DEF Concerns
  <2> QED BY <1>1, <2>1, After
<1>7. LedgerTypes'
  BY <1>2, <1>5 DEF LedgerTypes, Rows
<1> QED BY <1>5, <1>6, <1>7 DEF row

-----------------------------------------------------------------------------
(* Ledgers that count: quotas, turns, fairness, duplicate results *)

Counting == {"quota", "turns", "fairness", "deduper"}
Caps == kind.class \in {"quota", "turns"} /\ kind.hard

\* A row is what stands in the log; a hard cap is never passed.
Counted == kind.class \in Counting => \A o \in Owners, x \in Items : counts[o][x] = Recorded(o, x)
Capped == Caps => \A o \in Owners, x \in Items : counts[o][x] <= MaxCount

LEMMA CountingSteps ==
  ASSUME LedgerConstantsOK, Next, kind.class \in Counting
  PROVE  \/ \E o \in Owners, x \in Items, op \in {"add", "accept", "duplicate"} :
              /\ Charge(o, x, 1) /\ Log(op, o, x, 1)
              /\ Caps => ~Exhausted(counts[o][x])
              /\ kind.class = "deduper" => op = IF counts[o][x] = 0 THEN "accept" ELSE "duplicate"
         \/ kind.class = "quota" /\ \E o \in Owners, x \in Items : Clear(o, {x}) /\ Log("clear", o, x, 0)
         \/ \E o \in Owners : ClearRow(o, kind.class)
         \/ UNCHANGED ledgerVars
<1>1. ASSUME NEW o \in Owners, NEW x \in Items, kind.class = "quota", RecordCall(o, x)
      PROVE  Charge(o, x, 1) /\ Log("add", o, x, 1) /\ (Caps => ~Exhausted(counts[o][x]))
  BY <1>1 DEF RecordCall, Caps
<1>2. ASSUME NEW o \in Owners, NEW x \in Items, ResetCalls(o, x)
      PROVE  Clear(o, {x}) /\ Log("clear", o, x, 0)
  BY <1>2 DEF ResetCalls
<1>3. ASSUME NEW o \in Owners, kind.class = "turns", RecordTurn(o)
      PROVE  /\ Turn \in Items /\ Charge(o, Turn, 1) /\ Log("add", o, Turn, 1)
             /\ Caps => ~Exhausted(counts[o][Turn])
  BY <1>3 DEF RecordTurn, Caps, LedgerConstantsOK
<1>4. ASSUME NEW o \in Owners, NEW x \in Items, RecordBotTurn(o, x)
      PROVE  Charge(o, x, 1) /\ Log("add", o, x, 1)
  BY <1>4 DEF RecordBotTurn
<1>5. ASSUME NEW o \in Owners, NEW x \in Items, Observe(o, x)
      PROVE  Charge(o, x, 1) /\ Log(IF counts[o][x] = 0 THEN "accept" ELSE "duplicate", o, x, 1)
  BY <1>5 DEF Observe
<1>6. ASSUME NEW o \in Owners,
             ResetAllCalls(o) \/ ResetTurns(o) \/ ResetFairness(o) \/ ResetResults(o)
      PROVE  ClearRow(o, kind.class)
  BY <1>6 DEF ResetAllCalls, ResetTurns, ResetFairness, ResetResults, ClearRow
<1>7. CASE kind.class = "quota"
  <2>1. \/ \E o \in Owners : \/ \E x \in Items : RecordCall(o, x) \/ ResetCalls(o, x)
                             \/ ResetAllCalls(o)
        \/ UNCHANGED ledgerVars
    BY <1>7, Steps DEF Counting
  <2> QED BY <1>1, <1>2, <1>6, <1>7, <2>1
<1>8. CASE kind.class = "turns"
  <2>1. (\E o \in Owners : RecordTurn(o) \/ ResetTurns(o)) \/ UNCHANGED ledgerVars
    BY <1>8, Steps DEF Counting
  <2> QED BY <1>3, <1>6, <1>8, <2>1
<1>9. CASE kind.class = "fairness"
  <2>1. \/ \E o \in Owners : (\E x \in Items : RecordBotTurn(o, x)) \/ ResetFairness(o)
        \/ UNCHANGED ledgerVars
    BY <1>9, Steps DEF Counting
  <2>2. ~Caps
    BY <1>9 DEF Caps
  <2> QED BY <1>4, <1>6, <1>9, <2>1, <2>2
<1>10. CASE kind.class = "deduper"
  <2>1. \/ \E o \in Owners : (\E x \in Items : Observe(o, x)) \/ ResetResults(o)
        \/ UNCHANGED ledgerVars
    BY <1>10, Steps DEF Counting
  <2>2. ~Caps
    BY <1>10 DEF Caps
  <2>3. ASSUME NEW o \in Owners, NEW x \in Items, Observe(o, x)
        PROVE  \E op \in {"add", "accept", "duplicate"} :
                 /\ Charge(o, x, 1) /\ Log(op, o, x, 1)
                 /\ op = IF counts[o][x] = 0 THEN "accept" ELSE "duplicate"
    <3> DEFINE e == IF counts[o][x] = 0 THEN "accept" ELSE "duplicate"
    <3>1. e \in {"add", "accept", "duplicate"} /\ Charge(o, x, 1) /\ Log(e, o, x, 1)
      BY <1>5, <2>3
    <3> QED BY <3>1
  <2> QED BY <1>6, <1>10, <2>1, <2>2, <2>3
<1> QED BY <1>7, <1>8, <1>9, <1>10 DEF Counting

LEMMA CountingKeeps ==
  ASSUME LedgerConstantsOK, LedgerTypes, Counted, Capped, Next, kind.class \in Counting
  PROVE  LedgerTypes' /\ Counted' /\ Capped'
<1>1. kind' = kind /\ MaxCount \in Nat
  BY KindKept DEF LedgerConstantsOK
<1>2. \A o \in Owners, x \in Items : counts[o][x] = Recorded(o, x) /\ counts[o][x] \in Nat
  BY DEF Counted, LedgerTypes
<1>3. ASSUME NEW o \in Owners, NEW x \in Items, NEW op \in {"add", "accept", "duplicate"},
             Charge(o, x, 1), Log(op, o, x, 1), Caps => ~Exhausted(counts[o][x])
      PROVE  LedgerTypes' /\ Counted' /\ Capped'
  <2>1. /\ LedgerTypes'
        /\ \A p \in Owners, y \in Items :
             /\ counts'[p][y] = IF p = o /\ y = x THEN counts[p][y] + 1 ELSE counts[p][y]
             /\ Recorded(p, y)' = IF p = o /\ y = x THEN Recorded(p, y) + 1 ELSE Recorded(p, y)
    BY <1>3, CellCharged
  <2>2. Counted'
    BY <1>2, <2>1 DEF Counted
  <2>3. Caps => counts[o][x] + 1 <= MaxCount
    BY <1>1, <1>2, <1>3 DEF Exhausted
  <2>4. Capped'
    BY <1>1, <1>2, <2>1, <2>3 DEF Capped, Caps
  <2> QED BY <2>1, <2>2, <2>4
<1>4. ASSUME NEW o \in Owners, NEW x \in Items, Clear(o, {x}), Log("clear", o, x, 0)
      PROVE  LedgerTypes' /\ Counted' /\ Capped'
  <2>1. /\ LedgerTypes'
        /\ \A p \in Owners, y \in Items :
             /\ counts'[p][y] = IF p = o /\ y = x THEN 0 ELSE counts[p][y]
             /\ Recorded(p, y)' = IF p = o /\ y = x THEN 0 ELSE Recorded(p, y)
    BY <1>4, ItemCleared
  <2> QED BY <1>1, <1>2, <2>1 DEF Counted, Capped, Caps
<1>5. ASSUME NEW o \in Owners, ClearRow(o, kind.class)
      PROVE  LedgerTypes' /\ Counted' /\ Capped'
  <2>1. /\ LedgerTypes' /\ counts'[o] = Empty
        /\ \A p \in Owners \ {o} : counts'[p] = counts[p]
        /\ \A p \in Owners, y \in Items \cup {None} :
             Recorded(p, y)' = IF p = o THEN 0 ELSE Recorded(p, y)
    BY <1>5, RowCleared
  <2>2. \A p \in Owners, y \in Items :
          /\ counts'[p][y] = IF p = o THEN 0 ELSE counts[p][y]
          /\ Recorded(p, y)' = IF p = o THEN 0 ELSE Recorded(p, y)
    BY <2>1 DEF Empty
  <2> QED BY <1>1, <1>2, <2>1, <2>2 DEF Counted, Capped, Caps
<1>6. ASSUME UNCHANGED ledgerVars
      PROVE  LedgerTypes' /\ Counted' /\ Capped'
  <2>1. \A o, x : Recorded(o, x)' = Recorded(o, x)
    BY <1>6 DEF Recorded, Amounts, Standing, ledgerVars
  <2> QED BY <1>6, <2>1 DEF LedgerTypes, Counted, Capped, Caps, ledgerVars
<1> QED BY <1>3, <1>4, <1>5, <1>6, CountingSteps

-----------------------------------------------------------------------------
(* Session tokens *)

\* What a session used, by kind, adds up to what was recorded of it.
Summed == kind.class = "tokens" => \A o \in Owners : Total(counts[o]) = Recorded(o, None)

LEMMA TotalEmpty ==
  ASSUME LedgerConstantsOK
  PROVE  Total(Empty) = 0
<1> DEFINE A == {T \in SUBSET Items : SumOver(Empty, T) = 0}
<1>1. {} \in A
  BY SumEmpty
<1>2. ASSUME NEW T \in SUBSET Items, NEW x \in Items \ T, T \in A
      PROVE  T \cup {x} \in A
  <2>1. IsFiniteSet(T) /\ \A y \in T \cup {x} : Empty[y] \in Int /\ Empty[y] = 0
    BY FS_Subset DEF LedgerConstantsOK, Empty
  <2>2. SumOver(Empty, T \cup {x}) = Empty[x] + SumOver(Empty, T)
    BY <2>1, SumAdd
  <2> QED BY <1>2, <2>1, <2>2
<1>3. SUBSET Items \subseteq A
  <2>1. IsFiniteSet(Items)
    BY DEF LedgerConstantsOK
  <2> HIDE DEF A
  <2> QED BY <1>1, <1>2, <2>1, SubsetsByAddition
<1> QED BY <1>3 DEF Total

LEMMA TotalAdds ==
  ASSUME LedgerConstantsOK, NEW row \in [Items -> Nat], NEW used \in [Items -> 0..1],
         NEW sum, sum = [x \in Items |-> row[x] + used[x]]
  PROVE  Total(used) \in Int /\ Total(sum) = Total(row) + Total(used)
<1>1. IsFiniteSet(Items)
  BY DEF LedgerConstantsOK
<1>2. \A x \in Items : row[x] \in Int /\ used[x] \in Int /\ sum[x] = row[x] + used[x]
  OBVIOUS
<1>3. SumOver(sum, Items) = SumOver(row, Items) + SumOver(used, Items)
  BY <1>1, <1>2, SumOfSums
<1>4. SumOver(used, Items) \in Int
  BY <1>1, <1>2, SumTyped
<1> QED BY <1>3, <1>4 DEF Total

LEMMA RecordTokensKeeps ==
  ASSUME LedgerConstantsOK, LedgerTypes, Summed, kind.class = "tokens",
         NEW o \in Owners, NEW used \in [Items -> 0..1], RecordTokens(o, used)
  PROVE  LedgerTypes' /\ Summed'
<1> DEFINE sum == [x \in Items |-> counts[o][x] + used[x]]
<1>1. /\ counts \in Rows /\ counts[o] \in [Items -> Nat] /\ used \in [Items -> 0..1]
      /\ "add" \in LogOps /\ o \in Owners \cup {None} /\ None \in Items \cup {None}
  BY DEF LedgerTypes, Rows, LogOps
<1>2. sum \in [Items -> Nat]
  BY <1>1
<1>3. counts' = [counts EXCEPT ![o] = sum] /\ plan' = plan /\ Log("add", o, None, Total(used))
  BY DEF RecordTokens
<1>4. Total(used) \in Int /\ Total(sum) = Total(counts[o]) + Total(used)
  BY <1>1, TotalAdds
<1> HIDE DEF sum
<1>5. kind' = kind /\ log' \in Seq(Entries)
  BY <1>1, <1>3, <1>4, Logged
<1>6. counts' \in Rows /\ counts'[o] = sum /\ \A p \in Owners \ {o} : counts'[p] = counts[p]
  BY <1>1, <1>2, <1>3, OneRow
<1>7. ASSUME NEW p \in Owners
      PROVE  Recorded(p, None)' = IF p = o THEN Recorded(p, None) + Total(used) ELSE Recorded(p, None)
  <2>1. ~Resets("add", o, None, p, None) /\ (Concerns("add", o, None, p, None) <=> p = o)
    BY DEF Resets, Concerns
  <2> DEFINE m == Total(used)
  <2>2. m \in Int /\ Log("add", o, None, m)
    BY <1>3, <1>4
  <2> HIDE DEF m
  <2>3. Recorded(p, None)' = IF Resets("add", o, None, p, None) THEN 0
                             ELSE IF Concerns("add", o, None, p, None) THEN Recorded(p, None) + m
                             ELSE Recorded(p, None)
    BY <1>1, <2>2, After
  <2> QED BY <2>1, <2>3 DEF m
<1>8. LedgerTypes'
  BY <1>3, <1>5, <1>6 DEF LedgerTypes, Rows
<1>9. ASSUME NEW p \in Owners
      PROVE  Total(counts'[p]) = Recorded(p, None)'
  <2>1. Total(counts[p]) = Recorded(p, None)
    BY DEF Summed
  <2> QED BY <1>4, <1>6, <1>7, <2>1
<1>10. Summed'
  <2>1. \A p \in Owners : Total(counts[p])' = Total(counts'[p])
    BY DEF Total
  <2> QED BY <1>9, <2>1 DEF Summed
<1> QED BY <1>8, <1>10

LEMMA TokensKeep ==
  ASSUME LedgerConstantsOK, LedgerTypes, Summed, kind.class = "tokens", Next
  PROVE  LedgerTypes' /\ Summed'
<1>1. \/ \E o \in Owners : (\E used \in [Items -> 0..1] : RecordTokens(o, used)) \/ ResetTokens(o)
      \/ UNCHANGED ledgerVars
  BY Steps
<1>2. ASSUME NEW o \in Owners, ResetTokens(o)
      PROVE  LedgerTypes' /\ Summed'
  <2>1. ClearRow(o, "tokens")
    BY <1>2 DEF ResetTokens
  <2>2. /\ LedgerTypes' /\ counts'[o] = Empty
        /\ \A p \in Owners \ {o} : counts'[p] = counts[p]
        /\ \A p \in Owners : Recorded(p, None)' = IF p = o THEN 0 ELSE Recorded(p, None)
    BY <2>1, RowCleared
  <2>3. \A p \in Owners : Total(counts[p])' = Total(counts'[p])
    BY DEF Total
  <2> QED BY <2>2, <2>3, TotalEmpty DEF Summed
<1>3. ASSUME UNCHANGED ledgerVars
      PROVE  LedgerTypes' /\ Summed'
  <2>1. \A o \in Owners : Recorded(o, None)' = Recorded(o, None) /\ Total(counts[o])' = Total(counts[o])
    BY <1>3 DEF Recorded, Amounts, Standing, Total, ledgerVars
  <2> QED BY <1>3, <2>1 DEF LedgerTypes, Summed, ledgerVars
<1> QED BY <1>1, <1>2, <1>3, RecordTokensKeeps

-----------------------------------------------------------------------------
(* Fan-in barrier, duplicate results *)

Accepted(o, x) == {i \in Standing(o, x) : log[i].op = "accept"}

\* Who arrived stands in the log, and so does what was seen; the first
\* observation of a result is the one accepted.
Present ==
  kind.class \in {"barrier", "deduper"} =>
    \A o \in Owners, x \in Items : counts[o][x] > 0 <=> Standing(o, x) # {}
AcceptedOnce ==
  kind.class = "deduper" =>
    \A o \in Owners, x \in Items : Cardinality(Accepted(o, x)) = IF Standing(o, x) = {} THEN 0 ELSE 1

LEMMA BarrierKeeps ==
  ASSUME LedgerTypes, Present, kind.class = "barrier", Next
  PROVE  LedgerTypes' /\ Present'
<1>1. \/ \E o \in Owners : (\E x \in Items : Arrive(o, x)) \/ ResetBarrier(o)
      \/ UNCHANGED ledgerVars
  BY Steps
<1>2. ASSUME NEW o \in Owners, NEW x \in Items, Arrive(o, x)
      PROVE  LedgerTypes' /\ Present'
  <2>1. /\ counts' = [counts EXCEPT ![o][x] = 1] /\ UNCHANGED plan /\ Log("add", o, x, 1)
        /\ "add" \in LogOps /\ 1 \in Int /\ 1 \in {0, 1}
        /\ o \in Owners \cup {None} /\ x \in Items \cup {None}
    BY <1>2 DEF Arrive, LogOps
  <2>2. /\ LedgerTypes'
        /\ \A p \in Owners, y \in Items : counts'[p][y] = IF p = o /\ y = x THEN 1 ELSE counts[p][y]
    BY <2>1, CellSet
  <2>3. ASSUME NEW p \in Owners, NEW y \in Items
        PROVE  Standing(p, y)' = IF p = o /\ y = x THEN Standing(p, y) \cup {Len(log) + 1}
                                 ELSE Standing(p, y)
    <3>1. ~Resets("add", o, x, p, y) /\ (Concerns("add", o, x, p, y) <=> p = o /\ y = x)
      BY DEF Resets, Concerns
    <3> QED BY <2>1, <3>1, After
  <2> QED BY <2>2, <2>3 DEF Present
<1>3. ASSUME NEW o \in Owners, ResetBarrier(o)
      PROVE  LedgerTypes' /\ Present'
  <2>1. ClearRow(o, "barrier")
    BY <1>3 DEF ResetBarrier
  <2>2. /\ LedgerTypes' /\ counts'[o] = Empty
        /\ \A p \in Owners \ {o} : counts'[p] = counts[p]
        /\ \A p \in Owners, y \in Items \cup {None} :
             Standing(p, y)' = IF p = o THEN {} ELSE Standing(p, y)
    BY <2>1, RowCleared
  <2> QED BY <2>2 DEF Present, Empty
<1>4. ASSUME UNCHANGED ledgerVars
      PROVE  LedgerTypes' /\ Present'
  <2>1. \A o, x : Standing(o, x)' = Standing(o, x)
    BY <1>4 DEF Standing, ledgerVars
  <2> QED BY <1>4, <2>1 DEF LedgerTypes, Present, ledgerVars
<1> QED BY <1>1, <1>2, <1>3, <1>4

LEMMA DeduperKeeps ==
  ASSUME LedgerConstantsOK, LedgerTypes, Present, AcceptedOnce, kind.class = "deduper", Next
  PROVE  Present' /\ AcceptedOnce'
<1>1. \/ \E o \in Owners : (\E x \in Items : Observe(o, x)) \/ ResetResults(o)
      \/ UNCHANGED ledgerVars
  BY Steps
<1>2. log \in Seq(Entries) /\ counts \in Rows
  BY DEF LedgerTypes, Rows
<1>3. ASSUME NEW o \in Owners, NEW x \in Items, Observe(o, x)
      PROVE  Present' /\ AcceptedOnce'
  <2> DEFINE op == IF counts[o][x] = 0 THEN "accept" ELSE "duplicate"
             n == Len(log)
  <2>1. /\ op \in {"add", "accept", "duplicate"} /\ op \in LogOps /\ 1 \in Int
        /\ op = "accept" <=> counts[o][x] = 0
        /\ Charge(o, x, 1) /\ Log(op, o, x, 1)
        /\ o \in Owners \cup {None} /\ x \in Items \cup {None}
    BY <1>3 DEF Observe, LogOps
  <2> HIDE DEF op
  <2>2. \A p \in Owners, y \in Items :
          /\ counts'[p][y] = IF p = o /\ y = x THEN counts[p][y] + 1 ELSE counts[p][y]
          /\ Standing(p, y)' = IF p = o /\ y = x THEN Standing(p, y) \cup {n + 1} ELSE Standing(p, y)
    BY <2>1, CellCharged
  <2>3. counts[o][x] \in Nat
    BY <1>2 DEF Rows
  <2>4. Present'
    BY <2>2, <2>3 DEF Present
  <2>5. PICK r \in Entries : r.op = op /\ log' = Append(log, r)
    <3>1. \E z, k : Appends(op, o, z, k)
      BY <2>1, Logged
    <3> QED BY <3>1, Zenon DEF Appends
  <2>6. /\ log'[n + 1].op = op /\ \A i \in 1..n : log'[i] = log[i]
        /\ \A p, y : Standing(p, y) \subseteq 1..n
        /\ n + 1 \notin 1..n
    BY <1>2, <2>5, LogGrows DEF Standing
  <2>7. ASSUME NEW p \in Owners, NEW y \in Items
        PROVE  Accepted(p, y)' = IF p = o /\ y = x /\ op = "accept" THEN Accepted(p, y) \cup {n + 1}
                                 ELSE Accepted(p, y)
    <3>1. Accepted(p, y)' = {i \in Standing(p, y)' : log'[i].op = "accept"}
      BY DEF Accepted
    <3>2. CASE p = o /\ y = x
      <4>1. Standing(p, y)' = Standing(p, y) \cup {n + 1}
        BY <2>2, <3>2
      <4>2. \A i \in Standing(p, y) : log'[i].op = "accept" <=> log[i].op = "accept"
        BY <2>6
      <4>3. log'[n + 1].op = "accept" <=> op = "accept"
        BY <2>6
      <4>4. op = "accept" => {i \in Standing(p, y)' : log'[i].op = "accept"}
                               = {i \in Standing(p, y) : log[i].op = "accept"} \cup {n + 1}
        BY <4>1, <4>2, <4>3
      <4>5. op # "accept" => {i \in Standing(p, y)' : log'[i].op = "accept"}
                               = {i \in Standing(p, y) : log[i].op = "accept"}
        BY <4>1, <4>2, <4>3
      <4> QED BY <3>1, <3>2, <4>4, <4>5 DEF Accepted
    <3>3. CASE ~(p = o /\ y = x)
      <4>1. Standing(p, y)' = Standing(p, y)
        BY <2>2, <3>3
      <4> QED BY <2>6, <3>1, <3>3, <4>1 DEF Accepted
    <3> QED BY <3>2, <3>3
  <2>8. ASSUME NEW p \in Owners, NEW y \in Items
        PROVE  Cardinality(Accepted(p, y)') = IF Standing(p, y)' = {} THEN 0 ELSE 1
    <3>1. Cardinality(Accepted(p, y)) = IF Standing(p, y) = {} THEN 0 ELSE 1
      BY DEF AcceptedOnce
    <3>2. CASE ~(p = o /\ y = x)
      BY <2>2, <2>7, <3>1, <3>2
    <3>3. CASE p = o /\ y = x /\ op = "accept"
      <4>1. Standing(p, y) = {} /\ Accepted(p, y) = {}
        BY <2>1, <2>3, <3>3 DEF Present, Accepted
      <4>2. Accepted(p, y)' = {n + 1} /\ Standing(p, y)' # {}
        BY <2>2, <2>7, <3>3, <4>1
      <4> QED BY <4>2, FS_Singleton
    <3>4. CASE p = o /\ y = x /\ op # "accept"
      <4>1. Standing(p, y) # {}
        BY <2>1, <2>3, <3>4 DEF Present
      <4> QED BY <2>2, <2>7, <3>1, <3>4, <4>1
    <3> QED BY <3>2, <3>3, <3>4
  <2> QED BY <2>4, <2>8 DEF AcceptedOnce
<1>4. ASSUME NEW o \in Owners, ResetResults(o)
      PROVE  Present' /\ AcceptedOnce'
  <2>1. ClearRow(o, "deduper")
    BY <1>4 DEF ResetResults
  <2>2. /\ counts'[o] = Empty
        /\ \A p \in Owners \ {o} : counts'[p] = counts[p]
        /\ \A p \in Owners, y \in Items \cup {None} :
             Standing(p, y)' = IF p = o THEN {} ELSE Standing(p, y)
    BY <2>1, RowCleared
  <2>3. PICK r \in Entries : log' = Append(log, r)
    <3>1. "clear_all" \in LogOps /\ Log("clear_all", o, None, 0) /\ 0 \in Int
      BY <2>1 DEF ClearRow, LogOps
    <3> QED BY <3>1, Logged DEF Appends
  <2>4. /\ \A i \in 1..Len(log) : log'[i] = log[i]
        /\ \A p, y : Standing(p, y) \subseteq 1..Len(log)
    BY <1>2, <2>3, LogGrows DEF Standing
  <2>5. ASSUME NEW p \in Owners, NEW y \in Items
        PROVE  Cardinality(Accepted(p, y)') = IF Standing(p, y)' = {} THEN 0 ELSE 1
    <3>1. Accepted(p, y)' = {i \in Standing(p, y)' : log'[i].op = "accept"}
      BY DEF Accepted
    <3>2. CASE p = o
      <4>1. Accepted(p, y)' = {} /\ Standing(p, y)' = {}
        BY <2>2, <3>1, <3>2
      <4> QED BY <4>1, FS_EmptySet
    <3>3. CASE p # o
      <4>1. Standing(p, y)' = Standing(p, y)
        BY <2>2, <3>3
      <4>2. Accepted(p, y)' = Accepted(p, y)
        BY <2>4, <3>1, <4>1 DEF Accepted
      <4> QED BY <4>1, <4>2 DEF AcceptedOnce
    <3> QED BY <3>2, <3>3
  <2> QED BY <2>2, <2>5 DEF Present, AcceptedOnce, Empty
<1>5. UNCHANGED ledgerVars => Present' /\ AcceptedOnce'
  BY DEF Present, AcceptedOnce, Accepted, Standing, ledgerVars
<1> QED BY <1>1, <1>3, <1>4, <1>5

-----------------------------------------------------------------------------
(* Tool permissions and exclusive roles *)

\* A member of a row is a grant that stands.
Held ==
  kind.class \in {"permission", "roles"} =>
    \A o \in Owners, x \in Items : counts[o][x] > 0 <=> Granted(o, x)

LEMMA GrantKeeps ==
  ASSUME LedgerTypes, Held, kind.class \in {"permission", "roles"}, NEW o \in Owners, NEW x \in Items,
         GrantTool(o, x) \/ ClaimRole(o, x)
  PROVE  LedgerTypes' /\ Held'
<1>1. /\ counts' = [counts EXCEPT ![o][x] = 1] /\ UNCHANGED plan /\ Log("grant", o, x, 0)
      /\ "grant" \in LogOps /\ 0 \in Int /\ 1 \in {0, 1}
      /\ o \in Owners \cup {None} /\ x \in Items \cup {None}
  BY DEF GrantTool, ClaimRole, LogOps
<1>2. /\ LedgerTypes'
      /\ \A p \in Owners, y \in Items : counts'[p][y] = IF p = o /\ y = x THEN 1 ELSE counts[p][y]
  BY <1>1, CellSet
<1>3. ASSUME NEW p \in Owners, NEW y \in Items
      PROVE  Granted(p, y)' <=> Granted(p, y) \/ (p = o /\ y = x)
  <2>1. Granted(p, y)' <=> \/ "grant" = "grant" /\ p = o /\ x = y
                           \/ /\ Granted(p, y)
                              /\ ~(p = o /\ ("grant" = "clear_all" \/ ("grant" = "revoke" /\ x = y)))
    BY <1>1, After
  <2> QED BY <2>1
<1> QED BY <1>2, <1>3 DEF Held

LEMMA RevokeKeeps ==
  ASSUME LedgerTypes, Held, kind.class \in {"permission", "roles"}, NEW o \in Owners, NEW x \in Items,
         RevokeTool(o, x) \/ ReleaseRole(o, x)
  PROVE  LedgerTypes' /\ Held'
<1>1. /\ counts' = [counts EXCEPT ![o][x] = 0] /\ UNCHANGED plan /\ Log("revoke", o, x, 0)
      /\ "revoke" \in LogOps /\ 0 \in Int /\ 0 \in {0, 1}
      /\ o \in Owners \cup {None} /\ x \in Items \cup {None}
  BY DEF RevokeTool, ReleaseRole, Revoked, LogOps
<1>2. /\ LedgerTypes'
      /\ \A p \in Owners, y \in Items : counts'[p][y] = IF p = o /\ y = x THEN 0 ELSE counts[p][y]
  BY <1>1, CellSet
<1>3. ASSUME NEW p \in Owners, NEW y \in Items
      PROVE  Granted(p, y)' <=> Granted(p, y) /\ ~(p = o /\ y = x)
  <2>1. Granted(p, y)' <=> \/ "revoke" = "grant" /\ p = o /\ x = y
                           \/ /\ Granted(p, y)
                              /\ ~(p = o /\ ("revoke" = "clear_all" \/ ("revoke" = "revoke" /\ x = y)))
    BY <1>1, After
  <2> QED BY <2>1
<1> QED BY <1>2, <1>3 DEF Held

LEMMA HeldKeeps ==
  ASSUME LedgerTypes, Held, kind.class \in {"permission", "roles"}, Next
  PROVE  LedgerTypes' /\ Held'
<1>1. \/ \E o \in Owners, x \in Items : GrantTool(o, x) \/ ClaimRole(o, x)
      \/ \E o \in Owners, x \in Items : RevokeTool(o, x) \/ ReleaseRole(o, x)
      \/ \E o \in Owners : ResetRole(o)
      \/ UNCHANGED ledgerVars
  BY Steps
<1>2. ASSUME NEW o \in Owners, ResetRole(o)
      PROVE  LedgerTypes' /\ Held'
  <2>1. ClearRow(o, "roles")
    BY <1>2 DEF ResetRole
  <2>2. /\ LedgerTypes' /\ counts'[o] = Empty
        /\ \A p \in Owners \ {o} : counts'[p] = counts[p]
        /\ \A p \in Owners, y \in Items \cup {None} : Granted(p, y)' <=> Granted(p, y) /\ p # o
    BY <2>1, RowCleared
  <2>3. \A p \in Owners, y \in Items :
          counts'[p][y] = IF p = o THEN 0 ELSE counts[p][y]
    BY <2>2 DEF Empty
  <2> QED BY <2>2, <2>3 DEF Held
<1>3. ASSUME UNCHANGED ledgerVars
      PROVE  LedgerTypes' /\ Held'
  <2>1. \A o, x : Granted(o, x)' <=> Granted(o, x)
    BY <1>3 DEF Granted, ledgerVars
  <2> QED BY <1>3, <2>1 DEF LedgerTypes, Held, ledgerVars
<1> QED BY <1>1, <1>2, <1>3, GrantKeeps, RevokeKeeps

-----------------------------------------------------------------------------
(* Sticky bots and votes *)

Unit(x) == [Empty EXCEPT ![x] = 1]

\* A row holds the item its owner is pinned to, and no other.
PinnedRows ==
  kind.class \in {"sticky", "votes"} =>
    \A o \in Owners : /\ counts[o] = Empty \/ \E x \in Items : counts[o] = Unit(x)
                      /\ \A x \in Items : Pinned(o, x) <=> counts[o] = Unit(x)

LEMMA Units ==
  /\ \A x, y \in Items : Unit(x)[y] = IF y = x THEN 1 ELSE 0
  /\ \A x \in Items : Unit(x) # Empty
  /\ \A x, y \in Items : Unit(x) = Unit(y) => x = y
<1>1. \A x, y \in Items : Unit(x)[y] = IF y = x THEN 1 ELSE 0
  BY DEF Unit, Empty
<1>2. \A x \in Items : Empty[x] = 0
  BY DEF Empty
<1>3. \A x \in Items : Unit(x)[x] = 1
  BY <1>1
<1>4. \A x, y \in Items : Unit(x) = Unit(y) => x = y
  <2> SUFFICES ASSUME NEW x \in Items, NEW y \in Items, Unit(x) = Unit(y), x # y
               PROVE  FALSE
    OBVIOUS
  <2>1. Unit(y)[x] = 0 /\ Unit(x)[x] = 1
    BY <1>1
  <2> QED BY <2>1
<1> QED BY <1>1, <1>2, <1>3, <1>4

LEMMA PinnedKeeps ==
  ASSUME LedgerTypes, PinnedRows, kind.class \in {"sticky", "votes"}, Next
  PROVE  LedgerTypes' /\ PinnedRows'
<1>1. \/ \E o \in Owners, x \in Items : Bind(o, x) \/ AddVote(o, x)
      \/ \E o \in Owners : Unbind(o)
      \/ ClearVotes
      \/ UNCHANGED ledgerVars
  BY Steps
<1>2. ASSUME NEW o \in Owners, NEW x \in Items, Bind(o, x) \/ AddVote(o, x)
      PROVE  LedgerTypes' /\ PinnedRows'
  <2>1. /\ counts' = [counts EXCEPT ![o] = [Empty EXCEPT ![x] = 1]]
        /\ UNCHANGED plan /\ Log("bind", o, x, 0)
    BY <1>2 DEF Bind, AddVote
  <2>2. /\ LedgerTypes' /\ counts'[o] = Unit(x)
        /\ \A p \in Owners \ {o} : counts'[p] = counts[p]
        /\ \A p \in Owners, y \in Items : Pinned(p, y)' <=> IF p = o THEN y = x ELSE Pinned(p, y)
    BY <2>1, RowSet DEF Unit
  <2>3. \A y \in Items : Unit(x) = Unit(y) <=> y = x
    BY Units
  <2>4. ASSUME NEW p \in Owners
        PROVE  /\ counts'[p] = Empty \/ \E y \in Items : counts'[p] = Unit(y)
               /\ \A y \in Items : Pinned(p, y)' <=> counts'[p] = Unit(y)
    <3>1. CASE p = o
      BY <2>2, <2>3, <3>1
    <3>2. CASE p # o
      BY <2>2, <3>2 DEF PinnedRows
    <3> QED BY <3>1, <3>2
  <2> QED BY <2>2, <2>4 DEF PinnedRows, Unit, Empty
<1>3. ASSUME NEW o \in Owners, Unbind(o)
      PROVE  LedgerTypes' /\ PinnedRows'
  <2>1. ClearRow(o, "sticky")
    BY <1>3 DEF Unbind
  <2>2. /\ LedgerTypes' /\ counts'[o] = Empty
        /\ \A p \in Owners \ {o} : counts'[p] = counts[p]
        /\ \A p \in Owners, y \in Items \cup {None} : Pinned(p, y)' <=> Pinned(p, y) /\ p # o
    BY <2>1, RowCleared
  <2>3. ASSUME NEW p \in Owners
        PROVE  /\ counts'[p] = Empty \/ \E y \in Items : counts'[p] = Unit(y)
               /\ \A y \in Items : Pinned(p, y)' <=> counts'[p] = Unit(y)
    <3>1. CASE p = o
      BY <2>2, <3>1, Units
    <3>2. CASE p # o
      BY <2>2, <3>2 DEF PinnedRows
    <3> QED BY <3>1, <3>2
  <2> QED BY <2>2, <2>3 DEF PinnedRows, Unit, Empty
<1>4. ASSUME ClearVotes
      PROVE  LedgerTypes' /\ PinnedRows'
  <2>1. counts' = [o \in Owners |-> Empty] /\ log' = <<>> /\ kind' = kind /\ plan' = plan
    BY <1>4 DEF ClearVotes
  <2>2. LedgerTypes'
    BY <2>1 DEF LedgerTypes, Empty
  <2>3. \A p, y : ~Pinned(p, y)'
    <3>1. \A p, y : Standing(p, y)' = {}
      BY <2>1 DEF Standing
    <3> QED BY <3>1 DEF Pinned
  <2>4. \A p \in Owners : counts'[p] = Empty
    BY <2>1
  <2>5. \A p \in Owners, y \in Items : counts'[p] # Unit(y)
    BY <2>4, Units
  <2> QED BY <2>2, <2>3, <2>4, <2>5 DEF PinnedRows, Unit, Empty
<1>5. ASSUME UNCHANGED ledgerVars
      PROVE  LedgerTypes' /\ PinnedRows'
  <2>1. \A o, x : Pinned(o, x)' <=> Pinned(o, x)
    BY <1>5 DEF Pinned, Standing, ledgerVars
  <2> QED BY <1>5, <2>1 DEF LedgerTypes, PinnedRows, Unit, Empty, ledgerVars
<1> QED BY <1>1, <1>2, <1>3, <1>4, <1>5

-----------------------------------------------------------------------------
(* Critic verdicts *)

Verdicts(o) == {i \in DOMAIN log : log[i].owner = o}

\* A review without a verdict has no entry, and one with a verdict has one.
DecidedOnce ==
  kind.class = "critic" =>
    \A o \in Owners : Cardinality(Verdicts(o)) = IF counts[o] = Empty THEN 0 ELSE 1

LEMMA CriticKeeps ==
  ASSUME LedgerTypes, DecidedOnce, kind.class = "critic", Next
  PROVE  LedgerTypes' /\ DecidedOnce'
<1>1. (\E o \in Owners, x \in Items : DecideReview(o, x)) \/ UNCHANGED ledgerVars
  BY Steps
<1>2. ASSUME NEW o \in Owners, NEW x \in Items, DecideReview(o, x)
      PROVE  LedgerTypes' /\ DecidedOnce'
  <2>1. /\ counts' = [counts EXCEPT ![o][x] = 1] /\ UNCHANGED plan /\ Log("bind", o, x, 0)
        /\ counts[o] = Empty
        /\ "bind" \in LogOps /\ 0 \in Int /\ 1 \in {0, 1}
        /\ o \in Owners \cup {None} /\ x \in Items \cup {None}
    BY <1>2 DEF DecideReview, LogOps
  <2>2. /\ LedgerTypes'
        /\ \A p \in Owners, y \in Items : counts'[p][y] = IF p = o /\ y = x THEN 1 ELSE counts[p][y]
        /\ \A p \in Owners \ {o} : counts'[p] = counts[p]
    BY <2>1, CellSet
  <2>3. counts'[o] # Empty
    BY <2>2 DEF Empty
  <2>4. PICK r \in Entries : r.owner = o /\ log' = Append(log, r)
    BY <2>1, Logged DEF Appends
  <2> DEFINE m == Len(log) + 1
  <2>5. /\ log \in Seq(Entries)
        /\ DOMAIN log' = DOMAIN log \cup {m} /\ m \notin DOMAIN log
        /\ log'[m].owner = o /\ \A i \in DOMAIN log : log'[i] = log[i]
    BY <2>4, LogGrows DEF LedgerTypes
  <2> HIDE DEF m
  <2>6. \A p \in Owners : Verdicts(p)' = {i \in DOMAIN log' : log'[i].owner = p}
    BY DEF Verdicts
  <2>7. \A p \in Owners \ {o} : Verdicts(p)' = Verdicts(p)
    BY <2>5, <2>6 DEF Verdicts
  <2>8. Verdicts(o)' = Verdicts(o) \cup {m}
    BY <2>5, <2>6 DEF Verdicts
  <2>9. Cardinality(Verdicts(o)') = 1
    <3>1. Cardinality(Verdicts(o)) = 0
      BY <2>1 DEF DecidedOnce
    <3>2. IsFiniteSet(Verdicts(o))
      <4>1. IsFiniteSet(1..Len(log)) /\ DOMAIN log = 1..Len(log)
        BY <2>5, FS_Interval
      <4> QED BY <4>1, FS_Subset DEF Verdicts
    <3>3. Verdicts(o) = {}
      BY <3>1, <3>2, FS_EmptySet
    <3> QED BY <2>8, <3>3, FS_Singleton
  <2>10. ASSUME NEW p \in Owners
         PROVE  Cardinality(Verdicts(p)') = IF counts'[p] = Empty THEN 0 ELSE 1
    <3>1. CASE p = o
      BY <2>3, <2>9, <3>1
    <3>2. CASE p # o
      BY <2>2, <2>7, <3>2 DEF DecidedOnce
    <3> QED BY <3>1, <3>2
  <2> QED BY <2>2, <2>10 DEF DecidedOnce, Empty
<1>3. ASSUME UNCHANGED ledgerVars
      PROVE  LedgerTypes' /\ DecidedOnce'
  <2>1. \A o : Verdicts(o)' = Verdicts(o)
    BY <1>3 DEF Verdicts, ledgerVars
  <2> QED BY <1>3, <2>1 DEF LedgerTypes, DecidedOnce, Empty, ledgerVars
<1> QED BY <1>1, <1>2, <1>3

-----------------------------------------------------------------------------
(* The step planner *)

Overrun == \E i \in DOMAIN log : log[i].op = "reserve" /\ log[i].n > kind.estimate

\* Every step left can be paid for, or a step took more than the estimate.
Affordable == kind.class = "planner" => Overrun \/ plan.tokens >= plan.steps * kind.estimate

LEMMA Product ==
  ASSUME NEW a \in Int, NEW b \in Int, NEW e \in Nat, a <= b
  PROVE  a * e <= b * e
<1> DEFINE A == {n \in Nat : a * n <= b * n}
<1>1. 0 \in A
  OBVIOUS
<1>2. ASSUME NEW n \in A
      PROVE  n + 1 \in A
  <2>1. a * (n + 1) = a * n + a /\ b * (n + 1) = b * n + b
    OBVIOUS
  <2>2. a * n \in Int /\ b * n \in Int /\ a * n <= b * n /\ n + 1 \in Nat
    OBVIOUS
  <2>3. a * (n + 1) <= b * (n + 1)
    <3> DEFINE an == a * n
               bn == b * n
    <3>1. an \in Int /\ bn \in Int /\ an <= bn /\ a * (n + 1) = an + a /\ b * (n + 1) = bn + b
      BY <2>1, <2>2
    <3> HIDE DEF an, bn
    <3> QED BY <3>1
  <2> QED BY <2>2, <2>3
<1>3. A = Nat
  <2>1. A \subseteq Nat
    OBVIOUS
  <2> HIDE DEF A
  <2> QED BY <1>1, <1>2, <2>1, NatsAll
<1> QED BY <1>3

LEMMA PlannerKeeps ==
  ASSUME LedgerConstantsOK, LedgerTypes, Affordable, kind.class = "planner", Next
  PROVE  LedgerTypes' /\ Affordable'
<1>1. MakePlan \/ (\E n \in 0..MaxTokens : Reserve(n)) \/ UNCHANGED ledgerVars
  BY Steps
<1>2. kind.estimate \in Nat \ {0} /\ MaxTokens \in Nat /\ MaxSteps \in Nat
  BY DEF LedgerTypes, LedgerConstantsOK
<1>3. plan \in [tokens : Int, steps : Int] /\ counts \in Rows /\ log \in Seq(Entries)
  BY DEF LedgerTypes, Rows
<1>4. ASSUME MakePlan
      PROVE  LedgerTypes' /\ Affordable'
  <2> DEFINE q == ByTokens(kind.estimate)
             m == IF q < MaxSteps THEN q ELSE MaxSteps
  <2>1. q \in Nat /\ q * kind.estimate <= MaxTokens
    <3> DEFINE e == kind.estimate
    <3>1. e \in Nat \ {0}
      BY <1>2
    <3> HIDE DEF e
    <3>2. MaxTokens \div e \in Nat /\ (MaxTokens \div e) * e <= MaxTokens
      BY <1>2, <3>1
    <3> QED BY <3>2 DEF ByTokens, e
  <2>2. plan' = [tokens |-> MaxTokens, steps |-> m] /\ Log("plan", None, None, 0) /\ counts' = counts
    BY <1>4 DEF MakePlan
  <2> HIDE DEF q
  <2>3. m \in Int /\ m <= q
    BY <1>2, <2>1
  <2> HIDE DEF m
  <2>4. m * kind.estimate <= q * kind.estimate
    BY <1>2, <2>1, <2>3, Product
  <2>5. m * kind.estimate \in Int /\ q * kind.estimate \in Int
    <3> DEFINE e == kind.estimate
    <3>1. e \in Int
      BY <1>2
    <3> HIDE DEF e
    <3>2. m * e \in Int /\ q * e \in Int
      BY <2>1, <2>3, <3>1
    <3> QED BY <3>2 DEF e
  <2>6. MaxTokens >= m * kind.estimate
    BY <1>2, <2>1, <2>4, <2>5
  <2>7. "plan" \in LogOps /\ None \in Owners \cup {None} /\ None \in Items \cup {None} /\ 0 \in Int
    BY DEF LogOps
  <2>8. kind' = kind /\ log' \in Seq(Entries)
    BY <2>2, <2>7, Logged
  <2>9. plan' \in [tokens : Int, steps : Int] /\ plan'.tokens = MaxTokens /\ plan'.steps = m
    BY <1>2, <2>2, <2>3
  <2>10. LedgerTypes'
    BY <1>3, <2>2, <2>8, <2>9 DEF LedgerTypes, Rows
  <2> QED BY <2>6, <2>8, <2>9, <2>10 DEF Affordable
<1>5. ASSUME NEW n \in 0..MaxTokens, Reserve(n)
      PROVE  LedgerTypes' /\ Affordable'
  <2>1. /\ plan' = [tokens |-> plan.tokens - n, steps |-> plan.steps - 1]
        /\ Log("reserve", None, None, n) /\ counts' = counts /\ n \in Int
    BY <1>2, <1>5 DEF Reserve
  <2>2. "reserve" \in LogOps /\ None \in Owners \cup {None} /\ None \in Items \cup {None}
    BY DEF LogOps
  <2>3. kind' = kind /\ log' \in Seq(Entries) /\ Appends("reserve", None, None, n)
    BY <2>1, <2>2, Logged
  <2>4. PICK r \in Entries : r.op = "reserve" /\ r.n = n /\ log' = Append(log, r)
    BY <2>3 DEF Appends
  <2>5. /\ Len(log) + 1 \in DOMAIN log' /\ log'[Len(log) + 1] = r
        /\ DOMAIN log \subseteq DOMAIN log' /\ \A i \in DOMAIN log : log'[i] = log[i]
    BY <1>3, <2>4, LogGrows
  <2>6. Overrun \/ n > kind.estimate => Overrun'
    BY <2>3, <2>4, <2>5 DEF Overrun
  <2>7. plan' \in [tokens : Int, steps : Int]
        /\ plan'.tokens = plan.tokens - n /\ plan'.steps = plan.steps - 1
    BY <1>3, <2>1
  <2>8. LedgerTypes'
    BY <1>3, <2>1, <2>3, <2>7 DEF LedgerTypes, Rows
  <2>9. ASSUME ~Overrun, ~(n > kind.estimate)
        PROVE  plan'.tokens >= plan'.steps * kind.estimate
    <3> DEFINE e == kind.estimate
               s == plan.steps
               t == plan.tokens
    <3>1. e \in Nat /\ s \in Int /\ t \in Int /\ n <= e /\ t >= s * e
      BY <1>2, <1>3, <2>1, <2>9 DEF Affordable
    <3>2. plan'.tokens = t - n /\ plan'.steps = s - 1
      BY <2>7
    <3> HIDE DEF e, s, t
    <3>3. (s - 1) * e = s * e - e /\ s * e \in Int
      BY <3>1
    <3>4. t - n >= s * e - e
      BY <2>1, <3>1, <3>3
    <3>5. t - n >= (s - 1) * e
      BY <3>3, <3>4
    <3> QED BY <3>2, <3>5 DEF e
  <2> QED BY <2>3, <2>6, <2>8, <2>9 DEF Affordable
<1>6. UNCHANGED ledgerVars => LedgerTypes' /\ Affordable'
  BY DEF LedgerTypes, Affordable, Overrun, ledgerVars
<1> QED BY <1>1, <1>4, <1>5, <1>6

-----------------------------------------------------------------------------
(* Majority votes *)

Voted == {v \in Owners : counts[v] # Empty}
For(x) == {v \in Owners : counts[v] = Unit(x)}

\* Who voted for an answer, and who voted; two answers share no voter.
LEMMA Ballots ==
  ASSUME LedgerConstantsOK, PinnedRows, kind.class = "votes"
  PROVE  /\ Voters = Cardinality(Voted) /\ Voters \in Nat
         /\ Voted = {v \in Owners : \E y \in Items : Pinned(v, y)}
         /\ \A x \in Items : /\ For(x) = {v \in Owners : Pinned(v, x)}
                             /\ Tally(x) = Cardinality(For(x)) /\ Tally(x) \in Nat
         /\ \A x, y \in Items : x # y => Tally(x) + Tally(y) <= Voters
<1>1. ASSUME NEW v \in Owners
      PROVE  /\ counts[v] # Empty <=> \E y \in Items : Pinned(v, y)
             /\ \A x \in Items : /\ Pinned(v, x) <=> counts[v] = Unit(x)
                                 /\ counts[v][x] = 1 <=> counts[v] = Unit(x)
  <2>1. /\ counts[v] = Empty \/ \E x \in Items : counts[v] = Unit(x)
        /\ \A x \in Items : Pinned(v, x) <=> counts[v] = Unit(x)
    BY DEF PinnedRows
  <2>2. \A x \in Items : Empty[x] = 0
    BY DEF Empty
  <2> QED BY <2>1, <2>2, Units
<1>2. /\ Voted = {v \in Owners : \E y \in Items : Pinned(v, y)}
      /\ \A x \in Items : /\ For(x) = {v \in Owners : Pinned(v, x)}
                          /\ For(x) = {v \in Owners : counts[v][x] = 1}
  BY <1>1 DEF Voted, For
<1>3. Voters = Cardinality(Voted) /\ \A x \in Items : Tally(x) = Cardinality(For(x))
  BY <1>2 DEF Voters, Tally, Voted
<1>4. IsFiniteSet(Voted) /\ \A x \in Items : IsFiniteSet(For(x)) /\ For(x) \subseteq Voted
  <2>1. IsFiniteSet(Owners)
    BY DEF LedgerConstantsOK
  <2>2. Voted \subseteq Owners /\ \A x \in Items : For(x) \subseteq Owners /\ For(x) \subseteq Voted
    BY Units DEF Voted, For
  <2> QED BY <2>1, <2>2, FS_Subset
<1>5. Voters \in Nat /\ \A x \in Items : Tally(x) \in Nat
  BY <1>3, <1>4, FS_CardinalityType
<1>6. ASSUME NEW x \in Items, NEW y \in Items, x # y
      PROVE  Tally(x) + Tally(y) <= Voters
  <2>1. For(x) \cap For(y) = {}
    BY <1>6, Units DEF For
  <2>2. Cardinality(For(x) \cup For(y)) = Tally(x) + Tally(y)
    <3>1. /\ IsFiniteSet(For(x)) /\ IsFiniteSet(For(y))
          /\ Cardinality(For(x)) = Tally(x) /\ Cardinality(For(y)) = Tally(y)
      BY <1>3, <1>4
    <3>2. Cardinality(For(x) \cup For(y))
            = Cardinality(For(x)) + Cardinality(For(y)) - Cardinality(For(x) \cap For(y))
      BY <3>1, FS_Union
    <3>3. Cardinality(For(x) \cap For(y)) = 0
      BY <2>1, FS_EmptySet
    <3> QED BY <1>5, <3>1, <3>2, <3>3
  <2>3. For(x) \cup For(y) \subseteq Voted
    BY <1>4
  <2>4. Cardinality(For(x) \cup For(y)) <= Cardinality(Voted)
    BY <1>4, <2>3, FS_Subset
  <2> QED BY <1>3, <2>2, <2>4
<1> QED BY <1>2, <1>3, <1>5, <1>6

\* In majority mode an answer wins exactly when more than half voted for it.
LEMMA MajorityWins ==
  ASSUME LedgerConstantsOK, PinnedRows, kind.class = "votes", kind.hard, NEW x \in Items
  PROVE  Winner = x <=> 2 * Tally(x) > Voters
<1>1. /\ Voters \in Nat /\ \A y \in Items : Tally(y) \in Nat
      /\ \A y \in Items : x # y => Tally(x) + Tally(y) <= Voters
  BY Ballots
<1>2. None \notin Items
  BY DEF LedgerConstantsOK
<1>3. ASSUME 2 * Tally(x) > Voters
      PROVE  Winner = x
  <2>1. \A y \in Items : x # y => Tally(y) < Tally(x)
    BY <1>1, <1>3
  <2>2. Tally(x) > 0 /\ ~(Tally(x) * 2 <= Voters)
    BY <1>1, <1>3
  <2>3. \A y \in Items : Tally(y) <= Tally(x)
    BY <1>1, <2>1
  <2>4. Leaders = {x}
    <3>1. x \in Leaders
      BY <2>2, <2>3 DEF Leaders
    <3>2. \A y \in Leaders : y = x
      BY <1>1, <2>1 DEF Leaders
    <3> QED BY <3>1, <3>2
  <2>5. Cardinality(Leaders) = 1 /\ (CHOOSE y \in Leaders : TRUE) = x
    BY <2>4, FS_Singleton
  <2> QED BY <2>2, <2>5 DEF Winner
<1>4. ASSUME Winner = x
      PROVE  2 * Tally(x) > Voters
  <2>1. Winner # None
    BY <1>2, <1>4
  <2>2. x = (CHOOSE y \in Leaders : TRUE) /\ ~(Tally(x) * 2 <= Voters)
    BY <1>4, <2>1 DEF Winner
  <2> QED BY <1>1, <2>2
<1> QED BY <1>3, <1>4

-----------------------------------------------------------------------------
(* The invariant *)

LedgerInv ==
  /\ LedgerTypes /\ Counted /\ Capped /\ Summed /\ Present /\ AcceptedOnce
  /\ Held /\ PinnedRows /\ DecidedOnce /\ Affordable

LEMMA InitLedgerInv ==
  ASSUME LedgerConstantsOK, Init
  PROVE  LedgerInv
<1>1. /\ counts = [o \in Owners |-> Empty] /\ plan = [tokens |-> 0, steps |-> 0] /\ log = <<>>
      /\ kind \in [class : Classes, hard : BOOLEAN, defaultDeny : BOOLEAN, estimate : 1..(MaxTokens + 1)]
  BY DEF Init
<1>2. /\ \A o \in Owners : counts[o] = Empty
      /\ \A o \in Owners, x \in Items : counts[o][x] = 0
  BY <1>1 DEF Empty
<1>3. LedgerTypes
  BY <1>1 DEF LedgerTypes, Empty
<1>4. \A o, x : Standing(o, x) = {} /\ ~Granted(o, x)
  BY <1>1 DEF Standing, Granted
<1>5. \A o, x : Recorded(o, x) = 0
  BY <1>4, SumEmpty DEF Recorded
<1>6. MaxCount \in Nat
  BY DEF LedgerConstantsOK
<1>7. Counted /\ Capped /\ Present /\ Held
  BY <1>2, <1>4, <1>5, <1>6 DEF Counted, Capped, Present, Held
<1>8. Summed
  BY <1>2, <1>5, TotalEmpty DEF Summed
<1>9. AcceptedOnce
  BY <1>4, FS_EmptySet DEF AcceptedOnce, Accepted
<1>10. PinnedRows
  <2>1. \A o, x : ~Pinned(o, x)
    BY <1>4 DEF Pinned
  <2> QED BY <1>2, <2>1, Units DEF PinnedRows
<1>11. DecidedOnce
  <2>1. \A o : Verdicts(o) = {}
    BY <1>1 DEF Verdicts
  <2> QED BY <1>2, <2>1, FS_EmptySet DEF DecidedOnce
<1>12. Affordable
  <2>1. kind.estimate \in Int /\ plan.tokens = 0 /\ plan.steps = 0
    BY <1>1
  <2> QED BY <2>1 DEF Affordable
<1> QED BY <1>3, <1>7, <1>8, <1>9, <1>10, <1>11, <1>12 DEF LedgerInv

LEMMA NextLedgerInv ==
  ASSUME LedgerConstantsOK, LedgerInv, [Next]_ledgerVars
  PROVE  LedgerInv'
<1> USE DEF LedgerInv
<1>1. ASSUME UNCHANGED ledgerVars
      PROVE  LedgerInv'
  <2>1. /\ kind' = kind /\ counts' = counts /\ plan' = plan /\ log' = log
    BY <1>1 DEF ledgerVars
  <2>2. /\ \A o, x : Standing(o, x)' = Standing(o, x) /\ Recorded(o, x)' = Recorded(o, x)
        /\ \A o, x : Granted(o, x)' <=> Granted(o, x)
        /\ \A o : Verdicts(o)' = Verdicts(o)
    BY <2>1 DEF Standing, Recorded, Amounts, Granted, Verdicts
  <2>3. /\ \A o, x : Accepted(o, x)' = Accepted(o, x)
        /\ \A o, x : Pinned(o, x)' <=> Pinned(o, x)
    BY <2>1, <2>2 DEF Accepted, Pinned
  <2>4. (LedgerTypes /\ Counted /\ Capped)'
    BY <2>1, <2>2 DEF LedgerTypes, Counted, Capped, Caps
  <2>5. (Summed /\ Present /\ AcceptedOnce /\ Held)'
    BY <2>1, <2>2, <2>3 DEF Summed, Present, AcceptedOnce, Held, Total
  <2>6. (PinnedRows /\ DecidedOnce /\ Affordable)'
    BY <2>1, <2>2, <2>3 DEF PinnedRows, Unit, Empty, DecidedOnce, Affordable, Overrun
  <2> QED BY <2>4, <2>5, <2>6
<1>2. ASSUME Next
      PROVE  LedgerInv'
  <2>1. kind' = kind /\ kind.class \in Classes
    BY <1>2, KindKept DEF LedgerTypes
  <2>2. /\ kind.class \notin Counting => Counted' /\ Capped'
        /\ kind.class # "tokens" => Summed'
        /\ kind.class \notin {"barrier", "deduper"} => Present'
        /\ kind.class # "deduper" => AcceptedOnce'
        /\ kind.class \notin {"permission", "roles"} => Held'
        /\ kind.class \notin {"sticky", "votes"} => PinnedRows'
        /\ kind.class # "critic" => DecidedOnce'
        /\ kind.class # "planner" => Affordable'
    BY <2>1 DEF Counting, Counted, Capped, Caps, Summed, Present, AcceptedOnce, Held, PinnedRows,
           DecidedOnce, Affordable
  <2>3. CASE kind.class \in Counting
    <3>1. LedgerTypes' /\ Counted' /\ Capped'
      BY <1>2, <2>3, CountingKeeps
    <3>2. Present' /\ AcceptedOnce'
      <4>1. CASE kind.class = "deduper"
        BY <1>2, <4>1, DeduperKeeps
      <4>2. CASE kind.class # "deduper"
        BY <2>2, <2>3, <4>2 DEF Counting
      <4> QED BY <4>1, <4>2
    <3> QED BY <2>2, <2>3, <3>1, <3>2 DEF Counting
  <2>4. CASE kind.class = "tokens"
    BY <1>2, <2>2, <2>4, TokensKeep DEF Counting
  <2>5. CASE kind.class = "barrier"
    BY <1>2, <2>2, <2>5, BarrierKeeps DEF Counting
  <2>6. CASE kind.class \in {"permission", "roles"}
    BY <1>2, <2>2, <2>6, HeldKeeps DEF Counting
  <2>7. CASE kind.class \in {"sticky", "votes"}
    BY <1>2, <2>2, <2>7, PinnedKeeps DEF Counting
  <2>8. CASE kind.class = "critic"
    BY <1>2, <2>2, <2>8, CriticKeeps DEF Counting
  <2>9. CASE kind.class = "planner"
    BY <1>2, <2>2, <2>9, PlannerKeeps DEF Counting
  <2> QED BY <2>1, <2>3, <2>4, <2>5, <2>6, <2>7, <2>8, <2>9 DEF Classes, Counting
<1> QED BY <1>1, <1>2

LEMMA MoreThanOne ==
  ASSUME NEW S, IsFiniteSet(S)
  PROVE  Cardinality(S) > 1 <=> \E y, z \in S : y # z
<1>1. /\ Cardinality(S) \in Nat
      /\ Cardinality(S) = 0 <=> S = {}
      /\ Cardinality(S) = 1 <=> \E x : S = {x}
  BY FS_CardinalityType, FS_EmptySet, FS_Singleton
<1>2. (\E y, z \in S : y # z) <=> S # {} /\ ~\E x : S = {x}
  <2>1. ASSUME S # {}, ~\E x : S = {x}
        PROVE  \E y, z \in S : y # z
    <3>1. PICK y \in S : TRUE
      BY <2>1
    <3>2. S # {y}
      BY <2>1
    <3> QED BY <3>1, <3>2
  <2>2. ASSUME NEW y \in S, NEW z \in S, y # z, NEW x, S = {x}
        PROVE  FALSE
    BY <2>2
  <2> QED BY <2>1, <2>2
<1> QED BY <1>1, <1>2

\* What the invariant says of the answers.
LEMMA AnswersFromInv ==
  ASSUME LedgerConstantsOK, LedgerInv
  PROVE  LedgersAreTheirLog
<1> USE DEF LedgerInv
<1>1. PlanAnswers
  BY DEF PlanAnswers, Affordable, Overrun
<1> SUFFICES ASSUME NEW o \in Owners, NEW x \in Items
             PROVE  AmountsAnswer(o, x) /\ GrantsAnswer(o, x) /\ PinsAnswer(o, x)
  BY <1>1 DEF LedgersAreTheirLog
<1>2. /\ counts[o] \in [Items -> Nat] /\ IsFiniteSet(Items)
      /\ counts[o] = [y \in Items |-> counts[o][y]] /\ \A y \in Items : counts[o][y] \in Nat
  BY DEF LedgerTypes, LedgerConstantsOK
<1>3. kind.class \in Counting => counts[o][x] = Recorded(o, x)
  BY DEF Counted
<1>4. kind.class \in {"quota", "turns"} /\ kind.hard => Recorded(o, x) <= MaxCount
  BY <1>3 DEF Capped, Caps, Counting
<1>5. kind.class = "tokens" =>
        (TokenStatus(Total(counts[o])) = "hard" <=> Recorded(o, None) >= MaxCount)
  BY DEF Summed, TokenStatus
<1>6. kind.class = "barrier" =>
        (Released(counts[o]) <=> Cardinality({y \in Items : Standing(o, y) # {}}) >= MaxCount)
  <2>1. kind.class = "barrier" => {y \in Items : counts[o][y] > 0} = {y \in Items : Standing(o, y) # {}}
    BY DEF Present
  <2> QED BY <2>1 DEF Released
<1>7. kind.class = "deduper" =>
        Cardinality({i \in Standing(o, x) : log[i].op = "accept"}) = IF Standing(o, x) = {} THEN 0 ELSE 1
  BY DEF AcceptedOnce, Accepted
<1>8. kind.class = "permission" =>
        /\ Granted(o, x) => Allowed(counts[o], x)
        /\ ~Granted(o, x) /\ (kind.defaultDeny \/ \E y \in Items : Granted(o, y))
             => ~Allowed(counts[o], x)
  <2> SUFFICES ASSUME kind.class = "permission"
               PROVE  /\ Granted(o, x) => Allowed(counts[o], x)
                      /\ ~Granted(o, x) /\ (kind.defaultDeny \/ \E y \in Items : Granted(o, y))
                           => ~Allowed(counts[o], x)
    OBVIOUS
  <2>1. \A y \in Items : counts[o][y] > 0 <=> Granted(o, y)
    BY DEF Held
  <2>2. counts[o] = Empty <=> \A y \in Items : counts[o][y] = 0
    BY <1>2 DEF Empty
  <2>3. counts[o] = Empty <=> \A y \in Items : ~Granted(o, y)
    BY <1>2, <2>1, <2>2
  <2> QED BY <2>1, <2>3 DEF Allowed
<1>9. kind.class \in {"sticky", "votes"} => (counts[o][x] = 1 <=> Pinned(o, x))
  <2>1. Empty[x] = 0
    BY DEF Empty
  <2> QED BY <2>1, Units DEF PinnedRows
<1>10. kind.class = "roles" =>
        (Conflict(counts[o]) <=> \E y, z \in Items : y # z /\ Granted(o, y) /\ Granted(o, z))
  <2> SUFFICES ASSUME kind.class = "roles"
               PROVE  Conflict(counts[o]) <=> \E y, z \in Items : y # z /\ Granted(o, y) /\ Granted(o, z)
    OBVIOUS
  <2> DEFINE S == {y \in Items : counts[o][y] > 0}
  <2>1. \A y \in Items : y \in S <=> Granted(o, y)
    BY DEF Held
  <2>2. IsFiniteSet(S) /\ S \subseteq Items
    BY <1>2, FS_Subset
  <2>3. Conflict(counts[o]) <=> Cardinality(S) > 1
    BY DEF Conflict
  <2> HIDE DEF S
  <2> QED BY <2>1, <2>2, <2>3, MoreThanOne
<1>11. kind.class = "critic" => Cardinality({i \in DOMAIN log : log[i].owner = o}) <= 1
  BY DEF DecidedOnce, Verdicts
<1>12. kind.class = "votes" /\ kind.hard =>
         (Winner = x <=> 2 * Cardinality({v \in Owners : Pinned(v, x)})
                           > Cardinality({v \in Owners : \E y \in Items : Pinned(v, y)}))
  BY Ballots, MajorityWins
<1> QED BY <1>3, <1>4, <1>5, <1>6, <1>7, <1>8, <1>9, <1>10, <1>11, <1>12
  DEF Counting, AmountsAnswer, GrantsAnswer, PinsAnswer

\* Every ledger answers by the operations it accepted.
THEOREM LedgersRemember == ASSUME LedgerConstantsOK PROVE Spec => []LedgersAreTheirLog
<1>1. LedgerConstantsOK /\ LedgerInv => LedgersAreTheirLog
  BY AnswersFromInv
<1> QED BY <1>1, InitLedgerInv, NextLedgerInv, PTL DEF Spec
=============================================================================
