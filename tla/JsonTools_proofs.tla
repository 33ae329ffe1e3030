--------------------------- MODULE JsonTools_proofs ---------------------------
(***************************************************************************)
(* The operations of JsonTools on documents: where a path leads, what a    *)
(* patch and its undoing leave, what merging, diffing, flattening and      *)
(* unflattening do, for every document and every patch.                    *)
(***************************************************************************)
EXTENDS JsonTools, FoldTheorems, SequenceTheorems

-----------------------------------------------------------------------------
(* Documents *)

LEMMA KindsOf ==
  ASSUME NEW V, NEW names, NEW v \in Over(V, names)
  PROVE  /\ v = [kind |-> v.kind, atom |-> v.atom, items |-> v.items]
         /\ v.kind \in {"atom", "list", "object"}
         /\ v.kind = "atom" => v.items = <<>>
         /\ v.kind = "list" => v.items \in Seq(V) /\ v = List(v.items)
         /\ v.kind = "object" => /\ v.items \in [DOMAIN v.items -> V] /\ DOMAIN v.items \in SUBSET names
                                 /\ v = Object(v.items)
BY DEF Over, List, Object

LEMMA ListIsOver ==
  ASSUME NEW V, NEW names, NEW s \in Seq(V)
  PROVE  List(s) \in Over(V, names)
BY DEF Over, List

LEMMA ObjectIsOver ==
  ASSUME NEW V, NEW names, NEW keys \in SUBSET names, NEW f \in [keys -> V]
  PROVE  Object(f) \in Over(V, names)
BY DEF Over, Object

LEMMA AtomIsOver ==
  ASSUME NEW V, NEW names, NEW n \in Int
  PROVE  Atom(n) \in Over(V, names)
BY DEF Over, Atom

LEMMA OverGrows ==
  ASSUME NEW V, NEW W, V \subseteq W, NEW names
  PROVE  Over(V, names) \subseteq Over(W, names)
<1> SUFFICES ASSUME NEW v \in Over(V, names)
             PROVE  v \in Over(W, names)
  OBVIOUS
<1>1. CASE v \in [kind : {"atom"}, atom : Int, items : {<<>>}]
  BY <1>1 DEF Over
<1>2. CASE v \in [kind : {"list"}, atom : {0}, items : Seq(V)]
  <2>1. v.items \in Seq(W)
    BY <1>2
  <2> QED BY <1>2, <2>1 DEF Over
<1>3. CASE v \in [kind : {"object"}, atom : {0}, items : UNION {[keys -> V] : keys \in SUBSET names}]
  <2>1. PICK keys \in SUBSET names : v.items \in [keys -> V]
    BY <1>3
  <2>2. v.items \in [keys -> W]
    BY <2>1
  <2> QED BY <1>3, <2>2 DEF Over
<1> QED BY <1>1, <1>2, <1>3 DEF Over

\* The levels: nothing at first, what is over the members then.
Levels(L, names, n) == L[0] = {} /\ \A i \in 1..n : L[i] = Over(L[i - 1], names)

LEMMA LevelsExist ==
  ASSUME NEW names
  PROVE  \E L : L = [depth \in Nat |-> IF depth = 0 THEN {} ELSE Over(L[depth - 1], names)]
<1> DEFINE A == {n \in Nat : \E L : Levels(L, names, n)}
<1>1. 0 \in A
  <2>1. Levels([i \in {0} |-> {}], names, 0)
    BY DEF Levels
  <2> QED BY <2>1
<1>2. ASSUME NEW n \in A
      PROVE  n + 1 \in A
  <2>1. n \in Nat
    OBVIOUS
  <2>2. PICK L : Levels(L, names, n)
    OBVIOUS
  <2> DEFINE M == [i \in 0..(n + 1) |-> IF i = n + 1 THEN Over(L[n], names) ELSE L[i]]
  <2>3. M[0] = {}
    BY <2>1, <2>2 DEF Levels
  <2>4. ASSUME NEW i \in 1..(n + 1)
        PROVE  M[i] = Over(M[i - 1], names)
    <3>1. CASE i = n + 1
      BY <2>1, <3>1
    <3>2. CASE i # n + 1
      BY <2>1, <2>2, <3>2 DEF Levels
    <3> QED BY <3>1, <3>2
  <2> HIDE DEF M
  <2>5. Levels(M, names, n + 1)
    BY <2>3, <2>4 DEF Levels
  <2> QED BY <2>1, <2>5
<1>3. A = Nat
  <2>1. A \subseteq Nat
    OBVIOUS
  <2> HIDE DEF A
  <2> QED BY <1>1, <1>2, <2>1, NatsAll
<1> DEFINE Of(n) == CHOOSE L : Levels(L, names, n)
           K == [n \in Nat |-> Of(n)[n]]
<1>4. \A n \in Nat : Levels(Of(n), names, n)
  BY <1>3
<1>5. ASSUME NEW L, NEW M, NEW n \in Nat, Levels(L, names, n), NEW m \in Nat, Levels(M, names, m), n <= m
      PROVE  L[n] = M[n]
  <2> DEFINE B == {i \in 0..n : L[i] = M[i]}
  <2>1. 0 \in B
    BY <1>5 DEF Levels
  <2>2. ASSUME NEW i \in 1..n, i - 1 \in B
        PROVE  i \in B
    <3>1. i \in 1..m /\ i \in 0..n
      BY <1>5
    <3> QED BY <1>5, <2>2, <3>1 DEF Levels
  <2>3. n \in B
    <3> HIDE DEF B
    <3>1. 0..n \subseteq B
      BY <2>1, <2>2, UpTo
    <3> QED BY <3>1
  <2> QED BY <2>3
<1> HIDE DEF Of
<1>6. K[0] = {}
  BY <1>4 DEF Levels
<1>7. ASSUME NEW n \in Nat \ {0}
      PROVE  K[n] = Over(K[n - 1], names)
  <2>1. n - 1 \in Nat /\ n \in Nat /\ n \in 1..n /\ n - 1 <= n
    OBVIOUS
  <2>2. Of(n)[n] = Over(Of(n)[n - 1], names)
    BY <1>4, <2>1 DEF Levels
  <2>3. Of(n)[n - 1] = Of(n - 1)[n - 1]
    <3> DEFINE k == n - 1
    <3>1. k \in Nat /\ k <= n
      BY <2>1
    <3> HIDE DEF k
    <3>2. Of(n)[k] = Of(k)[k]
      BY <1>4, <1>5, <2>1, <3>1
    <3> QED BY <3>2 DEF k
  <2> QED BY <2>1, <2>2, <2>3
<1> HIDE DEF A
<1>8. K = [depth \in Nat |-> IF depth = 0 THEN {} ELSE Over(K[depth - 1], names)]
  <2>1. K = [depth \in Nat |-> K[depth]]
    OBVIOUS
  <2> HIDE DEF K
  <2>2. \A depth \in Nat : K[depth] = IF depth = 0 THEN {} ELSE Over(K[depth - 1], names)
    BY <1>6, <1>7
  <2>3. [depth \in Nat |-> K[depth]] = [depth \in Nat |-> IF depth = 0 THEN {} ELSE Over(K[depth - 1], names)]
    BY <2>2
  <2> QED BY <2>1, <2>3, Zenon
<1> QED BY <1>8, Zenon

LEMMA NestingIs ==
  ASSUME NEW names
  PROVE  /\ Nesting(names)[0] = {}
         /\ \A n \in Nat : Nesting(names)[n + 1] = Over(Nesting(names)[n], names)
         /\ \A n \in Nat : Nesting(names)[n] \subseteq Nesting(names)[n + 1]
<1> DEFINE N == Nesting(names)
<1>1. N = (CHOOSE L : L = [depth \in Nat |-> IF depth = 0 THEN {} ELSE Over(L[depth - 1], names)])
  BY Zenon DEF Nesting
<1>2. N = [depth \in Nat |-> IF depth = 0 THEN {} ELSE Over(N[depth - 1], names)]
  <2> HIDE DEF N
  <2> QED BY <1>1, LevelsExist, Zenon
<1> HIDE DEF N
<1>3. N[0] = {} /\ \A n \in Nat : N[n + 1] = Over(N[n], names)
  <2>1. N[0] = {}
    BY <1>2
  <2>2. ASSUME NEW n \in Nat
        PROVE  N[n + 1] = Over(N[n], names)
    <3> DEFINE k == n + 1
    <3>1. k \in Nat /\ k # 0 /\ k - 1 = n
      OBVIOUS
    <3> HIDE DEF k
    <3>2. N[k] = Over(N[k - 1], names)
      BY <1>2, <3>1
    <3>3. N[k] = Over(N[n], names)
      BY <3>1, <3>2
    <3> QED BY <3>3 DEF k
  <2> QED BY <2>1, <2>2
<1>4. \A n \in Nat : N[n] \subseteq N[n + 1]
  <2> DEFINE A == {n \in Nat : N[n] \subseteq N[n + 1]}
  <2>1. 0 \in A
    BY <1>3
  <2>2. ASSUME NEW n \in A
        PROVE  n + 1 \in A
    <3>1. n \in Nat /\ n + 1 \in Nat /\ N[n] \subseteq N[n + 1]
      OBVIOUS
    <3>2. N[n + 1] = Over(N[n], names) /\ N[n + 1 + 1] = Over(N[n + 1], names)
      BY <1>3, <3>1
    <3>3. Over(N[n], names) \subseteq Over(N[n + 1], names)
      BY <3>1, OverGrows
    <3> QED BY <3>1, <3>2, <3>3
  <2>3. A = Nat
    <3>1. A \subseteq Nat
      OBVIOUS
    <3> HIDE DEF A
    <3> QED BY <2>1, <2>2, <3>1, NatsAll
  <2> QED BY <2>3
<1> QED BY <1>3, <1>4 DEF N

LEMMA NestingGrows ==
  ASSUME NEW names, NEW n \in Nat, NEW m \in Nat, n <= m
  PROVE  Nesting(names)[n] \subseteq Nesting(names)[m]
<1> DEFINE N == Nesting(names)
           A == {k \in Nat : N[n] \subseteq N[n + k]}
<1>1. \A k \in Nat : N[k] \subseteq N[k + 1]
  BY NestingIs
<1> HIDE DEF N
<1>2. 0 \in A
  OBVIOUS
<1>3. ASSUME NEW k \in A
      PROVE  k + 1 \in A
  <2>1. N[n + k] \subseteq N[n + k + 1] /\ k \in Nat /\ n + k + 1 = n + (k + 1)
    BY <1>1
  <2> QED BY <2>1
<1>4. A = Nat
  <2>1. A \subseteq Nat
    OBVIOUS
  <2> HIDE DEF A
  <2> QED BY <1>2, <1>3, <2>1, NatsAll
<1>5. m - n \in A /\ n + (m - n) = m
  <2> HIDE DEF A
  <2> QED BY <1>4
<1> QED BY <1>5 DEF N

-----------------------------------------------------------------------------
(* Where a path leads *)

Child(value, token) ==
  IF value # None /\ HasChild(value, token) THEN value.items[Slot(value, token)] ELSE None
Put(value, token, new) == [value EXCEPT !.items[Slot(value, token)] = new]

LEMMA ChildIs ==
  ASSUME NEW V, NEW names, NEW v \in Over(V, names), NEW t, HasChild(v, t)
  PROVE  v.items[Slot(v, t)] \in V /\ Slot(v, t) \in DOMAIN v.items
<1>1. CASE v.kind = "atom"
  BY <1>1 DEF HasChild
<1>2. CASE v.kind = "list"
  <2>1. v.items \in Seq(V) /\ t \in 0..(Len(v.items) - 1) /\ Slot(v, t) = t + 1
    BY <1>2, KindsOf DEF HasChild, IsIndex, Slot
  <2> QED BY <2>1
<1>3. CASE v.kind = "object"
  <2>1. v.items \in [DOMAIN v.items -> V] /\ t \in DOMAIN v.items /\ Slot(v, t) = t
    BY <1>3, KindsOf DEF HasChild, IsIndex, Slot
  <2> QED BY <2>1
<1> QED BY <1>1, <1>2, <1>3, KindsOf

IsPut(q, v, t, new) ==
  /\ HasChild(q, t) /\ q.items[Slot(q, t)] = new
  /\ \A w : Put(q, t, w) = Put(v, t, w)

LEMMA PutIs ==
  ASSUME NEW V, NEW W, V \subseteq W, NEW names, NEW v \in Over(V, names), NEW t, HasChild(v, t),
         NEW new \in W
  PROVE  /\ Put(v, t, new) \in Over(W, names) /\ IsPut(Put(v, t, new), v, t, new)
         /\ Put(v, t, v.items[Slot(v, t)]) = v
<1> DEFINE s == Slot(v, t)
           f == v.items
           g == [f EXCEPT ![s] = new]
           p == Put(v, t, new)
<1>1. s \in DOMAIN f
  BY ChildIs
<1>2. v = [kind |-> v.kind, atom |-> v.atom, items |-> f] /\ v.kind \in {"list", "object"}
  BY KindsOf DEF HasChild
<1>3. \A w : Put(v, t, w) = [v EXCEPT !.items = [f EXCEPT ![s] = w]]
  BY DEF Put
<1> HIDE DEF s, f
<1>4. \A w : Put(v, t, w) = [kind |-> v.kind, atom |-> v.atom, items |-> [f EXCEPT ![s] = w]]
  BY <1>2, <1>3
<1>5. p.kind = v.kind /\ p.atom = v.atom /\ p.items = g /\ Slot(p, t) = s
  <2>1. p.kind = v.kind /\ p.atom = v.atom /\ p.items = g
    BY <1>4
  <2> QED BY <2>1 DEF Slot, s
<1>6. DOMAIN g = DOMAIN f /\ g[s] = new
  <2>1. f = [x \in DOMAIN f |-> f[x]]
    <3>1. CASE v.kind = "list"
      <4>1. f \in Seq(V)
        BY <3>1, KindsOf DEF f
      <4> QED BY <4>1
    <3>2. CASE v.kind = "object"
      <4>1. f \in [DOMAIN f -> V]
        BY <3>2, KindsOf DEF f
      <4> QED BY <4>1
    <3> QED BY <1>2, <3>1, <3>2
  <2> QED BY <1>1, <2>1
<1>7. p \in Over(W, names) /\ HasChild(p, t)
  <2>1. CASE v.kind = "list"
    <3>1. f \in Seq(V) /\ v = List(f)
      BY <2>1, KindsOf DEF f
    <3>2. f \in [1..Len(f) -> W] /\ Len(f) \in Nat
      BY <3>1
    <3>3. g \in [1..Len(f) -> W]
      BY <1>1, <3>2
    <3>4. g \in Seq(W) /\ Len(g) = Len(f)
      BY <3>2, <3>3
    <3>5. p = List(g)
      <4>1. v.atom = 0
        BY <3>1 DEF List
      <4>2. p = [kind |-> v.kind, atom |-> v.atom, items |-> g]
        BY <1>4
      <4> HIDE DEF p, g
      <4> QED BY <2>1, <4>1, <4>2 DEF List
    <3>6. t \in 0..(Len(f) - 1)
      BY <2>1 DEF HasChild, IsIndex, f
    <3> HIDE DEF p, g
    <3>7. p \in Over(W, names)
      BY <3>4, <3>5, ListIsOver
    <3> QED BY <1>5, <2>1, <3>4, <3>6, <3>7 DEF HasChild, IsIndex
  <2>2. CASE v.kind = "object"
    <3>1. f \in [DOMAIN f -> V] /\ DOMAIN f \in SUBSET names /\ v = Object(f)
      BY <2>2, KindsOf DEF f
    <3>2. g \in [DOMAIN f -> W]
      BY <1>1, <3>1
    <3>3. p = Object(g)
      <4>1. v.atom = 0
        BY <3>1 DEF Object
      <4>2. p = [kind |-> v.kind, atom |-> v.atom, items |-> g]
        BY <1>4
      <4> HIDE DEF p, g
      <4> QED BY <2>2, <4>1, <4>2 DEF Object
    <3>4. t \in DOMAIN f
      BY <2>2 DEF HasChild, f
    <3> HIDE DEF p
    <3>5. p \in Over(W, names)
      <4> HIDE DEF g
      <4> QED BY <3>1, <3>2, <3>3, ObjectIsOver
    <3> HIDE DEF g
    <3> QED BY <1>5, <1>6, <2>2, <3>4, <3>5 DEF HasChild
  <2> QED BY <1>2, <2>1, <2>2
<1>8. ASSUME NEW w
      PROVE  Put(p, t, w) = Put(v, t, w)
  <2>1. Put(p, t, w) = [p EXCEPT !.items = [p.items EXCEPT ![Slot(p, t)] = w]]
    BY DEF Put
  <2>2. p = [kind |-> v.kind, atom |-> v.atom, items |-> g]
    BY <1>4
  <2>3. [g EXCEPT ![s] = w] = [f EXCEPT ![s] = w]
    BY <1>1
  <2> HIDE DEF p, g
  <2>4. Put(p, t, w) = [p EXCEPT !.items = [g EXCEPT ![s] = w]]
    BY <1>5, <2>1
  <2>5. Put(p, t, w) = [kind |-> v.kind, atom |-> v.atom, items |-> [g EXCEPT ![s] = w]]
    BY <2>2, <2>4
  <2> QED BY <1>4, <2>3, <2>5
<1>9. Put(v, t, f[s]) = v
  <2>1. [f EXCEPT ![s] = f[s]] = f
    <3>1. CASE v.kind = "list"
      <4>1. f \in Seq(V)
        BY <3>1, KindsOf DEF f
      <4> QED BY <4>1
    <3>2. CASE v.kind = "object"
      <4>1. f \in [DOMAIN f -> V]
        BY <3>2, KindsOf DEF f
      <4> QED BY <4>1
    <3> QED BY <1>2, <3>1, <3>2
  <2> QED BY <1>2, <1>4, <2>1
<1> HIDE DEF p, g
<1>10. p.items[Slot(p, t)] = new
  BY <1>5, <1>6
<1>11. IsPut(p, v, t, new)
  BY <1>7, <1>8, <1>10, Zenon DEF IsPut
<1> QED BY <1>7, <1>9, <1>11 DEF p, s, f

LEMMA PutBack ==
  ASSUME NEW V, NEW names, NEW v \in Over(V, names), NEW t, HasChild(v, t)
  PROVE  Put(v, t, v.items[Slot(v, t)]) = v
<1> DEFINE new == v.items[Slot(v, t)]
<1>1. new \in V /\ V \subseteq V
  BY ChildIs
<1> HIDE DEF new
<1>2. /\ Put(v, t, new) \in Over(V, names) /\ IsPut(Put(v, t, new), v, t, new)
      /\ Put(v, t, v.items[Slot(v, t)]) = v
  BY <1>1, PutIs
<1> QED BY <1>2

\* The values that a path leads through.
Walks(w, doc, p, n) == w[0] = doc /\ \A i \in 1..n : w[i] = Child(w[i - 1], p[i])

LEMMA WalkExists ==
  ASSUME NEW n \in Nat, NEW doc, NEW p
  PROVE  \E w : Walks(w, doc, p, n)
<1> DEFINE A == {k \in Nat : \E w : Walks(w, doc, p, k)}
<1>1. 0 \in A
  <2>1. Walks([i \in {0} |-> doc], doc, p, 0)
    BY DEF Walks
  <2> QED BY <2>1
<1>2. ASSUME NEW k \in A
      PROVE  k + 1 \in A
  <2>1. k \in Nat
    OBVIOUS
  <2>2. PICK w : Walks(w, doc, p, k)
    OBVIOUS
  <2> DEFINE x == [i \in 0..(k + 1) |-> IF i = k + 1 THEN Child(w[k], p[k + 1]) ELSE w[i]]
  <2>3. x[0] = doc
    BY <2>1, <2>2 DEF Walks
  <2>4. ASSUME NEW i \in 1..(k + 1)
        PROVE  x[i] = Child(x[i - 1], p[i])
    <3>1. CASE i = k + 1
      BY <2>1, <3>1
    <3>2. CASE i # k + 1
      BY <2>1, <2>2, <3>2 DEF Walks
    <3> QED BY <3>1, <3>2
  <2> HIDE DEF x
  <2>5. Walks(x, doc, p, k + 1)
    BY <2>3, <2>4 DEF Walks
  <2> QED BY <2>1, <2>5
<1>3. A = Nat
  <2>1. A \subseteq Nat
    OBVIOUS
  <2> HIDE DEF A
  <2> QED BY <1>1, <1>2, <2>1, NatsAll
<1> QED BY <1>3

Leading(g, doc, p, n) ==
  g = [s \in SUBSET (1..n) |-> IF s = {} THEN doc ELSE Child(g[s \ {Max(s)}], p[Max(s)])]

LEMMA LeadingExists ==
  ASSUME NEW n \in Nat, NEW doc, NEW p
  PROVE  \E g : Leading(g, doc, p, n)
<1> DEFINE Of(g, s) == IF s = {} THEN doc ELSE Child(g[s \ {Max(s)}], p[Max(s)])
           A == {k \in Nat : \E g : \A s \in SUBSET (1..k) : g[s] = Of(g, s)}
<1>1. 0 \in A
  <2>1. \A s \in SUBSET (1..0) : s = {}
    OBVIOUS
  <2>2. \A s \in SUBSET (1..0) : [t \in {{}} |-> doc][s] = Of([t \in {{}} |-> doc], s)
    BY <2>1
  <2> HIDE DEF Of
  <2> QED BY <2>2
<1>2. ASSUME NEW k \in A
      PROVE  k + 1 \in A
  <2>1. k \in Nat /\ k + 1 \in Nat
    OBVIOUS
  <2>2. PICK g : \A s \in SUBSET (1..k) : g[s] = Of(g, s)
    OBVIOUS
  <2> DEFINE h == [s \in SUBSET (1..(k + 1)) |-> IF s \in SUBSET (1..k) THEN g[s] ELSE Of(g, s)]
  <2>3. ASSUME NEW s \in SUBSET (1..(k + 1))
        PROVE  h[s] = Of(h, s)
    <3>1. h[s] = Of(g, s)
      <4> HIDE DEF Of
      <4> QED BY <2>2
    <3>2. s # {} => h[s \ {Max(s)}] = g[s \ {Max(s)}]
      <4> SUFFICES ASSUME s # {}
                   PROVE  h[s \ {Max(s)}] = g[s \ {Max(s)}]
        OBVIOUS
      <4>1. Max(s) \in s /\ \A y \in s : y <= Max(s)
        BY <2>1, MaxOfSome
      <4>2. \A y \in s \ {Max(s)} : y \in 1..k
        <5> TAKE y \in s \ {Max(s)}
        <5> DEFINE m == Max(s)
        <5>1. y \in 1..(k + 1) /\ m \in 1..(k + 1) /\ y <= m /\ y # m
          BY <4>1
        <5> HIDE DEF m
        <5> QED BY <2>1, <5>1
      <4> DEFINE r == s \ {Max(s)}
      <4>3. r \in SUBSET (1..k) /\ r \in SUBSET (1..(k + 1))
        BY <4>2
      <4> HIDE DEF r, Of
      <4>4. h[r] = g[r]
        BY <4>3
      <4> QED BY <4>4 DEF r
    <3> HIDE DEF h
    <3> QED BY <3>1, <3>2
  <2> HIDE DEF h, Of
  <2> QED BY <2>1, <2>3
<1>3. A = Nat
  <2>1. A \subseteq Nat
    OBVIOUS
  <2> HIDE DEF A
  <2> QED BY <1>1, <1>2, <2>1, NatsAll
<1>4. PICK g : \A s \in SUBSET (1..n) : g[s] = Of(g, s)
  BY <1>3
<1> DEFINE h == [s \in SUBSET (1..n) |-> g[s]]
<1>5. ASSUME NEW s \in SUBSET (1..n)
      PROVE  Of(g, s) = Of(h, s)
  <2>1. s \ {Max(s)} \in SUBSET (1..n)
    OBVIOUS
  <2>2. h[s \ {Max(s)}] = g[s \ {Max(s)}]
    BY <2>1
  <2> HIDE DEF h
  <2> QED BY <2>2
<1>6. h = [s \in SUBSET (1..n) |-> Of(h, s)]
  <2> HIDE DEF Of
  <2> QED BY <1>4, <1>5
<1>7. Leading(h, doc, p, n)
  <2> HIDE DEF h
  <2> QED BY <1>6, Zenon DEF Leading
<1> QED BY <1>7

LEMMA FindIsWalk ==
  ASSUME NEW n \in Nat, NEW p, DOMAIN p = 1..n, NEW doc, NEW w, Walks(w, doc, p, n)
  PROVE  Find(doc, p) = w[n]
<1> DEFINE g == CHOOSE g : Leading(g, doc, p, n)
<1>1. Find(doc, p) = g[1..n]
  BY Zenon DEF Find, FoldLeft, MapThenFoldSet, Leading, Child
<1>2. Leading(g, doc, p, n)
  BY LeadingExists, Zenon
<1> HIDE DEF g
<1> DEFINE A == {i \in 0..n : g[1..i] = w[i]}
<1>3. 0 \in A
  <2>1. 1..0 = {}
    OBVIOUS
  <2>2. g[{}] = doc
    BY <1>2 DEF Leading
  <2>3. w[0] = doc /\ 0 \in 0..n
    BY DEF Walks
  <2>4. g[1..0] = w[0]
    BY <2>1, <2>2, <2>3, Zenon
  <2> QED BY <2>3, <2>4, Zenon
<1>4. ASSUME NEW i \in 1..n, i - 1 \in A
      PROVE  i \in A
  <2> DEFINE s == 1..i
  <2>1. s \in SUBSET (1..n) /\ i \in Nat \ {0} /\ i \in 0..n
    OBVIOUS
  <2>2. Max(s) = i /\ s \ {i} = 1..(i - 1) /\ s # {}
    BY <2>1, LastPlace
  <2> HIDE DEF s
  <2>3. g[s] = Child(g[s \ {Max(s)}], p[Max(s)])
    BY <1>2, <2>1, <2>2, Zenon DEF Leading
  <2>4. g[s] = Child(g[1..(i - 1)], p[i])
    BY <2>2, <2>3, Zenon
  <2>5. g[1..(i - 1)] = w[i - 1]
    BY <1>4
  <2>6. w[i] = Child(w[i - 1], p[i])
    BY DEF Walks
  <2> QED BY <2>1, <2>4, <2>5, <2>6 DEF s
<1>5. n \in A
  <2> HIDE DEF A
  <2>1. 0..n \subseteq A
    BY <1>3, <1>4, UpTo
  <2> QED BY <2>1
<1> QED BY <1>1, <1>5

LEMMA FindAlong ==
  ASSUME NEW X, NEW p \in Seq(X), NEW doc, NEW w, Walks(w, doc, p, Len(p)), NEW i \in 0..Len(p)
  PROVE  Find(doc, SubSeq(p, 1, i)) = w[i]
<1> DEFINE q == SubSeq(p, 1, i)
           n == Len(p)
<1>1. n \in Nat
  OBVIOUS
<1>2. DOMAIN q = 1..i /\ i \in Nat /\ \A j \in 1..i : q[j] = p[j] /\ j \in 1..n
  OBVIOUS
<1> HIDE DEF q, n
<1>3. Walks(w, doc, q, i)
  BY <1>1, <1>2 DEF Walks, n
<1>4. Find(doc, q) = w[i]
  BY <1>2, <1>3, FindIsWalk
<1> QED BY <1>4 DEF q

\* The values on the way to a new one.
Spines(S, w, p, n, new) == S[n] = new /\ \A i \in 0..(n - 1) : S[i] = Put(w[i], p[i + 1], S[i + 1])

SpineIs(S, w, p, n, new) == S = [i \in 0..n |-> IF i = n THEN new ELSE Put(w[i], p[i + 1], S[i + 1])]

LEMMA SpineExists ==
  ASSUME NEW n \in Nat, NEW w, NEW p, NEW new
  PROVE  \E S : SpineIs(S, w, p, n, new)
<1> DEFINE Of(S, i) == IF i = n THEN new ELSE Put(w[i], p[i + 1], S[i + 1])
           A == {k \in 0..n : \E S : \A i \in (n - k)..n : S[i] = Of(S, i)}
<1>1. 0 \in A
  <2>1. \A i \in (n - 0)..n : [j \in {n} |-> new][i] = Of([j \in {n} |-> new], i)
    OBVIOUS
  <2> HIDE DEF Of
  <2> QED BY <2>1
<1>2. ASSUME NEW k \in 1..n, k - 1 \in A
      PROVE  k \in A
  <2>1. PICK S : \A i \in (n - (k - 1))..n : S[i] = Of(S, i)
    BY <1>2
  <2> DEFINE m == n - k
             Z == [i \in m..n |-> IF i = m THEN Of(S, m) ELSE S[i]]
  <2>2. m \in Nat /\ m < n /\ \A i \in m..n : i = m \/ i \in (n - (k - 1))..n
    OBVIOUS
  <2>3. \A i \in m..n : i # n => i + 1 \in m..n /\ i + 1 # m
    BY <2>2
  <2>4. ASSUME NEW i \in m..n
        PROVE  Z[i] = Of(Z, i)
    <3>1. Z[i] = Of(S, i)
      <4> HIDE DEF Of, m
      <4> QED BY <2>1, <2>2
    <3>2. i # n => Z[i + 1] = S[i + 1]
      <4> HIDE DEF Of, m
      <4> QED BY <2>3
    <3> HIDE DEF Z
    <3> QED BY <3>1, <3>2
  <2>5. \A i \in (n - k)..n : Z[i] = Of(Z, i)
    BY <2>4
  <2> HIDE DEF Z, Of
  <2>6. k \in 0..n
    OBVIOUS
  <2> QED BY <2>5, <2>6
<1>3. n \in A
  <2> HIDE DEF A
  <2>1. 0..n \subseteq A
    BY <1>1, <1>2, UpTo
  <2> QED BY <2>1
<1>4. PICK S : \A i \in (n - n)..n : S[i] = Of(S, i)
  BY <1>3
<1> DEFINE Z == [i \in 0..n |-> S[i]]
<1>5. ASSUME NEW i \in 0..n
      PROVE  Z[i] = Of(Z, i)
  <2>1. i # n => Z[i + 1] = S[i + 1]
    OBVIOUS
  <2>2. Z[i] = Of(S, i)
    <3>1. i \in (n - n)..n
      OBVIOUS
    <3>2. Z[i] = S[i]
      OBVIOUS
    <3> HIDE DEF Of, Z
    <3> QED BY <1>4, <3>1, <3>2
  <2> HIDE DEF Z
  <2> QED BY <2>1, <2>2
<1>6. Z = [i \in 0..n |-> Of(Z, i)]
  <2>1. Z = [i \in 0..n |-> Z[i]]
    OBVIOUS
  <2> HIDE DEF Z, Of
  <2>2. [i \in 0..n |-> Z[i]] = [i \in 0..n |-> Of(Z, i)]
    BY <1>5
  <2> QED BY <2>1, <2>2, Zenon
<1> HIDE DEF Z
<1>7. SpineIs(Z, w, p, n, new)
  BY <1>6, Zenon DEF SpineIs
<1> QED BY <1>7

SameWay(w, x, p, n) == \A i \in 0..(n - 1) : \A v : Put(w[i], p[i + 1], v) = Put(x[i], p[i + 1], v)

LEMMA SpinesAgree ==
  ASSUME NEW n \in Nat, NEW w, NEW x, NEW p, NEW new, NEW S, NEW T,
         Spines(S, w, p, n, new), Spines(T, x, p, n, new),
         SameWay(w, x, p, n)
  PROVE  S[0] = T[0]
<1> DEFINE A == {k \in 0..n : S[n - k] = T[n - k]}
<1>1. 0 \in A
  BY DEF Spines
<1>2. ASSUME NEW k \in 1..n, k - 1 \in A
      PROVE  k \in A
  <2> DEFINE i == n - k
  <2>1. i \in 0..(n - 1) /\ n - (k - 1) = i + 1 /\ k \in 0..n
    OBVIOUS
  <2>2. S[i + 1] = T[i + 1]
    BY <1>2, <2>1
  <2> HIDE DEF i
  <2>3. S[i] = Put(w[i], p[i + 1], S[i + 1]) /\ T[i] = Put(x[i], p[i + 1], T[i + 1])
    BY <2>1, Zenon DEF Spines
  <2>4. Put(w[i], p[i + 1], S[i + 1]) = Put(x[i], p[i + 1], S[i + 1])
    BY <2>1, Zenon DEF SameWay
  <2>5. S[i] = T[i]
    BY <2>2, <2>3, <2>4, Zenon
  <2> QED BY <2>1, <2>5 DEF i
<1>3. n \in A
  <2> HIDE DEF A
  <2>1. 0..n \subseteq A
    BY <1>1, <1>2, UpTo
  <2> QED BY <2>1
<1>4. S[n - n] = T[n - n]
  BY <1>3
<1> QED BY <1>4

LEMMA WithIsSpine ==
  ASSUME NEW X, NEW p \in Seq(X), NEW doc, NEW w, Walks(w, doc, p, Len(p)), NEW new, NEW S,
         Spines(S, w, p, Len(p), new)
  PROVE  With(doc, p, new) = S[0]
<1> DEFINE n == Len(p)
           F(T) == [i \in 0..n |-> IF i = n THEN new ELSE Put(Find(doc, SubSeq(p, 1, i)), p[i + 1], T[i + 1])]
           G(T) == [i \in 0..n |-> IF i = n THEN new ELSE Put(w[i], p[i + 1], T[i + 1])]
           T == CHOOSE T : T = G(T)
<1>1. With(doc, p, new) = (CHOOSE Q : Q = F(Q))[0]
  BY Zenon DEF With, Put
<1>2. n \in Nat
  OBVIOUS
<1>3. \A i \in 0..n : Find(doc, SubSeq(p, 1, i)) = w[i]
  BY FindAlong
<1>4. ASSUME NEW Q
      PROVE  F(Q) = G(Q)
  <2> HIDE DEF n
  <2> QED BY <1>3
<1> HIDE DEF F
<1>5. With(doc, p, new) = T[0]
  <2> HIDE DEF G
  <2> QED BY <1>1, <1>4
<1>6. T = G(T)
  <2>1. \E Q : Q = G(Q)
    <3>1. PICK Q : SpineIs(Q, w, p, n, new)
      <4> HIDE DEF n
      <4> QED BY <1>2, SpineExists
    <3>2. Q = G(Q)
      BY <3>1, Zenon DEF SpineIs
    <3> QED BY <3>2, Zenon
  <2> HIDE DEF G
  <2> QED BY <2>1, Zenon
<1> HIDE DEF T, n
<1>7. Spines(T, w, p, n, new)
  BY <1>2, <1>6 DEF Spines
<1>8. T[0] = S[0]
  <2>1. Spines(S, w, p, n, new)
    BY DEF n
  <2>2. SameWay(w, w, p, n)
    BY Zenon DEF SameWay
  <2> QED BY <1>2, <1>7, <2>1, <2>2, SpinesAgree
<1> QED BY <1>5, <1>8

\* A path that leads to a value.
Reaches(w, p, n) ==
  \A i \in 0..(n - 1) : w[i] # None /\ HasChild(w[i], p[i + 1]) /\ w[i + 1] = w[i].items[Slot(w[i], p[i + 1])]

LEMMA ReachesValue ==
  ASSUME NEW n \in Nat, NEW w, NEW doc, NEW p, Walks(w, doc, p, n), w[n] # None
  PROVE  Reaches(w, p, n)
<1> DEFINE A == {k \in 0..n : w[n - k] # None}
<1>1. ASSUME NEW i \in 0..(n - 1), w[i + 1] # None
      PROVE  w[i] # None /\ HasChild(w[i], p[i + 1]) /\ w[i + 1] = w[i].items[Slot(w[i], p[i + 1])]
  <2> DEFINE j == i + 1
  <2>1. j \in 1..n /\ j - 1 = i
    OBVIOUS
  <2> HIDE DEF j
  <2>2. w[j] = Child(w[j - 1], p[j])
    BY <2>1, Zenon DEF Walks
  <2>3. w[j] = Child(w[i], p[j])
    BY <2>1, <2>2
  <2>4. w[j] # None
    BY <1>1 DEF j
  <2>5. w[i] # None /\ HasChild(w[i], p[j]) /\ w[j] = w[i].items[Slot(w[i], p[j])]
    BY <2>3, <2>4, Zenon DEF Child
  <2> QED BY <2>5 DEF j
<1>2. 0 \in A
  OBVIOUS
<1>3. ASSUME NEW k \in 1..n, k - 1 \in A
      PROVE  k \in A
  <2> DEFINE i == n - k
  <2>1. i \in 0..(n - 1) /\ n - (k - 1) = i + 1 /\ k \in 0..n
    OBVIOUS
  <2>2. w[i + 1] # None
    BY <1>3, <2>1
  <2> HIDE DEF i
  <2>3. w[i] # None
    BY <1>1, <2>1, <2>2
  <2> QED BY <2>1, <2>3 DEF i
<1>4. 0..n \subseteq A
  <2> HIDE DEF A
  <2> QED BY <1>2, <1>3, UpTo
<1>5. ASSUME NEW i \in 0..(n - 1)
      PROVE  w[i + 1] # None
  <2> DEFINE k == n - (i + 1)
  <2>1. k \in 0..n /\ n - k = i + 1
    OBVIOUS
  <2> HIDE DEF k
  <2>2. w[n - k] # None
    BY <1>4, <2>1
  <2> QED BY <2>1, <2>2
<1> HIDE DEF A
<1> QED BY <1>1, <1>5 DEF Reaches

-----------------------------------------------------------------------------
(* Another value where a path leads *)

LEMMA WalkIsIn ==
  ASSUME NEW names, NEW d \in Nat, NEW doc \in Nesting(names)[d], NEW n \in Nat, NEW w, NEW p,
         Walks(w, doc, p, n), Reaches(w, p, n)
  PROVE  \A i \in 0..n : i < d /\ w[i] \in Nesting(names)[d - i]
<1> DEFINE N == Nesting(names)
           A == {i \in 0..n : i < d /\ w[i] \in N[d - i]}
<1>1. N[0] = {} /\ \A k \in Nat : N[k + 1] = Over(N[k], names)
  BY NestingIs
<1>2. 0 \in A
  <2>1. d # 0
    <3>1. doc \in N[d]
      OBVIOUS
    <3> HIDE DEF N
    <3> QED BY <1>1, <3>1
  <2>2. w[0] = doc /\ d - 0 = d /\ doc \in N[d]
    BY DEF Walks
  <2> HIDE DEF N
  <2> QED BY <2>1, <2>2
<1> HIDE DEF N
<1>3. ASSUME NEW i \in 1..n, i - 1 \in A
      PROVE  i \in A
  <2> DEFINE j == i - 1
             k == d - i
  <2>1. j \in 0..(n - 1) /\ j + 1 = i /\ j < d /\ k \in Nat /\ d - j = k + 1 /\ i \in 0..n
    BY <1>3
  <2>2. w[j] \in N[k + 1]
    BY <1>3, <2>1
  <2> HIDE DEF j, k
  <2>3. w[j] \in Over(N[k], names)
    BY <1>1, <2>1, <2>2
  <2>4. HasChild(w[j], p[i]) /\ w[i] = w[j].items[Slot(w[j], p[i])]
    <3>1. HasChild(w[j], p[j + 1]) /\ w[j + 1] = w[j].items[Slot(w[j], p[j + 1])]
      BY <2>1, Zenon DEF Reaches
    <3> QED BY <2>1, <3>1
  <2>5. w[i] \in N[k]
    BY <2>3, <2>4, ChildIs
  <2>6. k # 0
    BY <1>1, <2>5
  <2> QED BY <2>1, <2>5, <2>6 DEF k
<1>4. 0..n \subseteq A
  <2> HIDE DEF A
  <2> QED BY <1>2, <1>3, UpTo
<1> QED BY <1>4 DEF N

LevelOf(S, n, names, d) == \A i \in 0..n : S[i] \in Nesting(names)[d - i] /\ S[i] # None

\* The way to the new value is as the way to the old one was.
LEMMA SpineIsWalk ==
  ASSUME NEW names, NEW d \in Nat, NEW doc \in Nesting(names)[d], None \notin Nesting(names)[d],
         NEW n \in Nat, NEW w, NEW p, Walks(w, doc, p, n), Reaches(w, p, n), n < d,
         NEW new \in Nesting(names)[d - n], NEW S, Spines(S, w, p, n, new)
  PROVE  LevelOf(S, n, names, d) /\ SameWay(S, w, p, n) /\ Walks(S, S[0], p, n)
<1> DEFINE N == Nesting(names)
           A == {k \in 0..n : S[n - k] \in N[d - (n - k)]}
<1>1. N[0] = {} /\ \A k \in Nat : N[k + 1] = Over(N[k], names)
  BY NestingIs
<1>2. \A i \in 0..n : i < d /\ w[i] \in N[d - i]
  BY WalkIsIn
<1>3. \A i \in 0..n : N[d - i] \subseteq N[d]
  <2> TAKE i \in 0..n
  <2> DEFINE e == d - i
  <2>1. e \in Nat /\ e <= d
    BY <1>2
  <2> HIDE DEF e
  <2>2. N[e] \subseteq N[d]
    BY <2>1, NestingGrows
  <2> QED BY <2>2 DEF e
<1>4. S[n] \in N[d - n]
  BY DEF Spines
<1> HIDE DEF N
<1>5. ASSUME NEW i \in 0..(n - 1), S[i + 1] \in N[d - (i + 1)]
      PROVE  /\ S[i] \in N[d - i] /\ HasChild(S[i], p[i + 1]) /\ S[i + 1] = S[i].items[Slot(S[i], p[i + 1])]
             /\ \A v : Put(S[i], p[i + 1], v) = Put(w[i], p[i + 1], v)
  <2> DEFINE e == d - (i + 1)
             t == p[i + 1]
             new1 == S[i + 1]
  <2>1. i \in 0..n /\ i + 1 \in 0..n
    OBVIOUS
  <2>2. i + 1 < d /\ i < d
    BY <1>2, <2>1
  <2>3. e \in Nat /\ d - i = e + 1
    BY <2>1, <2>2
  <2>4. w[i] \in N[e + 1] /\ new1 \in N[e]
    BY <1>2, <1>5, <2>1, <2>3
  <2>5. S[i] = Put(w[i], t, new1) /\ HasChild(w[i], t)
    BY Zenon DEF Spines, Reaches
  <2> HIDE DEF e, t, new1
  <2>6. w[i] \in Over(N[e], names) /\ N[e + 1] = Over(N[e], names)
    BY <1>1, <2>3, <2>4
  <2> DEFINE q == Put(w[i], t, new1)
  <2>7. /\ q \in Over(N[e], names) /\ HasChild(q, t) /\ q.items[Slot(q, t)] = new1
        /\ \A v : Put(q, t, v) = Put(w[i], t, v)
    <3>1. q \in Over(N[e], names) /\ IsPut(q, w[i], t, new1)
      <4> DEFINE V == N[e]
                 x == w[i]
      <4>1. V \subseteq V /\ x \in Over(V, names) /\ HasChild(x, t) /\ new1 \in V
        BY <2>4, <2>5, <2>6
      <4> HIDE DEF V, x
      <4>2. Put(x, t, new1) \in Over(V, names) /\ IsPut(Put(x, t, new1), x, t, new1)
        BY <4>1, PutIs
      <4> QED BY <4>2, Zenon DEF V, x
    <3> HIDE DEF q
    <3> QED BY <3>1, Zenon DEF IsPut
  <2> HIDE DEF q
  <2>8. S[i] = q
    BY <2>5 DEF q
  <2>9. S[i] \in N[e + 1] /\ HasChild(S[i], t) /\ S[i].items[Slot(S[i], t)] = new1
    BY <2>6, <2>7, <2>8
  <2>10. \A v : Put(S[i], t, v) = Put(w[i], t, v)
    BY <2>7, <2>8
  <2> QED BY <2>3, <2>9, <2>10, Zenon DEF t, new1
<1>6. 0 \in A
  BY <1>4
<1>7. ASSUME NEW k \in 1..n, k - 1 \in A
      PROVE  k \in A
  <2> DEFINE i == n - k
  <2>1. i \in 0..(n - 1) /\ n - (k - 1) = i + 1 /\ k \in 0..n
    OBVIOUS
  <2>2. S[i + 1] \in N[d - (i + 1)]
    BY <1>7, <2>1
  <2> HIDE DEF i
  <2>3. S[i] \in N[d - i]
    BY <1>5, <2>1, <2>2
  <2> QED BY <2>1, <2>3 DEF i
<1>8. 0..n \subseteq A
  <2> HIDE DEF A
  <2> QED BY <1>6, <1>7, UpTo
<1>9. ASSUME NEW i \in 0..n
      PROVE  S[i] \in N[d - i]
  <2> DEFINE k == n - i
  <2>1. k \in 0..n /\ n - k = i
    OBVIOUS
  <2> HIDE DEF k
  <2>2. S[n - k] \in N[d - (n - k)]
    BY <1>8, <2>1
  <2> QED BY <2>1, <2>2
<1>10. \A i \in 0..n : S[i] # None
  <2>1. None \notin N[d]
    BY DEF N
  <2> QED BY <1>3, <1>9, <2>1
<1>11. \A i \in 0..(n - 1) : /\ HasChild(S[i], p[i + 1]) /\ S[i + 1] = S[i].items[Slot(S[i], p[i + 1])]
                             /\ \A v : Put(S[i], p[i + 1], v) = Put(w[i], p[i + 1], v)
  <2> TAKE i \in 0..(n - 1)
  <2>1. i + 1 \in 0..n
    OBVIOUS
  <2>2. S[i + 1] \in N[d - (i + 1)]
    BY <1>9, <2>1
  <2> QED BY <1>5, <2>2
<1>12. Walks(S, S[0], p, n)
  <2> SUFFICES ASSUME NEW i \in 1..n
               PROVE  S[i] = Child(S[i - 1], p[i])
    BY DEF Walks
  <2> DEFINE j == i - 1
  <2>1. j \in 0..(n - 1) /\ j \in 0..n /\ j + 1 = i
    OBVIOUS
  <2> HIDE DEF j
  <2>2. HasChild(S[j], p[j + 1]) /\ S[j + 1] = S[j].items[Slot(S[j], p[j + 1])] /\ S[j] # None
    BY <1>10, <1>11, <2>1
  <2>3. S[j + 1] = Child(S[j], p[j + 1])
    BY <2>2, Zenon DEF Child
  <2> QED BY <2>1, <2>3 DEF j
<1>13. LevelOf(S, n, names, d)
  BY <1>9, <1>10 DEF N, LevelOf
<1>14. SameWay(S, w, p, n)
  BY <1>11, Zenon DEF SameWay
<1> QED BY <1>12, <1>13, <1>14

\* What is put where a path leads is found there, nothing else is left of what
\* was there, and to put back what was found there changes nothing.
LEMMA WithIs ==
  ASSUME NEW names, NEW d \in Nat, None \notin Nesting(names)[d], NEW doc \in Nesting(names)[d],
         NEW X, NEW p \in Seq(X), Find(doc, p) # None,
         NEW new \in Nesting(names)[d - Len(p)]
  PROVE  /\ With(doc, p, new) \in Nesting(names)[d] /\ Find(With(doc, p, new), p) = new
         /\ \A v : With(With(doc, p, new), p, v) = With(doc, p, v)
         /\ With(doc, p, Find(doc, p)) = doc
<1> DEFINE n == Len(p)
<1>1. n \in Nat /\ DOMAIN p = 1..n
  OBVIOUS
<1> HIDE DEF n
<1>2. PICK w : Walks(w, doc, p, n)
  BY <1>1, WalkExists
<1>3. Find(doc, p) = w[n]
  BY <1>1, <1>2, FindIsWalk
<1>4. Reaches(w, p, n)
  BY <1>1, <1>2, <1>3, ReachesValue
<1>5. n < d
  <2>1. n \in 0..n
    BY <1>1
  <2> QED BY <1>1, <1>2, <1>4, <2>1, WalkIsIn
<1>6. \A v : \E S : Spines(S, w, p, n, v)
  <2> TAKE v
  <2>1. PICK S : SpineIs(S, w, p, n, v)
    BY <1>1, SpineExists
  <2>2. Spines(S, w, p, n, v)
    BY <1>1, <2>1 DEF SpineIs, Spines
  <2> QED BY <2>2
<1>7. PICK S : Spines(S, w, p, n, new)
  BY <1>6
<1> DEFINE doc1 == With(doc, p, new)
<1>8. doc1 = S[0]
  BY <1>2, <1>7, WithIsSpine DEF n
<1>9. /\ \A i \in 0..n : S[i] \in Nesting(names)[d - i]
      /\ SameWay(S, w, p, n) /\ Walks(S, S[0], p, n)
  <2>1. new \in Nesting(names)[d - n]
    BY DEF n
  <2>2. d \in Nat /\ doc \in Nesting(names)[d] /\ None \notin Nesting(names)[d]
    OBVIOUS
  <2>3. LevelOf(S, n, names, d) /\ SameWay(S, w, p, n) /\ Walks(S, S[0], p, n)
    BY <1>1, <1>2, <1>4, <1>5, <1>7, <2>1, <2>2, SpineIsWalk
  <2> QED BY <2>3, Zenon DEF LevelOf
<1>10. doc1 \in Nesting(names)[d]
  <2>1. 0 \in 0..n /\ d - 0 = d
    BY <1>1
  <2>2. S[0] \in Nesting(names)[d - 0]
    BY <1>9, <2>1
  <2> QED BY <1>8, <2>1, <2>2
<1>11. Walks(S, doc1, p, n)
  BY <1>8, <1>9
<1> HIDE DEF doc1
<1>12. Find(doc1, p) = new
  <2>1. Find(doc1, p) = S[n]
    BY <1>1, <1>11, FindIsWalk
  <2> QED BY <1>7, <2>1 DEF Spines
<1>13. ASSUME NEW v
       PROVE  With(doc1, p, v) = With(doc, p, v)
  <2>1. PICK T : Spines(T, w, p, n, v)
    BY <1>6
  <2>2. PICK U : Spines(U, S, p, n, v)
    <3>1. PICK U : SpineIs(U, S, p, n, v)
      BY <1>1, SpineExists
    <3>2. Spines(U, S, p, n, v)
      BY <1>1, <3>1 DEF SpineIs, Spines
    <3> QED BY <3>2
  <2>3. With(doc, p, v) = T[0]
    BY <1>2, <2>1, WithIsSpine DEF n
  <2>4. With(doc1, p, v) = U[0]
    BY <1>11, <2>2, WithIsSpine DEF n
  <2>5. U[0] = T[0]
    <3>1. SameWay(S, w, p, n)
      BY <1>9
    <3> QED BY <1>1, <2>1, <2>2, <3>1, SpinesAgree
  <2> QED BY <2>3, <2>4, <2>5
<1>14. With(doc, p, Find(doc, p)) = doc
  <2>1. Spines(w, w, p, n, w[n])
    <3> SUFFICES ASSUME NEW i \in 0..(n - 1)
                 PROVE  w[i] = Put(w[i], p[i + 1], w[i + 1])
      BY DEF Spines
    <3>1. i \in 0..n /\ HasChild(w[i], p[i + 1]) /\ w[i + 1] = w[i].items[Slot(w[i], p[i + 1])]
      BY <1>1, <1>4 DEF Reaches
    <3> DEFINE k == d - i - 1
    <3>2. i < d /\ w[i] \in Nesting(names)[d - i]
      BY <1>1, <1>2, <1>4, <3>1, WalkIsIn
    <3>3. k \in Nat /\ d - i = k + 1
      BY <3>1, <3>2
    <3> HIDE DEF k
    <3>4. w[i] \in Over(Nesting(names)[k], names)
      BY <3>2, <3>3, NestingIs
    <3>5. w[i].items[Slot(w[i], p[i + 1])] \in Nesting(names)[k]
      BY <3>1, <3>4, ChildIs
    <3>6. Put(w[i], p[i + 1], w[i].items[Slot(w[i], p[i + 1])]) = w[i]
      BY <3>1, <3>4, PutBack
    <3> QED BY <3>1, <3>6
  <2>2. With(doc, p, w[n]) = w[0]
    BY <1>2, <2>1, WithIsSpine DEF n
  <2> QED BY <1>2, <1>3, <2>2 DEF Walks
<1> QED BY <1>10, <1>12, <1>13, <1>14 DEF doc1

-----------------------------------------------------------------------------
(* json_patch_apply *)

IsJoined(r, a, b) ==
  /\ Len(r) = Len(a) + Len(b)
  /\ \A j \in 1..Len(a) : r[j] = a[j]
  /\ \A j \in 1..Len(b) : r[Len(a) + j] = b[j]

LEMMA Joined ==
  ASSUME NEW V, NEW a \in Seq(V), NEW b \in Seq(V)
  PROVE  a \o b \in Seq(V) /\ IsJoined(a \o b, a, b)
  BY DEF IsJoined

LEMMA InsertedAt ==
  ASSUME NEW V, NEW s \in Seq(V), NEW i \in 1..(Len(s) + 1), NEW e \in V
  PROVE  /\ InsertAt(s, i, e) \in Seq(V) /\ Len(InsertAt(s, i, e)) = Len(s) + 1
         /\ InsertAt(s, i, e)[i] = e /\ RemoveAt(InsertAt(s, i, e), i) = s
<1> DEFINE n == Len(s)
           a == SubSeq(s, 1, i - 1)
           b == SubSeq(s, i, n)
           o == <<e>>
           ao == a \o o
           t == ao \o b
<1>1. n \in Nat /\ i \in Int
  OBVIOUS
<1>2. a \in Seq(V) /\ Len(a) = i - 1 /\ \A j \in 1..(i - 1) : a[j] = s[j]
  OBVIOUS
<1>3. b \in Seq(V) /\ Len(b) = n - i + 1 /\ \A j \in 1..(n - i + 1) : b[j] = s[j + i - 1]
  OBVIOUS
<1>4. InsertAt(s, i, e) = t
  BY DEF InsertAt
<1>5. o \in Seq(V) /\ Len(o) = 1 /\ o[1] = e
  OBVIOUS
<1> HIDE DEF a, b, n, o
<1>6. /\ ao \in Seq(V) /\ Len(ao) = i /\ ao[i] = e
      /\ \A j \in 1..(i - 1) : ao[j] = s[j]
  <2>1. ao \in Seq(V) /\ IsJoined(ao, a, o)
    BY <1>2, <1>5, Joined
  <2> HIDE DEF ao
  <2>2. i - 1 + 1 = i /\ 1 \in 1..Len(o)
    BY <1>1, <1>5
  <2> QED BY <1>2, <1>5, <2>1, <2>2 DEF IsJoined
<1> HIDE DEF ao
<1>7. /\ t \in Seq(V) /\ Len(t) = n + 1
      /\ \A j \in 1..i : t[j] = ao[j]
      /\ \A j \in 1..(n - i + 1) : t[i + j] = b[j]
  <2>1. t \in Seq(V) /\ IsJoined(t, ao, b)
    BY <1>3, <1>6, Joined
  <2> HIDE DEF t
  <2>2. i + (n - i + 1) = n + 1
    BY <1>1
  <2> QED BY <1>3, <1>6, <2>1, <2>2 DEF IsJoined
<1> HIDE DEF t
<1>8. t[i] = e /\ \A j \in 1..(i - 1) : t[j] = s[j]
  BY <1>1, <1>6, <1>7
<1> DEFINE c == SubSeq(t, 1, i - 1)
           d == SubSeq(t, i + 1, n + 1)
           r == c \o d
<1>9. c \in Seq(V) /\ Len(c) = i - 1 /\ \A j \in 1..(i - 1) : c[j] = s[j]
  <2>1. i - 1 \in 0..Len(t)
    BY <1>1, <1>7 DEF n
  <2>2. c \in Seq(V) /\ Len(c) = i - 1 /\ \A j \in 1..(i - 1) : c[j] = t[j]
    BY <1>7, <2>1
  <2> HIDE DEF c
  <2> QED BY <1>8, <2>2
<1>10. d \in Seq(V) /\ Len(d) = n - i + 1 /\ \A j \in 1..(n - i + 1) : d[j] = s[j + i - 1]
  <2>1. i \in 1..(n + 1)
    BY DEF n
  <2>2. d \in Seq(V) /\ Len(d) = n - i + 1 /\ \A j \in 1..(n - i + 1) : d[j] = t[i + j]
    BY <1>1, <1>7, <2>1
  <2> HIDE DEF d
  <2> QED BY <1>3, <1>7, <2>2
<1>11. RemoveAt(t, i) = r
  BY <1>7 DEF RemoveAt
<1> HIDE DEF c, d
<1>12. /\ r \in Seq(V) /\ Len(r) = n
       /\ \A j \in 1..(i - 1) : r[j] = s[j]
       /\ \A j \in 1..(n - i + 1) : r[i - 1 + j] = s[j + i - 1]
  <2>1. r \in Seq(V) /\ IsJoined(r, c, d)
    BY <1>9, <1>10, Joined
  <2> HIDE DEF r
  <2>2. i - 1 + (n - i + 1) = n
    BY <1>1
  <2> QED BY <1>9, <1>10, <2>1, <2>2 DEF IsJoined
<1> HIDE DEF r
<1>13. \A j \in 1..n : r[j] = s[j]
  <2> SUFFICES ASSUME NEW j \in 1..n, j > i - 1
               PROVE  r[j] = s[j]
    BY <1>1, <1>12
  <2> DEFINE k == j - (i - 1)
  <2>1. k \in 1..(n - i + 1) /\ i - 1 + k = j /\ k + i - 1 = j
    BY <1>1
  <2> HIDE DEF k
  <2> QED BY <1>12, <2>1
<1>14. r = s
  BY <1>12, <1>13 DEF n
<1> QED BY <1>4, <1>7, <1>8, <1>11, <1>14 DEF n

LEMMA RemovedAt ==
  ASSUME NEW V, NEW s \in Seq(V), NEW i \in 1..Len(s)
  PROVE  /\ RemoveAt(s, i) \in Seq(V) /\ Len(RemoveAt(s, i)) = Len(s) - 1
         /\ InsertAt(RemoveAt(s, i), i, s[i]) = s
<1> DEFINE n == Len(s)
           c == SubSeq(s, 1, i - 1)
           d == SubSeq(s, i + 1, n)
           r == c \o d
<1>1. n \in Nat /\ s[i] \in V /\ i \in 1..n
  OBVIOUS
<1>2. c \in Seq(V) /\ Len(c) = i - 1 /\ \A j \in 1..(i - 1) : c[j] = s[j]
  OBVIOUS
<1>3. d \in Seq(V) /\ Len(d) = n - i /\ \A j \in 1..(n - i) : d[j] = s[j + i]
  OBVIOUS
<1>4. RemoveAt(s, i) = r
  BY DEF RemoveAt
<1> HIDE DEF c, d, n
<1>5. /\ r \in Seq(V) /\ Len(r) = n - 1
      /\ \A j \in 1..(i - 1) : r[j] = s[j]
      /\ \A j \in 1..(n - i) : r[i - 1 + j] = s[j + i]
  <2>1. r \in Seq(V) /\ IsJoined(r, c, d)
    BY <1>2, <1>3, Joined
  <2> HIDE DEF r
  <2>2. i - 1 + (n - i) = n - 1
    BY <1>1
  <2> QED BY <1>2, <1>3, <2>1, <2>2 DEF IsJoined
<1> HIDE DEF r
<1> DEFINE t == InsertAt(r, i, s[i])
           a == SubSeq(r, 1, i - 1)
           b == SubSeq(r, i, n - 1)
           e == s[i]
           o == <<e>>
           ao == a \o o
<1>6. o \in Seq(V) /\ Len(o) = 1 /\ o[1] = s[i]
  BY <1>1
<1>7. a \in Seq(V) /\ Len(a) = i - 1 /\ \A j \in 1..(i - 1) : a[j] = s[j]
  <2>1. i - 1 \in 0..Len(r)
    BY <1>1, <1>5
  <2>2. a \in Seq(V) /\ Len(a) = i - 1 /\ \A j \in 1..(i - 1) : a[j] = r[j]
    BY <1>5, <2>1
  <2> HIDE DEF a
  <2> QED BY <1>5, <2>2
<1>8. b \in Seq(V) /\ Len(b) = n - i /\ \A j \in 1..(n - i) : b[j] = s[j + i]
  <2>1. b \in Seq(V) /\ Len(b) = n - i /\ \A j \in 1..(n - i) : b[j] = r[i - 1 + j]
    BY <1>1, <1>5
  <2> HIDE DEF b
  <2> QED BY <1>5, <2>1
<1>9. t = ao \o b
  BY <1>5 DEF InsertAt
<1> HIDE DEF a, b, o
<1>10. /\ ao \in Seq(V) /\ Len(ao) = i /\ ao[i] = s[i]
       /\ \A j \in 1..(i - 1) : ao[j] = s[j]
  <2>1. ao \in Seq(V) /\ IsJoined(ao, a, o)
    BY <1>6, <1>7, Joined
  <2> HIDE DEF ao
  <2>2. i - 1 + 1 = i /\ 1 \in 1..Len(o)
    BY <1>1, <1>6
  <2> QED BY <1>6, <1>7, <2>1, <2>2 DEF IsJoined
<1> HIDE DEF ao, t
<1>11. /\ t \in Seq(V) /\ Len(t) = n
       /\ \A j \in 1..i : t[j] = ao[j]
       /\ \A j \in 1..(n - i) : t[i + j] = s[j + i]
  <2>1. ao \o b \in Seq(V) /\ IsJoined(ao \o b, ao, b)
    BY <1>8, <1>10, Joined
  <2>2. t \in Seq(V) /\ IsJoined(t, ao, b)
    BY <1>9, <2>1
  <2>3. i + (n - i) = n
    BY <1>1
  <2> QED BY <1>8, <1>10, <2>2, <2>3 DEF IsJoined
<1>12. \A j \in 1..n : t[j] = s[j]
  <2>1. \A j \in 1..i : t[j] = s[j]
    BY <1>1, <1>10, <1>11
  <2> SUFFICES ASSUME NEW j \in 1..n, j > i
               PROVE  t[j] = s[j]
    BY <1>1, <2>1
  <2> DEFINE k == j - i
  <2>2. k \in 1..(n - i) /\ i + k = j /\ k + i = j
    BY <1>1
  <2> HIDE DEF k
  <2> QED BY <1>11, <2>2
<1>13. t = s
  BY <1>11, <1>12 DEF n
<1> QED BY <1>4, <1>5, <1>13 DEF t, n

\* A container without one of its members.
Removed(parent, token) ==
  IF parent.kind = "object" THEN Object(Restrict(parent.items, DOMAIN parent.items \ {token}))
  ELSE List(RemoveAt(parent.items, token + 1))

\* What takes a new member, and where that is then.
Takes(parent, token) == parent.kind = "object" \/ (parent.kind = "list" /\ IsPlace(parent, token))
LandsAt(parent, token) == IF token = Dash /\ parent.kind = "list" THEN Len(parent.items) - 1 ELSE token
Covers(parent, token) == parent.kind = "object" /\ HasChild(parent, token)

IsInserted(ins, parent, t, value) ==
  /\ ins.kind = parent.kind /\ HasChild(ins, LandsAt(ins, t))
  /\ ins.items[Slot(ins, LandsAt(ins, t))] = value
  /\ Covers(parent, t) => Inserted(ins, t, parent.items[t]) = parent
  /\ ~Covers(parent, t) => Removed(ins, LandsAt(ins, t)) = parent

LEMMA InsertedIs ==
  ASSUME NEW V, NEW names, NEW parent \in Over(V, names), NEW t \in names, Takes(parent, t), NEW value \in V
  PROVE  Inserted(parent, t, value) \in Over(V, names) /\ IsInserted(Inserted(parent, t, value), parent, t, value)
<1> DEFINE ins == Inserted(parent, t, value)
           f == parent.items
<1>1. CASE parent.kind = "object"
  <2> DEFINE D == DOMAIN f
             g == [k \in D \cup {t} |-> IF k = t THEN value ELSE f[k]]
  <2>1. f \in [D -> V] /\ D \in SUBSET names /\ parent = Object(f)
    BY <1>1, KindsOf
  <2>2. ins = Object(g)
    BY <1>1 DEF Inserted
  <2>3. g \in [D \cup {t} -> V] /\ D \cup {t} \in SUBSET names /\ g[t] = value
    BY <2>1
  <2>4. ins \in Over(V, names)
    <3> DEFINE E == D \cup {t}
    <3>1. g \in [E -> V] /\ E \in SUBSET names
      BY <2>3
    <3> HIDE DEF g, E, ins
    <3> QED BY <2>2, <3>1, ObjectIsOver
  <2>5. DOMAIN g = D \cup {t} /\ \A k \in D : k # t => g[k] = f[k]
    OBVIOUS
  <2>6. ins.kind = "object" /\ ins.items = g
    <3> HIDE DEF g, ins
    <3> QED BY <2>2 DEF Object
  <2>7. LandsAt(ins, t) = t /\ Slot(ins, t) = t /\ HasChild(ins, t)
    <3> HIDE DEF g, ins
    <3> QED BY <2>5, <2>6 DEF LandsAt, Slot, HasChild
  <2> HIDE DEF g, ins
  <2>8. Covers(parent, t) => Inserted(ins, t, f[t]) = parent
    <3> SUFFICES ASSUME t \in D
                 PROVE  Inserted(ins, t, f[t]) = parent
      BY <1>1 DEF Covers, HasChild
    <3> DEFINE h == [k \in DOMAIN g \cup {t} |-> IF k = t THEN f[t] ELSE g[k]]
    <3>1. Inserted(ins, t, f[t]) = Object(h)
      BY <2>6 DEF Inserted
    <3>2. h = f
      <4>1. DOMAIN g \cup {t} = D
        BY <2>5
      <4>2. h = [k \in D |-> f[k]]
        BY <2>5, <4>1
      <4> QED BY <2>1, <4>2
    <3> QED BY <2>1, <3>1, <3>2
  <2>9. ~Covers(parent, t) => Removed(ins, t) = parent
    <3> SUFFICES ASSUME t \notin D
                 PROVE  Removed(ins, t) = parent
      BY <1>1 DEF Covers, HasChild
    <3>1. Removed(ins, t) = Object(Restrict(g, DOMAIN g \ {t}))
      BY <2>6 DEF Removed
    <3>2. Restrict(g, DOMAIN g \ {t}) = f
      <4>1. DOMAIN g \ {t} = D
        BY <2>5
      <4>2. Restrict(g, DOMAIN g \ {t}) = [k \in D |-> g[k]]
        BY <4>1 DEF Restrict
      <4>3. [k \in D |-> g[k]] = [k \in D |-> f[k]]
        BY <2>5
      <4> QED BY <2>1, <4>2, <4>3
    <3> QED BY <2>1, <3>1, <3>2
  <2>10. IsInserted(ins, parent, t, value)
    BY <1>1, <2>3, <2>6, <2>7, <2>8, <2>9 DEF IsInserted
  <2> QED BY <2>4, <2>10 DEF ins
<1>2. CASE parent.kind # "object"
  <2> DEFINE i == Place(parent, t) + 1
             g == InsertAt(f, i, value)
  <2>1. parent.kind = "list" /\ IsPlace(parent, t)
    BY <1>2 DEF Takes
  <2>2. f \in Seq(V) /\ parent = List(f)
    BY <2>1, KindsOf
  <2>3. i \in 1..(Len(f) + 1) /\ (t = Dash => i = Len(f) + 1) /\ (t # Dash => i = t + 1)
    <3>1. Len(f) \in Nat
      BY <2>2
    <3> QED BY <2>1, <3>1 DEF IsPlace, Place
  <2>4. ins = List(g)
    BY <1>2 DEF Inserted
  <2> HIDE DEF i
  <2>5. g \in Seq(V) /\ Len(g) = Len(f) + 1 /\ g[i] = value /\ RemoveAt(g, i) = f
    BY <2>2, <2>3, InsertedAt
  <2> HIDE DEF g, ins
  <2>6. ins.kind = "list" /\ ins.items = g
    BY <2>4 DEF List
  <2>7. LandsAt(ins, t) = i - 1
    <3>1. Len(f) \in Nat /\ i \in Int
      BY <2>2, <2>3
    <3>2. LandsAt(ins, t) = IF t = Dash THEN Len(g) - 1 ELSE t
      BY <2>6 DEF LandsAt
    <3>3. CASE t = Dash
      BY <2>3, <2>5, <3>1, <3>2, <3>3
    <3>4. CASE t # Dash
      <4>1. t \in 0..Len(f)
        BY <2>1, <3>4 DEF IsPlace
      <4> QED BY <2>3, <3>2, <3>4, <4>1
    <3> QED BY <3>3, <3>4
  <2>8. Slot(ins, i - 1) = i /\ HasChild(ins, i - 1)
    <3>1. i - 1 \in 0..(Len(g) - 1) /\ i - 1 + 1 = i
      BY <2>2, <2>3, <2>5
    <3> QED BY <2>6, <3>1 DEF Slot, HasChild, IsIndex
  <2>9. ~Covers(parent, t) /\ Removed(ins, i - 1) = parent
    <3>1. i - 1 + 1 = i
      BY <2>3
    <3> QED BY <2>1, <2>2, <2>5, <2>6, <3>1 DEF Covers, Removed
  <2>10. IsInserted(ins, parent, t, value)
    BY <2>1, <2>5, <2>6, <2>7, <2>8, <2>9 DEF IsInserted
  <2>11. ins \in Over(V, names)
    BY <2>4, <2>5, ListIsOver
  <2> QED BY <2>10, <2>11 DEF ins
<1> QED BY <1>1, <1>2

LEMMA RemovedIs ==
  ASSUME NEW V, NEW names, NEW parent \in Over(V, names), NEW t, HasChild(parent, t)
  PROVE  /\ Removed(parent, t) \in Over(V, names) /\ Takes(Removed(parent, t), t)
         /\ Inserted(Removed(parent, t), t, parent.items[Slot(parent, t)]) = parent
<1> DEFINE rem == Removed(parent, t)
           f == parent.items
<1>1. CASE parent.kind = "object"
  <2> DEFINE D == DOMAIN f
             g == [k \in D \ {t} |-> f[k]]
  <2>1. f \in [D -> V] /\ D \in SUBSET names /\ parent = Object(f) /\ t \in D /\ Slot(parent, t) = t
    BY <1>1, KindsOf DEF HasChild, Slot
  <2>2. rem = Object(g)
    BY <1>1 DEF Removed, Restrict
  <2>3. g \in [D \ {t} -> V] /\ D \ {t} \in SUBSET names /\ DOMAIN g = D \ {t}
    BY <2>1
  <2>4. \A k \in D \ {t} : g[k] = f[k]
    OBVIOUS
  <2>5. rem \in Over(V, names)
    <3> DEFINE E == D \ {t}
    <3>1. g \in [E -> V] /\ E \in SUBSET names
      BY <2>3
    <3> HIDE DEF g, E, rem
    <3> QED BY <2>2, <3>1, ObjectIsOver
  <2> HIDE DEF g, rem
  <2>6. rem.kind = "object" /\ rem.items = g
    BY <2>2 DEF Object
  <2>7. Inserted(rem, t, f[t]) = parent
    <3> DEFINE h == [k \in DOMAIN g \cup {t} |-> IF k = t THEN f[t] ELSE g[k]]
    <3>1. Inserted(rem, t, f[t]) = Object(h)
      BY <2>6 DEF Inserted
    <3>2. h = f
      <4>1. DOMAIN g \cup {t} = D
        BY <2>1, <2>3
      <4>2. h = [k \in D |-> f[k]]
        BY <2>4, <4>1
      <4> QED BY <2>1, <4>2
    <3> QED BY <2>1, <3>1, <3>2
  <2> QED BY <2>1, <2>5, <2>6, <2>7 DEF Takes, rem
<1>2. CASE parent.kind = "list"
  <2> DEFINE g == RemoveAt(f, t + 1)
             i == t + 1
  <2>1. f \in Seq(V) /\ parent = List(f) /\ t \in 0..(Len(f) - 1) /\ Slot(parent, t) = i
    BY <1>2, KindsOf DEF HasChild, IsIndex, Slot
  <2>2. rem = List(g)
    BY <1>2 DEF Removed
  <2>3. i \in 1..Len(f) /\ Len(f) \in Nat
    BY <2>1
  <2>4. g \in Seq(V) /\ Len(g) = Len(f) - 1 /\ InsertAt(g, i, f[i]) = f
    <3>1. g = RemoveAt(f, i)
      OBVIOUS
    <3> HIDE DEF g, i
    <3> QED BY <2>1, <2>3, <3>1, RemovedAt
  <2>5. rem \in Over(V, names)
    <3> HIDE DEF g, rem
    <3> QED BY <2>2, <2>4, ListIsOver
  <2> HIDE DEF g, rem
  <2>6. rem.kind = "list" /\ rem.items = g
    BY <2>2 DEF List
  <2>7. IsPlace(rem, t) /\ Place(rem, t) = t
    BY <2>1, <2>3, <2>4, <2>6 DEF IsPlace, Place, Dash
  <2>8. Inserted(rem, t, f[i]) = parent
    BY <2>1, <2>4, <2>6, <2>7 DEF Inserted
  <2> QED BY <2>1, <2>5, <2>6, <2>7, <2>8 DEF Takes, rem
<1> QED BY <1>1, <1>2 DEF HasChild

\* The path to a container and the place in it.
LEMMA PathParts ==
  ASSUME NEW X, NEW p \in Seq(X), p # <<>>
  PROVE  /\ Front(p) \in Seq(X) /\ Last(p) \in X /\ p = Append(Front(p), Last(p))
         /\ Len(p) = Len(Front(p)) + 1
<1>1. Len(p) \in Nat \ {0}
  OBVIOUS
<1>2. Front(p) \in Seq(X) /\ Len(Front(p)) = Len(p) - 1 /\ \A i \in 1..(Len(p) - 1) : Front(p)[i] = p[i]
  <2>1. Front(p) = SubSeq(p, 1, Len(p) - 1)
    BY DEF Front
  <2> DEFINE m == Len(p) - 1
  <2>2. m \in 0..Len(p)
    BY <1>1
  <2> HIDE DEF m
  <2>3. SubSeq(p, 1, m) \in Seq(X) /\ Len(SubSeq(p, 1, m)) = m /\ \A i \in 1..m : SubSeq(p, 1, m)[i] = p[i]
    BY <2>2
  <2> QED BY <2>1, <2>3 DEF m
<1>3. Last(p) \in X /\ Last(p) = p[Len(p)]
  BY <1>1 DEF Last
<1> DEFINE q == Append(Front(p), Last(p))
<1>4. q \in Seq(X) /\ Len(q) = Len(p) /\ \A i \in 1..Len(p) : q[i] = p[i]
  BY <1>1, <1>2, <1>3
<1>5. q = p
  <2> HIDE DEF q
  <2> QED BY <1>4
<1> QED BY <1>1, <1>2, <1>3, <1>5 DEF q

LEMMA AppendParts ==
  ASSUME NEW X, NEW f \in Seq(X), NEW k
  PROVE  Append(f, k) # <<>> /\ Front(Append(f, k)) = f /\ Last(Append(f, k)) = k
<1> DEFINE p == Append(f, k)
           Y == X \cup {k}
<1>1. f \in Seq(Y)
  OBVIOUS
<1>2. p \in Seq(Y) /\ Len(p) = Len(f) + 1 /\ p[Len(f) + 1] = k /\ \A i \in 1..Len(f) : p[i] = f[i]
  BY <1>1
<1> HIDE DEF p
<1>3. Len(f) \in Nat
  OBVIOUS
<1>4. Front(p) \in Seq(Y) /\ Len(Front(p)) = Len(f) /\ \A i \in 1..Len(f) : Front(p)[i] = p[i]
  BY <1>2, <1>3 DEF Front
<1>5. Front(p) = f
  BY <1>1, <1>2, <1>4
<1>6. Last(p) = k
  BY <1>2, <1>3 DEF Last
<1> QED BY <1>2, <1>3, <1>5, <1>6 DEF p

\* What the root leads to, and what a longer path does.
LEMMA FindRoot ==
  ASSUME NEW doc
  PROVE  Find(doc, <<>>) = doc
<1>1. 0 \in Nat /\ DOMAIN <<>> = 1..0
  OBVIOUS
<1>2. PICK w : Walks(w, doc, <<>>, 0)
  BY WalkExists
<1>3. Find(doc, <<>>) = w[0]
  BY <1>1, <1>2, FindIsWalk
<1> QED BY <1>2, <1>3 DEF Walks

LEMMA FindAppend ==
  ASSUME NEW doc, NEW X, NEW f \in Seq(X), NEW k
  PROVE  Find(doc, Append(f, k)) = Child(Find(doc, f), k)
<1> DEFINE n == Len(f)
           p == Append(f, k)
<1>1. n \in Nat /\ DOMAIN f = 1..n
  OBVIOUS
<1>2. p \in Seq(X \cup {k}) /\ Len(p) = n + 1 /\ p[n + 1] = k /\ \A i \in 1..n : p[i] = f[i]
  OBVIOUS
<1>3. DOMAIN p = 1..(n + 1) /\ n + 1 \in Nat
  BY <1>1, <1>2
<1> HIDE DEF n, p
<1>4. PICK w : Walks(w, doc, p, n + 1)
  BY <1>3, WalkExists
<1>5. Find(doc, p) = w[n + 1]
  BY <1>3, <1>4, FindIsWalk
<1>6. Walks(w, doc, f, n)
  <2> SUFFICES ASSUME NEW i \in 1..n
               PROVE  w[i] = Child(w[i - 1], f[i])
    BY <1>4 DEF Walks
  <2>1. i \in 1..(n + 1)
    BY <1>1
  <2>2. w[i] = Child(w[i - 1], p[i])
    BY <1>4, <2>1 DEF Walks
  <2> QED BY <1>2, <2>2
<1>7. Find(doc, f) = w[n]
  BY <1>1, <1>6, FindIsWalk
<1>8. w[n + 1] = Child(w[n], k)
  <2> DEFINE j == n + 1
  <2>1. j \in 1..(n + 1) /\ j - 1 = n
    BY <1>1
  <2>2. \A i \in 1..(n + 1) : w[i] = Child(w[i - 1], p[i])
    BY <1>4 DEF Walks
  <2>3. p[j] = k
    BY <1>2
  <2> HIDE DEF j
  <2>4. w[j] = Child(w[j - 1], p[j])
    BY <2>1, <2>2
  <2> QED BY <2>1, <2>3, <2>4 DEF j
<1> QED BY <1>5, <1>7, <1>8 DEF p

LEMMA FindIn ==
  ASSUME NEW names, NEW d \in Nat, NEW doc \in Nesting(names)[d],
         NEW X, NEW p \in Seq(X), Find(doc, p) # None
  PROVE  Len(p) < d /\ Find(doc, p) \in Nesting(names)[d - Len(p)]
<1> DEFINE n == Len(p)
<1>1. n \in Nat /\ DOMAIN p = 1..n
  OBVIOUS
<1> HIDE DEF n
<1>2. PICK w : Walks(w, doc, p, n)
  BY <1>1, WalkExists
<1>3. Find(doc, p) = w[n]
  BY <1>1, <1>2, FindIsWalk
<1>4. Reaches(w, p, n)
  BY <1>1, <1>2, <1>3, ReachesValue
<1>5. n < d /\ w[n] \in Nesting(names)[d - n]
  <2>1. n \in 0..n
    BY <1>1
  <2> QED BY <1>1, <1>2, <1>4, <2>1, WalkIsIn
<1> QED BY <1>3, <1>5 DEF n

\* What is no deeper than that is none of the deeper values.
LEMMA NoneIsShallow ==
  ASSUME NEW names, NEW d \in Nat, None \notin Nesting(names)[d], NEW e \in Nat, e <= d
  PROVE  None \notin Nesting(names)[e]
BY NestingGrows

\* A member of a document that a path leads to.
LEMMA ParentIs ==
  ASSUME NEW names, NEW d \in Nat, NEW doc \in Nesting(names)[d],
         NEW X, NEW f \in Seq(X), Find(doc, f) # None
  PROVE  \E e \in Nat : /\ e = d - Len(f) - 1 /\ Len(f) \in Nat
                        /\ Nesting(names)[d - Len(f)] = Over(Nesting(names)[e], names)
                        /\ Find(doc, f) \in Over(Nesting(names)[e], names)
<1>1. Len(f) < d /\ Find(doc, f) \in Nesting(names)[d - Len(f)] /\ Len(f) \in Nat
  BY FindIn
<1> DEFINE e == d - Len(f) - 1
<1>2. e \in Nat /\ d - Len(f) = e + 1
  BY <1>1
<1> HIDE DEF e
<1>3. Nesting(names)[e + 1] = Over(Nesting(names)[e], names)
  BY <1>2, NestingIs
<1> QED BY <1>1, <1>2, <1>3 DEF e

-----------------------------------------------------------------------------
(* Patches and their undoing *)

\* What an added value is put over.
PutOver(doc, path) ==
  /\ Find(doc, path) # None
  /\ path = <<>> \/ Find(doc, Front(path)).kind = "object"

AddIsUndone(doc, path, value, after) ==
  /\ Find(after, Landed(after, path)) = value
  /\ IF PutOver(doc, path) THEN AddValue(after, path, Find(doc, path)) = doc
     ELSE RemoveValue(after, Landed(after, path)) = doc

LEMMA AddAtRoot ==
  ASSUME NEW doc, doc # None, NEW value
  PROVE  AddValue(doc, <<>>, value) = value /\ AddIsUndone(doc, <<>>, value, value)
<1>1. Find(doc, <<>>) = doc /\ Find(value, <<>>) = value
  BY FindRoot
<1>2. Landed(value, <<>>) = <<>>
  BY DEF Landed
<1>3. PutOver(doc, <<>>)
  BY <1>1 DEF PutOver
<1> QED BY <1>1, <1>2, <1>3 DEF AddValue, AddIsUndone

LEMMA AddUndone ==
  ASSUME NEW names, NEW d \in Nat, None \notin Nesting(names)[d], NEW doc \in Nesting(names)[d],
         NEW path \in Seq(names), NEW value \in Nesting(names)[d - Len(path)], Len(path) <= d,
         AddValue(doc, path, value) # None
  PROVE  /\ AddValue(doc, path, value) \in Nesting(names)[d]
         /\ AddIsUndone(doc, path, value, AddValue(doc, path, value))
<1>1. CASE path = <<>>
  <2>1. doc # None
    OBVIOUS
  <2>2. Len(path) = 0 /\ d - 0 = d
    BY <1>1
  <2>3. AddValue(doc, <<>>, value) = value /\ AddIsUndone(doc, <<>>, value, value)
    BY <2>1, AddAtRoot
  <2> QED BY <1>1, <2>2, <2>3
<1>2. CASE path # <<>>
  <2> DEFINE f == Front(path)
             t == Last(path)
             parent == Find(doc, f)
             ins == Inserted(parent, t, value)
             res == With(doc, f, ins)
             l == LandsAt(ins, t)
             there == Append(f, l)
  <2>1. f \in Seq(names) /\ t \in names /\ path = Append(f, t) /\ Len(path) = Len(f) + 1
    BY <1>2, PathParts
  <2>2. parent # None /\ Takes(parent, t) /\ AddValue(doc, path, value) = res
    BY <1>2 DEF AddValue, Takes
  <2> HIDE DEF f, t, parent
  <2>3. PICK e \in Nat : /\ e = d - Len(f) - 1 /\ Len(f) \in Nat
                         /\ Nesting(names)[d - Len(f)] = Over(Nesting(names)[e], names)
                         /\ parent \in Over(Nesting(names)[e], names)
    BY <2>1, <2>2, ParentIs DEF parent
  <2> DEFINE V == Nesting(names)[e]
  <2>4. value \in V
    <3>1. d - Len(path) = e
      BY <2>1, <2>3
    <3> QED BY <3>1
  <2>5. V \subseteq Nesting(names)[d]
    <3>1. e <= d
      BY <2>3
    <3> QED BY <3>1, NestingGrows
  <2>6. ins \in Over(V, names) /\ IsInserted(ins, parent, t, value)
    <3> HIDE DEF V
    <3> QED BY <2>1, <2>2, <2>3, <2>4, InsertedIs DEF V
  <2> HIDE DEF V, ins
  <2>7. /\ res \in Nesting(names)[d] /\ Find(res, f) = ins
        /\ \A v : With(res, f, v) = With(doc, f, v)
        /\ With(doc, f, parent) = doc
    <3>1. ins \in Nesting(names)[d - Len(f)]
      BY <2>3, <2>6 DEF V
    <3>2. Find(doc, f) # None
      BY <2>2 DEF parent
    <3> QED BY <2>1, <3>1, <3>2, WithIs DEF parent
  <2> HIDE DEF res, l
  <2>8. ins # None
    <3>1. Len(f) < d /\ ins \in Nesting(names)[d - Len(f)]
      BY <2>3, <2>6 DEF V
    <3>2. Nesting(names)[d - Len(f)] \subseteq Nesting(names)[d]
      <4> DEFINE k == d - Len(f)
      <4>1. k \in Nat /\ k <= d
        BY <2>3
      <4> HIDE DEF k
      <4>2. Nesting(names)[k] \subseteq Nesting(names)[d]
        BY <4>1, NestingGrows
      <4> QED BY <4>2 DEF k
    <3> QED BY <3>1, <3>2
  <2>9. /\ ins.kind = parent.kind /\ HasChild(ins, l) /\ ins.items[Slot(ins, l)] = value
        /\ Covers(parent, t) => Inserted(ins, t, parent.items[t]) = parent
        /\ ~Covers(parent, t) => Removed(ins, l) = parent
    BY <2>6 DEF IsInserted, l
  <2>10. Landed(res, path) = there
    <3>1. Landed(res, path) = IF t = Dash /\ ins.kind = "list" THEN Append(f, Len(ins.items) - 1) ELSE path
      BY <1>2, <2>7 DEF Landed, f, t
    <3> QED BY <2>1, <3>1 DEF LandsAt, l
  <2>11. Find(res, there) = value
    <3>1. Find(res, there) = Child(Find(res, f), l)
      BY <2>1, FindAppend
    <3> QED BY <2>7, <2>8, <2>9, <3>1 DEF Child
  <2>12. Find(doc, path) = Child(parent, t)
    BY <2>1, FindAppend DEF parent
  <2>13. PutOver(doc, path) <=> Covers(parent, t)
    <3>1. PutOver(doc, path) <=> Child(parent, t) # None /\ parent.kind = "object"
      BY <1>2, <2>12 DEF PutOver, parent, f
    <3>2. Covers(parent, t) => Child(parent, t) # None
      <4> SUFFICES ASSUME Covers(parent, t)
                   PROVE  Child(parent, t) # None
        OBVIOUS
      <4>1. HasChild(parent, t)
        BY DEF Covers
      <4>2. parent.items[Slot(parent, t)] \in V
        BY <2>3, <4>1, ChildIs DEF V
      <4> QED BY <2>2, <2>5, <4>1, <4>2 DEF Child
    <3>3. Child(parent, t) # None => HasChild(parent, t)
      BY DEF Child
    <3> QED BY <3>1, <3>2, <3>3 DEF Covers
  <2>14. CASE Covers(parent, t)
    <3>1. Find(doc, path) = parent.items[t] /\ ins.kind = "object"
      BY <2>2, <2>9, <2>12, <2>14 DEF Child, Covers, Slot
    <3>2. AddValue(res, path, Find(doc, path)) = With(res, f, Inserted(ins, t, Find(doc, path)))
      BY <1>2, <2>7, <2>8, <3>1 DEF AddValue, f, t
    <3>3. AddValue(res, path, Find(doc, path)) = doc
      BY <2>7, <2>9, <2>14, <3>1, <3>2
    <3> QED BY <2>2, <2>7, <2>10, <2>11, <2>13, <2>14, <3>3 DEF AddIsUndone
  <2>15. CASE ~Covers(parent, t)
    <3>1. there # <<>> /\ Front(there) = f /\ Last(there) = l
      BY <2>1, AppendParts
    <3>2. value # None
      BY <2>4, <2>5
    <3> HIDE DEF there
    <3>3. RemoveValue(res, there) = With(res, f, Removed(ins, l))
      BY <2>7, <2>11, <3>1, <3>2 DEF RemoveValue, Removed
    <3>4. RemoveValue(res, there) = doc
      BY <2>7, <2>9, <2>15, <3>3
    <3> QED BY <2>2, <2>7, <2>10, <2>11, <2>13, <2>15, <3>4 DEF AddIsUndone
  <2> QED BY <2>14, <2>15
<1> QED BY <1>1, <1>2

LEMMA RemoveUndone ==
  ASSUME NEW names, NEW d \in Nat, None \notin Nesting(names)[d], NEW doc \in Nesting(names)[d],
         NEW path \in Seq(names), Find(doc, path) # None
  PROVE  /\ RemoveValue(doc, path) \in Nesting(names)[d]
         /\ AddValue(RemoveValue(doc, path), path, Find(doc, path)) = doc
<1>1. CASE path = <<>>
  <2>1. Find(doc, path) = doc
    BY <1>1, FindRoot
  <2>2. RemoveValue(doc, path) = Atom(0)
    BY <1>1 DEF RemoveValue, Null
  <2>3. Atom(0) \in Nesting(names)[d]
    <3>1. d # 0
      BY NestingIs
    <3> DEFINE e == d - 1
    <3>2. e \in Nat /\ d = e + 1
      BY <3>1
    <3> HIDE DEF e
    <3>3. Nesting(names)[e + 1] = Over(Nesting(names)[e], names)
      BY <3>2, NestingIs
    <3>4. Atom(0) \in Over(Nesting(names)[e], names)
      BY AtomIsOver
    <3> QED BY <3>2, <3>3, <3>4
  <2> QED BY <1>1, <2>1, <2>2, <2>3 DEF AddValue
<1>2. CASE path # <<>>
  <2> DEFINE f == Front(path)
             t == Last(path)
             parent == Find(doc, f)
             rem == Removed(parent, t)
             res == With(doc, f, rem)
             value == Find(doc, path)
  <2>1. f \in Seq(names) /\ t \in names /\ path = Append(f, t) /\ Len(path) = Len(f) + 1
    BY <1>2, PathParts
  <2>2. RemoveValue(doc, path) = res
    BY <1>2 DEF RemoveValue, Removed
  <2> HIDE DEF f, t, parent, rem
  <2>3. value = Child(parent, t)
    BY <2>1, FindAppend DEF parent
  <2>4. parent # None /\ HasChild(parent, t) /\ value = parent.items[Slot(parent, t)]
    <3>1. Child(parent, t) # None
      BY <2>3
    <3> HIDE DEF value
    <3> QED BY <2>3, <3>1 DEF Child
  <2> HIDE DEF value
  <2>5. PICK e \in Nat : /\ e = d - Len(f) - 1 /\ Len(f) \in Nat
                         /\ Nesting(names)[d - Len(f)] = Over(Nesting(names)[e], names)
                         /\ parent \in Over(Nesting(names)[e], names)
    BY <2>1, <2>4, ParentIs DEF parent
  <2> DEFINE V == Nesting(names)[e]
  <2>6. rem \in Over(V, names) /\ Takes(rem, t) /\ Inserted(rem, t, value) = parent
    <3> HIDE DEF V
    <3> QED BY <2>4, <2>5, RemovedIs DEF V, rem
  <2>7. /\ res \in Nesting(names)[d] /\ Find(res, f) = rem
        /\ \A v : With(res, f, v) = With(doc, f, v)
        /\ With(doc, f, parent) = doc
    <3>1. rem \in Nesting(names)[d - Len(f)]
      BY <2>5, <2>6
    <3>2. Find(doc, f) # None
      BY <2>4 DEF parent
    <3> QED BY <2>1, <3>1, <3>2, WithIs DEF parent
  <2> HIDE DEF res
  <2>8. rem # None
    <3>1. Len(f) < d /\ rem \in Nesting(names)[d - Len(f)]
      BY <2>5, <2>6
    <3>2. Nesting(names)[d - Len(f)] \subseteq Nesting(names)[d]
      <4> DEFINE k == d - Len(f)
      <4>1. k \in Nat /\ k <= d
        BY <2>5
      <4> HIDE DEF k
      <4>2. Nesting(names)[k] \subseteq Nesting(names)[d]
        BY <4>1, NestingGrows
      <4> QED BY <4>2 DEF k
    <3> QED BY <3>1, <3>2
  <2>9. AddValue(res, path, value) = With(res, f, Inserted(rem, t, value))
    BY <1>2, <2>6, <2>7, <2>8 DEF AddValue, Takes, f, t
  <2>10. AddValue(res, path, value) = doc
    BY <2>6, <2>7, <2>9
  <2> QED BY <2>2, <2>7, <2>10 DEF value
<1> QED BY <1>1, <1>2

\* One operation of a patch after another.
Next1(doc, op) == IF doc = None THEN None ELSE Patched(doc, op)

LEMMA PatchOfOne ==
  ASSUME NEW doc, doc # None, NEW op
  PROVE  ApplyPatch(doc, <<op>>) = Patched(doc, op)
<1> DEFINE F(g) == [s \in SUBSET (1..1) |-> IF s = {} THEN doc ELSE Next1(g[s \ {Max(s)}], <<op>>[Max(s)])]
           g == CHOOSE g : g = F(g)
<1>1. ApplyPatch(doc, <<op>>) = g[1..1]
  <2>1. DOMAIN <<op>> = 1..1
    OBVIOUS
  <2> QED BY <2>1, Zenon DEF ApplyPatch, FoldLeft, MapThenFoldSet, Next1
<1>2. Max(1..1) = 1 /\ (1..1) \ {1} = {} /\ 1..1 # {}
  <2>1. 1 \in Nat \ {0} /\ 1..0 = {} /\ 1 - 1 = 0
    OBVIOUS
  <2> QED BY <2>1, LastPlace
<1>3. g = F(g)
  <2> DEFINE h == [s \in SUBSET (1..1) |-> IF s = {} THEN doc ELSE Next1(doc, op)]
  <2>1. h[{}] = doc /\ <<op>>[1] = op
    OBVIOUS
  <2>2. ASSUME NEW s \in SUBSET (1..1)
        PROVE  h[s] = IF s = {} THEN doc ELSE Next1(h[s \ {Max(s)}], <<op>>[Max(s)])
    <3>1. CASE s = {}
      BY <3>1
    <3>2. CASE s # {}
      <4>1. s = 1..1
        <5>1. 1..1 = {1}
          OBVIOUS
        <5>2. s \subseteq {1}
          BY <5>1, Zenon
        <5> QED BY <3>2, <5>1, <5>2, Zenon
      <4>2. h[s] = Next1(doc, op)
        BY <3>2
      <4> HIDE DEF h
      <4> QED BY <1>2, <2>1, <3>2, <4>1, <4>2
    <3> QED BY <3>1, <3>2
  <2>3. h = F(h)
    <3>1. h = [s \in SUBSET (1..1) |-> h[s]]
      OBVIOUS
    <3> HIDE DEF h
    <3> QED BY <2>2, <3>1, Zenon
  <2> HIDE DEF F, h
  <2> QED BY <2>3
<1> HIDE DEF g
<1>4. g[{}] = doc
  BY <1>3
<1>5. g[1..1] = Next1(g[(1..1) \ {Max(1..1)}], <<op>>[Max(1..1)])
  BY <1>2, <1>3
<1> QED BY <1>1, <1>2, <1>4, <1>5 DEF Next1

LEMMA PatchOfTwo ==
  ASSUME NEW doc, doc # None, NEW a, NEW b, Patched(doc, a) # None
  PROVE  ApplyPatch(doc, <<a, b>>) = Patched(Patched(doc, a), b)
<1> DEFINE F(g) == [s \in SUBSET (1..2) |-> IF s = {} THEN doc ELSE Next1(g[s \ {Max(s)}], <<a, b>>[Max(s)])]
           g == CHOOSE g : g = F(g)
<1>1. ApplyPatch(doc, <<a, b>>) = g[1..2]
  <2>1. DOMAIN <<a, b>> = 1..2
    OBVIOUS
  <2> QED BY <2>1, Zenon DEF ApplyPatch, FoldLeft, MapThenFoldSet, Next1
<1>2. Max({1}) = 1 /\ Max({2}) = 2 /\ Max({1, 2}) = 2
  <2>1. 2 \in Nat /\ {1} \in SUBSET (1..2) /\ {2} \in SUBSET (1..2) /\ {1, 2} \in SUBSET (1..2)
    OBVIOUS
  <2>2. Max({1}) \in {1} /\ Max({2}) \in {2}
    BY <2>1, MaxOfSome
  <2>3. Max({1, 2}) \in {1, 2} /\ 2 <= Max({1, 2})
    BY <2>1, MaxOfSome
  <2> QED BY <2>2, <2>3
<1>3. g = F(g)
  <2> DEFINE h == [s \in SUBSET (1..2) |->
                     IF s = {} THEN doc ELSE IF s = {1} THEN Next1(doc, a)
                     ELSE IF s = {2} THEN Next1(doc, b) ELSE Next1(Next1(doc, a), b)]
  <2>1. h[{}] = doc /\ h[{1}] = Next1(doc, a) /\ <<a, b>>[1] = a /\ <<a, b>>[2] = b
    OBVIOUS
  <2>2. ASSUME NEW s \in SUBSET (1..2)
        PROVE  h[s] = IF s = {} THEN doc ELSE Next1(h[s \ {Max(s)}], <<a, b>>[Max(s)])
    <3>1. CASE s = {}
      BY <3>1
    <3>2. CASE s = {1}
      <4>1. h[s] = Next1(doc, a) /\ s \ {1} = {} /\ s # {}
        BY <3>2
      <4> HIDE DEF h
      <4> QED BY <1>2, <2>1, <3>2, <4>1
    <3>3. CASE s = {2}
      <4>1. h[s] = Next1(doc, b) /\ s \ {2} = {} /\ s # {}
        BY <3>3
      <4> HIDE DEF h
      <4> QED BY <1>2, <2>1, <3>3, <4>1
    <3>4. CASE s = {1, 2}
      <4>1. h[s] = Next1(Next1(doc, a), b) /\ s \ {2} = {1} /\ s # {}
        BY <3>4
      <4> HIDE DEF h
      <4> QED BY <1>2, <2>1, <3>4, <4>1
    <3>5. s = {} \/ s = {1} \/ s = {2} \/ s = {1, 2}
      <4>1. 1..2 = {1, 2}
        OBVIOUS
      <4>2. s \subseteq {1, 2}
        BY <4>1, Zenon
      <4> QED BY <4>2, Zenon
    <3> QED BY <3>1, <3>2, <3>3, <3>4, <3>5
  <2>3. h = F(h)
    <3>1. h = [s \in SUBSET (1..2) |-> h[s]]
      OBVIOUS
    <3> HIDE DEF h
    <3> QED BY <2>2, <3>1, Zenon
  <2> HIDE DEF F, h
  <2> QED BY <2>3
<1> HIDE DEF g
<1>4. {} \in SUBSET (1..2) /\ {1} \in SUBSET (1..2) /\ {1, 2} \in SUBSET (1..2) /\ 1..2 = {1, 2}
  OBVIOUS
<1>5. g[{}] = doc
  BY <1>3, <1>4
<1>6. g[{1}] = Next1(g[{1} \ {Max({1})}], <<a, b>>[Max({1})])
  BY <1>3, <1>4
<1>7. g[{1, 2}] = Next1(g[{1, 2} \ {Max({1, 2})}], <<a, b>>[Max({1, 2})])
  BY <1>3, <1>4
<1>8. g[{1}] = Next1(doc, a)
  <2>1. {1} \ {1} = {} /\ <<a, b>>[1] = a
    OBVIOUS
  <2> QED BY <1>2, <1>5, <1>6, <2>1
<1>9. g[{1, 2}] = Next1(Next1(doc, a), b)
  <2>1. {1, 2} \ {2} = {1} /\ <<a, b>>[2] = b
    OBVIOUS
  <2> QED BY <1>2, <1>7, <1>8, <2>1
<1> QED BY <1>1, <1>4, <1>9 DEF Next1

LEMMA OneAndOne ==
  ASSUME NEW a, NEW b
  PROVE  <<a>> \o <<b>> = <<a, b>>
<1> DEFINE V == {a, b}
           x == <<a>>
           y == <<b>>
           r == x \o y
           s == <<a, b>>
<1>1. x \in Seq(V) /\ Len(x) = 1 /\ x[1] = a
  OBVIOUS
<1>2. y \in Seq(V) /\ Len(y) = 1 /\ y[1] = b
  OBVIOUS
<1>3. s \in Seq(V) /\ Len(s) = 2 /\ s[1] = a /\ s[2] = b
  OBVIOUS
<1> HIDE DEF x, y, s, V
<1>4. r \in Seq(V) /\ IsJoined(r, x, y)
  BY <1>1, <1>2, Joined
<1> HIDE DEF r
<1>5. Len(r) = 2 /\ r[1] = a /\ r[1 + 1] = b
  BY <1>1, <1>2, <1>4 DEF IsJoined
<1>6. r = s
  BY <1>3, <1>4, <1>5
<1> QED BY <1>6 DEF r, s, x, y

\* What may be asked of a document: the tokens of its paths are names of
\* members or places, and its new values as deep as it is at most.
PatchOperations(names, values) ==
  [op : {"add", "replace", "test"}, path : Seq(names), value : values]
    \cup [op : {"remove"}, path : Seq(names)] \cup [op : {"copy", "move"}, from : Seq(names), path : Seq(names)]

\* What the operation back from an added value does.
LEMMA BackIs ==
  ASSUME NEW doc, NEW path, NEW value, NEW after, AddIsUndone(doc, path, value, after)
  PROVE  Patched(after, IF PutOver(doc, path) THEN [op |-> "add", path |-> path, value |-> Find(doc, path)]
                         ELSE [op |-> "remove", path |-> Landed(after, path)]) = doc
<1>1. CASE PutOver(doc, path)
  <2> DEFINE op == [op |-> "add", path |-> path, value |-> Find(doc, path)]
  <2>1. op.op = "add" /\ op.path = path /\ op.value = Find(doc, path)
    OBVIOUS
  <2> HIDE DEF op
  <2>2. Patched(after, op) = AddValue(after, path, Find(doc, path))
    BY <2>1 DEF Patched
  <2> QED BY <1>1, <2>2 DEF AddIsUndone, op
<1>2. CASE ~PutOver(doc, path)
  <2> DEFINE op == [op |-> "remove", path |-> Landed(after, path)]
  <2>1. op.op = "remove" /\ op.path = Landed(after, path)
    OBVIOUS
  <2> HIDE DEF op
  <2>2. Patched(after, op) = RemoveValue(after, Landed(after, path))
    BY <2>1 DEF Patched
  <2> QED BY <1>2, <2>2 DEF AddIsUndone, op
<1> QED BY <1>1, <1>2

\* The three operations that put a value somewhere.
LEMMA AddingIsUndone ==
  ASSUME NEW names, NEW depth \in Nat, NEW doc \in Nesting(names)[depth], NEW path \in Seq(names),
         None \notin Nesting(names)[depth + Len(path)], NEW value \in Nesting(names)[depth],
         AddValue(doc, path, value) # None
  PROVE  AddIsUndone(doc, path, value, AddValue(doc, path, value))
<1> DEFINE d == depth + Len(path)
<1>1. Len(path) \in Nat /\ d \in Nat /\ depth <= d /\ Len(path) <= d /\ d - Len(path) = depth
  OBVIOUS
<1>2. doc \in Nesting(names)[d]
  <2>1. Nesting(names)[depth] \subseteq Nesting(names)[d]
    <3> HIDE DEF d
    <3> QED BY <1>1, NestingGrows
  <2> QED BY <2>1
<1>3. value \in Nesting(names)[d - Len(path)] /\ None \notin Nesting(names)[d]
  BY <1>1
<1> HIDE DEF d
<1> QED BY <1>1, <1>2, <1>3, AddUndone

\* An applied patch has put its value where it says, and the patch in the
\* other direction undoes it, whatever documents it is applied to.
THEOREM PatchesCanBeUndone ==
  ASSUME NEW names, NEW depth \in Nat, NEW doc \in Nesting(names)[depth],
         NEW op \in PatchOperations(names, Nesting(names)[depth]),
         None \notin Nesting(names)[depth + Len(op.path)]
  PROVE  PatchCanBeUndone(doc, op, ApplyPatch(doc, <<op>>))
<1> DEFINE N == Nesting(names)
           path == op.path
           result1 == ApplyPatch(doc, <<op>>)
           at == Landed(result1, path)
           put(p, v) == [op |-> "add", path |-> p, value |-> v]
           removed == [op |-> "remove", path |-> at]
           within == IF op.op = "move" THEN RemoveValue(doc, op.from) ELSE doc
           back == IF PutOver(within, path) THEN put(path, Find(within, path)) ELSE removed
<1>1. op.op \in {"add", "replace", "test", "remove", "copy", "move"} /\ path \in Seq(names) /\ Len(path) \in Nat
  BY DEF PatchOperations
<1>2. N[depth] \subseteq N[depth + Len(path)]
  <2> DEFINE d == depth + Len(path)
  <2>1. d \in Nat /\ depth <= d
    BY <1>1
  <2> HIDE DEF d
  <2>2. N[depth] \subseteq N[d]
    BY <2>1, NestingGrows
  <2> QED BY <2>2 DEF d
<1>3. None \notin N[depth] /\ doc # None
  BY <1>2
<1>4. result1 = Patched(doc, op)
  BY <1>3, PatchOfOne
<1>5. PatchCanBeUndone(doc, op, result1) =
        (result1 # None =>
          CASE op.op = "test" -> result1 = doc /\ Find(doc, path) = op.value
            [] op.op = "remove" -> ApplyPatch(result1, <<put(path, Find(doc, path))>>) = doc
            [] op.op = "replace" -> /\ Find(result1, path) = op.value
                                    /\ ReplaceValue(result1, path, Find(doc, path)) = doc
            [] op.op = "add" -> Find(result1, at) = op.value /\ ApplyPatch(result1, <<back>>) = doc
            [] op.op = "copy" -> Find(result1, at) = Find(doc, op.from) /\ ApplyPatch(result1, <<back>>) = doc
            [] op.op = "move" -> /\ Find(result1, at) = Find(doc, op.from)
                                 /\ ApplyPatch(result1, <<back>> \o <<put(op.from, Find(doc, op.from))>>) = doc)
  BY DEF PatchCanBeUndone, PutOver
<1> HIDE DEF result1
<1> SUFFICES ASSUME result1 # None
             PROVE  PatchCanBeUndone(doc, op, result1)
  BY <1>5 DEF result1
<1>6. CASE op.op = "test"
  <2>1. Patched(doc, op) = TestValue(doc, path, op.value)
    BY <1>6 DEF Patched
  <2>2. result1 = doc /\ Find(doc, path) = op.value
    BY <1>4, <2>1 DEF TestValue
  <2> QED BY <1>5, <1>6, <2>2
<1>7. CASE op.op = "remove"
  <2>1. Patched(doc, op) = RemoveValue(doc, path)
    BY <1>7 DEF Patched
  <2>2. Find(doc, path) # None
    <3>1. CASE path = <<>>
      BY <1>3, <3>1, FindRoot
    <3>2. CASE path # <<>>
      BY <1>4, <2>1, <3>2 DEF RemoveValue
    <3> QED BY <3>1, <3>2
  <2>3. AddValue(result1, path, Find(doc, path)) = doc
    BY <1>1, <1>3, <1>4, <2>1, <2>2, RemoveUndone
  <2> DEFINE undo == put(path, Find(doc, path))
  <2>4. undo.op = "add" /\ undo.path = path /\ undo.value = Find(doc, path)
    OBVIOUS
  <2> HIDE DEF undo
  <2>5. Patched(result1, undo) = AddValue(result1, path, Find(doc, path))
    BY <2>4 DEF Patched
  <2>6. ApplyPatch(result1, <<undo>>) = doc
    BY <2>3, <2>5, PatchOfOne
  <2> QED BY <1>5, <1>7, <2>6 DEF undo
<1>8. CASE op.op = "replace"
  <2>1. Patched(doc, op) = ReplaceValue(doc, path, op.value) /\ op.value \in N[depth]
    BY <1>8 DEF Patched, PatchOperations
  <2>2. Find(doc, path) # None /\ result1 = With(doc, path, op.value)
    BY <1>4, <2>1 DEF ReplaceValue
  <2> DEFINE d == depth + Len(path)
  <2>3. d \in Nat /\ None \notin N[d] /\ doc \in N[d] /\ d - Len(path) = depth
    BY <1>1, <1>2
  <2>4. op.value \in N[d - Len(path)]
    BY <2>1, <2>3
  <2> HIDE DEF d
  <2>5. /\ Find(result1, path) = op.value
        /\ \A v : With(result1, path, v) = With(doc, path, v)
        /\ With(doc, path, Find(doc, path)) = doc
    BY <1>1, <2>2, <2>3, <2>4, WithIs
  <2>6. op.value # None
    BY <1>3, <2>1
  <2>7. ReplaceValue(result1, path, Find(doc, path)) = doc
    BY <2>5, <2>6 DEF ReplaceValue
  <2> QED BY <1>5, <1>8, <2>5, <2>7
<1>9. ASSUME NEW value \in N[depth], op.op # "move", result1 = AddValue(doc, path, value)
      PROVE  Find(result1, at) = value /\ ApplyPatch(result1, <<back>>) = doc
  <2>1. AddIsUndone(doc, path, value, result1)
    BY <1>1, <1>9, AddingIsUndone
  <2>2. Patched(result1, back) = doc
    BY <1>9, <2>1, BackIs
  <2>3. ApplyPatch(result1, <<back>>) = Patched(result1, back)
    <3> HIDE DEF back
    <3> QED BY PatchOfOne
  <2> QED BY <2>1, <2>2, <2>3 DEF AddIsUndone
<1>10. CASE op.op = "add"
  <2>1. Patched(doc, op) = AddValue(doc, path, op.value) /\ op.value \in N[depth]
    BY <1>10 DEF Patched, PatchOperations
  <2> HIDE DEF at, back
  <2>2. Find(result1, at) = op.value /\ ApplyPatch(result1, <<back>>) = doc
    BY <1>4, <1>9, <1>10, <2>1
  <2> QED BY <1>5, <1>10, <2>2
<1>11. ASSUME op.op \in {"copy", "move"}, Find(doc, op.from) # None
       PROVE  Find(doc, op.from) \in N[depth] /\ op.from \in Seq(names)
  <2>1. op.from \in Seq(names)
    BY <1>11 DEF PatchOperations
  <2> DEFINE from == op.from
             e == depth - Len(from)
  <2>2. Len(from) < depth /\ Find(doc, from) \in N[depth - Len(from)]
    <3> HIDE DEF from
    <3> QED BY <1>11, <2>1, FindIn DEF from
  <2>3. e \in Nat /\ e <= depth
    BY <2>1, <2>2
  <2> HIDE DEF e
  <2>4. N[e] \subseteq N[depth]
    BY <2>3, NestingGrows
  <2> QED BY <2>1, <2>2, <2>4 DEF e
<1>12. CASE op.op = "copy"
  <2>1. Patched(doc, op) = CopyValue(doc, op.from, path)
    BY <1>12 DEF Patched
  <2>2. Find(doc, op.from) # None /\ result1 = AddValue(doc, path, Find(doc, op.from))
    BY <1>4, <2>1 DEF CopyValue
  <2>3. Find(doc, op.from) \in N[depth]
    BY <1>11, <1>12, <2>2
  <2> HIDE DEF at, back
  <2>4. Find(result1, at) = Find(doc, op.from) /\ ApplyPatch(result1, <<back>>) = doc
    BY <1>9, <1>12, <2>2, <2>3
  <2> QED BY <1>5, <1>12, <2>4
<1>13. CASE op.op = "move"
  <2>1. Patched(doc, op) = MoveValue(doc, op.from, path)
    BY <1>13 DEF Patched
  <2> DEFINE value == Find(doc, op.from)
  <2>2. value # None /\ result1 = AddValue(RemoveValue(doc, op.from), path, value)
    BY <1>4, <2>1 DEF MoveValue
  <2>3. value \in N[depth] /\ op.from \in Seq(names)
    BY <1>11, <1>13, <2>2
  <2>4. within \in N[depth] /\ AddValue(within, op.from, value) = doc
    <3> DEFINE from == op.from
    <3>1. from \in Seq(names) /\ Find(doc, from) # None
      BY <2>2, <2>3
    <3> HIDE DEF from
    <3>2. RemoveValue(doc, from) \in N[depth] /\ AddValue(RemoveValue(doc, from), from, Find(doc, from)) = doc
      BY <1>3, <3>1, RemoveUndone
    <3> QED BY <1>13, <3>2 DEF from
  <2>5. result1 = AddValue(within, path, value)
    BY <1>13, <2>2
  <2> HIDE DEF within, value
  <2>6. AddIsUndone(within, path, value, result1)
    BY <1>1, <2>3, <2>4, <2>5, AddingIsUndone
  <2>7. Patched(result1, back) = within
    BY <2>6, BackIs
  <2>8. Find(result1, at) = value
    BY <2>6 DEF AddIsUndone
  <2> DEFINE undo == put(op.from, value)
  <2>9. undo.op = "add" /\ undo.path = op.from /\ undo.value = value
    OBVIOUS
  <2>10. <<back>> \o <<undo>> = <<back, undo>>
    <3> HIDE DEF back, undo
    <3> QED BY OneAndOne
  <2> HIDE DEF undo, back
  <2>11. Patched(within, undo) = AddValue(within, op.from, value)
    BY <2>9 DEF Patched
  <2>12. within # None
    BY <1>3, <2>4
  <2>13. ApplyPatch(result1, <<back, undo>>) = Patched(Patched(result1, back), undo)
    BY <2>7, <2>12, PatchOfTwo
  <2>14. ApplyPatch(result1, <<back>> \o <<undo>>) = doc
    BY <2>4, <2>7, <2>10, <2>11, <2>13
  <2> QED BY <1>5, <1>13, <2>8, <2>14 DEF undo, value
<1> QED BY <1>1, <1>6, <1>7, <1>8, <1>10, <1>12, <1>13

-----------------------------------------------------------------------------
(* json_merge_patch *)

\* Values with the members they have.
Members(v, V) == \A k \in DOMAIN v.items : v.items[k] \in V
Closed(values) == Null \in values /\ \A v \in values : Members(v, values)

LEMMA MembersAre ==
  ASSUME NEW V, NEW names, NEW v \in Over(V, names)
  PROVE  Members(v, V)
<1>1. CASE v.kind = "atom"
  <2>1. v.items = <<>>
    BY <1>1, KindsOf
  <2> QED BY <2>1 DEF Members
<1>2. CASE v.kind = "list"
  <2>1. v.items \in Seq(V)
    BY <1>2, KindsOf
  <2> QED BY <2>1 DEF Members
<1>3. CASE v.kind = "object"
  <2>1. v.items \in [DOMAIN v.items -> V]
    BY <1>3, KindsOf
  <2> QED BY <2>1 DEF Members
<1> QED BY <1>1, <1>2, <1>3, KindsOf

LEMMA ShallowerMembers ==
  ASSUME NEW names, NEW n \in Nat, NEW v \in Nesting(names)[n + 1]
  PROVE  Members(v, Nesting(names)[n]) /\ v \in Over(Nesting(names)[n], names)
BY NestingIs, MembersAre

Old(target) == IF target.kind = "object" THEN target.items ELSE <<>>
Member(target, k) == IF k \in DOMAIN Old(target) THEN Old(target)[k] ELSE Null
Kept(target, patch) ==
  (DOMAIN Old(target) \cup DOMAIN patch.items) \ {k \in DOMAIN patch.items : patch.items[k] = Null}
MergeOf(M, target, patch) ==
  IF patch.kind # "object" THEN patch
  ELSE Object([k \in Kept(target, patch) |->
                 IF k \in DOMAIN patch.items THEN M[<<Member(target, k), patch.items[k]>>] ELSE Old(target)[k]])

\* M merges the values as json_merge_patch does.
Merges(M, values) == \A t, p \in values : M[<<t, p>>] = MergeOf(M, t, p)

SameOn(M, H, values, V) == \A x \in values, y \in V : M[<<x, y>>] = H[<<x, y>>]

LEMMA MemberIsValue ==
  ASSUME NEW values, Closed(values), NEW t \in values, NEW k
  PROVE  Member(t, k) \in values
<1>1. CASE t.kind = "object" /\ k \in DOMAIN t.items
  BY <1>1 DEF Closed, Members, Member, Old
<1>2. CASE ~(t.kind = "object" /\ k \in DOMAIN t.items)
  <2>1. k \notin DOMAIN Old(t)
    BY <1>2 DEF Old
  <2> QED BY <2>1 DEF Member, Closed
<1> QED BY <1>1, <1>2

LEMMA MergesAlike ==
  ASSUME NEW values, Closed(values), NEW V, NEW M, NEW H, SameOn(M, H, values, V),
         NEW t \in values, NEW p, Members(p, V)
  PROVE  MergeOf(M, t, p) = MergeOf(H, t, p)
<1>1. ASSUME NEW k \in DOMAIN p.items
      PROVE  M[<<Member(t, k), p.items[k]>>] = H[<<Member(t, k), p.items[k]>>]
  <2> DEFINE x == Member(t, k)
             y == p.items[k]
  <2>1. x \in values /\ y \in V
    BY MemberIsValue DEF Members
  <2> HIDE DEF x, y
  <2> QED BY <2>1, Zenon DEF SameOn, x, y
<1> DEFINE f(N) == [k \in Kept(t, p) |-> IF k \in DOMAIN p.items THEN N[<<Member(t, k), p.items[k]>>] ELSE Old(t)[k]]
<1>2. f(M) = f(H)
  BY <1>1
<1>3. \A N : MergeOf(N, t, p) = IF p.kind # "object" THEN p ELSE Object(f(N))
  BY DEF MergeOf
<1> HIDE DEF f
<1> QED BY <1>2, <1>3

IsMerge(M, values) == M = [both \in values \X values |-> MergeOf(M, both[1], both[2])]

LEMMA MergeExists ==
  ASSUME NEW names, NEW d \in Nat, NEW values \in SUBSET Nesting(names)[d], Closed(values)
  PROVE  \E M : IsMerge(M, values)
<1> DEFINE N == Nesting(names)
           Good(M, n) == \A t, p \in values : p \in N[n] => M[<<t, p>>] = MergeOf(M, t, p)
           A == {n \in Nat : \E M : Good(M, n)}
<1>1. 0 \in A
  <2>1. N[0] = {}
    BY NestingIs
  <2> HIDE DEF N
  <2> QED BY <2>1
<1>2. ASSUME NEW n \in A
      PROVE  n + 1 \in A
  <2>1. n \in Nat /\ n + 1 \in Nat
    OBVIOUS
  <2>2. PICK M : Good(M, n)
    OBVIOUS
  <2> DEFINE H == [both \in values \X values |-> MergeOf(M, both[1], both[2])]
             V == values \cap N[n]
  <2>3. \A t, p \in values : H[<<t, p>>] = MergeOf(M, t, p)
    OBVIOUS
  <2> HIDE DEF H
  <2>4. SameOn(H, M, values, V)
    BY <2>2, <2>3 DEF SameOn
  <2>5. Good(H, n + 1)
    <3> SUFFICES ASSUME NEW t \in values, NEW p \in values, p \in N[n + 1]
                 PROVE  H[<<t, p>>] = MergeOf(H, t, p)
      OBVIOUS
    <3>1. Members(p, N[n])
      BY <2>1, ShallowerMembers
    <3>2. Members(p, V)
      BY <3>1 DEF Members, Closed
    <3>3. MergeOf(H, t, p) = MergeOf(M, t, p)
      <4> HIDE DEF V
      <4> QED BY <2>4, <3>2, MergesAlike
    <3> QED BY <2>3, <3>3
  <2> HIDE DEF Good
  <2> QED BY <2>1, <2>5
<1>3. A = Nat
  <2>1. A \subseteq Nat
    OBVIOUS
  <2> HIDE DEF A
  <2> QED BY <1>1, <1>2, <2>1, NatsAll
<1>4. PICK M : Good(M, d)
  BY <1>3
<1> DEFINE H == [both \in values \X values |-> M[both]]
<1>5. \A t, p \in values : H[<<t, p>>] = M[<<t, p>>] /\ M[<<t, p>>] = MergeOf(M, t, p)
  BY <1>4
<1> HIDE DEF H
<1>6. SameOn(H, M, values, values)
  BY <1>5 DEF SameOn
<1>7. ASSUME NEW t \in values, NEW p \in values
      PROVE  H[<<t, p>>] = MergeOf(H, t, p)
  <2>1. Members(p, values)
    BY DEF Closed
  <2>2. MergeOf(H, t, p) = MergeOf(M, t, p)
    BY <1>6, <2>1, MergesAlike
  <2> QED BY <1>5, <2>2
<1>8. H = [both \in values \X values |-> MergeOf(H, both[1], both[2])]
  <2>1. H = [both \in values \X values |-> H[both]]
    BY DEF H
  <2>2. \A both \in values \X values : H[both] = MergeOf(H, both[1], both[2])
    BY <1>7
  <2> QED BY <2>1, <2>2
<1> QED BY <1>8 DEF IsMerge

LEMMA MergeIs ==
  ASSUME NEW values, NEW M, IsMerge(M, values)
  PROVE  Merges(M, values)
<1> SUFFICES ASSUME NEW t \in values, NEW p \in values
             PROVE  M[<<t, p>>] = MergeOf(M, t, p)
  BY DEF Merges
<1> DEFINE both == <<t, p>>
<1>1. both \in values \X values /\ both[1] = t /\ both[2] = p
  OBVIOUS
<1> HIDE DEF both
<1>2. M[both] = MergeOf(M, both[1], both[2])
  BY <1>1 DEF IsMerge
<1> QED BY <1>1, <1>2 DEF both

\* What an object has in it, and how a merge with an object is one.
ObjectsOver(v, V, names) == v.kind = "object" => v.items \in [DOMAIN v.items -> V] /\ DOMAIN v.items \in SUBSET names
IsObjectOver(v, V, names) ==
  \E keys \in SUBSET names : \E f \in [keys -> V] : v = Object(f)
MergesIn(M, V) == \A x, y \in V : Null \in V /\ M[<<x, y>>] \in V

LEMMA MergeIsOver ==
  ASSUME NEW values, NEW M, Merges(M, values), NEW V, NEW names, MergesIn(M, V),
         NEW t \in values, NEW p \in values, ObjectsOver(t, V, names), ObjectsOver(p, V, names), p.kind = "object"
  PROVE  IsObjectOver(M[<<t, p>>], V, names)
<1> DEFINE f == [k \in Kept(t, p) |-> IF k \in DOMAIN p.items THEN M[<<Member(t, k), p.items[k]>>] ELSE Old(t)[k]]
<1>1. M[<<t, p>>] = Object(f)
  BY DEF Merges, MergeOf
<1>2. \A k \in DOMAIN Old(t) : Old(t)[k] \in V /\ k \in names
  BY DEF ObjectsOver, Old
<1>3. \A k \in DOMAIN p.items : p.items[k] \in V /\ k \in names
  BY DEF ObjectsOver
<1>4. ASSUME NEW k \in Kept(t, p)
      PROVE  f[k] \in V /\ k \in names
  <2>1. CASE k \in DOMAIN p.items
    <3> DEFINE x == Member(t, k)
               y == p.items[k]
    <3>1. y \in V /\ k \in names
      BY <1>3, <2>1
    <3>2. Null \in V
      BY <3>1 DEF MergesIn
    <3>3. x \in V
      BY <1>2, <3>2 DEF Member
    <3>4. f[k] = M[<<x, y>>]
      BY <2>1
    <3> HIDE DEF x, y, f
    <3>5. M[<<x, y>>] \in V
      BY <3>1, <3>3, Zenon DEF MergesIn
    <3> QED BY <3>1, <3>4, <3>5
  <2>2. CASE k \notin DOMAIN p.items
    <3>1. k \in DOMAIN Old(t) /\ f[k] = Old(t)[k]
      BY <2>2 DEF Kept
    <3> HIDE DEF f
    <3> QED BY <1>2, <3>1
  <2> QED BY <2>1, <2>2
<1> DEFINE keys == Kept(t, p)
<1>5. keys \in SUBSET names /\ f \in [keys -> V]
  <2>1. f = [k \in keys |-> f[k]]
    OBVIOUS
  <2> HIDE DEF f
  <2> QED BY <1>4, <2>1
<1> HIDE DEF f, keys
<1> QED BY <1>1, <1>5, Zenon DEF IsObjectOver

\* A document merged with another one is one of the same depth.
LEMMA MergeOfNested ==
  ASSUME NEW names, NEW d \in Nat, NEW M, Merges(M, Nesting(names)[d])
  PROVE  \A t, p \in Nesting(names)[d] : M[<<t, p>>] \in Nesting(names)[d]
<1> DEFINE N == Nesting(names)
           A == {e \in Nat : e <= d => \A t, p \in N[e] : M[<<t, p>>] \in N[e]}
<1>1. 0 \in A
  <2>1. N[0] = {}
    BY NestingIs
  <2> HIDE DEF N
  <2> QED BY <2>1
<1>2. ASSUME NEW e \in A
      PROVE  e + 1 \in A
  <2>1. e \in Nat /\ e + 1 \in Nat
    OBVIOUS
  <2> SUFFICES ASSUME e + 1 <= d, NEW t \in N[e + 1], NEW p \in N[e + 1]
               PROVE  M[<<t, p>>] \in N[e + 1]
    BY <2>1
  <2>2. t \in N[d] /\ p \in N[d]
    <3> DEFINE m == e + 1
    <3>1. m \in Nat /\ m <= d /\ t \in N[m] /\ p \in N[m]
      BY <2>1
    <3> HIDE DEF m
    <3>2. N[m] \subseteq N[d]
      BY <3>1, NestingGrows
    <3> QED BY <3>1, <3>2
  <2> DEFINE V == N[e]
  <2>3. N[e + 1] = Over(V, names)
    BY <2>1, NestingIs
  <2>4. \A x, y \in V : M[<<x, y>>] \in V
    <3>1. e <= d
      BY <2>1
    <3> HIDE DEF N
    <3> QED BY <2>1, <3>1
  <2>5. MergesIn(M, V)
    <3> SUFFICES ASSUME NEW x \in V, NEW y \in V
                 PROVE  Null \in V
      BY <2>4 DEF MergesIn
    <3> DEFINE k == e - 1
    <3>1. e # 0
      BY NestingIs
    <3>2. k \in Nat /\ e = k + 1
      BY <2>1, <3>1
    <3> HIDE DEF k
    <3>3. N[k + 1] = Over(N[k], names)
      BY <3>2, NestingIs
    <3>4. 0 \in Int
      OBVIOUS
    <3>5. Null \in Over(N[k], names)
      BY <3>4, AtomIsOver DEF Null
    <3> QED BY <3>2, <3>3, <3>5
  <2> HIDE DEF N, V
  <2>6. t \in Over(V, names) /\ p \in Over(V, names)
    BY <2>3
  <2>7. ObjectsOver(t, V, names) /\ ObjectsOver(p, V, names)
    BY <2>6, KindsOf DEF ObjectsOver
  <2>8. CASE p.kind # "object"
    <3>1. M[<<t, p>>] = p
      BY <2>2, <2>8 DEF Merges, MergeOf, N
    <3> QED BY <3>1
  <2>9. CASE p.kind = "object"
    <3> DEFINE values == N[d]
    <3>1. t \in values /\ p \in values /\ Merges(M, values)
      BY <2>2 DEF N
    <3> HIDE DEF values
    <3>2. IsObjectOver(M[<<t, p>>], V, names)
      BY <2>5, <2>7, <2>9, <3>1, MergeIsOver
    <3>3. M[<<t, p>>] \in Over(V, names)
      BY <3>2, ObjectIsOver DEF IsObjectOver
    <3> QED BY <2>3, <3>3
  <2> QED BY <2>8, <2>9
<1>3. A = Nat
  <2>1. A \subseteq Nat
    OBVIOUS
  <2> HIDE DEF A
  <2> QED BY <1>1, <1>2, <2>1, NatsAll
<1>4. \A t, p \in N[d] : M[<<t, p>>] \in N[d]
  <2>1. d \in A /\ d <= d
    BY <1>3
  <2> HIDE DEF N
  <2>2. d <= d => \A t, p \in N[d] : M[<<t, p>>] \in N[d]
    BY <2>1, Zenon
  <2> QED BY <2>1, <2>2, Zenon
<1> QED BY <1>4 DEF N

MergesOnce(M, values) == \A t, p \in values : M[<<M[<<t, p>>], p>>] = M[<<t, p>>]

LEMMA MergedAgain ==
  ASSUME NEW names, NEW d \in Nat, NEW values \in SUBSET Nesting(names)[d], Closed(values), NEW M, Merges(M, values),
         MergesIn(M, values)
  PROVE  MergesOnce(M, values)
<1> DEFINE N == Nesting(names)
           A == {n \in Nat : \A t, p \in values : p \in N[n] => M[<<M[<<t, p>>], p>>] = M[<<t, p>>]}
<1>1. 0 \in A
  <2>1. N[0] = {}
    BY NestingIs
  <2>2. ASSUME NEW t \in values, NEW p \in values, p \in N[0]
        PROVE  M[<<M[<<t, p>>], p>>] = M[<<t, p>>]
    BY <2>1, <2>2
  <2> HIDE DEF N
  <2> QED BY <2>2
<1>2. ASSUME NEW n \in A
      PROVE  n + 1 \in A
  <2>1. n \in Nat /\ n + 1 \in Nat
    OBVIOUS
  <2> SUFFICES ASSUME NEW t \in values, NEW p \in values, p \in N[n + 1]
               PROVE  M[<<M[<<t, p>>], p>>] = M[<<t, p>>]
    BY <2>1
  <2> DEFINE r == M[<<t, p>>]
  <2>2. r \in values
    BY DEF MergesIn
  <2>3. r = MergeOf(M, t, p)
    BY DEF Merges
  <2>4. \A x \in values : M[<<x, p>>] = MergeOf(M, x, p)
    BY DEF Merges
  <2> HIDE DEF r
  <2>5. M[<<r, p>>] = MergeOf(M, r, p)
    BY <2>2, <2>4
  <2>6. CASE p.kind # "object"
    <3>1. r = p
      BY <2>3, <2>6 DEF MergeOf
    <3> QED BY <2>5, <2>6, <3>1 DEF MergeOf, r
  <2>7. CASE p.kind = "object"
    <3> DEFINE f(x) == [k \in Kept(x, p) |-> IF k \in DOMAIN p.items THEN M[<<Member(x, k), p.items[k]>>] ELSE Old(x)[k]]
               g == f(t)
    <3>1. \A x : MergeOf(M, x, p) = Object(f(x))
      BY <2>7 DEF MergeOf
    <3>2. DOMAIN g = Kept(t, p) /\ \A k \in Kept(t, p) : g[k] = IF k \in DOMAIN p.items THEN M[<<Member(t, k), p.items[k]>>] ELSE Old(t)[k]
      OBVIOUS
    <3>3. r = Object(g)
      BY <2>3, <3>1
    <3> HIDE DEF g
    <3>4. Old(r) = g
      BY <3>3 DEF Old, Object
    <3>5. Kept(r, p) = Kept(t, p)
      BY <3>2, <3>4 DEF Kept
    <3>6. ASSUME NEW k \in Kept(t, p), k \in DOMAIN p.items
          PROVE  M[<<Member(r, k), p.items[k]>>] = g[k]
      <4> DEFINE x == Member(t, k)
                 y == p.items[k]
      <4>1. x \in values /\ y \in values /\ y \in N[n]
        BY <2>1, <3>6, MemberIsValue, ShallowerMembers DEF Closed, Members
      <4>2. g[k] = M[<<x, y>>] /\ Member(r, k) = g[k]
        BY <3>2, <3>4, <3>6 DEF Member
      <4> HIDE DEF x, y, N
      <4>3. M[<<M[<<x, y>>], y>>] = M[<<x, y>>]
        BY <4>1
      <4> QED BY <4>2, <4>3 DEF y
    <3>7. f(r) = g
      <4>1. f(r) = [k \in Kept(t, p) |-> g[k]]
        BY <3>4, <3>5, <3>6
      <4>2. g = [k \in DOMAIN g |-> g[k]]
        BY DEF g
      <4> HIDE DEF f
      <4> QED BY <3>2, <4>1, <4>2
    <3> HIDE DEF f
    <3>8. M[<<r, p>>] = r
      BY <2>5, <3>1, <3>3, <3>7
    <3> QED BY <3>8 DEF r
  <2> QED BY <2>6, <2>7
<1>3. A = Nat
  <2>1. A \subseteq Nat
    OBVIOUS
  <2> HIDE DEF A
  <2> QED BY <1>1, <1>2, <2>1, NatsAll
<1>4. d \in A
  BY <1>3
<1> HIDE DEF N
<1>5. \A t, p \in values : p \in N[d] => M[<<M[<<t, p>>], p>>] = M[<<t, p>>]
  BY <1>4
<1> QED BY <1>5 DEF N, MergesOnce

NullIsGone(right, result1) ==
  right.kind = "object" => \A k \in DOMAIN right.items : k \in DOMAIN result1.items <=> right.items[k] # Null

LEMMA MergedNames ==
  ASSUME NEW values, NEW M, Merges(M, values), NEW t \in values, NEW p \in values
  PROVE  NullIsGone(p, M[<<t, p>>])
<1> SUFFICES ASSUME p.kind = "object", NEW k \in DOMAIN p.items
             PROVE  k \in DOMAIN M[<<t, p>>].items <=> p.items[k] # Null
  BY DEF NullIsGone
<1> DEFINE f == [i \in Kept(t, p) |-> IF i \in DOMAIN p.items THEN M[<<Member(t, i), p.items[i]>>] ELSE Old(t)[i]]
<1>1. M[<<t, p>>] = Object(f)
  BY DEF Merges, MergeOf
<1>2. DOMAIN f = Kept(t, p)
  OBVIOUS
<1> HIDE DEF f
<1>3. M[<<t, p>>].items = f
  BY <1>1 DEF Object
<1>4. k \in Kept(t, p) <=> p.items[k] # Null
  BY DEF Kept
<1> QED BY <1>2, <1>3, <1>4

\* The documents of a depth have their members among them.
LEMMA NestingIsClosed ==
  ASSUME NEW names, NEW depth \in Nat \ {0}
  PROVE  Closed(Nesting(names)[depth])
<1> DEFINE values == Nesting(names)[depth]
           e == depth - 1
<1>1. e \in Nat /\ depth = e + 1
  OBVIOUS
<1>2. values = Over(Nesting(names)[e], names) /\ Nesting(names)[e] \subseteq values
  <2>1. Nesting(names)[e + 1] = Over(Nesting(names)[e], names) /\ Nesting(names)[e] \subseteq Nesting(names)[e + 1]
    BY <1>1, NestingIs
  <2> QED BY <1>1, <2>1
<1> HIDE DEF e
<1>3. Null \in values
  <2>1. 0 \in Int
    OBVIOUS
  <2> QED BY <1>2, <2>1, AtomIsOver DEF Null
<1>4. ASSUME NEW v \in values
      PROVE  Members(v, values)
  <2>1. Members(v, Nesting(names)[e])
    BY <1>2, MembersAre
  <2> QED BY <1>2, <2>1 DEF Members
<1> QED BY <1>3, <1>4 DEF Closed

\* Merging a document again changes nothing, however deep the documents are,
\* the result is one of their depth, and no member of it is null by the merge.
THEOREM MergesAreIdempotent ==
  ASSUME NEW names, NEW depth \in Nat \ {0}, NEW M, IsMerge(M, Nesting(names)[depth]),
         NEW left \in Nesting(names)[depth], NEW right \in Nesting(names)[depth]
  PROVE  /\ M[<<left, right>>] \in Nesting(names)[depth]
         /\ M[<<M[<<left, right>>], right>>] = M[<<left, right>>]
         /\ NullIsGone(right, M[<<left, right>>])
<1> DEFINE values == Nesting(names)[depth]
<1>1. depth \in Nat
  OBVIOUS
<1>3. Closed(values)
  BY NestingIsClosed
<1>4. Merges(M, values)
  BY MergeIs
<1>5. \A t, p \in values : M[<<t, p>>] \in values
  BY <1>1, <1>4, MergeOfNested
<1> HIDE DEF values
<1>6. MergesIn(M, values)
  BY <1>3, <1>5 DEF MergesIn, Closed
<1>7. left \in values /\ right \in values /\ values \in SUBSET Nesting(names)[depth]
  BY DEF values
<1>8. MergesOnce(M, values)
  BY <1>1, <1>3, <1>4, <1>6, <1>7, MergedAgain
<1>9. M[<<M[<<left, right>>], right>>] = M[<<left, right>>]
  BY <1>7, <1>8, Zenon DEF MergesOnce
<1>10. NullIsGone(right, M[<<left, right>>])
  BY <1>4, <1>7, MergedNames
<1> QED BY <1>5, <1>7, <1>9, <1>10 DEF values

-----------------------------------------------------------------------------
(* The documents that the calls are made with *)

Atoms == {Null, Atom(1)}

LEMMA SequencesUpTo ==
  ASSUME NEW S, NEW n \in Nat, NEW s
  PROVE  s \in SeqsUpTo(S, n) <=> s \in Seq(S) /\ Len(s) <= n
<1>1. ASSUME s \in SeqsUpTo(S, n)
      PROVE  s \in Seq(S) /\ Len(s) <= n
  <2>1. PICK m \in 0..n : s \in [1..m -> S]
    BY <1>1 DEF SeqsUpTo
  <2> QED BY <2>1
<1>2. ASSUME s \in Seq(S), Len(s) <= n
      PROVE  s \in SeqsUpTo(S, n)
  <2>1. Len(s) \in 0..n /\ s \in [1..Len(s) -> S]
    BY <1>2
  <2> QED BY <2>1 DEF SeqsUpTo
<1> QED BY <1>1, <1>2

LEMMA LeafKinds ==
  ASSUME NEW v
  PROVE  v \in Leaves <=> \/ v \in Atoms
                          \/ v = List(<<>>)
                          \/ \E keys \in SUBSET {Name} : \E f \in [keys -> Atoms] : v = Object(f)
<1>1. ASSUME NEW keys \in SUBSET {Name}, NEW f \in [keys -> Atoms], v = Object(f)
      PROVE  v \in Leaves
  <2>1. CASE keys = {}
    <3>1. f = <<>>
      BY <2>1
    <3> QED BY <1>1, <3>1 DEF Leaves
  <2>2. CASE keys = {Name}
    <3>1. f = [k \in {Name} |-> f[Name]] /\ f[Name] \in Atoms
      BY <2>2
    <3> QED BY <1>1, <3>1 DEF Leaves, Atoms
  <2>3. keys = {} \/ keys = {Name}
    BY Zenon
  <2> QED BY <2>1, <2>2, <2>3
<1>2. ASSUME v = Object(<<>>)
      PROVE  \E keys \in SUBSET {Name} : \E f \in [keys -> Atoms] : v = Object(f)
  <2>1. <<>> \in [{} -> Atoms] /\ {} \in SUBSET {Name}
    OBVIOUS
  <2> QED BY <1>2, <2>1
<1>3. ASSUME NEW w \in {Null, Atom(1)}, v = Object([k \in {Name} |-> w])
      PROVE  \E keys \in SUBSET {Name} : \E f \in [keys -> Atoms] : v = Object(f)
  <2>1. [k \in {Name} |-> w] \in [{Name} -> Atoms] /\ {Name} \in SUBSET {Name}
    BY DEF Atoms
  <2> QED BY <1>3, <2>1
<1>4. ASSUME v \in Leaves
      PROVE  \/ v \in Atoms
             \/ v = List(<<>>)
             \/ \E keys \in SUBSET {Name} : \E f \in [keys -> Atoms] : v = Object(f)
  <2>1. \/ v \in Atoms
        \/ v = List(<<>>)
        \/ v = Object(<<>>)
        \/ \E w \in {Null, Atom(1)} : v = Object([k \in {Name} |-> w])
    BY <1>4, Zenon DEF Leaves, Atoms
  <2> QED BY <1>2, <1>3, <2>1
<1>5. ASSUME v \in Atoms \/ v = List(<<>>)
      PROVE  v \in Leaves
  BY <1>5 DEF Leaves, Atoms
<1> QED BY <1>1, <1>4, <1>5

LEMMA DocumentKinds ==
  ASSUME NEW v
  PROVE  v \in Documents <=> \/ v \in Leaves
                             \/ \E s \in Seq(Leaves) : Len(s) <= 2 /\ v = List(s)
                             \/ \E keys \in SUBSET {0, Name} : \E f \in [keys -> Leaves] : v = Object(f)
<1>1. v \in Documents <=> \/ v \in Leaves
                          \/ \E s \in SeqsUpTo(Leaves, 2) : v = List(s)
                          \/ \E f \in UNION {[keys -> Leaves] : keys \in SUBSET {0, Name}} : v = Object(f)
  BY Zenon DEF Documents
<1>2. (\E s \in SeqsUpTo(Leaves, 2) : v = List(s)) <=> \E s \in Seq(Leaves) : Len(s) <= 2 /\ v = List(s)
  <2>1. \A s : s \in SeqsUpTo(Leaves, 2) <=> s \in Seq(Leaves) /\ Len(s) <= 2
    <3>1. 2 \in Nat
      OBVIOUS
    <3> QED BY <3>1, SequencesUpTo
  <2> QED BY <2>1, Zenon
<1>3. (\E f \in UNION {[keys -> Leaves] : keys \in SUBSET {0, Name}} : v = Object(f))
        <=> \E keys \in SUBSET {0, Name} : \E f \in [keys -> Leaves] : v = Object(f)
  BY Zenon
<1> QED BY <1>1, <1>2, <1>3, Zenon

\* An atom has no members, and the members of a list are these.
LEMMA AtomsAre ==
  ASSUME NEW v \in Atoms
  PROVE  v.kind = "atom" /\ v.items = <<>>
BY DEF Atoms, Null, Atom

LEMMA ListIs ==
  ASSUME NEW s
  PROVE  List(s).kind = "list" /\ List(s).items = s /\ List(s).atom = 0
BY DEF List

LEMMA ObjectIs ==
  ASSUME NEW f
  PROVE  Object(f).kind = "object" /\ Object(f).items = f /\ Object(f).atom = 0
BY DEF Object

LEMMA LeavesOver ==
  ASSUME NEW v \in Leaves
  PROVE  ObjectsOver(v, Atoms, {Name}) /\ Members(v, Leaves) /\ v \in Over(Atoms, {Name})
<1>1. CASE v \in Atoms
  <2>1. v.items = <<>> /\ v.kind = "atom"
    BY <1>1, AtomsAre
  <2>2. v \in Over(Atoms, {Name})
    <3>1. 0 \in Int /\ 1 \in Int
      OBVIOUS
    <3> QED BY <1>1, <3>1, AtomIsOver DEF Atoms, Null
  <2> QED BY <2>1, <2>2 DEF ObjectsOver, Members
<1>2. CASE v = List(<<>>)
  <2>1. v.items = <<>> /\ v.kind = "list"
    BY <1>2, ListIs
  <2>2. v \in Over(Atoms, {Name})
    <3>1. <<>> \in Seq(Atoms)
      OBVIOUS
    <3> QED BY <1>2, <3>1, ListIsOver
  <2> QED BY <2>1, <2>2 DEF ObjectsOver, Members
<1>3. ASSUME NEW keys \in SUBSET {Name}, NEW f \in [keys -> Atoms], v = Object(f)
      PROVE  ObjectsOver(v, Atoms, {Name}) /\ Members(v, Leaves) /\ v \in Over(Atoms, {Name})
  <2>1. v.items = f
    BY <1>3, ObjectIs
  <2>2. \A k \in DOMAIN f : f[k] \in Leaves
    BY LeafKinds
  <2>3. v \in Over(Atoms, {Name})
    BY <1>3, ObjectIsOver
  <2> QED BY <2>1, <2>2, <2>3 DEF ObjectsOver, Members
<1> QED BY <1>1, <1>2, <1>3, LeafKinds

LEMMA DocumentsOver ==
  ASSUME NEW v \in Documents
  PROVE  ObjectsOver(v, Leaves, {0, Name}) /\ Members(v, Leaves) /\ v \in Over(Leaves, {0, Name})
<1>1. CASE v \in Leaves
  <2>1. Atoms \subseteq Leaves /\ {Name} \subseteq {0, Name}
    BY LeafKinds
  <2>2. ObjectsOver(v, Leaves, {0, Name})
    BY <1>1, <2>1, LeavesOver DEF ObjectsOver
  <2>3. v \in Over(Leaves, {0, Name})
    <3>1. v \in Over(Atoms, {Name})
      BY <1>1, LeavesOver
    <3>2. v \in Over(Leaves, {Name})
      BY <2>1, <3>1, OverGrows
    <3> QED BY <3>2 DEF Over
  <2> QED BY <1>1, <2>2, <2>3, LeavesOver
<1>2. ASSUME NEW s \in Seq(Leaves), v = List(s)
      PROVE  ObjectsOver(v, Leaves, {0, Name}) /\ Members(v, Leaves) /\ v \in Over(Leaves, {0, Name})
  <2>1. v.items = s /\ v.kind = "list"
    BY <1>2, ListIs
  <2>2. v \in Over(Leaves, {0, Name})
    BY <1>2, ListIsOver
  <2> QED BY <2>1, <2>2 DEF ObjectsOver, Members
<1>3. ASSUME NEW keys \in SUBSET {0, Name}, NEW f \in [keys -> Leaves], v = Object(f)
      PROVE  ObjectsOver(v, Leaves, {0, Name}) /\ Members(v, Leaves) /\ v \in Over(Leaves, {0, Name})
  <2>1. v.items = f
    BY <1>3, ObjectIs
  <2>2. v \in Over(Leaves, {0, Name})
    BY <1>3, ObjectIsOver
  <2> QED BY <2>1, <2>2 DEF ObjectsOver, Members
<1> QED BY <1>1, <1>2, <1>3, DocumentKinds

LEMMA NamesGrow ==
  ASSUME NEW V, NEW names, NEW more, names \subseteq more
  PROVE  Over(V, names) \subseteq Over(V, more)
BY DEF Over

LEMMA DocumentsNestOver ==
  ASSUME NEW names, {0, Name} \subseteq names
  PROVE  /\ Leaves \subseteq Documents /\ Documents \subseteq Nesting(names)[3] /\ Closed(Documents)
         /\ Atom(1) \in Nesting(names)[1] /\ Leaves \subseteq Nesting(names)[2]
<1> DEFINE N == Nesting(names)
<1>1. N[1] = Over(N[0], names) /\ N[2] = Over(N[1], names) /\ N[3] = Over(N[2], names)
  <2>1. 0 \in Nat /\ 1 \in Nat /\ 2 \in Nat /\ 0 + 1 = 1 /\ 1 + 1 = 2 /\ 2 + 1 = 3
    OBVIOUS
  <2>2. \A n \in Nat : N[n + 1] = Over(N[n], names)
    BY NestingIs
  <2> HIDE DEF N
  <2>3. N[0 + 1] = Over(N[0], names) /\ N[1 + 1] = Over(N[1], names) /\ N[2 + 1] = Over(N[2], names)
    BY <2>1, <2>2
  <2> QED BY <2>1, <2>3
<1> HIDE DEF N
<1>2. Atoms \subseteq N[1]
  <2>1. 0 \in Int /\ 1 \in Int
    OBVIOUS
  <2> QED BY <1>1, <2>1, AtomIsOver DEF Atoms, Null
<1>3. {Name} \subseteq names /\ {0, Name} \subseteq names
  OBVIOUS
<1>4. Leaves \subseteq N[2]
  <2> SUFFICES ASSUME NEW v \in Leaves
               PROVE  v \in N[2]
    OBVIOUS
  <2>1. v \in Over(Atoms, {Name})
    BY LeavesOver
  <2>2. v \in Over(N[1], {Name})
    BY <1>2, <2>1, OverGrows
  <2> QED BY <1>1, <1>3, <2>2, NamesGrow
<1>5. Documents \subseteq N[3]
  <2> SUFFICES ASSUME NEW v \in Documents
               PROVE  v \in N[3]
    OBVIOUS
  <2>1. v \in Over(Leaves, {0, Name})
    BY DocumentsOver
  <2>2. v \in Over(N[2], {0, Name})
    BY <1>4, <2>1, OverGrows
  <2> QED BY <1>1, <1>3, <2>2, NamesGrow
<1>6. Leaves \subseteq Documents
  BY DocumentKinds
<1>7. Closed(Documents)
  <2>1. Null \in Documents
    BY <1>6, LeafKinds DEF Atoms
  <2>2. \A v \in Documents : Members(v, Documents)
    BY <1>6, DocumentsOver DEF Members
  <2> QED BY <2>1, <2>2 DEF Closed
<1> QED BY <1>2, <1>4, <1>5, <1>6, <1>7 DEF N, Atoms

LEMMA DocumentsAreNested ==
  /\ Leaves \subseteq Documents /\ Documents \subseteq Nesting(Tokens)[3] /\ Closed(Documents)
  /\ Atom(1) \in Nesting(Tokens)[1]
<1>1. {0, Name} \subseteq Tokens
  BY DEF Tokens
<1> QED BY <1>1, DocumentsNestOver

LEMMA MergePatchIs ==
  IsMerge(MergePatch, Documents)
<1>1. MergePatch = CHOOSE M : IsMerge(M, Documents)
  BY Zenon DEF MergePatch, IsMerge, MergeOf, Old, Member, Kept
<1>2. \E M : IsMerge(M, Documents)
  <2>1. 3 \in Nat /\ Documents \in SUBSET Nesting(Tokens)[3] /\ Closed(Documents)
    BY DocumentsAreNested
  <2> QED BY <2>1, MergeExists
<1> QED BY <1>1, <1>2, Zenon

LEMMA MergesInDocuments ==
  MergesIn(MergePatch, Documents)
<1> DEFINE M == MergePatch
<1>1. Merges(M, Documents)
  BY MergePatchIs, MergeIs
<1>2. Leaves \subseteq Documents /\ Atoms \subseteq Leaves /\ Null \in Atoms
  BY DocumentsAreNested, LeafKinds DEF Atoms
<1>3. \A t, p \in Documents : p.kind # "object" => M[<<t, p>>] = p
  BY <1>1 DEF Merges, MergeOf
<1> HIDE DEF M
<1>4. MergesIn(M, Atoms)
  <2> SUFFICES ASSUME NEW t \in Atoms, NEW p \in Atoms
               PROVE  M[<<t, p>>] \in Atoms
    BY <1>2 DEF MergesIn
  <2>1. p.kind # "object"
    BY AtomsAre
  <2> QED BY <1>2, <1>3, <2>1
<1>5. MergesIn(M, Leaves)
  <2> SUFFICES ASSUME NEW t \in Leaves, NEW p \in Leaves
               PROVE  M[<<t, p>>] \in Leaves
    BY <1>2 DEF MergesIn
  <2>1. t \in Documents /\ p \in Documents
    BY <1>2
  <2>2. CASE p.kind # "object"
    BY <1>3, <2>1, <2>2
  <2>3. CASE p.kind = "object"
    <3>1. ObjectsOver(t, Atoms, {Name}) /\ ObjectsOver(p, Atoms, {Name})
      BY LeavesOver
    <3>2. IsObjectOver(M[<<t, p>>], Atoms, {Name})
      BY <1>1, <1>4, <2>1, <2>3, <3>1, MergeIsOver
    <3> QED BY <3>2, LeafKinds DEF IsObjectOver
  <2> QED BY <2>2, <2>3
<1>6. MergesIn(M, Documents)
  <2> SUFFICES ASSUME NEW t \in Documents, NEW p \in Documents
               PROVE  M[<<t, p>>] \in Documents
    BY <1>2 DEF MergesIn
  <2>1. CASE p.kind # "object"
    BY <1>3, <2>1
  <2>2. CASE p.kind = "object"
    <3>1. ObjectsOver(t, Leaves, {0, Name}) /\ ObjectsOver(p, Leaves, {0, Name})
      BY DocumentsOver
    <3>2. IsObjectOver(M[<<t, p>>], Leaves, {0, Name})
      BY <1>1, <1>5, <2>2, <3>1, MergeIsOver
    <3> QED BY <3>2, DocumentKinds DEF IsObjectOver
  <2> QED BY <2>1, <2>2
<1> QED BY <1>6 DEF M

LEMMA DocumentsMerged ==
  ASSUME NEW left \in Documents, NEW right \in Documents
  PROVE  MergeIsIdempotent(left, right, MergePatch[<<left, right>>])
<1>1. 3 \in Nat /\ Documents \in SUBSET Nesting(Tokens)[3] /\ Closed(Documents)
  BY DocumentsAreNested
<1>2. Merges(MergePatch, Documents)
  BY MergePatchIs, MergeIs
<1>3. MergesOnce(MergePatch, Documents)
  BY <1>1, <1>2, MergesInDocuments, MergedAgain
<1>4. MergePatch[<<MergePatch[<<left, right>>], right>>] = MergePatch[<<left, right>>]
  BY <1>3, Zenon DEF MergesOnce
<1>5. NullIsGone(right, MergePatch[<<left, right>>])
  BY <1>2, MergedNames
<1> QED BY <1>4, <1>5, Zenon DEF MergeIsIdempotent, NullIsGone

-----------------------------------------------------------------------------
(* json_diff_paths *)

Token(v, k) == IF v.kind = "list" THEN k - 1 ELSE k
Both(l, r) == DOMAIN l.items \cap DOMAIN r.items
One(l, r) == (DOMAIN l.items \cup DOMAIN r.items) \ Both(l, r)
PathsOf(D, l, r) ==
  IF l.kind # r.kind \/ l.atom # r.atom THEN {<<>>}
  ELSE {<<Token(l, k)>> : k \in One(l, r)}
         \cup UNION {{<<Token(l, k)>> \o path : path \in D[<<l.items[k], r.items[k]>>]} : k \in Both(l, r)}

\* D compares the values as json_diff_paths does.
FindsPaths(D, values) == \A l, r \in values : D[<<l, r>>] = PathsOf(D, l, r)
AreComparison(D, values) == D = [pair \in values \X values |-> PathsOf(D, pair[1], pair[2])]

\* The same in the members.
EqualOn(D, H, V, W) == \A x \in V, y \in W : D[<<x, y>>] = H[<<x, y>>]

LEMMA ComparesAlike ==
  ASSUME NEW V, NEW W, NEW D, NEW H, EqualOn(D, H, V, W), NEW l, NEW r, Members(l, V), Members(r, W)
  PROVE  PathsOf(D, l, r) = PathsOf(H, l, r)
<1>1. ASSUME NEW k \in Both(l, r)
      PROVE  D[<<l.items[k], r.items[k]>>] = H[<<l.items[k], r.items[k]>>]
  <2> DEFINE x == l.items[k]
             y == r.items[k]
  <2>1. x \in V /\ y \in W
    BY DEF Both, Members
  <2> HIDE DEF x, y
  <2> QED BY <2>1, Zenon DEF EqualOn, x, y
<1> DEFINE sub(E, k) == {<<Token(l, k)>> \o path : path \in E[<<l.items[k], r.items[k]>>]}
<1>2. \A k \in Both(l, r) : sub(D, k) = sub(H, k)
  BY <1>1
<1>3. \A E : PathsOf(E, l, r) = IF l.kind # r.kind \/ l.atom # r.atom THEN {<<>>}
                                ELSE {<<Token(l, k)>> : k \in One(l, r)} \cup UNION {sub(E, k) : k \in Both(l, r)}
  BY Zenon DEF PathsOf
<1> HIDE DEF sub
<1>4. {sub(D, k) : k \in Both(l, r)} = {sub(H, k) : k \in Both(l, r)}
  BY <1>2
<1> QED BY <1>3, <1>4

LEMMA ComparisonExists ==
  ASSUME NEW names, NEW d \in Nat, NEW values \in SUBSET Nesting(names)[d], Closed(values)
  PROVE  \E D : AreComparison(D, values)
<1> DEFINE N == Nesting(names)
           Good(D, n) == \A l, r \in values : l \in N[n] => D[<<l, r>>] = PathsOf(D, l, r)
           A == {n \in Nat : \E D : Good(D, n)}
<1>1. 0 \in A
  <2>1. N[0] = {}
    BY NestingIs
  <2> HIDE DEF N
  <2> QED BY <2>1
<1>2. ASSUME NEW n \in A
      PROVE  n + 1 \in A
  <2>1. n \in Nat /\ n + 1 \in Nat
    OBVIOUS
  <2>2. PICK D : Good(D, n)
    OBVIOUS
  <2> DEFINE H == [pair \in values \X values |-> PathsOf(D, pair[1], pair[2])]
             V == values \cap N[n]
  <2>3. \A l, r \in values : H[<<l, r>>] = PathsOf(D, l, r)
    OBVIOUS
  <2> HIDE DEF H
  <2>4. EqualOn(H, D, V, values)
    BY <2>2, <2>3 DEF EqualOn
  <2>5. Good(H, n + 1)
    <3> SUFFICES ASSUME NEW l \in values, NEW r \in values, l \in N[n + 1]
                 PROVE  H[<<l, r>>] = PathsOf(H, l, r)
      OBVIOUS
    <3>1. Members(l, N[n])
      BY <2>1, ShallowerMembers
    <3>2. Members(l, V) /\ Members(r, values)
      BY <3>1 DEF Members, Closed
    <3>3. PathsOf(H, l, r) = PathsOf(D, l, r)
      <4> HIDE DEF V
      <4> QED BY <2>4, <3>2, ComparesAlike
    <3> QED BY <2>3, <3>3
  <2> HIDE DEF Good
  <2> QED BY <2>1, <2>5
<1>3. A = Nat
  <2>1. A \subseteq Nat
    OBVIOUS
  <2> HIDE DEF A
  <2> QED BY <1>1, <1>2, <2>1, NatsAll
<1>4. PICK D : Good(D, d)
  BY <1>3
<1> DEFINE H == [pair \in values \X values |-> D[pair]]
<1>5. \A l, r \in values : H[<<l, r>>] = D[<<l, r>>] /\ D[<<l, r>>] = PathsOf(D, l, r)
  BY <1>4
<1> HIDE DEF H
<1>6. EqualOn(H, D, values, values)
  BY <1>5 DEF EqualOn
<1>7. ASSUME NEW l \in values, NEW r \in values
      PROVE  H[<<l, r>>] = PathsOf(H, l, r)
  <2>1. Members(l, values) /\ Members(r, values)
    BY DEF Closed
  <2>2. PathsOf(H, l, r) = PathsOf(D, l, r)
    BY <1>6, <2>1, ComparesAlike
  <2> QED BY <1>5, <2>2
<1>8. H = [pair \in values \X values |-> PathsOf(H, pair[1], pair[2])]
  <2>1. H = [pair \in values \X values |-> H[pair]]
    BY DEF H
  <2>2. \A pair \in values \X values : H[pair] = PathsOf(H, pair[1], pair[2])
    BY <1>7
  <2> QED BY <2>1, <2>2
<1> QED BY <1>8 DEF AreComparison

LEMMA ComparisonIs ==
  ASSUME NEW values, NEW D, AreComparison(D, values)
  PROVE  FindsPaths(D, values)
<1> SUFFICES ASSUME NEW l \in values, NEW r \in values
             PROVE  D[<<l, r>>] = PathsOf(D, l, r)
  BY DEF FindsPaths
<1> DEFINE pair == <<l, r>>
<1>1. pair \in values \X values /\ pair[1] = l /\ pair[2] = r
  OBVIOUS
<1> HIDE DEF pair
<1>2. D[pair] = PathsOf(D, pair[1], pair[2])
  BY <1>1 DEF AreComparison
<1> QED BY <1>1, <1>2 DEF pair

LEMMA DifferentPathsAre ==
  AreComparison(DifferentPaths, Documents)
<1>1. DifferentPaths = CHOOSE D : AreComparison(D, Documents)
  BY Zenon DEF DifferentPaths, AreComparison, PathsOf, Token, Both, One
<1>2. \E D : AreComparison(D, Documents)
  <2>1. 3 \in Nat /\ Documents \in SUBSET Nesting(Tokens)[3] /\ Closed(Documents)
    BY DocumentsAreNested
  <2> QED BY <2>1, ComparisonExists
<1> QED BY <1>1, <1>2, Zenon

\* A path with a token in front of it.
LEMMA ConsIs ==
  ASSUME NEW X, NEW t, NEW q \in Seq(X)
  PROVE  /\ <<t>> \o q \in Seq(X \cup {t}) /\ Len(<<t>> \o q) = Len(q) + 1
         /\ (<<t>> \o q)[1] = t /\ \A i \in 1..Len(q) : (<<t>> \o q)[i + 1] = q[i]
<1> DEFINE V == X \cup {t}
           a == <<t>>
           r == a \o q
<1>1. a \in Seq(V) /\ q \in Seq(V) /\ Len(a) = 1 /\ a[1] = t
  OBVIOUS
<1> HIDE DEF a, V
<1>2. r \in Seq(V) /\ IsJoined(r, a, q)
  BY <1>1, Joined
<1> HIDE DEF r
<1>3. Len(q) \in Nat
  OBVIOUS
<1>4. Len(r) = Len(q) + 1 /\ r[1] = t
  BY <1>1, <1>2, <1>3 DEF IsJoined
<1>5. ASSUME NEW i \in 1..Len(q)
      PROVE  r[i + 1] = q[i]
  <2>1. r[1 + i] = q[i]
    BY <1>1, <1>2 DEF IsJoined
  <2>2. 1 + i = i + 1
    OBVIOUS
  <2> QED BY <2>1, <2>2
<1> QED BY <1>2, <1>4, <1>5 DEF r, a, V

LEMMA ConsParts ==
  ASSUME NEW X, NEW p \in Seq(X), p # <<>>
  PROVE  \E t \in X : \E q \in Seq(X) : p = <<t>> \o q /\ Len(q) = Len(p) - 1
<1>1. Len(p) \in Nat \ {0}
  OBVIOUS
<1> DEFINE t == p[1]
           q == Tail(p)
           r == <<t>> \o q
<1>2. t \in X /\ q \in Seq(X) /\ Len(q) = Len(p) - 1 /\ \A i \in 1..(Len(p) - 1) : q[i] = p[i + 1]
  BY <1>1
<1> HIDE DEF t, q
<1>3. /\ r \in Seq(X \cup {t}) /\ Len(r) = Len(q) + 1
      /\ r[1] = t /\ \A i \in 1..Len(q) : r[i + 1] = q[i]
  BY <1>2, ConsIs
<1> HIDE DEF r
<1>4. X \cup {t} = X
  BY <1>2
<1>5. \A i \in 1..Len(p) : r[i] = p[i]
  <2> TAKE i \in 1..Len(p)
  <2>1. CASE i = 1
    BY <1>3, <2>1 DEF t
  <2>2. CASE i # 1
    <3> DEFINE j == i - 1
    <3>1. j \in 1..(Len(p) - 1) /\ i = j + 1
      BY <1>1, <2>2
    <3> HIDE DEF j
    <3> QED BY <1>2, <1>3, <3>1
  <2> QED BY <2>1, <2>2
<1>6. Len(r) = Len(p)
  BY <1>1, <1>2, <1>3
<1>7. r = p
  BY <1>3, <1>4, <1>5, <1>6
<1> QED BY <1>2, <1>7 DEF r

SameCons(a, x, t, q) == <<a>> \o x = <<t>> \o q <=> a = t /\ x = q

LEMMA ConsEqual ==
  ASSUME NEW X, NEW a, NEW x \in Seq(X), NEW t, NEW q \in Seq(X)
  PROVE  SameCons(a, x, t, q)
<1> DEFINE u == <<a>> \o x
           v == <<t>> \o q
<1>1. Len(u) = Len(x) + 1 /\ u[1] = a /\ \A i \in 1..Len(x) : u[i + 1] = x[i]
  BY ConsIs
<1>2. Len(v) = Len(q) + 1 /\ v[1] = t /\ \A i \in 1..Len(q) : v[i + 1] = q[i]
  BY ConsIs
<1>3. Len(x) \in Nat /\ Len(q) \in Nat
  OBVIOUS
<1>4. ASSUME u = v
      PROVE  a = t /\ x = q
  <2> HIDE DEF u, v
  <2>1. a = t /\ Len(x) = Len(q)
    BY <1>1, <1>2, <1>3, <1>4
  <2>2. \A i \in 1..Len(x) : x[i] = q[i]
    BY <1>1, <1>2, <1>4, <2>1
  <2> QED BY <2>1, <2>2
<1> QED BY <1>4 DEF SameCons

LEMMA ConsPrefix ==
  ASSUME NEW X, NEW a, NEW x \in Seq(X), NEW t, NEW q \in Seq(X)
  PROVE  IsPrefix(<<a>> \o x, <<t>> \o q) <=> a = t /\ IsPrefix(x, q)
<1> DEFINE u == <<a>> \o x
           v == <<t>> \o q
           n == Len(x)
<1>1. u \in Seq(X \cup {a}) /\ Len(u) = n + 1 /\ u[1] = a /\ \A i \in 1..n : u[i + 1] = x[i]
  BY ConsIs
<1>2. v \in Seq(X \cup {t}) /\ Len(v) = Len(q) + 1 /\ v[1] = t /\ \A i \in 1..Len(q) : v[i + 1] = q[i]
  BY ConsIs
<1>3. n \in Nat /\ Len(q) \in Nat
  OBVIOUS
<1> HIDE DEF u, v
<1>4. IsPrefix(u, v) <=> n + 1 <= Len(q) + 1 /\ \A i \in 1..(n + 1) : u[i] = v[i]
  <2>1. CASE n + 1 <= Len(q) + 1
    <3> DEFINE Y == X \cup {a, t}
               m == n + 1
    <3>1. u \in Seq(Y) /\ v \in Seq(Y) /\ m \in Nat /\ m <= Len(u) /\ m <= Len(v)
      BY <1>1, <1>2, <1>3, <2>1
    <3> HIDE DEF Y, m
    <3>2. SubSeq(u, 1, m) = SubSeq(v, 1, m) <=> \A i \in 1..m : u[i] = v[i]
      BY <3>1
    <3> QED BY <1>1, <1>2, <2>1, <3>2 DEF IsPrefix, m
  <2>2. CASE ~(n + 1 <= Len(q) + 1)
    BY <1>1, <1>2, <2>2 DEF IsPrefix
  <2> QED BY <2>1, <2>2
<1>5. IsPrefix(x, q) <=> n <= Len(q) /\ \A i \in 1..n : x[i] = q[i]
  <2>1. CASE n <= Len(q)
    <3>1. SubSeq(x, 1, n) = SubSeq(q, 1, n) <=> \A i \in 1..n : x[i] = q[i]
      BY <1>3, <2>1
    <3> QED BY <2>1, <3>1 DEF IsPrefix
  <2>2. CASE ~(n <= Len(q))
    BY <2>2 DEF IsPrefix
  <2> QED BY <2>1, <2>2
<1>6. ASSUME n <= Len(q)
      PROVE  (\A i \in 1..(n + 1) : u[i] = v[i]) <=> a = t /\ \A i \in 1..n : x[i] = q[i]
  <2>1. ASSUME \A i \in 1..(n + 1) : u[i] = v[i]
        PROVE  a = t /\ \A i \in 1..n : x[i] = q[i]
    <3>1. a = t
      BY <1>1, <1>2, <1>3, <2>1
    <3>2. ASSUME NEW i \in 1..n
          PROVE  x[i] = q[i]
      <4>1. i + 1 \in 1..(n + 1) /\ i \in 1..Len(q)
        BY <1>3, <1>6
      <4>2. u[i + 1] = v[i + 1]
        BY <2>1, <4>1
      <4> QED BY <1>1, <1>2, <4>1, <4>2
    <3> QED BY <3>1, <3>2
  <2>2. ASSUME a = t, \A i \in 1..n : x[i] = q[i], NEW i \in 1..(n + 1)
        PROVE  u[i] = v[i]
    <3>1. CASE i = 1
      BY <1>1, <1>2, <2>2, <3>1
    <3>2. CASE i # 1
      <4> DEFINE j == i - 1
      <4>1. j \in 1..n /\ i = j + 1 /\ j \in 1..Len(q)
        BY <1>3, <1>6, <3>2
      <4> HIDE DEF j
      <4> QED BY <1>1, <1>2, <2>2, <4>1
    <3> QED BY <3>1, <3>2
  <2> QED BY <2>1, <2>2
<1>7. n + 1 <= Len(q) + 1 <=> n <= Len(q)
  BY <1>3
<1> QED BY <1>4, <1>5, <1>6, <1>7 DEF u, v

LEMMA RootIsPrefix ==
  ASSUME NEW X, NEW q \in Seq(X)
  PROVE  /\ IsPrefix(<<>>, q)
         /\ IsPrefix(q, <<>>) <=> q = <<>>
<1>1. Len(q) \in Nat /\ Len(<<>>) = 0 /\ (Len(q) <= 0 <=> q = <<>>)
  OBVIOUS
<1>2. SubSeq(<<>>, 1, 0) = <<>> /\ SubSeq(q, 1, 0) = <<>>
  OBVIOUS
<1> QED BY <1>1, <1>2 DEF IsPrefix

LEMMA FindCons ==
  ASSUME NEW doc, NEW t, NEW X, NEW q \in Seq(X)
  PROVE  Find(doc, <<t>> \o q) = Find(Child(doc, t), q)
<1> DEFINE n == Len(q)
           p == <<t>> \o q
<1>1. n \in Nat /\ DOMAIN q = 1..n
  OBVIOUS
<1>2. p \in Seq(X \cup {t}) /\ Len(p) = n + 1 /\ p[1] = t /\ \A i \in 1..n : p[i + 1] = q[i]
  BY ConsIs
<1> HIDE DEF n, p
<1>3. DOMAIN p = 1..(n + 1) /\ n + 1 \in Nat
  BY <1>1, <1>2
<1>4. PICK w : Walks(w, doc, p, n + 1)
  BY <1>3, WalkExists
<1>5. Find(doc, p) = w[n + 1]
  BY <1>3, <1>4, FindIsWalk
<1> DEFINE x == [i \in 0..n |-> w[i + 1]]
<1>6. w[0] = doc /\ \A i \in 1..(n + 1) : w[i] = Child(w[i - 1], p[i])
  BY <1>4 DEF Walks
<1>7. w[1] = Child(doc, t)
  <2>1. 1 \in 1..(n + 1) /\ 1 - 1 = 0
    BY <1>1
  <2>2. w[1] = Child(w[1 - 1], p[1])
    BY <1>6, <2>1
  <2> QED BY <1>2, <1>6, <2>1, <2>2
<1>8. Walks(x, Child(doc, t), q, n)
  <2>1. x[0] = Child(doc, t)
    BY <1>1, <1>7
  <2>2. ASSUME NEW i \in 1..n
        PROVE  x[i] = Child(x[i - 1], q[i])
    <3> DEFINE j == i + 1
    <3>1. j \in 1..(n + 1) /\ j - 1 = i /\ i \in 0..n /\ i - 1 \in 0..n /\ i - 1 + 1 = i
      BY <1>1
    <3>2. x[i] = w[j] /\ x[i - 1] = w[i] /\ p[j] = q[i]
      BY <1>2, <3>1
    <3> HIDE DEF j, x
    <3>3. w[j] = Child(w[j - 1], p[j])
      BY <1>6, <3>1
    <3> QED BY <3>1, <3>2, <3>3
  <2> HIDE DEF x
  <2> QED BY <2>1, <2>2 DEF Walks
<1>9. x[n] = w[n + 1]
  BY <1>1
<1> HIDE DEF x
<1>10. Find(Child(doc, t), q) = x[n]
  BY <1>1, <1>8, FindIsWalk
<1> QED BY <1>5, <1>9, <1>10 DEF p

LEMMA FindInNone ==
  ASSUME NEW X, NEW q \in Seq(X)
  PROVE  Find(None, q) = None
<1> DEFINE n == Len(q)
           w == [i \in 0..n |-> None]
<1>1. n \in Nat /\ DOMAIN q = 1..n
  OBVIOUS
<1> HIDE DEF n
<1>2. Walks(w, None, q, n)
  <2>1. w[0] = None /\ \A i \in 1..n : w[i] = None /\ w[i - 1] = None
    BY <1>1
  <2> HIDE DEF w
  <2> QED BY <2>1 DEF Walks, Child
<1>3. w[n] = None
  BY <1>1
<1> HIDE DEF w
<1> QED BY <1>1, <1>2, <1>3, FindIsWalk

LEMMA TokenIs ==
  ASSUME NEW V, NEW names, NEW v \in Over(V, names), NEW k \in DOMAIN v.items
  PROVE  HasChild(v, Token(v, k)) /\ Slot(v, Token(v, k)) = k /\ Token(v, k) \in names \cup Nat
<1>1. CASE v.kind = "atom"
  BY <1>1, KindsOf
<1>2. CASE v.kind = "list"
  <2>1. v.items \in Seq(V) /\ k \in 1..Len(v.items) /\ Len(v.items) \in Nat
    <3>1. v.items \in Seq(V)
      BY <1>2, KindsOf
    <3> QED BY <3>1
  <2>2. Token(v, k) = k - 1 /\ Slot(v, k - 1) = k - 1 + 1
    BY <1>2 DEF Token, Slot
  <2>3. k - 1 + 1 = k /\ k - 1 \in 0..(Len(v.items) - 1) /\ k - 1 \in Nat
    BY <2>1
  <2> QED BY <1>2, <2>2, <2>3 DEF HasChild, IsIndex
<1>3. CASE v.kind = "object"
  <2>1. DOMAIN v.items \in SUBSET names
    BY <1>3, KindsOf
  <2> QED BY <1>3, <2>1 DEF HasChild, Slot, Token
<1> QED BY <1>1, <1>2, <1>3, KindsOf

LEMMA SlotIs ==
  ASSUME NEW V, NEW names, NEW v \in Over(V, names), NEW t, HasChild(v, t)
  PROVE  Slot(v, t) \in DOMAIN v.items /\ Token(v, Slot(v, t)) = t
<1>1. CASE v.kind = "list"
  <2>1. v.items \in Seq(V) /\ t \in 0..(Len(v.items) - 1)
    BY <1>1, KindsOf DEF HasChild, IsIndex
  <2> DEFINE k == t + 1
  <2>2. k \in 1..Len(v.items) /\ k - 1 = t /\ DOMAIN v.items = 1..Len(v.items)
    BY <2>1
  <2>3. Slot(v, t) = k
    BY <1>1 DEF Slot
  <2> HIDE DEF k
  <2>4. Token(v, k) = k - 1
    BY <1>1 DEF Token
  <2> QED BY <2>2, <2>3, <2>4
<1>2. CASE v.kind = "object"
  BY <1>2 DEF HasChild, Slot, Token
<1> QED BY <1>1, <1>2 DEF HasChild

\* What follows the token of a place in the paths that differ.
Beyond(D, l, r, k) == IF k \in Both(l, r) THEN D[<<l.items[k], r.items[k]>>] ELSE {<<>>}
Places(l, r) == DOMAIN l.items \cup DOMAIN r.items
Alike(l, r) == l.kind = r.kind /\ l.atom = r.atom

LEMMA AloneIs ==
  ASSUME NEW t
  PROVE  <<t>> \o <<>> = <<t>>
<1> DEFINE V == {t}
           a == <<t>>
           e == <<>>
           r == a \o e
<1>1. a \in Seq(V) /\ Len(a) = 1 /\ a[1] = t /\ e \in Seq(V) /\ Len(e) = 0
  OBVIOUS
<1> HIDE DEF a, e, V
<1>2. r \in Seq(V) /\ IsJoined(r, a, e)
  BY <1>1, Joined
<1> HIDE DEF r
<1>3. Len(r) = 1 /\ r[1] = t
  BY <1>1, <1>2 DEF IsJoined
<1>4. r = a
  BY <1>1, <1>2, <1>3
<1> QED BY <1>4 DEF r, a, e

IsPathOf(x, D, l, r) == \E k \in Places(l, r) : \E y \in Beyond(D, l, r, k) : x = <<Token(l, k)>> \o y

LEMMA PathsAre ==
  ASSUME NEW D, NEW l, NEW r, Alike(l, r), NEW x
  PROVE  x \in PathsOf(D, l, r) <=> IsPathOf(x, D, l, r)
<1> DEFINE sub(k) == {<<Token(l, k)>> \o path : path \in D[<<l.items[k], r.items[k]>>]}
<1>1. PathsOf(D, l, r) = {<<Token(l, k)>> : k \in One(l, r)} \cup UNION {sub(k) : k \in Both(l, r)}
  BY DEF PathsOf, Alike
<1>2. \A k : k \in Places(l, r) <=> k \in One(l, r) \/ k \in Both(l, r)
  BY DEF Places, One, Both
<1>3. \A k \in One(l, r) : k \notin Both(l, r) /\ Beyond(D, l, r, k) = {<<>>}
  BY DEF One, Beyond
<1>4. \A k \in One(l, r) : <<Token(l, k)>> = <<Token(l, k)>> \o <<>>
  BY AloneIs
<1>5. (\E k \in One(l, r) : x = <<Token(l, k)>>) <=> \E k \in One(l, r) : \E y \in Beyond(D, l, r, k) : x = <<Token(l, k)>> \o y
  <2>1. \A k \in One(l, r) : x = <<Token(l, k)>> <=> \E y \in Beyond(D, l, r, k) : x = <<Token(l, k)>> \o y
    <3> TAKE k \in One(l, r)
    <3>1. Beyond(D, l, r, k) = {<<>>} /\ <<Token(l, k)>> = <<Token(l, k)>> \o <<>>
      BY <1>3, <1>4
    <3> DEFINE a == <<Token(l, k)>>
               b == a \o <<>>
               B == Beyond(D, l, r, k)
    <3>2. (\E y \in B : x = a \o y) <=> x = b
      <4>1. B = {<<>>}
        BY <3>1
      <4> HIDE DEF B, a
      <4> QED BY <4>1, Zenon
    <3> QED BY <3>1, <3>2
  <2> QED BY <2>1, Zenon
<1>6. \A k \in Both(l, r) : Beyond(D, l, r, k) = D[<<l.items[k], r.items[k]>>]
  BY DEF Beyond
<1>7. \A k \in Both(l, r) : x \in sub(k) <=> \E y \in Beyond(D, l, r, k) : x = <<Token(l, k)>> \o y
  BY <1>6
<1> HIDE DEF sub
<1>8. x \in UNION {sub(k) : k \in Both(l, r)} <=> \E k \in Both(l, r) : x \in sub(k)
  BY Zenon
<1>9. x \in {<<Token(l, k)>> : k \in One(l, r)} <=> \E k \in One(l, r) : x = <<Token(l, k)>>
  BY Zenon
<1> QED BY <1>1, <1>2, <1>5, <1>7, <1>8, <1>9, Zenon DEF IsPathOf

LEMMA ConsTyped ==
  ASSUME NEW X, NEW t \in X, NEW y \in Seq(X)
  PROVE  <<t>> \o y \in Seq(X)
<1>1. <<t>> \o y \in Seq(X \cup {t})
  BY ConsIs
<1>2. X \cup {t} = X
  OBVIOUS
<1> QED BY <1>1, <1>2

\* The paths that differ are paths.
LEMMA PathsTyped ==
  ASSUME NEW names, NEW d \in Nat, NEW values \in SUBSET Nesting(names)[d], Closed(values), NEW D, FindsPaths(D, values)
  PROVE  \A l, r \in values : D[<<l, r>>] \subseteq Seq(names \cup Nat)
<1> DEFINE N == Nesting(names)
           T == names \cup Nat
           A == {n \in Nat : \A l, r \in values : l \in N[n] => D[<<l, r>>] \subseteq Seq(T)}
<1>1. 0 \in A
  <2>1. N[0] = {}
    BY NestingIs
  <2> HIDE DEF N, T
  <2> QED BY <2>1
<1>2. ASSUME NEW n \in A
      PROVE  n + 1 \in A
  <2>1. n \in Nat /\ n + 1 \in Nat
    OBVIOUS
  <2> SUFFICES ASSUME NEW l \in values, NEW r \in values, l \in N[n + 1], NEW x \in D[<<l, r>>]
               PROVE  x \in Seq(T)
    BY <2>1
  <2>2. l \in Over(N[n], names) /\ Members(l, N[n])
    BY <2>1, ShallowerMembers
  <2>3. x \in PathsOf(D, l, r)
    BY DEF FindsPaths
  <2>4. CASE ~Alike(l, r)
    <3>1. x = <<>>
      BY <2>3, <2>4 DEF PathsOf, Alike
    <3> QED BY <3>1
  <2>5. CASE Alike(l, r)
    <3>1. PICK k \in Places(l, r) : \E y \in Beyond(D, l, r, k) : x = <<Token(l, k)>> \o y
      BY <2>3, <2>5, PathsAre DEF IsPathOf
    <3>2. PICK y \in Beyond(D, l, r, k) : x = <<Token(l, k)>> \o y
      BY <3>1
    <3>3. Token(l, k) \in T
      <4>1. CASE k \in DOMAIN l.items
        BY <2>2, <4>1, TokenIs
      <4>2. CASE k \in DOMAIN r.items
        <5> DEFINE e == d - 1
        <5>1. d # 0
          BY NestingIs
        <5>2. e \in Nat /\ d = e + 1
          BY <5>1
        <5> HIDE DEF e
        <5>3. r \in Over(N[e], names)
          BY <5>2, ShallowerMembers
        <5>4. Token(r, k) \in T
          BY <4>2, <5>3, TokenIs
        <5> QED BY <2>5, <5>4 DEF Token, Alike
      <4> QED BY <4>1, <4>2 DEF Places
    <3>4. y \in Seq(T)
      <4>1. CASE k \in Both(l, r)
        <5> DEFINE v == l.items[k]
                   w == r.items[k]
        <5>1. v \in values /\ w \in values /\ v \in N[n]
          BY <2>2, <4>1 DEF Both, Members, Closed
        <5>2. y \in D[<<v, w>>]
          BY <4>1 DEF Beyond
        <5> HIDE DEF v, w, N, T
        <5> QED BY <5>1, <5>2
      <4>2. CASE k \notin Both(l, r)
        <5>1. y = <<>>
          BY <4>2 DEF Beyond
        <5> QED BY <5>1
      <4> QED BY <4>1, <4>2
    <3> HIDE DEF T
    <3> QED BY <3>2, <3>3, <3>4, ConsTyped
  <2> QED BY <2>4, <2>5
<1>3. A = Nat
  <2>1. A \subseteq Nat
    OBVIOUS
  <2> HIDE DEF A
  <2> QED BY <1>1, <1>2, <2>1, NatsAll
<1>4. d \in A
  BY <1>3
<1> HIDE DEF N, T
<1>5. \A l, r \in values : l \in N[d] => D[<<l, r>>] \subseteq Seq(T)
  BY <1>4
<1> QED BY <1>5 DEF N, T

LEMMA BeyondTyped ==
  ASSUME NEW names, NEW d \in Nat, NEW values \in SUBSET Nesting(names)[d], Closed(values), NEW D, FindsPaths(D, values),
         NEW l \in values, NEW r \in values, Alike(l, r), NEW k \in Places(l, r)
  PROVE  Token(l, k) \in names \cup Nat /\ Beyond(D, l, r, k) \subseteq Seq(names \cup Nat)
<1> DEFINE e == d - 1
           T == names \cup Nat
<1>1. e \in Nat /\ d = e + 1
  <2>1. d # 0
    BY NestingIs
  <2> QED BY <2>1
<1> HIDE DEF e
<1>2. l \in Over(Nesting(names)[e], names) /\ r \in Over(Nesting(names)[e], names)
  BY <1>1, ShallowerMembers
<1>3. Token(l, k) \in T
  <2>1. CASE k \in DOMAIN l.items
    BY <1>2, <2>1, TokenIs
  <2>2. CASE k \in DOMAIN r.items
    <3>1. Token(r, k) \in T
      BY <1>2, <2>2, TokenIs
    <3> QED BY <3>1 DEF Token, Alike
  <2> QED BY <2>1, <2>2 DEF Places
<1>4. Beyond(D, l, r, k) \subseteq Seq(T)
  <2>1. CASE k \in Both(l, r)
    <3> DEFINE v == l.items[k]
               w == r.items[k]
    <3>1. v \in values /\ w \in values
      BY <2>1 DEF Both, Members, Closed
    <3> HIDE DEF v, w, T
    <3>2. D[<<v, w>>] \subseteq Seq(T)
      BY <3>1, PathsTyped DEF T
    <3> QED BY <2>1, <3>2 DEF Beyond, v, w
  <2>2. CASE k \notin Both(l, r)
    <3>1. <<>> \in Seq(T)
      OBVIOUS
    <3> QED BY <2>2, <3>1 DEF Beyond
  <2> QED BY <2>1, <2>2
<1> QED BY <1>3, <1>4

\* What a path tells of two documents whose differences are those.
TellsDifference(left, right, differences, path) ==
  LET l == Find(left, path)
      r == Find(right, path)
  IN  IF \E p \in differences : IsPrefix(p, path) THEN l # r \/ ~\E p \in differences : p = path
      ELSE l = r \/ (l # None /\ r # None /\ l.kind = r.kind /\ l.kind # "atom")

LEMMA RootTells ==
  ASSUME NEW names, NEW d \in Nat, NEW values \in SUBSET Nesting(names)[d], Closed(values), None \notin values,
         NEW D, FindsPaths(D, values), NEW l \in values, NEW r \in values
  PROVE  TellsDifference(l, r, D[<<l, r>>], <<>>)
<1> DEFINE e == d - 1
           V == Nesting(names)[e]
<1>0. l \in Over(V, names) /\ r \in Over(V, names)
  <2>1. d # 0
    BY NestingIs
  <2>2. e \in Nat /\ d = e + 1
    BY <2>1
  <2> HIDE DEF e
  <2> QED BY <2>2, ShallowerMembers
<1> HIDE DEF V
<1>1. Find(l, <<>>) = l /\ Find(r, <<>>) = r
  BY FindRoot
<1>2. D[<<l, r>>] = PathsOf(D, l, r)
  BY DEF FindsPaths
<1>3. CASE ~Alike(l, r)
  <2>1. l # r
    BY <1>3 DEF Alike
  <2>2. D[<<l, r>>] = {<<>>}
    BY <1>2, <1>3 DEF PathsOf, Alike
  <2>3. IsPrefix(<<>>, <<>>)
    <3>1. <<>> \in Seq({})
      OBVIOUS
    <3> QED BY <3>1, RootIsPrefix
  <2> QED BY <1>1, <2>1, <2>2, <2>3 DEF TellsDifference
<1>4. CASE Alike(l, r)
  <2>1. l = r \/ l.kind # "atom"
    <3>1. ASSUME l.kind = "atom"
          PROVE  l = r
      <4>1. l.items = <<>> /\ r.items = <<>> /\ r.kind = "atom" /\ l.atom = r.atom
        <5>1. r.kind = "atom" /\ l.atom = r.atom
          BY <1>4, <3>1 DEF Alike
        <5>2. l.items = <<>>
          BY <1>0, <3>1, KindsOf
        <5>3. r.items = <<>>
          BY <1>0, <5>1, KindsOf
        <5> QED BY <5>1, <5>2, <5>3
      <4>2. l = [kind |-> l.kind, atom |-> l.atom, items |-> l.items]
        BY <1>0, KindsOf
      <4>3. r = [kind |-> r.kind, atom |-> r.atom, items |-> r.items]
        BY <1>0, KindsOf
      <4> QED BY <3>1, <4>1, <4>2, <4>3
    <3> QED BY <3>1
  <2>2. l = r \/ (l # None /\ r # None /\ l.kind = r.kind /\ l.kind # "atom")
    BY <1>4, <2>1 DEF Alike
  <2>3. ASSUME NEW x \in D[<<l, r>>], IsPrefix(x, <<>>)
        PROVE  l # r \/ ~\E p \in D[<<l, r>>] : p = <<>>
    <3> SUFFICES ASSUME <<>> \in D[<<l, r>>]
                 PROVE  FALSE
      OBVIOUS
    <3>1. PICK k \in Places(l, r) : \E y \in Beyond(D, l, r, k) : <<>> = <<Token(l, k)>> \o y
      BY <1>2, <1>4, PathsAre DEF IsPathOf
    <3>2. PICK y \in Beyond(D, l, r, k) : <<>> = <<Token(l, k)>> \o y
      BY <3>1
    <3>3. y \in Seq(names \cup Nat)
      BY <1>4, BeyondTyped
    <3>4. Len(<<Token(l, k)>> \o y) = Len(y) + 1
      BY <3>3, ConsIs
    <3>5. Len(<<>>) = Len(y) + 1
      BY <3>2, <3>4
    <3> QED BY <3>3, <3>5
  <2> QED BY <1>1, <2>2, <2>3 DEF TellsDifference
<1> QED BY <1>3, <1>4

\* Which of the paths lead to a place or through one, and to it.
LEMMA PathsThrough ==
  ASSUME NEW names, NEW d \in Nat, NEW values \in SUBSET Nesting(names)[d], Closed(values), NEW D, FindsPaths(D, values),
         NEW l \in values, NEW r \in values, Alike(l, r), NEW X, NEW t, NEW q \in Seq(X)
  PROVE  /\ (\E x \in D[<<l, r>>] : IsPrefix(x, <<t>> \o q))
              <=> \E k \in Places(l, r) : Token(l, k) = t /\ \E y \in Beyond(D, l, r, k) : IsPrefix(y, q)
         /\ (\E x \in D[<<l, r>>] : x = <<t>> \o q)
              <=> \E k \in Places(l, r) : Token(l, k) = t /\ q \in Beyond(D, l, r, k)
<1> DEFINE R == D[<<l, r>>]
           Y == names \cup Nat \cup X
           p == <<t>> \o q
<1>1. \A x : x \in R <=> \E k \in Places(l, r) : \E y \in Beyond(D, l, r, k) : x = <<Token(l, k)>> \o y
  <2>1. R = PathsOf(D, l, r)
    BY DEF FindsPaths
  <2> TAKE x
  <2>2. x \in PathsOf(D, l, r) <=> IsPathOf(x, D, l, r)
    BY PathsAre
  <2> QED BY <2>1, <2>2 DEF IsPathOf
<1>2. ASSUME NEW k \in Places(l, r), NEW y \in Beyond(D, l, r, k)
      PROVE  /\ IsPrefix(<<Token(l, k)>> \o y, p) <=> Token(l, k) = t /\ IsPrefix(y, q)
             /\ <<Token(l, k)>> \o y = p <=> Token(l, k) = t /\ y = q
  <2> DEFINE a == Token(l, k)
  <2>1. y \in Seq(names \cup Nat)
    BY BeyondTyped
  <2>2. y \in Seq(Y) /\ q \in Seq(Y)
    BY <2>1
  <2> HIDE DEF a, Y
  <2>3. IsPrefix(<<a>> \o y, <<t>> \o q) <=> a = t /\ IsPrefix(y, q)
    BY <2>2, ConsPrefix
  <2>4. SameCons(a, y, t, q)
    BY <2>2, ConsEqual
  <2> QED BY <2>3, <2>4, Zenon DEF a, SameCons
<1> HIDE DEF R, p
<1>3. (\E x \in R : IsPrefix(x, p)) <=> \E k \in Places(l, r) : Token(l, k) = t /\ \E y \in Beyond(D, l, r, k) : IsPrefix(y, q)
  <2>1. (\E x \in R : IsPrefix(x, p)) <=> \E k \in Places(l, r) : \E y \in Beyond(D, l, r, k) : IsPrefix(<<Token(l, k)>> \o y, p)
    <3>1. ASSUME NEW x \in R, IsPrefix(x, p)
          PROVE  \E k \in Places(l, r) : \E y \in Beyond(D, l, r, k) : IsPrefix(<<Token(l, k)>> \o y, p)
      <4>1. PICK k \in Places(l, r) : \E y \in Beyond(D, l, r, k) : x = <<Token(l, k)>> \o y
        BY <1>1
      <4>2. PICK y \in Beyond(D, l, r, k) : x = <<Token(l, k)>> \o y
        BY <4>1
      <4>3. IsPrefix(<<Token(l, k)>> \o y, p)
        BY <3>1, <4>2
      <4> QED BY <4>3, Zenon
    <3>2. ASSUME NEW k \in Places(l, r), NEW y \in Beyond(D, l, r, k), IsPrefix(<<Token(l, k)>> \o y, p)
          PROVE  \E x \in R : IsPrefix(x, p)
      <4> DEFINE x == <<Token(l, k)>> \o y
      <4>1. x = <<Token(l, k)>> \o y
        OBVIOUS
      <4> HIDE DEF x
      <4>2. x \in R
        BY <1>1, <4>1
      <4> QED BY <3>2, <4>1, <4>2
    <3> QED BY <3>1, <3>2, Zenon
  <2>2. \A k \in Places(l, r) : (\E y \in Beyond(D, l, r, k) : IsPrefix(<<Token(l, k)>> \o y, p))
                                  <=> Token(l, k) = t /\ \E y \in Beyond(D, l, r, k) : IsPrefix(y, q)
    BY <1>2, Zenon
  <2> QED BY <2>1, <2>2, Zenon
<1>4. (\E x \in R : x = p) <=> \E k \in Places(l, r) : Token(l, k) = t /\ q \in Beyond(D, l, r, k)
  <2>1. (\E x \in R : x = p) <=> \E k \in Places(l, r) : \E y \in Beyond(D, l, r, k) : <<Token(l, k)>> \o y = p
    BY <1>1, Zenon
  <2>2. \A k \in Places(l, r) : (\E y \in Beyond(D, l, r, k) : <<Token(l, k)>> \o y = p)
                                  <=> Token(l, k) = t /\ q \in Beyond(D, l, r, k)
    BY <1>2, Zenon
  <2> QED BY <2>1, <2>2, Zenon
<1> QED BY <1>3, <1>4 DEF R, p

\* A place that one of two alike has.
LEMMA PlaceOf ==
  ASSUME NEW V, NEW names, NEW l \in Over(V, names), NEW r \in Over(V, names), Alike(l, r), NEW t
  PROVE  /\ HasChild(l, t) <=> Slot(l, t) \in DOMAIN l.items /\ Token(l, Slot(l, t)) = t
         /\ HasChild(r, t) <=> Slot(l, t) \in DOMAIN r.items /\ Token(l, Slot(l, t)) = t
         /\ \A k \in Places(l, r) : Token(l, k) = t => k = Slot(l, t)
<1>1. Slot(r, t) = Slot(l, t) /\ \A k : Token(r, k) = Token(l, k)
  BY DEF Alike, Slot, Token
<1>2. HasChild(l, t) => Slot(l, t) \in DOMAIN l.items /\ Token(l, Slot(l, t)) = t
  BY SlotIs
<1>3. HasChild(r, t) => Slot(l, t) \in DOMAIN r.items /\ Token(l, Slot(l, t)) = t
  BY <1>1, SlotIs
<1>4. \A k \in DOMAIN l.items : HasChild(l, Token(l, k)) /\ Slot(l, Token(l, k)) = k
  BY TokenIs
<1>5. \A k \in DOMAIN r.items : HasChild(r, Token(l, k)) /\ Slot(l, Token(l, k)) = k
  <2> TAKE k \in DOMAIN r.items
  <2>1. HasChild(r, Token(r, k)) /\ Slot(r, Token(r, k)) = k
    BY TokenIs
  <2>2. Token(r, k) = Token(l, k)
    BY <1>1
  <2>3. Slot(r, Token(l, k)) = Slot(l, Token(l, k))
    BY DEF Alike, Slot
  <2> QED BY <2>1, <2>2, <2>3
<1>6. \A k \in Places(l, r) : Token(l, k) = t => k = Slot(l, t)
  BY <1>4, <1>5 DEF Places
<1> QED BY <1>2, <1>3, <1>4, <1>5, <1>6

LEMMA MemberTells ==
  ASSUME NEW names, NEW d \in Nat, NEW values \in SUBSET Nesting(names)[d], Closed(values), None \notin values,
         NEW D, FindsPaths(D, values), NEW l \in values, NEW r \in values, NEW X, NEW t, NEW q \in Seq(X),
         \A k \in Both(l, r) : TellsDifference(l.items[k], r.items[k], D[<<l.items[k], r.items[k]>>], q)
  PROVE  TellsDifference(l, r, D[<<l, r>>], <<t>> \o q)
<1> DEFINE p == <<t>> \o q
           R == D[<<l, r>>]
           e == d - 1
           V == Nesting(names)[e]
<1>1. l \in Over(V, names) /\ r \in Over(V, names)
  <2>1. d # 0
    BY NestingIs
  <2>2. e \in Nat /\ d = e + 1
    BY <2>1
  <2> HIDE DEF e
  <2> QED BY <2>2, ShallowerMembers
<1>2. Find(l, p) = Find(Child(l, t), q) /\ Find(r, p) = Find(Child(r, t), q)
  BY FindCons
<1>3. p \in Seq(X \cup {t}) /\ p # <<>>
  <2>1. p \in Seq(X \cup {t}) /\ Len(p) = Len(q) + 1
    BY ConsIs
  <2>2. Len(q) \in Nat
    OBVIOUS
  <2> HIDE DEF p
  <2>3. Len(p) # 0
    BY <2>1, <2>2
  <2>4. Len(<<>>) = 0
    OBVIOUS
  <2> QED BY <2>1, <2>3, <2>4
<1>4. CASE ~Alike(l, r)
  <2>1. R = {<<>>}
    BY <1>4 DEF FindsPaths, PathsOf, Alike
  <2> HIDE DEF R, p
  <2>2. IsPrefix(<<>>, p)
    BY <1>3, RootIsPrefix
  <2>3. TellsDifference(l, r, R, p)
    BY <1>3, <2>1, <2>2 DEF TellsDifference
  <2> QED BY <2>3 DEF R, p
<1>5. CASE Alike(l, r)
  <2> DEFINE k == Slot(l, t)
  <2>1. /\ (\E x \in R : IsPrefix(x, p))
             <=> \E i \in Places(l, r) : Token(l, i) = t /\ \E y \in Beyond(D, l, r, i) : IsPrefix(y, q)
        /\ (\E x \in R : x = p)
             <=> \E i \in Places(l, r) : Token(l, i) = t /\ q \in Beyond(D, l, r, i)
    BY <1>5, PathsThrough
  <2>2. /\ HasChild(l, t) <=> k \in DOMAIN l.items /\ Token(l, k) = t
        /\ HasChild(r, t) <=> k \in DOMAIN r.items /\ Token(l, k) = t
        /\ \A i \in Places(l, r) : Token(l, i) = t => i = k
    BY <1>1, <1>5, PlaceOf
  <2>3. Child(l, t) = (IF HasChild(l, t) THEN l.items[k] ELSE None) /\ Child(r, t) = (IF HasChild(r, t) THEN r.items[k] ELSE None)
    <3>1. Slot(r, t) = k /\ l # None /\ r # None
      BY <1>5 DEF Alike, Slot
    <3> QED BY <3>1 DEF Child
  <2> HIDE DEF R, p, k
  <2>4. HasChild(l, t) => l.items[k] # None
    BY <2>2 DEF Closed, Members
  <2>5. HasChild(r, t) => r.items[k] # None
    BY <2>2 DEF Closed, Members
  <2>6. ASSUME k \in Places(l, r), Token(l, k) = t
        PROVE  /\ (\E x \in R : IsPrefix(x, p)) <=> \E y \in Beyond(D, l, r, k) : IsPrefix(y, q)
               /\ (\E x \in R : x = p) <=> q \in Beyond(D, l, r, k)
    BY <2>1, <2>2, <2>6, Zenon
  <2>7. CASE HasChild(l, t) /\ HasChild(r, t)
    <3>1. k \in Both(l, r) /\ k \in Places(l, r) /\ Token(l, k) = t
      BY <2>2, <2>7 DEF Both, Places
    <3> DEFINE v == l.items[k]
               w == r.items[k]
               U == D[<<v, w>>]
    <3>2. Beyond(D, l, r, k) = U /\ TellsDifference(v, w, U, q)
      BY <3>1 DEF Beyond
    <3>3. Find(l, p) = Find(v, q) /\ Find(r, p) = Find(w, q)
      BY <1>2, <2>3, <2>7
    <3> HIDE DEF v, w, U
    <3>4. (\E x \in R : IsPrefix(x, p)) <=> \E y \in U : IsPrefix(y, q)
      BY <2>6, <3>1, <3>2
    <3>5. (\E x \in R : x = p) <=> \E y \in U : y = q
      BY <2>6, <3>1, <3>2
    <3>6. TellsDifference(l, r, R, p)
      BY <3>2, <3>3, <3>4, <3>5, Zenon DEF TellsDifference
    <3> QED BY <3>6 DEF R, p
  <2>8. CASE (HasChild(l, t) /\ ~HasChild(r, t)) \/ (~HasChild(l, t) /\ HasChild(r, t))
    <3>1. k \notin Both(l, r) /\ k \in Places(l, r) /\ Token(l, k) = t
      BY <2>2, <2>8 DEF Both, Places
    <3>2. Beyond(D, l, r, k) = {<<>>}
      BY <3>1 DEF Beyond
    <3>3. IsPrefix(<<>>, q)
      BY RootIsPrefix
    <3>4. \E x \in R : IsPrefix(x, p)
      BY <2>6, <3>1, <3>2, <3>3
    <3>5. Find(l, p) # Find(r, p) \/ ~\E x \in R : x = p
      <4>1. CASE q = <<>>
        <5>1. Find(l, p) = Child(l, t) /\ Find(r, p) = Child(r, t)
          BY <1>2, <4>1, FindRoot
        <5> QED BY <2>3, <2>4, <2>5, <2>8, <5>1
      <4>2. CASE q # <<>>
        BY <2>6, <3>1, <3>2, <4>2
      <4> QED BY <4>1, <4>2
    <3>6. TellsDifference(l, r, R, p)
      BY <3>4, <3>5, Zenon DEF TellsDifference
    <3> QED BY <3>6 DEF R, p
  <2>9. CASE ~HasChild(l, t) /\ ~HasChild(r, t)
    <3>1. \A i \in Places(l, r) : Token(l, i) # t
      BY <2>2, <2>9 DEF Places
    <3>2. ~\E x \in R : IsPrefix(x, p)
      BY <2>1, <3>1, Zenon
    <3>3. Find(l, p) = Find(r, p)
      BY <1>2, <2>3, <2>9
    <3>4. TellsDifference(l, r, R, p)
      BY <3>2, <3>3, Zenon DEF TellsDifference
    <3> QED BY <3>4 DEF R, p
  <2> QED BY <2>7, <2>8, <2>9, Zenon
<1> QED BY <1>4, <1>5

\* What holds of two values and the paths at which they differ.
Told(D, l, r, X) == \A p \in Seq(X) : TellsDifference(l, r, D[<<l, r>>], p)

LEMMA DifferencesTold ==
  ASSUME NEW names, NEW d \in Nat, NEW values \in SUBSET Nesting(names)[d], Closed(values), None \notin values,
         NEW D, FindsPaths(D, values), NEW X
  PROVE  \A l, r \in values : Told(D, l, r, X)
<1> DEFINE N == Nesting(names)
           A == {n \in Nat : \A l, r \in values : l \in N[n] => Told(D, l, r, X)}
<1>1. 0 \in A
  <2>1. N[0] = {}
    BY NestingIs
  <2> HIDE DEF N
  <2> QED BY <2>1
<1>2. ASSUME NEW n \in A
      PROVE  n + 1 \in A
  <2>1. n \in Nat /\ n + 1 \in Nat
    OBVIOUS
  <2> SUFFICES ASSUME NEW l \in values, NEW r \in values, l \in N[n + 1], NEW p \in Seq(X)
               PROVE  TellsDifference(l, r, D[<<l, r>>], p)
    BY <2>1 DEF Told
  <2>2. CASE p = <<>>
    <3>1. TellsDifference(l, r, D[<<l, r>>], <<>>)
      BY RootTells
    <3> QED BY <2>2, <3>1
  <2>3. CASE p # <<>>
    <3>1. PICK t \in X : \E q \in Seq(X) : p = <<t>> \o q /\ Len(q) = Len(p) - 1
      BY <2>3, ConsParts
    <3>2. PICK q \in Seq(X) : p = <<t>> \o q
      BY <3>1
    <3>3. Members(l, N[n])
      BY <2>1, ShallowerMembers
    <3>4. ASSUME NEW k \in Both(l, r)
          PROVE  TellsDifference(l.items[k], r.items[k], D[<<l.items[k], r.items[k]>>], q)
      <4> DEFINE v == l.items[k]
                 w == r.items[k]
      <4>1. v \in values /\ w \in values /\ v \in N[n]
        BY <3>3 DEF Both, Members, Closed
      <4> HIDE DEF v, w, N
      <4>2. Told(D, v, w, X)
        BY <4>1
      <4>3. TellsDifference(v, w, D[<<v, w>>], q)
        BY <4>2, Zenon DEF Told
      <4> QED BY <4>3 DEF v, w
    <3>5. TellsDifference(l, r, D[<<l, r>>], <<t>> \o q)
      BY <3>4, MemberTells
    <3> QED BY <3>2, <3>5
  <2> QED BY <2>2, <2>3
<1>3. A = Nat
  <2>1. A \subseteq Nat
    OBVIOUS
  <2> HIDE DEF A
  <2> QED BY <1>1, <1>2, <2>1, NatsAll
<1>4. d \in A
  BY <1>3
<1> HIDE DEF N
<1>5. \A l, r \in values : l \in N[d] => Told(D, l, r, X)
  BY <1>4
<1> QED BY <1>5 DEF N

\* What no reported path leads to or through is the same in both documents,
\* and what one leads to is not, however deep they are.
THEOREM DifferencesFound ==
  ASSUME NEW names, NEW depth \in Nat \ {0}, NEW D, AreComparison(D, Nesting(names)[depth]),
         None \notin Nesting(names)[depth],
         NEW left \in Nesting(names)[depth], NEW right \in Nesting(names)[depth], NEW X, NEW path \in Seq(X)
  PROVE  TellsDifference(left, right, D[<<left, right>>], path)
<1> DEFINE values == Nesting(names)[depth]
<1>1. depth \in Nat /\ Closed(values)
  BY NestingIsClosed
<1>2. FindsPaths(D, values)
  BY ComparisonIs
<1>3. left \in values /\ right \in values /\ None \notin values /\ values \in SUBSET Nesting(names)[depth]
  OBVIOUS
<1> HIDE DEF values
<1>4. Told(D, left, right, X)
  BY <1>1, <1>2, <1>3, DifferencesTold
<1> QED BY <1>4 DEF Told

LEMMA DocumentsCompared ==
  ASSUME None \notin Nesting(Tokens)[3], NEW left \in Documents, NEW right \in Documents
  PROVE  PathsTellDifferences(left, right, DifferentPaths[<<left, right>>])
<1>1. 3 \in Nat /\ Documents \in SUBSET Nesting(Tokens)[3] /\ Closed(Documents) /\ None \notin Documents
  BY DocumentsAreNested
<1>2. FindsPaths(DifferentPaths, Documents)
  BY DifferentPathsAre, ComparisonIs
<1>3. Told(DifferentPaths, left, right, Tokens)
  BY <1>1, <1>2, DifferencesTold
<1>4. \A p \in Paths : p \in Seq(Tokens)
  <2>1. 2 \in Nat
    OBVIOUS
  <2> QED BY <2>1, SequencesUpTo DEF Paths
<1>5. \A p \in Paths : TellsDifference(left, right, DifferentPaths[<<left, right>>], p)
  BY <1>3, <1>4 DEF Told
<1> QED BY <1>5, Zenon DEF PathsTellDifferences, TellsDifference

-----------------------------------------------------------------------------
(* json_flatten *)

Component(v, k) == [kind |-> v.kind, token |-> Token(v, k)]
Entry(c, entry) == [path |-> <<c>> \o entry.path, value |-> entry.value]
Lead(v) == [path |-> <<>>, value |-> v]
LeadsOf(L, v) ==
  IF v.items = <<>> THEN {Lead(v)}
  ELSE UNION {{Entry(Component(v, k), entry) : entry \in L[v.items[k]]} : k \in DOMAIN v.items}

\* L leads through the values as json_flatten does.
LeadsAsTold(L, values) == \A v \in values : L[v] = LeadsOf(L, v)
AreLeads(L, values) == L = [v \in values |-> LeadsOf(L, v)]

LeadAlike(L, H, V) == \A x \in V : L[x] = H[x]

LEMMA LeadsAlike ==
  ASSUME NEW V, NEW L, NEW H, LeadAlike(L, H, V), NEW v, Members(v, V)
  PROVE  LeadsOf(L, v) = LeadsOf(H, v)
<1> DEFINE sub(E, k) == {Entry(Component(v, k), entry) : entry \in E[v.items[k]]}
<1>1. \A k \in DOMAIN v.items : sub(L, k) = sub(H, k)
  BY DEF Members, LeadAlike
<1>2. \A E : LeadsOf(E, v) = IF v.items = <<>> THEN {Lead(v)} ELSE UNION {sub(E, k) : k \in DOMAIN v.items}
  BY Zenon DEF LeadsOf
<1> HIDE DEF sub
<1>3. {sub(L, k) : k \in DOMAIN v.items} = {sub(H, k) : k \in DOMAIN v.items}
  BY <1>1
<1> QED BY <1>2, <1>3

LEMMA LeadsExist ==
  ASSUME NEW names, NEW d \in Nat, NEW values \in SUBSET Nesting(names)[d], Closed(values)
  PROVE  \E L : AreLeads(L, values)
<1> DEFINE N == Nesting(names)
           Good(L, n) == \A v \in values : v \in N[n] => L[v] = LeadsOf(L, v)
           A == {n \in Nat : \E L : Good(L, n)}
<1>1. 0 \in A
  <2>1. N[0] = {}
    BY NestingIs
  <2> HIDE DEF N
  <2> QED BY <2>1
<1>2. ASSUME NEW n \in A
      PROVE  n + 1 \in A
  <2>1. n \in Nat /\ n + 1 \in Nat
    OBVIOUS
  <2>2. PICK L : Good(L, n)
    OBVIOUS
  <2> DEFINE H == [v \in values |-> LeadsOf(L, v)]
             V == values \cap N[n]
  <2>3. \A v \in values : H[v] = LeadsOf(L, v)
    OBVIOUS
  <2> HIDE DEF H
  <2>4. LeadAlike(H, L, V)
    BY <2>2, <2>3 DEF LeadAlike
  <2>5. Good(H, n + 1)
    <3> SUFFICES ASSUME NEW v \in values, v \in N[n + 1]
                 PROVE  H[v] = LeadsOf(H, v)
      OBVIOUS
    <3>1. Members(v, N[n])
      BY <2>1, ShallowerMembers
    <3>2. Members(v, V)
      BY <3>1 DEF Members, Closed
    <3>3. LeadsOf(H, v) = LeadsOf(L, v)
      <4> HIDE DEF V
      <4> QED BY <2>4, <3>2, LeadsAlike
    <3> QED BY <2>3, <3>3
  <2> HIDE DEF Good
  <2> QED BY <2>1, <2>5
<1>3. A = Nat
  <2>1. A \subseteq Nat
    OBVIOUS
  <2> HIDE DEF A
  <2> QED BY <1>1, <1>2, <2>1, NatsAll
<1>4. PICK L : Good(L, d)
  BY <1>3
<1> DEFINE H == [v \in values |-> L[v]]
<1>5. \A v \in values : H[v] = L[v] /\ L[v] = LeadsOf(L, v)
  BY <1>4
<1> HIDE DEF H
<1>6. LeadAlike(H, L, values)
  BY <1>5 DEF LeadAlike
<1>7. ASSUME NEW v \in values
      PROVE  H[v] = LeadsOf(H, v)
  <2>1. Members(v, values)
    BY DEF Closed
  <2>2. LeadsOf(H, v) = LeadsOf(L, v)
    BY <1>6, <2>1, LeadsAlike
  <2> QED BY <1>5, <2>2
<1>8. H = [v \in values |-> LeadsOf(H, v)]
  <2>1. H = [v \in values |-> H[v]]
    BY DEF H
  <2> QED BY <1>7, <2>1
<1> QED BY <1>8 DEF AreLeads

LEMMA LeadsFlatten ==
  ASSUME NEW values, NEW L, AreLeads(L, values)
  PROVE  LeadsAsTold(L, values)
BY DEF AreLeads, LeadsAsTold

\* The parts that the paths of entries are made of.
LEMMA ComponentIs ==
  ASSUME NEW V, NEW names, NEW v \in Over(V, names), NEW k \in DOMAIN v.items
  PROVE  /\ Component(v, k) \in ComponentsOver(names) /\ Component(v, k).kind = v.kind
         /\ Component(v, k).token = Token(v, k)
         /\ \A j \in DOMAIN v.items : Component(v, j) = Component(v, k) => j = k
<1>1. Component(v, k).kind = v.kind /\ Component(v, k).token = Token(v, k)
  BY DEF Component
<1>2. ASSUME NEW j \in DOMAIN v.items, Component(v, j) = Component(v, k)
      PROVE  j = k
  <2>1. Token(v, j) = Token(v, k)
    BY <1>2 DEF Component
  <2>2. Slot(v, Token(v, j)) = j /\ Slot(v, Token(v, k)) = k
    BY TokenIs
  <2> QED BY <2>1, <2>2
<1>3. Component(v, k) \in ComponentsOver(names)
  <2>1. CASE v.kind = "atom"
    BY <2>1, KindsOf
  <2>2. CASE v.kind = "list"
    <3>1. v.items \in Seq(V)
      BY <2>2, KindsOf
    <3>2. k \in 1..Len(v.items) /\ Token(v, k) = k - 1
      BY <2>2, <3>1 DEF Token
    <3>3. Token(v, k) \in Nat
      BY <3>1, <3>2
    <3> QED BY <2>2, <3>3 DEF Component, ComponentsOver
  <2>3. CASE v.kind = "object"
    <3>1. DOMAIN v.items \in SUBSET names /\ Token(v, k) = k
      BY <2>3, KindsOf DEF Token
    <3> QED BY <2>3, <3>1 DEF Component, ComponentsOver
  <2> QED BY <2>1, <2>2, <2>3, KindsOf
<1> QED BY <1>1, <1>2, <1>3

\* Entries are their path and value, and a longer path is taken apart again.
IsEntry(f, c, e, X) ==
  /\ f.value = e.value /\ f.path = <<c>> \o e.path
  /\ f.path # <<>> /\ f.path[1] = c /\ Len(f.path) = Len(e.path) + 1 /\ f.path \in Seq(X \cup {c})
  /\ Tail(f.path) = e.path /\ [path |-> Tail(f.path), value |-> f.value] = e

LEMMA EntryIs ==
  ASSUME NEW X, NEW values, NEW e \in [path : Seq(X), value : values], NEW c
  PROVE  IsEntry(Entry(c, e), c, e, X)
<1> DEFINE p == e.path
           q == <<c>> \o p
<1>1. Entry(c, e).value = e.value /\ Entry(c, e).path = q
  BY DEF Entry
<1>2. p \in Seq(X) /\ e = [path |-> p, value |-> e.value] /\ Len(p) \in Nat
  OBVIOUS
<1> HIDE DEF p
<1>3. q \in Seq(X \cup {c}) /\ Len(q) = Len(p) + 1 /\ q[1] = c /\ \A i \in 1..Len(p) : q[i + 1] = p[i]
  BY <1>2, ConsIs
<1> HIDE DEF q
<1>4. q # <<>>
  BY <1>2, <1>3
<1>5. Tail(q) \in Seq(X \cup {c}) /\ Len(Tail(q)) = Len(p) /\ \A i \in 1..Len(p) : Tail(q)[i] = q[i + 1]
  BY <1>2, <1>3, <1>4
<1>6. Tail(q) = p
  BY <1>2, <1>3, <1>5
<1>7. [path |-> Tail(q), value |-> e.value] = e
  BY <1>2, <1>6
<1> DEFINE f == Entry(c, e)
<1>8. f.value = e.value /\ f.path = q
  BY <1>1
<1> HIDE DEF f
<1>9. IsEntry(f, c, e, X)
  BY <1>3, <1>4, <1>6, <1>7, <1>8 DEF p, q, IsEntry
<1> QED BY <1>9 DEF f

LEMMA EntryBack ==
  ASSUME NEW X, NEW values, NEW e \in [path : Seq(X), value : values], e.path # <<>>
  PROVE  /\ e.path[1] \in X /\ [path |-> Tail(e.path), value |-> e.value] \in [path : Seq(X), value : values]
         /\ Len(Tail(e.path)) = Len(e.path) - 1
         /\ Entry(e.path[1], [path |-> Tail(e.path), value |-> e.value]) = e
<1> DEFINE p == e.path
<1>1. p \in Seq(X) /\ e = [path |-> p, value |-> e.value] /\ e.value \in values /\ p # <<>>
  OBVIOUS
<1> HIDE DEF p
<1>2. PICK t \in X : \E q \in Seq(X) : p = <<t>> \o q /\ Len(q) = Len(p) - 1
  BY <1>1, ConsParts
<1>3. PICK q \in Seq(X) : p = <<t>> \o q /\ Len(q) = Len(p) - 1
  BY <1>2
<1>4. p[1] = t
  BY <1>3, ConsIs
<1>5. Tail(p) \in Seq(X) /\ Len(Tail(p)) = Len(p) - 1
  BY <1>1
<1>6. Tail(p) = q
  <2>1. \A i \in 1..Len(q) : Tail(p)[i] = p[i + 1]
    BY <1>1, <1>3
  <2>2. \A i \in 1..Len(q) : p[i + 1] = q[i]
    BY <1>3, ConsIs
  <2> QED BY <1>3, <1>5, <2>1, <2>2
<1> DEFINE x == [path |-> Tail(p), value |-> e.value]
<1>7. x.path = q /\ x.value = e.value /\ x \in [path : Seq(X), value : values]
  BY <1>1, <1>5, <1>6
<1> HIDE DEF x
<1>8. Entry(t, x) = e
  BY <1>1, <1>3, <1>7 DEF Entry
<1> QED BY <1>2, <1>4, <1>5, <1>7, <1>8 DEF x, p

LEMMA NoItems ==
  ASSUME NEW V, NEW names, NEW v \in Over(V, names)
  PROVE  v.items = <<>> \/ \E k \in DOMAIN v.items : TRUE
<1>1. CASE v.kind = "atom"
  BY <1>1, KindsOf
<1>2. CASE v.kind = "list"
  <2>1. v.items \in Seq(V)
    BY <1>2, KindsOf
  <2> QED BY <2>1
<1>3. CASE v.kind = "object"
  <2>1. v.items \in [DOMAIN v.items -> V]
    BY <1>3, KindsOf
  <2>2. CASE DOMAIN v.items = {}
    <3>1. v.items = <<>>
      BY <2>1, <2>2
    <3> QED BY <3>1
  <2> QED BY <2>2
<1> QED BY <1>1, <1>2, <1>3, KindsOf

\* The components that lead to the members of the values.
PartsOf(values, parts) == \A v \in values : \A k \in DOMAIN v.items : Component(v, k) \in parts

LEMMA PartsAreOver ==
  ASSUME NEW names, NEW d \in Nat, NEW D \in SUBSET Nesting(names)[d]
  PROVE  PartsOf(D, ComponentsOver(names))
<1> SUFFICES ASSUME NEW x \in D, NEW k \in DOMAIN x.items
             PROVE  Component(x, k) \in ComponentsOver(names)
  BY DEF PartsOf
<1>1. x \in Nesting(names)[d + 1]
  BY NestingIs
<1>2. x \in Over(Nesting(names)[d], names)
  BY <1>1, NestingIs
<1> QED BY <1>2, ComponentIs

\* Where the entries of a value are.
LeadsIn(L, v, parts, n, values) ==
  L[v] # {} /\ L[v] \subseteq EntriesOver(parts, n, values) /\ \A e \in L[v] : e.value.items = <<>>

IsLonger(f, e, parts, n, values) == f \in EntriesOver(parts, n + 1, values) /\ f.value = e.value

LEMMA LongerEntry ==
  ASSUME NEW parts, NEW n \in Nat, NEW values, NEW e \in EntriesOver(parts, n, values), NEW c \in parts
  PROVE  IsLonger(Entry(c, e), e, parts, n, values)
<1>1. e \in [path : Seq(parts), value : values] /\ Len(e.path) <= n /\ Len(e.path) \in Nat
  BY DEF EntriesOver
<1>2. IsEntry(Entry(c, e), c, e, parts)
  BY <1>1, EntryIs
<1>3. parts \cup {c} = parts
  OBVIOUS
<1>4. Entry(c, e) = [path |-> Entry(c, e).path, value |-> Entry(c, e).value]
  BY DEF Entry
<1> DEFINE p == Entry(c, e).path
           x == Entry(c, e).value
<1>5. p \in Seq(parts) /\ Len(p) <= n + 1 /\ x \in values
  BY <1>1, <1>2, <1>3 DEF IsEntry
<1>6. Entry(c, e) = [path |-> p, value |-> x]
  BY <1>4
<1> HIDE DEF p, x
<1>7. x = e.value
  BY <1>2 DEF IsEntry, x
<1>8. Entry(c, e) \in EntriesOver(parts, n + 1, values) /\ Entry(c, e).value = x
  BY <1>5, <1>6 DEF EntriesOver
<1> QED BY <1>7, <1>8 DEF IsLonger

LEMMA LeadsTyped ==
  ASSUME NEW names, NEW d \in Nat, NEW D \in SUBSET Nesting(names)[d], Closed(D),
         NEW L, LeadsAsTold(L, D), NEW parts, PartsOf(D, parts),
         NEW m \in Nat, NEW w \in D, w \in Nesting(names)[m]
  PROVE  LeadsIn(L, w, parts, m, D)
<1> DEFINE N == Nesting(names)
           A == {n \in Nat : \A v \in D : v \in N[n] => LeadsIn(L, v, parts, n, D)}
<1>1. 0 \in A
  <2>1. N[0] = {}
    BY NestingIs
  <2> HIDE DEF N
  <2> QED BY <2>1
<1>2. ASSUME NEW n \in A
      PROVE  n + 1 \in A
  <2>1. n \in Nat /\ n + 1 \in Nat
    OBVIOUS
  <2> SUFFICES ASSUME NEW v \in D, v \in N[n + 1]
               PROVE  LeadsIn(L, v, parts, n + 1, D)
    BY <2>1
  <2>2. Members(v, N[n]) /\ v \in Over(N[n], names)
    BY <2>1, ShallowerMembers
  <2>3. L[v] = LeadsOf(L, v)
    BY DEF LeadsAsTold
  <2>4. CASE v.items = <<>>
    <3>1. L[v] = {Lead(v)}
      BY <2>3, <2>4 DEF LeadsOf
    <3>2. Lead(v) \in EntriesOver(parts, n + 1, D) /\ Lead(v).value.items = <<>>
      <4>1. <<>> \in Seq(parts) /\ Len(<<>>) <= n + 1
        BY <2>1
      <4> QED BY <2>4, <4>1 DEF Lead, EntriesOver
    <3> QED BY <3>1, <3>2 DEF LeadsIn
  <2>5. CASE v.items # <<>>
    <3>1. L[v] = UNION {{Entry(Component(v, k), entry) : entry \in L[v.items[k]]} : k \in DOMAIN v.items}
      BY <2>3, <2>5 DEF LeadsOf
    <3>2. ASSUME NEW k \in DOMAIN v.items
          PROVE  LeadsIn(L, v.items[k], parts, n, D) /\ Component(v, k) \in parts
      BY <2>2 DEF Members, Closed, PartsOf
    <3>3. ASSUME NEW k \in DOMAIN v.items, NEW e \in L[v.items[k]]
          PROVE  /\ Entry(Component(v, k), e) \in EntriesOver(parts, n + 1, D)
                 /\ Entry(Component(v, k), e).value.items = <<>>
      <4>1. e \in EntriesOver(parts, n, D) /\ e.value.items = <<>> /\ Component(v, k) \in parts
        BY <3>2 DEF LeadsIn
      <4>2. IsLonger(Entry(Component(v, k), e), e, parts, n, D)
        BY <2>1, <4>1, LongerEntry
      <4> QED BY <4>1, <4>2 DEF IsLonger
    <3>4. PICK k \in DOMAIN v.items : TRUE
      BY <2>2, <2>5, NoItems
    <3>5. PICK e \in L[v.items[k]] : TRUE
      BY <3>2 DEF LeadsIn
    <3>6. Entry(Component(v, k), e) \in L[v]
      BY <3>1
    <3>7. \A f \in L[v] : f \in EntriesOver(parts, n + 1, D) /\ f.value.items = <<>>
      BY <3>1, <3>3
    <3> QED BY <3>6, <3>7 DEF LeadsIn
  <2> QED BY <2>4, <2>5
<1>3. A = Nat
  <2>1. A \subseteq Nat
    OBVIOUS
  <2> HIDE DEF A
  <2> QED BY <1>1, <1>2, <2>1, NatsAll
<1> QED BY <1>3

\* The components that entries start with, and what is under one of them.
First(E) == {e.path[1] : e \in E}
Under(E, c) == {[path |-> Tail(e.path), value |-> e.value] : e \in {e \in E : e.path[1] = c}}

\* No entry of the value is the root, and they start with its members.
LeadsApart(L, v) ==
  /\ L[v] # {} /\ \A e \in L[v] : e.path # <<>>
  /\ First(L[v]) = {Component(v, k) : k \in DOMAIN v.items}
  /\ \A k \in DOMAIN v.items : Under(L[v], Component(v, k)) = L[v.items[k]]

LEMMA LeadsTakenApart ==
  ASSUME NEW names, NEW d \in Nat, NEW D \in SUBSET Nesting(names)[d], Closed(D),
         NEW L, LeadsAsTold(L, D), NEW v \in D, v.items # <<>>
  PROVE  LeadsApart(L, v)
<1> DEFINE parts == ComponentsOver(names)
           C(k) == Component(v, k)
           M(k) == L[v.items[k]]
<1>1. d \in Nat \ {0}
  BY NestingIs
<1>2. PICK n \in Nat : d = n + 1
  <2>1. d - 1 \in Nat /\ d = d - 1 + 1
    BY <1>1
  <2> QED BY <2>1
<1>3. v \in Over(Nesting(names)[n], names)
  BY <1>2, NestingIs
<1>4. \A k \in DOMAIN v.items : /\ C(k) \in parts
                                /\ \A j \in DOMAIN v.items : C(j) = C(k) => j = k
  BY <1>3, ComponentIs
<1>5. PartsOf(D, parts)
  BY PartsAreOver
<1>6. L[v] = UNION {{Entry(C(k), e) : e \in M(k)} : k \in DOMAIN v.items}
  BY DEF LeadsOf, LeadsAsTold
<1>7. ASSUME NEW k \in DOMAIN v.items
      PROVE  M(k) # {} /\ M(k) \subseteq [path : Seq(parts), value : D]
  <2>1. v.items[k] \in D
    BY DEF Closed, Members
  <2> DEFINE w == v.items[k]
  <2> HIDE DEF w
  <2>2. w \in D /\ w \in Nesting(names)[d]
    BY <2>1 DEF w
  <2> HIDE DEF parts
  <2>3. LeadsIn(L, w, parts, d, D)
    BY <1>5, <2>2, LeadsTyped
  <2>4. L[w] # {} /\ \A e \in L[w] : e \in EntriesOver(parts, d, D)
    BY <2>3 DEF LeadsIn
  <2>5. EntriesOver(parts, d, D) \subseteq [path : Seq(parts), value : D]
    BY DEF EntriesOver
  <2> QED BY <2>4, <2>5 DEF w
<1> HIDE DEF C, M, parts
<1>8. ASSUME NEW k \in DOMAIN v.items, NEW e \in M(k)
      PROVE  /\ Entry(C(k), e) \in L[v] /\ Entry(C(k), e).path # <<>> /\ Entry(C(k), e).path[1] = C(k)
             /\ [path |-> Tail(Entry(C(k), e).path), value |-> Entry(C(k), e).value] = e
  <2>1. e \in [path : Seq(parts), value : D]
    BY <1>7
  <2>2. Entry(C(k), e) \in L[v]
    BY <1>6
  <2>3. IsEntry(Entry(C(k), e), C(k), e, parts)
    BY <2>1, EntryIs
  <2> QED BY <2>2, <2>3, Zenon DEF IsEntry
<1>9. ASSUME NEW f \in L[v]
      PROVE  \E k \in DOMAIN v.items : \E e \in M(k) : f = Entry(C(k), e)
  BY <1>6
<1>10. L[v] # {}
  <2>1. PICK k \in DOMAIN v.items : TRUE
    BY <1>3, NoItems
  <2> QED BY <1>7, <1>8, <2>1
<1>11. \A e \in L[v] : e.path # <<>>
  BY <1>8, <1>9
<1>12. First(L[v]) = {C(k) : k \in DOMAIN v.items}
  <2>1. ASSUME NEW c \in First(L[v])
        PROVE  \E k \in DOMAIN v.items : c = C(k)
    BY <1>8, <1>9 DEF First
  <2>2. ASSUME NEW k \in DOMAIN v.items
        PROVE  C(k) \in First(L[v])
    BY <1>7, <1>8 DEF First
  <2> QED BY <2>1, <2>2
<1>13. ASSUME NEW k \in DOMAIN v.items
       PROVE  Under(L[v], C(k)) = M(k)
  <2>1. ASSUME NEW x \in Under(L[v], C(k))
        PROVE  x \in M(k)
    <3>1. PICK f \in L[v] : f.path[1] = C(k) /\ x = [path |-> Tail(f.path), value |-> f.value]
      BY DEF Under
    <3>2. PICK j \in DOMAIN v.items : \E e \in M(j) : f = Entry(C(j), e)
      BY <1>9
    <3>3. PICK e \in M(j) : f = Entry(C(j), e)
      BY <3>2
    <3>4. j = k /\ x = e
      BY <1>4, <1>8, <3>1, <3>3
    <3> QED BY <3>3, <3>4
  <2>2. ASSUME NEW e \in M(k)
        PROVE  e \in Under(L[v], C(k))
    <3> DEFINE f == Entry(C(k), e)
    <3>1. f \in L[v] /\ f.path[1] = C(k) /\ e = [path |-> Tail(f.path), value |-> f.value]
      BY <1>8
    <3> HIDE DEF f
    <3> QED BY <3>1 DEF Under
  <2> QED BY <2>1, <2>2
<1> QED BY <1>10, <1>11, <1>12, <1>13 DEF LeadsApart, C, M

-----------------------------------------------------------------------------
(* json_unflatten *)

\* The places that the components of a list need: up to the highest of them.
Some(s) == CHOOSE c \in s : TRUE
HighestOf(g, s) ==
  IF s = {} THEN 0
  ELSE IF Some(s).token > g[s \ {Some(s)}] THEN Some(s).token ELSE g[s \ {Some(s)}]
Highest(components) == FoldSet(LAMBDA c, n : IF c.token > n THEN c.token ELSE n, 0, components)

IsHighest(n, s) ==
  n \in Nat /\ (\A c \in s : c.token <= n) /\ (s # {} => \E c \in s : c.token = n)

LEMMA HighestIs ==
  ASSUME NEW S, IsFiniteSet(S), \A c \in S : c.token \in Nat
  PROVE  IsHighest(Highest(S), S)
<1> DEFINE d == [s \in SUBSET S |-> Some(s)]
           step == [p \in S \X Nat |-> IF p[1].token > p[2] THEN p[1].token ELSE p[2]]
           Fold(g) == [s \in SUBSET S |-> HighestOf(g, s)]
<1>1. \A s \in SUBSET S : d[s] = Some(s) /\ (s # {} => d[s] \in s)
  BY DEF Some
<1>2. /\ step \in [S \X Nat -> Nat]
      /\ \A c \in S, n \in Nat : step[<<c, n>>] = IF c.token > n THEN c.token ELSE n
  OBVIOUS
<1>3. PICK g \in [SUBSET S -> Nat] : IsFold(g, d, step, 0, S)
  <2>1. 0 \in Nat
    OBVIOUS
  <2> HIDE DEF d, step
  <2>2. Picks(d, S)
    BY <1>1 DEF Picks
  <2> QED BY <1>2, <2>1, <2>2, FoldExists
<1>4. \A s \in SUBSET S : g[s] = HighestOf(g, s)
  <2> SUFFICES ASSUME NEW s \in SUBSET S
               PROVE  g[s] = HighestOf(g, s)
    OBVIOUS
  <2> HIDE DEF d, step
  <2>1. CASE s = {}
    BY <1>3, <2>1 DEF IsFold, HighestOf
  <2>2. CASE s # {}
    <3>1. d[s] = Some(s) /\ d[s] \in S /\ s \ {d[s]} \in SUBSET S
      BY <1>1, <2>2
    <3>2. g[s \ {d[s]}] \in Nat
      BY <1>3, <3>1
    <3>3. g[s] = step[<<d[s], g[s \ {d[s]}]>>]
      BY <1>3, <2>2 DEF IsFold
    <3> QED BY <1>2, <2>2, <3>1, <3>2, <3>3 DEF HighestOf
  <2> QED BY <2>1, <2>2
<1>5. g = Fold(g)
  <2>1. g = [s \in SUBSET S |-> g[s]]
    OBVIOUS
  <2> HIDE DEF d, step
  <2> QED BY <1>4, <2>1
<1> DEFINE h == CHOOSE k : k = Fold(k)
<1>6. h = Fold(h)
  <2> HIDE DEF Fold
  <2> QED BY <1>5, Zenon
<1>7. Highest(S) = h[S]
  BY Zenon DEF Highest, FoldSet, MapThenFoldSet, HighestOf, Some
<1> HIDE DEF h
<1>8. \A s \in SUBSET S : h[s] = HighestOf(h, s)
  BY <1>6
<1> DEFINE A == {s \in SUBSET S : IsHighest(h[s], s)}
<1>9. {} \in A
  BY <1>8 DEF IsHighest, HighestOf
<1>10. ClosedUnder(d, A, S)
  <2> SUFFICES ASSUME NEW s \in SUBSET S, s # {}, s \ {d[s]} \in A
               PROVE  s \in A
    BY DEF ClosedUnder
  <2> DEFINE c == Some(s)
             r == s \ {c}
             m == h[r]
  <2>1. c \in s /\ c.token \in Nat /\ d[s] = c
    BY <1>1
  <2>2. h[s] = IF c.token > m THEN c.token ELSE m
    BY <1>8 DEF HighestOf
  <2>3. IsHighest(m, r)
    BY <2>1
  <2>4. s = r \cup {c}
    BY <2>1
  <2> HIDE DEF c, d, m
  <2>5. m \in Nat /\ \A x \in r : x.token <= m /\ x.token \in Nat
    BY <2>3 DEF IsHighest
  <2>6. h[s] \in Nat /\ \A x \in s : x.token <= h[s]
    <3> HIDE DEF r
    <3> QED BY <2>1, <2>2, <2>4, <2>5
  <2>7. \E x \in s : x.token = h[s]
    <3>1. CASE c.token > m
      BY <2>1, <2>2, <3>1
    <3>2. CASE ~(c.token > m)
      <4>1. CASE r = {}
        <5>1. m = 0
          BY <1>8, <4>1 DEF m, HighestOf
        <5> QED BY <2>1, <2>2, <3>2, <5>1
      <4>2. CASE r # {}
        <5>1. PICK x \in r : x.token = m
          BY <2>3, <4>2 DEF IsHighest
        <5> QED BY <2>2, <3>2, <5>1
      <4> QED BY <4>1, <4>2
    <3> QED BY <3>1, <3>2
  <2> QED BY <2>6, <2>7 DEF IsHighest
<1>11. S \in A
  <2>1. Picks(d, S)
    BY <1>1 DEF Picks
  <2> HIDE DEF d, A
  <2>2. SUBSET S \subseteq A
    BY <1>9, <1>10, <2>1, SubsetsByRemoval
  <2> QED BY <2>2
<1> QED BY <1>7, <1>11

\* A rendering of entries, R being what is rendered of fewer of them.
Place0 == [kind |-> "list", token |-> 0]
Item(i) == [Place0 EXCEPT !.token = i - 1]
Key(k) == [kind |-> "object", token |-> k]
IsRoot(E) == \E e \in E : e.path = <<>>
RenderOf(R, E) ==
  IF E = {} THEN Object(<<>>)
  ELSE IF IsRoot(E) THEN (CHOOSE e \in E : TRUE).value
  ELSE IF \E c \in First(E) : c.kind = "object"
    THEN Object([k \in {c.token : c \in First(E)} |-> R[Under(E, Key(k))]])
  ELSE List([i \in 1..(1 + Highest(First(E))) |-> IF Item(i) \in First(E) THEN R[Under(E, Item(i))] ELSE Null])

AreRenderings(R, entries) == R = [E \in SUBSET entries |-> RenderOf(R, E)]
Renders(R, entries) == \A E \in SUBSET entries : R[E] = RenderOf(R, E)

UnderAlike(R, H, E) == \A c : R[Under(E, c)] = H[Under(E, c)]

LEMMA RendersAlike ==
  ASSUME NEW E, NEW R, NEW H, E # {} /\ ~IsRoot(E) => UnderAlike(R, H, E)
  PROVE  RenderOf(R, E) = RenderOf(H, E)
<1> DEFINE f(Q) == [k \in {c.token : c \in First(E)} |-> Q[Under(E, Key(k))]]
           s(Q) == [i \in 1..(1 + Highest(First(E))) |-> IF Item(i) \in First(E) THEN Q[Under(E, Item(i))] ELSE Null]
<1>1. \A Q : RenderOf(Q, E) = IF E = {} THEN Object(<<>>)
                              ELSE IF IsRoot(E) THEN (CHOOSE e \in E : TRUE).value
                              ELSE IF \E c \in First(E) : c.kind = "object" THEN Object(f(Q)) ELSE List(s(Q))
  BY Zenon DEF RenderOf
<1>2. CASE UnderAlike(R, H, E)
  <2>1. f(R) = f(H)
    BY <1>2, Zenon DEF UnderAlike
  <2>2. s(R) = s(H)
    BY <1>2, Zenon DEF UnderAlike
  <2> HIDE DEF f, s
  <2> QED BY <1>1, <2>1, <2>2
<1>3. CASE E = {} \/ IsRoot(E)
  <2> HIDE DEF f, s
  <2> QED BY <1>1, <1>3
<1> QED BY <1>2, <1>3

\* What is under a component is shorter.
LEMMA UnderIsShorter ==
  ASSUME NEW parts, NEW n \in Nat, NEW values, NEW E \in SUBSET EntriesOver(parts, n + 1, values),
         ~IsRoot(E), NEW c
  PROVE  Under(E, c) \in SUBSET EntriesOver(parts, n, values)
<1> SUFFICES ASSUME NEW e \in E
             PROVE  [path |-> Tail(e.path), value |-> e.value] \in EntriesOver(parts, n, values)
  BY DEF Under
<1>1. /\ e.path \in Seq(parts) /\ Len(e.path) <= n + 1 /\ Len(e.path) \in Nat
      /\ e.value \in values /\ e.path # <<>>
  BY DEF EntriesOver, IsRoot
<1>2. Tail(e.path) \in Seq(parts) /\ Len(Tail(e.path)) <= n
  BY <1>1
<1> QED BY <1>1, <1>2 DEF EntriesOver

LEMMA RendersExist ==
  ASSUME NEW parts, NEW d \in Nat, NEW values
  PROVE  \E R : AreRenderings(R, EntriesOver(parts, d, values))
<1> DEFINE W(n) == EntriesOver(parts, n, values)
           Good(R, n) == \A E \in SUBSET W(n) : R[E] = RenderOf(R, E)
           A == {n \in Nat : \E R : Good(R, n)}
<1>1. \A R, n : AreRenderings(R, W(n)) => Good(R, n)
  BY DEF AreRenderings
<1>2. 0 \in A
  <2> DEFINE H == [E \in SUBSET W(0) |-> RenderOf({}, E)]
  <2>1. \A E \in SUBSET W(0) : H[E] = RenderOf({}, E)
    OBVIOUS
  <2> HIDE DEF H
  <2>2. ASSUME NEW E \in SUBSET W(0)
        PROVE  H[E] = RenderOf(H, E)
    <3>1. E = {} \/ IsRoot(E)
      <4>1. ASSUME NEW e \in E
            PROVE  e.path = <<>>
        <5>1. e.path \in Seq(parts) /\ Len(e.path) <= 0
          BY DEF EntriesOver
        <5> QED BY <5>1
      <4> QED BY <4>1 DEF IsRoot
    <3>2. RenderOf({}, E) = RenderOf(H, E)
      BY <3>1, RendersAlike
    <3> QED BY <2>1, <3>2
  <2> QED BY <2>2
<1>3. ASSUME NEW n \in A
      PROVE  n + 1 \in A
  <2>1. n \in Nat /\ n + 1 \in Nat
    OBVIOUS
  <2>2. PICK R : Good(R, n)
    OBVIOUS
  <2> DEFINE H == [E \in SUBSET W(n + 1) |-> RenderOf(R, E)]
  <2>3. \A E \in SUBSET W(n + 1) : H[E] = RenderOf(R, E)
    OBVIOUS
  <2>4. W(n) \subseteq W(n + 1)
    <3>1. \A p \in Seq(parts) : Len(p) <= n => Len(p) <= n + 1
      BY <2>1
    <3> QED BY <3>1 DEF EntriesOver
  <2>5. \A E \in SUBSET W(n) : H[E] = R[E]
    BY <2>2, <2>3, <2>4
  <2> HIDE DEF H
  <2>6. ASSUME NEW E \in SUBSET W(n + 1)
        PROVE  H[E] = RenderOf(H, E)
    <3>1. ASSUME ~IsRoot(E), NEW c
          PROVE  R[Under(E, c)] = H[Under(E, c)]
      <4>1. Under(E, c) \in SUBSET W(n)
        BY <2>1, <3>1, UnderIsShorter
      <4> QED BY <2>5, <4>1
    <3>2. E # {} /\ ~IsRoot(E) => UnderAlike(R, H, E)
      BY <3>1 DEF UnderAlike
    <3>3. RenderOf(R, E) = RenderOf(H, E)
      BY <3>2, RendersAlike
    <3> QED BY <2>3, <3>3
  <2> QED BY <2>1, <2>6
<1>4. A = Nat
  <2>1. A \subseteq Nat
    OBVIOUS
  <2> HIDE DEF A
  <2> QED BY <1>2, <1>3, <2>1, NatsAll
<1>5. PICK R : Good(R, d)
  BY <1>4
<1> DEFINE H == [E \in SUBSET W(d) |-> R[E]]
<1>6. \A E \in SUBSET W(d) : H[E] = R[E] /\ R[E] = RenderOf(R, E)
  BY <1>5
<1>7. H = [E \in SUBSET W(d) |-> H[E]]
  OBVIOUS
<1> HIDE DEF H
<1>8. ASSUME NEW E \in SUBSET W(d)
      PROVE  H[E] = RenderOf(H, E)
  <2>1. ASSUME ~IsRoot(E), NEW c
        PROVE  R[Under(E, c)] = H[Under(E, c)]
    <3>1. Under(E, c) \in SUBSET W(d)
      <4> SUFFICES ASSUME NEW e \in E
                   PROVE  [path |-> Tail(e.path), value |-> e.value] \in W(d)
        BY DEF Under
      <4>1. /\ e.path \in Seq(parts) /\ Len(e.path) <= d /\ Len(e.path) \in Nat
            /\ e.value \in values /\ e.path # <<>>
        BY <2>1 DEF EntriesOver, IsRoot
      <4>2. Tail(e.path) \in Seq(parts) /\ Len(Tail(e.path)) <= d
        BY <4>1
      <4> QED BY <4>1, <4>2 DEF EntriesOver
    <3> QED BY <1>6, <3>1
  <2>2. E # {} /\ ~IsRoot(E) => UnderAlike(R, H, E)
    BY <2>1 DEF UnderAlike
  <2>3. RenderOf(R, E) = RenderOf(H, E)
    BY <2>2, RendersAlike
  <2> QED BY <1>6, <2>3
<1>9. AreRenderings(H, W(d))
  <2> HIDE DEF W
  <2> QED BY <1>7, <1>8 DEF AreRenderings
<1> QED BY <1>9

LEMMA RendersAre ==
  ASSUME NEW R, NEW entries, AreRenderings(R, entries)
  PROVE  Renders(R, entries)
BY DEF AreRenderings, Renders

\* What json_unflatten renders is such a rendering.
LEMMA RenderIs ==
  Renders(Render, Entries)
<1>1. Render = CHOOSE R : AreRenderings(R, Entries)
  BY Zenon DEF Render, AreRenderings, RenderOf, First, Under, Highest, Key, Item, Place0, IsRoot
<1>2. \E R : AreRenderings(R, Entries)
  <2>1. 4 \in Nat
    OBVIOUS
  <2> QED BY <2>1, RendersExist DEF Entries
<1>3. AreRenderings(Render, Entries)
  BY <1>1, <1>2, Zenon
<1> QED BY <1>3, RendersAre

\* A value that has one member under each of the components.
SameKind(E) == \A c, e \in First(E) : c.kind = e.kind
RebuiltItems(r, E, R) ==
  \A k \in DOMAIN r.items :
    r.items[k] = IF Component(r, k) \in First(E) THEN R[Under(E, Component(r, k))] ELSE Null
RebuiltFrom(r, E, R) ==
  /\ r.kind \in {"list", "object"} /\ r = [kind |-> r.kind, atom |-> 0, items |-> r.items]
  /\ \A c \in First(E) : c.kind = r.kind /\ \E k \in DOMAIN r.items : Component(r, k) = c
  /\ RebuiltItems(r, E, R)
  /\ r.kind = "object" => /\ r.items = [k \in DOMAIN r.items |-> r.items[k]]
                          /\ \A k \in DOMAIN r.items : Component(r, k) \in First(E)
  /\ r.kind = "list" => \E n \in Nat \ {0} : /\ r.items = [i \in 1..n |-> r.items[i]]
                                             /\ Component(r, n) \in First(E)

LEMMA ComponentsAre ==
  ASSUME NEW v, NEW k
  PROVE  /\ v.kind = "object" => Component(v, k) = Key(k)
         /\ v.kind = "list" => Component(v, k) = Item(k)
         /\ Item(k) = [kind |-> "list", token |-> k - 1]
BY DEF Component, Token, Key, Item, Place0

LEMMA FirstExists ==
  ASSUME NEW E, E # {}
  PROVE  \E c \in First(E) : TRUE
BY DEF First

LEMMA Rebuilt ==
  ASSUME NEW W, NEW R, Renders(R, W), NEW E \in SUBSET W, E # {}, ~IsRoot(E), SameKind(E),
         NEW names, First(E) \subseteq ComponentsOver(names),
         (\E c \in First(E) : c.kind = "list") => IsFiniteSet(First(E))
  PROVE  RebuiltFrom(R[E], E, R)
<1> DEFINE r == R[E]
           F == First(E)
<1>1. \A c \in F : \/ c.kind = "list" /\ c.token \in Nat /\ c = [kind |-> "list", token |-> c.token]
                   \/ c.kind = "object" /\ c.token \in names /\ c = Key(c.token)
  BY DEF ComponentsOver, Key
<1>2. r = RenderOf(R, E)
  BY DEF Renders
<1>3. F # {}
  BY FirstExists
<1>4. CASE \E c \in F : c.kind = "object"
  <2> DEFINE keys == {c.token : c \in F}
             f == [k \in keys |-> R[Under(E, Key(k))]]
  <2>1. r = Object(f)
    BY <1>2, <1>4 DEF RenderOf
  <2>2. \A c \in F : c.kind = "object" /\ c = Key(c.token)
    BY <1>1, <1>4 DEF SameKind
  <2>3. r.kind = "object" /\ r.items = f /\ r.atom = 0 /\ r = [kind |-> "object", atom |-> 0, items |-> f]
    BY <2>1 DEF Object
  <2>4. DOMAIN f = keys /\ (\A k \in keys : f[k] = R[Under(E, Key(k))]) /\ f = [k \in keys |-> f[k]]
    OBVIOUS
  <2>5. \A k : Component(r, k) = Key(k)
    BY <2>3, ComponentsAre
  <2>6. \A k \in keys : Key(k) \in F
    BY <2>2
  <2>7. \A c \in F : c.token \in keys /\ Key(c.token) = c
    BY <2>2
  <2> HIDE DEF r, f, keys, F
  <2>8. RebuiltItems(r, E, R)
    BY <2>3, <2>4, <2>5, <2>6 DEF RebuiltItems, F
  <2>9. \A c \in F : c.kind = r.kind /\ \E k \in DOMAIN r.items : Component(r, k) = c
    BY <2>2, <2>3, <2>4, <2>5, <2>7
  <2>10. r.items = [k \in DOMAIN r.items |-> r.items[k]] /\ \A k \in DOMAIN r.items : Component(r, k) \in F
    BY <2>3, <2>4, <2>5, <2>6
  <2>11. r.kind # "list" /\ r = [kind |-> r.kind, atom |-> 0, items |-> r.items]
    BY <2>3
  <2> QED BY <2>3, <2>8, <2>9, <2>10, <2>11 DEF RebuiltFrom, r, F
<1>5. CASE ~\E c \in F : c.kind = "object"
  <2> DEFINE n == 1 + Highest(F)
             s == [i \in 1..n |-> IF Item(i) \in F THEN R[Under(E, Item(i))] ELSE Null]
  <2>1. r = List(s)
    BY <1>2, <1>5 DEF RenderOf
  <2>2. \A c \in F : c.kind = "list" /\ c.token \in Nat /\ c = [kind |-> "list", token |-> c.token]
    BY <1>1, <1>5
  <2>3. IsHighest(Highest(F), F)
    <3>1. IsFiniteSet(F) /\ \A c \in F : c.token \in Nat
      BY <1>3, <2>2
    <3> HIDE DEF F
    <3> QED BY <3>1, HighestIs
  <2>4. n \in Nat \ {0} /\ (\A c \in F : c.token + 1 \in 1..n) /\ \E c \in F : c.token + 1 = n
    <3> HIDE DEF F
    <3> QED BY <1>3, <2>2, <2>3 DEF IsHighest
  <2>5. r.kind = "list" /\ r.items = s /\ r.atom = 0 /\ r = [kind |-> "list", atom |-> 0, items |-> s]
    BY <2>1 DEF List
  <2>6. DOMAIN s = 1..n /\ (\A i \in 1..n : s[i] = IF Item(i) \in F THEN R[Under(E, Item(i))] ELSE Null)
        /\ s = [i \in 1..n |-> s[i]]
    OBVIOUS
  <2>7. \A k : Component(r, k) = Item(k)
    BY <2>5, ComponentsAre
  <2>8. \A c \in F : Item(c.token + 1) = c
    <3> TAKE c \in F
    <3>1. c.token + 1 - 1 = c.token
      BY <2>2
    <3> QED BY <2>2, <3>1, ComponentsAre
  <2> HIDE DEF r, s, n, F
  <2>9. RebuiltItems(r, E, R)
    BY <2>5, <2>6, <2>7 DEF RebuiltItems, F
  <2>10. \A c \in F : c.kind = r.kind /\ \E k \in DOMAIN r.items : Component(r, k) = c
    BY <2>2, <2>4, <2>5, <2>6, <2>7, <2>8
  <2>11. \E j \in Nat \ {0} : r.items = [i \in 1..j |-> r.items[i]] /\ Component(r, j) \in F
    <3>1. Component(r, n) \in F
      BY <2>4, <2>7, <2>8
    <3>2. r.items = [i \in 1..n |-> r.items[i]]
      BY <2>5, <2>6
    <3> QED BY <2>4, <3>1, <3>2
  <2>12. r.kind # "object" /\ r = [kind |-> r.kind, atom |-> 0, items |-> r.items]
    BY <2>5
  <2> QED BY <2>5, <2>9, <2>10, <2>11, <2>12 DEF RebuiltFrom, r, F
<1> QED BY <1>4, <1>5

\* An object or a list is what its components and its members are.
LEMMA SameItems ==
  ASSUME NEW V, NEW names, NEW v \in Over(V, names), NEW r, NEW E, NEW R, RebuiltFrom(r, E, R),
         v.items # <<>>, First(E) = {Component(v, k) : k \in DOMAIN v.items},
         \A k \in DOMAIN v.items : R[Under(E, Component(v, k))] = v.items[k]
  PROVE  r = v
<1>1. PICK k0 \in DOMAIN v.items : TRUE
  BY NoItems
<1>2. \A k \in DOMAIN v.items : Component(v, k) \in First(E) /\ Component(v, k).kind = v.kind
  BY ComponentIs
<1>3. r.kind = v.kind /\ r.kind \in {"list", "object"} /\ r = [kind |-> r.kind, atom |-> 0, items |-> r.items]
  BY <1>1, <1>2 DEF RebuiltFrom
<1>4. \A k : Component(r, k) = Component(v, k)
  BY <1>3, ComponentsAre
<1>5. \A k \in DOMAIN v.items : \E j \in DOMAIN r.items : Component(v, j) = Component(v, k)
  BY <1>2, <1>4 DEF RebuiltFrom
<1>6. ASSUME DOMAIN r.items = DOMAIN v.items
      PROVE  \A k \in DOMAIN v.items : r.items[k] = v.items[k]
  <2> SUFFICES ASSUME NEW k \in DOMAIN v.items
               PROVE  r.items[k] = v.items[k]
    OBVIOUS
  <2> DEFINE c == Component(v, k)
  <2>1. c \in First(E) /\ Component(r, k) = c /\ R[Under(E, c)] = v.items[k]
    BY <1>2, <1>4
  <2>2. RebuiltItems(r, E, R) /\ k \in DOMAIN r.items
    BY <1>6 DEF RebuiltFrom
  <2> HIDE DEF c
  <2> QED BY <2>1, <2>2 DEF RebuiltItems
<1>7. CASE v.kind = "object"
  <2>1. v.items \in [DOMAIN v.items -> V] /\ v = Object(v.items)
    BY <1>7, KindsOf
  <2>2. \A k : Component(v, k) = Key(k)
    BY <1>7, ComponentsAre
  <2>3. \A j, k : Key(j) = Key(k) => j = k
    BY DEF Key
  <2>4. \A k \in DOMAIN r.items : \E j \in DOMAIN v.items : Component(v, j) = Component(v, k)
    BY <1>3, <1>4, <1>7 DEF RebuiltFrom
  <2>5. DOMAIN r.items = DOMAIN v.items
    <3>1. ASSUME NEW k \in DOMAIN v.items
          PROVE  k \in DOMAIN r.items
      <4>1. PICK j \in DOMAIN r.items : Component(v, j) = Component(v, k)
        BY <1>5
      <4> QED BY <2>2, <2>3, <4>1
    <3>2. ASSUME NEW k \in DOMAIN r.items
          PROVE  k \in DOMAIN v.items
      <4>1. PICK j \in DOMAIN v.items : Component(v, j) = Component(v, k)
        BY <2>4
      <4> QED BY <2>2, <2>3, <4>1
    <3> QED BY <3>1, <3>2
  <2>6. r.items = [k \in DOMAIN r.items |-> r.items[k]]
    BY <1>3, <1>7 DEF RebuiltFrom
  <2>7. r.items = v.items
    BY <1>6, <2>1, <2>5, <2>6
  <2> QED BY <1>3, <1>7, <2>1, <2>7 DEF Object
<1>8. CASE v.kind = "list"
  <2>1. v.items \in Seq(V) /\ v = List(v.items)
    BY <1>8, KindsOf
  <2> DEFINE m == Len(v.items)
             x == v.items
             y == r.items
  <2>2. m \in Nat /\ DOMAIN x = 1..m
    BY <2>1
  <2>3. PICK n \in Nat \ {0} : y = [i \in 1..n |-> y[i]] /\ Component(r, n) \in First(E)
    BY <1>3, <1>8 DEF RebuiltFrom
  <2>4. DOMAIN y = 1..n
    BY <2>3
  <2>5. \A k : Component(v, k) = [kind |-> "list", token |-> k - 1]
    BY <1>8, ComponentsAre
  <2>6. PICK j \in 1..m : Component(v, j) = Component(v, n)
    BY <1>4, <2>2, <2>3
  <2>7. j - 1 = n - 1
    BY <2>5, <2>6
  <2>8. m \in 1..m
    BY <2>2, <2>6
  <2>9. PICK g \in 1..n : Component(v, g) = Component(v, m)
    BY <1>5, <2>2, <2>4, <2>8
  <2>10. g - 1 = m - 1
    BY <2>5, <2>9
  <2>11. m = n
    <3> HIDE DEF m
    <3> QED BY <2>2, <2>7, <2>8, <2>10
  <2>12. x = [i \in 1..m |-> x[i]]
    BY <2>1
  <2>13. x = y
    BY <1>6, <2>2, <2>3, <2>4, <2>11, <2>12
  <2> QED BY <1>3, <1>8, <2>1, <2>13 DEF List
<1> QED BY <1>3, <1>7, <1>8

\* Paths that lead through the same components up to the n-th, which differ in
\* kind.
ForkAt(u, v, n) ==
  n \in 1..Len(u) /\ n \in 1..Len(v) /\ (\A i \in 1..(n - 1) : u[i] = v[i]) /\ u[n].kind # v[n].kind
Fork(u, v) == \E n \in Nat : ForkAt(u, v, n)
ConflictIs(u, v) == Conflicting(u, v) <=> IsPrefix(u, v) \/ Fork(u, v)
ConsConflict(a, x, b, y) ==
  Conflicting(<<a>> \o x, <<b>> \o y) <=> IF a = b THEN Conflicting(x, y) ELSE a.kind # b.kind

LEMMA ConflictsAre ==
  ASSUME NEW X, NEW u \in Seq(X), NEW v \in Seq(X)
  PROVE  ConflictIs(u, v)
<1>1. DOMAIN u = 1..Len(u) /\ DOMAIN v = 1..Len(v) /\ Len(u) \in Nat /\ Len(v) \in Nat
  OBVIOUS
<1>2. ASSUME NEW n \in 1..Len(u), n \in 1..Len(v)
      PROVE  SubSeq(u, 1, n - 1) = SubSeq(v, 1, n - 1) <=> \A i \in 1..(n - 1) : u[i] = v[i]
  <2> DEFINE m == n - 1
  <2>1. m \in Nat /\ m <= Len(u) /\ m <= Len(v)
    BY <1>1, <1>2
  <2> HIDE DEF m
  <2>2. SubSeq(u, 1, m) = SubSeq(v, 1, m) <=> \A i \in 1..m : u[i] = v[i]
    BY <2>1
  <2> QED BY <2>2 DEF m
<1>3. ASSUME NEW n \in DOMAIN u \cap DOMAIN v, SubSeq(u, 1, n - 1) = SubSeq(v, 1, n - 1), u[n].kind # v[n].kind
      PROVE  Fork(u, v)
  <2>1. n \in 1..Len(u) /\ n \in 1..Len(v) /\ n \in Nat
    BY <1>1
  <2>2. ForkAt(u, v, n)
    BY <1>2, <1>3, <2>1 DEF ForkAt
  <2> QED BY <2>1, <2>2 DEF Fork
<1>4. ASSUME NEW n \in Nat, ForkAt(u, v, n)
      PROVE  \E m \in DOMAIN u \cap DOMAIN v :
               SubSeq(u, 1, m - 1) = SubSeq(v, 1, m - 1) /\ u[m].kind # v[m].kind
  <2>1. n \in DOMAIN u \cap DOMAIN v
    BY <1>1, <1>4 DEF ForkAt
  <2>2. SubSeq(u, 1, n - 1) = SubSeq(v, 1, n - 1)
    BY <1>2, <1>4 DEF ForkAt
  <2> QED BY <1>4, <2>1, <2>2 DEF ForkAt
<1> QED BY <1>3, <1>4 DEF ConflictIs, Conflicting, Fork

LEMMA ConflictBehind ==
  ASSUME NEW X, NEW a, NEW x \in Seq(X), NEW b, NEW y \in Seq(X)
  PROVE  ConsConflict(a, x, b, y)
<1> DEFINE u == <<a>> \o x
           v == <<b>> \o y
           Y == X \cup {a, b}
<1>1. u \in Seq(X \cup {a}) /\ Len(u) = Len(x) + 1 /\ u[1] = a /\ \A i \in 1..Len(x) : u[i + 1] = x[i]
  BY ConsIs
<1>2. v \in Seq(X \cup {b}) /\ Len(v) = Len(y) + 1 /\ v[1] = b /\ \A i \in 1..Len(y) : v[i + 1] = y[i]
  BY ConsIs
<1>3. Len(x) \in Nat /\ Len(y) \in Nat
  OBVIOUS
<1>4. IsPrefix(u, v) <=> a = b /\ IsPrefix(x, y)
  BY ConsPrefix
<1> HIDE DEF u, v
<1>5. u \in Seq(Y) /\ v \in Seq(Y)
  BY <1>1, <1>2
<1> HIDE DEF Y
<1>6. ConflictIs(u, v) /\ ConflictIs(x, y)
  BY <1>5, ConflictsAre
<1>7. a.kind # b.kind => Fork(u, v)
  <2>1. a.kind # b.kind => ForkAt(u, v, 1)
    BY <1>1, <1>2, <1>3 DEF ForkAt
  <2> QED BY <2>1 DEF Fork
<1>8. ASSUME a = b, NEW n \in Nat, ForkAt(x, y, n)
      PROVE  Fork(u, v)
  <2> DEFINE m == n + 1
  <2>1. m \in 1..Len(u) /\ m \in 1..Len(v) /\ n \in 1..Len(x) /\ n \in 1..Len(y) /\ m \in Nat
    BY <1>1, <1>2, <1>3, <1>8 DEF ForkAt
  <2>2. u[m].kind # v[m].kind
    BY <1>1, <1>2, <1>8, <2>1 DEF ForkAt
  <2>3. ASSUME NEW i \in 1..(m - 1)
        PROVE  u[i] = v[i]
    <3>1. CASE i = 1
      BY <1>1, <1>2, <1>8, <3>1
    <3>2. CASE i # 1
      <4> DEFINE j == i - 1
      <4>1. j \in 1..(n - 1) /\ j \in 1..Len(x) /\ j \in 1..Len(y) /\ i = j + 1
        BY <1>3, <2>1, <3>2
      <4> HIDE DEF j, m
      <4>2. x[j] = y[j]
        BY <1>8, <4>1 DEF ForkAt
      <4> QED BY <1>1, <1>2, <4>1, <4>2
    <3> QED BY <3>1, <3>2
  <2> HIDE DEF m
  <2>4. ForkAt(u, v, m)
    BY <2>1, <2>2, <2>3 DEF ForkAt
  <2> QED BY <2>1, <2>4 DEF Fork
<1>9. ASSUME NEW n \in Nat, ForkAt(u, v, n), n # 1
      PROVE  a = b /\ Fork(x, y)
  <2> DEFINE m == n - 1
  <2>1. m \in 1..Len(x) /\ m \in 1..Len(y) /\ n = m + 1 /\ m \in Nat
    BY <1>1, <1>2, <1>3, <1>9 DEF ForkAt
  <2>2. \A i \in 1..m : u[i] = v[i]
    BY <1>9 DEF ForkAt
  <2> HIDE DEF m
  <2>3. a = b
    BY <1>1, <1>2, <2>1, <2>2
  <2>4. x[m].kind # y[m].kind
    BY <1>1, <1>2, <1>9, <2>1 DEF ForkAt
  <2>5. ASSUME NEW i \in 1..(m - 1)
        PROVE  x[i] = y[i]
    <3>1. i \in 1..Len(x) /\ i \in 1..Len(y) /\ i + 1 \in 1..m
      BY <1>3, <2>1
    <3>2. u[i + 1] = v[i + 1]
      BY <2>2, <3>1
    <3> QED BY <1>1, <1>2, <3>1, <3>2
  <2>6. ForkAt(x, y, m)
    BY <2>1, <2>4, <2>5 DEF ForkAt
  <2> QED BY <2>1, <2>3, <2>6 DEF Fork
<1>10. ForkAt(u, v, 1) => a.kind # b.kind
  BY <1>1, <1>2 DEF ForkAt
<1>11. CASE a = b
  <2>1. Fork(u, v) <=> Fork(x, y)
    BY <1>8, <1>9, <1>10, <1>11 DEF Fork
  <2> QED BY <1>4, <1>6, <1>11, <2>1 DEF ConflictIs, ConsConflict, u, v
<1>12. CASE a # b
  <2>1. Fork(u, v) <=> a.kind # b.kind
    BY <1>7, <1>9, <1>10, <1>12 DEF Fork
  <2> QED BY <1>4, <1>6, <1>12, <2>1 DEF ConflictIs, ConsConflict, u, v
<1> QED BY <1>11, <1>12

\* No key leads through another one, or through a list where another one leads
\* through an object.
NoConflicts(E) == ~\E a, b \in E : a # b /\ Conflicting(a.path, b.path)

LEMMA LeadsAgree ==
  ASSUME NEW names, NEW d \in Nat, NEW D \in SUBSET Nesting(names)[d], Closed(D),
         NEW L, LeadsAsTold(L, D), NEW w \in D
  PROVE  NoConflicts(L[w])
<1> DEFINE N == Nesting(names)
           parts == ComponentsOver(names)
           A == {n \in Nat : \A v \in D : v \in N[n] => NoConflicts(L[v])}
<1>1. 0 \in A
  <2>1. N[0] = {}
    BY NestingIs
  <2> HIDE DEF N
  <2> QED BY <2>1
<1>2. ASSUME NEW n \in A
      PROVE  n + 1 \in A
  <2>1. n \in Nat /\ n + 1 \in Nat
    OBVIOUS
  <2> SUFFICES ASSUME NEW v \in D, v \in N[n + 1]
               PROVE  NoConflicts(L[v])
    BY <2>1
  <2>2. Members(v, N[n]) /\ v \in Over(N[n], names)
    BY <2>1, ShallowerMembers
  <2>3. L[v] = LeadsOf(L, v)
    BY DEF LeadsAsTold
  <2>4. CASE v.items = <<>>
    <3>1. L[v] = {Lead(v)}
      BY <2>3, <2>4 DEF LeadsOf
    <3> QED BY <3>1 DEF NoConflicts
  <2>5. CASE v.items # <<>>
    <3> SUFFICES ASSUME NEW a \in L[v], NEW b \in L[v], a # b, Conflicting(a.path, b.path)
                 PROVE  FALSE
      BY DEF NoConflicts
    <3>1. L[v] = UNION {{Entry(Component(v, k), entry) : entry \in L[v.items[k]]} : k \in DOMAIN v.items}
      BY <2>3, <2>5 DEF LeadsOf
    <3>2. PICK j \in DOMAIN v.items : \E e \in L[v.items[j]] : a = Entry(Component(v, j), e)
      BY <3>1
    <3>3. PICK e \in L[v.items[j]] : a = Entry(Component(v, j), e)
      BY <3>2
    <3>4. PICK k \in DOMAIN v.items : \E f \in L[v.items[k]] : b = Entry(Component(v, k), f)
      BY <3>1
    <3>5. PICK f \in L[v.items[k]] : b = Entry(Component(v, k), f)
      BY <3>4
    <3>6. e.path \in Seq(parts) /\ f.path \in Seq(parts)
      <4>1. PartsOf(D, parts)
        BY PartsAreOver
      <4> DEFINE x == v.items[j]
                 y == v.items[k]
      <4>2. x \in D /\ y \in D /\ x \in N[n] /\ y \in N[n]
        BY <2>2 DEF Members, Closed
      <4> HIDE DEF parts, x, y
      <4>3. LeadsIn(L, x, parts, n, D) /\ LeadsIn(L, y, parts, n, D)
        BY <2>1, <4>1, <4>2, LeadsTyped
      <4>4. e \in EntriesOver(parts, n, D) /\ f \in EntriesOver(parts, n, D)
        BY <3>3, <3>5, <4>3 DEF LeadsIn, x, y
      <4> QED BY <4>4 DEF EntriesOver
    <3> DEFINE p == e.path
               q == f.path
               c == Component(v, j)
               o == Component(v, k)
    <3>7. c.kind = o.kind /\ (c = o => j = k)
      BY <2>2, ComponentIs
    <3>8. a.path = <<c>> \o p /\ b.path = <<o>> \o q
      BY <3>3, <3>5 DEF Entry
    <3> HIDE DEF p, q, c, o, parts
    <3>9. ConsConflict(c, p, o, q)
      BY <3>6, ConflictBehind DEF p, q
    <3>10. c = o /\ Conflicting(p, q)
      BY <3>7, <3>8, <3>9 DEF ConsConflict
    <3>11. e # f
      BY <3>3, <3>5, <3>7, <3>10
    <3>12. NoConflicts(L[v.items[j]])
      BY <2>2 DEF Members, Closed
    <3> QED BY <3>3, <3>5, <3>7, <3>10, <3>11, <3>12 DEF NoConflicts, p, q
  <2> QED BY <2>4, <2>5
<1>3. A = Nat
  <2>1. A \subseteq Nat
    OBVIOUS
  <2> HIDE DEF A
  <2> QED BY <1>1, <1>2, <2>1, NatsAll
<1> QED BY <1>3

LEMMA LeadsRendered ==
  ASSUME NEW names, NEW d \in Nat, NEW D \in SUBSET Nesting(names)[d], Closed(D),
         NEW L, LeadsAsTold(L, D), NEW parts \in SUBSET ComponentsOver(names), PartsOf(D, parts),
         NEW m \in Nat, d <= m, NEW V, D \subseteq V, NEW R, Renders(R, EntriesOver(parts, m, V)),
         NEW w \in D
  PROVE  R[L[w]] = w
<1> DEFINE N == Nesting(names)
           W == EntriesOver(parts, m, V)
           A == {n \in Nat : \A v \in D : v \in N[n] => R[L[v]] = v}
<1>1. 0 \in A
  <2>1. N[0] = {}
    BY NestingIs
  <2> HIDE DEF N
  <2> QED BY <2>1
<1>2. \A v \in D : L[v] # {} /\ L[v] \in SUBSET W
  <2> TAKE v \in D
  <2>1. LeadsIn(L, v, parts, d, D)
    BY LeadsTyped
  <2>2. EntriesOver(parts, d, D) \subseteq W
    BY DEF EntriesOver
  <2> QED BY <2>1, <2>2 DEF LeadsIn
<1>3. ASSUME NEW n \in A
      PROVE  n + 1 \in A
  <2>1. n \in Nat /\ n + 1 \in Nat
    OBVIOUS
  <2> SUFFICES ASSUME NEW v \in D, v \in N[n + 1]
               PROVE  R[L[v]] = v
    BY <2>1
  <2>2. Members(v, N[n]) /\ v \in Over(N[n], names)
    BY <2>1, ShallowerMembers
  <2> DEFINE E == L[v]
  <2>3. E \in SUBSET W /\ E # {}
    BY <1>2
  <2>4. CASE v.items = <<>>
    <3>1. E = {Lead(v)}
      BY <2>4 DEF LeadsOf, LeadsAsTold
    <3>2. Lead(v).path = <<>> /\ Lead(v).value = v
      BY DEF Lead
    <3> HIDE DEF E
    <3>3. R[E] = RenderOf(R, E)
      BY <2>3 DEF Renders
    <3>4. IsRoot(E) /\ (CHOOSE e \in E : TRUE) = Lead(v)
      BY <3>1, <3>2 DEF IsRoot
    <3> QED BY <2>3, <3>2, <3>3, <3>4 DEF RenderOf, E
  <2>5. CASE v.items # <<>>
    <3>1. LeadsApart(L, v)
      BY <2>5, LeadsTakenApart
    <3>2. ~IsRoot(E) /\ First(E) = {Component(v, k) : k \in DOMAIN v.items}
      BY <3>1 DEF LeadsApart, IsRoot
    <3>3. ASSUME NEW k \in DOMAIN v.items
          PROVE  R[Under(E, Component(v, k))] = v.items[k]
      <4>1. Under(E, Component(v, k)) = L[v.items[k]]
        BY <3>1 DEF LeadsApart
      <4>2. v.items[k] \in D /\ v.items[k] \in N[n]
        BY <2>2 DEF Members, Closed
      <4> QED BY <4>1, <4>2
    <3>4. \A k \in DOMAIN v.items : /\ Component(v, k) \in ComponentsOver(names)
                                    /\ Component(v, k).kind = v.kind
      BY <2>2, ComponentIs
    <3> HIDE DEF E, W
    <3>5. First(E) \subseteq ComponentsOver(names) /\ SameKind(E)
      BY <3>2, <3>4 DEF SameKind
    <3>6. (\E c \in First(E) : c.kind = "list") => IsFiniteSet(First(E))
      <4> SUFFICES ASSUME \E c \in First(E) : c.kind = "list"
                   PROVE  IsFiniteSet(First(E))
        OBVIOUS
      <4>1. v.kind = "list"
        BY <3>2, <3>4
      <4>2. v.items \in Seq(N[n])
        BY <2>2, <4>1, KindsOf
      <4> DEFINE len == Len(v.items)
                 keys == DOMAIN v.items
                 f == [k \in keys |-> Component(v, k)]
      <4>3. 1 \in Int /\ len \in Int /\ keys = 1..len
        BY <4>2
      <4> HIDE DEF len
      <4>4. IsFiniteSet(keys)
        BY <4>3, FS_Interval
      <4> HIDE DEF keys
      <4>5. f \in Surjection(keys, First(E))
        <5>1. (\A k \in keys : f[k] \in First(E)) /\ \A c \in First(E) : \E k \in keys : f[k] = c
          BY <3>2 DEF keys
        <5>2. f \in [keys -> First(E)]
          BY <5>1
        <5> HIDE DEF f
        <5> QED BY <5>1, <5>2 DEF Surjection
      <4> HIDE DEF f
      <4> QED BY <4>4, <4>5, FS_Surjection
    <3>7. RebuiltFrom(R[E], E, R)
      BY <2>3, <3>2, <3>5, <3>6, Rebuilt DEF W
    <3>8. R[E] = v
      BY <2>2, <2>5, <3>2, <3>3, <3>7, SameItems
    <3> QED BY <3>8 DEF E
  <2> QED BY <2>4, <2>5
<1>4. A = Nat
  <2>1. A \subseteq Nat
    OBVIOUS
  <2> HIDE DEF A
  <2> QED BY <1>1, <1>3, <2>1, NatsAll
<1> QED BY <1>4

\* The keys of a flattened value: all that is not the root.
BelowRoot(E) == {entry \in E : entry.path # <<>>}

RebuiltAs(doc, E, R) ==
  /\ NoConflicts(E)
  /\ R[E] = IF doc.kind = "object" \/ doc.items # <<>> THEN doc ELSE Object(<<>>)

LEMMA KeysRendered ==
  ASSUME NEW names, NEW d \in Nat, NEW D \in SUBSET Nesting(names)[d], Closed(D),
         NEW L, LeadsAsTold(L, D), NEW parts \in SUBSET ComponentsOver(names), PartsOf(D, parts),
         NEW m \in Nat, d <= m, NEW V, D \subseteq V, NEW R, Renders(R, EntriesOver(parts, m, V)),
         NEW doc \in D
  PROVE  RebuiltAs(doc, BelowRoot(L[doc]), R)
<1>1. R[L[doc]] = doc
  BY LeadsRendered
<1>2. NoConflicts(L[doc])
  BY LeadsAgree
<1>3. NoConflicts(BelowRoot(L[doc]))
  BY <1>2 DEF NoConflicts, BelowRoot
<1>4. CASE doc.items # <<>>
  <2>1. LeadsApart(L, doc)
    BY <1>4, LeadsTakenApart
  <2>2. BelowRoot(L[doc]) = L[doc]
    BY <2>1 DEF LeadsApart, BelowRoot
  <2> QED BY <1>1, <1>3, <1>4, <2>2 DEF RebuiltAs
<1>5. CASE doc.items = <<>>
  <2>1. L[doc] = {Lead(doc)}
    BY <1>5 DEF LeadsAsTold, LeadsOf
  <2>2. BelowRoot(L[doc]) = {}
    BY <2>1 DEF Lead, BelowRoot
  <2>3. R[{}] = Object(<<>>)
    <3>1. {} \in SUBSET EntriesOver(parts, m, V)
      OBVIOUS
    <3>2. R[{}] = RenderOf(R, {})
      BY <3>1 DEF Renders
    <3> QED BY <3>2 DEF RenderOf
  <2>4. doc.kind = "object" => doc = Object(<<>>)
    <3>1. doc \in Over(Nesting(names)[d], names)
      <4>1. doc \in Nesting(names)[d + 1]
        BY NestingIs
      <4> QED BY <4>1, NestingIs
    <3>2. doc.kind = "object" => doc = Object(doc.items)
      BY <3>1, KindsOf
    <3> QED BY <1>5, <3>2
  <2> QED BY <1>3, <1>5, <2>2, <2>3, <2>4 DEF RebuiltAs
<1> QED BY <1>4, <1>5

\* What json_unflatten answers, R being its rendering.
UnflattenedBy(R, E) ==
  IF (\E entry \in E : Refused(entry.path)) \/ ~NoConflicts(E) THEN None ELSE R[E]

\* A document of any depth, names and lengths, without an empty name at its
\* root, is rebuilt as it was from its keys, all that is not the root
\* (json_flatten, json_unflatten): no two keys are in conflict, what is rendered
\* of them is the document, and only a key that is too long, has an empty name
\* in it or an index that is too high, whatever the limits are, is refused.
THEOREM FlattenedIsRebuilt ==
  ASSUME NEW names, NEW depth \in Nat \ {0},
         NEW L, AreLeads(L, Nesting(names)[depth]),
         NEW R, AreRenderings(R, EntriesOver(ComponentsOver(names), depth, Nesting(names)[depth])),
         NEW doc \in Nesting(names)[depth], ~HasBlank(doc)
  PROVE  UnflattenedBy(R, BelowRoot(L[doc])) =
           IF \E entry \in BelowRoot(L[doc]) : Refused(entry.path) THEN None
           ELSE IF doc.kind = "object" \/ doc.items # <<>> THEN doc ELSE Object(<<>>)
<1> DEFINE D == Nesting(names)[depth]
           parts == ComponentsOver(names)
<1>1. depth \in Nat /\ depth <= depth /\ D \in SUBSET D
  OBVIOUS
<1>2. Closed(D)
  BY NestingIsClosed
<1>3. LeadsAsTold(L, D)
  BY LeadsFlatten
<1>4. Renders(R, EntriesOver(parts, depth, D))
  BY RendersAre
<1>5. PartsOf(D, parts)
  BY <1>1, PartsAreOver
<1>6. parts \in SUBSET ComponentsOver(names)
  OBVIOUS
<1>7. doc \in D
  OBVIOUS
<1> HIDE DEF D, parts
<1>8. D \in SUBSET Nesting(names)[depth]
  BY DEF D
<1>9. RebuiltAs(doc, BelowRoot(L[doc]), R)
  BY <1>1, <1>2, <1>3, <1>4, <1>5, <1>6, <1>7, <1>8, KeysRendered
<1> QED BY <1>9, Zenon DEF RebuiltAs, UnflattenedBy

\* Entries that are in no conflict, with values that have no members.
Sound(E) == NoConflicts(E) /\ \A e \in E : e.value.items = <<>>

LEMMA UnderIsSound ==
  ASSUME NEW parts, NEW n \in Nat, NEW values, NEW E \in SUBSET EntriesOver(parts, n, values),
         ~IsRoot(E), Sound(E)
  PROVE  SameKind(E) /\ \A c \in First(E) : Sound(Under(E, c)) /\ Under(E, c) # {}
<1> DEFINE Rest(e) == [path |-> Tail(e.path), value |-> e.value]
<1>1. ASSUME NEW e \in E
      PROVE  /\ e.path[1] \in parts /\ Rest(e).path \in Seq(parts) /\ Rest(e).value = e.value
             /\ e.path = <<e.path[1]>> \o Rest(e).path
  <2>1. e \in [path : Seq(parts), value : values] /\ e.path # <<>>
    BY DEF EntriesOver, IsRoot
  <2>2. Rest(e).path = Tail(e.path) /\ Rest(e).value = e.value
    OBVIOUS
  <2>3. e.path[1] \in parts /\ Rest(e) \in [path : Seq(parts), value : values] /\ Entry(e.path[1], Rest(e)) = e
    BY <2>1, EntryBack
  <2> HIDE DEF Rest
  <2>4. Entry(e.path[1], Rest(e)).path = <<e.path[1]>> \o Rest(e).path
    BY DEF Entry
  <2> QED BY <2>2, <2>3, <2>4
<1>2. ASSUME NEW a \in E, NEW b \in E
      PROVE  Conflicting(a.path, b.path) <=>
               IF a.path[1] = b.path[1] THEN Conflicting(Rest(a).path, Rest(b).path)
               ELSE a.path[1].kind # b.path[1].kind
  <2> DEFINE p == Rest(a).path
             q == Rest(b).path
             c == a.path[1]
             o == b.path[1]
  <2>1. p \in Seq(parts) /\ q \in Seq(parts) /\ a.path = <<c>> \o p /\ b.path = <<o>> \o q
    BY <1>1
  <2> HIDE DEF p, q, c, o
  <2>2. ConsConflict(c, p, o, q)
    BY <2>1, ConflictBehind
  <2>3. Conflicting(a.path, b.path) <=> IF c = o THEN Conflicting(p, q) ELSE c.kind # o.kind
    BY <2>1, <2>2 DEF ConsConflict
  <2> QED BY <2>3 DEF p, q, c, o
<1>3. SameKind(E)
  <2> SUFFICES ASSUME NEW a \in E, NEW b \in E, a.path[1].kind # b.path[1].kind
               PROVE  FALSE
    BY DEF SameKind, First
  <2>1. a # b /\ Conflicting(a.path, b.path)
    BY <1>2
  <2> QED BY <2>1 DEF Sound, NoConflicts
<1>4. ASSUME NEW c \in First(E)
      PROVE  Sound(Under(E, c)) /\ Under(E, c) # {}
  <2>1. Under(E, c) = {Rest(e) : e \in {e \in E : e.path[1] = c}}
    BY Zenon DEF Under
  <2>2. PICK e0 \in E : e0.path[1] = c
    BY DEF First
  <2>3. ASSUME NEW x \in Under(E, c)
        PROVE  \E e \in E : e.path[1] = c /\ x = Rest(e)
    BY <2>1
  <2>4. Rest(e0) \in Under(E, c)
    BY <2>1, <2>2
  <2>5. \A x \in Under(E, c) : x.value.items = <<>>
    <3> HIDE DEF Rest
    <3> QED BY <1>1, <2>3 DEF Sound
  <2>6. NoConflicts(Under(E, c))
    <3> SUFFICES ASSUME NEW x \in Under(E, c), NEW y \in Under(E, c), x # y, Conflicting(x.path, y.path)
                 PROVE  FALSE
      BY DEF NoConflicts
    <3>1. PICK a \in E : a.path[1] = c /\ x = Rest(a)
      BY <2>3
    <3>2. PICK b \in E : b.path[1] = c /\ y = Rest(b)
      BY <2>3
    <3> HIDE DEF Rest
    <3>3. a # b /\ Conflicting(a.path, b.path)
      BY <1>2, <3>1, <3>2
    <3> QED BY <3>3 DEF Sound, NoConflicts
  <2> QED BY <2>4, <2>5, <2>6 DEF Sound
<1> QED BY <1>3, <1>4

\* A sound set with the root in it has only the root.
LEMMA RootIsAlone ==
  ASSUME NEW parts, NEW n \in Nat, NEW values, NEW E \in SUBSET EntriesOver(parts, n, values),
         IsRoot(E), Sound(E)
  PROVE  \E e \in E : E = {e} /\ e = Lead(e.value) /\ e.value \in values /\ e.value.items = <<>>
<1>1. PICK e \in E : e.path = <<>>
  BY DEF IsRoot
<1>2. e = Lead(e.value) /\ e.value \in values /\ e.value.items = <<>>
  <2>1. e = [path |-> e.path, value |-> e.value] /\ e.value \in values
    BY DEF EntriesOver
  <2> QED BY <1>1, <2>1 DEF Lead, Sound
<1>3. ASSUME NEW f \in E
      PROVE  f = e
  <2>1. f.path \in Seq(parts)
    BY DEF EntriesOver
  <2>2. IsPrefix(e.path, f.path)
    BY <1>1, <2>1, RootIsPrefix
  <2>3. Conflicting(e.path, f.path)
    BY <2>2 DEF Conflicting
  <2> QED BY <2>3 DEF Sound, NoConflicts
<1> QED BY <1>2, <1>3

\* Every entry is kept, and what comes in addition is null.
KeysKept(E, entries) == E \subseteq entries /\ \A e \in entries \ E : e.value = Null

LEMMA RootKept ==
  ASSUME NEW parts, NEW m \in Nat, NEW values, NEW R, Renders(R, EntriesOver(parts, m, values)),
         NEW E \in SUBSET EntriesOver(parts, m, values), IsRoot(E), Sound(E),
         NEW D, NEW L, LeadsAsTold(L, D)
  PROVE  R[E] \in values /\ (R[E] \in D => KeysKept(E, L[R[E]]))
<1>1. PICK e \in E : E = {e} /\ e = Lead(e.value) /\ e.value \in values /\ e.value.items = <<>>
  BY RootIsAlone
<1>2. R[E] = RenderOf(R, E)
  BY DEF Renders
<1>3. (CHOOSE x \in E : TRUE) = e
  BY <1>1
<1>4. R[E] = e.value
  BY <1>2, <1>3 DEF RenderOf
<1>5. ASSUME e.value \in D
      PROVE  L[e.value] = {Lead(e.value)}
  BY <1>1, <1>5 DEF LeadsAsTold, LeadsOf
<1> QED BY <1>1, <1>4, <1>5 DEF KeysKept

LEMMA MembersKept ==
  ASSUME NEW names, NEW d \in Nat, NEW D \in SUBSET Nesting(names)[d], Closed(D), NEW L, LeadsAsTold(L, D),
         NEW parts, NEW m \in Nat, NEW values, NEW E \in SUBSET EntriesOver(parts, m, values),
         E # {}, ~IsRoot(E), NEW R, NEW r \in D, RebuiltFrom(r, E, R),
         \A c \in First(E) : KeysKept(Under(E, c), L[R[Under(E, c)]])
  PROVE  KeysKept(E, L[r])
<1> DEFINE C(k) == Component(r, k)
           F == First(E)
           Rest(e) == [path |-> Tail(e.path), value |-> e.value]
<1>1. /\ \A c \in F : \E k \in DOMAIN r.items : C(k) = c
      /\ \A k \in DOMAIN r.items : r.items[k] = IF C(k) \in F THEN R[Under(E, C(k))] ELSE Null
  BY DEF RebuiltFrom, RebuiltItems
<1>2. PICK c0 \in F : TRUE
  BY FirstExists
<1>3. r.items # <<>>
  <2>1. \E k \in DOMAIN r.items : TRUE
    BY <1>1, <1>2
  <2> QED BY <2>1
<1>4. L[r] = UNION {{Entry(C(k), e) : e \in L[r.items[k]]} : k \in DOMAIN r.items}
  BY <1>3 DEF LeadsAsTold, LeadsOf
<1>5. ASSUME NEW e \in E
      PROVE  e.path[1] \in F /\ Rest(e) \in Under(E, e.path[1]) /\ Entry(e.path[1], Rest(e)) = e
  <2>1. e \in [path : Seq(parts), value : values] /\ e.path # <<>>
    BY DEF EntriesOver, IsRoot
  <2>2. Entry(e.path[1], Rest(e)) = e
    BY <2>1, EntryBack
  <2> QED BY <2>2 DEF First, Under
<1> HIDE DEF F, C
<1>6. ASSUME NEW e \in E
      PROVE  e \in L[r]
  <2> DEFINE c == e.path[1]
             x == Rest(e)
  <2>1. c \in F /\ x \in Under(E, c) /\ Entry(c, x) = e
    BY <1>5
  <2> HIDE DEF c, x
  <2>2. PICK k \in DOMAIN r.items : C(k) = c
    BY <1>1, <2>1
  <2>3. x \in L[r.items[k]]
    BY <1>1, <2>1, <2>2 DEF KeysKept, F
  <2> QED BY <1>4, <2>1, <2>2, <2>3
<1>7. ASSUME NEW f \in L[r], f \notin E
      PROVE  f.value = Null
  <2>1. PICK k \in DOMAIN r.items : \E e \in L[r.items[k]] : f = Entry(C(k), e)
    BY <1>4
  <2>2. PICK e \in L[r.items[k]] : f = Entry(C(k), e)
    BY <2>1
  <2>3. f.value = e.value
    BY <2>2 DEF Entry
  <2>4. CASE C(k) \in F
    <3>1. e \in L[R[Under(E, C(k))]]
      BY <1>1, <2>4
    <3>2. e \notin Under(E, C(k))
      <4> SUFFICES ASSUME e \in Under(E, C(k))
                   PROVE  FALSE
        OBVIOUS
      <4>1. PICK x \in E : x.path[1] = C(k) /\ e = Rest(x)
        BY DEF Under
      <4> HIDE DEF Rest
      <4>2. Entry(C(k), e) = x
        BY <1>5, <4>1
      <4> QED BY <1>7, <2>2, <4>2
    <3> QED BY <2>3, <2>4, <3>1, <3>2 DEF KeysKept, F
  <2>5. CASE C(k) \notin F
    <3>1. r.items[k] = Null /\ Null \in D /\ Null.items = <<>>
      BY <1>1, <2>5 DEF Closed, Null, Atom
    <3>2. L[Null] = {Lead(Null)}
      BY <3>1 DEF LeadsAsTold, LeadsOf
    <3> QED BY <2>3, <3>1, <3>2 DEF Lead
  <2> QED BY <2>4, <2>5
<1> QED BY <1>6, <1>7 DEF KeysKept

LEMMA RenderedKept ==
  ASSUME NEW names, NEW d \in Nat, NEW D \in SUBSET Nesting(names)[d], Closed(D), NEW L, LeadsAsTold(L, D),
         NEW parts \in SUBSET ComponentsOver(names), IsFiniteSet(parts), NEW m \in Nat, NEW values,
         NEW R, Renders(R, EntriesOver(parts, m, values)),
         NEW G \in SUBSET EntriesOver(parts, m, values), G # {}, Sound(G), R[G] \in D
  PROVE  KeysKept(G, L[R[G]])
<1> DEFINE W(n) == EntriesOver(parts, n, values)
           A == {n \in Nat : \A E \in SUBSET W(m) :
                               E \in SUBSET W(n) /\ E # {} /\ Sound(E) /\ R[E] \in D => KeysKept(E, L[R[E]])}
<1>1. 0 \in A
  <2> SUFFICES ASSUME NEW E \in SUBSET W(m), E \in SUBSET W(0), E # {}, Sound(E), R[E] \in D
               PROVE  KeysKept(E, L[R[E]])
    OBVIOUS
  <2>1. IsRoot(E)
    <3>1. PICK e \in E : TRUE
      OBVIOUS
    <3>2. e.path \in Seq(parts) /\ Len(e.path) <= 0
      BY DEF EntriesOver
    <3> QED BY <3>2 DEF IsRoot
  <2> QED BY <2>1, RootKept
<1>2. ASSUME NEW n \in A
      PROVE  n + 1 \in A
  <2>1. n \in Nat /\ n + 1 \in Nat
    OBVIOUS
  <2> SUFFICES ASSUME NEW E \in SUBSET W(m), E \in SUBSET W(n + 1), E # {}, Sound(E), R[E] \in D
               PROVE  KeysKept(E, L[R[E]])
    BY <2>1
  <2>2. CASE IsRoot(E)
    BY <2>2, RootKept
  <2>3. CASE ~IsRoot(E)
    <3>1. SameKind(E) /\ \A c \in First(E) : Sound(Under(E, c)) /\ Under(E, c) # {}
      BY <2>3, UnderIsSound
    <3>2. First(E) \subseteq parts
      <4> SUFFICES ASSUME NEW e \in E
                   PROVE  e.path[1] \in parts
        BY DEF First
      <4>1. e.path \in Seq(parts) /\ e.path # <<>>
        BY <2>3 DEF EntriesOver, IsRoot
      <4> QED BY <4>1
    <3>3. First(E) \subseteq ComponentsOver(names) /\ IsFiniteSet(First(E))
      BY <3>2, FS_Subset
    <3>4. RebuiltFrom(R[E], E, R)
      <4> DEFINE Z == W(m)
      <4>1. Renders(R, Z) /\ E \in SUBSET Z
        OBVIOUS
      <4> HIDE DEF Z
      <4> QED BY <2>3, <3>1, <3>3, <4>1, Rebuilt
    <3>5. ASSUME NEW c \in First(E)
          PROVE  KeysKept(Under(E, c), L[R[Under(E, c)]])
      <4>1. R[Under(E, c)] \in D
        <5>1. PICK k \in DOMAIN R[E].items : Component(R[E], k) = c
          BY <3>4 DEF RebuiltFrom
        <5>2. R[E].items[k] = R[Under(E, c)]
          BY <3>4, <5>1 DEF RebuiltFrom, RebuiltItems
        <5> QED BY <5>2 DEF Closed, Members
      <4>2. Under(E, c) \in SUBSET W(n)
        BY <2>1, <2>3, UnderIsShorter
      <4>3. Under(E, c) \in SUBSET W(m)
        <5>1. E \in SUBSET W(m + 1)
          <6>1. \A p \in Seq(parts) : Len(p) <= m => Len(p) <= m + 1
            OBVIOUS
          <6> QED BY <6>1 DEF EntriesOver
        <5> QED BY <2>3, <5>1, UnderIsShorter
      <4> HIDE DEF W
      <4> QED BY <2>1, <3>1, <4>1, <4>2, <4>3
    <3> HIDE DEF A
    <3> QED BY <2>3, <3>4, <3>5, MembersKept
  <2> QED BY <2>2, <2>3
<1>3. A = Nat
  <2>1. A \subseteq Nat
    OBVIOUS
  <2> HIDE DEF A
  <2> QED BY <1>1, <1>2, <2>1, NatsAll
<1>4. m \in A
  <2> HIDE DEF A
  <2> QED BY <1>3
<1> QED BY <1>4

\* What is rendered of entries has the members that are rendered of fewer.
RenderedOver(r, X, parts) ==
  \/ \E keys : \E f \in [keys -> X] : r = Object(f) /\ \A k \in keys : Key(k) \in parts
  \/ \E s \in Seq(X) : r = List(s) /\ Item(Len(s)) \in parts

LEMMA RebuiltOver ==
  ASSUME NEW r, NEW E, NEW R, RebuiltFrom(r, E, R), NEW parts, First(E) \subseteq parts,
         NEW X, Null \in X, \A c \in First(E) : R[Under(E, c)] \in X
  PROVE  RenderedOver(r, X, parts)
<1>1. \A k \in DOMAIN r.items : r.items[k] \in X
  BY DEF RebuiltFrom, RebuiltItems
<1>2. CASE r.kind = "object"
  <2> DEFINE f == r.items
             keys == DOMAIN r.items
  <2>1. f = [k \in keys |-> f[k]] /\ \A k \in keys : Component(r, k) \in parts
    BY <1>2 DEF RebuiltFrom
  <2>2. f \in [keys -> X]
    BY <1>1, <2>1
  <2>3. \A k \in keys : Key(k) \in parts
    BY <1>2, <2>1, ComponentsAre
  <2>4. r = Object(f)
    BY <1>2 DEF RebuiltFrom, Object
  <2> HIDE DEF f, keys
  <2> QED BY <2>2, <2>3, <2>4, Zenon DEF RenderedOver
<1>3. CASE r.kind = "list"
  <2> DEFINE s == r.items
  <2>1. PICK n \in Nat \ {0} : s = [i \in 1..n |-> s[i]] /\ Component(r, n) \in First(E)
    BY <1>3 DEF RebuiltFrom
  <2>2. DOMAIN s = 1..n
    BY <2>1
  <2>3. s \in Seq(X) /\ Len(s) = n
    <3>1. s \in [1..n -> X]
      BY <1>1, <2>1, <2>2
    <3> QED BY <3>1
  <2>4. Item(n) \in parts
    BY <1>3, <2>1, ComponentsAre
  <2>5. r = List(s)
    BY <1>3 DEF RebuiltFrom, List
  <2> HIDE DEF s
  <2> QED BY <2>3, <2>4, <2>5 DEF RenderedOver
<1> QED BY <1>2, <1>3 DEF RebuiltFrom

\* One level of what is rendered: the root's value, or what is over the level
\* below.
LEMMA RenderedLevel ==
  ASSUME NEW names, NEW parts \in SUBSET ComponentsOver(names), IsFiniteSet(parts), NEW m \in Nat, NEW values,
         NEW R, Renders(R, EntriesOver(parts, m, values)),
         NEW n \in Nat, NEW E \in SUBSET EntriesOver(parts, m, values), E \in SUBSET EntriesOver(parts, n + 1, values),
         E # {}, Sound(E), NEW X, Null \in X,
         \A F \in SUBSET EntriesOver(parts, m, values) :
           F \in SUBSET EntriesOver(parts, n, values) /\ F # {} /\ Sound(F) => R[F] \in X
  PROVE  R[E] \in values \/ RenderedOver(R[E], X, parts)
<1> DEFINE W(k) == EntriesOver(parts, k, values)
<1>1. CASE IsRoot(E)
  <2> DEFINE D == {}
             L == <<>>
  <2>1. LeadsAsTold(L, D)
    BY DEF LeadsAsTold
  <2> HIDE DEF D, L
  <2> QED BY <1>1, <2>1, RootKept
<1>2. CASE ~IsRoot(E)
  <2>1. SameKind(E) /\ \A c \in First(E) : Sound(Under(E, c)) /\ Under(E, c) # {}
    BY <1>2, UnderIsSound
  <2>2. First(E) \subseteq parts
    <3> SUFFICES ASSUME NEW e \in E
                 PROVE  e.path[1] \in parts
      BY DEF First
    <3>1. e.path \in Seq(parts) /\ e.path # <<>>
      BY <1>2 DEF EntriesOver, IsRoot
    <3> QED BY <3>1
  <2>3. First(E) \subseteq ComponentsOver(names) /\ IsFiniteSet(First(E))
    BY <2>2, FS_Subset
  <2>4. RebuiltFrom(R[E], E, R)
    <3> DEFINE Z == W(m)
    <3>1. Renders(R, Z) /\ E \in SUBSET Z
      OBVIOUS
    <3> HIDE DEF Z
    <3> QED BY <1>2, <2>1, <2>3, <3>1, Rebuilt
  <2>5. ASSUME NEW c \in First(E)
        PROVE  R[Under(E, c)] \in X
    <3>1. Under(E, c) \in SUBSET W(n)
      BY <1>2, UnderIsShorter
    <3>2. Under(E, c) \in SUBSET W(m)
      <4>1. E \in SUBSET W(m + 1)
        <5>1. \A p \in Seq(parts) : Len(p) <= m => Len(p) <= m + 1
          OBVIOUS
        <5> QED BY <5>1 DEF EntriesOver
      <4> QED BY <1>2, <4>1, UnderIsShorter
    <3> HIDE DEF W
    <3> QED BY <2>1, <3>1, <3>2 DEF W
  <2>6. RenderedOver(R[E], X, parts)
    BY <2>2, <2>4, <2>5, RebuiltOver
  <2> QED BY <2>6
<1> QED BY <1>1, <1>2

\* Entries of no components are roots.
LEMMA RootsOnly ==
  ASSUME NEW parts, NEW m \in Nat, NEW values, NEW R, Renders(R, EntriesOver(parts, m, values)),
         NEW E \in SUBSET EntriesOver(parts, m, values), E \in SUBSET EntriesOver(parts, 0, values),
         E # {}, Sound(E)
  PROVE  R[E] \in values
<1>1. IsRoot(E)
  <2>1. PICK e \in E : TRUE
    OBVIOUS
  <2>2. e.path \in Seq(parts) /\ Len(e.path) <= 0
    BY DEF EntriesOver
  <2> QED BY <2>2 DEF IsRoot
<1> DEFINE D == {}
           L == <<>>
<1>2. LeadsAsTold(L, D)
  BY DEF LeadsAsTold
<1> HIDE DEF D, L
<1> QED BY <1>1, <1>2, RootKept

LEMMA RenderedIsOver ==
  ASSUME NEW r, NEW X, NEW names, NEW parts \in SUBSET ComponentsOver(names), RenderedOver(r, X, parts)
  PROVE  r \in Over(X, names)
<1>1. ASSUME NEW keys, NEW f \in [keys -> X], r = Object(f), \A k \in keys : Key(k) \in parts
      PROVE  r \in Over(X, names)
  <2>1. \A k \in keys : k \in names
    BY <1>1 DEF ComponentsOver, Key
  <2>2. keys \in SUBSET names
    BY <2>1
  <2> QED BY <1>1, <2>2, ObjectIsOver
<1>2. ASSUME NEW s \in Seq(X), r = List(s)
      PROVE  r \in Over(X, names)
  BY <1>2, ListIsOver
<1> QED BY <1>1, <1>2 DEF RenderedOver

LEMMA RenderedNested ==
  ASSUME NEW names, NEW parts \in SUBSET ComponentsOver(names), IsFiniteSet(parts), NEW m \in Nat,
         NEW values \in SUBSET Nesting(names)[1],
         NEW R, Renders(R, EntriesOver(parts, m, values)),
         NEW G \in SUBSET EntriesOver(parts, m, values), G # {}, Sound(G)
  PROVE  R[G] \in Nesting(names)[m + 1]
<1> DEFINE N == Nesting(names)
           W(n) == EntriesOver(parts, n, values)
           A == {n \in Nat : \A E \in SUBSET W(m) :
                               E \in SUBSET W(n) /\ E # {} /\ Sound(E) => R[E] \in N[n + 1]}
<1>1. 0 \in A
  <2> SUFFICES ASSUME NEW E \in SUBSET W(m), E \in SUBSET W(0), E # {}, Sound(E)
               PROVE  R[E] \in N[0 + 1]
    OBVIOUS
  <2>1. R[E] \in values
    BY RootsOnly
  <2> QED BY <2>1
<1>2. ASSUME NEW n \in A
      PROVE  n + 1 \in A
  <2>1. n \in Nat /\ n + 1 \in Nat /\ 0 \in Nat /\ 0 <= n
    OBVIOUS
  <2> SUFFICES ASSUME NEW E \in SUBSET W(m), E \in SUBSET W(n + 1), E # {}, Sound(E)
               PROVE  R[E] \in N[n + 1 + 1]
    BY <2>1
  <2> DEFINE X == N[n + 1]
  <2>2. \A F \in SUBSET W(m) : F \in SUBSET W(n) /\ F # {} /\ Sound(F) => R[F] \in X
    OBVIOUS
  <2>3. N[1] \subseteq X /\ X \subseteq N[n + 1 + 1]
    <3>1. 1 \in Nat /\ 1 <= n + 1 /\ n + 1 \in Nat
      BY <2>1
    <3> QED BY <3>1, NestingGrows, NestingIs
  <2>4. Null \in X
    <3>1. N[0 + 1] = Over(N[0], names) /\ 0 \in Int
      BY <2>1, NestingIs
    <3>2. Null \in N[0 + 1]
      <4>1. Atom(0) \in Over(N[0], names)
        BY <3>1, AtomIsOver
      <4> QED BY <3>1, <4>1 DEF Null
    <3> QED BY <2>3, <3>2
  <2>5. N[n + 1 + 1] = Over(X, names)
    BY <2>1, NestingIs
  <2> HIDE DEF X, N, A
  <2>6. R[E] \in values \/ RenderedOver(R[E], X, parts)
    BY <2>1, <2>2, <2>4, RenderedLevel
  <2>7. RenderedOver(R[E], X, parts) => R[E] \in Over(X, names)
    BY RenderedIsOver
  <2> QED BY <2>3, <2>5, <2>6, <2>7 DEF N
<1>3. A = Nat
  <2>1. A \subseteq Nat
    OBVIOUS
  <2> HIDE DEF A
  <2> QED BY <1>1, <1>2, <2>1, NatsAll
<1>4. m \in A
  <2> HIDE DEF A
  <2> QED BY <1>3
<1> QED BY <1>4

\* Keys are kept by a document that is rendered of them, none of which is the root.
KeysAreBack(E, L, R) == KeysKept(E, BelowRoot(L[R[E]]))

LEMMA KeyedKept ==
  ASSUME NEW E, NEW entries, ~IsRoot(E), KeysKept(E, entries)
  PROVE  KeysKept(E, BelowRoot(entries))
BY DEF KeysKept, BelowRoot, IsRoot

LEMMA NothingKept ==
  ASSUME NEW R, NEW W, Renders(R, W), NEW L, NEW D, LeadsAsTold(L, D), R[{}] \in D
  PROVE  R[{}] = Object(<<>>) /\ KeysAreBack({}, L, R)
<1>1. R[{}] = Object(<<>>)
  <2>1. {} \in SUBSET W
    OBVIOUS
  <2>2. R[{}] = RenderOf(R, {})
    BY <2>1 DEF Renders
  <2> QED BY <2>2 DEF RenderOf
<1>2. Object(<<>>).items = <<>>
  BY DEF Object
<1>3. L[R[{}]] = {Lead(Object(<<>>))}
  BY <1>1, <1>2 DEF LeadsAsTold, LeadsOf
<1>4. BelowRoot(L[R[{}]]) = {}
  BY <1>3 DEF BelowRoot, Lead
<1> QED BY <1>1, <1>4 DEF KeysAreBack, KeysKept

\* The components of keys that are not refused have names.
LEMMA RenderedHasNames ==
  ASSUME NEW names, NEW parts \in SUBSET ComponentsOver(names), NEW m \in Nat, NEW values,
         NEW R, Renders(R, EntriesOver(parts, m, values)), Blank \notin Nat,
         NEW E \in SUBSET EntriesOver(parts, m, values), ~IsRoot(E), \A e \in E : ~Refused(e.path)
  PROVE  ~HasBlank(R[E])
<1>1. R[E] = RenderOf(R, E)
  BY DEF Renders
<1>2. CASE E = {}
  <2>1. R[E] = Object(<<>>)
    BY <1>1, <1>2 DEF RenderOf
  <2> DEFINE empty == <<>>
  <2>2. R[E].items = empty
    BY <2>1, ObjectIs
  <2>3. DOMAIN empty = {}
    OBVIOUS
  <2> HIDE DEF empty
  <2> QED BY <2>2, <2>3 DEF HasBlank
<1>3. CASE E # {} /\ \E c \in First(E) : c.kind = "object"
  <2> DEFINE tokens == {c.token : c \in First(E)}
             f == [k \in tokens |-> R[Under(E, Key(k))]]
  <2>1. R[E] = Object(f)
    BY <1>1, <1>3 DEF RenderOf
  <2>2. DOMAIN R[E].items = tokens
    <3>1. DOMAIN f = tokens
      OBVIOUS
    <3> HIDE DEF f
    <3>2. R[E].items = f
      BY <2>1, ObjectIs
    <3> QED BY <3>1, <3>2
  <2>3. ASSUME NEW c \in First(E), c.token = Blank
        PROVE  FALSE
    <3>1. PICK e \in E : c = e.path[1]
      BY DEF First
    <3>2. e.path \in Seq(parts) /\ e.path # <<>>
      BY <3>1 DEF EntriesOver, IsRoot
    <3>3. 1 \in DOMAIN e.path /\ c \in ComponentsOver(names)
      BY <3>1, <3>2
    <3>4. c.kind = "object"
      BY <2>3, <3>3 DEF ComponentsOver
    <3>5. IsBlankPart(e.path[1])
      BY <2>3, <3>1, <3>4 DEF IsBlankPart
    <3> QED BY <3>3, <3>5, Zenon DEF Refused
  <2>4. Blank \notin tokens
    BY <2>3
  <2> QED BY <2>2, <2>4 DEF HasBlank
<1>4. CASE E # {} /\ ~\E c \in First(E) : c.kind = "object"
  <2>1. \E s : R[E] = List(s)
    BY <1>1, <1>4 DEF RenderOf
  <2>2. R[E].kind = "list"
    BY <2>1, ListIs
  <2> QED BY <2>2 DEF HasBlank
<1> QED BY <1>2, <1>3, <1>4

\* Flat keys that are neither refused nor in conflict are the keys of the
\* document rendered of them, with their values, and what is there in addition
\* is null: for keys of any length over any finite set of components
\* (json_unflatten, json_flatten).
THEOREM UnflattenedIsKept ==
  ASSUME NEW names, NEW parts \in SUBSET ComponentsOver(names), IsFiniteSet(parts), NEW m \in Nat,
         NEW values \in SUBSET Nesting(names)[1], NEW R, AreRenderings(R, EntriesOver(parts, m, values)),
         NEW L, AreLeads(L, Nesting(names)[m + 1]),
         NEW E \in SUBSET EntriesOver(parts, m, values),
         UnflattenedBy(R, E) # None
  PROVE  R[E] \in Nesting(names)[m + 1] /\ ~HasBlank(R[E]) /\ KeysAreBack(E, L, R)
<1> DEFINE N == Nesting(names)
           D == N[m + 1]
<1>1. Renders(R, EntriesOver(parts, m, values)) /\ LeadsAsTold(L, D)
  BY RendersAre, LeadsFlatten
<1>6. (\A e \in E : ~Refused(e.path)) /\ NoConflicts(E)
  BY Zenon DEF UnflattenedBy
<1>7. ~IsRoot(E)
  BY <1>6, Zenon DEF IsRoot, Refused
<1>8. ~HasBlank(R[E])
  BY <1>1, <1>6, <1>7, RenderedHasNames DEF Blank
<1>2. m + 1 \in Nat /\ m + 1 \in Nat \ {0} /\ 0 \in Nat
  OBVIOUS
<1>3. Closed(D) /\ D \in SUBSET N[m + 1]
  BY <1>2, NestingIsClosed
<1>4. CASE E = {}
  <2>1. Object(<<>>) \in D
    <3>1. D = Over(N[m], names)
      BY NestingIs
    <3> DEFINE X == N[m]
               keys == {}
               f == <<>>
    <3>2. keys \in SUBSET names /\ f \in [keys -> X]
      OBVIOUS
    <3> HIDE DEF X, keys, f
    <3>3. Object(f) \in Over(X, names)
      BY <3>2, ObjectIsOver
    <3> QED BY <3>1, <3>3 DEF f, X
  <2>2. R[{}] = Object(<<>>)
    <3>1. {} \in SUBSET EntriesOver(parts, m, values)
      OBVIOUS
    <3>2. R[{}] = RenderOf(R, {})
      BY <1>1, <3>1 DEF Renders
    <3> QED BY <3>2 DEF RenderOf
  <2> HIDE DEF D
  <2>3. KeysAreBack({}, L, R)
    BY <1>1, <2>1, <2>2, NothingKept
  <2> QED BY <1>4, <1>8, <2>1, <2>2, <2>3 DEF D
<1>5. CASE E # {}
  <2>1. \A v \in values : v.items = <<>>
    <3> SUFFICES ASSUME NEW v \in values
                 PROVE  v.items = <<>>
      OBVIOUS
    <3>1. v \in N[0 + 1]
      OBVIOUS
    <3>2. Members(v, N[0]) /\ v \in Over(N[0], names)
      BY <1>2, <3>1, ShallowerMembers
    <3>3. N[0] = {}
      BY NestingIs
    <3> HIDE DEF N
    <3>4. ~\E k \in DOMAIN v.items : TRUE
      BY <3>2, <3>3 DEF Members
    <3> QED BY <3>2, <3>4, NoItems
  <2>2. Sound(E)
    BY <1>6, <2>1 DEF Sound, EntriesOver
  <2>3. R[E] \in D
    BY <1>1, <1>5, <2>2, RenderedNested
  <2>4. KeysKept(E, L[R[E]])
    <3> HIDE DEF D
    <3> QED BY <1>1, <1>2, <1>3, <1>5, <2>2, <2>3, RenderedKept
  <2> QED BY <1>7, <1>8, <2>3, <2>4, KeyedKept DEF KeysAreBack
<1> QED BY <1>4, <1>5

\* The documents that are flattened and rebuilt.
LEMMA MapsAre ==
  ASSUME NEW members
  PROVE  MapsTo(members) = UNION {[keys -> members] : keys \in SUBSET Names}
<1>1. \A keys : keys \in SUBSET Names <=>
        keys \in {{}, {0}, {Name}, {Blank}, {0, Name}, {0, Blank}, {Name, Blank}, Names}
  BY DEF Names
<1> HIDE DEF Names
<1>2. \A f : f \in MapsTo(members) <=> \E keys \in SUBSET Names : f \in [keys -> members]
  BY <1>1, Zenon DEF MapsTo
<1> QED BY <1>2

LEMMA NestedIs ==
  Nested = Nesting(Names)[4]
<1> DEFINE N == Nesting(Names)
<1>1. \A members : Deeper(members) = Over(members, Names)
  BY MapsAre DEF Deeper, Over
<1>2. N[0] = {} /\ \A n \in Nat : N[n + 1] = Over(N[n], Names)
  BY NestingIs
<1> HIDE DEF N
<1>3. /\ N[0 + 1] = Over(N[0], Names) /\ N[1 + 1] = Over(N[1], Names)
      /\ N[2 + 1] = Over(N[2], Names) /\ N[3 + 1] = Over(N[3], Names)
  BY <1>2
<1>4. 0 + 1 = 1 /\ 1 + 1 = 2 /\ 2 + 1 = 3 /\ 3 + 1 = 4
  OBVIOUS
<1>5. N[4] = Over(Over(Over(Over({}, Names), Names), Names), Names)
  BY <1>2, <1>3, <1>4
<1> QED BY <1>1, <1>5 DEF Nested, N

LEMMA NestedOver ==
  /\ 4 \in Nat /\ Nested \in SUBSET Nesting(Names)[4] /\ Closed(Nested)
  /\ Documents \cup Blanks \subseteq Nested /\ Atom(1) \in Nesting(Names)[1]
<1> DEFINE N == Nesting(Names)
<1>1. /\ Documents \subseteq N[3] /\ Leaves \subseteq N[2] /\ Atom(1) \in N[1]
  <2>1. {0, Name} \subseteq Names
    BY DEF Names
  <2> QED BY <2>1, DocumentsNestOver
<1>2. N[1 + 1] = Over(N[1], Names) /\ N[2 + 1] = Over(N[2], Names) /\ N[3] \subseteq N[3 + 1]
  BY NestingIs
<1>3. 1 + 1 = 2 /\ 2 + 1 = 3 /\ 3 + 1 = 4 /\ 4 \in Nat /\ 4 \in Nat \ {0}
  OBVIOUS
<1>4. Closed(N[4])
  BY <1>3, NestingIsClosed
<1> HIDE DEF N
<1>5. Blanks \subseteq N[3]
  <2> DEFINE g == [k \in {Blank} |-> Atom(1)]
             X == Leaves \cup {Object(g)}
  <2>1. {Blank} \in SUBSET Names /\ {Name, Blank} \subseteq Names
    BY DEF Names
  <2>2. g \in [{Blank} -> N[1]]
    BY <1>1
  <2> HIDE DEF g
  <2>3. Object(g) \in N[2]
    BY <1>2, <1>3, <2>1, <2>2, ObjectIsOver
  <2>4. X \subseteq N[2]
    BY <1>1, <2>3
  <2> SUFFICES ASSUME NEW v \in Blanks
               PROVE  v \in N[3]
    OBVIOUS
  <2>5. PICK keys \in SUBSET {Name, Blank} : \E f \in [keys -> X] : v = Object(f)
    BY Zenon DEF Blanks, X, g
  <2>6. PICK f \in [keys -> X] : v = Object(f)
    BY <2>5
  <2> HIDE DEF X
  <2>7. f \in [keys -> N[2]] /\ keys \in SUBSET Names
    BY <2>1, <2>4
  <2>8. v \in Over(N[2], Names)
    BY <2>6, <2>7, ObjectIsOver
  <2> QED BY <1>2, <1>3, <2>8
<1> QED BY <1>1, <1>2, <1>3, <1>4, <1>5, NestedIs DEF N

LEMMA LeadsIs ==
  LeadsAsTold(Leads, Nested)
<1>1. Leads = CHOOSE L : AreLeads(L, Nested)
  BY Zenon DEF Leads, AreLeads, LeadsOf, Lead, Entry, Component, Token
<1>2. \E L : AreLeads(L, Nested)
  BY NestedOver, LeadsExist
<1>3. AreLeads(Leads, Nested)
  BY <1>1, <1>2, Zenon
<1> QED BY <1>3, LeadsFlatten

\* A document without an empty name at its root has one flattening.
LEMMA FlatteningIs ==
  ASSUME NEW doc, ~HasBlank(doc)
  PROVE  Flattenings(doc) = {BelowRoot(Leads[doc])} /\ Keyed(doc) = BelowRoot(Leads[doc])
BY Zenon DEF Flattenings, Keyed, BelowRoot

\* What is flattened is rebuilt.
LEMMA DocumentsFlattened ==
  ASSUME NEW doc \in Documents \cup Blanks, NEW entries \in Flattenings(doc)
  PROVE  FlattenKeepsDocument(doc, entries)
<1> SUFFICES ASSUME ~HasBlank(doc)
             PROVE  FlattenKeepsDocument(doc, entries)
  BY Zenon DEF FlattenKeepsDocument
<1> DEFINE parts == ComponentsOver(Names)
<1>1. 4 \in Nat /\ 4 <= 4 /\ 4 \in Nat \ {0} /\ parts \in SUBSET parts
  OBVIOUS
<1>2. doc \in Nested /\ Nested \in SUBSET Nesting(Names)[4] /\ Closed(Nested) /\ Nested \subseteq Nested
  BY NestedOver
<1>3. LeadsAsTold(Leads, Nested)
  BY LeadsIs
<1>4. Renders(Render, EntriesOver(parts, 4, Nested))
  BY RenderIs DEF Entries
<1>5. PartsOf(Nested, parts)
  BY <1>1, <1>2, PartsAreOver
<1> HIDE DEF parts
<1>6. parts \in SUBSET ComponentsOver(Names)
  BY DEF parts
<1>7. RebuiltAs(doc, BelowRoot(Leads[doc]), Render)
  BY <1>1, <1>2, <1>3, <1>4, <1>5, <1>6, KeysRendered
<1>8. entries = BelowRoot(Leads[doc]) /\ Keyed(doc) = BelowRoot(Leads[doc])
  BY FlatteningIs
<1>9. NoConflicts(entries)
        /\ Render[entries] = IF doc.kind = "object" \/ doc.items # <<>> THEN doc ELSE Object(<<>>)
  BY <1>7, <1>8 DEF RebuiltAs
<1>10. Unflatten(entries) = IF \E entry \in entries : Refused(entry.path) THEN None ELSE Render[entries]
  BY <1>9, Zenon DEF Unflatten, NoConflicts
<1>11. Unflatten(entries) = IF \E entry \in Keyed(doc) : Refused(entry.path) THEN None ELSE Render[entries]
  BY <1>8, <1>10
<1> QED BY <1>9, <1>11, Zenon DEF FlattenKeepsDocument

\* What is rebuilt of keys has them.
KeyedBy(keys) == \E parts \in SUBSET ComponentsOver(Names) : IsFiniteSet(parts) /\ keys \in SUBSET SeqsUpTo(parts, 3)

LEMMA KeysUnflattened ==
  ASSUME NEW keys, KeyedBy(keys)
  PROVE  UnflattenKeepsKeys(KeyEntries(keys), Unflatten(KeyEntries(keys)))
<1> DEFINE E == KeyEntries(keys)
           V == {Atom(1)}
<1>1. PICK parts \in SUBSET ComponentsOver(Names) : IsFiniteSet(parts) /\ keys \in SUBSET SeqsUpTo(parts, 3)
  BY DEF KeyedBy
<1> DEFINE W == EntriesOver(parts, 3, V)
<1>2. 3 \in Nat /\ 4 \in Nat /\ 3 + 1 = 4 /\ 1 \in Nat /\ 1 <= 4
  OBVIOUS
<1>3. \A p \in keys : p \in Seq(parts) /\ Len(p) <= 3
  BY <1>1, <1>2, SequencesUpTo
<1>4. E \in SUBSET W
  BY <1>3 DEF EntriesOver, KeyEntries
<1>5. \A e \in E : e.value.items = <<>>
  BY DEF Atom, KeyEntries
<1>6. V \in SUBSET Nesting(Names)[1] /\ V \subseteq Nested
  <2>1. Atom(1) \in Nesting(Names)[1]
    BY NestedOver
  <2>2. Nesting(Names)[1] \subseteq Nesting(Names)[4]
    BY <1>2, NestingGrows
  <2> QED BY <2>1, <2>2, NestedIs
<1>7. Renders(Render, W)
  <2>1. W \subseteq Entries
    <3>1. \A p \in Seq(parts) : Len(p) <= 3 => p \in Seq(ComponentsOver(Names)) /\ Len(p) <= 4
      BY <1>1
    <3> QED BY <1>6, <3>1 DEF EntriesOver, Entries
  <2> HIDE DEF W
  <2> QED BY <2>1, RenderIs DEF Renders
<1> HIDE DEF E, V, W
<1>8. CASE Unflatten(E) = None
  BY <1>8 DEF UnflattenKeepsKeys, E
<1>9. CASE Unflatten(E) # None
  <2> DEFINE r == Render[E]
  <2>1. NoConflicts(E) /\ (\A e \in E : ~Refused(e.path)) /\ Unflatten(E) = r
    BY <1>9, Zenon DEF Unflatten, NoConflicts
  <2>2. ~IsRoot(E)
    BY <2>1, Zenon DEF IsRoot, Refused
  <2>3. ~HasBlank(r)
    BY <1>1, <1>2, <1>4, <1>7, <2>1, <2>2, RenderedHasNames DEF W, Blank
  <2>4. LeadsAsTold(Leads, Nested) /\ Nested \in SUBSET Nesting(Names)[4] /\ Closed(Nested)
    BY LeadsIs, NestedOver
  <2>5. KeysAreBack(E, Leads, Render)
    <3>1. CASE E = {}
      <4>1. Render[{}] \in Nested
        <5>1. {} \in SUBSET W
          OBVIOUS
        <5>2. Render[{}] = RenderOf(Render, {})
          BY <1>7, <5>1 DEF Renders
        <5>3. Render[{}] = Object(<<>>)
          BY <5>2 DEF RenderOf
        <5>4. Object(<<>>) \in Leaves
          BY DEF Leaves
        <5> QED BY <5>3, <5>4, DocumentsAreNested, NestedOver
      <4> QED BY <1>7, <2>4, <3>1, <4>1, NothingKept
    <3>2. CASE E # {}
      <4>1. Sound(E)
        BY <1>5, <2>1 DEF Sound
      <4>2. r \in Nested
        <5>1. r \in Nesting(Names)[3 + 1]
          BY <1>1, <1>2, <1>4, <1>6, <1>7, <3>2, <4>1, RenderedNested DEF W
        <5> QED BY <1>2, <5>1, NestedIs
      <4>3. KeysKept(E, Leads[Render[E]])
        BY <1>1, <1>2, <1>4, <1>7, <2>4, <3>2, <4>1, <4>2, RenderedKept DEF W
      <4> QED BY <2>2, <4>3, KeyedKept DEF KeysAreBack
    <3> QED BY <3>1, <3>2
  <2>6. Flattenings(r) = {BelowRoot(Leads[r])}
    BY <2>3, FlatteningIs
  <2>7. KeysKept(E, BelowRoot(Leads[r]))
    BY <2>5 DEF KeysAreBack
  <2> HIDE DEF r
  <2>8. UnflattenKeepsKeys(E, r)
    BY <2>6, <2>7 DEF KeysKept, UnflattenKeepsKeys
  <2> QED BY <2>1, <2>8 DEF E
<1> QED BY <1>8, <1>9
=============================================================================
