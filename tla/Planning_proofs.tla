---------------------------- MODULE Planning_proofs ----------------------------
(***************************************************************************)
(* The functions of Planning answer as their contracts say, for every      *)
(* number of steps and tags and every length of a text, list or table.     *)
(***************************************************************************)
EXTENDS Planning, JsonTools_proofs

-----------------------------------------------------------------------------
(* Gates *)

LEMMA Times ==
  ASSUME NEW a \in Int, NEW b \in Int, NEW d \in Nat \ {0}
  PROVE  (a * d <= b * d => a <= b) /\ (a <= b => a * d <= b * d)
BY Z3

\* A rounded quotient is at most half a ten-thousandth from the exact one.
LEMMA RoundedNear ==
  ASSUME NEW n \in Nat, NEW d \in Nat \ {0}, NEW q \in Rounded(n, d)
  PROVE  q \in Int /\ (2 * q - 1) * d <= 20000 * n /\ 20000 * n <= (2 * q + 1) * d
<1>1. q \in Int
  BY DEF Rounded
<1>2. /\ q * d \in Int /\ 2 * (q * d - 10000 * n) \in -d..d
      /\ (2 * q - 1) * d = 2 * (q * d) - d /\ (2 * q + 1) * d = 2 * (q * d) + d
  BY <1>1 DEF Rounded
<1> HIDE DEF Rounded
<1> DEFINE x == q * d
<1>3. x \in Int /\ 2 * (x - 10000 * n) \in -d..d
  BY <1>2
<1>4. (2 * q - 1) * d = 2 * x - d /\ (2 * q + 1) * d = 2 * x + d
  BY <1>2
<1> HIDE DEF x
<1>5. 2 * x - d <= 20000 * n /\ 20000 * n <= 2 * x + d
  BY <1>3
<1> QED BY <1>1, <1>4, <1>5

\* What a comparison of the rounded quotient says about the exact one.
LEMMA RoundedCompared ==
  ASSUME NEW n \in Nat, NEW d \in Nat \ {0}, NEW q \in Rounded(n, d), NEW l \in Int
  PROVE  /\ 20000 * n >= 2 * l * d => q >= l
         /\ q >= l => 20000 * n >= (2 * l - 1) * d
         /\ 20000 * n > (2 * l + 1) * d => q > l
         /\ q > l => 20000 * n > 2 * l * d
         /\ 20000 * n < (2 * l - 1) * d => q < l
         /\ q < l => 20000 * n < 2 * l * d
<1>1. q \in Int /\ (2 * q - 1) * d <= 20000 * n /\ 20000 * n <= (2 * q + 1) * d
  BY RoundedNear
<1>2. \A a, b \in Int : (a * d <= b * d => a <= b) /\ (a <= b => a * d <= b * d)
  BY Times
<1>3. \A a, b \in Int : a * d \in Int /\ (a < b => a * d < b * d)
  BY Z3
<1> DEFINE T(a) == a * d
           m == 20000 * n
<1>4. /\ m \in Int /\ \A a \in Int : T(a) \in Int
      /\ T(2 * q - 1) <= m /\ m <= T(2 * q + 1)
      /\ \A a, b \in Int : T(a) <= T(b) <=> a <= b
      /\ T(2 * l - 1) < T(2 * l) /\ T(2 * l) < T(2 * l + 1)
  BY <1>1, <1>2, <1>3
<1> HIDE DEF T, m
<1>5. /\ m >= T(2 * l) => q >= l
      /\ q >= l => m >= T(2 * l - 1)
  <2>1. T(2 * l) <= T(2 * q + 1) <=> 2 * l <= 2 * q + 1
    BY <1>1, <1>4
  <2>2. T(2 * l - 1) <= T(2 * q - 1) <=> 2 * l - 1 <= 2 * q - 1
    BY <1>1, <1>4
  <2>3. T(2 * l) \in Int /\ T(2 * q + 1) \in Int /\ T(2 * l - 1) \in Int /\ T(2 * q - 1) \in Int
    BY <1>1, <1>4
  <2> QED BY <1>1, <1>4, <2>1, <2>2, <2>3
<1>6. /\ m > T(2 * l + 1) => q > l
      /\ q > l => m > T(2 * l)
  <2>1. T(2 * q + 1) <= T(2 * l + 1) <=> 2 * q + 1 <= 2 * l + 1
    BY <1>1, <1>4
  <2>2. T(2 * l + 1) <= T(2 * q - 1) <=> 2 * l + 1 <= 2 * q - 1
    BY <1>1, <1>4
  <2>3. /\ T(2 * l) \in Int /\ T(2 * q + 1) \in Int
        /\ T(2 * l + 1) \in Int /\ T(2 * q - 1) \in Int
    BY <1>1, <1>4
  <2> QED BY <1>1, <1>4, <2>1, <2>2, <2>3
<1>7. /\ m < T(2 * l - 1) => q < l
      /\ q < l => m < T(2 * l)
  <2>1. T(2 * l - 1) <= T(2 * q - 1) <=> 2 * l - 1 <= 2 * q - 1
    BY <1>1, <1>4
  <2>2. T(2 * q + 1) <= T(2 * l - 1) <=> 2 * q + 1 <= 2 * l - 1
    BY <1>1, <1>4
  <2>3. /\ T(2 * l) \in Int /\ T(2 * q + 1) \in Int
        /\ T(2 * l - 1) \in Int /\ T(2 * q - 1) \in Int
    BY <1>1, <1>4
  <2> QED BY <1>1, <1>4, <2>1, <2>2, <2>3
<1> QED BY <1>5, <1>6, <1>7 DEF T, m

\* Every gate compares with its two limits in one of four ways.
Compares(g, grade, q) ==
  \/ g.up /\ ~g.inclusive /\ g.soft <= g.hard /\ grade = Above(q, g.soft, g.hard)
  \/ g.up /\ g.inclusive /\ g.soft <= g.hard /\ grade = Reached(q, g.soft, g.hard)
  \/ ~g.up /\ g.hard <= g.soft /\ grade = Below(q, g.soft, g.hard)
  \/ ~g.up /\ g.hard <= g.soft /\ grade = BelowFloor(q, g.soft, g.hard)

LEMMA GatesCompare ==
  ASSUME NEW g \in RatioGates, NEW q \in Int
  PROVE  g.soft \in Int /\ g.hard \in Int /\ Compares(g, GradeOf(g, q), q)
<1>1. CASE g.gate = "fan_in_skew"
  <2>1. g.up /\ ~g.inclusive /\ g.soft = 15000 /\ g.hard = 30000
    BY <1>1 DEF RatioGates
  <2>2. g.soft \in Int /\ g.hard \in Int /\ g.soft <= g.hard
    BY <2>1
  <2>3. GradeOf(g, q) = FanInSkewBandGuard(q)
    BY <1>1 DEF GradeOf
  <2>4. FanInSkewBandGuard(q) = Above(q, g.soft, g.hard)
    BY <2>1 DEF FanInSkewBandGuard
  <2>5. g.up /\ ~g.inclusive /\ GradeOf(g, q) = Above(q, g.soft, g.hard)
    BY <2>1, <2>3, <2>4
  <2> QED BY <2>2, <2>5, Zenon DEF Compares
<1>2. CASE g.gate = "latency_budget"
  <2>1. g.up /\ ~g.inclusive /\ g.soft = 8000 /\ g.hard = 10000
    BY <1>2 DEF RatioGates
  <2>2. g.soft \in Int /\ g.hard \in Int /\ g.soft <= g.hard
    BY <2>1
  <2>3. GradeOf(g, q) = MultiBotLatencyBudgetAllocator(q)
    BY <1>2 DEF GradeOf
  <2>4. MultiBotLatencyBudgetAllocator(q) = Above(q, g.soft, g.hard)
    BY <2>1 DEF MultiBotLatencyBudgetAllocator
  <2>5. g.up /\ ~g.inclusive /\ GradeOf(g, q) = Above(q, g.soft, g.hard)
    BY <2>1, <2>3, <2>4
  <2> QED BY <2>2, <2>5, Zenon DEF Compares
<1>3. CASE g.gate = "critic_timeout"
  <2>1. g.up /\ g.inclusive /\ g.soft = 7000 /\ g.hard = 10000
    BY <1>3 DEF RatioGates
  <2>2. g.soft \in Int /\ g.hard \in Int /\ g.soft <= g.hard
    BY <2>1
  <2>3. GradeOf(g, q) = CriticTimeoutBandGuard(q)
    BY <1>3 DEF GradeOf
  <2>4. CriticTimeoutBandGuard(q) = Reached(q, g.soft, g.hard)
    BY <2>1 DEF CriticTimeoutBandGuard
  <2>5. g.up /\ g.inclusive /\ GradeOf(g, q) = Reached(q, g.soft, g.hard)
    BY <2>1, <2>3, <2>4
  <2> QED BY <2>2, <2>5, Zenon DEF Compares
<1>4. CASE g.gate = "consensus_timeout"
  <2>1. g.up /\ g.inclusive /\ g.soft = 7000 /\ g.hard = 10000
    BY <1>4 DEF RatioGates
  <2>2. g.soft \in Int /\ g.hard \in Int /\ g.soft <= g.hard
    BY <2>1
  <2>3. GradeOf(g, q) = ConsensusTimeoutBandGuard(q)
    BY <1>4 DEF GradeOf
  <2>4. ConsensusTimeoutBandGuard(q) = Reached(q, g.soft, g.hard)
    BY <2>1 DEF ConsensusTimeoutBandGuard
  <2>5. g.up /\ g.inclusive /\ GradeOf(g, q) = Reached(q, g.soft, g.hard)
    BY <2>1, <2>3, <2>4
  <2> QED BY <2>2, <2>5, Zenon DEF Compares
<1>5. CASE g.gate = "tool_deadline"
  <2>1. g.up /\ g.inclusive /\ g.soft = 7000 /\ g.hard = 10000
    BY <1>5 DEF RatioGates
  <2>2. g.soft \in Int /\ g.hard \in Int /\ g.soft <= g.hard
    BY <2>1
  <2>3. GradeOf(g, q) = ToolInvocationDeadlineGuard(q)
    BY <1>5 DEF GradeOf
  <2>4. ToolInvocationDeadlineGuard(q) = Reached(q, g.soft, g.hard)
    BY <2>1 DEF ToolInvocationDeadlineGuard
  <2>5. g.up /\ g.inclusive /\ GradeOf(g, q) = Reached(q, g.soft, g.hard)
    BY <2>1, <2>3, <2>4
  <2> QED BY <2>2, <2>5, Zenon DEF Compares
<1>6. CASE g.gate = "write_amplification"
  <2>1. g.up /\ g.inclusive /\ g.soft = 20000 /\ g.hard = 50000
    BY <1>6 DEF RatioGates
  <2>2. g.soft \in Int /\ g.hard \in Int /\ g.soft <= g.hard
    BY <2>1
  <2>3. GradeOf(g, q) = BlackboardWriteAmplificationBandGuard(q)
    BY <1>6 DEF GradeOf
  <2>4. BlackboardWriteAmplificationBandGuard(q) = Reached(q, g.soft, g.hard)
    BY <2>1 DEF BlackboardWriteAmplificationBandGuard
  <2>5. g.up /\ g.inclusive /\ GradeOf(g, q) = Reached(q, g.soft, g.hard)
    BY <2>1, <2>3, <2>4
  <2> QED BY <2>2, <2>5, Zenon DEF Compares
<1>7. CASE g.gate = "goal_drift"
  <2>1. ~g.up /\ g.inclusive /\ g.soft = 5000 /\ g.hard = 2000
    BY <1>7 DEF RatioGates
  <2>2. g.soft \in Int /\ g.hard \in Int /\ g.hard <= g.soft
    BY <2>1
  <2>3. GradeOf(g, q) = PlannerGoalDriftGuard(q)
    BY <1>7 DEF GradeOf
  <2>4. PlannerGoalDriftGuard(q) = Below(q, g.soft, g.hard)
    BY <2>1 DEF PlannerGoalDriftGuard
  <2>5. ~g.up /\ g.inclusive /\ GradeOf(g, q) = Below(q, g.soft, g.hard)
    BY <2>1, <2>3, <2>4
  <2> QED BY <2>2, <2>5, Zenon DEF Compares
<1>8. CASE g.gate = "diversity"
  <2>1. ~g.up /\ g.inclusive /\ g.soft = 8500 /\ g.hard = 5000
    BY <1>8 DEF RatioGates
  <2>2. g.soft \in Int /\ g.hard \in Int /\ g.hard <= g.soft
    BY <2>1
  <2>3. GradeOf(g, q) = CriticVerdictDiversityGate(q, g.hard)
    BY <1>8 DEF GradeOf
  <2>4. CriticVerdictDiversityGate(q, g.hard) = BelowFloor(q, g.soft, g.hard)
    BY <2>1 DEF CriticVerdictDiversityGate
  <2>5. ~g.up /\ g.inclusive /\ GradeOf(g, q) = BelowFloor(q, g.soft, g.hard)
    BY <2>1, <2>3, <2>4
  <2> QED BY <2>2, <2>5, Zenon DEF Compares
<1> QED BY <1>1, <1>2, <1>3, <1>4, <1>5, <1>6, <1>7, <1>8 DEF RatioGates

\* Which limits the grade of a quotient says are passed.
LEMMA GradeByLimits ==
  ASSUME NEW g, NEW grade, NEW q \in Int, g.soft \in Int, g.hard \in Int, Compares(g, grade, q)
  PROVE  /\ grade \in 0..2
         /\ g.up /\ g.inclusive => (grade = 2 <=> q >= g.hard) /\ (grade >= 1 <=> q >= g.soft)
         /\ g.up /\ ~g.inclusive => (grade = 2 <=> q > g.hard) /\ (grade >= 1 <=> q > g.soft)
         /\ ~g.up => (grade = 2 <=> q < g.hard) /\ (grade >= 1 <=> q < g.soft)
<1>1. CASE g.up /\ ~g.inclusive /\ g.soft <= g.hard /\ grade = Above(q, g.soft, g.hard)
  <2>1. grade \in 0..2 /\ (grade = 2 <=> q > g.hard) /\ (grade >= 1 <=> q > g.soft)
    BY <1>1 DEF Above
  <2> QED BY <1>1, <2>1, Zenon
<1>2. CASE g.up /\ g.inclusive /\ g.soft <= g.hard /\ grade = Reached(q, g.soft, g.hard)
  <2>1. grade \in 0..2 /\ (grade = 2 <=> q >= g.hard) /\ (grade >= 1 <=> q >= g.soft)
    BY <1>2 DEF Reached
  <2> QED BY <1>2, <2>1, Zenon
<1>3. CASE ~g.up /\ g.hard <= g.soft /\ grade = Below(q, g.soft, g.hard)
  <2>1. grade \in 0..2 /\ (grade = 2 <=> q < g.hard) /\ (grade >= 1 <=> q < g.soft)
    BY <1>3 DEF Below
  <2> QED BY <1>3, <2>1, Zenon
<1>4. CASE ~g.up /\ g.hard <= g.soft /\ grade = BelowFloor(q, g.soft, g.hard)
  <2>1. grade \in 0..2 /\ (grade = 2 <=> q < g.hard) /\ (grade >= 1 <=> q < g.soft)
    BY <1>4 DEF BelowFloor
  <2> QED BY <1>4, <2>1, Zenon
<1> QED BY <1>1, <1>2, <1>3, <1>4, Zenon DEF Compares

\* Rounding moves a grade by at most half a ten-thousandth, and to one side: to
\* the worse for a rising gate that counts its limit itself as passed, to the
\* better for the others, for every pair of measurements.
THEOREM GatesRoundToOneSide ==
  ASSUME NEW c, c.gate \in RatioGates, c.n \in Nat, c.d \in Nat,
         NEW grade \in Grades(c.gate, c.n, c.d)
  PROVE  GradedByQuotient(c, grade)
<1> DEFINE g == c.gate
           d == GreaterOf(c.d, 1)
           m == HalfUnits(c.n)
<1>1. d \in Nat \ {0}
  BY DEF GreaterOf
<1>2. PICK q \in Rounded(c.n, d) : grade = GradeOf(g, q)
  BY DEF Grades
<1>3. q \in Int
  BY DEF Rounded
<1>4. g.soft \in Int /\ g.hard \in Int /\ Compares(g, grade, q)
  BY <1>2, <1>3, GatesCompare
<1>5. /\ g.up /\ g.inclusive => (grade = 2 <=> q >= g.hard) /\ (grade >= 1 <=> q >= g.soft)
      /\ g.up /\ ~g.inclusive => (grade = 2 <=> q > g.hard) /\ (grade >= 1 <=> q > g.soft)
      /\ ~g.up => (grade = 2 <=> q < g.hard) /\ (grade >= 1 <=> q < g.soft)
  <2> HIDE DEF g
  <2> QED BY <1>3, <1>4, GradeByLimits
<1>6. ASSUME NEW l \in Int
      PROVE  /\ m >= 2 * l * d => q >= l
             /\ q >= l => m >= (2 * l - 1) * d
             /\ m > (2 * l + 1) * d => q > l
             /\ q > l => m > 2 * l * d
             /\ m < (2 * l - 1) * d => q < l
             /\ q < l => m < 2 * l * d
  <2> HIDE DEF d
  <2> QED BY <1>1, <1>2, RoundedCompared DEF HalfUnits
<1> HIDE DEF m, d, g
<1>7. CASE g.up /\ g.inclusive
  <2>1. /\ m >= 2 * g.hard * d => grade = 2
        /\ m >= 2 * g.soft * d => grade >= 1
        /\ grade = 2 => m >= (2 * g.hard - 1) * d
        /\ grade >= 1 => m >= (2 * g.soft - 1) * d
    BY <1>4, <1>5, <1>6, <1>7, Zenon
  <2> QED BY <1>7, <2>1, Zenon DEF GradedByQuotient, g, d, m
<1>8. CASE g.up /\ ~g.inclusive
  <2>1. /\ m > (2 * g.hard + 1) * d => grade = 2
        /\ m > (2 * g.soft + 1) * d => grade >= 1
        /\ grade = 2 => m > 2 * g.hard * d
        /\ grade >= 1 => m > 2 * g.soft * d
    BY <1>4, <1>5, <1>6, <1>8, Zenon
  <2> QED BY <1>8, <2>1, Zenon DEF GradedByQuotient, g, d, m
<1>9. CASE ~g.up
  <2>1. /\ m < (2 * g.hard - 1) * d => grade = 2
        /\ m < (2 * g.soft - 1) * d => grade >= 1
        /\ grade = 2 => m < 2 * g.hard * d
        /\ grade >= 1 => m < 2 * g.soft * d
    BY <1>4, <1>5, <1>6, <1>9, Zenon
  <2> QED BY <1>9, <2>1, Zenon DEF GradedByQuotient, g, d, m
<1> QED BY <1>7, <1>8, <1>9, Zenon

LEMMA PairSize ==
  ASSUME NEW a, NEW b, a # b
  PROVE  IsFiniteSet({a, b}) /\ Cardinality({a, b}) = 2
<1>1. IsFiniteSet({a}) /\ Cardinality({a}) = 1
  BY FS_Singleton
<1>2. b \notin {a} /\ {a, b} = {a} \cup {b}
  OBVIOUS
<1> QED BY <1>1, <1>2, FS_AddElement

LEMMA TripleSize ==
  ASSUME NEW a, NEW b, NEW c, a # b, a # c, b # c
  PROVE  Cardinality({a, b, c}) = 3
<1>1. IsFiniteSet({a, b}) /\ Cardinality({a, b}) = 2
  BY PairSize
<1>2. c \notin {a, b} /\ {a, b, c} = {a, b} \cup {c}
  OBVIOUS
<1> QED BY <1>1, <1>2, FS_AddElement

\* A share gets one grade for every limit it misses, whatever the share.
THEOREM SharesGradedByMisses ==
  ASSUME NEW c, c.q \in Int, c.gate \in {"kappa", "confidence"}
  PROVE  GradedByMisses(c, ShareGrade(c.gate, c.q))
<1> DEFINE q == c.q
           Misses(L) == {l \in L : q < l}
<1>1. CASE c.gate = "kappa"
  <2> DEFINE L == {6000, 2000}
  <2>1. ShareGrade(c.gate, q) = CriticPairwiseKappaGate(q)
    BY <1>1 DEF ShareGrade
  <2>2. CriticPairwiseKappaGate(q) = Cardinality(Misses(L))
    <3>1. CASE q >= 6000
      <4>1. Misses(L) = {}
        BY <3>1
      <4> QED BY <3>1, <4>1, FS_EmptySet DEF CriticPairwiseKappaGate, Below
    <3>2. CASE q < 6000 /\ q >= 2000
      <4>1. Misses(L) = {6000}
        BY <3>2
      <4> QED BY <3>2, <4>1, FS_Singleton DEF CriticPairwiseKappaGate, Below
    <3>3. CASE q < 2000
      <4>1. Misses(L) = {2000, 6000}
        BY <3>3
      <4>2. Cardinality({2000, 6000}) = 2
        <5> DEFINE a == 2000
                   b == 6000
        <5>1. a # b
          OBVIOUS
        <5>2. Cardinality({a, b}) = 2
          <6> HIDE DEF a, b
          <6> QED BY <5>1, PairSize
        <5> QED BY <5>2
      <4> QED BY <3>3, <4>1, <4>2 DEF CriticPairwiseKappaGate, Below
    <3> QED BY <3>1, <3>2, <3>3
  <2> QED BY <1>1, <2>1, <2>2 DEF GradedByMisses
<1>2. CASE c.gate = "confidence"
  <2> DEFINE L == {10000, 7500, 5000}
  <2>1. ShareGrade(c.gate, q) = ConsensusConfidenceBandAdvisor(q)
    BY <1>2 DEF ShareGrade
  <2>2. ConsensusConfidenceBandAdvisor(q) = Cardinality(Misses(L))
    <3>1. CASE q >= 10000
      <4>1. Misses(L) = {}
        BY <3>1
      <4> QED BY <3>1, <4>1, FS_EmptySet DEF ConsensusConfidenceBandAdvisor
    <3>2. CASE q < 10000 /\ q >= 7500
      <4>1. Misses(L) = {10000}
        BY <3>2
      <4> QED BY <3>2, <4>1, FS_Singleton DEF ConsensusConfidenceBandAdvisor
    <3>3. CASE q < 7500 /\ q >= 5000
      <4>1. Misses(L) = {7500, 10000}
        BY <3>3
      <4>2. Cardinality({7500, 10000}) = 2
        <5> DEFINE a == 7500
                   b == 10000
        <5>1. a # b
          OBVIOUS
        <5>2. Cardinality({a, b}) = 2
          <6> HIDE DEF a, b
          <6> QED BY <5>1, PairSize
        <5> QED BY <5>2
      <4> QED BY <3>3, <4>1, <4>2 DEF ConsensusConfidenceBandAdvisor
    <3>4. CASE q < 5000
      <4>1. Misses(L) = {5000, 7500, 10000}
        BY <3>4
      <4>2. Cardinality({5000, 7500, 10000}) = 3
        <5> DEFINE a == 5000
                   b == 7500
                   e == 10000
        <5>1. a # b /\ a # e /\ b # e
          OBVIOUS
        <5>2. Cardinality({a, b, e}) = 3
          <6> HIDE DEF a, b, e
          <6> QED BY <5>1, TripleSize
        <5> QED BY <5>2
      <4> QED BY <3>4, <4>1, <4>2 DEF ConsensusConfidenceBandAdvisor
    <3> QED BY <3>1, <3>2, <3>3, <3>4
  <2> QED BY <1>2, <2>1, <2>2 DEF GradedByMisses
<1> QED BY <1>1, <1>2

\* Near quorum is half of it, only a replan budget of one is exhausted unwarned,
\* and a tool gets a grade for every class above the maximum, for every count
\* and limit.
THEOREM CountsGraded ==
  ASSUME NEW c, c.n \in Nat, c.limit \in Nat, c.gate = "egress" \/ c.limit # 0
  PROVE  GradedByCount(c, CountGrade(c.gate, c.n, c.limit))
<1> DEFINE n == c.n
           limit == c.limit
<1>1. limit # 0 => (ConsensusQuorumFloorGuard(n, limit) <= 1 <=> n >= 1 /\ 2 * n >= limit)
  BY DEF ConsensusQuorumFloorGuard, GreaterOf
<1>2. PlannerReplanBudgetLimiter(n, limit) = 0 /\ n + 1 >= limit => limit = 1
  BY DEF PlannerReplanBudgetLimiter, GreaterOf
<1>3. c.gate = "quorum" => CountGrade(c.gate, n, limit) = ConsensusQuorumFloorGuard(n, limit)
  BY DEF CountGrade
<1>4. c.gate = "replan" => CountGrade(c.gate, n, limit) = PlannerReplanBudgetLimiter(n, limit)
  BY DEF CountGrade
<1>5. c.gate = "egress" => CountGrade(c.gate, n, limit) = ToolSandboxEgressClassGuard(n, limit)
  BY DEF CountGrade
<1>6. ToolSandboxEgressClassGuard(n, limit) = LowerOf(2, HigherOf(0, n - limit))
  BY DEF ToolSandboxEgressClassGuard, LowerOf, HigherOf
<1> QED BY <1>1, <1>2, <1>3, <1>4, <1>5, <1>6 DEF GradedByCount

-----------------------------------------------------------------------------
(* What is sent to a tool *)

LEMMA EmptyHasLength0 ==
  ASSUME NEW s, Len(s) # 0
  PROVE  s # <<>>
<1>1. s = <<>> => Len(s) = Len(<<>>)
  BY Zenon
<1>2. Len(<<>>) = 0
  OBVIOUS
<1> QED BY <1>1, <1>2

LEMMA NoneOneMany ==
  ASSUME NEW n \in Nat
  PROVE  (n = 0 \/ n = 1 \/ n > 1) /\ (n > 1 <=> n # 0 /\ n # 1)
OBVIOUS

LEMMA ArgumentsAreNotNone ==
  ASSUME PlanConstantsOK, NEW keys \in SUBSET Tags, NEW args \in [keys -> {"text", "value"}]
  PROVE  args # None
BY DEF PlanConstantsOK, Arguments

\* A call is sent with all required arguments and no raw text where another
\* type is asked for, for every schema, payload and outcome.
THEOREM CallsSentHonestly ==
  ASSUME PlanConstantsOK, NEW c,
         c.schema.properties \in Seq(Tags), c.schema.required \in Seq(Tags),
         c.payload.shape \in {"structured", "object", "plain"},
         c.outcome \in {"timeout", "protocol", "lost", "isError", "answer"}, c.valid \in BOOLEAN,
         NEW answer,
         answer = [sent  |-> Coerced(c.schema, c.payload),
                   error |-> IF Coerced(c.schema, c.payload) = None THEN "invalid_arguments"
                             ELSE ErrorKind(c.outcome, c.valid)]
  PROVE  ToolResultIsHonest(c, answer)
<1> DEFINE schema == c.schema
           payload == c.payload
           filled == Filled(schema, payload)
           sent == Coerced(schema, payload)
<1>1. answer.sent = sent /\ answer.error = IF sent = None THEN "invalid_arguments" ELSE ErrorKind(c.outcome, c.valid)
  OBVIOUS
<1>2. sent # None => sent = filled /\ ToSet(schema.required) \subseteq DOMAIN sent
  BY DEF Coerced
<1>3. ASSUME sent # None, NEW k \in DOMAIN sent, sent[k] = "text"
      PROVE  k \notin schema.typed
  <2>1. filled = sent /\ filled # None
    BY <1>2, <1>3
  <2>2. CASE payload.shape \in {"structured", "object"}
    <3>1. filled = [j \in payload.keys |-> "value"]
      BY <2>1, <2>2 DEF Filled
    <3> QED BY <1>3, <2>1, <3>1
  <2>3. CASE payload.shape = "plain"
    <3>1. CASE schema.properties = <<>>
      <4>1. filled = <<>>
        BY <2>3, <3>1 DEF Filled
      <4>2. DOMAIN filled = {}
        BY <4>1
      <4> QED BY <1>3, <2>1, <4>2
    <3>2. CASE schema.properties # <<>>
      <4>1. filled = [j \in {Target(schema)} |-> Scalar(schema, Target(schema), payload)]
        BY <2>1, <2>3, <3>2 DEF Filled
      <4>2. k = Target(schema) /\ Scalar(schema, k, payload) = "text" /\ Scalar(schema, k, payload) # None
        <5>1. Scalar(schema, Target(schema), payload) # None
          BY <2>1, <2>3, <3>2 DEF Filled
        <5> QED BY <1>3, <2>1, <4>1, <5>1
      <4>3. k \in schema.typed => Scalar(schema, k, payload) \in {"value", None}
        BY DEF Scalar
      <4> QED BY <4>2, <4>3
    <3> QED BY <3>1, <3>2
  <2> QED BY <2>2, <2>3
<1>4. answer.error = "none" => sent # None /\ c.outcome = "answer" /\ c.valid
  <2>1. ErrorKind(c.outcome, c.valid) = "none" => c.outcome = "answer" /\ c.valid
    BY DEF ErrorKind
  <2> QED BY <1>1, <2>1
<1>5. ASSUME payload.shape = "plain", schema.required = <<>>, schema.typed = {}
      PROVE  sent = None <=> Len(schema.properties) > 1
  <2>1. ToSet(schema.required) = {}
    BY <1>5 DEF ToSet
  <2>2. sent = filled
    BY <2>1 DEF Coerced
  <2>3. \A key : Scalar(schema, key, payload) = "text"
    BY <1>5 DEF Scalar
  <2>4. "text" # None
    BY DEF PlanConstantsOK
  <2>8. Len(schema.required) = 0 /\ Len(<<>>) = 0
    BY <1>5
  <2>5. CASE Len(schema.properties) = 0
    <3>1. schema.properties = <<>>
      BY <2>5
    <3>2. filled = <<>>
      BY <1>5, <3>1 DEF Filled
    <3>3. <<>> \in Seq(SUBSET Steps)
      OBVIOUS
    <3> QED BY <2>2, <2>5, <3>2, <3>3 DEF PlanConstantsOK
  <2>6. CASE Len(schema.properties) = 1
    <3>1. Target(schema) = schema.properties[1] /\ schema.properties # <<>>
      <4>1. schema.properties # <<>>
        <5> HIDE DEF schema
        <5>1. Len(schema.properties) # 0
          BY <2>6
        <5> QED BY <5>1, EmptyHasLength0, Zenon
      <4> HIDE DEF schema
      <4> QED BY <2>6, <2>8, <4>1 DEF Target
    <3>2. schema.properties[1] \in Tags
      BY <2>6
    <3>3. schema.properties[1] # None
      BY <3>2 DEF PlanConstantsOK
    <3>4. filled = [j \in {schema.properties[1]} |-> "text"]
      BY <1>5, <2>3, <2>4, <3>1, <3>3 DEF Filled
    <3>5. filled # None
      <4>1. filled \in [{schema.properties[1]} -> {"text", "value"}] /\ {schema.properties[1]} \in SUBSET Tags
        BY <3>2, <3>4
      <4> QED BY <4>1, ArgumentsAreNotNone
    <3> QED BY <2>2, <2>6, <3>5
  <2>7. CASE Len(schema.properties) > 1
    <3>1. Target(schema) = None /\ schema.properties # <<>>
      <4>1. schema.properties # <<>> /\ Len(schema.properties) # 1
        <5>1. Len(schema.properties) # 0 /\ Len(schema.properties) # 1
          <6>1. Len(schema.properties) \in Nat
            OBVIOUS
          <6> QED BY <2>7, <6>1, NoneOneMany, Zenon
        <5> HIDE DEF schema
        <5> QED BY <5>1, EmptyHasLength0, Zenon
      <4> HIDE DEF schema
      <4> QED BY <2>8, <4>1 DEF Target
    <3>2. filled = None
      BY <1>5, <3>1 DEF Filled
    <3> QED BY <2>2, <2>7, <3>2
  <2>9. Len(schema.properties) = 0 \/ Len(schema.properties) = 1 \/ Len(schema.properties) > 1
    <3>1. Len(schema.properties) \in Nat
      OBVIOUS
    <3> QED BY <3>1, NoneOneMany, Zenon
  <2> HIDE DEF schema, sent
  <2> QED BY <2>5, <2>6, <2>7, <2>9, Zenon
<1>6. answer.sent # None =>
        /\ ToSet(schema.required) \subseteq DOMAIN answer.sent
        /\ \A k \in DOMAIN answer.sent : answer.sent[k] = "text" => k \notin schema.typed
  <2> HIDE DEF sent, schema
  <2> QED BY <1>1, <1>2, <1>3
<1>7. payload.shape = "plain" /\ schema.required = <<>> /\ schema.typed = {}
        => (answer.sent = None <=> Len(schema.properties) > 1)
  <2> HIDE DEF sent, schema, payload
  <2> QED BY <1>1, <1>5
<1>8. answer.error = "none" => answer.sent # None /\ c.outcome = "answer" /\ c.valid
  <2> HIDE DEF sent
  <2> QED BY <1>1, <1>4
<1> QED BY <1>6, <1>7, <1>8, Zenon DEF ToolResultIsHonest, schema, payload

-----------------------------------------------------------------------------
(* What is kept of a tool's answer *)

\* The sizes of the beginnings of a text.
Bytes(p, text) ==
  /\ p \in [0..Len(text) -> Nat]
  /\ p[0] = 0
  /\ \A i \in 1..Len(text) : p[i] = p[i - 1] + BytesOf(text[i])

LEMMA SizeByBytes ==
  ASSUME NEW text \in Seq(Int)
  PROVE  \E p : Bytes(p, text) /\ Size(text) = p[Len(text)]
<1> DEFINE n == Len(text)
           values == [i \in 1..n |-> BytesOf(text[i])]
           G(g) == [s \in SUBSET (1..n) |->
                      IF s = {} THEN 0 ELSE g[s \ {Max(s)}] + BytesOf(text[Max(s)])]
           h == CHOOSE g : g = G(g)
<1>1. n \in Nat /\ DOMAIN text = 1..n /\ \A i \in 1..n : BytesOf(text[i]) \in Nat
  BY DEF BytesOf
<1>2. Size(text) = h[1..n]
  BY <1>1 DEF Size, FoldLeft, MapThenFoldSet
<1>3. values \in [1..n -> Nat] /\ \A i \in 1..n : values[i] = BytesOf(text[i])
  BY <1>1
<1> HIDE DEF n, values
<1>4. ASSUME NEW g
      PROVE  AddsUp(g, values, n) <=> g = G(g)
  <2>1. \A s \in SUBSET (1..n) : s # {} => Max(s) \in 1..n
    BY <1>1, MaxOfSome
  <2>2. G(g) = [s \in SUBSET (1..n) |-> IF s = {} THEN 0 ELSE g[s \ {Max(s)}] + values[Max(s)]]
    BY <1>3, <2>1
  <2> QED BY <2>2, Zenon DEF AddsUp
<1>5. \E g : AddsUp(g, values, n)
  BY <1>1, <1>3, SumExists
<1>6. AddsUp(h, values, n)
  <2> HIDE DEF G
  <2> QED BY <1>4, <1>5, Zenon
<1> HIDE DEF h
<1> DEFINE p == [i \in 0..n |-> h[1..i]]
<1>7. /\ h[1..0] = 0
      /\ \A i \in 0..n : h[1..i] \in Nat
      /\ \A i \in 1..n : h[1..i] = h[1..(i - 1)] + values[i]
  BY <1>1, <1>3, <1>6, SumsOfBeginnings
<1>8. p \in [0..n -> Nat] /\ p[0] = 0 /\ p[n] = h[1..n]
  BY <1>1, <1>7
<1>9. ASSUME NEW i \in 1..n
      PROVE  p[i] = p[i - 1] + BytesOf(text[i])
  <2>1. i \in 0..n /\ i - 1 \in 0..n
    BY <1>1
  <2> QED BY <1>3, <1>7, <2>1
<1> HIDE DEF p, h
<1> QED BY <1>2, <1>8, <1>9 DEF Bytes, n

LEMMA BytesGrow ==
  ASSUME NEW text \in Seq(Int), NEW p, Bytes(p, text), NEW i \in 0..Len(text), NEW j \in i..Len(text)
  PROVE  p[i] <= p[j]
<1> DEFINE n == Len(text)
           A == {k \in 0..n : k >= i => p[i] <= p[k]}
<1>1. n \in Nat /\ i \in 0..n /\ j \in 0..n /\ \A k \in 0..n : p[k] \in Nat
  <2>1. Len(text) \in Nat
    OBVIOUS
  <2>2. p \in [0..Len(text) -> Nat]
    BY DEF Bytes
  <2> QED BY <2>1, <2>2
<1>2. \A k \in 1..n : BytesOf(text[k]) \in Nat /\ p[k] = p[k - 1] + BytesOf(text[k])
  BY DEF Bytes, BytesOf
<1> HIDE DEF n
<1>3. 0 \in A
  BY <1>1
<1>4. ASSUME NEW k \in 1..n, k - 1 \in A
      PROVE  k \in A
  <2>1. k \in 0..n /\ k - 1 \in 0..n /\ p[k - 1] <= p[k]
    BY <1>1, <1>2
  <2>2. k - 1 >= i \/ k = i \/ k < i
    BY <1>1, <2>1
  <2> QED BY <1>1, <1>4, <2>1, <2>2
<1> HIDE DEF A
<1>5. j \in A
  BY <1>1, <1>3, <1>4, UpTo
<1> QED BY <1>5 DEF A

\* A beginning has the size that was counted up to its end.
LEMMA SizeOfBeginning ==
  ASSUME NEW text \in Seq(Int), NEW p, Bytes(p, text), NEW i \in 0..Len(text)
  PROVE  Size(SubSeq(text, 1, i)) = p[i]
<1> DEFINE s == SubSeq(text, 1, i)
<1>1. s \in Seq(Int) /\ Len(s) = i /\ \A k \in 1..i : s[k] = text[k]
  OBVIOUS
<1>2. Len(text) \in Nat /\ i \in Nat /\ i <= Len(text)
  OBVIOUS
<1> HIDE DEF s
<1>3. PICK q : Bytes(q, s) /\ Size(s) = q[i]
  BY <1>1, SizeByBytes
<1> DEFINE A == {k \in 0..i : q[k] = p[k]}
<1>4. 0 \in A
  BY <1>2, <1>3 DEF Bytes
<1>5. ASSUME NEW k \in 1..i, k - 1 \in A
      PROVE  k \in A
  <2>1. k \in 0..i /\ k \in 1..Len(text) /\ q[k - 1] = p[k - 1]
    BY <1>2, <1>5
  <2> QED BY <1>1, <1>3, <2>1 DEF Bytes
<1> HIDE DEF A
<1>6. i \in A
  <2>1. 0..i \subseteq A
    BY <1>2, <1>4, <1>5, UpTo
  <2>2. i \in 0..i
    BY <1>2
  <2> QED BY <2>1, <2>2
<1> QED BY <1>3, <1>6 DEF A, s

\* The cut takes as many whole characters as fit.
LEMMA Head8Fits ==
  ASSUME NEW text \in Seq(Int), NEW p, Bytes(p, text), NEW n \in Nat
  PROVE  \E i \in 0..Len(text) : /\ Head8(text, n) = SubSeq(text, 1, i)
                                 /\ p[i] <= n
                                 /\ i < Len(text) => p[i + 1] > n
<1> DEFINE len == Len(text)
           FitsAt(i) == p[i] <= n /\ (i < len => p[i + 1] > n)
           P(i) == /\ Size(SubSeq(text, 1, i)) <= n
                   /\ i < Len(text) => Size(SubSeq(text, 1, i + 1)) > n
<1>1. len \in Nat /\ p[0] = 0 /\ \A i \in 0..len : p[i] \in Nat
  <2>1. Len(text) \in Nat
    OBVIOUS
  <2>2. p \in [0..Len(text) -> Nat] /\ p[0] = 0
    BY DEF Bytes
  <2> QED BY <2>1, <2>2
<1>2. ASSUME NEW i \in 0..len
      PROVE  P(i) <=> FitsAt(i)
  <2>1. Size(SubSeq(text, 1, i)) = p[i]
    BY SizeOfBeginning
  <2>2. i < len => Size(SubSeq(text, 1, i + 1)) = p[i + 1]
    <3>1. i < len => i + 1 \in 0..Len(text)
      BY <1>1
    <3> QED BY <3>1, SizeOfBeginning
  <2> QED BY <2>1, <2>2
<1> HIDE DEF len
<1>3. \E i \in 0..len : FitsAt(i)
  <2> SUFFICES ASSUME \A i \in 0..len : ~FitsAt(i)
               PROVE  FALSE
    OBVIOUS
  <2> DEFINE A == {i \in 0..len : p[i] <= n}
  <2>1. 0 \in A
    BY <1>1
  <2>2. ASSUME NEW i \in 1..len, i - 1 \in A
        PROVE  i \in A
    <3>1. i \in 0..len /\ i - 1 \in 0..len /\ (i - 1) + 1 = i /\ i - 1 < len /\ p[i - 1] <= n
      BY <1>1, <2>2
    <3>2. ~(p[i] > n)
      BY <3>1
    <3> QED BY <1>1, <3>1, <3>2
  <2> HIDE DEF A
  <2>3. len \in A
    <3>1. 0..len \subseteq A
      BY <1>1, <2>1, <2>2, UpTo
    <3>2. len \in 0..len
      BY <1>1
    <3> QED BY <3>1, <3>2
  <2>4. FitsAt(len)
    BY <1>1, <2>3 DEF A
  <2> QED BY <1>1, <2>4
<1>4. \E i \in 0..len : P(i)
  <2> HIDE DEF P, FitsAt
  <2> QED BY <1>2, <1>3
<1> DEFINE c == CHOOSE i \in 0..len : P(i)
<1>5. c \in 0..len /\ P(c)
  <2> HIDE DEF P
  <2> QED BY <1>4
<1>6. Head8(text, n) = SubSeq(text, 1, c)
  BY DEF Head8, len
<1> HIDE DEF c, P
<1>7. FitsAt(c)
  <2> HIDE DEF FitsAt
  <2> QED BY <1>2, <1>5
<1> QED BY <1>5, <1>6, <1>7 DEF len

\* What Cap makes of a text, or of a beginning of one.
CappedRight(capped, whole, limit) ==
  /\ IsPrefix(capped.kept, whole)
  /\ Size(capped.kept) <= limit
  /\ capped.truncated <=> capped.kept # whole

LEMMA BeginningIsPrefix ==
  ASSUME NEW text \in Seq(Int), NEW i \in 0..Len(text)
  PROVE  /\ IsPrefix(SubSeq(text, 1, i), text)
         /\ SubSeq(text, 1, i) \in Seq(Int) /\ Len(SubSeq(text, 1, i)) = i
         /\ \A j \in 0..i : SubSeq(SubSeq(text, 1, i), 1, j) = SubSeq(text, 1, j)
<1>1. SubSeq(text, 1, i) \in Seq(Int) /\ Len(SubSeq(text, 1, i)) = i
  OBVIOUS
<1>2. \A j \in 0..i : SubSeq(SubSeq(text, 1, i), 1, j) = SubSeq(text, 1, j)
  OBVIOUS
<1>3. SubSeq(SubSeq(text, 1, i), 1, i) = SubSeq(text, 1, i)
  BY <1>2
<1> QED BY <1>1, <1>2, <1>3 DEF IsPrefix

LEMMA KeptAndTruncated ==
  ASSUME NEW k
  PROVE  /\ [kept |-> k, truncated |-> FALSE].kept = k /\ ~[kept |-> k, truncated |-> FALSE].truncated
         /\ [kept |-> k, truncated |-> TRUE].kept = k /\ [kept |-> k, truncated |-> TRUE].truncated
OBVIOUS

LEMMA CapsWhole ==
  ASSUME NEW text \in Seq(Int), NEW limit \in Nat
  PROVE  CappedRight(Cap(text, limit, FALSE), text, limit)
<1>1. PICK p : Bytes(p, text) /\ Size(text) = p[Len(text)]
  BY SizeByBytes
<1>2. Size(text) \in Nat
  BY <1>1 DEF Bytes
<1>3. CASE Size(text) <= limit
  <2>1. Cap(text, limit, FALSE) = [kept |-> text, truncated |-> FALSE]
    BY <1>3 DEF Cap
  <2>2. IsPrefix(text, text)
    <3>1. Len(text) \in Nat
      OBVIOUS
    <3>2. Len(text) <= Len(text)
      BY <3>1
    <3> QED BY <3>2, Zenon DEF IsPrefix
  <2>3. Cap(text, limit, FALSE).kept = text /\ ~Cap(text, limit, FALSE).truncated
    BY <2>1, KeptAndTruncated, Zenon
  <2> QED BY <1>3, <2>2, <2>3, Zenon DEF CappedRight
<1>4. CASE Size(text) > limit
  <2>1. Cap(text, limit, FALSE) = [kept |-> Head8(text, limit), truncated |-> TRUE]
    BY <1>2, <1>4 DEF Cap
  <2>2. PICK i \in 0..Len(text) : Head8(text, limit) = SubSeq(text, 1, i) /\ p[i] <= limit
    BY <1>1, Head8Fits
  <2>3. Size(Head8(text, limit)) <= limit
    BY <1>1, <2>2, SizeOfBeginning
  <2>4. Head8(text, limit) # text
    BY <1>2, <1>4, <2>3
  <2>5. IsPrefix(Head8(text, limit), text)
    BY <2>2, BeginningIsPrefix
  <2>6. Cap(text, limit, FALSE).kept = Head8(text, limit) /\ Cap(text, limit, FALSE).truncated
    BY <2>1, KeptAndTruncated, Zenon
  <2> QED BY <2>3, <2>4, <2>5, <2>6, Zenon DEF CappedRight
<1>5. Size(text) <= limit \/ Size(text) > limit
  BY <1>2
<1> QED BY <1>3, <1>4, <1>5, Zenon

LEMMA CapsBeginning ==
  ASSUME NEW text \in Seq(Int), NEW i \in Nat, i < Len(text), NEW limit \in Nat
  PROVE  CappedRight(Cap(SubSeq(text, 1, i), limit, TRUE), text, limit)
<1> DEFINE s == SubSeq(text, 1, i)
<1>1. Len(text) \in Nat /\ i \in 0..Len(text)
  OBVIOUS
<1>2. s \in Seq(Int) /\ Len(s) = i /\ \A j \in 0..i : SubSeq(s, 1, j) = SubSeq(text, 1, j)
  BY <1>1, BeginningIsPrefix
<1> HIDE DEF s
<1>3. Cap(s, limit, TRUE) = [kept |-> Head8(s, limit), truncated |-> TRUE]
  BY DEF Cap
<1>4. PICK p : Bytes(p, s)
  BY <1>2, SizeByBytes
<1>5. PICK j \in 0..i : Head8(s, limit) = SubSeq(s, 1, j) /\ p[j] <= limit
  BY <1>2, <1>4, Head8Fits
<1>6. Size(Head8(s, limit)) <= limit
  BY <1>2, <1>4, <1>5, SizeOfBeginning
<1>7. j \in 0..Len(text) /\ Head8(s, limit) = SubSeq(text, 1, j)
  BY <1>1, <1>2, <1>5
<1>8. IsPrefix(Head8(s, limit), text) /\ Len(Head8(s, limit)) = j
  BY <1>7, BeginningIsPrefix
<1>9. Head8(s, limit) # text
  <2>1. j # Len(text)
    BY <1>1
  <2> QED BY <1>8, <2>1, Zenon
<1>10. Cap(s, limit, TRUE).kept = Head8(s, limit) /\ Cap(s, limit, TRUE).truncated
  BY <1>3, KeptAndTruncated, Zenon
<1> QED BY <1>6, <1>8, <1>9, <1>10, Zenon DEF CappedRight, s

\* The content of a result is a beginning of the (redacted) answer within the
\* limit, and truncated says whether it is all of it: for every answer, limit
\* and margin, although only a part of the answer is redacted.
THEOREM ResultsCapped ==
  ASSUME NEW c, c.text \in Seq(Int), c.limit \in Nat, c.margin \in Nat, c.redacts \in BOOLEAN
  PROVE  CapIsHonest(c, ResultText(c.text, c.limit, c.margin, c.redacts))
<1> DEFINE text == c.text
           limit == c.limit
           most == c.limit + c.margin
<1>1. CASE ~c.redacts
  <2>1. ResultText(text, limit, c.margin, c.redacts) = Cap(text, limit, FALSE)
    BY <1>1 DEF ResultText
  <2> QED BY <1>1, <2>1, CapsWhole DEF CapIsHonest, CappedRight
<1>2. CASE c.redacts
  <2> DEFINE whole == Redacted(text)
  <2>1. whole \in Seq(Int) /\ Len(whole) = Len(text) /\ Len(text) \in Nat
    BY DEF Redacted
  <2>2. PICK p : Bytes(p, text) /\ Size(text) = p[Len(text)]
    BY SizeByBytes
  <2>3. most \in Nat
    OBVIOUS
  <2>4. PICK i \in 0..Len(text) : /\ Head8(text, most) = SubSeq(text, 1, i)
                                  /\ p[i] <= most
                                  /\ i < Len(text) => p[i + 1] > most
    BY <2>2, <2>3, Head8Fits
  <2>5. Redacted(SubSeq(text, 1, i)) = SubSeq(whole, 1, i)
    BY DEF Redacted
  <2>6. ResultText(text, limit, c.margin, c.redacts) = Cap(SubSeq(whole, 1, i), limit, Size(text) > most)
    BY <1>2, <2>4, <2>5 DEF ResultText
  <2> HIDE DEF whole, most
  <2>7. CappedRight(Cap(SubSeq(whole, 1, i), limit, Size(text) > most), whole, limit)
    <3>1. CASE i = Len(text)
      <4>1. SubSeq(whole, 1, i) = whole
        BY <2>1, <3>1
      <4>2. (Size(text) > most) = FALSE
        BY <2>2, <2>3, <2>4, <3>1 DEF Bytes
      <4> QED BY <2>1, <4>1, <4>2, CapsWhole
    <3>2. CASE i < Len(text)
      <4>1. i + 1 \in 0..Len(text) /\ Len(text) \in (i + 1)..Len(text)
        BY <2>1, <3>2
      <4>2. p[i + 1] <= p[Len(text)] /\ p[i + 1] \in Nat /\ p[Len(text)] \in Nat
        <5>1. p[i + 1] <= p[Len(text)]
          BY <2>2, <4>1, BytesGrow
        <5>2. Len(text) \in 0..Len(text) /\ p \in [0..Len(text) -> Nat]
          BY <2>1, <2>2 DEF Bytes
        <5> QED BY <4>1, <5>1, <5>2
      <4>3. (Size(text) > most) = TRUE
        BY <2>2, <2>3, <2>4, <3>2, <4>2
      <4>4. i \in Nat /\ i < Len(whole)
        BY <2>1, <3>2
      <4> QED BY <2>1, <4>3, <4>4, CapsBeginning
    <3> QED BY <2>1, <3>1, <3>2
  <2> QED BY <1>2, <2>6, <2>7 DEF CapIsHonest, CappedRight, whole
<1> QED BY <1>1, <1>2

-----------------------------------------------------------------------------
(* What is cut *)

\* A sequence that begins with the first positions, ends with the last ones
\* and has markers between.
IsEnds(cut, n, head, between, tail) ==
  /\ cut \in Seq(Int) /\ Len(cut) = head + between + tail
  /\ \A i \in 1..Len(cut) :
       cut[i] = IF i <= head THEN i ELSE IF i <= head + between THEN 0 ELSE n - Len(cut) + i

LEMMA PositionsAre ==
  ASSUME NEW n \in Nat
  PROVE  Positions(n) \in Seq(Int) /\ Len(Positions(n)) = n /\ \A i \in 1..n : Positions(n)[i] = i
BY DEF Positions

LEMMA EndsAre ==
  ASSUME NEW n \in Nat, NEW head \in Nat, NEW tail \in Nat, head + tail <= n, NEW m \in Nat
  PROVE  IsEnds(Ends(n, head, tail, [i \in 1..m |-> Marker]), n, head, m, tail)
<1> DEFINE all == Positions(n)
           a == SubSeq(all, 1, head)
           b == [i \in 1..m |-> Marker]
           z == SubSeq(all, n - tail + 1, n)
           ab == a \o b
           cut == ab \o z
<1>1. all \in Seq(Int) /\ Len(all) = n /\ \A i \in 1..n : all[i] = i
  BY PositionsAre
<1> HIDE DEF all
<1>2. a \in Seq(Int) /\ Len(a) = head /\ \A i \in 1..head : a[i] = i
  BY <1>1
<1>3. b \in Seq(Int) /\ Len(b) = m /\ \A i \in 1..m : b[i] = 0
  BY DEF Marker
<1>4. z \in Seq(Int) /\ Len(z) = tail /\ \A i \in 1..tail : z[i] = n - tail + i
  BY <1>1
<1>5. Ends(n, head, tail, b) = cut
  BY DEF Ends, all
<1> HIDE DEF a, b, z
<1>6. ab \in Seq(Int) /\ Len(ab) = head + m
  BY <1>2, <1>3
<1>7. \A i \in 1..(head + m) : ab[i] = IF i <= head THEN i ELSE 0
  BY <1>2, <1>3
<1> HIDE DEF ab
<1>8. cut \in Seq(Int) /\ Len(cut) = head + m + tail
  <2>1. ab \o z \in Seq(Int) /\ Len(ab \o z) = Len(ab) + Len(z)
    BY <1>4, <1>6, ConcatProperties
  <2> HIDE DEF cut
  <2>2. Len(ab) + Len(z) = head + m + tail
    BY <1>4, <1>6
  <2> QED BY <2>1, <2>2, Zenon DEF cut
<1>9. \A i \in 1..(head + m + tail) :
        cut[i] = IF i <= head + m THEN ab[i] ELSE z[i - (head + m)]
  <2>1. \A i \in 1..(Len(ab) + Len(z)) : (ab \o z)[i] = IF i <= Len(ab) THEN ab[i] ELSE z[i - Len(ab)]
    BY <1>4, <1>6, ConcatProperties
  <2> QED BY <1>4, <1>6, <2>1
<1> HIDE DEF cut
<1>10. ASSUME NEW i \in 1..Len(cut)
       PROVE  cut[i] = IF i <= head THEN i ELSE IF i <= head + m THEN 0 ELSE n - Len(cut) + i
  <2>1. CASE i <= head + m
    <3>1. i \in 1..(head + m) /\ i \in 1..(head + m + tail)
      BY <1>8, <2>1
    <3> QED BY <1>7, <1>9, <2>1, <3>1
  <2>2. CASE ~(i <= head + m)
    <3>1. i - (head + m) \in 1..tail /\ i \in 1..(head + m + tail)
      BY <1>8, <2>2
    <3> QED BY <1>4, <1>8, <1>9, <2>2, <3>1
  <2> QED BY <2>1, <2>2
<1> QED BY <1>5, <1>8, <1>10 DEF IsEnds, b

\* What every cut has in common, between or not.
CutsWell(cut, n) ==
  LET kept == {i \in DOMAIN cut : cut[i] # Marker} IN
  /\ \A i \in kept : cut[i] = i \/ cut[i] = n - Len(cut) + i
  /\ \A i, j \in kept : i < j => cut[i] < cut[j]

\* Marked when something is gone.
MarkedOrWhole(cut, n) == cut = Positions(n) \/ \E i \in DOMAIN cut : cut[i] = Marker

LEMMA EndsCutWell ==
  ASSUME NEW n \in Nat, NEW head \in Nat, NEW tail \in Nat, head + tail <= n, NEW m \in Nat,
         NEW cut, IsEnds(cut, n, head, m, tail)
  PROVE  /\ CutsWell(cut, n)
         /\ m > 0 \/ head + tail = n => MarkedOrWhole(cut, n)
<1>1. DOMAIN cut = 1..Len(cut) /\ Len(cut) = head + m + tail
  BY DEF IsEnds
<1>2. \A i \in DOMAIN cut :
        cut[i] = IF i <= head THEN i ELSE IF i <= head + m THEN 0 ELSE n - Len(cut) + i
  BY <1>1 DEF IsEnds
<1>3. CutsWell(cut, n)
  <2> DEFINE kept == {i \in DOMAIN cut : cut[i] # Marker}
  <2>1. \A i \in kept : i \in 1..(head + m + tail)
                        /\ \/ i <= head /\ cut[i] = i
                           \/ i > head + m /\ cut[i] = n - (head + m + tail) + i
    BY <1>1, <1>2 DEF Marker
  <2> HIDE DEF kept
  <2>2. \A i \in kept : cut[i] = i \/ cut[i] = n - Len(cut) + i
    BY <1>1, <2>1
  <2>3. \A i, j \in kept : i < j => cut[i] < cut[j]
    BY <2>1
  <2> QED BY <2>2, <2>3, Zenon DEF CutsWell, kept
<1>4. ASSUME m > 0
      PROVE  \E i \in DOMAIN cut : cut[i] = Marker
  <2>1. head + 1 \in DOMAIN cut
    BY <1>1, <1>4
  <2>2. cut[head + 1] = 0
    BY <1>2, <1>4, <2>1
  <2> QED BY <2>1, <2>2 DEF Marker
<1>6. m > 0 \/ m = 0
  OBVIOUS
<1>5. ASSUME m = 0, head + tail = n
      PROVE  cut = Positions(n)
  <2>1. cut \in Seq(Int) /\ Len(cut) = n /\ \A i \in 1..n : cut[i] = i
    <3>1. \A i \in 1..n : i \in DOMAIN cut /\ n - Len(cut) + i = i
      BY <1>1, <1>5
    <3>2. \A i \in 1..n : cut[i] = i
      BY <1>2, <1>5, <3>1
    <3> QED BY <1>1, <1>5, <3>2 DEF IsEnds
  <2> QED BY <2>1, PositionsAre
<1> QED BY <1>3, <1>4, <1>5, <1>6 DEF MarkedOrWhole

LEMMA AllIsCutWell ==
  ASSUME NEW n \in Nat, NEW k \in 0..n
  PROVE  CutsWell(SubSeq(Positions(n), 1, k), n) /\ Len(SubSeq(Positions(n), 1, k)) = k
<1> DEFINE s == SubSeq(Positions(n), 1, k)
<1>1. s \in Seq(Int) /\ Len(s) = k /\ \A i \in 1..k : s[i] = i
  BY PositionsAre
<1> HIDE DEF s
<1> QED BY <1>1 DEF CutsWell, s

LEMMA AllCutWell ==
  ASSUME NEW n \in Nat
  PROVE  CutsWell(Positions(n), n) /\ Len(Positions(n)) = n
<1>1. SubSeq(Positions(n), 1, n) = Positions(n)
  BY PositionsAre
<1>2. n \in 0..n
  OBVIOUS
<1> QED BY <1>1, <1>2, AllIsCutWell

LEMMA TruncateCuts ==
  ASSUME NEW n \in Nat, NEW max \in Nat, NEW marker \in Nat \ {0}, NEW cut, cut = Truncate(n, max, marker)
  PROVE  /\ CutsWell(cut, n) /\ Len(cut) <= max /\ (n > 0 /\ max > 0 => Len(cut) # 0)
         /\ MarkedOrWhole(cut, n) \/ ~(marker < max)
<1>1. CASE n <= max
  <2>1. cut = Positions(n)
    BY <1>1 DEF Truncate
  <2>3. MarkedOrWhole(cut, n)
    BY <2>1 DEF MarkedOrWhole
  <2>2. CutsWell(cut, n) /\ Len(cut) = n
    BY <2>1, AllCutWell
  <2> QED BY <1>1, <2>2, <2>3
<1>2. CASE ~(n <= max) /\ marker >= max
  <2>1. cut = SubSeq(Positions(n), 1, max)
    BY <1>2 DEF Truncate
  <2>2. max \in 0..n /\ ~(marker < max)
    BY <1>2
  <2>3. CutsWell(cut, n) /\ Len(cut) = max
    BY <2>1, <2>2, AllIsCutWell
  <2> QED BY <2>2, <2>3
<1>3. CASE ~(n <= max) /\ ~(marker >= max)
  <2> DEFINE remaining == max - marker
             head == remaining \div 2
             tail == remaining - head
  <2>1. remaining \in Nat /\ remaining + marker = max /\ remaining <= n
    BY <1>3
  <2>2. cut = Ends(n, head, tail, [i \in 1..marker |-> Marker])
    BY <1>3 DEF Truncate
  <2> HIDE DEF remaining
  <2>3. head \in Nat /\ tail \in Nat /\ head + tail = remaining
    BY <2>1
  <2> HIDE DEF head, tail
  <2>4. head + tail <= n /\ head + marker + tail = max /\ marker \in Nat /\ marker > 0
    BY <2>1, <2>3
  <2>5. IsEnds(cut, n, head, marker, tail)
    BY <2>2, <2>3, <2>4, EndsAre
  <2>6. CutsWell(cut, n) /\ MarkedOrWhole(cut, n)
    BY <2>3, <2>4, <2>5, EndsCutWell
  <2>7. Len(cut) = max
    BY <2>4, <2>5 DEF IsEnds
  <2> QED BY <2>6, <2>7
<1> QED BY <1>1, <1>2, <1>3

LEMMA OneMarker ==
  /\ <<Marker>> = [i \in 1..1 |-> Marker]
  /\ <<>> = [i \in 1..0 |-> Marker]
OBVIOUS

LEMMA CompactCuts ==
  ASSUME NEW n \in Nat, NEW head \in Nat, NEW tail \in Nat, NEW cut, cut = Compact(n, head, tail)
  PROVE  /\ CutsWell(cut, n) /\ Len(cut) <= head + tail + 1
         /\ MarkedOrWhole(cut, n)
<1>1. CASE n <= head + tail
  <2>1. cut = Positions(n)
    BY <1>1 DEF Compact
  <2>3. MarkedOrWhole(cut, n)
    BY <2>1 DEF MarkedOrWhole
  <2>2. CutsWell(cut, n) /\ Len(cut) = n
    BY <2>1, AllCutWell
  <2> QED BY <1>1, <2>2, <2>3
<1>2. CASE ~(n <= head + tail)
  <2>1. cut = Ends(n, head, tail, [i \in 1..1 |-> Marker])
    BY <1>2, OneMarker DEF Compact
  <2>2. head + tail <= n /\ 1 \in Nat /\ 1 > 0
    BY <1>2
  <2>3. IsEnds(cut, n, head, 1, tail)
    BY <2>1, <2>2, EndsAre
  <2>4. CutsWell(cut, n) /\ MarkedOrWhole(cut, n)
    BY <2>2, <2>3, EndsCutWell
  <2>5. Len(cut) = head + tail + 1
    BY <2>3 DEF IsEnds
  <2> QED BY <2>4, <2>5
<1> QED BY <1>1, <1>2

LEMMA SummarizeCuts ==
  ASSUME NEW n \in Nat, NEW first \in Nat, NEW last \in Nat, NEW cut, cut = Summarize(n, first, last)
  PROVE  CutsWell(cut, n) /\ MarkedOrWhole(cut, n)
<1> DEFINE head == LowerOf(first, n)
           tail == LowerOf(last, n - head)
<1>1. cut = Ends(n, head, tail, IF n > head + tail THEN <<Marker>> ELSE <<>>)
  BY DEF Summarize
<1>2. head \in Nat /\ tail \in Nat /\ head + tail <= n
  BY DEF LowerOf
<1> HIDE DEF head, tail
<1>3. CASE n > head + tail
  <2>1. cut = Ends(n, head, tail, [i \in 1..1 |-> Marker])
    BY <1>1, <1>3, OneMarker
  <2>2. 1 \in Nat /\ 1 > 0
    OBVIOUS
  <2>3. IsEnds(cut, n, head, 1, tail)
    BY <1>2, <2>1, <2>2, EndsAre
  <2> QED BY <1>2, <2>2, <2>3, EndsCutWell
<1>4. CASE ~(n > head + tail)
  <2>1. cut = Ends(n, head, tail, [i \in 1..0 |-> Marker])
    BY <1>1, <1>4, OneMarker
  <2>2. 0 \in Nat /\ head + tail = n
    BY <1>2, <1>4
  <2>3. IsEnds(cut, n, head, 0, tail)
    BY <1>2, <2>1, <2>2, EndsAre
  <2> QED BY <1>2, <2>2, <2>3, EndsCutWell
<1> QED BY <1>3, <1>4

\* A cut text, event list or conversation is a beginning and an end of the
\* original in order, within its budget, and marked when something is gone:
\* for every length and budget.
THEOREM CutsKeepEnds ==
  ASSUME NEW c, c.fn \in {"truncate", "compact", "summarize"}, c.n \in Nat,
         c.fn = "truncate" => c.max \in Nat /\ c.marker \in Nat \ {0},
         c.fn \in {"compact", "summarize"} => c.head \in Nat /\ c.tail \in Nat,
         NEW cut,
         c.fn = "truncate" => cut = Truncate(c.n, c.max, c.marker),
         c.fn = "compact" => cut = Compact(c.n, c.head, c.tail),
         c.fn = "summarize" => cut = Summarize(c.n, c.head, c.tail)
  PROVE  CutKeepsEnds(c, cut)
<1>1. ASSUME c.fn = "truncate"
      PROVE  /\ CutsWell(cut, c.n) /\ Len(cut) <= c.max /\ (c.n > 0 /\ c.max > 0 => Len(cut) # 0)
             /\ MarkedOrWhole(cut, c.n) \/ ~(c.marker < c.max)
  <2>1. c.n \in Nat /\ c.max \in Nat /\ c.marker \in Nat \ {0} /\ cut = Truncate(c.n, c.max, c.marker)
    BY <1>1
  <2> QED BY <2>1, TruncateCuts, Zenon
<1>2. ASSUME c.fn = "compact"
      PROVE  CutsWell(cut, c.n) /\ Len(cut) <= c.head + c.tail + 1 /\ MarkedOrWhole(cut, c.n)
  <2>1. c.n \in Nat /\ c.head \in Nat /\ c.tail \in Nat /\ cut = Compact(c.n, c.head, c.tail)
    BY <1>2
  <2> QED BY <2>1, CompactCuts, Zenon
<1>3. ASSUME c.fn = "summarize"
      PROVE  CutsWell(cut, c.n) /\ MarkedOrWhole(cut, c.n)
  <2>1. c.n \in Nat /\ c.head \in Nat /\ c.tail \in Nat /\ cut = Summarize(c.n, c.head, c.tail)
    BY <1>3
  <2> QED BY <2>1, SummarizeCuts, Zenon
<1>4. Len(cut) # 0 => cut # <<>>
  BY EmptyHasLength0
<1>5. CutsWell(cut, c.n) /\ (MarkedOrWhole(cut, c.n) \/ (c.fn = "truncate" /\ ~(c.marker < c.max)))
  BY <1>1, <1>2, <1>3
<1>6. /\ c.fn = "truncate" => Len(cut) <= c.max /\ (c.n > 0 /\ c.max > 0 => cut # <<>>)
      /\ c.fn = "compact" => Len(cut) <= c.head + c.tail + 1
  BY <1>1, <1>2, <1>4
<1> QED BY <1>5, <1>6, Zenon DEF CutKeepsEnds, CutsWell, MarkedOrWhole

-----------------------------------------------------------------------------
(* What is compared *)

\* Two runs without a difference are the same, however long they are.
THEOREM DiffsFound ==
  ASSUME NEW S, NEW c, c.left \in Seq(S), c.right \in Seq(S)
  PROVE  DiffFindsAll(c, Diff(c.left, c.right))
<1> DEFINE l == c.left
           r == c.right
           shared == LowerOf(Len(l), Len(r))
           diff == Diff(l, r)
<1>1. Len(l) \in Nat /\ Len(r) \in Nat /\ shared \in Nat
      /\ shared = IF Len(l) < Len(r) THEN Len(l) ELSE Len(r)
  BY DEF LowerOf
<1>2. /\ diff.changed = {i \in 1..shared : l[i] # r[i]}
      /\ diff.removed = (shared + 1)..Len(l)
      /\ diff.added = (shared + 1)..Len(r)
      /\ diff = [changed |-> diff.changed, removed |-> diff.removed, added |-> diff.added]
  BY DEF Diff
<1> HIDE DEF shared, diff, l, r
<1>3. l \in Seq(S) /\ r \in Seq(S)
  BY DEF l, r
<1>4. ASSUME diff.changed = {}, diff.removed = {}, diff.added = {}
      PROVE  l = r
  <2>1. ~(shared + 1 <= Len(l)) /\ ~(shared + 1 <= Len(r))
    <3>1. shared + 1 <= Len(l) => shared + 1 \in diff.removed
      BY <1>1, <1>2
    <3>2. shared + 1 <= Len(r) => shared + 1 \in diff.added
      BY <1>1, <1>2
    <3> QED BY <1>4, <3>1, <3>2
  <2>2. Len(l) = shared /\ Len(r) = shared
    BY <1>1, <2>1
  <2>3. \A i \in 1..shared : l[i] = r[i]
    BY <1>2, <1>4
  <2> QED BY <1>3, <2>2, <2>3
<1>5. ASSUME l = r
      PROVE  diff.changed = {} /\ diff.removed = {} /\ diff.added = {}
  <2>1. Len(l) = Len(r)
    BY <1>5, Zenon
  <2>2. shared = Len(l) /\ shared = Len(r)
    BY <1>1, <2>1
  <2> QED BY <1>1, <1>2, <1>5, <2>2
<1>6. diff = [changed |-> {}, removed |-> {}, added |-> {}]
        <=> diff.changed = {} /\ diff.removed = {} /\ diff.added = {}
  <2> DEFINE x == diff.changed
             y == diff.removed
             z == diff.added
  <2>1. diff = [changed |-> x, removed |-> y, added |-> z]
    BY <1>2, Zenon
  <2> HIDE DEF x, y, z
  <2>2. [changed |-> x, removed |-> y, added |-> z] = [changed |-> {}, removed |-> {}, added |-> {}]
          <=> x = {} /\ y = {} /\ z = {}
    OBVIOUS
  <2> QED BY <2>1, <2>2, Zenon DEF x, y, z
<1> QED BY <1>4, <1>5, <1>6 DEF DiffFindsAll, diff, l, r

-----------------------------------------------------------------------------
(* Waves of tool calls *)

\* What is planned once the tools of R are done, given what is planned after
\* the next wave.
ReadyAfter(deps, R) == Ready(deps, Steps \ R, R)
Planned(rest, deps, hard, R) ==
  IF Steps \ R = {} THEN <<>>
  ELSE IF ReadyAfter(deps, R) # {} THEN IF rest = None THEN None ELSE <<ReadyAfter(deps, R)>> \o rest
  ELSE IF hard THEN None ELSE <<Steps \ R>>
PlansAll(g, deps, hard, D) ==
  \A R \in D : g[R] = Planned(g[R \cup ReadyAfter(deps, R)], deps, hard, R)

\* The tools that are done when at most n are left.
Left(n) == {R \in SUBSET Steps : Cardinality(Steps \ R) <= n}

LEMMA StepsAreFinite ==
  ASSUME PlanConstantsOK
  PROVE  IsFiniteSet(Steps) /\ Steps \subseteq Nat /\ Steps \subseteq Int
<1>1. StepCount \in Nat
  BY DEF PlanConstantsOK
<1> QED BY <1>1, FS_Interval DEF Steps

LEMMA FewerAreLeft ==
  ASSUME PlanConstantsOK, NEW n \in Nat, NEW R \in Left(n + 1), NEW S \in SUBSET (Steps \ R), S # {}
  PROVE  R \cup S \in Left(n)
<1>1. IsFiniteSet(Steps \ R)
  <2>1. IsFiniteSet(Steps)
    BY StepsAreFinite
  <2> QED BY <2>1, FS_Subset, Zenon
<1>2. PICK x \in S : TRUE
  OBVIOUS
<1>3. Cardinality((Steps \ R) \ {x}) = Cardinality(Steps \ R) - 1 /\ IsFiniteSet((Steps \ R) \ {x})
  BY <1>1, <1>2, OneLess, FS_RemoveElement
<1>4. Steps \ (R \cup S) \subseteq (Steps \ R) \ {x}
  BY <1>2
<1>5. Cardinality(Steps \ (R \cup S)) <= Cardinality((Steps \ R) \ {x})
  BY <1>3, <1>4, FS_Subset
<1>6. Cardinality(Steps \ R) <= n + 1 /\ Cardinality(Steps \ R) \in Nat
  BY <1>1, FS_CardinalityType DEF Left
<1>7. Cardinality(Steps \ (R \cup S)) \in Nat
  BY <1>3, <1>4, FS_Subset, FS_CardinalityType
<1>8. R \cup S \in SUBSET Steps
  BY DEF Left
<1>9. Cardinality(Steps \ (R \cup S)) <= n
  BY <1>3, <1>5, <1>6, <1>7
<1> QED BY <1>8, <1>9 DEF Left

LEMMA NothingLeft ==
  ASSUME PlanConstantsOK, NEW R \in Left(0)
  PROVE  R = Steps
<1>1. IsFiniteSet(Steps) /\ R \in SUBSET Steps
  BY StepsAreFinite DEF Left
<1>2. IsFiniteSet(Steps \ R)
  BY <1>1, FS_Subset
<1>3. Cardinality(Steps \ R) \in Nat /\ Cardinality(Steps \ R) <= 0
  BY <1>2, FS_CardinalityType DEF Left
<1>4. Steps \ R = {}
  BY <1>2, <1>3, FS_EmptySet
<1> QED BY <1>1, <1>4

LEMMA AllAreLeft ==
  ASSUME PlanConstantsOK
  PROVE  Cardinality(Steps) \in Nat /\ Left(Cardinality(Steps)) = SUBSET Steps
<1>1. IsFiniteSet(Steps)
  BY StepsAreFinite
<1>2. \A R \in SUBSET Steps : Steps \ R \in SUBSET Steps
  OBVIOUS
<1>3. \A R \in SUBSET Steps : Cardinality(Steps \ R) <= Cardinality(Steps)
  BY <1>1, <1>2, FS_Subset
<1> QED BY <1>1, <1>3, FS_CardinalityType DEF Left

\* The recursion of the waves is well founded: every wave leaves fewer tools.
LEMMA WavesExist ==
  ASSUME PlanConstantsOK, NEW deps, NEW hard
  PROVE  \E g : g = [R \in SUBSET Steps |-> Planned(g[R \cup ReadyAfter(deps, R)], deps, hard, R)]
<1> DEFINE A == {n \in Nat : \E g : DOMAIN g = Left(n) /\ PlansAll(g, deps, hard, Left(n))}
<1>1. \A R : ReadyAfter(deps, R) \in SUBSET (Steps \ R)
  BY DEF ReadyAfter, Ready
<1>2. 0 \in A
  <2> DEFINE g == [R \in Left(0) |-> <<>>]
  <2>1. \A R \in Left(0) : Steps \ R = {}
    BY NothingLeft
  <2>2. PlansAll(g, deps, hard, Left(0))
    BY <2>1 DEF PlansAll, Planned
  <2>3. DOMAIN g = Left(0)
    OBVIOUS
  <2> HIDE DEF g
  <2> QED BY <2>2, <2>3
<1>3. ASSUME NEW n \in A
      PROVE  n + 1 \in A
  <2>1. PICK g : DOMAIN g = Left(n) /\ PlansAll(g, deps, hard, Left(n))
    OBVIOUS
  <2>2. n \in Nat /\ n + 1 \in Nat
    OBVIOUS
  <2> DEFINE h == [R \in Left(n + 1) |-> Planned(g[R \cup ReadyAfter(deps, R)], deps, hard, R)]
  <2>3. Left(n) \subseteq Left(n + 1)
    <3> SUFFICES ASSUME NEW R \in Left(n)
                 PROVE  R \in Left(n + 1)
      OBVIOUS
    <3>1. Cardinality(Steps \ R) \in Nat
      <4>1. IsFiniteSet(Steps)
        BY StepsAreFinite
      <4> QED BY <4>1, FS_Subset, FS_CardinalityType
    <3> QED BY <2>2, <3>1 DEF Left
  <2>4. DOMAIN h = Left(n + 1)
    OBVIOUS
  <2>5. \A R \in Left(n + 1) : h[R] = Planned(g[R \cup ReadyAfter(deps, R)], deps, hard, R)
    OBVIOUS
  <2> HIDE DEF h
  <2>6. \A R \in Left(n) : h[R] = g[R]
    BY <2>1, <2>3, <2>5 DEF PlansAll
  <2>7. ASSUME NEW R \in Left(n + 1)
        PROVE  h[R] = Planned(h[R \cup ReadyAfter(deps, R)], deps, hard, R)
    <3>1. CASE ReadyAfter(deps, R) = {}
      BY <2>5, <3>1 DEF Planned
    <3>2. CASE ReadyAfter(deps, R) # {}
      <4>1. R \cup ReadyAfter(deps, R) \in Left(n)
        BY <1>1, <2>2, <3>2, FewerAreLeft
      <4> QED BY <2>5, <2>6, <4>1
    <3> QED BY <3>1, <3>2
  <2>8. PlansAll(h, deps, hard, Left(n + 1))
    BY <2>7 DEF PlansAll
  <2> QED BY <2>2, <2>4, <2>8
<1>4. Cardinality(Steps) \in A
  <2>1. A \subseteq Nat
    OBVIOUS
  <2> HIDE DEF A
  <2>2. A = Nat
    BY <1>2, <1>3, <2>1, NatsAll
  <2> QED BY <2>2, AllAreLeft
<1>5. PICK g : DOMAIN g = SUBSET Steps /\ PlansAll(g, deps, hard, SUBSET Steps)
  BY <1>4, AllAreLeft
<1> DEFINE h == [R \in SUBSET Steps |-> g[R]]
<1>6. \A R \in SUBSET Steps : R \cup ReadyAfter(deps, R) \in SUBSET Steps
  BY <1>1
<1>7. \A R \in SUBSET Steps : h[R] = Planned(h[R \cup ReadyAfter(deps, R)], deps, hard, R)
  BY <1>5, <1>6 DEF PlansAll
<1>8. h = [R \in SUBSET Steps |-> h[R]]
  OBVIOUS
<1> HIDE DEF h
<1>9. h = [R \in SUBSET Steps |-> Planned(h[R \cup ReadyAfter(deps, R)], deps, hard, R)]
  BY <1>7, <1>8
<1> QED BY <1>9

LEMMA WavesAreFrom ==
  ASSUME PlanConstantsOK, NEW deps, NEW hard
  PROVE  \E g : PlansAll(g, deps, hard, SUBSET Steps) /\ WavesFrom(deps, hard) = g[{}]
<1> DEFINE G(g) == [R \in SUBSET Steps |-> Planned(g[R \cup ReadyAfter(deps, R)], deps, hard, R)]
           h == CHOOSE g : g = G(g)
<1>1. \E g : g = G(g)
  BY WavesExist
<1>2. h = G(h)
  <2> HIDE DEF G
  <2> QED BY <1>1, Zenon
<1>3. WavesFrom(deps, hard) = h[{}]
  BY DEF WavesFrom, Planned, ReadyAfter
<1> HIDE DEF h
<1>4. PlansAll(h, deps, hard, SUBSET Steps)
  BY <1>2 DEF PlansAll
<1> QED BY <1>3, <1>4

\* The tools on or behind a cycle: the largest set in which each waits for
\* another one.
Waiting(deps, S) == \A s \in S : deps[s] \cap S # {}
Stuck(deps) == UNION {S \in SUBSET Steps : Waiting(deps, S)}

LEMMA StuckWaits ==
  ASSUME NEW deps
  PROVE  /\ Stuck(deps) \in SUBSET Steps /\ Waiting(deps, Stuck(deps))
         /\ \A S \in SUBSET Steps : Waiting(deps, S) => S \subseteq Stuck(deps)
         /\ Cyclic(deps) <=> Stuck(deps) # {}
<1>1. \A S \in SUBSET Steps : Waiting(deps, S) => S \subseteq Stuck(deps)
  BY DEF Stuck
<1>2. ASSUME NEW s \in Stuck(deps)
      PROVE  deps[s] \cap Stuck(deps) # {}
  <2>1. PICK S \in SUBSET Steps : Waiting(deps, S) /\ s \in S
    BY DEF Stuck
  <2> QED BY <1>1, <2>1 DEF Waiting
<1>3. Stuck(deps) \in SUBSET Steps
  BY DEF Stuck
<1>4. Cyclic(deps) => Stuck(deps) # {}
  <2> SUFFICES ASSUME Cyclic(deps)
               PROVE  Stuck(deps) # {}
    OBVIOUS
  <2>1. PICK S \in (SUBSET Steps) \ {{}} : Waiting(deps, S)
    BY DEF Cyclic, Waiting
  <2>2. S \in SUBSET Steps /\ S # {}
    BY <2>1
  <2>3. S \subseteq Stuck(deps)
    BY <1>1, <2>1, <2>2
  <2> QED BY <2>2, <2>3
<1>5. Stuck(deps) # {} => Cyclic(deps)
  BY <1>2, <1>3 DEF Cyclic
<1> QED BY <1>1, <1>2, <1>3, <1>4, <1>5 DEF Waiting

\* Waves for what is left after R: each tool runs when what it depends on is
\* done, and not a wave later.
GoodWaves(w, R, deps) ==
  /\ w \in Seq(SUBSET Steps)
  /\ \A t \in Steps \ R : \E i \in 1..Len(w) : t \in w[i]
  /\ \A i \in 1..Len(w) : w[i] \cap R = {}
  /\ \A i, j \in 1..Len(w) : i # j => w[i] \cap w[j] = {}
  /\ Stuck(deps) # {} => Len(w) > 0 /\ w[Len(w)] = Stuck(deps)
  /\ \A i \in 1..Len(w) : \A t \in w[i] \ Stuck(deps) :
       \A d \in deps[t] : d \in R \/ \E j \in 1..(i - 1) : d \in w[j]
  /\ \A i \in 2..Len(w) : \A t \in w[i] \ Stuck(deps) : \E d \in deps[t] : d \in w[i - 1]

LEMMA GoodWavesGrow ==
  ASSUME NEW deps, NEW R \in SUBSET Steps, NEW ready, ready = ReadyAfter(deps, R),
         ready \cap Stuck(deps) = {},
         NEW rest, GoodWaves(rest, R \cup ready, deps)
  PROVE  GoodWaves(<<ready>> \o rest, R, deps)
<1> DEFINE w == <<ready>> \o rest
           stuck == Stuck(deps)
<1>1. ready \in SUBSET (Steps \ R) /\ (\A t \in Steps \ R : t \in ready <=> deps[t] \subseteq R)
  BY DEF ReadyAfter, Ready
<1>2. rest \in Seq(SUBSET Steps) /\ Len(rest) \in Nat
  BY DEF GoodWaves
<1>3. /\ w \in Seq(SUBSET Steps) /\ Len(w) = Len(rest) + 1 /\ w[1] = ready
      /\ \A i \in 1..Len(rest) : w[i + 1] = rest[i]
  BY <1>1, <1>2
<1> HIDE DEF w, stuck
<1>4. /\ \A i \in 2..Len(w) : i - 1 \in 1..Len(rest) /\ w[i] = rest[i - 1]
      /\ \A i \in 1..Len(w) : i = 1 \/ i \in 2..Len(w)
      /\ 1 \in 1..Len(w)
      /\ \A i \in 1..Len(rest) : i + 1 \in 2..Len(w) /\ i + 1 \in 1..Len(w)
  <2>1. \A i \in 2..Len(w) : i - 1 \in 1..Len(rest) /\ (i - 1) + 1 = i
    BY <1>2, <1>3
  <2>2. \A i \in 2..Len(w) : w[i] = rest[i - 1]
    BY <1>3, <2>1
  <2> QED BY <1>2, <1>3, <2>1, <2>2
<1>5. \A t \in Steps \ R : \E i \in 1..Len(w) : t \in w[i]
  <2> SUFFICES ASSUME NEW t \in Steps \ R
               PROVE  \E i \in 1..Len(w) : t \in w[i]
    OBVIOUS
  <2>1. CASE t \in ready
    BY <1>3, <1>4, <2>1
  <2>2. CASE t \notin ready
    <3>1. PICK i \in 1..Len(rest) : t \in rest[i]
      BY <2>2 DEF GoodWaves
    <3> QED BY <1>3, <1>4, <3>1
  <2> QED BY <2>1, <2>2
<1>6. \A i \in 1..Len(w) : w[i] \cap R = {}
  <2>1. \A i \in 1..Len(rest) : rest[i] \cap (R \cup ready) = {}
    BY DEF GoodWaves
  <2> QED BY <1>1, <1>3, <1>4, <2>1
<1>7. ASSUME NEW i \in 1..Len(w), NEW j \in 1..Len(w), i # j
      PROVE  w[i] \cap w[j] = {}
  <2>1. \A k \in 2..Len(w) : w[k] \cap ready = {}
    <3>1. \A k \in 1..Len(rest) : rest[k] \cap (R \cup ready) = {}
      BY DEF GoodWaves
    <3> QED BY <1>4, <3>1
  <2>2. CASE i = 1 \/ j = 1
    BY <1>3, <1>4, <1>7, <2>1, <2>2
  <2>3. CASE i \in 2..Len(w) /\ j \in 2..Len(w)
    <3>1. i - 1 # j - 1
      BY <1>7, <2>3
    <3> QED BY <1>4, <2>3, <3>1 DEF GoodWaves
  <2> QED BY <1>4, <2>2, <2>3
<1>8. stuck # {} => Len(w) > 0 /\ w[Len(w)] = stuck
  <2> SUFFICES ASSUME stuck # {}
               PROVE  Len(w) > 0 /\ w[Len(w)] = stuck
    OBVIOUS
  <2>1. Len(rest) > 0 /\ rest[Len(rest)] = stuck
    BY DEF GoodWaves, stuck
  <2>2. Len(w) \in 2..Len(w) /\ Len(w) - 1 = Len(rest)
    BY <1>2, <1>3, <2>1
  <2> QED BY <1>2, <1>3, <1>4, <2>1, <2>2
<1>9. ASSUME NEW i \in 1..Len(w), NEW t \in w[i] \ stuck, NEW d \in deps[t]
      PROVE  d \in R \/ \E j \in 1..(i - 1) : d \in w[j]
  <2>1. CASE i = 1
    BY <1>1, <1>3, <1>9, <2>1
  <2>2. CASE i \in 2..Len(w)
    <3>1. i - 1 \in 1..Len(rest) /\ t \in rest[i - 1] \ stuck
      BY <1>4, <2>2
    <3>2. d \in R \cup ready \/ \E j \in 1..((i - 1) - 1) : d \in rest[j]
      BY <1>9, <3>1 DEF GoodWaves, stuck
    <3>3. CASE d \in R
      BY <3>3
    <3>4. CASE d \in ready
      <4>1. 1 \in 1..(i - 1)
        BY <2>2
      <4> QED BY <1>3, <3>4, <4>1
    <3>5. CASE \E j \in 1..((i - 1) - 1) : d \in rest[j]
      <4>1. PICK j \in 1..((i - 1) - 1) : d \in rest[j]
        BY <3>5
      <4>2. j \in 1..Len(rest) /\ j + 1 \in 1..(i - 1)
        BY <1>2, <3>1, <4>1
      <4> QED BY <1>3, <4>1, <4>2
    <3> QED BY <3>2, <3>3, <3>4, <3>5
  <2> QED BY <1>4, <2>1, <2>2
<1>10. ASSUME NEW i \in 2..Len(w), NEW t \in w[i] \ stuck
       PROVE  \E d \in deps[t] : d \in w[i - 1]
  <2>1. i - 1 \in 1..Len(rest) /\ t \in rest[i - 1] \ stuck
    BY <1>4
  <2>2. CASE i = 2
    <3>1. t \in rest[1] \ stuck /\ 1 \in 1..Len(rest)
      BY <2>1, <2>2
    <3>2. \A d \in deps[t] : d \in R \cup ready
      <4>1. \A d \in deps[t] : d \in R \cup ready \/ \E j \in 1..(1 - 1) : d \in rest[j]
        BY <3>1 DEF GoodWaves, stuck
      <4> QED BY <4>1
    <3>3. t \in Steps \ R /\ t \notin ready
      BY <1>2, <3>1 DEF GoodWaves
    <3>4. PICK d \in deps[t] : d \notin R
      BY <1>1, <3>3
    <3>5. d \in ready /\ w[i - 1] = ready
      BY <1>3, <2>2, <3>2, <3>4
    <3> QED BY <3>4, <3>5
  <2>3. CASE i > 2
    <3>1. i - 1 \in 2..Len(rest) /\ i - 1 \in 2..Len(w) /\ (i - 1) - 1 \in 1..Len(rest)
      BY <1>2, <1>3, <2>1, <2>3
    <3>2. \E d \in deps[t] : d \in rest[(i - 1) - 1]
      BY <2>1, <3>1 DEF GoodWaves, stuck
    <3> QED BY <1>4, <3>1, <3>2
  <2> QED BY <2>2, <2>3
<1> QED BY <1>3, <1>5, <1>6, <1>7, <1>8, <1>9, <1>10 DEF GoodWaves, w, stuck

\* While nothing stuck is done, a wave is empty only when all that is left is
\* stuck.
LEMMA ReadyOrStuck ==
  ASSUME NEW deps, NEW R \in SUBSET Steps, R \cap Stuck(deps) = {},
         \A s \in Steps : deps[s] \subseteq Steps
  PROVE  /\ ReadyAfter(deps, R) \cap Stuck(deps) = {}
         /\ ReadyAfter(deps, R) = {} => Steps \ R = Stuck(deps)
<1>1. ASSUME NEW t \in ReadyAfter(deps, R), t \in Stuck(deps)
      PROVE  FALSE
  <2>1. deps[t] \subseteq R /\ deps[t] \cap Stuck(deps) # {}
    BY <1>1, StuckWaits DEF ReadyAfter, Ready, Waiting
  <2> QED BY <2>1
<1>2. ASSUME ReadyAfter(deps, R) = {}
      PROVE  Steps \ R = Stuck(deps)
  <2>1. Waiting(deps, Steps \ R)
    BY <1>2 DEF ReadyAfter, Ready, Waiting
  <2>2. Steps \ R \subseteq Stuck(deps) /\ Stuck(deps) \subseteq Steps
    BY <2>1, StuckWaits
  <2> QED BY <2>2
<1> QED BY <1>1, <1>2

LEMMA NoWavesLeft ==
  ASSUME NEW deps, Stuck(deps) = {}
  PROVE  GoodWaves(<<>>, Steps, deps)
<1>1. <<>> \in Seq(SUBSET Steps) /\ Len(<<>>) = 0 /\ 1..0 = {} /\ 2..0 = {}
  OBVIOUS
<1> QED BY <1>1 DEF GoodWaves

LEMMA LastWave ==
  ASSUME NEW deps, NEW R \in SUBSET Steps, Steps \ R = Stuck(deps)
  PROVE  GoodWaves(<<Steps \ R>>, R, deps)
<1> DEFINE stuck == Steps \ R
           w == <<stuck>>
<1>1. stuck = Stuck(deps) /\ stuck \in SUBSET Steps /\ stuck \cap R = {}
  OBVIOUS
<1> HIDE DEF stuck
<1>2. w \in Seq(SUBSET Steps) /\ Len(w) = 1 /\ w[1] = stuck
  BY <1>1
<1> HIDE DEF w
<1>3. 1..Len(w) = {1} /\ 2..Len(w) = {}
  BY <1>2
<1>4. \A t \in Steps \ R : \E i \in 1..Len(w) : t \in w[i]
  BY <1>2, <1>3 DEF stuck
<1>5. \A i \in 1..Len(w) : w[i] = stuck
  BY <1>2, <1>3
<1>6. \A i, j \in 1..Len(w) : i = j
  BY <1>3
<1> QED BY <1>1, <1>2, <1>3, <1>4, <1>5, <1>6 DEF GoodWaves, w, stuck

\* In hard mode there is no plan for tools on or behind a cycle, otherwise the
\* waves are good.
PlanIsGood(w, R, deps, hard) ==
  IF hard /\ Stuck(deps) # {} THEN w = None ELSE GoodWaves(w, R, deps)

LEMMA PlansAreGood ==
  ASSUME PlanConstantsOK, NEW deps, \A s \in Steps : deps[s] \subseteq Steps, NEW hard \in BOOLEAN,
         NEW g, PlansAll(g, deps, hard, SUBSET Steps)
  PROVE  PlanIsGood(g[{}], {}, deps, hard)
<1> DEFINE stuck == Stuck(deps)
           A == {n \in Nat : \A R \in Left(n) : R \cap stuck = {} => PlanIsGood(g[R], R, deps, hard)}
<1>1. \A R \in SUBSET Steps : g[R] = Planned(g[R \cup ReadyAfter(deps, R)], deps, hard, R)
  BY DEF PlansAll
<1>2. stuck \in SUBSET Steps
  BY StuckWaits
<1>3. ASSUME Steps \cap stuck = {}
      PROVE  PlanIsGood(g[Steps], Steps, deps, hard)
  <2>1. stuck = {}
    BY <1>2, <1>3
  <2>2. g[Steps] = <<>>
    BY <1>1 DEF Planned
  <2> QED BY <2>1, <2>2, NoWavesLeft DEF PlanIsGood
<1>4. 0 \in A
  BY <1>3, NothingLeft
<1>5. ASSUME NEW n \in A
      PROVE  n + 1 \in A
  <2> SUFFICES ASSUME NEW R \in Left(n + 1), R \cap stuck = {}
               PROVE  PlanIsGood(g[R], R, deps, hard)
    OBVIOUS
  <2> DEFINE ready == ReadyAfter(deps, R)
             rest == g[R \cup ready]
  <2>1. n \in Nat /\ R \in SUBSET Steps /\ ready \in SUBSET (Steps \ R)
    BY DEF Left, ReadyAfter, Ready
  <2>2. g[R] = Planned(rest, deps, hard, R)
    BY <1>1, <2>1
  <2>3. ready \cap stuck = {} /\ (ready = {} => Steps \ R = stuck)
    BY <2>1, ReadyOrStuck
  <2>4. CASE Steps \ R = {}
    <3>1. R = Steps
      BY <2>1, <2>4
    <3> QED BY <1>3, <3>1
  <2>5. CASE Steps \ R # {} /\ ready # {}
    <3>1. R \cup ready \in Left(n)
      BY <2>1, <2>5, FewerAreLeft
    <3>2. (R \cup ready) \cap stuck = {}
      BY <2>3
    <3>3. PlanIsGood(rest, R \cup ready, deps, hard)
      BY <3>1, <3>2
    <3>4. g[R] = IF rest = None THEN None ELSE <<ready>> \o rest
      BY <2>2, <2>5 DEF Planned
    <3> HIDE DEF ready, rest
    <3>5. CASE hard /\ stuck # {}
      BY <3>3, <3>4, <3>5 DEF PlanIsGood
    <3>6. CASE ~(hard /\ stuck # {})
      <4>1. GoodWaves(rest, R \cup ready, deps)
        BY <3>3, <3>6 DEF PlanIsGood
      <4>2. rest # None
        <5>1. rest \in Seq(SUBSET Nat)
          BY <4>1, StepsAreFinite DEF GoodWaves
        <5> QED BY <5>1 DEF PlanConstantsOK
      <4>3. GoodWaves(<<ready>> \o rest, R, deps)
        BY <2>1, <2>3, <4>1, GoodWavesGrow DEF ready
      <4> QED BY <3>4, <3>6, <4>2, <4>3 DEF PlanIsGood
    <3> QED BY <3>5, <3>6
  <2>6. CASE Steps \ R # {} /\ ready = {}
    <3>1. g[R] = IF hard THEN None ELSE <<Steps \ R>>
      BY <2>2, <2>6 DEF Planned
    <3>2. stuck # {} /\ Steps \ R = stuck
      BY <2>3, <2>6
    <3>3. GoodWaves(<<Steps \ R>>, R, deps)
      BY <2>1, <3>2, LastWave
    <3> QED BY <3>1, <3>2, <3>3 DEF PlanIsGood
  <2> QED BY <2>4, <2>5, <2>6
<1>6. Cardinality(Steps) \in A
  <2>1. A \subseteq Nat
    OBVIOUS
  <2> HIDE DEF A
  <2>2. A = Nat
    BY <1>4, <1>5, <2>1, NatsAll
  <2> QED BY <2>2, AllAreLeft
<1>7. {} \in Left(Cardinality(Steps)) /\ {} \cap stuck = {}
  BY AllAreLeft
<1> QED BY <1>6, <1>7

\* In hard mode plan raises exactly on cyclic or unknown dependencies; the
\* waves partition the tools and start each as early as its dependencies
\* allow: for every number of tools and every dependencies.
THEOREM WavesPlanned ==
  ASSUME PlanConstantsOK, NEW c, c.hard \in BOOLEAN, c.deps \in [Steps -> SUBSET (Steps \cup {Unknown})]
  PROVE  WavesMeetDependencies(c, Waves(c.deps, c.hard))
<1> DEFINE known == [s \in Steps |-> c.deps[s] \ {Unknown}]
           hard == c.hard
           waves == Waves(c.deps, c.hard)
           stuck == Stuck(known)
           wave(t) == CHOOSE i \in DOMAIN waves : t \in waves[i]
<1>1. /\ \A s \in Steps : known[s] \subseteq Steps
      /\ known # c.deps <=> \E s \in Steps : Unknown \in c.deps[s]
  <2>1. \A s \in Steps : known[s] = c.deps[s] \ {Unknown} /\ c.deps[s] \subseteq Steps \cup {Unknown}
    OBVIOUS
  <2>2. known = c.deps <=> \A s \in Steps : known[s] = c.deps[s]
    OBVIOUS
  <2> HIDE DEF known
  <2> QED BY <2>1, <2>2
<1>2. PICK g : PlansAll(g, known, hard, SUBSET Steps) /\ WavesFrom(known, hard) = g[{}]
  <2> HIDE DEF known, hard
  <2> QED BY WavesAreFrom
<1>3. PlanIsGood(WavesFrom(known, hard), {}, known, hard)
  <2> HIDE DEF known
  <2> QED BY <1>1, <1>2, PlansAreGood
<1>4. waves = IF hard /\ known # c.deps THEN None ELSE WavesFrom(known, hard)
  BY <1>1 DEF Waves
<1>5. Cyclic(known) <=> stuck # {}
  BY StuckWaits
<1>6. stuck = UNION {S \in SUBSET Steps : \A s \in S : known[s] \cap S # {}}
  BY DEF Stuck, Waiting
<1>7. (hard /\ (Cyclic(known) \/ known # c.deps)) => waves = None
  <2> HIDE DEF known, hard, waves, stuck
  <2> QED BY <1>3, <1>4, <1>5 DEF PlanIsGood, stuck
<1>8. ~(hard /\ (Cyclic(known) \/ known # c.deps)) => GoodWaves(waves, {}, known)
  <2> HIDE DEF known, hard, waves, stuck
  <2> QED BY <1>3, <1>4, <1>5 DEF PlanIsGood, stuck
<1> HIDE DEF known, hard, waves, stuck
<1>9. ASSUME GoodWaves(waves, {}, known)
      PROVE  /\ UNION {waves[i] : i \in DOMAIN waves} = Steps
             /\ \A i, j \in DOMAIN waves : i # j => waves[i] \cap waves[j] = {}
             /\ stuck # {} => waves[Len(waves)] = stuck
             /\ \A t \in Steps \ stuck :
                  /\ \A d \in known[t] : wave(d) < wave(t)
                  /\ wave(t) = 1 \/ \E d \in known[t] : wave(d) = wave(t) - 1
  <2> DEFINE n == Len(waves)
  <2>1. DOMAIN waves = 1..n /\ n \in Nat /\ \A i \in 1..n : waves[i] \in SUBSET Steps
    BY <1>9 DEF GoodWaves
  <2>2. \A t \in Steps : \E i \in 1..n : t \in waves[i]
    BY <1>9 DEF GoodWaves
  <2>3. \A i, j \in 1..n : i # j => waves[i] \cap waves[j] = {}
    BY <1>9 DEF GoodWaves
  <2>4. stuck # {} => waves[n] = stuck
    BY <1>9 DEF GoodWaves, stuck
  <2>5. \A i \in 1..n : \A t \in waves[i] \ stuck : \A d \in known[t] : \E j \in 1..(i - 1) : d \in waves[j]
    BY <1>9 DEF GoodWaves, stuck
  <2>6. \A i \in 2..n : \A t \in waves[i] \ stuck : \E d \in known[t] : d \in waves[i - 1]
    BY <1>9 DEF GoodWaves, stuck
  <2> HIDE DEF n
  <2>7. ASSUME NEW i \in 1..n, NEW t \in waves[i]
        PROVE  wave(t) = i
    <3>1. wave(t) \in 1..n /\ t \in waves[wave(t)]
      BY <2>1, <2>7
    <3> QED BY <2>3, <2>7, <3>1
  <2> HIDE DEF wave
  <2>8. ASSUME NEW t \in Steps \ stuck
        PROVE  /\ \A d \in known[t] : wave(d) < wave(t)
               /\ wave(t) = 1 \/ \E d \in known[t] : wave(d) = wave(t) - 1
    <3>1. PICK i \in 1..n : t \in waves[i]
      BY <2>2
    <3>2. wave(t) = i /\ i \in Nat
      BY <2>1, <2>7, <3>1
    <3>3. ASSUME NEW d \in known[t]
          PROVE  wave(d) < wave(t)
      <4>1. PICK j \in 1..(i - 1) : d \in waves[j]
        BY <2>5, <3>1
      <4>2. j \in 1..n /\ j < i
        BY <2>1, <3>1
      <4> QED BY <2>7, <3>2, <4>1, <4>2
    <3>4. i # 1 => \E d \in known[t] : wave(d) = wave(t) - 1
      <4> SUFFICES ASSUME i # 1
                   PROVE  \E d \in known[t] : wave(d) = wave(t) - 1
        OBVIOUS
      <4>1. i \in 2..n /\ i - 1 \in 1..n
        BY <2>1
      <4>2. PICK d \in known[t] : d \in waves[i - 1]
        BY <2>6, <3>1, <4>1
      <4> QED BY <2>7, <3>2, <4>1, <4>2
    <3> QED BY <3>2, <3>3, <3>4
  <2>9. UNION {waves[i] : i \in DOMAIN waves} = Steps
    BY <2>1, <2>2
  <2> QED BY <2>1, <2>3, <2>4, <2>8, <2>9 DEF n
<1> QED BY <1>6, <1>7, <1>8, <1>9, Zenon DEF WavesMeetDependencies, known, hard, waves

-----------------------------------------------------------------------------
(* Sorting: percentiles, routes and prefetched tools *)

\* How many the first k of an order are.
LEMMA FirstOnes ==
  ASSUME NEW n \in Nat, NEW p \in Bijection(1..n, 1..n),
         NEW k \in 0..n, NEW T \in SUBSET (1..n)
  PROVE  /\ Cardinality(T) \in Nat
         /\ (\A i \in 1..k : p[i] \in T) => k <= Cardinality(T)
         /\ (\A t \in T : \E i \in 1..k : p[i] = t) => Cardinality(T) <= k
<1>1. IsFiniteSet(1..n) /\ IsFiniteSet(T) /\ Cardinality(T) \in Nat
  <2>1. IsFiniteSet(1..n)
    BY FS_Interval
  <2>2. IsFiniteSet(T)
    BY <2>1, FS_Subset
  <2> QED BY <2>1, <2>2, FS_CardinalityType
<1>2. k \in Nat /\ 1..k \in SUBSET (1..n) /\ IsFiniteSet(1..k) /\ Cardinality(1..k) = k
  BY FS_Interval
<1>5. p \in [1..n -> 1..n] /\ \A i, j \in 1..n : p[i] = p[j] => i = j
  BY DEF Bijection, Injection, IsInjective
<1> DEFINE q == [i \in 1..k |-> p[i]]
<1>3. ASSUME \A i \in 1..k : p[i] \in T
      PROVE  k <= Cardinality(T)
  <2>1. q \in Injection(1..k, T)
    BY <1>2, <1>3, <1>5 DEF Injection, IsInjective
  <2>2. Cardinality(1..k) <= Cardinality(T)
    BY <1>1, <2>1, FS_Injection
  <2> QED BY <1>2, <2>2
<1>4. ASSUME \A t \in T : \E i \in 1..k : p[i] = t
      PROVE  Cardinality(T) <= k
  <2> DEFINE U == {i \in 1..k : p[i] \in T}
             r == [i \in U |-> p[i]]
  <2>1. IsFiniteSet(U) /\ Cardinality(U) <= k /\ Cardinality(U) \in Nat
    <3>1. U \in SUBSET (1..k)
      OBVIOUS
    <3> HIDE DEF U
    <3>2. Cardinality(U) <= Cardinality(1..k) /\ IsFiniteSet(U)
      BY <1>2, <3>1, FS_Subset
    <3> QED BY <1>2, <3>2, FS_CardinalityType
  <2>2. r \in Surjection(U, T)
    BY <1>2, <1>4 DEF Surjection
  <2> HIDE DEF U, r
  <2>3. Cardinality(T) <= Cardinality(U)
    BY <2>1, <2>2, FS_Surjection
  <2> QED BY <1>1, <1>2, <2>1, <2>3
<1> QED BY <1>1, <1>3, <1>4

ByValue(values, n) ==
  {e \in (1..n) \X (1..n) : \/ values[e[1]] < values[e[2]]
                            \/ values[e[1]] = values[e[2]] /\ e[1] < e[2]}

LEMMA ByValueIsLinear ==
  ASSUME NEW n \in Nat, NEW values \in [1..n -> Int]
  PROVE  Linear(ByValue(values, n), 1..n)
<1>1. \A x, y \in 1..n : <<x, y>> \in ByValue(values, n)
                           <=> values[x] < values[y] \/ (values[x] = values[y] /\ x < y)
  BY DEF ByValue
<1>2. \A x \in 1..n : values[x] \in Int
  OBVIOUS
<1> QED BY <1>1, <1>2 DEF Linear

Ascends(order, values, n) ==
  /\ order \in Bijection(1..n, 1..n)
  /\ \A i, j \in 1..n : i < j => values[order[i]] <= values[order[j]]

\* The order that a percentile is taken from.
LEMMA SamplesSorted ==
  ASSUME NEW n \in Nat, NEW samples \in [1..n -> Int], NEW order,
         order = CHOOSE q \in [1..Cardinality(1..n) -> 1..n] :
                   \A i, j \in 1..Cardinality(1..n) :
                     i < j => samples[q[i]] < samples[q[j]] \/ (samples[q[i]] = samples[q[j]] /\ q[i] < q[j])
  PROVE  Ascends(order, samples, n)
<1> DEFINE L == ByValue(samples, n)
<1>1. IsFiniteSet(1..n) /\ Cardinality(1..n) = n
  BY FS_Interval
<1>2. Linear(L, 1..n)
  BY ByValueIsLinear
<1>3. PICK p : Enumerates(p, 1..n, L)
  BY <1>1, <1>2, OrderExists
<1>4. \A q \in [1..n -> 1..n] : \A i, j \in 1..n :
        <<q[i], q[j]>> \in L <=> samples[q[i]] < samples[q[j]] \/ (samples[q[i]] = samples[q[j]] /\ q[i] < q[j])
  BY DEF ByValue
<1> HIDE DEF L
<1> DEFINE Sorts(q) ==
             \A i, j \in 1..n : i < j => samples[q[i]] < samples[q[j]] \/ (samples[q[i]] = samples[q[j]] /\ q[i] < q[j])
<1>5. order = CHOOSE q \in [1..n -> 1..n] : Sorts(q)
  BY <1>1, Zenon
<1>6. p \in [1..n -> 1..n] /\ Sorts(p)
  BY <1>1, <1>3, <1>4 DEF Enumerates
<1>7. order \in [1..n -> 1..n] /\ Sorts(order)
  <2> HIDE DEF Sorts
  <2> QED BY <1>5, <1>6
<1>8. Enumerates(order, 1..n, L)
  BY <1>1, <1>4, <1>7 DEF Enumerates
<1>9. order \in Bijection(1..n, 1..n)
  <2>1. order \in Bijection(1..Cardinality(1..n), 1..n)
    BY <1>1, <1>2, <1>8, OrderIsOnto, Zenon
  <2> QED BY <1>1, <2>1, Zenon
<1>10. \A i, j \in 1..n : i < j => samples[order[i]] <= samples[order[j]]
  <2>1. \A i \in 1..n : order[i] \in 1..n /\ samples[order[i]] \in Int
    BY <1>7
  <2>2. \A i, j \in 1..n : i < j => samples[order[i]] < samples[order[j]] \/ samples[order[i]] = samples[order[j]]
    BY <1>7
  <2>3. \A x, y \in Int : x < y \/ x = y => x <= y
    OBVIOUS
  <2> QED BY <2>1, <2>2, <2>3, Zenon
<1> QED BY <1>7, <1>9, <1>10, Zenon DEF Ascends

AtMost(v, kept, n) == {i \in 1..n : kept[i] <= v}

\* The k-th of n values in order is the nearest rank of m / n percent.
LEMMA RankedAt ==
  ASSUME NEW n \in Nat \ {0}, NEW kept \in [1..n -> Int], NEW order, Ascends(order, kept, n),
         NEW k \in 1..n, NEW m \in Int, m <= 100 * k, 100 * (k - 1) < m,
         NEW value, value = kept[order[k]]
  PROVE  /\ 100 * Cardinality(AtMost(value, kept, n)) >= m
         /\ \A x \in 1..n : kept[x] < value => 100 * Cardinality(AtMost(kept[x], kept, n)) < m
<1> DEFINE below(v) == AtMost(v, kept, n)
<1> USE DEF AtMost
<1>1. /\ \A i \in 1..n : order[i] \in 1..n /\ kept[i] \in Int
      /\ value \in Int /\ n \in Nat
  BY DEF Ascends, Bijection, Surjection
<1>2. /\ order \in Bijection(1..n, 1..n)
      /\ \A x \in 1..n : \E i \in 1..n : order[i] = x
  BY DEF Ascends, Bijection, Surjection
<1>3. /\ \A i \in 1..k : i \in 1..n /\ (i < k \/ i = k)
      /\ \A i \in 1..n : ~(k < i) /\ k # i => i \in 1..(k - 1)
  OBVIOUS
<1>4. 100 * Cardinality(below(value)) >= m
  <2>1. below(value) \in SUBSET (1..n)
    OBVIOUS
  <2>2. \A i \in 1..k : order[i] \in below(value)
    <3>1. TAKE i \in 1..k
    <3>2. i \in 1..n /\ (i < k \/ i = k)
      BY <1>3
    <3>3. order[i] \in 1..n /\ kept[order[i]] \in Int
      BY <1>1, <3>2
    <3>4. i < k => kept[order[i]] <= value
      BY <3>2 DEF Ascends
    <3>5. kept[order[i]] <= value
      BY <1>1, <3>2, <3>3, <3>4
    <3> QED BY <3>3, <3>5
  <2>3. k \in 0..n
    OBVIOUS
  <2> HIDE DEF below
  <2>4. Cardinality(below(value)) \in Nat /\ k <= Cardinality(below(value))
    BY <1>1, <1>2, <2>1, <2>2, <2>3, FirstOnes, Zenon
  <2> QED BY <2>4
<1>5. ASSUME NEW x \in 1..n, kept[x] < value
      PROVE  100 * Cardinality(below(kept[x])) < m
  <2> DEFINE l == k - 1
  <2>1. l \in 0..n /\ 100 * l < m
    OBVIOUS
  <2>2. below(kept[x]) \in SUBSET (1..n)
    OBVIOUS
  <2>3. \A t \in below(kept[x]) : \E i \in 1..l : order[i] = t
    <3>1. TAKE t \in below(kept[x])
    <3>2. t \in 1..n /\ kept[t] <= kept[x]
      OBVIOUS
    <3>3. PICK i \in 1..n : order[i] = t
      BY <1>2, <3>2
    <3>4. kept[order[i]] < value
      <4>1. kept[t] \in Int /\ kept[x] \in Int
        BY <3>2
      <4> QED BY <1>1, <1>5, <3>2, <3>3, <4>1
    <3>5. ~(k < i)
      <4>1. k < i => value <= kept[order[i]]
        BY <3>3 DEF Ascends
      <4>2. kept[order[i]] \in Int
        BY <3>2, <3>3
      <4> QED BY <1>1, <3>4, <4>1, <4>2
    <3>6. k # i
      <4>1. kept[order[i]] # value
        BY <1>1, <3>4
      <4> QED BY <4>1, Zenon
    <3>7. i \in 1..l
      BY <1>3, <3>3, <3>5, <3>6
    <3> QED BY <3>3, <3>7
  <2> DEFINE T == below(kept[x])
  <2> HIDE DEF below, l
  <2>4. T \in SUBSET (1..n) /\ \A t \in T : \E i \in 1..l : order[i] = t
    BY <2>2, <2>3
  <2> HIDE DEF T
  <2>5. Cardinality(T) \in Nat /\ Cardinality(T) <= l
    BY <1>1, <1>2, <2>1, <2>4, FirstOnes, Zenon
  <2> QED BY <2>1, <2>5 DEF T
<1> QED BY <1>4, <1>5

LEMMA RankOf ==
  ASSUME NEW n \in Nat \ {0}, NEW pct \in 1..100, NEW k, k = LowerOf(n, HigherOf(1, (pct * n + 99) \div 100))
  PROVE  k \in 1..n /\ pct * n \in Int /\ pct * n <= 100 * k /\ 100 * (k - 1) < pct * n
<1> DEFINE x == pct * n
<1>1. x \in Int /\ 1 <= x /\ x <= 100 * n
  <2>1. pct \in Nat /\ n \in Nat /\ 1 <= pct /\ pct <= 100 /\ 1 <= n
    OBVIOUS
  <2>2. \A a, b \in Nat : a * b \in Int /\ (1 <= a /\ a <= 100 /\ 1 <= b => 1 <= a * b /\ a * b <= 100 * b)
    BY Z3
  <2> QED BY <2>1, <2>2
<1> HIDE DEF x
<1>2. k = LowerOf(n, HigherOf(1, (x + 99) \div 100))
  BY DEF x
<1>3. k \in 1..n /\ x <= 100 * k /\ 100 * (k - 1) < x
  BY <1>1, <1>2 DEF LowerOf, HigherOf
<1> QED BY <1>1, <1>3 DEF x

\* The samples that the ring buffer still has.
LEMMA RetainedSome ==
  ASSUME NEW samples \in Seq(Int), samples # <<>>, NEW max \in Nat \ {0}, NEW kept, kept = Retained(samples, max)
  PROVE  kept \in Seq(Int) /\ Len(kept) \in Nat \ {0} /\ kept \in [1..Len(kept) -> Int] /\ DOMAIN kept = 1..Len(kept)
<1> DEFINE n == Len(samples)
           first == HigherOf(1, n - max + 1)
<1>1. n \in Nat \ {0}
  BY EmptySeq
<1>2. \A i \in 1..n : samples[i] \in Int
  OBVIOUS
<1> HIDE DEF n
<1>3. first \in 1..n
  BY <1>1 DEF HigherOf
<1> HIDE DEF first
<1>4. kept = SubSeq(samples, first, n)
  BY DEF Retained, first, n
<1>5. kept \in Seq(Int) /\ Len(kept) = n - first + 1
  <2>1. first <= n /\ first \in Int /\ n \in Int
    BY <1>1, <1>3
  <2>2. \A i \in first..n : samples[i] \in Int
    BY <1>1, <1>2, <1>3
  <2> QED BY <1>3, <1>4, <2>1, <2>2, SubSeqProperties DEF n
<1>6. Len(kept) \in Nat \ {0}
  BY <1>1, <1>3, <1>5
<1> QED BY <1>5, <1>6

\* ToolCallLatencyTracker answers with the nearest rank.
THEOREM PercentilesAreNearestRank ==
  ASSUME NEW c, c.samples \in Seq(Int), c.samples # <<>>, c.max \in Nat \ {0}, c.pct \in 1..100
  PROVE  PercentileIsNearestRank(c, Percentile(Retained(c.samples, c.max), c.pct))
<1> DEFINE kept == Retained(c.samples, c.max)
           n == Len(kept)
           k == LowerOf(n, HigherOf(1, (c.pct * n + 99) \div 100))
           order == CHOOSE q \in [1..Cardinality(1..n) -> 1..n] :
                      \A i, j \in 1..Cardinality(1..n) :
                        i < j => kept[q[i]] < kept[q[j]] \/ (kept[q[i]] = kept[q[j]] /\ q[i] < q[j])
           value == kept[order[k]]
<1>1. Percentile(kept, c.pct) = value
  BY DEF Percentile, SortedBy
<1>2. n \in Nat \ {0} /\ kept \in [1..n -> Int] /\ DOMAIN kept = 1..n
  <2> HIDE DEF kept
  <2> QED BY RetainedSome, Zenon DEF kept
<1> HIDE DEF kept
<1>3. k \in 1..n /\ c.pct * n \in Int /\ c.pct * n <= 100 * k /\ 100 * (k - 1) < c.pct * n
  <2> HIDE DEF n
  <2> QED BY <1>2, RankOf, Zenon
<1>4. Ascends(order, kept, n)
  <2>1. n \in Nat
    BY <1>2
  <2> HIDE DEF n
  <2> QED BY <1>2, <2>1, SamplesSorted, Zenon
<1>5. value = kept[order[k]]
  OBVIOUS
<1> DEFINE m == c.pct * n
<1>6. m \in Int /\ m <= 100 * k /\ 100 * (k - 1) < m
  BY <1>3
<1>7. \E i \in 1..n : kept[i] = value
  <2> HIDE DEF order, k, n
  <2> QED BY <1>3, <1>4 DEF Ascends, Bijection, Surjection
<1> HIDE DEF order, k, n, value, m
<1>8. /\ 100 * Cardinality(AtMost(value, kept, n)) >= m
      /\ \A x \in 1..n : kept[x] < value => 100 * Cardinality(AtMost(kept[x], kept, n)) < m
  BY <1>2, <1>3, <1>4, <1>5, <1>6, RankedAt, Zenon
<1>9. PercentileIsNearestRank(c, value)
  BY <1>2, <1>7, <1>8, Zenon DEF PercentileIsNearestRank, AtMost, kept, n, m
<1> QED BY <1>1, <1>9, Zenon DEF kept

\* Best scores first, then by number.
Ranks(order, score, S) ==
  /\ order \in [1..Cardinality(S) -> S]
  /\ \A i, j \in 1..Cardinality(S) :
       i < j => \/ score[order[i]] > score[order[j]]
                \/ score[order[i]] = score[order[j]] /\ order[i] < order[j]

Better(score, S) ==
  {e \in S \X S : score[e[1]] > score[e[2]] \/ (score[e[1]] = score[e[2]] /\ e[1] < e[2])}

LEMMA BetterIsLinear ==
  ASSUME NEW S \in SUBSET Nat, NEW score \in [S -> Int]
  PROVE  Linear(Better(score, S), S)
<1>1. \A x, y \in S : <<x, y>> \in Better(score, S)
                        <=> score[x] > score[y] \/ (score[x] = score[y] /\ x < y)
  BY DEF Better
<1>2. \A x \in S : x \in Int /\ score[x] \in Int
  OBVIOUS
<1> QED BY <1>1, <1>2 DEF Linear

LEMMA RanksInOrder ==
  ASSUME NEW S \in SUBSET Nat, IsFiniteSet(S), NEW score \in [S -> Int], NEW order
  PROVE  Ranks(order, score, S) <=> Enumerates(order, S, Better(score, S))
<1>1. \A x, y \in S : <<x, y>> \in Better(score, S)
                        <=> score[x] > score[y] \/ (score[x] = score[y] /\ x < y)
  BY DEF Better
<1> DEFINE n == Cardinality(S)
<1>2. n \in Nat
  BY FS_CardinalityType
<1> HIDE DEF n
<1>3. order \in [1..n -> S] => \A i \in 1..n : order[i] \in S
  OBVIOUS
<1>4. (/\ order \in [1..n -> S]
       /\ \A i, j \in 1..n : i < j => \/ score[order[i]] > score[order[j]]
                                      \/ score[order[i]] = score[order[j]] /\ order[i] < order[j])
      <=> order \in [1..n -> S] /\ \A i, j \in 1..n : i < j => <<order[i], order[j]>> \in Better(score, S)
  BY <1>1, <1>3
<1> QED BY <1>4 DEF Ranks, Enumerates, n

LEMMA RankingExists ==
  ASSUME NEW S \in SUBSET Nat, IsFiniteSet(S), NEW score \in [S -> Int]
  PROVE  \E order : Ranks(order, score, S)
<1>1. PICK p : Enumerates(p, S, Better(score, S))
  BY BetterIsLinear, OrderExists
<1>2. Ranks(p, score, S)
  BY <1>1, RanksInOrder
<1> QED BY <1>2

LEMMA RankedBestFirst ==
  ASSUME NEW S \in SUBSET Nat, IsFiniteSet(S), NEW score \in [S -> Int], NEW order, Ranks(order, score, S)
  PROVE  /\ order \in Bijection(1..Cardinality(S), S)
         /\ \A i, j \in 1..Cardinality(S) : i <= j => score[order[i]] >= score[order[j]]
<1> DEFINE n == Cardinality(S)
<1>1. order \in Bijection(1..n, S)
  BY BetterIsLinear, RanksInOrder, OrderIsOnto
<1>2. n \in Nat
  BY FS_CardinalityType
<1>3. /\ order \in [1..n -> S]
      /\ \A i, j \in 1..n :
           i < j => score[order[i]] > score[order[j]] \/ score[order[i]] = score[order[j]]
  BY DEF Ranks
<1> HIDE DEF n
<1>4. \A i \in 1..n : score[order[i]] \in Int
  BY <1>3
<1>5. \A i, j \in 1..n : i <= j => i < j \/ i = j
  BY <1>2
<1>6. \A i, j \in 1..n : i <= j => score[order[i]] >= score[order[j]]
  BY <1>3, <1>4, <1>5
<1> QED BY <1>1, <1>6 DEF n

\* BotSkillTagRouter names a bot that shares the most tags with the task.
THEOREM TasksRoutedToBest ==
  ASSUME PlanConstantsOK, NEW c, c.tags \in [Steps -> SUBSET Tags], c.tokens \in SUBSET Tags
  PROVE  RoutedToBest(c, Route(c.tags, c.tokens))
<1> DEFINE S == {b \in Steps : Cardinality(c.tags[b] \cap c.tokens) > 0}
           n == Cardinality(S)
           score == [b \in S |-> Cardinality(c.tags[b] \cap c.tokens)]
           P(q) == \A i, j \in 1..n :
                     i < j => \/ Cardinality(c.tags[q[i]] \cap c.tokens) > Cardinality(c.tags[q[j]] \cap c.tokens)
                              \/ /\ Cardinality(c.tags[q[i]] \cap c.tokens) = Cardinality(c.tags[q[j]] \cap c.tokens)
                                 /\ q[i] < q[j]
           order == CHOOSE q \in [1..n -> S] : P(q)
<1>1. Route(c.tags, c.tokens) = order
  BY Zenon DEF Route, SortedBy
<1>2. \A b \in Steps : Cardinality(c.tags[b] \cap c.tokens) \in Nat
                         /\ (c.tags[b] \cap c.tokens # {} => Cardinality(c.tags[b] \cap c.tokens) > 0)
  <2>1. TAKE b \in Steps
  <2>2. IsFiniteSet(c.tags[b] \cap c.tokens)
    BY FS_Subset DEF PlanConstantsOK
  <2> QED BY <2>2, FS_CardinalityType, FS_EmptySet
<1>3. S \in SUBSET Nat /\ IsFiniteSet(S) /\ S \subseteq Steps
  <2>1. IsFiniteSet(Steps) /\ Steps \subseteq Nat
    BY StepsAreFinite
  <2>2. S \subseteq Steps
    OBVIOUS
  <2> HIDE DEF S
  <2> QED BY <2>1, <2>2, FS_Subset
<1>4. score \in [S -> Int] /\ \A b \in S : score[b] = Cardinality(c.tags[b] \cap c.tokens)
  BY <1>2
<1>5. \A b \in Steps : c.tags[b] \cap c.tokens # {} => b \in S
  BY <1>2
<1> HIDE DEF S, score
<1>6. ASSUME NEW q \in [1..n -> S]
      PROVE  P(q) <=> Ranks(q, score, S)
  <2>1. \A i \in 1..n : score[q[i]] = Cardinality(c.tags[q[i]] \cap c.tokens)
    BY <1>4
  <2> HIDE DEF n
  <2>2. P(q) <=> \A i, j \in 1..n : i < j => \/ score[q[i]] > score[q[j]]
                                             \/ score[q[i]] = score[q[j]] /\ q[i] < q[j]
    BY <2>1
  <2> HIDE DEF P
  <2> QED BY <2>2, Zenon DEF Ranks, n
<1>7. order \in [1..n -> S] /\ P(order)
  <2>1. PICK p : Ranks(p, score, S)
    BY <1>3, <1>4, RankingExists
  <2>2. p \in [1..n -> S]
    BY <2>1 DEF Ranks
  <2>3. P(p)
    <3> HIDE DEF n, P
    <3> QED BY <1>6, <2>1, <2>2
  <2> HIDE DEF n, P
  <2> QED BY <2>2, <2>3
<1>8. Ranks(order, score, S)
  <2> HIDE DEF order, n, P
  <2> QED BY <1>6, <1>7
<1> HIDE DEF order
<1>9. /\ order \in Bijection(1..n, S)
      /\ \A i, j \in 1..n : i <= j => score[order[i]] >= score[order[j]]
  BY <1>3, <1>4, <1>8, RankedBestFirst, Zenon
<1>10. n \in Nat
  BY <1>3, FS_CardinalityType
<1> HIDE DEF n, P
<1>11. ASSUME NEW b \in S
       PROVE  /\ order # <<>>
              /\ Cardinality(c.tags[b] \cap c.tokens) <= Cardinality(c.tags[order[1]] \cap c.tokens)
  <2>1. PICK i \in 1..n : order[i] = b
    BY <1>9 DEF Bijection, Surjection
  <2>2. 1 \in 1..n /\ 1 <= i
    BY <1>10, <2>1
  <2>3. order \in [1..n -> S]
    BY <1>7
  <2>4. order # <<>>
    <3>1. DOMAIN order = 1..n /\ (order = <<>> => DOMAIN order = DOMAIN <<>>)
      BY <2>3
    <3>2. DOMAIN <<>> = {}
      OBVIOUS
    <3> QED BY <2>2, <3>1, <3>2
  <2>5. score[order[1]] >= score[b] /\ order[1] \in S /\ score[order[1]] \in Int /\ score[b] \in Int
    BY <1>4, <1>9, <2>1, <2>2, <2>3
  <2>6. score[b] <= score[order[1]]
    BY <2>5
  <2> QED BY <1>4, <2>4, <2>5, <2>6
<1>12. RoutedToBest(c, order)
  BY <1>5, <1>11 DEF RoutedToBest
<1> QED BY <1>1, <1>12, Zenon

-----------------------------------------------------------------------------

\* What a hint counts: as much as five uses in every place, and as five without
\* any use.
Hinted(c) == 5 * HigherOf(Len(c.recent), 1)

LEMMA ScoreOfHint ==
  ASSUME NEW c, c.recent \in Seq(Int), NEW t
  PROVE  Score(c, t) \in Nat /\ (t \in c.hinted => Score(c, t) >= Hinted(c))
<1> DEFINE n == Len(c.recent)
           len == HigherOf(n, 1)
           value(i) == IF c.recent[i] = t THEN len + i - 1 ELSE 0
           values == [i \in 1..n |-> value(i)]
           h == CHOOSE g : AddsUp(g, values, n)
<1>1. n \in Nat /\ DOMAIN c.recent = 1..n
  OBVIOUS
<1> HIDE DEF n
<1>2. len \in Nat /\ len >= n
  BY <1>1 DEF HigherOf
<1> HIDE DEF len
<1>3. values \in [1..n -> Nat] /\ DOMAIN values = 1..n
  BY <1>1, <1>2
<1> HIDE DEF values
<1>4. FoldLeft(+, 0, values) = h[1..n]
  BY <1>3, Zenon DEF FoldLeft, MapThenFoldSet, AddsUp
<1>5. AddsUp(h, values, n)
  BY <1>1, <1>3, SumExists
<1> HIDE DEF h
<1>6. h[1..n] \in Nat
  <2>1. n \in 0..n
    BY <1>1
  <2> QED BY <1>1, <1>3, <1>5, <2>1, SumsOfBeginnings
<1>7. Score(c, t) = h[1..n] + IF t \in c.hinted THEN 5 * len ELSE 0
  BY <1>1, <1>4 DEF Score, values, len, n
<1> QED BY <1>1, <1>2, <1>6, <1>7 DEF Hinted, len, n

LEMMA BeginningOf ==
  ASSUME NEW S, NEW s \in Seq(S), NEW m \in 0..Len(s)
  PROVE  /\ Len(SubSeq(s, 1, m)) = m /\ DOMAIN SubSeq(s, 1, m) = 1..m
         /\ \A i \in 1..m : SubSeq(s, 1, m)[i] = s[i]
<1>1. m \in Nat /\ \A i \in 1..m : s[i] \in S /\ 1 + i - 1 = i
  OBVIOUS
<1>2. /\ SubSeq(s, 1, m) \in Seq(S)
      /\ Len(SubSeq(s, 1, m)) = IF 1 <= m THEN m - 1 + 1 ELSE 0
      /\ \A i \in 1..(m - 1 + 1) : SubSeq(s, 1, m)[i] = s[1 + i - 1]
  BY <1>1, SubSeqProperties
<1>3. (IF 1 <= m THEN m - 1 + 1 ELSE 0) = m /\ m - 1 + 1 = m
  BY <1>1
<1> QED BY <1>1, <1>2, <1>3

LEMMA ShorterIsLess ==
  ASSUME NEW n \in Nat, NEW max \in Nat
  PROVE  LowerOf(max, n) \in 0..n
BY DEF LowerOf

\* SpeculativeToolPrefetch takes as many tools as it may, the best ones.
THEOREM ToolsPrefetchedByScore ==
  ASSUME PlanConstantsOK, NEW c, c.recent \in Seq(Int), c.available \in SUBSET Steps, c.max \in Nat
  PROVE  PrefetchedByScore(c, Prefetch(c))
<1> DEFINE S == c.available
           n == Cardinality(S)
           score == [t \in S |-> Score(c, t)]
           P(q) == \A i, j \in 1..n :
                     i < j => \/ Score(c, q[i]) > Score(c, q[j])
                              \/ Score(c, q[i]) = Score(c, q[j]) /\ q[i] < q[j]
           order == CHOOSE q \in [1..n -> S] : P(q)
           m == LowerOf(c.max, Len(order))
           tools == SubSeq(order, 1, m)
<1>1. Prefetch(c) = tools
  BY Zenon DEF Prefetch, SortedBy
<1>2. \A t \in S : /\ Score(c, t) \in Nat
                   /\ t \in c.hinted => Score(c, t) >= Hinted(c)
  BY ScoreOfHint
<1>3. S \in SUBSET Nat /\ IsFiniteSet(S)
  <2>1. IsFiniteSet(Steps) /\ Steps \subseteq Nat
    BY StepsAreFinite
  <2> QED BY <2>1, FS_Subset
<1>4. score \in [S -> Int] /\ \A t \in S : score[t] = Score(c, t)
  BY <1>2
<1> HIDE DEF score
<1>5. ASSUME NEW q \in [1..n -> S]
      PROVE  P(q) <=> Ranks(q, score, S)
  <2>1. \A i \in 1..n : score[q[i]] = Score(c, q[i])
    BY <1>4
  <2> HIDE DEF n
  <2>2. P(q) <=> \A i, j \in 1..n : i < j => \/ score[q[i]] > score[q[j]]
                                             \/ score[q[i]] = score[q[j]] /\ q[i] < q[j]
    BY <2>1
  <2> HIDE DEF P
  <2> QED BY <2>2, Zenon DEF Ranks, n
<1>6. order \in [1..n -> S] /\ P(order)
  <2>1. PICK p : Ranks(p, score, S)
    BY <1>3, <1>4, RankingExists
  <2>2. p \in [1..n -> S]
    BY <2>1 DEF Ranks
  <2>3. P(p)
    <3> HIDE DEF n, P
    <3> QED BY <1>5, <2>1, <2>2
  <2> HIDE DEF n, P
  <2> QED BY <2>2, <2>3
<1>7. Ranks(order, score, S)
  <2> HIDE DEF order, n, P
  <2> QED BY <1>5, <1>6
<1> HIDE DEF order
<1>8. /\ order \in Bijection(1..n, S)
      /\ \A i, j \in 1..n : i <= j => score[order[i]] >= score[order[j]]
  BY <1>3, <1>4, <1>7, RankedBestFirst, Zenon
<1>9. n \in Nat
  BY <1>3, FS_CardinalityType
<1> HIDE DEF n, P
<1>10. order \in [1..n -> S] /\ order \in Seq(S) /\ Len(order) = n
  BY <1>6, <1>9
<1>11. m \in 0..n /\ m = LowerOf(c.max, n)
  BY <1>9, <1>10, ShorterIsLess
<1> HIDE DEF m
<1>12. /\ Len(tools) = m /\ DOMAIN tools = 1..m
       /\ \A i \in 1..m : tools[i] = order[i]
  <2>1. m \in 0..Len(order)
    BY <1>10, <1>11
  <2> QED BY <1>10, <2>1, BeginningOf, Zenon
<1> HIDE DEF tools
<1>13. ASSUME NEW t \in c.available \ Range(tools), NEW u \in Range(tools), t \in c.hinted
       PROVE  Score(c, u) >= Hinted(c)
  <2>1. PICK i \in 1..m : u = order[i]
    BY <1>12 DEF Range
  <2>2. PICK j \in 1..n : t = order[j]
    BY <1>8 DEF Bijection, Surjection
  <2>3. j \notin 1..m
    BY <1>12, <2>2 DEF Range
  <2>4. i \in 1..n /\ i <= j
    BY <1>9, <1>11, <2>3
  <2>5. score[u] >= score[t]
    BY <1>8, <2>1, <2>2, <2>4
  <2>6. u \in S /\ t \in S
    BY <1>10, <2>1, <2>4
  <2>7. Score(c, u) >= Score(c, t)
    BY <1>4, <2>5, <2>6
  <2>8. Score(c, t) >= Hinted(c) /\ Score(c, t) \in Nat /\ Score(c, u) \in Nat
    BY <1>2, <1>13, <2>6
  <2>9. Hinted(c) \in Int
    BY DEF Hinted, HigherOf
  <2> QED BY <2>7, <2>8, <2>9
<1>14. PrefetchedByScore(c, tools)
  BY <1>11, <1>12, <1>13, Zenon DEF PrefetchedByScore, Hinted, n
<1> QED BY <1>1, <1>14, Zenon

-----------------------------------------------------------------------------
(* Elements at some places of a sequence *)

\* The places in their order.
Lists(p, S) ==
  /\ p \in Bijection(1..Cardinality(S), S)
  /\ \A i, j \in 1..Cardinality(S) : i < j => p[i] < p[j]

LEMMA PlacesAreListed ==
  ASSUME NEW n \in Nat, NEW S \in SUBSET (1..n)
  PROVE  IsFiniteSet(S) /\ Cardinality(S) \in Nat /\ \E p : Lists(p, S)
<1> DEFINE before == {e \in S \X S : e[1] < e[2]}
<1>1. IsFiniteSet(S) /\ Cardinality(S) \in Nat
  <2>1. IsFiniteSet(1..n)
    BY FS_Interval
  <2> QED BY <2>1, FS_Subset, FS_CardinalityType
<1>2. \A x, y \in S : x \in Int /\ y \in Int /\ (<<x, y>> \in before <=> x < y)
  OBVIOUS
<1> HIDE DEF before
<1>3. Linear(before, S)
  BY <1>2 DEF Linear
<1>4. PICK p : Enumerates(p, S, before)
  BY <1>1, <1>3, OrderExists
<1>5. p \in Bijection(1..Cardinality(S), S)
  BY <1>1, <1>3, <1>4, OrderIsOnto
<1>6. \A i, j \in 1..Cardinality(S) : i < j => p[i] < p[j]
  <2> DEFINE m == Cardinality(S)
  <2>1. p \in [1..m -> S] /\ \A i, j \in 1..m : i < j => <<p[i], p[j]>> \in before
    BY <1>4 DEF Enumerates
  <2> HIDE DEF m
  <2>2. \A i, j \in 1..m : i < j => p[i] < p[j]
    BY <1>2, <2>1
  <2> QED BY <2>2 DEF m
<1> QED BY <1>1, <1>5, <1>6 DEF Lists

LEMMA NthIsListed ==
  ASSUME NEW n \in Nat, NEW S \in SUBSET (1..n), NEW p, Lists(p, S), NEW i \in 1..Cardinality(S)
  PROVE  NthOf(S, i) = p[i]
<1> DEFINE m == Cardinality(S)
           C(k) == Cardinality({j \in S : j <= k})
<1>1. IsFiniteSet(S) /\ m \in Nat
  BY PlacesAreListed
<1>2. /\ p \in [1..m -> S]
      /\ \A x \in S : \E j \in 1..m : p[j] = x
      /\ \A j, k \in 1..m : p[j] = p[k] => j = k
      /\ \A j, k \in 1..m : j < k => p[j] < p[k]
  BY DEF Lists, Bijection, Injection, Surjection, IsInjective
<1>3. i \in 1..m
  OBVIOUS
<1> HIDE DEF m
<1>4. ASSUME NEW k \in 1..m
      PROVE  C(p[k]) = k
  <2> DEFINE T == {j \in S : j <= p[k]}
             q == [l \in 1..k |-> p[l]]
  <2>1. \A l \in 1..k : l \in 1..m /\ p[l] \in S /\ p[l] \in Int /\ p[k] \in Int
    <3>1. \A l \in 1..k : l \in 1..m
      BY <1>1
    <3>2. \A l \in 1..m : p[l] \in S
      BY <1>2
    <3>3. \A x \in S : x \in Int
      OBVIOUS
    <3> QED BY <3>1, <3>2, <3>3
  <2>2. \A l \in 1..k : p[l] <= p[k]
    <3>1. \A l \in 1..k : l < k \/ l = k
      OBVIOUS
    <3> QED BY <1>2, <2>1, <3>1
  <2>3. \A x \in T : \E l \in 1..k : p[l] = x
    <3>1. TAKE x \in T
    <3>2. PICK l \in 1..m : p[l] = x
      BY <1>2
    <3>3. ~(k < l)
      <4>1. x <= p[k] /\ x \in Int /\ p[k] \in Int
        BY <2>1, <3>2
      <4> QED BY <1>2, <3>2, <4>1
    <3>4. l \in 1..k
      BY <3>3
    <3> QED BY <3>2, <3>4
  <2>4. q \in Bijection(1..k, T)
    <3>1. q \in [1..k -> T] /\ \A l \in 1..k : q[l] = p[l]
      BY <2>1, <2>2
    <3> HIDE DEF q, T
    <3>2. \A x \in T : \E l \in 1..k : q[l] = x
      BY <2>3, <3>1
    <3>3. \A a, b \in 1..k : q[a] = q[b] => a = b
      BY <1>2, <2>1, <3>1
    <3> QED BY <3>1, <3>2, <3>3 DEF Bijection, Injection, Surjection, IsInjective
  <2>5. IsFiniteSet(1..k) /\ Cardinality(1..k) = k
    BY FS_Interval
  <2> HIDE DEF q, T
  <2>6. Cardinality(T) = k
    BY <2>4, <2>5, FS_Bijection DEF ExistsBijection
  <2> QED BY <2>6 DEF T
<1> HIDE DEF C
<1>5. p[i] \in S /\ C(p[i]) = i
  BY <1>2, <1>3, <1>4
<1>6. \A x \in S : C(x) = i => x = p[i]
  <2>1. TAKE x \in S
  <2>2. PICK l \in 1..m : p[l] = x
    BY <1>2
  <2>3. C(x) = l
    BY <1>4, <2>2
  <2> QED BY <2>2, <2>3
<1>7. NthOf(S, i) = CHOOSE x \in S : C(x) = i
  BY DEF NthOf, C
<1> QED BY <1>5, <1>6, <1>7

\* The elements at the places S, in the order of the places.
Selects(t, p, s, S) ==
  /\ Lists(p, S)
  /\ DOMAIN t = 1..Cardinality(S) /\ Len(t) = Cardinality(S)
  /\ \A i \in 1..Cardinality(S) : t[i] = s[p[i]]

LEMMA AtSelects ==
  ASSUME NEW V, NEW s \in Seq(V), NEW S \in SUBSET DOMAIN s
  PROVE  /\ \E p : Selects(At(s, S), p, s, S)
         /\ At(s, S) \in Seq(V)
<1>1. Len(s) \in Nat /\ DOMAIN s = 1..Len(s)
  OBVIOUS
<1>2. PICK p : Cardinality(S) \in Nat /\ Lists(p, S)
  BY <1>1, PlacesAreListed
<1> DEFINE m == Cardinality(S)
<1>3. p \in [1..m -> S]
  BY <1>2 DEF Lists, Bijection, Injection
<1>4. \A i \in 1..m : NthOf(S, i) = p[i]
  BY <1>1, <1>2, NthIsListed
<1>5. At(s, S) = [i \in 1..m |-> s[p[i]]]
  BY <1>4 DEF At
<1>6. m \in Nat
  BY <1>2
<1> HIDE DEF m
<1>7. \A i \in 1..m : s[p[i]] \in V
  BY <1>3
<1>8. [i \in 1..m |-> s[p[i]]] \in Seq(V) /\ Len([i \in 1..m |-> s[p[i]]]) = m
  BY <1>6, <1>7
<1> DEFINE t == [i \in 1..m |-> s[p[i]]]
<1>9. DOMAIN t = 1..m /\ Len(t) = m /\ \A i \in 1..m : t[i] = s[p[i]]
  BY <1>8
<1> HIDE DEF t
<1>10. Selects(t, p, s, S)
  BY <1>2, <1>9 DEF Selects, m
<1> QED BY <1>5, <1>8, <1>10 DEF t

-----------------------------------------------------------------------------
(* csv_window *)

LEMMA LeastOfInterval ==
  ASSUME NEW a \in Int, NEW b \in Int, a <= b
  PROVE  (CHOOSE i \in a..b : \A j \in a..b : i <= j) = a
<1>1. a \in a..b /\ \A j \in a..b : a <= j
  OBVIOUS
<1>2. \A i \in a..b : (\A j \in a..b : i <= j) => i = a
  <2>1. TAKE i \in a..b
  <2>2. HAVE \A j \in a..b : i <= j
  <2>3. i <= a /\ a <= i /\ i \in Int
    BY <1>1, <2>2
  <2> QED BY <2>3
<1> QED BY <1>1, <1>2

LEMMA Products ==
  ASSUME NEW a \in Int, NEW b \in Int, NEW d \in Nat
  PROVE  a * d \in Int /\ (a <= b => a * d <= b * d) /\ (a + 1) * d = a * d + d
BY Z3

\* How often a step fits into a length.
LEMMA StepsThatFit ==
  ASSUME NEW a \in Nat, NEW d \in Nat \ {0}
  PROVE  a \div d \in Nat /\ (a \div d) * d <= a /\ a < (a \div d) * d + d
<1>1. a \div d \in Int /\ (a \div d) * d \in Int
  OBVIOUS
<1>2. (a \div d) * d <= a /\ a < (a \div d) * d + d
  BY Z3
<1>3. a \div d >= 0
  <2> DEFINE q == a \div d
  <2>1. q \in Int /\ a < q * d + d
    BY <1>1, <1>2
  <2> HIDE DEF q
  <2>2. q < 0 => q + 1 <= 0 /\ (q + 1) * d = q * d + d
    BY <2>1, Products
  <2>3. q < 0 => (q + 1) * d <= 0
    BY <2>1, <2>2, Z3
  <2>4. q * d \in Int
    BY <2>1
  <2> DEFINE x == q * d
  <2>5. x \in Int /\ a < x + d /\ (q < 0 => x + d <= 0)
    BY <2>1, <2>2, <2>3, <2>4
  <2> HIDE DEF x
  <2>6. ~(q < 0)
    BY <2>5
  <2> QED BY <2>1, <2>6 DEF q
<1> QED BY <1>1, <1>2, <1>3

\* csv_window yields as many windows as fit, each of its size, a step apart.
THEOREM WindowsAreThose ==
  ASSUME NEW c, c.n \in Nat, c.start \in Nat, c.size \in Nat \ {0}, c.step \in Nat \ {0},
         None \notin Seq(SUBSET Nat)
  PROVE  WindowsFit(c, Windows(c.n, c.start, c.size, c.step))
<1> DEFINE n == c.n
           start == c.start
           size == c.size
           step == c.step
           left == n - start
           count == IF size > left THEN 0 ELSE (left - size) \div step + 1
           Opening(w) == start + (w - 1) * step + 1
           r == [w \in 1..count |-> Opening(w)..(Opening(w) + size - 1)]
           Begin(w) == CHOOSE i \in r[w] : \A j \in r[w] : i <= j
<1>1. n \in Nat /\ start \in Nat /\ size \in Nat \ {0} /\ step \in Nat \ {0}
  OBVIOUS
<1>2. Windows(n, start, size, step) = IF start > n \/ count = 0 THEN None ELSE r
  BY DEF Windows
<1>3. CASE start > n \/ count = 0
  <2>1. Windows(n, start, size, step) = None
    BY <1>2, <1>3
  <2>2. start + size > n
    <3>1. CASE start > n
      BY <1>1, <3>1
    <3>2. CASE size > left
      BY <1>1, <3>2
    <3>3. CASE ~(start > n) /\ ~(size > left)
      <4>1. left - size \in Nat /\ count = (left - size) \div step + 1
        BY <1>1, <3>3
      <4>2. (left - size) \div step \in Nat
        BY <1>1, <4>1, StepsThatFit
      <4> QED BY <1>3, <3>3, <4>1, <4>2
    <3> QED BY <3>1, <3>2, <3>3
  <2> QED BY <2>1, <2>2 DEF WindowsFit
<1>4. CASE ~(start > n \/ count = 0)
  <2>1. Windows(n, start, size, step) = r
    BY <1>2, <1>4
  <2> DEFINE k == (left - size) \div step
             room == left - size
  <2>2. room \in Nat /\ count = k + 1 /\ room = n - start - size
    BY <1>1, <1>4
  <2>3. k \in Nat /\ k * step <= room /\ room < k * step + step
    BY <1>1, <2>2, StepsThatFit
  <2> HIDE DEF n, start, size, step, left, count, k, room
  <2>4. ASSUME NEW w \in 1..count
        PROVE  /\ Opening(w) \in Int /\ Opening(w) >= start + 1 /\ Opening(w) + size - 1 <= n
               /\ r[w] = Opening(w)..(Opening(w) + size - 1)
               /\ Cardinality(r[w]) = size /\ r[w] \subseteq (start + 1)..n
               /\ Begin(w) = Opening(w)
    <3>1. w - 1 \in Nat /\ w - 1 <= k
      BY <2>2, <2>3
    <3>2. (w - 1) * step \in Int /\ (w - 1) * step <= k * step /\ 0 * step <= (w - 1) * step
      BY <1>1, <2>3, <3>1, Products
    <3> DEFINE x == (w - 1) * step
               y == k * step
    <3>3. x \in Int /\ 0 <= x /\ x <= y /\ y <= room /\ y \in Int
      BY <1>1, <2>3, <3>2
    <3> HIDE DEF x, y
    <3>4. Opening(w) = start + x + 1
      BY DEF x
    <3> DEFINE f == Opening(w)
    <3>5. f \in Int /\ f >= start + 1 /\ f + size - 1 <= n
      BY <1>1, <2>2, <3>3, <3>4
    <3>6. r[w] = f..(f + size - 1)
      OBVIOUS
    <3> HIDE DEF f, r, Opening
    <3>7. Cardinality(f..(f + size - 1)) = size
      <4>1. f + size - 1 \in Int /\ ~(f > f + size - 1) /\ (f + size - 1) - f + 1 = size
        BY <1>1, <3>5
      <4> QED BY <3>5, <4>1, FS_Interval
    <3>8. f..(f + size - 1) \subseteq (start + 1)..n
      BY <1>1, <3>5
    <3>9. Begin(w) = f
      <4>1. f + size - 1 \in Int /\ f <= f + size - 1
        BY <1>1, <3>5
      <4>2. (CHOOSE i \in f..(f + size - 1) : \A j \in f..(f + size - 1) : i <= j) = f
        BY <3>5, <4>1, LeastOfInterval
      <4> QED BY <3>6, <4>2
    <3> HIDE DEF Begin
    <3> QED BY <3>5, <3>6, <3>7, <3>8, <3>9 DEF f
  <2>5. DOMAIN r = 1..count /\ count \in Nat /\ 1 \in 1..count /\ count \in 1..count
    BY <2>2, <2>3
  <2>6. r \in Seq(SUBSET Nat) /\ Len(r) = count
    <3>1. \A w \in 1..count : r[w] \in SUBSET Nat
      <4>1. TAKE w \in 1..count
      <4>2. r[w] \subseteq (start + 1)..n
        BY <2>4
      <4>3. (start + 1)..n \subseteq Nat
        BY <1>1
      <4> QED BY <4>2, <4>3
    <3>2. r = [w \in 1..count |-> r[w]]
      BY Zenon
    <3> HIDE DEF r
    <3>3. r \in [1..count -> SUBSET Nat]
      BY <3>1, <3>2
    <3> QED BY <2>5, <3>3
  <2>7. r # None
    BY <2>6
  <2>8. Opening(1) = start + 1
    <3>1. (1 - 1) * step = 0
      BY <1>1
    <3> QED BY <1>1, <3>1
  <2>9. \A w \in 2..count : Opening(w) = Opening(w - 1) + step
    <3>1. TAKE w \in 2..count
    <3>2. ((w - 1) - 1) + 1 = w - 1 /\ (w - 1) - 1 \in Int
      OBVIOUS
    <3>3. (w - 1) * step = ((w - 1) - 1) * step + step /\ ((w - 1) - 1) * step \in Int
      BY <1>1, <3>2, Products
    <3> QED BY <1>1, <3>3
  <2>10. Opening(count) + step + size > n + 1
    <3>1. count - 1 = k
      BY <2>2, <2>3
    <3>2. Opening(count) = start + k * step + 1
      BY <3>1
    <3> DEFINE y == k * step
    <3>3. y \in Int /\ room < y + step /\ Opening(count) = start + y + 1
      BY <1>1, <2>3, <3>2
    <3> HIDE DEF y, Opening
    <3> QED BY <1>1, <2>2, <3>3
  <2>11. \A w \in 2..count : w \in 1..count /\ w - 1 \in 1..count
    BY <2>5
  <2> HIDE DEF r, Opening
  <2>12. /\ \A w \in DOMAIN r : Cardinality(r[w]) = size /\ r[w] \subseteq (start + 1)..n
         /\ Begin(1) = start + 1
         /\ \A w \in 2..Len(r) : Begin(w) = Begin(w - 1) + step
         /\ Begin(Len(r)) + step + size > n + 1
    <3>1. \A w \in 1..count : Begin(w) = Opening(w) /\ Cardinality(r[w]) = size /\ r[w] \subseteq (start + 1)..n
      BY <2>4
    <3> HIDE DEF Begin
    <3> QED BY <2>5, <2>6, <2>8, <2>9, <2>10, <2>11, <3>1
  <2>13. WindowsFit(c, r)
    BY <2>7, <2>12, Zenon DEF WindowsFit, n, start, size, step
  <2> QED BY <2>1, <2>13, Zenon DEF n, start, size, step
<1> QED BY <1>3, <1>4

-----------------------------------------------------------------------------
(* Tables *)

Tables == Seq(Seq(Int))

LEMMA RowsNotBlank ==
  ASSUME NEW rows \in Tables
  PROVE  NotBlank(rows) \in Tables
<1> DEFINE S == {i \in DOMAIN rows : ~IsBlank(rows[i])}
<1>1. S \in SUBSET DOMAIN rows
  OBVIOUS
<1> HIDE DEF S
<1>2. At(rows, S) \in Seq(Seq(Int))
  BY <1>1, AtSelects DEF Tables
<1> QED BY <1>2 DEF NotBlank, S, Tables

-----------------------------------------------------------------------------
(* csv_diff *)

LEMMA RowsByKey ==
  ASSUME NEW rows, HasKeys(rows)
  PROVE  /\ DOMAIN Indexed(rows) = {rows[i][1] : i \in DOMAIN rows}
         /\ \A i \in DOMAIN rows : Indexed(rows)[rows[i][1]] = rows[i]
<1>1. DOMAIN Indexed(rows) = {rows[i][1] : i \in DOMAIN rows}
  BY DEF Indexed
<1>2. ASSUME NEW i \in DOMAIN rows
      PROVE  Indexed(rows)[rows[i][1]] = rows[i]
  <2> DEFINE k == rows[i][1]
             j == CHOOSE j \in DOMAIN rows : rows[j][1] = k
  <2>1. j \in DOMAIN rows /\ rows[j][1] = k
    OBVIOUS
  <2>2. j = i
    <3>1. \A a, b \in DOMAIN rows : rows[a][1] = rows[b][1] => a = b
      BY DEF HasKeys
    <3> HIDE DEF j
    <3> QED BY <2>1, <3>1
  <2>3. Indexed(rows)[k] = rows[j]
    BY DEF Indexed
  <2> QED BY <2>2, <2>3
<1> QED BY <1>1, <1>2

LEMMA TablesByKey ==
  ASSUME NEW a, NEW b, HasKeys(a), HasKeys(b)
  PROVE  (DOMAIN Indexed(a) = DOMAIN Indexed(b) /\ \A k \in DOMAIN Indexed(a) : Indexed(a)[k] = Indexed(b)[k])
           <=> ToSet(a) = ToSet(b)
<1> DEFINE l == Indexed(a)
           r == Indexed(b)
<1>1. DOMAIN l = {a[i][1] : i \in DOMAIN a} /\ \A i \in DOMAIN a : l[a[i][1]] = a[i]
  BY RowsByKey
<1>2. DOMAIN r = {b[i][1] : i \in DOMAIN b} /\ \A i \in DOMAIN b : r[b[i][1]] = b[i]
  BY RowsByKey
<1>3. ToSet(a) = {a[i] : i \in DOMAIN a} /\ ToSet(b) = {b[i] : i \in DOMAIN b}
  BY DEF ToSet
<1> HIDE DEF l, r
<1>4. ASSUME DOMAIN l = DOMAIN r, \A k \in DOMAIN l : l[k] = r[k]
      PROVE  ToSet(a) = ToSet(b)
  <2>1. ASSUME NEW i \in DOMAIN a
        PROVE  a[i] \in ToSet(b)
    <3>1. a[i][1] \in DOMAIN l
      BY <1>1
    <3>2. PICK j \in DOMAIN b : b[j][1] = a[i][1]
      BY <1>2, <1>4, <3>1
    <3>3. a[i] = b[j]
      BY <1>1, <1>2, <1>4, <3>1, <3>2
    <3> QED BY <1>3, <3>3
  <2>2. ASSUME NEW i \in DOMAIN b
        PROVE  b[i] \in ToSet(a)
    <3>1. b[i][1] \in DOMAIN l
      BY <1>2, <1>4
    <3>2. PICK j \in DOMAIN a : a[j][1] = b[i][1]
      BY <1>1, <3>1
    <3>3. b[i] = a[j]
      BY <1>1, <1>2, <1>4, <3>1, <3>2
    <3> QED BY <1>3, <3>3
  <2> QED BY <1>3, <2>1, <2>2
<1>5. ASSUME ToSet(a) = ToSet(b)
      PROVE  DOMAIN l = DOMAIN r /\ \A k \in DOMAIN l : l[k] = r[k]
  <2>1. \A i \in DOMAIN a : \E j \in DOMAIN b : a[i] = b[j]
    BY <1>3, <1>5
  <2>2. \A i \in DOMAIN b : \E j \in DOMAIN a : b[i] = a[j]
    BY <1>3, <1>5
  <2>3. DOMAIN l = DOMAIN r
    BY <1>1, <1>2, <2>1, <2>2
  <2>4. ASSUME NEW k \in DOMAIN l
        PROVE  l[k] = r[k]
    <3>1. PICK i \in DOMAIN a : a[i][1] = k
      BY <1>1
    <3>2. PICK j \in DOMAIN b : a[i] = b[j]
      BY <2>1
    <3> QED BY <1>1, <1>2, <3>1, <3>2
  <2> QED BY <2>3, <2>4
<1> QED BY <1>4, <1>5 DEF l, r

\* The differences of two tables.
Differences == [added : SUBSET Int, removed : SUBSET Int, changed : SUBSET Int]

\* csv_diff finds no difference exactly between tables with the same rows, and
\* the other way round what was added is removed.
THEOREM TableDiffsFound ==
  ASSUME NEW c, c.left \in Tables, c.right \in Tables, None \notin Differences
  PROVE  DiffTurnsAround(c, DiffTables(c.left, c.right, 2))
<1> DEFINE a == NotBlank(c.left)
           b == NotBlank(c.right)
           l == Indexed(a)
           r == Indexed(b)
           NotTaken(s, t) == \E table \in {s, t} : ~Fits(table, 2) \/ ~HasKeys(NotBlank(table))
           Found(x, y) == [added   |-> DOMAIN y \ DOMAIN x,
                           removed |-> DOMAIN x \ DOMAIN y,
                           changed |-> {k \in DOMAIN x \cap DOMAIN y : x[k] # y[k]}]
<1>1. /\ DiffTables(c.left, c.right, 2) = IF NotTaken(c.left, c.right) THEN None ELSE Found(l, r)
      /\ DiffTables(c.right, c.left, 2) = IF NotTaken(c.right, c.left) THEN None ELSE Found(r, l)
  BY DEF DiffTables
<1>2. {c.left, c.right} = {c.right, c.left}
  OBVIOUS
<1>3. NotTaken(c.left, c.right) = NotTaken(c.right, c.left)
  BY <1>2
<1>4. CASE NotTaken(c.left, c.right)
  <2>1. DiffTables(c.left, c.right, 2) = None /\ DiffTables(c.right, c.left, 2) = None
    BY <1>1, <1>3, <1>4
  <2> HIDE DEF a, b, l, r, NotTaken, Found
  <2> QED BY <2>1 DEF DiffTurnsAround
<1>5. CASE ~NotTaken(c.left, c.right)
  <2>1. DiffTables(c.left, c.right, 2) = Found(l, r) /\ DiffTables(c.right, c.left, 2) = Found(r, l)
    BY <1>1, <1>3, <1>5
  <2>2. Fits(c.left, 2) /\ Fits(c.right, 2) /\ HasKeys(a) /\ HasKeys(b)
    BY <1>5
  <2>3. a \in Tables /\ b \in Tables
    BY RowsNotBlank
  <2>4. (\A i \in DOMAIN a : Len(a[i]) = 2) /\ (\A i \in DOMAIN b : Len(b[i]) = 2)
    BY <2>2 DEF Fits
  <2> HIDE DEF NotTaken, a, b
  <2>5. (\A i \in DOMAIN a : a[i][1] \in Int) /\ (\A i \in DOMAIN b : b[i][1] \in Int)
    <3>1. ASSUME NEW s \in Seq(Int), Len(s) = 2
          PROVE  s[1] \in Int
      <4>1. 1 \in DOMAIN s
        BY <3>1
      <4> QED BY <4>1
    <3>2. (\A i \in DOMAIN a : a[i] \in Seq(Int)) /\ (\A i \in DOMAIN b : b[i] \in Seq(Int))
      BY <2>3 DEF Tables
    <3> QED BY <2>4, <3>1, <3>2
  <2>6. DOMAIN l \subseteq Int /\ DOMAIN r \subseteq Int
    <3>1. DOMAIN l = {a[i][1] : i \in DOMAIN a} /\ DOMAIN r = {b[i][1] : i \in DOMAIN b}
      BY <2>2, RowsByKey
    <3> QED BY <2>5, <3>1
  <2>7. (DOMAIN l = DOMAIN r /\ \A k \in DOMAIN l : l[k] = r[k]) <=> ToSet(a) = ToSet(b)
    BY <2>2, TablesByKey
  <2> HIDE DEF l, r
  <2>8. Found(l, r) \in Differences /\ Found(r, l) \in Differences
    BY <2>6 DEF Differences
  <2>9. Found(l, r) # None
    BY <2>8
  <2>10. Found(r, l) = [added |-> Found(l, r).removed, removed |-> Found(l, r).added, changed |-> Found(l, r).changed]
    <3>1. {k \in DOMAIN r \cap DOMAIN l : r[k] # l[k]} = {k \in DOMAIN l \cap DOMAIN r : l[k] # r[k]}
      OBVIOUS
    <3> QED BY <3>1
  <2>11. UNION {Found(l, r).added, Found(l, r).removed, Found(l, r).changed} = {}
           <=> (DOMAIN l = DOMAIN r /\ \A k \in DOMAIN l : l[k] = r[k])
    <3>1. /\ Found(l, r).added = DOMAIN r \ DOMAIN l
          /\ Found(l, r).removed = DOMAIN l \ DOMAIN r
          /\ Found(l, r).changed = {k \in DOMAIN l \cap DOMAIN r : l[k] # r[k]}
      OBVIOUS
    <3> HIDE DEF Found
    <3>2. UNION {Found(l, r).added, Found(l, r).removed, Found(l, r).changed} = {}
            <=> Found(l, r).added = {} /\ Found(l, r).removed = {} /\ Found(l, r).changed = {}
      OBVIOUS
    <3> QED BY <3>1, <3>2
  <2> HIDE DEF Found
  <2>12. UNION {Found(l, r).added, Found(l, r).removed, Found(l, r).changed} = {} <=> ToSet(a) = ToSet(b)
    BY <2>7, <2>11, Zenon
  <2>13. DiffTurnsAround(c, Found(l, r))
    BY <2>1, <2>9, <2>10, <2>12, Zenon DEF DiffTurnsAround, a, b
  <2> QED BY <2>1, <2>13, Zenon
<1> QED BY <1>4, <1>5

-----------------------------------------------------------------------------
(* Where keys come first *)

FirstPlaces(keys, n) == {k \in 1..n : \A l \in 1..(k - 1) : keys[l] # keys[k]}

Seen(keys, places, i) == IF \E j \in places : keys[j] = keys[i] THEN places ELSE places \cup {i}

\* What Unseen has gathered from some of the places.
Sees(g, keys, n) ==
  g = [s \in SUBSET (1..n) |-> IF s = {} THEN {} ELSE Seen(keys, g[s \ {Max(s)}], Max(s))]

LEMMA SeenExists ==
  ASSUME NEW n \in Nat, NEW keys
  PROVE  \E g : Sees(g, keys, n)
<1> DEFINE V == SUBSET (1..n)
           step == [x \in (1..n) \X V |-> Seen(keys, x[2], x[1])]
<1>1. /\ step \in [(1..n) \X V -> V]
      /\ \A i \in 1..n, v \in V : step[<<i, v>>] = Seen(keys, v, i)
  BY DEF Seen
<1>2. {} \in V
  OBVIOUS
<1> HIDE DEF step
<1>3. PICK g \in [SUBSET (1..n) -> V] : FoldsLeft(g, step, {}, n)
  <2> HIDE DEF V
  <2> QED BY <1>1, <1>2, FoldLeftExists
<1>4. ASSUME NEW s \in SUBSET (1..n)
      PROVE  g[s] = IF s = {} THEN {} ELSE Seen(keys, g[s \ {Max(s)}], Max(s))
  <2>1. g[s] = IF s = {} THEN {} ELSE step[<<Max(s), g[s \ {Max(s)}]>>]
    BY <1>3 DEF FoldsLeft
  <2>2. CASE s = {}
    BY <2>1, <2>2
  <2>3. CASE s # {}
    <3>1. Max(s) \in 1..n
      BY <2>3, MaxOfSome
    <3>2. g[s \ {Max(s)}] \in V
      OBVIOUS
    <3>3. step[<<Max(s), g[s \ {Max(s)}]>>] = Seen(keys, g[s \ {Max(s)}], Max(s))
      BY <1>1, <3>1, <3>2
    <3> QED BY <2>1, <2>3, <3>3
  <2> QED BY <2>2, <2>3
<1>5. g = [s \in SUBSET (1..n) |-> g[s]]
  BY Zenon
<1>6. Sees(g, keys, n)
  BY <1>4, <1>5 DEF Sees
<1> QED BY <1>6

LEMMA SeenOfBeginnings ==
  ASSUME NEW n \in Nat, NEW keys, NEW g, Sees(g, keys, n)
  PROVE  g[1..n] = FirstPlaces(keys, n)
<1> DEFINE A == {i \in 0..n : g[1..i] = FirstPlaces(keys, i)}
<1>1. 0 \in A
  <2>1. 1..0 = {} /\ {} \in SUBSET (1..n) /\ 0 \in 0..n
    OBVIOUS
  <2>2. g[{}] = {}
    BY <2>1 DEF Sees
  <2>3. FirstPlaces(keys, 0) = {}
    BY <2>1 DEF FirstPlaces
  <2> QED BY <2>1, <2>2, <2>3
<1>2. ASSUME NEW i \in 1..n, i - 1 \in A
      PROVE  i \in A
  <2>1. Max(1..i) = i /\ (1..i) \ {i} = 1..(i - 1) /\ 1..i # {} /\ i \in 0..n
    <3>1. i \in Nat \ {0} /\ i \in 0..n
      OBVIOUS
    <3> QED BY <3>1, LastPlace
  <2>2. 1..i \in SUBSET (1..n)
    OBVIOUS
  <2>3. g[1..i] = Seen(keys, g[1..(i - 1)], i)
    <3>1. g[1..i] = Seen(keys, g[(1..i) \ {Max(1..i)}], Max(1..i))
      BY <2>1, <2>2 DEF Sees
    <3> QED BY <2>1, <3>1
  <2>4. g[1..(i - 1)] = FirstPlaces(keys, i - 1)
    BY <1>2
  <2> DEFINE E == \E j \in FirstPlaces(keys, i - 1) : keys[j] = keys[i]
  <2>5. (\E l \in 1..(i - 1) : keys[l] = keys[i]) => E
    <3>1. SUFFICES ASSUME NEW l \in 1..(i - 1), keys[l] = keys[i]
                   PROVE  E
      OBVIOUS
    <3> DEFINE D == {x \in 1..(i - 1) : keys[x] = keys[i]}
    <3>2. D \in SUBSET Nat /\ l \in D
      BY <3>1
    <3>3. PICK k \in D : \A m \in D : k <= m
      <4>1. IsWellFoundedOn(OpToRel(<, Nat), Nat)
        BY NatLessThanWellFounded
      <4> HIDE DEF D
      <4>2. PICK k \in D : \A m \in D : ~(<<m, k>> \in OpToRel(<, Nat))
        BY <3>2, <4>1, WFMin, Zenon
      <4>3. \A m \in D : m \in Nat /\ k \in Nat /\ ~(m < k)
        BY <3>2, <4>2 DEF OpToRel
      <4>4. \A m \in D : k <= m
        BY <4>3
      <4> QED BY <4>4
    <3>4. k \in FirstPlaces(keys, i - 1)
      <4>1. \A m \in 1..(k - 1) : m \in 1..(i - 1) /\ ~(k <= m)
        OBVIOUS
      <4>2. \A m \in 1..(k - 1) : keys[m] # keys[k]
        BY <3>3, <4>1
      <4> QED BY <4>2 DEF FirstPlaces
    <3> QED BY <3>4
  <2>6. FirstPlaces(keys, i) = IF E THEN FirstPlaces(keys, i - 1) ELSE FirstPlaces(keys, i - 1) \cup {i}
    <3>1. E <=> \E l \in 1..(i - 1) : keys[l] = keys[i]
      BY <2>5 DEF FirstPlaces
    <3>2. \A k : k \in 1..i <=> k \in 1..(i - 1) \/ k = i
      OBVIOUS
    <3>3. i \notin 1..(i - 1)
      OBVIOUS
    <3> HIDE DEF E
    <3> QED BY <3>1, <3>2, <3>3 DEF FirstPlaces
  <2> QED BY <2>1, <2>3, <2>4, <2>6 DEF Seen
<1>3. n \in A
  <2>1. n \in 0..n
    OBVIOUS
  <2> HIDE DEF A
  <2> QED BY <1>1, <1>2, <2>1, UpTo
<1> QED BY <1>3

LEMMA UnseenAreFirst ==
  ASSUME NEW n \in Nat, NEW keys, DOMAIN keys = 1..n
  PROVE  Unseen(keys) = FirstPlaces(keys, n) /\ Unseen(keys) \in SUBSET (1..n)
<1> DEFINE v == [i \in DOMAIN keys |-> i]
           F(g) == [s \in SUBSET DOMAIN v |->
                      IF s = {} THEN {}
                      ELSE IF \E j \in g[s \ {Max(s)}] : keys[j] = keys[v[Max(s)]] THEN g[s \ {Max(s)}]
                           ELSE g[s \ {Max(s)}] \cup {v[Max(s)]}]
           G(g) == [s \in SUBSET (1..n) |-> IF s = {} THEN {} ELSE Seen(keys, g[s \ {Max(s)}], Max(s))]
<1>1. Unseen(keys) = (CHOOSE g : g = F(g))[DOMAIN v]
  BY Zenon DEF Unseen, FoldLeftDomain, FoldLeft, MapThenFoldSet
<1>2. DOMAIN v = 1..n
  OBVIOUS
<1>3. \A s \in SUBSET (1..n) : s # {} => Max(s) \in 1..n /\ v[Max(s)] = Max(s)
  BY MaxOfSome
<1>4. ASSUME NEW g
      PROVE  F(g) = G(g)
  <2> HIDE DEF v
  <2> QED BY <1>2, <1>3 DEF Seen
<1> HIDE DEF F, v
<1>5. Unseen(keys) = (CHOOSE g : g = G(g))[1..n]
  <2> HIDE DEF G
  <2> QED BY <1>1, <1>2, <1>4
<1> DEFINE g == CHOOSE g : g = G(g)
<1>6. Sees(g, keys, n)
  <2>1. \E h : h = G(h)
    <3>1. PICK h : Sees(h, keys, n)
      BY SeenExists, Zenon
    <3>2. h = G(h)
      BY <3>1, Zenon DEF Sees
    <3> QED BY <3>2, Zenon
  <2>2. g = G(g)
    <3> HIDE DEF G
    <3> QED BY <2>1
  <2> HIDE DEF g
  <2> QED BY <2>2 DEF Sees
<1> HIDE DEF g, G
<1>7. Unseen(keys) = FirstPlaces(keys, n)
  BY <1>5, <1>6, SeenOfBeginnings DEF g
<1> QED BY <1>7 DEF FirstPlaces

LEMMA AtAll ==
  ASSUME NEW V, NEW s \in Seq(V)
  PROVE  At(s, DOMAIN s) = s
<1> DEFINE n == Len(s)
           id == [i \in 1..n |-> i]
<1>1. n \in Nat /\ DOMAIN s = 1..n /\ s = [i \in 1..n |-> s[i]]
  OBVIOUS
<1>2. IsFiniteSet(1..n) /\ Cardinality(1..n) = n
  <2>1. n \in Int /\ 1 \in Int /\ (IF 1 > n THEN 0 ELSE n - 1 + 1) = n
    BY <1>1
  <2> HIDE DEF n
  <2> QED BY <2>1, FS_Interval
<1> HIDE DEF n
<1>3. id \in Bijection(1..n, 1..n) /\ \A i, j \in 1..n : i < j => id[i] < id[j]
  <2>1. id \in [1..n -> 1..n] /\ \A i \in 1..n : id[i] = i
    OBVIOUS
  <2> HIDE DEF id
  <2> QED BY <2>1 DEF Bijection, Injection, Surjection, IsInjective
<1>4. Lists(id, 1..n)
  BY <1>2, <1>3 DEF Lists
<1>5. \A i \in 1..n : NthOf(1..n, i) = i
  <2>1. TAKE i \in 1..n
  <2>2. 1..n \in SUBSET (1..n) /\ i \in 1..Cardinality(1..n)
    BY <1>2
  <2>3. NthOf(1..n, i) = id[i]
    BY <1>1, <1>4, <2>2, NthIsListed
  <2> QED BY <2>3
<1>6. At(s, 1..n) = [i \in 1..n |-> s[i]]
  BY <1>2, <1>5 DEF At
<1> QED BY <1>1, <1>6

ElementsAt(s, S) == {s[i] : i \in S}

LEMMA ChosenRows ==
  ASSUME NEW V, NEW s \in Seq(V), NEW S \in SUBSET DOMAIN s, NEW t, t = At(s, S)
  PROVE  /\ t \in Seq(V) /\ Len(t) = Cardinality(S)
         /\ \A i \in DOMAIN t : \E j \in S : t[i] = s[j]
         /\ ToSet(t) = ElementsAt(s, S)
<1>1. PICK p : Selects(t, p, s, S)
  BY AtSelects
<1> DEFINE m == Cardinality(S)
<1>2. /\ p \in [1..m -> S]
      /\ \A k \in S : \E j \in 1..m : p[j] = k
      /\ DOMAIN t = 1..m /\ Len(t) = m /\ \A i \in 1..m : t[i] = s[p[i]]
  BY <1>1 DEF Selects, Lists, Bijection, Injection, Surjection
<1>3. t \in Seq(V)
  BY AtSelects
<1> HIDE DEF m
<1>4. \A i \in DOMAIN t : \E j \in S : t[i] = s[j]
  BY <1>2
<1>5. ToSet(t) = ElementsAt(s, S)
  <2>1. \A k \in S : \E i \in DOMAIN t : t[i] = s[k]
    BY <1>2
  <2> QED BY <1>4, <2>1 DEF ToSet, ElementsAt
<1> QED BY <1>2, <1>3, <1>4, <1>5 DEF m

LEMMA RowsLeftHaveText ==
  ASSUME NEW rows \in Tables
  PROVE  /\ \A i \in DOMAIN NotBlank(rows) : ~IsBlank(NotBlank(rows)[i])
         /\ (\A i \in DOMAIN rows : ~IsBlank(rows[i])) => NotBlank(rows) = rows
<1> DEFINE S == {i \in DOMAIN rows : ~IsBlank(rows[i])}
<1>1. rows \in Seq(Seq(Int)) /\ S \in SUBSET DOMAIN rows /\ NotBlank(rows) = At(rows, S)
  BY DEF Tables, NotBlank
<1>2. \A j \in S : ~IsBlank(rows[j])
  OBVIOUS
<1>3. (\A i \in DOMAIN rows : ~IsBlank(rows[i])) => S = DOMAIN rows
  OBVIOUS
<1> HIDE DEF S
<1>4. \A i \in DOMAIN NotBlank(rows) : \E j \in S : NotBlank(rows)[i] = rows[j]
  BY <1>1, ChosenRows
<1>5. At(rows, DOMAIN rows) = rows
  BY <1>1, AtAll
<1>6. \A i \in DOMAIN NotBlank(rows) : ~IsBlank(NotBlank(rows)[i])
  BY <1>2, <1>4, Zenon
<1> QED BY <1>1, <1>3, <1>5, <1>6, Zenon

LEMMA ColumnsAreThose ==
  ASSUME NEW b \in Seq(Seq(Int)), NEW j \in Nat \ {0}, \A i \in DOMAIN b : Len(b[i]) >= j
  PROVE  /\ Column(b, j) \in Seq(Int) /\ DOMAIN Column(b, j) = DOMAIN b /\ Len(Column(b, j)) = Len(b)
         /\ \A i \in DOMAIN b : Column(b, j)[i] = b[i][j]
<1> DEFINE n == Len(b)
<1>1. n \in Nat /\ DOMAIN b = 1..n
  OBVIOUS
<1>2. ASSUME NEW i \in 1..n
      PROVE  b[i][j] \in Int
  <2>1. b[i] \in Seq(Int) /\ Len(b[i]) >= j
    BY <1>1
  <2>2. j \in DOMAIN b[i]
    BY <2>1
  <2> QED BY <2>1, <2>2
<1>3. Column(b, j) = [i \in 1..n |-> b[i][j]]
  BY <1>1 DEF Column
<1> HIDE DEF n
<1>4. [i \in 1..n |-> b[i][j]] \in [1..n -> Int]
  BY <1>2
<1>5. Column(b, j) \in Seq(Int) /\ Len(Column(b, j)) = n /\ DOMAIN Column(b, j) = 1..n
  BY <1>1, <1>3, <1>4
<1> QED BY <1>1, <1>3, <1>5 DEF n

\* csv_unique drops nothing of a table without equal keys.
LEMMA UniqueIsKept ==
  ASSUME NEW t \in Tables, \A i \in DOMAIN t : ~IsBlank(t[i]) /\ Len(t[i]) = 2,
         \A i, j \in DOMAIN t : i < j => t[i][1] # t[j][1]
  PROVE  Unique(t, 2) = t
<1>1. NotBlank(t) = t
  BY RowsLeftHaveText
<1>2. Fits(t, 2)
  BY <1>1 DEF Fits
<1>3. t \in Seq(Seq(Int)) /\ Len(t) \in Nat /\ DOMAIN t = 1..Len(t)
  BY DEF Tables
<1>4. DOMAIN Column(t, 1) = DOMAIN t /\ \A i \in DOMAIN t : Column(t, 1)[i] = t[i][1]
  <2>1. 1 \in Nat \ {0} /\ 2 >= 1
    OBVIOUS
  <2>2. \A i \in DOMAIN t : Len(t[i]) >= 1
    BY <2>1
  <2> QED BY <1>3, <2>1, <2>2, ColumnsAreThose
<1>5. Unseen(Column(t, 1)) = FirstPlaces(Column(t, 1), Len(t))
  BY <1>3, <1>4, UnseenAreFirst
<1>6. FirstPlaces(Column(t, 1), Len(t)) = DOMAIN t
  <2>1. \A i \in 1..Len(t) : \A l \in 1..(i - 1) : l \in DOMAIN t /\ l < i
    BY <1>3
  <2>2. \A i \in 1..Len(t) : \A l \in 1..(i - 1) : Column(t, 1)[l] # Column(t, 1)[i]
    BY <1>3, <1>4, <2>1
  <2> QED BY <1>3, <2>2 DEF FirstPlaces
<1>7. At(t, DOMAIN t) = t
  BY <1>3, AtAll
<1> QED BY <1>1, <1>2, <1>5, <1>6, <1>7, Zenon DEF Unique

\* csv_unique keeps the first row of every key and, done again, drops nothing.
THEOREM UniqueRowsAreFirst ==
  ASSUME NEW rows \in Tables
  PROVE  UniqueKeepsFirst(rows, Unique(rows, 2))
<1> DEFINE b == NotBlank(rows)
           first == {i \in DOMAIN b : \A j \in 1..(i - 1) : b[j][1] # b[i][1]}
           t == At(b, first)
           n == Len(b)
<1> SUFFICES ASSUME Fits(rows, 2)
             PROVE  UniqueKeepsFirst(rows, Unique(rows, 2))
  BY DEF Unique, UniqueKeepsFirst
<1>1. /\ b \in Seq(Seq(Int)) /\ n \in Nat /\ DOMAIN b = 1..n
      /\ \A i \in DOMAIN b : Len(b[i]) = 2 /\ ~IsBlank(b[i])
  <2>1. b \in Tables
    BY RowsNotBlank
  <2>2. \A i \in DOMAIN b : ~IsBlank(b[i])
    BY RowsLeftHaveText
  <2>3. \A i \in DOMAIN b : Len(b[i]) = 2
    BY DEF Fits
  <2> HIDE DEF b
  <2> QED BY <2>1, <2>2, <2>3 DEF Tables
<1> HIDE DEF b
<1>2. DOMAIN Column(b, 1) = DOMAIN b /\ \A i \in DOMAIN b : Column(b, 1)[i] = b[i][1]
  <2>1. 1 \in Nat \ {0} /\ 2 >= 1
    OBVIOUS
  <2>2. \A i \in DOMAIN b : Len(b[i]) >= 1
    BY <1>1, <2>1
  <2> QED BY <1>1, <2>1, <2>2, ColumnsAreThose
<1>3. Unseen(Column(b, 1)) = first
  <2>1. Unseen(Column(b, 1)) = FirstPlaces(Column(b, 1), n)
    BY <1>1, <1>2, UnseenAreFirst
  <2>2. \A i \in 1..n : \A j \in 1..(i - 1) : j \in DOMAIN b
    BY <1>1
  <2>3. FirstPlaces(Column(b, 1), n) = first
    BY <1>1, <1>2, <2>2 DEF FirstPlaces
  <2> QED BY <2>1, <2>3
<1>4. Unique(rows, 2) = t
  BY <1>3 DEF Unique, b
<1>5. PICK p : Selects(t, p, b, first)
  BY <1>1, AtSelects
<1> DEFINE m == Cardinality(first)
<1>6. /\ p \in [1..m -> first]
      /\ \A i, j \in 1..m : i < j => p[i] < p[j]
      /\ DOMAIN t = 1..m /\ Len(t) = m /\ \A i \in 1..m : t[i] = b[p[i]]
  BY <1>5 DEF Selects, Lists, Bijection, Injection
<1>7. t \in Tables
  BY <1>1, AtSelects DEF Tables
<1>8. ToSet(t) = ElementsAt(b, first)
  BY <1>1, ChosenRows
<1>9. first \subseteq DOMAIN b /\ \A i, j \in first : j < i => b[j][1] # b[i][1]
  <2>1. \A i, j \in first : j < i => j \in 1..(i - 1)
    BY <1>1
  <2> QED BY <2>1
<1> HIDE DEF t, m, first
<1>10. \A i \in DOMAIN t : ~IsBlank(t[i]) /\ Len(t[i]) = 2
  BY <1>1, <1>6, <1>9
<1>11. \A i, j \in DOMAIN t : i < j => t[i][1] # t[j][1]
  BY <1>6, <1>9
<1>12. Unique(t, 2) = t
  BY <1>7, <1>10, <1>11, UniqueIsKept
<1>13. Len(t) = Cardinality(first) /\ {b[i] : i \in first} = ToSet(t)
  BY <1>6, <1>8 DEF m, ElementsAt
<1>14. UniqueKeepsFirst(rows, t)
  BY <1>12, <1>13, Zenon DEF UniqueKeepsFirst, b, first
<1> QED BY <1>4, <1>14, Zenon

-----------------------------------------------------------------------------
(* csv_sort *)

\* o brings the rows s into the order of their keys: t.
Sorts(o, t, s, keys, descending) ==
  /\ o \in Bijection(1..Len(s), 1..Len(s))
  /\ t = [i \in 1..Len(s) |-> s[o[i]]] /\ Len(t) = Len(s)
  /\ \A i, j \in 1..Len(s) :
       i < j => \/ IF descending THEN keys[o[i]] > keys[o[j]] ELSE keys[o[i]] < keys[o[j]]
                \/ keys[o[i]] = keys[o[j]] /\ o[i] < o[j]

LEMMA SortedIsThat ==
  ASSUME NEW s \in Seq(Seq(Int)), NEW keys \in [DOMAIN s -> Int], NEW descending
  PROVE  \E o : Sorts(o, StableSorted(s, keys, descending), s, keys, descending)
<1> DEFINE S == DOMAIN s
           n == Cardinality(S)
           score == [i \in S |-> IF descending THEN keys[i] ELSE -keys[i]]
           P(q) == \A i, j \in 1..n :
                     i < j => \/ IF descending THEN keys[q[i]] > keys[q[j]] ELSE keys[q[i]] < keys[q[j]]
                              \/ keys[q[i]] = keys[q[j]] /\ q[i] < q[j]
           o == CHOOSE q \in [1..n -> S] : P(q)
           t == [i \in DOMAIN o |-> s[o[i]]]
<1>1. StableSorted(s, keys, descending) = t
  BY Zenon DEF StableSorted, SortedBy
<1>2. Len(s) \in Nat /\ S = 1..Len(s) /\ S \in SUBSET Nat
  OBVIOUS
<1>3. IsFiniteSet(S) /\ n = Len(s)
  <2>1. Len(s) \in Int /\ 1 \in Int /\ (IF 1 > Len(s) THEN 0 ELSE Len(s) - 1 + 1) = Len(s)
    BY <1>2
  <2>2. IsFiniteSet(1..Len(s)) /\ Cardinality(1..Len(s)) = Len(s)
    BY <2>1, FS_Interval
  <2> QED BY <1>2, <2>2
<1>4. score \in [S -> Int] /\ \A i \in S : keys[i] \in Int /\ score[i] = IF descending THEN keys[i] ELSE -keys[i]
  OBVIOUS
<1> HIDE DEF score
<1>5. ASSUME NEW q \in [1..n -> S]
      PROVE  P(q) <=> Ranks(q, score, S)
  <2> HIDE DEF n, S
  <2>1. ASSUME NEW i \in S, NEW j \in S
        PROVE  /\ (IF descending THEN keys[i] > keys[j] ELSE keys[i] < keys[j]) <=> score[i] > score[j]
               /\ keys[i] = keys[j] <=> score[i] = score[j]
    BY <1>4
  <2>2. \A i \in 1..n : q[i] \in S
    OBVIOUS
  <2>3. P(q) <=> \A i, j \in 1..n : i < j => \/ score[q[i]] > score[q[j]]
                                             \/ score[q[i]] = score[q[j]] /\ q[i] < q[j]
    BY <2>1, <2>2
  <2> HIDE DEF P
  <2> QED BY <2>3, Zenon DEF Ranks, n
<1>6. o \in [1..n -> S] /\ P(o)
  <2>1. PICK p : Ranks(p, score, S)
    BY <1>2, <1>3, <1>4, RankingExists
  <2>2. p \in [1..n -> S]
    BY <2>1 DEF Ranks
  <2>3. P(p)
    <3> HIDE DEF n, P
    <3> QED BY <1>5, <2>1, <2>2
  <2> HIDE DEF n, P
  <2> QED BY <2>2, <2>3
<1>7. Ranks(o, score, S)
  <2> HIDE DEF o, n, P
  <2> QED BY <1>5, <1>6
<1> HIDE DEF o
<1>8. o \in Bijection(1..n, S)
  <2> HIDE DEF S
  <2> QED BY <1>2, <1>3, <1>4, <1>7, RankedBestFirst, Zenon
<1>9. t = [i \in 1..Len(s) |-> s[o[i]]] /\ Len(t) = Len(s)
  <2>1. DOMAIN o = 1..Len(s)
    <3> HIDE DEF P, n
    <3> QED BY <1>3, <1>6
  <2> QED BY <1>2, <2>1
<1> HIDE DEF t
<1>10. Sorts(o, t, s, keys, descending)
  <2>1. o \in Bijection(1..Len(s), 1..Len(s))
    <3> HIDE DEF n, S
    <3> QED BY <1>2, <1>3, <1>8
  <2>2. 1..n = 1..Len(s)
    BY <1>3
  <2>3. P(o)
    BY <1>6
  <2> HIDE DEF n
  <2>4. \A i, j \in 1..Len(s) :
          i < j => \/ IF descending THEN keys[o[i]] > keys[o[j]] ELSE keys[o[i]] < keys[o[j]]
                   \/ keys[o[i]] = keys[o[j]] /\ o[i] < o[j]
    BY <2>2, <2>3, Zenon
  <2> HIDE DEF P
  <2> QED BY <1>9, <2>1, <2>4, Zenon DEF Sorts
<1> QED BY <1>1, <1>10, Zenon

\* The second cell tells where a row was.
Growing(s) == \A i, j \in DOMAIN s : i < j => s[i][2] < s[j][2]
NumberKeyed(s) == \A i \in DOMAIN s : s[i][1] \in Int
Measure(m) == m \in [Int -> Int]

\* In the order of what m makes of the first cell, of equal ones as they were.
Arranged(t, m, descending) ==
  \A i, j \in DOMAIN t :
    i < j => /\ m[t[i][1]] = m[t[j][1]] => t[i][2] < t[j][2]
             /\ IF descending THEN m[t[i][1]] >= m[t[j][1]] ELSE m[t[i][1]] <= m[t[j][1]]

LEMMA SortedHalf ==
  ASSUME NEW s \in Seq(Seq(Int)), NumberKeyed(s), Growing(s), NEW m, Measure(m), NEW descending
  PROVE  LET t == StableSorted(s, [i \in DOMAIN s |-> m[s[i][1]]], descending) IN
         /\ t \in Seq(Seq(Int)) /\ Len(t) = Len(s) /\ DOMAIN t = DOMAIN s
         /\ ToSet(t) = ToSet(s)
         /\ Arranged(t, m, descending)
<1> DEFINE keys == [i \in DOMAIN s |-> m[s[i][1]]]
           t == StableSorted(s, keys, descending)
           n == Len(s)
<1>1. keys \in [DOMAIN s -> Int] /\ \A i \in DOMAIN s : keys[i] = m[s[i][1]]
  BY DEF NumberKeyed, Measure
<1>2. n \in Nat /\ DOMAIN s = 1..n /\ \A i \in 1..n : s[i] \in Seq(Int)
  OBVIOUS
<1> HIDE DEF keys
<1>3. PICK o : Sorts(o, t, s, keys, descending)
  BY <1>1, SortedIsThat
<1> HIDE DEF t
<1>4. /\ o \in [1..n -> 1..n]
      /\ \A k \in 1..n : \E i \in 1..n : o[i] = k
      /\ t = [i \in 1..n |-> s[o[i]]] /\ Len(t) = n
      /\ \A i, j \in 1..n :
           i < j => \/ IF descending THEN keys[o[i]] > keys[o[j]] ELSE keys[o[i]] < keys[o[j]]
                    \/ keys[o[i]] = keys[o[j]] /\ o[i] < o[j]
  BY <1>3 DEF Sorts, Bijection, Injection, Surjection
<1>8. \A i \in 1..n : o[i] \in 1..n /\ t[i] = s[o[i]]
  BY <1>4
<1>9. \A k \in 1..n : \E i \in 1..n : o[i] = k
  BY <1>4, Zenon
<1>10. DOMAIN t = 1..n /\ Len(t) = n
  BY <1>4
<1>11. \A i, j \in 1..n :
         i < j => \/ IF descending THEN keys[o[i]] > keys[o[j]] ELSE keys[o[i]] < keys[o[j]]
                  \/ keys[o[i]] = keys[o[j]] /\ o[i] < o[j]
  BY <1>4, Zenon
<1> HIDE DEF n
<1>5. t \in Seq(Seq(Int))
  <2>1. \A i \in 1..n : s[o[i]] \in Seq(Int)
    BY <1>2, <1>8
  <2>2. t \in [1..n -> Seq(Int)]
    BY <1>4, <2>1, Zenon
  <2> QED BY <1>2, <2>2
<1>6. ToSet(t) = ToSet(s)
  <2>1. ToSet(t) = {t[i] : i \in 1..n} /\ ToSet(s) = {s[i] : i \in 1..n}
    BY <1>2, <1>10 DEF ToSet
  <2>2. \A k \in 1..n : \E i \in 1..n : t[i] = s[k]
    <3>1. TAKE k \in 1..n
    <3>2. PICK i \in 1..n : o[i] = k
      BY <1>9, Zenon
    <3> QED BY <1>8, <3>2, Zenon
  <2>3. \A i \in 1..n : t[i] \in {s[k] : k \in 1..n}
    BY <1>8, Zenon
  <2> QED BY <2>1, <2>2, <2>3, Zenon
<1>7. Arranged(t, m, descending)
  <2>1. ASSUME NEW i \in 1..n, NEW j \in 1..n, i < j
        PROVE  /\ m[t[i][1]] = m[t[j][1]] => t[i][2] < t[j][2]
               /\ IF descending THEN m[t[i][1]] >= m[t[j][1]] ELSE m[t[i][1]] <= m[t[j][1]]
    <3> DEFINE x == keys[o[i]]
               y == keys[o[j]]
               a == o[i]
               b == o[j]
    <3>1. a \in DOMAIN s /\ b \in DOMAIN s /\ t[i] = s[a] /\ t[j] = s[b] /\ a \in Int /\ b \in Int
      BY <1>2, <1>8
    <3>2. x \in Int /\ y \in Int /\ x = m[t[i][1]] /\ y = m[t[j][1]]
      BY <1>1, <3>1
    <3>3. \/ IF descending THEN x > y ELSE x < y
          \/ x = y /\ a < b
      BY <1>11, <2>1, Zenon
    <3> HIDE DEF x, y, a, b
    <3>4. a < b => t[i][2] < t[j][2]
      BY <3>1 DEF Growing
    <3>5. CASE descending
      <4>1. x > y \/ (x = y /\ a < b)
        BY <3>3, <3>5, Zenon
      <4>2. x >= y /\ (x = y => a < b)
        BY <3>2, <4>1
      <4> QED BY <3>2, <3>4, <3>5, <4>2, Zenon
    <3>6. CASE ~descending
      <4>1. x < y \/ (x = y /\ a < b)
        BY <3>3, <3>6, Zenon
      <4>2. x <= y /\ (x = y => a < b)
        BY <3>2, <4>1
      <4> QED BY <3>2, <3>4, <3>6, <4>2, Zenon
    <3> QED BY <3>5, <3>6
  <2> QED BY <1>10, <2>1, Zenon DEF Arranged
<1> QED BY <1>2, <1>10, <1>5, <1>6, <1>7 DEF t, keys, n

\* csv_sort: whichever the direction, rows with equal keys keep their order,
\* no row is lost, and what is no number comes last when sorted by number.
THEOREM TablesAreSorted ==
  ASSUME NEW c, c.rows \in Tables, c.descending \in BOOLEAN, c.numeric \in BOOLEAN,
         \A i \in DOMAIN c.rows : c.rows[i][1] \in Int /\ c.rows[i][2] = i
  PROVE  SortIsStable(c, SortRows(c.rows, c.descending, c.numeric))
<1> DEFINE s == c.rows
           d == c.descending
           id == [x \in Int |-> x]
           number == [x \in Int |-> NumberOf(x)]
           places == {i \in DOMAIN s : IsNumber(s[i][1])}
           texts == DOMAIN s \ places
           a == At(s, places)
           b == At(s, texts)
           u == StableSorted(a, [i \in DOMAIN a |-> NumberOf(a[i][1])], d)
           v == StableSorted(b, Column(b, 1), d)
           w == StableSorted(s, Column(s, 1), d)
<1>1. SortRows(s, d, c.numeric) = IF ~c.numeric THEN w ELSE u \o v
  BY DEF SortRows
<1>2. s \in Seq(Seq(Int)) /\ places \in SUBSET DOMAIN s /\ texts \in SUBSET DOMAIN s
  BY DEF Tables
<1>3. \A i \in DOMAIN s : s[i][1] \in Int /\ s[i][2] = i
  OBVIOUS
<1>4. Measure(id) /\ Measure(number)
  BY DEF Measure, NumberOf
<1>5. /\ \A x \in Int : id[x] = x
      /\ \A x \in Int : number[x] = NumberOf(x)
  OBVIOUS
<1>6. /\ \A i \in places : IsNumber(s[i][1])
      /\ \A i \in texts : ~IsNumber(s[i][1])
      /\ places \cup texts = DOMAIN s /\ places \cap texts = {}
  OBVIOUS
<1>12. a = At(s, places) /\ b = At(s, texts)
  OBVIOUS
<1> HIDE DEF s, d, id, number, places, texts, a, b
\* What has been chosen of the rows is as they were.
<1>7. ASSUME NEW S \in SUBSET DOMAIN s, NEW t, t = At(s, S)
      PROVE  /\ t \in Seq(Seq(Int)) /\ NumberKeyed(t) /\ Growing(t)
             /\ ToSet(t) = ElementsAt(s, S) /\ Len(t) = Cardinality(S)
             /\ \A i \in DOMAIN t : \E j \in S : t[i] = s[j]
  <2>1. PICK p : Selects(t, p, s, S)
    BY <1>2, <1>7, AtSelects
  <2>2. /\ t \in Seq(Seq(Int)) /\ Len(t) = Cardinality(S)
        /\ \A i \in DOMAIN t : \E j \in S : t[i] = s[j]
        /\ ToSet(t) = ElementsAt(s, S)
    BY <1>2, <1>7, ChosenRows
  <2> DEFINE m == Cardinality(S)
  <2>3. /\ p \in [1..m -> S]
        /\ \A i, j \in 1..m : i < j => p[i] < p[j]
        /\ DOMAIN t = 1..m /\ \A i \in 1..m : t[i] = s[p[i]]
    BY <2>1 DEF Selects, Lists, Bijection, Injection
  <2> HIDE DEF m
  <2>4. \A i \in 1..m : p[i] \in DOMAIN s /\ t[i] = s[p[i]]
    BY <2>3
  <2>5. \A i \in 1..m : t[i][1] \in Int /\ t[i][2] = p[i]
    BY <1>3, <2>4, Zenon
  <2>6. NumberKeyed(t)
    BY <2>3, <2>5, Zenon DEF NumberKeyed
  <2>7. Growing(t)
    <3> SUFFICES ASSUME NEW i \in 1..m, NEW j \in 1..m, i < j
                 PROVE  t[i][2] < t[j][2]
      BY <2>3, Zenon DEF Growing
    <3>1. t[i][2] = p[i] /\ t[j][2] = p[j]
      BY <2>5, Zenon
    <3>2. p[i] < p[j]
      BY <2>3, Zenon
    <3> QED BY <3>1, <3>2, Zenon
  <2> QED BY <2>2, <2>6, <2>7, Zenon
<1> DEFINE Taken(t, S) ==
      /\ t \in Seq(Seq(Int)) /\ NumberKeyed(t) /\ Growing(t)
      /\ ToSet(t) = ElementsAt(s, S) /\ Len(t) = Cardinality(S)
      /\ \A i \in DOMAIN t : \E j \in S : t[i] = s[j]
<1>13. \A S \in SUBSET DOMAIN s : Taken(At(s, S), S)
  <2>1. TAKE S \in SUBSET DOMAIN s
  <2> QED BY <1>7
<1> HIDE DEF Taken
<1>14. Taken(a, places) /\ Taken(b, texts)
  BY <1>2, <1>12, <1>13, Zenon
<1>8. NumberKeyed(s) /\ Growing(s)
  BY <1>3 DEF NumberKeyed, Growing
\* One stretch of rows.
<1>9. ASSUME NEW t \in Seq(Seq(Int)), NumberKeyed(t), Growing(t), NEW r, r = StableSorted(t, Column(t, 1), d)
      PROVE  /\ r \in Seq(Seq(Int)) /\ Len(r) = Len(t) /\ DOMAIN r = DOMAIN t
             /\ ToSet(r) = ToSet(t) /\ Arranged(r, id, d)
  <2>1. Column(t, 1) = [i \in DOMAIN t |-> id[t[i][1]]]
    BY <1>5, <1>9 DEF Column, NumberKeyed
  <2>2. LET q == StableSorted(t, [i \in DOMAIN t |-> id[t[i][1]]], d) IN
        /\ q \in Seq(Seq(Int)) /\ Len(q) = Len(t) /\ DOMAIN q = DOMAIN t
        /\ ToSet(q) = ToSet(t)
        /\ Arranged(q, id, d)
    BY <1>4, <1>9, SortedHalf, Zenon
  <2> QED BY <1>9, <2>1, <2>2, Zenon
<1>10. CASE ~c.numeric
  <2>1. SortRows(s, d, c.numeric) = w
    BY <1>1, <1>10, Zenon
  <2>2. /\ w \in Seq(Seq(Int)) /\ Len(w) = Len(s)
        /\ ToSet(w) = ToSet(s) /\ Arranged(w, id, d)
    BY <1>2, <1>8, <1>9, Zenon
  <2> HIDE DEF w
  <2>3. \A i \in DOMAIN w : w[i][1] \in Int
    <3>1. ToSet(w) = {w[i] : i \in DOMAIN w} /\ ToSet(s) = {s[i] : i \in DOMAIN s}
      BY Zenon DEF ToSet
    <3>2. \A i \in DOMAIN w : \E j \in DOMAIN s : w[i] = s[j]
      BY <2>2, <3>1
    <3> QED BY <1>3, <3>2, Zenon
  <2>4. ASSUME NEW i \in DOMAIN w, NEW j \in DOMAIN w, i < j
        PROVE  /\ w[i][1] = w[j][1] => w[i][2] < w[j][2]
               /\ IF d THEN w[i][1] >= w[j][1] ELSE w[i][1] <= w[j][1]
    <3>1. /\ id[w[i][1]] = id[w[j][1]] => w[i][2] < w[j][2]
          /\ IF d THEN id[w[i][1]] >= id[w[j][1]] ELSE id[w[i][1]] <= id[w[j][1]]
      BY <2>2, <2>4, Zenon DEF Arranged
    <3>2. id[w[i][1]] = w[i][1] /\ id[w[j][1]] = w[j][1]
      BY <1>5, <2>3, Zenon
    <3> QED BY <3>1, <3>2, Zenon
  <2>5. SortIsStable(c, w)
    BY <1>10, <2>2, <2>4, Zenon DEF SortIsStable, s, d
  <2> QED BY <2>1, <2>5, Zenon DEF s, d
<1>11. CASE c.numeric
  <2>1. SortRows(s, d, c.numeric) = u \o v
    BY <1>1, <1>11, Zenon
  <2>2. /\ a \in Seq(Seq(Int)) /\ NumberKeyed(a) /\ Growing(a)
        /\ ToSet(a) = ElementsAt(s, places) /\ Len(a) = Cardinality(places)
        /\ \A i \in DOMAIN a : \E j \in places : a[i] = s[j]
    BY <1>14, Zenon DEF Taken
  <2>3. /\ b \in Seq(Seq(Int)) /\ NumberKeyed(b) /\ Growing(b)
        /\ ToSet(b) = ElementsAt(s, texts) /\ Len(b) = Cardinality(texts)
        /\ \A i \in DOMAIN b : \E j \in texts : b[i] = s[j]
    BY <1>14, Zenon DEF Taken
  <2>4. /\ u \in Seq(Seq(Int)) /\ Len(u) = Len(a) /\ DOMAIN u = DOMAIN a
        /\ ToSet(u) = ToSet(a) /\ Arranged(u, number, d)
    <3>1. [i \in DOMAIN a |-> NumberOf(a[i][1])] = [i \in DOMAIN a |-> number[a[i][1]]]
      BY <1>5, <2>2 DEF NumberKeyed
    <3>2. LET q == StableSorted(a, [i \in DOMAIN a |-> number[a[i][1]]], d) IN
          /\ q \in Seq(Seq(Int)) /\ Len(q) = Len(a) /\ DOMAIN q = DOMAIN a
          /\ ToSet(q) = ToSet(a)
          /\ Arranged(q, number, d)
      BY <1>4, <2>2, SortedHalf, Zenon
    <3> QED BY <3>1, <3>2, Zenon
  <2>5. /\ v \in Seq(Seq(Int)) /\ Len(v) = Len(b) /\ DOMAIN v = DOMAIN b
        /\ ToSet(v) = ToSet(b) /\ Arranged(v, id, d)
    BY <1>9, <2>3, Zenon
  <2> HIDE DEF u, v
  <2>6. /\ \A i \in DOMAIN u : \E j \in places : u[i] = s[j]
        /\ \A i \in DOMAIN v : \E j \in texts : v[i] = s[j]
    <3>1. /\ ToSet(u) = {u[i] : i \in DOMAIN u} /\ ToSet(a) = {a[i] : i \in DOMAIN a}
          /\ ToSet(v) = {v[i] : i \in DOMAIN v} /\ ToSet(b) = {b[i] : i \in DOMAIN b}
      BY Zenon DEF ToSet
    <3>2. \A i \in DOMAIN u : \E j \in DOMAIN a : u[i] = a[j]
      <4>1. TAKE i \in DOMAIN u
      <4>2. u[i] \in {a[j] : j \in DOMAIN a}
        BY <2>4, <3>1, Zenon
      <4> QED BY <4>2, Zenon
    <3>3. \A i \in DOMAIN v : \E j \in DOMAIN b : v[i] = b[j]
      <4>1. TAKE i \in DOMAIN v
      <4>2. v[i] \in {b[j] : j \in DOMAIN b}
        BY <2>5, <3>1, Zenon
      <4> QED BY <4>2, Zenon
    <3>4. \A i \in DOMAIN u : \E j \in places : u[i] = s[j]
      <4>1. TAKE i \in DOMAIN u
      <4>2. PICK k \in DOMAIN a : u[i] = a[k]
        BY <3>2, Zenon
      <4>3. PICK j \in places : a[k] = s[j]
        BY <2>2, Zenon
      <4> QED BY <4>2, <4>3, Zenon
    <3>5. \A i \in DOMAIN v : \E j \in texts : v[i] = s[j]
      <4>1. TAKE i \in DOMAIN v
      <4>2. PICK k \in DOMAIN b : v[i] = b[k]
        BY <3>3, Zenon
      <4>3. PICK j \in texts : b[k] = s[j]
        BY <2>3, Zenon
      <4> QED BY <4>2, <4>3, Zenon
    <3> QED BY <3>4, <3>5, Zenon
  <2>7. /\ \A i \in DOMAIN u : u[i][1] \in Int /\ IsNumber(u[i][1])
        /\ \A i \in DOMAIN v : v[i][1] \in Int /\ ~IsNumber(v[i][1])
    <3>1. \A j \in places : s[j][1] \in Int /\ IsNumber(s[j][1])
      BY <1>2, <1>3, <1>6, Zenon
    <3>2. \A j \in texts : s[j][1] \in Int /\ ~IsNumber(s[j][1])
      BY <1>2, <1>3, <1>6, Zenon
    <3>3. \A i \in DOMAIN u : u[i][1] \in Int /\ IsNumber(u[i][1])
      BY <2>6, <3>1, Zenon
    <3>4. \A i \in DOMAIN v : v[i][1] \in Int /\ ~IsNumber(v[i][1])
      BY <2>6, <3>2, Zenon
    <3> QED BY <3>3, <3>4, Zenon
  <2> DEFINE r == u \o v
             m == Len(u)
             n == Len(v)
  <2>8. /\ m \in Nat /\ n \in Nat /\ DOMAIN u = 1..m /\ DOMAIN v = 1..n
        /\ DOMAIN r = 1..(m + n) /\ Len(r) = m + n
        /\ \A i \in 1..(m + n) : r[i] = IF i <= m THEN u[i] ELSE v[i - m]
    <3>1. u \in Seq(Seq(Int)) /\ v \in Seq(Seq(Int))
      BY <2>4, <2>5, Zenon
    <3> QED BY <3>1
  <2>9. Len(r) = Len(s)
    <3>1. Len(s) \in Nat /\ DOMAIN s = 1..Len(s)
      BY <1>2
    <3>2. IsFiniteSet(DOMAIN s) /\ Cardinality(DOMAIN s) = Len(s)
      <4>1. Len(s) \in Int /\ 1 \in Int /\ (IF 1 > Len(s) THEN 0 ELSE Len(s) - 1 + 1) = Len(s)
        BY <3>1
      <4>2. IsFiniteSet(1..Len(s)) /\ Cardinality(1..Len(s)) = Len(s)
        BY <4>1, FS_Interval
      <4> QED BY <3>1, <4>2
    <3>3. IsFiniteSet(places) /\ IsFiniteSet(texts)
      BY <1>2, <3>2, FS_Subset
    <3>4. Cardinality(places \cup texts) = Cardinality(places) + Cardinality(texts) - Cardinality(places \cap texts)
      BY <3>3, FS_Union
    <3>5. Cardinality(places \cap texts) = 0 /\ Cardinality(places) \in Nat /\ Cardinality(texts) \in Nat
      BY <1>6, <3>3, FS_EmptySet, FS_CardinalityType
    <3>6. Cardinality(places) = m /\ Cardinality(texts) = n
      BY <2>2, <2>3, <2>4, <2>5, Zenon
    <3> HIDE DEF r, m, n
    <3> QED BY <1>6, <2>8, <3>2, <3>4, <3>5, <3>6
  <2> HIDE DEF r, m, n
  <2>10. ToSet(r) = ToSet(s)
    <3>1. ToSet(r) = ToSet(u) \cup ToSet(v)
      <4>1. ToSet(r) = {r[i] : i \in 1..(m + n)} /\ ToSet(u) = {u[i] : i \in 1..m} /\ ToSet(v) = {v[i] : i \in 1..n}
        BY <2>8 DEF ToSet
      <4>2. \A i \in 1..(m + n) : (i \in 1..m /\ r[i] = u[i]) \/ (i - m \in 1..n /\ r[i] = v[i - m])
        BY <2>8
      <4>3. \A i \in 1..m : i \in 1..(m + n) /\ r[i] = u[i]
        BY <2>8
      <4>4. \A i \in 1..n : m + i \in 1..(m + n) /\ r[m + i] = v[i]
        BY <2>8
      <4> QED BY <4>1, <4>2, <4>3, <4>4
    <3>2. ToSet(u) = ElementsAt(s, places) /\ ToSet(v) = ElementsAt(s, texts)
      BY <2>2, <2>3, <2>4, <2>5, Zenon
    <3>3. ToSet(s) = ElementsAt(s, places) \cup ElementsAt(s, texts)
      BY <1>6 DEF ToSet, ElementsAt
    <3> QED BY <3>1, <3>2, <3>3, Zenon
  <2>11. ASSUME NEW i \in 1..(m + n), NEW j \in 1..(m + n), i < j
         PROVE  /\ r[i][1] = r[j][1] => r[i][2] < r[j][2]
                /\ IsNumber(r[j][1]) => IsNumber(r[i][1])
                /\ IsNumber(r[j][1]) => IF d THEN NumberOf(r[i][1]) >= NumberOf(r[j][1])
                                        ELSE NumberOf(r[i][1]) <= NumberOf(r[j][1])
    <3>1. CASE j <= m
      <4>1. i \in 1..m /\ j \in 1..m /\ r[i] = u[i] /\ r[j] = u[j]
        BY <2>8, <2>11, <3>1
      <4>2. /\ number[u[i][1]] = number[u[j][1]] => u[i][2] < u[j][2]
            /\ IF d THEN number[u[i][1]] >= number[u[j][1]] ELSE number[u[i][1]] <= number[u[j][1]]
        BY <2>4, <2>8, <2>11, <4>1, Zenon DEF Arranged
      <4>3. /\ number[u[i][1]] = NumberOf(u[i][1]) /\ number[u[j][1]] = NumberOf(u[j][1])
            /\ IsNumber(u[i][1])
        BY <1>5, <2>7, <2>8, <4>1, Zenon
      <4> QED BY <4>1, <4>2, <4>3, Zenon
    <3>2. CASE i <= m /\ j > m
      <4>1. i \in 1..m /\ j - m \in 1..n /\ r[i] = u[i] /\ r[j] = v[j - m]
        BY <2>8, <2>11, <3>2
      <4>2. IsNumber(r[i][1]) /\ ~IsNumber(r[j][1])
        BY <2>7, <2>8, <4>1, Zenon
      <4> QED BY <4>2, Zenon
    <3>3. CASE i > m
      <4>1. i - m \in 1..n /\ j - m \in 1..n /\ r[i] = v[i - m] /\ r[j] = v[j - m] /\ i - m < j - m
        BY <2>8, <2>11, <3>3
      <4>2. id[v[i - m][1]] = id[v[j - m][1]] => v[i - m][2] < v[j - m][2]
        BY <2>5, <2>8, <4>1, Zenon DEF Arranged
      <4>3. ~IsNumber(r[j][1])
        BY <2>7, <2>8, <4>1, Zenon
      <4> QED BY <4>1, <4>2, <4>3, Zenon
    <3>4. m \in Int /\ i \in Int /\ j \in Int
      BY <2>8
    <3>5. j <= m \/ (i <= m /\ j > m) \/ i > m
      BY <3>4
    <3> QED BY <3>1, <3>2, <3>3, <3>5, Zenon
  <2>12. SortIsStable(c, r)
    BY <1>11, <2>8, <2>9, <2>10, <2>11, Zenon DEF SortIsStable, s, d
  <2> QED BY <2>1, <2>12, Zenon DEF r, s, d
<1> QED BY <1>10, <1>11

-----------------------------------------------------------------------------
(* semver_compare *)

LEMMA SomeLeast ==
  ASSUME NEW D \in SUBSET Nat, D # {}
  PROVE  \E k \in D : \A j \in D : k <= j
<1> SUFFICES ASSUME ~\E k \in D : \A j \in D : k <= j
             PROVE  FALSE
  OBVIOUS
<1> DEFINE A == {n \in Nat : \A j \in D : n <= j}
<1>1. 0 \in A
  OBVIOUS
<1>2. ASSUME NEW n \in A
      PROVE  n + 1 \in A
  <2>1. n \notin D
    OBVIOUS
  <2> QED BY <2>1
<1>3. A \subseteq Nat
  OBVIOUS
<1> HIDE DEF A
<1>4. A = Nat
  BY <1>1, <1>2, <1>3, NatsAll
<1>5. PICK j \in D : TRUE
  OBVIOUS
<1>6. j + 1 \in A
  BY <1>4
<1> QED BY <1>6 DEF A

LEMMA FirstOfSigns ==
  ASSUME NEW n \in Nat, NEW s \in [1..n -> Int]
  PROVE  /\ (\A i \in 1..n : s[i] = 0) => FirstOf(s) = 0
         /\ \A k \in 1..n : s[k] # 0 /\ (\A j \in 1..(k - 1) : s[j] = 0) => FirstOf(s) = s[k]
<1> DEFINE differ == {i \in 1..n : s[i] # 0}
           first == CHOOSE i \in differ : \A j \in differ : i <= j
<1>1. FirstOf(s) = IF differ = {} THEN 0 ELSE s[first]
  BY DEF FirstOf
<1>2. (\A i \in 1..n : s[i] = 0) => differ = {}
  OBVIOUS
<1>3. ASSUME NEW k \in 1..n, s[k] # 0, \A j \in 1..(k - 1) : s[j] = 0
      PROVE  FirstOf(s) = s[k]
  <2>1. k \in differ /\ \A j \in differ : k <= j
    BY <1>3
  <2>2. \A i \in differ : (\A j \in differ : i <= j) => i = k
    BY <2>1
  <2> HIDE DEF differ
  <2>3. first = k
    BY <2>1, <2>2
  <2> QED BY <1>1, <2>1, <2>3
<1> QED BY <1>1, <1>2, <1>3

LEMMA SignsAre ==
  ASSUME NEW x \in Int, NEW y \in Int
  PROVE  /\ Sign(x, y) \in Int
         /\ x = y => Sign(x, y) = 0
         /\ x < y => Sign(x, y) = -1 /\ Sign(y, x) = 1
BY DEF Sign

\* The first n of a sequence are numbers.
Begins(f, n) == \A i \in 1..n : f[i] \in Int

LEMMA PartsCompared ==
  ASSUME NEW n \in Nat, NEW f, NEW g, Begins(f, n), Begins(g, n)
  PROVE  LET Signs(x, y) == FirstOf([i \in 1..n |-> Sign(x[i], y[i])]) IN
         /\ (\A i \in 1..n : f[i] = g[i]) => Signs(f, g) = 0 /\ Signs(g, f) = 0
         /\ \A k \in 1..n : f[k] < g[k] /\ (\A j \in 1..(k - 1) : f[j] = g[j]) =>
              Signs(f, g) = -1 /\ Signs(g, f) = 1
<1> DEFINE p == [i \in 1..n |-> Sign(f[i], g[i])]
           q == [i \in 1..n |-> Sign(g[i], f[i])]
<1>1. \A i \in 1..n : f[i] \in Int /\ g[i] \in Int
  BY Zenon DEF Begins
<1>2. p \in [1..n -> Int] /\ q \in [1..n -> Int]
  BY <1>1, SignsAre
<1>3. \A i \in 1..n : p[i] = Sign(f[i], g[i]) /\ q[i] = Sign(g[i], f[i])
  OBVIOUS
<1> HIDE DEF p, q
<1>4. (\A i \in 1..n : f[i] = g[i]) => FirstOf(p) = 0 /\ FirstOf(q) = 0
  <2> HAVE \A i \in 1..n : f[i] = g[i]
  <2>1. \A i \in 1..n : p[i] = 0 /\ q[i] = 0
    BY <1>1, <1>3, SignsAre
  <2> QED BY <1>2, <2>1, FirstOfSigns
<1>5. ASSUME NEW k \in 1..n, f[k] < g[k], \A j \in 1..(k - 1) : f[j] = g[j]
      PROVE  FirstOf(p) = -1 /\ FirstOf(q) = 1
  <2>1. p[k] = -1 /\ q[k] = 1
    <3>1. f[k] \in Int /\ g[k] \in Int /\ p[k] = Sign(f[k], g[k]) /\ q[k] = Sign(g[k], f[k])
      BY <1>1, <1>3
    <3>2. Sign(f[k], g[k]) = -1 /\ Sign(g[k], f[k]) = 1
      BY <1>5, <3>1, SignsAre
    <3> QED BY <3>1, <3>2
  <2>2. \A j \in 1..(k - 1) : p[j] = 0 /\ q[j] = 0
    <3> TAKE j \in 1..(k - 1)
    <3>1. j \in 1..n /\ f[j] = g[j]
      BY <1>5
    <3> QED BY <1>1, <1>3, <3>1, SignsAre
  <2>3. p[k] # 0 /\ q[k] # 0
    BY <2>1
  <2> QED BY <1>2, <2>1, <2>2, <2>3, FirstOfSigns
<1> QED BY <1>4, <1>5 DEF p, q

\* Versions as they are compared, by the ranks of their identifiers.
IsPlain(v) == v \in [core : [1..3 -> Int], pre : Seq(Nat)]
PlainCompare(a, b) ==
  LET core == FirstOf([i \in 1..3 |-> Sign(a.core[i], b.core[i])])
      shared == IF Len(a.pre) < Len(b.pre) THEN DOMAIN a.pre ELSE DOMAIN b.pre
      ids == FirstOf([i \in shared |-> Sign(a.pre[i], b.pre[i])])
  IN  IF core # 0 THEN core
      ELSE IF a.pre = <<>> \/ b.pre = <<>> THEN Sign(Len(b.pre), Len(a.pre))
      ELSE IF ids # 0 THEN ids ELSE Sign(Len(a.pre), Len(b.pre))

\* What is compared of a version, place after place: a release has a 1 where
\* others have a 0, and an identifier that is not there comes before all.
Ranked(v) ==
  [k \in Nat \ {0} |->
     IF k <= 3 THEN v.core[k]
     ELSE IF k = 4 THEN IF v.pre = <<>> THEN 1 ELSE 0
     ELSE IF k - 4 <= Len(v.pre) THEN v.pre[k - 4] ELSE -1]

\* One is before the other at the place where they first differ.
Ahead(f, g, k) == f[k] < g[k] /\ \A j \in 1..(k - 1) : f[j] = g[j]

LEMMA RanksAre ==
  ASSUME NEW v, IsPlain(v)
  PROVE  /\ Ranked(v) \in [Nat \ {0} -> Int]
         /\ \A k \in 1..3 : Ranked(v)[k] = v.core[k] /\ v.core[k] \in Int
         /\ Ranked(v)[4] = IF Len(v.pre) = 0 THEN 1 ELSE 0
         /\ Len(v.pre) \in Nat /\ (v.pre = <<>> <=> Len(v.pre) = 0)
         /\ \A i \in 1..Len(v.pre) : Ranked(v)[i + 4] = v.pre[i] /\ v.pre[i] \in Nat
         /\ \A i \in Nat : i > Len(v.pre) => Ranked(v)[i + 4] = -1
<1>1. v.core \in [1..3 -> Int] /\ v.pre \in Seq(Nat)
  BY DEF IsPlain
<1>2. Len(v.pre) \in Nat /\ (v.pre = <<>> <=> Len(v.pre) = 0)
  BY <1>1
<1>3. \A i \in 1..Len(v.pre) : v.pre[i] \in Nat
  BY <1>1
<1>4. \A k \in 1..3 : v.core[k] \in Int
  BY <1>1
<1> DEFINE n == Len(v.pre)
           f == Ranked(v)
<1>5. \A k \in Nat \ {0} :
        f[k] = IF k <= 3 THEN v.core[k]
               ELSE IF k = 4 THEN IF v.pre = <<>> THEN 1 ELSE 0
               ELSE IF k - 4 <= n THEN v.pre[k - 4] ELSE -1
  BY DEF Ranked
<1>6. f = [k \in Nat \ {0} |-> f[k]]
  BY DEF Ranked
<1> HIDE DEF f, n
<1>7. \A k \in 1..3 : f[k] = v.core[k]
  BY <1>5
<1>8. f[4] = IF n = 0 THEN 1 ELSE 0
  BY <1>2, <1>5 DEF n
<1>9. \A i \in 1..n : f[i + 4] = v.pre[i]
  <2> TAKE i \in 1..n
  <2>1. i + 4 \in Nat \ {0} /\ ~(i + 4 <= 3) /\ i + 4 # 4 /\ (i + 4) - 4 = i /\ i <= n
    BY <1>2 DEF n
  <2> QED BY <1>5, <2>1
<1>10. \A i \in Nat : i > n => f[i + 4] = -1
  <2> TAKE i \in Nat
  <2> HAVE i > n
  <2>1. i + 4 \in Nat \ {0} /\ ~(i + 4 <= 3) /\ i + 4 # 4 /\ (i + 4) - 4 = i /\ ~(i <= n)
    BY <1>2 DEF n
  <2> QED BY <1>5, <2>1
<1>11. \A k \in Nat \ {0} : f[k] \in Int
  <2> TAKE k \in Nat \ {0}
  <2>1. CASE k <= 3
    BY <1>4, <1>5, <2>1
  <2>2. CASE k = 4
    BY <1>8, <2>2, <1>2 DEF n
  <2>3. CASE k > 4
    <3>1. k - 4 \in Nat \ {0} /\ (k - 4) + 4 = k
      BY <2>3
    <3>2. k - 4 > n \/ k - 4 \in 1..n
      BY <1>2, <3>1 DEF n
    <3>3. \A i \in Nat \ {0} : i + 4 = k /\ (i > n \/ i \in 1..n) => f[k] \in Int
      BY <1>3, <1>9, <1>10 DEF n
    <3> HIDE DEF n
    <3> QED BY <3>1, <3>2, <3>3
  <2> QED BY <2>1, <2>2, <2>3
<1>12. f \in [Nat \ {0} -> Int]
  BY <1>6, <1>11
<1> QED BY <1>2, <1>3, <1>4, <1>7, <1>8, <1>9, <1>10, <1>12, Zenon DEF f, n

LEMMA ComparedByRanks ==
  ASSUME NEW a, NEW b, IsPlain(a), IsPlain(b)
  PROVE  /\ \A k \in Nat \ {0} :
              Ahead(Ranked(a), Ranked(b), k) => PlainCompare(a, b) = -1 /\ PlainCompare(b, a) = 1
         /\ Ranked(a) = Ranked(b) => PlainCompare(a, b) = 0 /\ PlainCompare(b, a) = 0
<1> DEFINE f == Ranked(a)
           g == Ranked(b)
           m == Len(a.pre)
           n == Len(b.pre)
           l == IF m < n THEN m ELSE n
           Core(x, y) == FirstOf([i \in 1..3 |-> Sign(x.core[i], y.core[i])])
           Same(x, y) == FirstOf([i \in 1..l |-> Sign(x.pre[i], y.pre[i])])
           Compared(x, y) ==
             IF Core(x, y) # 0 THEN Core(x, y)
             ELSE IF x.pre = <<>> \/ y.pre = <<>> THEN Sign(Len(y.pre), Len(x.pre))
             ELSE IF Same(x, y) # 0 THEN Same(x, y) ELSE Sign(Len(x.pre), Len(y.pre))
<1>1. /\ \A k \in 1..3 : f[k] = a.core[k] /\ a.core[k] \in Int
      /\ f[4] = IF m = 0 THEN 1 ELSE 0
      /\ m \in Nat /\ (a.pre = <<>> <=> m = 0)
      /\ \A i \in 1..m : f[i + 4] = a.pre[i] /\ a.pre[i] \in Nat
      /\ \A i \in Nat : i > m => f[i + 4] = -1
  BY RanksAre, Zenon
<1>2. /\ \A k \in 1..3 : g[k] = b.core[k] /\ b.core[k] \in Int
      /\ g[4] = IF n = 0 THEN 1 ELSE 0
      /\ n \in Nat /\ (b.pre = <<>> <=> n = 0)
      /\ \A i \in 1..n : g[i + 4] = b.pre[i] /\ b.pre[i] \in Nat
      /\ \A i \in Nat : i > n => g[i + 4] = -1
  BY RanksAre, Zenon
<1>3. DOMAIN a.pre = 1..m /\ DOMAIN b.pre = 1..n
  BY DEF IsPlain
<1>4. l \in Nat /\ l <= m /\ l <= n /\ (l = m \/ l = n)
  BY <1>1, <1>2
<1>5. PlainCompare(a, b) = Compared(a, b) /\ PlainCompare(b, a) = Compared(b, a)
  <2>4. /\ (IF m < n THEN DOMAIN a.pre ELSE DOMAIN b.pre) = 1..l
        /\ (IF n < m THEN DOMAIN b.pre ELSE DOMAIN a.pre) = 1..l
    BY <1>1, <1>2, <1>3
  <2> DEFINE Shared(x, y) == IF Len(x.pre) < Len(y.pre) THEN DOMAIN x.pre ELSE DOMAIN y.pre
             Full(x, y) ==
               IF Core(x, y) # 0 THEN Core(x, y)
               ELSE IF x.pre = <<>> \/ y.pre = <<>> THEN Sign(Len(y.pre), Len(x.pre))
               ELSE IF FirstOf([i \in Shared(x, y) |-> Sign(x.pre[i], y.pre[i])]) # 0
                      THEN FirstOf([i \in Shared(x, y) |-> Sign(x.pre[i], y.pre[i])])
                      ELSE Sign(Len(x.pre), Len(y.pre))
  <2>5. PlainCompare(a, b) = Full(a, b) /\ PlainCompare(b, a) = Full(b, a)
    BY Zenon DEF PlainCompare
  <2>6. Shared(a, b) = 1..l /\ Shared(b, a) = 1..l
    BY <2>4
  <2> QED BY <2>5, <2>6, Zenon
<1>6. Begins(a.core, 3) /\ Begins(b.core, 3) /\ Begins(a.pre, l) /\ Begins(b.pre, l)
  BY <1>1, <1>2, <1>4 DEF Begins
<1>7. /\ (\A i \in 1..3 : a.core[i] = b.core[i]) => Core(a, b) = 0 /\ Core(b, a) = 0
      /\ \A k \in 1..3 : a.core[k] < b.core[k] /\ (\A j \in 1..(k - 1) : a.core[j] = b.core[j]) =>
           Core(a, b) = -1 /\ Core(b, a) = 1
  <2>1. 3 \in Nat
    OBVIOUS
  <2> QED BY <1>6, <2>1, PartsCompared, Zenon
<1>8. /\ (\A i \in 1..l : a.pre[i] = b.pre[i]) => Same(a, b) = 0 /\ Same(b, a) = 0
      /\ \A k \in 1..l : a.pre[k] < b.pre[k] /\ (\A j \in 1..(k - 1) : a.pre[j] = b.pre[j]) =>
           Same(a, b) = -1 /\ Same(b, a) = 1
  <2> HIDE DEF l
  <2> QED BY <1>4, <1>6, PartsCompared, Zenon
<1>9. /\ Sign(m, n) \in Int /\ Sign(n, m) \in Int
      /\ m = n => Sign(m, n) = 0 /\ Sign(n, m) = 0
      /\ m < n => Sign(m, n) = -1 /\ Sign(n, m) = 1
      /\ n < m => Sign(n, m) = -1 /\ Sign(m, n) = 1
  <2>1. m \in Int /\ n \in Int
    BY <1>1, <1>2
  <2> HIDE DEF m, n
  <2> QED BY <2>1, SignsAre
<1> HIDE DEF f, g, m, n, l, Core, Same
<1>10. ASSUME NEW k \in Nat \ {0}, Ahead(f, g, k)
       PROVE  Compared(a, b) = -1 /\ Compared(b, a) = 1
  <2>1. f[k] < g[k] /\ \A j \in 1..(k - 1) : f[j] = g[j]
    BY <1>10, Zenon DEF Ahead
  <2>2. CASE k <= 3
    <3>1. \A j \in 1..(k - 1) : j \in 1..3
      BY <2>2
    <3>2. a.core[k] < b.core[k] /\ \A j \in 1..(k - 1) : a.core[j] = b.core[j]
      BY <1>1, <1>2, <2>1, <2>2, <3>1
    <3>3. k \in 1..3
      BY <2>2
    <3>4. Core(a, b) = -1 /\ Core(b, a) = 1
      BY <1>7, <3>2, <3>3, Zenon
    <3> QED BY <3>4
  <2>3. CASE k > 3
    <3>1. Core(a, b) = 0 /\ Core(b, a) = 0
      <4>1. \A i \in 1..3 : i \in 1..(k - 1)
        BY <2>3
      <4>2. \A i \in 1..3 : a.core[i] = b.core[i]
        BY <1>1, <1>2, <2>1, <4>1, Zenon
      <4> QED BY <1>7, <4>2, Zenon
    <3>2. CASE k = 4
      <4>1. m > 0 /\ n = 0
        BY <1>1, <1>2, <2>1, <3>2
      <4>2. b.pre = <<>> /\ n < m
        BY <1>1, <1>2, <4>1
      <4> QED BY <1>9, <3>1, <4>2 DEF m, n
    <3>3. CASE k > 4
      <4> DEFINE i == k - 4
      <4>1. f[4] = g[4]
        BY <2>1, <3>3
      <4>2. i \in Nat \ {0} /\ i + 4 = k
        BY <3>3
      <4>3. \A j \in 1..(i - 1) : j + 4 \in 1..(k - 1)
        BY <3>3
      <4>4. \A j \in 1..(i - 1) : f[j + 4] = g[j + 4]
        BY <2>1, <4>3, Zenon
      <4>5. f[i + 4] < g[i + 4]
        BY <2>1, <4>2
      <4> HIDE DEF i
      <4>6. i <= n
        <5>1. CASE i > n
          <6>1. g[i + 4] = -1
            BY <1>2, <4>2, <5>1
          <6>2. i > m \/ i \in 1..m
            BY <1>1, <4>2
          <6>3. f[i + 4] = -1 \/ f[i + 4] \in Nat
            BY <1>1, <4>2, <6>2
          <6> QED BY <4>5, <6>1, <6>3
        <5> QED BY <1>2, <4>2, <5>1
      <4>7. n > 0 /\ m > 0
        BY <1>1, <1>2, <4>1, <4>2, <4>6
      <4>8. a.pre # <<>> /\ b.pre # <<>>
        BY <1>1, <1>2, <4>7
      <4>9. CASE i <= m
        <5>1. i \in 1..l /\ \A j \in 1..(i - 1) : j \in 1..l
          BY <1>4, <4>2, <4>6, <4>9
        <5>2. a.pre[i] < b.pre[i] /\ \A j \in 1..(i - 1) : a.pre[j] = b.pre[j]
          BY <1>1, <1>2, <1>4, <4>4, <4>5, <5>1
        <5>3. Same(a, b) = -1 /\ Same(b, a) = 1
          BY <1>8, <5>1, <5>2, Zenon
        <5> QED BY <3>1, <4>8, <5>3
      <4>10. CASE i > m
        <5>1. m < n
          BY <1>1, <1>2, <4>2, <4>6, <4>10
        <5>2. \A j \in 1..l : j \in 1..(i - 1) /\ j \in 1..m /\ j \in 1..n
          BY <1>1, <1>2, <1>4, <4>2, <4>10
        <5>3. \A j \in 1..l : a.pre[j] = b.pre[j]
          BY <1>1, <1>2, <4>4, <5>2, Zenon
        <5>4. Same(a, b) = 0 /\ Same(b, a) = 0
          BY <1>8, <5>3, Zenon
        <5> QED BY <1>9, <3>1, <4>8, <5>1, <5>4 DEF m, n
      <4> QED BY <1>1, <4>2, <4>9, <4>10
    <3> QED BY <2>3, <3>2, <3>3
  <2> QED BY <2>2, <2>3
<1>11. ASSUME f = g
       PROVE  Compared(a, b) = 0 /\ Compared(b, a) = 0
  <2>1. Core(a, b) = 0 /\ Core(b, a) = 0
    <3>1. \A i \in 1..3 : a.core[i] = b.core[i]
      BY <1>1, <1>2, <1>11, Zenon
    <3> QED BY <1>7, <3>1, Zenon
  <2>2. m = n
    <3>1. CASE m < n
      <4>1. n \in 1..n /\ n > m /\ n \in Nat
        BY <1>1, <1>2, <3>1
      <4>2. g[n + 4] \in Nat /\ f[n + 4] = -1
        BY <1>1, <1>2, <4>1
      <4> QED BY <1>11, <4>2
    <3>2. CASE n < m
      <4>1. m \in 1..m /\ m > n /\ m \in Nat
        BY <1>1, <1>2, <3>2
      <4>2. f[m + 4] \in Nat /\ g[m + 4] = -1
        BY <1>1, <1>2, <4>1
      <4> QED BY <1>11, <4>2
    <3> QED BY <1>1, <1>2, <3>1, <3>2
  <2>3. Same(a, b) = 0 /\ Same(b, a) = 0
    <3>1. \A i \in 1..l : i \in 1..m /\ i \in 1..n
      BY <1>1, <1>2, <1>4
    <3>2. \A i \in 1..l : a.pre[i] = b.pre[i]
      BY <1>1, <1>2, <1>11, <3>1, Zenon
    <3> QED BY <1>8, <3>2, Zenon
  <2>4. Sign(m, n) = 0 /\ Sign(n, m) = 0
    BY <1>9, <2>2, Zenon
  <2> QED BY <2>1, <2>3, <2>4 DEF m, n
<1> HIDE DEF Compared
<1>12. \A k \in Nat \ {0} : Ahead(f, g, k) => PlainCompare(a, b) = -1 /\ PlainCompare(b, a) = 1
  BY <1>5, <1>10
<1>13. f = g => PlainCompare(a, b) = 0 /\ PlainCompare(b, a) = 0
  BY <1>5, <1>11
<1> QED BY <1>12, <1>13, Zenon DEF f, g

Rankings == [Nat \ {0} -> Int]

LEMMA DifferenceIsOrder ==
  ASSUME NEW f \in Rankings, NEW g \in Rankings
  PROVE  f = g \/ (\E k \in Nat \ {0} : Ahead(f, g, k)) \/ (\E k \in Nat \ {0} : Ahead(g, f, k))
<1> DEFINE differ == {k \in Nat \ {0} : f[k] # g[k]}
<1>1. CASE differ = {}
  <2>1. \A k \in Nat \ {0} : f[k] = g[k]
    BY <1>1
  <2> QED BY <2>1 DEF Rankings
<1>2. CASE differ # {}
  <2>1. differ \in SUBSET Nat
    OBVIOUS
  <2> HIDE DEF differ
  <2>2. PICK k \in differ : \A j \in differ : k <= j
    BY <1>2, <2>1, SomeLeast, Zenon
  <2>3. k \in Nat \ {0} /\ f[k] # g[k]
    BY DEF differ
  <2>4. \A j \in 1..(k - 1) : f[j] = g[j]
    <3> TAKE j \in 1..(k - 1)
    <3>1. j \in Nat \ {0} /\ ~(k <= j)
      BY <2>3
    <3> QED BY <2>2, <3>1 DEF differ
  <2>5. f[k] \in Int /\ g[k] \in Int
    BY <2>3 DEF Rankings
  <2>6. f[k] < g[k] \/ g[k] < f[k]
    BY <2>3, <2>5
  <2>7. Ahead(f, g, k) \/ Ahead(g, f, k)
    BY <2>4, <2>6, Zenon DEF Ahead
  <2> QED BY <2>3, <2>7, Zenon
<1> QED BY <1>1, <1>2

LEMMA OrderIsTransitive ==
  ASSUME NEW f \in Rankings, NEW g \in Rankings, NEW h \in Rankings,
         NEW k \in Nat \ {0}, NEW l \in Nat \ {0}, Ahead(f, g, k), Ahead(g, h, l)
  PROVE  \E m \in Nat \ {0} : Ahead(f, h, m)
<1> DEFINE m == IF k < l THEN k ELSE l
<1>1. m \in Nat \ {0} /\ m <= k /\ m <= l /\ (m = k \/ m = l)
  OBVIOUS
<1>2. /\ f[k] < g[k] /\ \A j \in 1..(k - 1) : f[j] = g[j]
      /\ g[l] < h[l] /\ \A j \in 1..(l - 1) : g[j] = h[j]
  BY Zenon DEF Ahead
<1> HIDE DEF m
<1>3. \A j \in 1..(m - 1) : j \in 1..(k - 1) /\ j \in 1..(l - 1)
  BY <1>1
<1>4. \A j \in 1..(m - 1) : f[j] = h[j]
  BY <1>2, <1>3, Zenon
<1>5. f[m] \in Int /\ g[m] \in Int /\ h[m] \in Int
  BY <1>1 DEF Rankings
<1>6. f[m] < g[m] \/ f[m] = g[m]
  <2>1. m = k \/ m \in 1..(k - 1)
    BY <1>1
  <2> QED BY <1>2, <2>1, Zenon
<1>7. g[m] < h[m] \/ g[m] = h[m]
  <2>1. m = l \/ m \in 1..(l - 1)
    BY <1>1
  <2> QED BY <1>2, <2>1, Zenon
<1>8. f[m] < g[m] \/ g[m] < h[m]
  BY <1>1, <1>2, Zenon
<1>9. f[m] < h[m]
  BY <1>5, <1>6, <1>7, <1>8
<1> QED BY <1>1, <1>4, <1>9, Zenon DEF Ahead

LEMMA SameFunctions ==
  ASSUME NEW S, NEW T, NEW s \in [S -> T], NEW t \in [S -> T], \A x \in S : s[x] = t[x]
  PROVE  s = t
OBVIOUS

LEMMA EqualRanks ==
  ASSUME NEW a, NEW b, IsPlain(a), IsPlain(b), Ranked(a) = Ranked(b)
  PROVE  a = b
<1> DEFINE f == Ranked(a)
           g == Ranked(b)
           m == Len(a.pre)
           n == Len(b.pre)
<1>1. /\ \A k \in 1..3 : f[k] = a.core[k]
      /\ m \in Nat
      /\ \A i \in 1..m : f[i + 4] = a.pre[i] /\ a.pre[i] \in Nat
      /\ \A i \in Nat : i > m => f[i + 4] = -1
  BY RanksAre, Zenon
<1>2. /\ \A k \in 1..3 : g[k] = b.core[k]
      /\ n \in Nat
      /\ \A i \in 1..n : g[i + 4] = b.pre[i] /\ b.pre[i] \in Nat
      /\ \A i \in Nat : i > n => g[i + 4] = -1
  BY RanksAre, Zenon
<1>3. /\ a.core \in [1..3 -> Int] /\ a.pre \in Seq(Nat) /\ DOMAIN a.pre = 1..m
      /\ b.core \in [1..3 -> Int] /\ b.pre \in Seq(Nat) /\ DOMAIN b.pre = 1..n
  BY DEF IsPlain
<1>4. a = [core |-> a.core, pre |-> a.pre] /\ b = [core |-> b.core, pre |-> b.pre]
  BY DEF IsPlain
<1>8. f = g
  OBVIOUS
<1> HIDE DEF f, g, m, n
<1>5. a.core = b.core
  <2>1. \A k \in 1..3 : a.core[k] = b.core[k]
    <3> TAKE k \in 1..3
    <3>1. f[k] = a.core[k] /\ g[k] = b.core[k]
      BY <1>1, <1>2, Zenon
    <3> QED BY <1>8, <3>1, Zenon
  <2>2. \A s, t \in [1..3 -> Int] : (\A k \in 1..3 : s[k] = t[k]) => s = t
    OBVIOUS
  <2> QED BY <1>3, <2>1, <2>2, Zenon
<1>6. m = n
  <2>1. CASE m < n
    <3>1. n \in 1..n /\ n > m /\ n \in Nat
      BY <1>1, <1>2, <2>1
    <3>2. f[n + 4] = -1 /\ g[n + 4] \in Nat
      BY <1>1, <1>2, <3>1
    <3>3. ~(-1 \in Nat)
      OBVIOUS
    <3> QED BY <1>8, <3>2, <3>3, Zenon
  <2>2. CASE n < m
    <3>1. m \in 1..m /\ m > n /\ m \in Nat
      BY <1>1, <1>2, <2>2
    <3>2. g[m + 4] = -1 /\ f[m + 4] \in Nat
      BY <1>1, <1>2, <3>1
    <3>3. ~(-1 \in Nat)
      OBVIOUS
    <3> QED BY <1>8, <3>2, <3>3, Zenon
  <2> QED BY <1>1, <1>2, <2>1, <2>2
<1>7. a.pre = b.pre
  <2>1. \A i \in 1..n : a.pre[i] = b.pre[i]
    BY <1>1, <1>2, <1>6, <1>8, Zenon
  <2>2. a.pre \in [1..m -> Nat] /\ b.pre \in [1..n -> Nat]
    BY <1>3 DEF m, n
  <2>3. a.pre \in [1..n -> Nat]
    BY <1>6, <2>2, Zenon
  <2> DEFINE s == a.pre
             t == b.pre
             S == 1..n
  <2>4. s \in [S -> Nat] /\ t \in [S -> Nat] /\ \A i \in S : s[i] = t[i]
    BY <2>1, <2>2, <2>3, Zenon
  <2> HIDE DEF s, t, S
  <2>5. s = t
    BY <2>4, SameFunctions
  <2> QED BY <2>5 DEF s, t
<1> QED BY <1>4, <1>5, <1>7, Zenon

IsVersion(v) == v \in [core : [1..3 -> Int], pre : Seq([rank : Nat, zeros : Nat])]

LEMMA IdsCompared ==
  ASSUME NEW x \in [rank : Nat, zeros : Nat], NEW y \in [rank : Nat, zeros : Nat]
  PROVE  CompareIds(x, y) = Sign(x.rank, y.rank)
BY DEF CompareIds, IsNumeral, Sign

LEMMA SequencesOf ==
  ASSUME NEW S, NEW s \in Seq(S)
  PROVE  Len(s) \in Nat /\ DOMAIN s = 1..Len(s) /\ (s = <<>> <=> Len(s) = 0) /\ \A i \in 1..Len(s) : s[i] \in S
OBVIOUS

LEMMA PlainIs ==
  ASSUME NEW v, IsVersion(v)
  PROVE  /\ IsPlain(Plain(v)) /\ Plain(v).core = v.core
         /\ Len(v.pre) \in Nat /\ DOMAIN v.pre = 1..Len(v.pre) /\ (v.pre = <<>> <=> Len(v.pre) = 0)
         /\ Len(Plain(v).pre) = Len(v.pre) /\ DOMAIN Plain(v).pre = DOMAIN v.pre
         /\ Plain(v).pre = <<>> <=> v.pre = <<>>
         /\ \A i \in DOMAIN v.pre : v.pre[i] \in [rank : Nat, zeros : Nat] /\ Plain(v).pre[i] = v.pre[i].rank
<1> DEFINE s == v.pre
           n == Len(s)
           ranks == [i \in DOMAIN s |-> s[i].rank]
<1>1. s \in Seq([rank : Nat, zeros : Nat]) /\ v.core \in [1..3 -> Int]
  BY DEF IsVersion
<1>2. Plain(v) = [core |-> v.core, pre |-> ranks]
  BY DEF Plain
<1> HIDE DEF s
<1>3. n \in Nat /\ DOMAIN s = 1..n /\ (s = <<>> <=> n = 0) /\ \A i \in 1..n : s[i] \in [rank : Nat, zeros : Nat]
  BY <1>1, SequencesOf, Zenon
<1>4. ranks \in [1..n -> Nat] /\ \A i \in 1..n : ranks[i] = s[i].rank
  BY <1>3
<1> HIDE DEF n, ranks
<1>5. ranks \in Seq(Nat) /\ Len(ranks) = n /\ DOMAIN ranks = 1..n /\ (ranks = <<>> <=> n = 0)
  BY <1>3, <1>4
<1>6. Plain(v).core = v.core /\ Plain(v).pre = ranks
  BY <1>2
<1>7. IsPlain(Plain(v))
  BY <1>1, <1>2, <1>5 DEF IsPlain
<1> QED BY <1>3, <1>4, <1>5, <1>6, <1>7 DEF n, s

LEMMA ComparedPlainly ==
  ASSUME NEW a, NEW b, IsVersion(a), IsVersion(b)
  PROVE  CompareVersions(a, b) = PlainCompare(Plain(a), Plain(b))
<1> DEFINE p == Plain(a)
           q == Plain(b)
           Shared(x, y) == IF Len(x.pre) < Len(y.pre) THEN DOMAIN x.pre ELSE DOMAIN y.pre
           ids == [i \in Shared(a, b) |-> CompareIds(a.pre[i], b.pre[i])]
           signs == [i \in Shared(p, q) |-> Sign(p.pre[i], q.pre[i])]
           Decided(x, y, first) ==
             IF FirstOf([i \in 1..3 |-> Sign(x.core[i], y.core[i])]) # 0
               THEN FirstOf([i \in 1..3 |-> Sign(x.core[i], y.core[i])])
             ELSE IF x.pre = <<>> \/ y.pre = <<>> THEN Sign(Len(y.pre), Len(x.pre))
             ELSE IF first # 0 THEN first ELSE Sign(Len(x.pre), Len(y.pre))
<1>1. /\ p.core = a.core /\ Len(p.pre) = Len(a.pre) /\ DOMAIN p.pre = DOMAIN a.pre
      /\ p.pre = <<>> <=> a.pre = <<>>
      /\ Len(a.pre) \in Nat /\ DOMAIN a.pre = 1..Len(a.pre)
      /\ \A i \in DOMAIN a.pre : a.pre[i] \in [rank : Nat, zeros : Nat] /\ p.pre[i] = a.pre[i].rank
  BY PlainIs, Zenon
<1>2. /\ q.core = b.core /\ Len(q.pre) = Len(b.pre) /\ DOMAIN q.pre = DOMAIN b.pre
      /\ q.pre = <<>> <=> b.pre = <<>>
      /\ Len(b.pre) \in Nat /\ DOMAIN b.pre = 1..Len(b.pre)
      /\ \A i \in DOMAIN b.pre : b.pre[i] \in [rank : Nat, zeros : Nat] /\ q.pre[i] = b.pre[i].rank
  BY PlainIs, Zenon
<1>3. CompareVersions(a, b) = Decided(a, b, FirstOf(ids))
  BY Zenon DEF CompareVersions
<1>4. PlainCompare(p, q) = Decided(p, q, FirstOf(signs))
  BY Zenon DEF PlainCompare
<1> HIDE DEF p, q
<1>5. Shared(a, b) = Shared(p, q)
  BY <1>1, <1>2
<1>6. \A i \in Shared(a, b) : i \in DOMAIN a.pre /\ i \in DOMAIN b.pre
  BY <1>1, <1>2
<1>7. ids = signs
  <2>1. \A i \in Shared(a, b) : CompareIds(a.pre[i], b.pre[i]) = Sign(p.pre[i], q.pre[i])
    <3> TAKE i \in Shared(a, b)
    <3>1. a.pre[i] \in [rank : Nat, zeros : Nat] /\ b.pre[i] \in [rank : Nat, zeros : Nat]
      BY <1>1, <1>2, <1>6, Zenon
    <3>2. p.pre[i] = a.pre[i].rank /\ q.pre[i] = b.pre[i].rank
      BY <1>1, <1>2, <1>6, Zenon
    <3> QED BY <3>1, <3>2, IdsCompared, Zenon
  <2> QED BY <1>5, <2>1, Zenon
<1>8. \A first : Decided(a, b, first) = Decided(p, q, first)
  BY <1>1, <1>2, Zenon
<1> HIDE DEF Shared, ids, signs, Decided
<1> QED BY <1>3, <1>4, <1>7, <1>8, Zenon DEF p, q

\* semver_compare orders all versions: it is total and transitive, turns around
\* with its arguments and finds none but versions equal that differ at most in
\* the zeros before their numerals; a release comes after its pre-releases,
\* more identifiers come later than fewer, and a text after a number.
THEOREM VersionsAreOrdered ==
  ASSUME NEW c, IsVersion(c.a), IsVersion(c.b), IsVersion(c.c)
  PROVE  VersionsOrdered(c, <<CompareVersions(c.a, c.b), CompareVersions(c.b, c.c), CompareVersions(c.a, c.c)>>)
<1> DEFINE a == Plain(c.a)
           b == Plain(c.b)
           d == Plain(c.c)
           f == Ranked(a)
           g == Ranked(b)
           h == Ranked(d)
           ab == CompareVersions(c.a, c.b)
           ba == CompareVersions(c.b, c.a)
           bc == CompareVersions(c.b, c.c)
           ac == CompareVersions(c.a, c.c)
           Before(x, y) == \E k \in Nat \ {0} : Ahead(x, y, k)
           orders == <<ab, bc, ac>>
<1>0. IsPlain(a) /\ IsPlain(b) /\ IsPlain(d)
  BY PlainIs, Zenon
<1>12. ab = PlainCompare(a, b) /\ ba = PlainCompare(b, a) /\ bc = PlainCompare(b, d) /\ ac = PlainCompare(a, d)
  BY ComparedPlainly, Zenon
<1> HIDE DEF a, b, d, ab, ba, bc, ac
<1>1. f \in Rankings /\ g \in Rankings /\ h \in Rankings
  BY <1>0, RanksAre, Zenon DEF Rankings
<1>2. /\ Before(f, g) => ab = -1 /\ ba = 1
      /\ Before(g, f) => ab = 1 /\ ba = -1
      /\ f = g => ab = 0 /\ ba = 0
  BY <1>0, <1>12, ComparedByRanks
<1>3. /\ Before(g, h) => bc = -1
      /\ Before(h, g) => bc = 1
      /\ g = h => bc = 0
  BY <1>0, <1>12, ComparedByRanks
<1>4. /\ Before(f, h) => ac = -1
      /\ Before(h, f) => ac = 1
      /\ f = h => ac = 0
  BY <1>0, <1>12, ComparedByRanks
<1>5. /\ f = g \/ Before(f, g) \/ Before(g, f)
      /\ g = h \/ Before(g, h) \/ Before(h, g)
      /\ f = h \/ Before(f, h) \/ Before(h, f)
  BY <1>1, DifferenceIsOrder
<1>6. Before(f, g) /\ Before(g, h) => Before(f, h)
  BY <1>1, OrderIsTransitive
<1>7. f = g <=> a = b
  BY <1>0, EqualRanks
<1>8. /\ a.core = b.core /\ IsStrictPrefix(a.pre, b.pre) =>
           IF a.pre = <<>> THEN Before(g, f) ELSE Before(f, g)
      /\ a.core = b.core /\ a.pre # <<>> /\ b.pre # <<>> /\ a.pre[1] < b.pre[1] => Before(f, g)
  <2> DEFINE m == Len(a.pre)
             n == Len(b.pre)
  <2>1. /\ \A k \in 1..3 : f[k] = a.core[k]
        /\ f[4] = IF m = 0 THEN 1 ELSE 0
        /\ m \in Nat /\ (a.pre = <<>> <=> m = 0)
        /\ \A i \in 1..m : f[i + 4] = a.pre[i]
        /\ \A i \in Nat : i > m => f[i + 4] = -1
    BY <1>0, RanksAre, Zenon
  <2>2. /\ \A k \in 1..3 : g[k] = b.core[k]
        /\ g[4] = IF n = 0 THEN 1 ELSE 0
        /\ n \in Nat /\ (b.pre = <<>> <=> n = 0)
        /\ \A i \in 1..n : g[i + 4] = b.pre[i] /\ b.pre[i] \in Nat
    BY <1>0, RanksAre, Zenon
  <2> HIDE DEF f, g, m, n
  <2>3. ASSUME a.core = b.core
        PROVE  \A k \in 1..3 : f[k] = g[k]
    BY <2>1, <2>2, <2>3, Zenon
  <2>4. ASSUME a.core = b.core, a.pre # <<>>, b.pre # <<>>, a.pre[1] < b.pre[1]
        PROVE  Before(f, g)
    <3>1. f[5] < g[5]
      <4>1. 1 \in 1..m /\ 1 \in 1..n /\ 1 + 4 = 5
        BY <2>1, <2>2, <2>4
      <4> QED BY <2>1, <2>2, <2>4, <4>1
    <3>2. f[4] = g[4]
      BY <2>1, <2>2, <2>4
    <3>3. \A j \in 1..(5 - 1) : f[j] = g[j]
      <4>1. \A j \in 1..(5 - 1) : j \in 1..3 \/ j = 4
        OBVIOUS
      <4> QED BY <2>3, <2>4, <3>2, <4>1, Zenon
    <3> QED BY <3>1, <3>3 DEF Ahead
  <2>5. ASSUME a.core = b.core, IsStrictPrefix(a.pre, b.pre)
        PROVE  IF a.pre = <<>> THEN Before(g, f) ELSE Before(f, g)
    <3>1. m < n /\ \A i \in 1..m : a.pre[i] = b.pre[i]
      <4>1. a.pre \in Seq(Nat) /\ b.pre \in Seq(Nat)
        BY <1>0 DEF IsPlain
      <4>2. \A s, t \in Seq(Nat) : IsStrictPrefix(s, t) =>
              Len(s) < Len(t) /\ \A i \in 1..Len(s) : s[i] = t[i]
        BY DEF IsStrictPrefix, IsPrefix
      <4> QED BY <2>5, <4>1, <4>2, Zenon DEF m, n
    <3>2. CASE m = 0
      <4>1. g[4] < f[4] /\ a.pre = <<>>
        BY <2>1, <2>2, <3>1, <3>2
      <4>2. \A j \in 1..(4 - 1) : g[j] = f[j]
        BY <2>3, <2>5
      <4> QED BY <4>1, <4>2 DEF Ahead
    <3>3. CASE m # 0
      <4>1. a.pre # <<>> /\ f[4] = g[4]
        BY <2>1, <2>2, <3>1, <3>3
      <4>2. m + 1 \in 1..n /\ m + 1 \in Nat /\ m + 1 > m /\ (m + 1) + 4 = m + 5
        BY <2>1, <2>2, <3>1
      <4>3. f[m + 5] = -1 /\ g[m + 5] \in Nat
        BY <2>1, <2>2, <4>2
      <4>4. \A j \in 1..((m + 5) - 1) : f[j] = g[j]
        <5> TAKE j \in 1..((m + 5) - 1)
        <5>1. j \in 1..3 \/ j = 4 \/ (j - 4 \in 1..m /\ j - 4 \in 1..n /\ (j - 4) + 4 = j)
          BY <2>1, <2>2, <3>1
        <5>2. CASE j \in 1..3 \/ j = 4
          BY <2>3, <2>5, <4>1, <5>2, Zenon
        <5>3. CASE j - 4 \in 1..m /\ j - 4 \in 1..n /\ (j - 4) + 4 = j
          <6>1. f[(j - 4) + 4] = a.pre[j - 4] /\ g[(j - 4) + 4] = b.pre[j - 4]
            BY <2>1, <2>2, <5>3, Zenon
          <6>2. a.pre[j - 4] = b.pre[j - 4]
            BY <3>1, <5>3, Zenon
          <6> QED BY <5>3, <6>1, <6>2, Zenon
        <5> QED BY <5>1, <5>2, <5>3
      <4>5. f[m + 5] < g[m + 5] /\ m + 5 \in Nat \ {0}
        BY <2>1, <4>3
      <4> QED BY <4>1, <4>4, <4>5, Zenon DEF Ahead
    <3> QED BY <3>2, <3>3
  <2> QED BY <2>4, <2>5
<1> HIDE DEF f, g, h, ab, ba, bc, ac, Before
<1>9. /\ ab = -ba
      /\ ab = 0 <=> a = b
      /\ ab <= 0 /\ bc <= 0 => ac <= 0
  BY <1>2, <1>3, <1>4, <1>5, <1>6, <1>7
<1>10. orders[1] = ab /\ orders[2] = bc /\ orders[3] = ac
  OBVIOUS
<1> HIDE DEF orders
<1>11. VersionsOrdered(c, orders)
  BY <1>2, <1>8, <1>9, <1>10 DEF VersionsOrdered, a, b, ba
<1> QED BY <1>11 DEF orders, ab, bc, ac

-----------------------------------------------------------------------------
(* Sequences one after the other *)

Flattens(g, s, n) == g = [i \in 1..n |-> IF i = 1 THEN s[i] ELSE g[i - 1] \o s[i]]

LEMMA LongerFlat ==
  ASSUME NEW n \in Nat, NEW s, NEW g, Flattens(g, s, n)
  PROVE  \E h : Flattens(h, s, n + 1)
<1> DEFINE h == [i \in 1..(n + 1) |-> IF i \in 1..n THEN g[i] ELSE IF i = 1 THEN s[i] ELSE g[n] \o s[i]]
<1>1. \A i \in 1..n : g[i] = IF i = 1 THEN s[i] ELSE g[i - 1] \o s[i]
  BY Zenon DEF Flattens
<1>2. h = [i \in 1..(n + 1) |-> h[i]]
  OBVIOUS
<1>3. \A i \in 1..n : h[i] = g[i]
  OBVIOUS
<1>4. h[n + 1] = IF n + 1 = 1 THEN s[n + 1] ELSE g[n] \o s[n + 1]
  OBVIOUS
<1> HIDE DEF h
<1>5. \A i \in 1..(n + 1) : h[i] = IF i = 1 THEN s[i] ELSE h[i - 1] \o s[i]
  <2> TAKE i \in 1..(n + 1)
  <2>1. CASE i \in 1..n
    <3>1. i = 1 \/ i - 1 \in 1..n
      BY <2>1
    <3> QED BY <1>1, <1>3, <2>1, <3>1, Zenon
  <2>2. CASE i = n + 1
    <3>1. i = 1 \/ (i - 1 = n /\ n \in 1..n /\ i # 1)
      BY <2>2
    <3>2. CASE i = 1
      BY <1>4, <2>2, <3>2, Zenon
    <3>3. CASE i - 1 = n /\ n \in 1..n /\ i # 1
      BY <1>3, <1>4, <2>2, <3>3, Zenon
    <3> QED BY <3>1, <3>2, <3>3
  <2> QED BY <2>1, <2>2
<1>6. Flattens(h, s, n + 1)
  <2>1. h = [i \in 1..(n + 1) |-> IF i = 1 THEN s[i] ELSE h[i - 1] \o s[i]]
    BY <1>2, <1>5
  <2> QED BY <2>1, Zenon DEF Flattens
<1> QED BY <1>6, Zenon

LEMMA FlatteningExists ==
  ASSUME NEW n \in Nat, NEW s
  PROVE  \E g : Flattens(g, s, n)
<1> DEFINE A == {i \in 0..n : \E g : Flattens(g, s, i)}
<1>1. 0 \in A
  <2>1. Flattens([i \in 1..0 |-> i], s, 0)
    BY DEF Flattens
  <2>2. 0 \in 0..n
    OBVIOUS
  <2> QED BY <2>1, <2>2, Zenon
<1>2. ASSUME NEW i \in 1..n, i - 1 \in A
      PROVE  i \in A
  <2>1. i - 1 \in Nat /\ (i - 1) + 1 = i /\ i \in 0..n
    OBVIOUS
  <2>2. PICK g : Flattens(g, s, i - 1)
    BY <1>2, Zenon
  <2>3. \E h : Flattens(h, s, (i - 1) + 1)
    BY <2>1, <2>2, LongerFlat, Zenon
  <2> QED BY <2>1, <2>3
<1>3. 0..n \subseteq A
  <2> HIDE DEF A
  <2> QED BY <1>1, <1>2, UpTo
<1>4. n \in A
  BY <1>3
<1> QED BY <1>4, Zenon

\* The beginnings of what is put together.
Joins(k, s, T) ==
  /\ k \in [0..Len(s) -> Seq(T)]
  /\ k[0] = <<>>
  /\ \A i \in 1..Len(s) : k[i] = k[i - 1] \o s[i]

LEMMA FlatIsJoined ==
  ASSUME NEW T, NEW s \in Seq(Seq(T))
  PROVE  \E k : Joins(k, s, T) /\ FlattenSeq(s) = k[Len(s)]
<1> DEFINE n == Len(s)
           F(g) == g = [i \in 1..Len(s) |-> IF i = 1 THEN s[i] ELSE g[i - 1] \o s[i]]
           flatten == CHOOSE g : F(g)
<1>1. n \in Nat /\ \A i \in 1..n : s[i] \in Seq(T)
  OBVIOUS
<1>2. FlattenSeq(s) = IF n = 0 THEN s ELSE flatten[n]
  BY DEF FlattenSeq
<1>3. n = 0 => s = <<>>
  OBVIOUS
<1> HIDE DEF n
<1>4. F(flatten)
  <2>1. \E g : Flattens(g, s, n)
    BY <1>1, FlatteningExists
  <2>2. \E g : F(g)
    BY <2>1, Zenon DEF Flattens, n
  <2> QED BY <2>2, Zenon
<1>5. \A i \in 1..n : flatten[i] = IF i = 1 THEN s[i] ELSE flatten[i - 1] \o s[i]
  BY <1>4, Zenon DEF n
<1> HIDE DEF flatten, F
<1> DEFINE k == [i \in 0..n |-> IF i = 0 THEN <<>> ELSE flatten[i]]
<1>6. k[0] = <<>> /\ \A i \in 1..n : k[i] = flatten[i]
  BY <1>1
<1>7. FlattenSeq(s) = k[n]
  BY <1>1, <1>2, <1>3
<1>8. k = [i \in 0..n |-> k[i]]
  OBVIOUS
<1> HIDE DEF k
<1>9. \A t \in Seq(T) : <<>> \o t = t
  OBVIOUS
<1>10. \A i \in 1..n : k[i] = k[i - 1] \o s[i]
  <2> TAKE i \in 1..n
  <2>1. CASE i = 1
    <3>1. k[1] = s[1] /\ s[1] \in Seq(T) /\ i - 1 = 0
      BY <1>1, <1>5, <1>6, <2>1
    <3> QED BY <1>6, <1>9, <2>1, <3>1, Zenon
  <2>2. CASE i # 1
    <3>1. i - 1 \in 1..n
      BY <1>1, <2>2
    <3> QED BY <1>5, <1>6, <2>2, <3>1, Zenon
  <2> QED BY <2>1, <2>2
<1>11. \A i \in 0..n : k[i] \in Seq(T)
  <2> DEFINE A == {i \in 0..n : k[i] \in Seq(T)}
  <2>1. 0 \in A
    <3>1. 0 \in 0..n /\ <<>> \in Seq(T)
      BY <1>1
    <3> QED BY <1>6, <3>1
  <2>2. ASSUME NEW i \in 1..n, i - 1 \in A
        PROVE  i \in A
    <3>1. k[i - 1] \in Seq(T) /\ s[i] \in Seq(T) /\ i \in 0..n
      BY <1>1, <2>2
    <3>2. k[i - 1] \o s[i] \in Seq(T)
      BY <3>1
    <3> QED BY <1>10, <3>1, <3>2
  <2>3. 0..n \subseteq A
    <3> HIDE DEF A
    <3> QED BY <1>1, <2>1, <2>2, UpTo
  <2> QED BY <2>3
<1>12. k \in [0..n -> Seq(T)]
  BY <1>8, <1>11
<1>13. Joins(k, s, T)
  BY <1>6, <1>10, <1>12, Zenon DEF Joins, n
<1> QED BY <1>7, <1>13, Zenon DEF n

LEMMA UnionWithOne ==
  ASSUME NEW f, NEW U, NEW i
  PROVE  UNION {f[j] : j \in U \cup {i}} = (UNION {f[j] : j \in U}) \cup f[i]
OBVIOUS

LEMMA OneMore ==
  ASSUME NEW f, NEW i \in Nat \ {0}
  PROVE  UNION {f[j] : j \in 1..i} = (UNION {f[j] : j \in 1..(i - 1)}) \cup f[i]
<1>1. 1..i = (1..(i - 1)) \cup {i}
  OBVIOUS
<1> QED BY <1>1, UnionWithOne

LEMMA FlatHasAll ==
  ASSUME NEW T, NEW s \in Seq(Seq(T))
  PROVE  /\ FlattenSeq(s) \in Seq(T)
         /\ ToSet(FlattenSeq(s)) = UNION {ToSet(s[i]) : i \in DOMAIN s}
<1> DEFINE n == Len(s)
<1>1. PICK k : Joins(k, s, T) /\ FlattenSeq(s) = k[n]
  BY FlatIsJoined
<1>2. n \in Nat /\ DOMAIN s = 1..n /\ \A i \in 1..n : s[i] \in Seq(T)
  OBVIOUS
<1>3. /\ k \in [0..n -> Seq(T)]
      /\ k[0] = <<>>
      /\ \A i \in 1..n : k[i] = k[i - 1] \o s[i]
  BY <1>1, Zenon DEF Joins
<1> HIDE DEF n
<1>4. \A t, u \in Seq(T) : ToSet(t \o u) = ToSet(t) \cup ToSet(u)
  <2> TAKE t, u \in Seq(T)
  <2> DEFINE r == t \o u
             l == Len(t)
             m == Len(u)
  <2>1. /\ l \in Nat /\ m \in Nat /\ DOMAIN t = 1..l /\ DOMAIN u = 1..m /\ DOMAIN r = 1..(l + m)
        /\ \A i \in 1..(l + m) : r[i] = IF i <= l THEN t[i] ELSE u[i - l]
    OBVIOUS
  <2> HIDE DEF r, l, m
  <2>2. \A i \in 1..(l + m) : (i \in 1..l /\ r[i] = t[i]) \/ (i - l \in 1..m /\ r[i] = u[i - l])
    BY <2>1
  <2>3. \A i \in 1..l : i \in 1..(l + m) /\ r[i] = t[i]
    BY <2>1
  <2>4. \A i \in 1..m : l + i \in 1..(l + m) /\ r[l + i] = u[i]
    <3> TAKE i \in 1..m
    <3>1. l + i \in 1..(l + m) /\ ~(l + i <= l) /\ (l + i) - l = i
      BY <2>1
    <3> QED BY <2>1, <3>1
  <2>5. ToSet(r) = {r[i] : i \in 1..(l + m)} /\ ToSet(t) = {t[i] : i \in 1..l} /\ ToSet(u) = {u[i] : i \in 1..m}
    BY <2>1 DEF ToSet
  <2>6. ToSet(r) = ToSet(t) \cup ToSet(u)
    BY <2>2, <2>3, <2>4, <2>5
  <2> QED BY <2>6 DEF r
<1> DEFINE f == [j \in 1..n |-> ToSet(s[j])]
           A == {i \in 0..n : ToSet(k[i]) = UNION {f[j] : j \in 1..i}}
<1>9. /\ \A j \in 1..n : f[j] = ToSet(s[j])
      /\ {f[j] : j \in 1..n} = {ToSet(s[j]) : j \in 1..n}
  OBVIOUS
<1> HIDE DEF f
<1>5. 0 \in A
  <2>1. ToSet(<<>>) = {}
    BY DEF ToSet
  <2> QED BY <1>2, <1>3, <2>1
<1>6. ASSUME NEW i \in 1..n, i - 1 \in A
      PROVE  i \in A
  <2>1. k[i - 1] \in Seq(T) /\ s[i] \in Seq(T) /\ i \in 0..n
    <3>1. i - 1 \in 0..n /\ i \in 0..n
      BY <1>2
    <3> QED BY <1>2, <1>3, <3>1
  <2>2. ToSet(k[i]) = ToSet(k[i - 1]) \cup ToSet(s[i])
    BY <1>3, <1>4, <2>1
  <2>3. ToSet(k[i - 1]) = UNION {f[j] : j \in 1..(i - 1)}
    BY <1>6
  <2>4. i \in Nat \ {0}
    BY <1>2
  <2>5. UNION {f[j] : j \in 1..i} = (UNION {f[j] : j \in 1..(i - 1)}) \cup f[i]
    BY <2>4, OneMore
  <2>6. ToSet(k[i]) = UNION {f[j] : j \in 1..i}
    BY <1>9, <2>2, <2>3, <2>5
  <2> QED BY <2>1, <2>6
<1>7. n \in A
  <2>1. 0..n \subseteq A
    <3> HIDE DEF A
    <3> QED BY <1>2, <1>5, <1>6, UpTo
  <2> QED BY <1>2, <2>1
<1>8. k[n] \in Seq(T)
  BY <1>2, <1>3
<1>10. ToSet(k[n]) = UNION {ToSet(s[j]) : j \in 1..n}
  BY <1>7, <1>9
<1> QED BY <1>1, <1>2, <1>8, <1>10, Zenon

\* The elements are counted by disjoint piles, one for each sequence.
Piled(piles, s, n) ==
  /\ \A i \in 1..n : IsFiniteSet(piles[i]) /\ Cardinality(piles[i]) = Len(s[i])
  /\ \A i, j \in 1..n : i # j => piles[i] \cap piles[j] = {}

LEMMA FlatIsAsLong ==
  ASSUME NEW T, NEW s \in Seq(Seq(T)), NEW piles, Piled(piles, s, Len(s))
  PROVE  /\ IsFiniteSet(UNION {piles[i] : i \in DOMAIN s})
         /\ Len(FlattenSeq(s)) = Cardinality(UNION {piles[i] : i \in DOMAIN s})
<1> DEFINE n == Len(s)
           Upto(i) == UNION {piles[j] : j \in 1..i}
<1>1. PICK k : Joins(k, s, T) /\ FlattenSeq(s) = k[n]
  BY FlatIsJoined
<1>2. n \in Nat /\ DOMAIN s = 1..n /\ \A i \in 1..n : s[i] \in Seq(T)
  OBVIOUS
<1>3. /\ k \in [0..n -> Seq(T)]
      /\ k[0] = <<>>
      /\ \A i \in 1..n : k[i] = k[i - 1] \o s[i]
  BY <1>1, Zenon DEF Joins
<1>4. /\ \A i \in 1..n : IsFiniteSet(piles[i]) /\ Cardinality(piles[i]) = Len(s[i])
      /\ \A i, j \in 1..n : i # j => piles[i] \cap piles[j] = {}
  BY Zenon DEF Piled
<1> HIDE DEF n
<1> DEFINE A == {i \in 0..n : IsFiniteSet(Upto(i)) /\ Len(k[i]) = Cardinality(Upto(i))}
<1>5. 0 \in A
  <2>1. Upto(0) = {}
    OBVIOUS
  <2>2. Len(<<>>) = 0
    OBVIOUS
  <2>3. Len(k[0]) = Cardinality(Upto(0)) /\ IsFiniteSet(Upto(0))
    BY <1>3, <2>1, <2>2, FS_EmptySet, Zenon
  <2>4. 0 \in 0..n
    BY <1>2
  <2> QED BY <2>3, <2>4
<1>6. ASSUME NEW i \in 1..n, i - 1 \in A
      PROVE  i \in A
  <2>1. k[i - 1] \in Seq(T) /\ s[i] \in Seq(T) /\ i \in 0..n
    <3>1. i - 1 \in 0..n /\ i \in 0..n
      BY <1>2
    <3> QED BY <1>2, <1>3, <3>1
  <2>2. Len(k[i]) = Len(k[i - 1]) + Len(s[i])
    <3>1. \A t, u \in Seq(T) : Len(t \o u) = Len(t) + Len(u)
      OBVIOUS
    <3> QED BY <1>3, <2>1, <3>1, Zenon
  <2>3. IsFiniteSet(Upto(i - 1)) /\ Len(k[i - 1]) = Cardinality(Upto(i - 1))
    BY <1>6
  <2>4. 1..i = (1..(i - 1)) \cup {i} /\ \A j \in 1..(i - 1) : j \in 1..n /\ j # i
    BY <1>2
  <2>5. Upto(i) = Upto(i - 1) \cup piles[i]
    BY <2>4
  <2>6. Upto(i - 1) \cap piles[i] = {}
    BY <1>4, <2>4
  <2> HIDE DEF Upto
  <2>7. /\ IsFiniteSet(Upto(i))
        /\ Cardinality(Upto(i)) = Cardinality(Upto(i - 1)) + Cardinality(piles[i]) - Cardinality({})
    BY <1>4, <2>3, <2>5, <2>6, FS_Union
  <2>8. Cardinality({}) = 0 /\ Cardinality(Upto(i - 1)) \in Nat /\ Cardinality(piles[i]) \in Nat
    BY <1>4, <2>3, FS_EmptySet, FS_CardinalityType
  <2>9. Cardinality(piles[i]) = Len(s[i])
    BY <1>4
  <2>10. Len(k[i]) = Cardinality(Upto(i))
    BY <2>2, <2>3, <2>7, <2>8, <2>9
  <2> QED BY <2>1, <2>7, <2>10
<1>7. n \in A
  <2>1. 0..n \subseteq A
    <3> HIDE DEF A
    <3> QED BY <1>2, <1>5, <1>6, UpTo
  <2> QED BY <1>2, <2>1
<1> QED BY <1>1, <1>2, <1>7

-----------------------------------------------------------------------------
(* csv_join *)

Second(row) == IF 2 \in DOMAIN row THEN row[2] ELSE Empty

\* What a row of a join is made of.
Pairing(x, y) == <<x[1], Second(x), Second(y)>>

LEMMA RowsHaveKeys ==
  ASSUME NEW row \in Seq(Int), ~IsBlank(row)
  PROVE  row[1] \in Int /\ 1 \in DOMAIN row /\ Second(row) \in Int
<1>1. Len(row) \in Nat /\ DOMAIN row = 1..Len(row) /\ \A i \in 1..Len(row) : row[i] \in Int
  OBVIOUS
<1>2. DOMAIN row # {}
  BY DEF IsBlank
<1>3. Second(row) \in Int
  BY <1>1 DEF Second, Empty
<1> QED BY <1>1, <1>2, <1>3

LEMMA TwoAndOne ==
  ASSUME NEW t \in Seq(Int), NEW u \in Seq(Int)
  PROVE  Len(t) = 2 /\ Len(u) = 1 => t \o u = <<t[1], t[2], u[1]>>
<1> DEFINE r == t \o u
           l == Len(t)
           m == Len(u)
<1>1. /\ l \in Nat /\ m \in Nat /\ r \in Seq(Int) /\ Len(r) = l + m
      /\ \A i \in 1..(l + m) : r[i] = IF i <= l THEN t[i] ELSE u[i - l]
  OBVIOUS
<1> HIDE DEF r, l, m
<1>2. ASSUME l = 2, m = 1
      PROVE  r = <<t[1], t[2], u[1]>>
  <2>1. Len(r) = 3 /\ 1 \in 1..(l + m) /\ 2 \in 1..(l + m) /\ 3 \in 1..(l + m)
    BY <1>1, <1>2
  <2>2. r[1] = t[1] /\ r[2] = t[2] /\ r[3] = u[1]
    BY <1>1, <1>2, <2>1
  <2>3. r = [i \in 1..3 |-> r[i]]
    <3>1. r = [i \in 1..Len(r) |-> r[i]]
      BY <1>1
    <3> QED BY <2>1, <3>1, Zenon
  <2>4. r = <<r[1], r[2], r[3]>>
    BY <2>3
  <2> QED BY <2>2, <2>4
<1> QED BY <1>2 DEF r, l, m

LEMMA CellsAreRow ==
  ASSUME NEW n \in Nat, NEW f \in [1..n -> Int]
  PROVE  f \in Seq(Int)
OBVIOUS

LEMMA PaddedRows ==
  ASSUME NEW x \in Seq(Int), NEW y \in Seq(Int), ~IsBlank(x), ~IsBlank(y)
  PROVE  /\ Padded(x, 2) \o Tail(Padded(y, 2)) = Pairing(x, y)
         /\ Pairing(x, y) \in Seq(Int) /\ Padded(x, 3) \in Seq(Int)
<1>1. x[1] \in Int /\ 1 \in DOMAIN x /\ Second(x) \in Int /\ y[1] \in Int /\ 1 \in DOMAIN y /\ Second(y) \in Int
  BY RowsHaveKeys
<1>2. Padded(x, 2) = <<x[1], Second(x)>> /\ Padded(y, 2) = <<y[1], Second(y)>>
  BY <1>1 DEF Padded, Second
<1>3. ASSUME NEW a \in Int, NEW b \in Int, NEW e \in Int, NEW d \in Int
      PROVE  <<a, b>> \o Tail(<<e, d>>) = <<a, b, d>> /\ <<a, b, d>> \in Seq(Int)
  <2>1. <<a, b>> \in Seq(Int) /\ <<e, d>> \in Seq(Int) /\ Len(<<e, d>>) = 2 /\ <<e, d>>[2] = d /\ Len(<<a, b>>) = 2
    OBVIOUS
  <2>2. Tail(<<e, d>>) \in Seq(Int) /\ Len(Tail(<<e, d>>)) = 1 /\ Tail(<<e, d>>)[1] = d
    BY <2>1
  <2>4. <<a, b>>[1] = a /\ <<a, b>>[2] = b /\ <<a, b, d>> \in Seq(Int)
    OBVIOUS
  <2>5. <<a, b>> \o Tail(<<e, d>>) = <<<<a, b>>[1], <<a, b>>[2], Tail(<<e, d>>)[1]>>
    BY <2>1, <2>2, TwoAndOne
  <2> QED BY <2>2, <2>4, <2>5
<1>4. Padded(x, 3) \in Seq(Int)
  <2>1. \A i \in DOMAIN x : x[i] \in Int
    OBVIOUS
  <2>2. \A i \in 1..3 : (IF i \in DOMAIN x THEN x[i] ELSE Empty) \in Int
    BY <2>1 DEF Empty
  <2>3. Padded(x, 3) \in [1..3 -> Int]
    BY <2>2 DEF Padded
  <2>4. 3 \in Nat
    OBVIOUS
  <2> QED BY <2>3, <2>4, CellsAreRow, Zenon
<1>5. <<x[1], Second(x)>> \o Tail(<<y[1], Second(y)>>) = Pairing(x, y) /\ Pairing(x, y) \in Seq(Int)
  BY <1>1, <1>3, Zenon DEF Pairing
<1> QED BY <1>2, <1>4, <1>5, Zenon

\* Places of rows that go together.
SameKey(l, r, i) == {j \in DOMAIN r : r[j][1] = l[i][1]}
Partners(l, r) == {p \in (DOMAIN l) \X (DOMAIN r) : l[p[1]][1] = r[p[2]][1]}
Alone(l, r) == DOMAIN l \ {p[1] : p \in Partners(l, r)}
Pairings(l, r) == {Pairing(l[p[1]], r[p[2]]) : p \in Partners(l, r)}

LEMMA PartnersAre ==
  ASSUME NEW l, NEW r
  PROVE  /\ Partners(l, r) = UNION {{i} \X SameKey(l, r, i) : i \in DOMAIN l}
         /\ Alone(l, r) = {i \in DOMAIN l : SameKey(l, r, i) = {}}
<1>1. \A p : p \in Partners(l, r) <=> \E i \in DOMAIN l : p \in {i} \X SameKey(l, r, i)
  BY DEF Partners, SameKey
<1>2. \A i \in DOMAIN l : i \in Alone(l, r) <=> SameKey(l, r, i) = {}
  <2> TAKE i \in DOMAIN l
  <2>1. ASSUME NEW j \in SameKey(l, r, i)
        PROVE  i \notin Alone(l, r)
    <3>1. <<i, j>> \in Partners(l, r) /\ <<i, j>>[1] = i
      BY <2>1 DEF SameKey, Partners
    <3> QED BY <3>1, Zenon DEF Alone
  <2>2. ASSUME i \notin Alone(l, r)
        PROVE  SameKey(l, r, i) # {}
    <3>1. PICK p \in Partners(l, r) : i = p[1]
      BY <2>2, Zenon DEF Alone
    <3> QED BY <3>1 DEF Partners, SameKey
  <2> QED BY <2>1, <2>2
<1>3. Alone(l, r) \subseteq DOMAIN l
  BY DEF Alone
<1> QED BY <1>1, <1>2, <1>3

\* A row of the left table and what a join makes of it.
Outs(l, r, how, i) ==
  LET m == At(r, SameKey(l, r, i)) IN
  IF m # <<>> THEN [k \in DOMAIN m |-> Padded(l[i], 2) \o Tail(Padded(m[k], 2))]
  ELSE IF how = "left" THEN <<Padded(l[i], 3)>>
  ELSE <<>>

LEMMA OutsAre ==
  ASSUME NEW l \in Tables, NEW r \in Tables, NEW how, NEW i \in DOMAIN l,
         \A k \in DOMAIN l : ~IsBlank(l[k]), \A k \in DOMAIN r : ~IsBlank(r[k])
  PROVE  /\ Outs(l, r, how, i) \in Seq(Seq(Int))
         /\ Len(Outs(l, r, how, i)) =
              IF SameKey(l, r, i) # {} THEN Cardinality(SameKey(l, r, i)) ELSE IF how = "left" THEN 1 ELSE 0
         /\ how # "left" => ToSet(Outs(l, r, how, i)) = {Pairing(l[i], r[j]) : j \in SameKey(l, r, i)}
<1> DEFINE S == SameKey(l, r, i)
           m == At(r, S)
           x == l[i]
           n == Cardinality(S)
           out == [k \in DOMAIN m |-> Padded(x, 2) \o Tail(Padded(m[k], 2))]
           o == Outs(l, r, how, i)
<1>1. S \in SUBSET DOMAIN r /\ l \in Seq(Seq(Int)) /\ r \in Seq(Seq(Int))
  BY DEF SameKey, Tables
<1>2. x \in Seq(Int) /\ ~IsBlank(x)
  BY <1>1
<1>3. /\ m \in Seq(Seq(Int)) /\ Len(m) = n
      /\ \A k \in DOMAIN m : \E j \in S : m[k] = r[j]
      /\ ToSet(m) = ElementsAt(r, S)
  <2> HIDE DEF S
  <2> QED BY <1>1, ChosenRows
<1>4. o = IF m # <<>> THEN out ELSE IF how = "left" THEN <<Padded(x, 3)>> ELSE <<>>
  BY DEF Outs
<1>5. IsFiniteSet(S) /\ n \in Nat /\ (n = 0 <=> S = {})
  <2>1. Len(r) \in Nat /\ DOMAIN r = 1..Len(r)
    BY <1>1
  <2>3. S \in SUBSET (1..Len(r))
    BY <1>1, <2>1
  <2>2. IsFiniteSet(S)
    <3> HIDE DEF S
    <3> QED BY <2>1, <2>3, PlacesAreListed
  <2> QED BY <2>2, FS_CardinalityType, FS_EmptySet
<1> HIDE DEF S, m, n, x, o
<1>6. DOMAIN m = 1..n /\ (m = <<>> <=> n = 0)
  BY <1>3, <1>5
<1>7. \A k \in DOMAIN m : m[k] \in Seq(Int) /\ ~IsBlank(m[k])
  <2> TAKE k \in DOMAIN m
  <2>1. PICK j \in S : m[k] = r[j]
    BY <1>3, Zenon
  <2>2. j \in DOMAIN r
    BY <1>1
  <2>3. r[j] \in Seq(Int) /\ ~IsBlank(r[j])
    BY <1>1, <2>2
  <2> QED BY <2>1, <2>3, Zenon
<1>8. \A k \in DOMAIN m : out[k] = Pairing(x, m[k]) /\ out[k] \in Seq(Int)
  <2> TAKE k \in DOMAIN m
  <2>1. Padded(x, 2) \o Tail(Padded(m[k], 2)) = Pairing(x, m[k]) /\ Pairing(x, m[k]) \in Seq(Int)
    BY <1>2, <1>7, PaddedRows
  <2> QED BY <2>1
<1>9. DOMAIN out = 1..n /\ out = [k \in 1..n |-> out[k]]
  BY <1>6
<1> HIDE DEF out
<1>10. out \in Seq(Seq(Int)) /\ Len(out) = n
  BY <1>5, <1>6, <1>8, <1>9
<1>11. Padded(x, 3) \in Seq(Int)
  BY <1>2, PaddedRows
<1>12. o \in Seq(Seq(Int))
  <2>1. <<Padded(x, 3)>> \in Seq(Seq(Int)) /\ <<>> \in Seq(Seq(Int))
    BY <1>11
  <2> QED BY <1>4, <1>10, <2>1, Zenon
<1>13. Len(o) = IF S # {} THEN n ELSE IF how = "left" THEN 1 ELSE 0
  <2>1. Len(<<Padded(x, 3)>>) = 1 /\ Len(<<>>) = 0
    OBVIOUS
  <2>2. CASE m # <<>>
    <3>1. S # {} /\ o = out
      BY <1>4, <1>5, <1>6, <2>2, Zenon
    <3> QED BY <1>10, <3>1, Zenon
  <2>3. CASE m = <<>>
    <3>1. S = {}
      BY <1>5, <1>6, <2>3, Zenon
    <3>2. CASE how = "left"
      <4>1. o = <<Padded(x, 3)>>
        BY <1>4, <2>3, <3>2, Zenon
      <4> QED BY <2>1, <3>1, <3>2, <4>1
    <3>3. CASE how # "left"
      <4>1. o = <<>>
        BY <1>4, <2>3, <3>3, Zenon
      <4> QED BY <2>1, <3>1, <3>3, <4>1
    <3> QED BY <3>2, <3>3
  <2> QED BY <2>2, <2>3
<1>14. how # "left" => ToSet(o) = {Pairing(x, r[j]) : j \in S}
  <2>1. ToSet(out) = {Pairing(x, m[k]) : k \in DOMAIN m}
    BY <1>6, <1>8, <1>9 DEF ToSet
  <2>2. ToSet(m) = {m[k] : k \in DOMAIN m} /\ ToSet(m) = {r[j] : j \in S}
    BY <1>3, Zenon DEF ToSet, ElementsAt
  <2>3. \A j \in S : \E k \in DOMAIN m : m[k] = r[j]
    <3> TAKE j \in S
    <3>1. r[j] \in {m[k] : k \in DOMAIN m}
      BY <2>2, Zenon
    <3> QED BY <3>1, Zenon
  <2>4. ToSet(out) = {Pairing(x, r[j]) : j \in S}
    <3>1. ASSUME NEW y \in ToSet(out)
          PROVE  y \in {Pairing(x, r[j]) : j \in S}
      <4>1. PICK k \in DOMAIN m : y = Pairing(x, m[k])
        BY <2>1, Zenon
      <4>2. PICK j \in S : m[k] = r[j]
        BY <1>3, Zenon
      <4> QED BY <4>1, <4>2, Zenon
    <3>2. ASSUME NEW j \in S
          PROVE  Pairing(x, r[j]) \in ToSet(out)
      <4>1. PICK k \in DOMAIN m : m[k] = r[j]
        BY <2>3, Zenon
      <4> QED BY <2>1, <4>1, Zenon
    <3> QED BY <3>1, <3>2, Zenon
  <2>5. CASE n = 0
    <3>1. ToSet(<<>>) = {}
      BY DEF ToSet
    <3> QED BY <1>4, <1>5, <1>6, <2>5, <3>1, Zenon
  <2>6. CASE n # 0
    BY <1>4, <1>6, <2>4, <2>6, Zenon
  <2> QED BY <2>5, <2>6
<1> QED BY <1>12, <1>13, <1>14, Zenon DEF S, n, x, o

LEMMA PileOfRow ==
  ASSUME NEW S, IsFiniteSet(S), NEW i
  PROVE  /\ IsFiniteSet({i} \X S) /\ Cardinality({i} \X S) = Cardinality(S)
         /\ IsFiniteSet(S \X {i}) /\ Cardinality(S \X {i}) = Cardinality(S)
<1>1. IsFiniteSet({i}) /\ Cardinality({i}) = 1
  BY FS_Singleton
<1>2. Cardinality(S) \in Nat
  BY FS_CardinalityType
<1>3. IsFiniteSet({i} \X S) /\ Cardinality({i} \X S) = Cardinality({i}) * Cardinality(S)
  BY <1>1, FS_Product
<1>4. IsFiniteSet(S \X {i}) /\ Cardinality(S \X {i}) = Cardinality(S) * Cardinality({i})
  BY <1>1, FS_Product
<1>5. \A n \in Nat : 1 * n = n /\ n * 1 = n
  OBVIOUS
<1> QED BY <1>1, <1>2, <1>3, <1>4, <1>5

LEMMA JoinIs ==
  ASSUME NEW left \in Tables, NEW right \in Tables, NEW how
  PROVE  /\ Len(Join(left, right, 2, how)) =
              Cardinality(Partners(NotBlank(left), NotBlank(right)))
                + IF how = "left" THEN Cardinality(Alone(NotBlank(left), NotBlank(right))) ELSE 0
         /\ how # "left" => ToSet(Join(left, right, 2, how)) = Pairings(NotBlank(left), NotBlank(right))
<1> DEFINE l == NotBlank(left)
           r == NotBlank(right)
           s == [i \in DOMAIN l |-> Outs(l, r, how, i)]
           n == Len(l)
           S(i) == SameKey(l, r, i)
           Extra(i) == IF how = "left" /\ S(i) = {} THEN {<<i, 0>>} ELSE {}
           piles == [i \in 1..n |-> ({i} \X S(i)) \cup Extra(i)]
           alone == IF how = "left" THEN Alone(l, r) ELSE {}
<1>1. Join(left, right, 2, how) = FlattenSeq(s)
  <2>1. 2 * 2 - 1 = 3
    OBVIOUS
  <2> QED BY <2>1, Zenon DEF Join, Matches, OfKey, Outs, SameKey
<1>2. /\ l \in Tables /\ r \in Tables
      /\ \A k \in DOMAIN l : ~IsBlank(l[k])
      /\ \A k \in DOMAIN r : ~IsBlank(r[k])
  BY RowsNotBlank, RowsLeftHaveText, Zenon
<1> HIDE DEF l, r
<1>3. n \in Nat /\ DOMAIN l = 1..n /\ Len(r) \in Nat /\ DOMAIN r = 1..Len(r)
  BY <1>2 DEF Tables
<1> HIDE DEF n
<1>4. \A i \in DOMAIN l :
        /\ Outs(l, r, how, i) \in Seq(Seq(Int))
        /\ Len(Outs(l, r, how, i)) = IF S(i) # {} THEN Cardinality(S(i)) ELSE IF how = "left" THEN 1 ELSE 0
        /\ how # "left" => ToSet(Outs(l, r, how, i)) = {Pairing(l[i], r[j]) : j \in S(i)}
  BY <1>2, OutsAre
<1>5. /\ s \in Seq(Seq(Seq(Int))) /\ Len(s) = n /\ DOMAIN s = 1..n
      /\ \A i \in 1..n : s[i] = Outs(l, r, how, i)
  BY <1>3, <1>4
<1>6. \A i \in 1..n : S(i) \in SUBSET (1..Len(r))
  BY <1>3 DEF SameKey
<1>7. \A i \in 1..n : IsFiniteSet(S(i)) /\ Cardinality(S(i)) \in Nat
  <2> HIDE DEF S
  <2> QED BY <1>3, <1>6, PlacesAreListed
<1> HIDE DEF s
<1>8. Piled(piles, s, n)
  <2>1. ASSUME NEW i \in 1..n
        PROVE  /\ IsFiniteSet(piles[i]) /\ Cardinality(piles[i]) = Len(s[i])
               /\ \A p \in piles[i] : p[1] = i
    <3>1. piles[i] = ({i} \X S(i)) \cup Extra(i)
      OBVIOUS
    <3>2. \A p \in {i} \X S(i) : p[1] = i
      OBVIOUS
    <3>3. Len(s[i]) = IF S(i) # {} THEN Cardinality(S(i)) ELSE IF how = "left" THEN 1 ELSE 0
      BY <1>3, <1>4, <1>5, Zenon
    <3>4. IsFiniteSet({i} \X S(i)) /\ Cardinality({i} \X S(i)) = Cardinality(S(i))
      <4> HIDE DEF S
      <4> QED BY <1>7, PileOfRow
    <3> HIDE DEF piles
    <3>5. CASE how = "left" /\ S(i) = {}
      <4>1. Extra(i) = {<<i, 0>>} /\ {i} \X S(i) = {}
        BY <3>5
      <4>2. piles[i] = {<<i, 0>>}
        BY <3>1, <4>1
      <4>3. IsFiniteSet({<<i, 0>>}) /\ Cardinality({<<i, 0>>}) = 1
        BY FS_Singleton
      <4>4. Len(s[i]) = 1
        BY <3>3, <3>5
      <4> QED BY <4>2, <4>3, <4>4
    <3>6. CASE ~(how = "left" /\ S(i) = {})
      <4>1. Extra(i) = {}
        BY <3>6
      <4>2. piles[i] = {i} \X S(i)
        BY <3>1, <4>1
      <4>3. Len(s[i]) = Cardinality(S(i))
        <5>1. S(i) = {} => Cardinality(S(i)) = 0
          BY FS_EmptySet
        <5> QED BY <3>3, <3>6, <5>1
      <4> QED BY <3>2, <3>4, <4>2, <4>3, Zenon
    <3> QED BY <3>5, <3>6
  <2> HIDE DEF piles
  <2>2. \A i, j \in 1..n : i # j => piles[i] \cap piles[j] = {}
    <3> TAKE i, j \in 1..n
    <3> HAVE i # j
    <3>1. \A p : p \in piles[i] /\ p \in piles[j] => i = j
      BY <2>1, Zenon
    <3> QED BY <3>1
  <2> QED BY <2>1, <2>2, Zenon DEF Piled
<1>9. IsFiniteSet(UNION {piles[i] : i \in 1..n}) /\ Len(FlattenSeq(s)) = Cardinality(UNION {piles[i] : i \in 1..n})
  <2> HIDE DEF piles
  <2>1. Piled(piles, s, Len(s))
    BY <1>5, <1>8, Zenon
  <2>2. /\ IsFiniteSet(UNION {piles[i] : i \in DOMAIN s})
        /\ Len(FlattenSeq(s)) = Cardinality(UNION {piles[i] : i \in DOMAIN s})
    <3> DEFINE T == Seq(Int)
    <3>1. s \in Seq(Seq(T))
      BY <1>5
    <3> HIDE DEF T
    <3> QED BY <2>1, <3>1, FlatIsAsLong, Zenon
  <2> QED BY <1>5, <2>2, Zenon
<1>10. UNION {piles[i] : i \in 1..n} = Partners(l, r) \cup (alone \X {0})
  <2>1. /\ Partners(l, r) = UNION {{i} \X S(i) : i \in 1..n}
        /\ Alone(l, r) = {i \in 1..n : S(i) = {}}
    <3>1. /\ Partners(l, r) = UNION {{i} \X S(i) : i \in DOMAIN l}
          /\ Alone(l, r) = {i \in DOMAIN l : S(i) = {}}
      BY PartnersAre
    <3> QED BY <1>3, <3>1, Zenon
  <2> HIDE DEF S
  <2>2. ASSUME NEW p, p \in UNION {piles[i] : i \in 1..n}
        PROVE  p \in Partners(l, r) \cup (alone \X {0})
    <3>1. PICK i \in 1..n : p \in ({i} \X S(i)) \cup Extra(i)
      BY <2>2
    <3>2. CASE p \in {i} \X S(i)
      BY <2>1, <3>2
    <3>3. CASE p \in Extra(i)
      <4>1. how = "left" /\ S(i) = {} /\ p = <<i, 0>>
        BY <3>3
      <4>2. i \in alone
        BY <2>1, <4>1
      <4> QED BY <4>1, <4>2
    <3> QED BY <3>1, <3>2, <3>3
  <2>3. ASSUME NEW p, p \in Partners(l, r)
        PROVE  p \in UNION {piles[i] : i \in 1..n}
    <3>1. PICK i \in 1..n : p \in {i} \X S(i)
      <4>1. p \in UNION {{i} \X S(i) : i \in 1..n}
        BY <2>1, <2>3, Zenon
      <4> QED BY <4>1
    <3>2. p \in piles[i]
      BY <3>1
    <3> HIDE DEF piles
    <3> QED BY <3>2
  <2>4. ASSUME NEW i \in alone
        PROVE  <<i, 0>> \in UNION {piles[j] : j \in 1..n}
    <3>1. how = "left" /\ i \in 1..n /\ S(i) = {}
      BY <2>1
    <3>2. <<i, 0>> \in piles[i]
      BY <3>1
    <3> HIDE DEF piles
    <3> QED BY <3>1, <3>2
  <2>5. \A p \in alone \X {0} : p \in UNION {piles[j] : j \in 1..n}
    <3> HIDE DEF piles, alone
    <3> TAKE p \in alone \X {0}
    <3>1. p[1] \in alone /\ p = <<p[1], 0>>
      OBVIOUS
    <3> QED BY <2>4, <3>1, Zenon
  <2> HIDE DEF piles, alone
  <2> QED BY <2>2, <2>3, <2>5
<1> HIDE DEF piles
<1>11. Len(FlattenSeq(s)) = Cardinality(Partners(l, r)) + Cardinality(alone)
  <2>1. Partners(l, r) \cap (alone \X {0}) = {}
    <3>1. \A p \in Partners(l, r) : p[1] \notin alone
      BY Zenon DEF Alone
    <3> HIDE DEF alone
    <3>2. \A p \in alone \X {0} : p[1] \in alone
      OBVIOUS
    <3> QED BY <3>1, <3>2
  <2>2. alone \in SUBSET (1..n)
    BY <1>3 DEF Alone
  <2> HIDE DEF alone
  <2>3. IsFiniteSet(alone)
    BY <1>3, <2>2, PlacesAreListed
  <2>4. IsFiniteSet(alone \X {0}) /\ Cardinality(alone \X {0}) = Cardinality(alone)
    BY <2>3, PileOfRow
  <2>5. IsFiniteSet(Partners(l, r))
    BY <1>9, <1>10, FS_Subset
  <2>6. Cardinality(Partners(l, r) \cup (alone \X {0})) =
          Cardinality(Partners(l, r)) + Cardinality(alone \X {0}) - Cardinality({})
    BY <2>1, <2>4, <2>5, FS_Union
  <2>7. Cardinality({}) = 0 /\ Cardinality(alone) \in Nat /\ Cardinality(Partners(l, r)) \in Nat
    BY <2>3, <2>5, FS_EmptySet, FS_CardinalityType
  <2>8. Len(FlattenSeq(s)) = Cardinality(Partners(l, r)) + Cardinality(alone) - 0
    BY <1>9, <1>10, <2>4, <2>6, <2>7, Zenon
  <2> QED BY <2>7, <2>8
<1>12. Cardinality(alone) = IF how = "left" THEN Cardinality(Alone(l, r)) ELSE 0
  BY FS_EmptySet
<1>13. how # "left" => ToSet(FlattenSeq(s)) = Pairings(l, r)
  <2> HAVE how # "left"
  <2>1. ToSet(FlattenSeq(s)) = UNION {ToSet(s[i]) : i \in 1..n}
    BY <1>5, FlatHasAll
  <2>2. \A i \in 1..n : ToSet(s[i]) = {Pairing(l[i], r[j]) : j \in S(i)}
    BY <1>3, <1>4, <1>5
  <2>3. \A p : p \in Partners(l, r) <=> \E i \in 1..n : \E j \in S(i) : p = <<i, j>>
    BY <1>3 DEF Partners, SameKey
  <2> HIDE DEF S
  <2>4. ASSUME NEW y, y \in ToSet(FlattenSeq(s))
        PROVE  y \in Pairings(l, r)
    <3>1. PICK i \in 1..n : y \in ToSet(s[i])
      BY <2>1, <2>4, Zenon
    <3>2. PICK j \in S(i) : y = Pairing(l[i], r[j])
      BY <2>2, <3>1, Zenon
    <3>3. <<i, j>> \in Partners(l, r) /\ <<i, j>>[1] = i /\ <<i, j>>[2] = j
      BY <2>3, Zenon
    <3> QED BY <3>2, <3>3, Zenon DEF Pairings
  <2>5. ASSUME NEW y, y \in Pairings(l, r)
        PROVE  y \in ToSet(FlattenSeq(s))
    <3>1. PICK p \in Partners(l, r) : y = Pairing(l[p[1]], r[p[2]])
      BY <2>5, Zenon DEF Pairings
    <3>2. PICK i \in 1..n : \E j \in S(i) : p = <<i, j>>
      BY <2>3, Zenon
    <3>3. PICK j \in S(i) : p = <<i, j>>
      BY <3>2, Zenon
    <3>4. y = Pairing(l[i], r[j])
      BY <3>1, <3>3, Zenon
    <3>5. y \in ToSet(s[i])
      BY <2>2, <3>4, Zenon
    <3> QED BY <2>1, <3>5, Zenon
  <2> QED BY <2>4, <2>5, Zenon
<1> HIDE DEF alone
<1>14. /\ Len(Join(left, right, 2, how)) =
            Cardinality(Partners(l, r)) + IF how = "left" THEN Cardinality(Alone(l, r)) ELSE 0
       /\ how # "left" => ToSet(Join(left, right, 2, how)) = Pairings(l, r)
  BY <1>1, <1>11, <1>12, <1>13, Zenon
<1> QED BY <1>14 DEF l, r

LEMMA SwappedPairings ==
  ASSUME NEW l, NEW r
  PROVE  {<<row[1], row[3], row[2]>> : row \in Pairings(l, r)} = Pairings(r, l)
<1> DEFINE Swap(row) == <<row[1], row[3], row[2]>>
<1>1. \A x, y : x[1] = y[1] => Swap(Pairing(x, y)) = Pairing(y, x)
  BY DEF Pairing
<1> HIDE DEF Swap
<1>2. ASSUME NEW a, NEW b, NEW p \in Partners(a, b)
      PROVE  /\ <<p[2], p[1]>> \in Partners(b, a)
             /\ a[p[1]][1] = b[p[2]][1]
  <2>1. p[1] \in DOMAIN a /\ p[2] \in DOMAIN b /\ a[p[1]][1] = b[p[2]][1]
    BY DEF Partners
  <2> DEFINE q == <<p[2], p[1]>>
  <2>2. q \in (DOMAIN b) \X (DOMAIN a) /\ q[1] = p[2] /\ q[2] = p[1]
    BY <2>1
  <2> HIDE DEF q
  <2>3. q \in Partners(b, a)
    BY <2>1, <2>2, Zenon DEF Partners
  <2> QED BY <2>1, <2>3 DEF q
<1>3. ASSUME NEW row \in Pairings(l, r)
      PROVE  Swap(row) \in Pairings(r, l)
  <2>1. PICK p \in Partners(l, r) : row = Pairing(l[p[1]], r[p[2]])
    BY Zenon DEF Pairings
  <2>2. Swap(row) = Pairing(r[p[2]], l[p[1]])
    <3>1. l[p[1]][1] = r[p[2]][1]
      BY <2>1, Zenon DEF Partners
    <3> DEFINE x == l[p[1]]
               y == r[p[2]]
    <3>2. x[1] = y[1] /\ row = Pairing(x, y)
      BY <2>1, <3>1
    <3> HIDE DEF x, y
    <3>3. Swap(row) = Pairing(y, x)
      BY <1>1, <3>2, Zenon
    <3> QED BY <3>3 DEF x, y
  <2>3. <<p[2], p[1]>> \in Partners(r, l) /\ <<p[2], p[1]>>[1] = p[2] /\ <<p[2], p[1]>>[2] = p[1]
    BY <1>2
  <2> QED BY <2>2, <2>3, Zenon DEF Pairings
<1>4. ASSUME NEW row \in Pairings(r, l)
      PROVE  \E other \in Pairings(l, r) : Swap(other) = row
  <2>1. PICK p \in Partners(r, l) : row = Pairing(r[p[1]], l[p[2]])
    BY Zenon DEF Pairings
  <2>2. Swap(Pairing(l[p[2]], r[p[1]])) = row
    <3>1. r[p[1]][1] = l[p[2]][1]
      BY <2>1, Zenon DEF Partners
    <3> DEFINE x == l[p[2]]
               y == r[p[1]]
    <3>2. x[1] = y[1] /\ row = Pairing(y, x)
      BY <2>1, <3>1
    <3> HIDE DEF x, y
    <3>3. Swap(Pairing(x, y)) = row
      BY <1>1, <3>2, Zenon
    <3> QED BY <3>3 DEF x, y
  <2>3. <<p[2], p[1]>> \in Partners(l, r) /\ <<p[2], p[1]>>[1] = p[2] /\ <<p[2], p[1]>>[2] = p[1]
    BY <1>2
  <2>4. Pairing(l[p[2]], r[p[1]]) \in Pairings(l, r)
    BY <2>3, Zenon DEF Pairings
  <2> QED BY <2>2, <2>4, Zenon
<1>5. {Swap(row) : row \in Pairings(l, r)} = Pairings(r, l)
  BY <1>3, <1>4
<1> QED BY <1>5 DEF Swap

\* csv_join has a row for every pair of rows with the same key, the same ones
\* whichever table is the left one, and a left join one for every row of the
\* left table that has none.
THEOREM JoinsHaveAllPairs ==
  ASSUME NEW c, c.left \in Tables, c.right \in Tables, c.how \in {"inner", "left"}
  PROVE  JoinHasAllPairs(c, Join(c.left, c.right, 2, c.how))
<1> DEFINE l == NotBlank(c.left)
           r == NotBlank(c.right)
           joined == Join(c.left, c.right, 2, c.how)
<1>1. /\ Len(joined) = Cardinality(Partners(l, r)) + IF c.how = "left" THEN Cardinality(Alone(l, r)) ELSE 0
      /\ c.how # "left" => ToSet(joined) = Pairings(l, r)
  BY JoinIs, Zenon
<1>2. /\ l \in Tables /\ r \in Tables
      /\ NotBlank(l) = l /\ NotBlank(r) = r
  BY RowsNotBlank, RowsLeftHaveText, Zenon
<1>3. ToSet(Join(r, l, 2, "inner")) = Pairings(r, l)
  <2> HIDE DEF l, r
  <2>1. "inner" # "left" => ToSet(Join(r, l, 2, "inner")) = Pairings(NotBlank(r), NotBlank(l))
    BY <1>2, JoinIs, Zenon
  <2> QED BY <1>2, <2>1
<1> HIDE DEF l, r, joined
<1>4. c.how = "inner" => {<<row[1], row[3], row[2]>> : row \in ToSet(joined)} = ToSet(Join(r, l, 2, "inner"))
  <2> HAVE c.how = "inner"
  <2>1. ToSet(joined) = Pairings(l, r)
    BY <1>1
  <2> QED BY <1>3, <2>1, SwappedPairings, Zenon
<1>5. JoinHasAllPairs(c, joined)
  BY <1>1, <1>4, Zenon DEF JoinHasAllPairs, Partners, Alone, l, r
<1> QED BY <1>5 DEF joined

-----------------------------------------------------------------------------
(* csv_pivot *)

\* The values without repetition.
LEMMA DistinctAreAll ==
  ASSUME NEW values \in Seq(Int)
  PROVE  /\ Distinct(values) \in Seq(Int)
         /\ \A i \in DOMAIN values : \E j \in DOMAIN Distinct(values) : Distinct(values)[j] = values[i]
         /\ \A j \in DOMAIN Distinct(values) : \E i \in DOMAIN values : Distinct(values)[j] = values[i]
         /\ \A i, j \in DOMAIN Distinct(values) : Distinct(values)[i] = Distinct(values)[j] => i = j
<1> DEFINE n == Len(values)
           S == FirstPlaces(values, n)
           t == Distinct(values)
           m == Cardinality(S)
<1>1. n \in Nat /\ DOMAIN values = 1..n
  OBVIOUS
<1>2. S \in SUBSET DOMAIN values /\ t = At(values, S)
  BY <1>1, UnseenAreFirst DEF Distinct
<1>3. PICK p : Selects(t, p, values, S)
  <2> HIDE DEF S, t
  <2> QED BY <1>2, AtSelects
<1>4. t \in Seq(Int)
  <2> HIDE DEF S, t
  <2> QED BY <1>2, AtSelects
<1>5. /\ p \in [1..m -> S]
      /\ \A k \in S : \E j \in 1..m : p[j] = k
      /\ \A i, j \in 1..m : i < j => p[i] < p[j]
      /\ DOMAIN t = 1..m /\ \A i \in 1..m : t[i] = values[p[i]]
  BY <1>3 DEF Selects, Lists, Bijection, Injection, Surjection
<1>6. \A i \in 1..n : \E k \in S : values[k] = values[i]
  <2> TAKE i \in 1..n
  <2> DEFINE D == {x \in 1..n : values[x] = values[i]}
  <2>1. D \in SUBSET Nat /\ D # {}
    OBVIOUS
  <2> HIDE DEF D
  <2>2. PICK k \in D : \A j \in D : k <= j
    BY <2>1, SomeLeast
  <2>3. k \in 1..n /\ values[k] = values[i]
    BY DEF D
  <2>4. \A l \in 1..(k - 1) : values[l] # values[k]
    <3>1. \A l \in 1..(k - 1) : l \in 1..n /\ ~(k <= l)
      BY <1>1, <2>3
    <3>2. \A l \in 1..(k - 1) : l \notin D
      BY <2>2, <3>1
    <3> QED BY <2>3, <3>1, <3>2 DEF D
  <2>5. k \in S
    BY <2>3, <2>4 DEF FirstPlaces
  <2> QED BY <2>3, <2>5
<1>7. \A i, j \in S : j < i => values[j] # values[i]
  <2>1. \A i, j \in S : j < i => j \in 1..(i - 1) /\ i \in 1..n
    BY <1>1 DEF FirstPlaces
  <2> QED BY <2>1 DEF FirstPlaces
<1>8. m \in Nat /\ S \subseteq DOMAIN values
  BY <1>1, <1>2, PlacesAreListed
<1> HIDE DEF t, m, S, n
<1>9. \A i \in DOMAIN values : \E j \in DOMAIN t : t[j] = values[i]
  <2> TAKE i \in DOMAIN values
  <2>1. PICK k \in S : values[k] = values[i]
    BY <1>1, <1>6
  <2>2. PICK j \in 1..m : p[j] = k
    BY <1>5
  <2> QED BY <1>5, <2>1, <2>2
<1>10. \A j \in DOMAIN t : \E i \in DOMAIN values : t[j] = values[i]
  BY <1>5, <1>8
<1>11. \A i, j \in DOMAIN t : t[i] = t[j] => i = j
  <2> SUFFICES ASSUME NEW i \in 1..m, NEW j \in 1..m, i < j
               PROVE  t[i] # t[j]
    BY <1>5, <1>8
  <2>1. p[i] \in S /\ p[j] \in S /\ p[i] < p[j]
    BY <1>5
  <2> QED BY <1>5, <1>7, <2>1
<1> QED BY <1>4, <1>9, <1>10, <1>11 DEF t

\* A row of an accepted width and what a row of a wide table leads to.
LEMMA PaddedIsRow ==
  ASSUME NEW row \in Seq(Int), NEW w \in Nat
  PROVE  /\ Padded(row, w) \in Seq(Int) /\ Len(Padded(row, w)) = w
         /\ Len(row) = w => Padded(row, w) = row
<1>1. \A i \in DOMAIN row : row[i] \in Int
  OBVIOUS
<1>2. \A i \in 1..w : (IF i \in DOMAIN row THEN row[i] ELSE Empty) \in Int
  BY <1>1 DEF Empty
<1>3. Padded(row, w) \in [1..w -> Int]
  BY <1>2 DEF Padded
<1>4. Padded(row, w) \in Seq(Int) /\ Len(Padded(row, w)) = w
  BY <1>3
<1>5. ASSUME Len(row) = w
      PROVE  Padded(row, w) = row
  <2>1. DOMAIN row = 1..w /\ row = [i \in 1..w |-> row[i]]
    BY <1>5
  <2>2. Padded(row, w) = [i \in 1..w |-> row[i]]
    BY <2>1 DEF Padded
  <2> QED BY <2>1, <2>2, Zenon
<1> QED BY <1>4, <1>5

LEMMA LongRows ==
  ASSUME NEW row \in Seq(Int), NEW columns \in Seq(Int), Len(row) = Len(columns) + 1
  PROVE  /\ Long(row, columns) \in Seq(Seq(Int))
         /\ ToSet(Long(row, columns)) = {<<row[1], columns[j], row[j + 1]>> : j \in DOMAIN columns}
<1> DEFINE n == Len(columns)
           t == Long(row, columns)
<1>1. n \in Nat /\ DOMAIN columns = 1..n /\ \A j \in 1..n : columns[j] \in Int
  OBVIOUS
<1>2. DOMAIN row = 1..(n + 1) /\ \A j \in 1..(n + 1) : row[j] \in Int
  OBVIOUS
<1>3. t = [j \in 1..n |-> <<row[1], columns[j], row[j + 1]>>]
  BY <1>1 DEF Long
<1> HIDE DEF n, t
<1>4. \A j \in 1..n : <<row[1], columns[j], row[j + 1]>> \in Seq(Int)
  <2> TAKE j \in 1..n
  <2>1. 1 \in 1..(n + 1) /\ j + 1 \in 1..(n + 1)
    BY <1>1
  <2>2. row[1] \in Int /\ columns[j] \in Int /\ row[j + 1] \in Int
    BY <1>1, <1>2, <2>1
  <2> QED BY <2>2
<1>5. t \in Seq(Seq(Int)) /\ DOMAIN t = 1..n
  BY <1>1, <1>3, <1>4
<1>6. ToSet(t) = {<<row[1], columns[j], row[j + 1]>> : j \in 1..n}
  BY <1>3 DEF ToSet
<1> QED BY <1>1, <1>5, <1>6 DEF t

LEMMA NotBlankAre ==
  ASSUME NEW rows \in Tables
  PROVE  /\ \A i \in DOMAIN NotBlank(rows) : \E j \in DOMAIN rows : NotBlank(rows)[i] = rows[j]
         /\ \A j \in DOMAIN rows : ~IsBlank(rows[j]) => \E i \in DOMAIN NotBlank(rows) : NotBlank(rows)[i] = rows[j]
<1> DEFINE S == {i \in DOMAIN rows : ~IsBlank(rows[i])}
           t == NotBlank(rows)
<1>1. rows \in Seq(Seq(Int)) /\ S \in SUBSET DOMAIN rows /\ t = At(rows, S)
  BY DEF Tables, NotBlank
<1>2. \A i \in DOMAIN rows : ~IsBlank(rows[i]) => i \in S
  OBVIOUS
<1> HIDE DEF S, t
<1>3. (\A i \in DOMAIN t : \E j \in S : t[i] = rows[j]) /\ ToSet(t) = ElementsAt(rows, S)
  BY <1>1, ChosenRows
<1>4. \A j \in S : \E i \in DOMAIN t : t[i] = rows[j]
  BY <1>3 DEF ToSet, ElementsAt
<1>5. \A i \in DOMAIN t : \E j \in DOMAIN rows : t[i] = rows[j]
  BY <1>1, <1>3
<1> QED BY <1>2, <1>4, <1>5 DEF t

\* A row of the wide table.
LEMMA WideRows ==
  ASSUME NEW k \in Int, NEW n \in Nat, NEW f \in [1..n -> Int]
  PROVE  /\ <<k>> \o f \in Seq(Int) /\ Len(<<k>> \o f) = n + 1
         /\ (<<k>> \o f)[1] = k
         /\ \A j \in 1..n : (<<k>> \o f)[j + 1] = f[j]
<1>1. f \in Seq(Int) /\ Len(f) = n /\ <<k>> \in Seq(Int) /\ Len(<<k>>) = 1 /\ <<k>>[1] = k
  OBVIOUS
<1> DEFINE r == <<k>> \o f
<1>2. r \in Seq(Int) /\ Len(r) = n + 1 /\ \A i \in 1..(n + 1) : r[i] = IF i <= 1 THEN <<k>>[i] ELSE f[i - 1]
  BY <1>1
<1> HIDE DEF r
<1>3. r[1] = k
  BY <1>1, <1>2
<1>4. \A j \in 1..n : r[j + 1] = f[j]
  <2> TAKE j \in 1..n
  <2>1. j + 1 \in 1..(n + 1) /\ ~(j + 1 <= 1) /\ (j + 1) - 1 = j
    OBVIOUS
  <2> QED BY <1>2, <2>1
<1> QED BY <1>2, <1>3, <1>4 DEF r

ValueIn(body, k, c) ==
  LET at == {i \in DOMAIN body : body[i][1] = k /\ body[i][2] = c} IN
  IF at = {} THEN Empty ELSE body[CHOOSE i \in at : TRUE][3]
Repeats(body) == \E i, j \in DOMAIN body : i # j /\ body[i][1] = body[j][1] /\ body[i][2] = body[j][2]
Bodies == {b \in Seq(Seq(Int)) : \A i \in DOMAIN b : Len(b[i]) = 3}

LEMMA ValuesAre ==
  ASSUME NEW body \in Bodies, NEW k, NEW c
  PROVE  /\ ValueIn(body, k, c) \in Int
         /\ ValueIn(body, k, c) # Empty =>
              \E i \in DOMAIN body : body[i][1] = k /\ body[i][2] = c /\ body[i][3] = ValueIn(body, k, c)
         /\ ~Repeats(body) =>
              \A i \in DOMAIN body : body[i][1] = k /\ body[i][2] = c => ValueIn(body, k, c) = body[i][3]
<1> DEFINE at == {i \in DOMAIN body : body[i][1] = k /\ body[i][2] = c}
           x == CHOOSE i \in at : TRUE
           v == ValueIn(body, k, c)
<1>1. v = IF at = {} THEN Empty ELSE body[x][3]
  BY DEF ValueIn
<1>2. at # {} => x \in at
  OBVIOUS
<1>3. \A i \in at : i \in DOMAIN body /\ body[i][1] = k /\ body[i][2] = c
  OBVIOUS
<1>4. \A i \in DOMAIN body : body[i][1] = k /\ body[i][2] = c => i \in at
  OBVIOUS
<1>5. \A i \in DOMAIN body : body[i][3] \in Int
  <2> TAKE i \in DOMAIN body
  <2>1. body[i] \in Seq(Int) /\ Len(body[i]) = 3
    BY DEF Bodies
  <2> QED BY <2>1
<1> HIDE DEF at, x, v
<1>6. v \in Int
  BY <1>1, <1>2, <1>3, <1>5 DEF Empty
<1>7. v # Empty => \E i \in DOMAIN body : body[i][1] = k /\ body[i][2] = c /\ body[i][3] = v
  BY <1>1, <1>2, <1>3
<1>8. ~Repeats(body) => \A i \in DOMAIN body : body[i][1] = k /\ body[i][2] = c => v = body[i][3]
  <2> SUFFICES ASSUME ~Repeats(body), NEW i \in DOMAIN body, body[i][1] = k, body[i][2] = c
               PROVE  v = body[i][3]
    OBVIOUS
  <2>1. i \in at /\ x \in at
    BY <1>2, <1>4
  <2>2. x = i
    BY <1>3, <2>1 DEF Repeats
  <2> QED BY <1>1, <2>1, <2>2
<1> QED BY <1>6, <1>7, <1>8 DEF v

LEMMA ThreeCells ==
  ASSUME NEW row \in Seq(Int)
  PROVE  Len(row) = 3 =>
           row = <<row[1], row[2], row[3]>> /\ row[1] \in Int /\ row[2] \in Int /\ row[3] \in Int
<1>1. row = [i \in 1..Len(row) |-> row[i]] /\ \A i \in 1..Len(row) : row[i] \in Int
  OBVIOUS
<1>2. \A f : f = [i \in 1..3 |-> f[i]] => f = <<f[1], f[2], f[3]>>
  OBVIOUS
<1>3. 1 \in 1..3 /\ 2 \in 1..3 /\ 3 \in 1..3
  OBVIOUS
<1> QED BY <1>1, <1>2, <1>3, Zenon

LEMMA MadeSequence ==
  ASSUME NEW S, NEW n \in Nat, NEW f, f = [i \in 1..n |-> f[i]], \A i \in 1..n : f[i] \in S
  PROVE  f \in Seq(S) /\ Len(f) = n /\ DOMAIN f = 1..n
<1>1. f \in [1..n -> S]
  BY Zenon
<1> QED BY <1>1

WideTable(body, keys, columns) ==
  [i \in DOMAIN keys |-> <<keys[i]>> \o [j \in DOMAIN columns |-> ValueIn(body, keys[i], columns[j])]]

LEMMA PivotIs ==
  ASSUME NEW rows
  PROVE  LET body == PivotBody(rows)
             keys == Distinct(Column(body, 1))
             columns == Distinct(Column(body, 2))
         IN  Pivot(rows) = IF Repeats(body) THEN None
                           ELSE [columns |-> columns, rows |-> WideTable(body, keys, columns)]
BY Zenon DEF Pivot, PivotBody, Repeats, WideTable, ValueIn

\* The rows that unpivoting makes of a wide table it takes.
LEMMA HeadersAre ==
  ASSUME NEW columns \in Seq(Int)
  PROVE  /\ HeaderOf(columns) \in Seq(Int) /\ Len(HeaderOf(columns)) = Len(columns)
         /\ DOMAIN HeaderOf(columns) = DOMAIN columns
         /\ \A j \in DOMAIN columns : HeaderOf(columns)[j] = Stripped(columns[j])
<1>1. HeaderOf(columns) = [j \in 1..Len(columns) |-> Stripped(columns[j])] /\ Len(columns) \in Nat
  BY DEF HeaderOf
<1>2. \A j \in 1..Len(columns) : Stripped(columns[j]) \in Int
  BY DEF Stripped
<1> QED BY <1>1, <1>2

LEMMA UnpivotedAre ==
  ASSUME NEW table \in Tables, NEW columns \in Seq(Int), IsHeader(columns),
         \A i \in DOMAIN table : Len(table[i]) = Len(columns) + 1
  PROVE  /\ Melt(columns, table) = Unpivot(columns, table)
         /\ Unpivot(columns, table) \in Seq(Seq(Int))
         /\ \A row : row \in ToSet(Unpivot(columns, table)) <=>
              \E q \in DOMAIN NotBlank(table), j \in DOMAIN columns :
                row = <<NotBlank(table)[q][1], Stripped(columns[j]), NotBlank(table)[q][j + 1]>>
<1> DEFINE t == NotBlank(table)
           names == HeaderOf(columns)
           w == Len(columns) + 1
           n == Len(t)
           long == [q \in DOMAIN t |-> Long(t[q], names)]
           cells(q) == {<<t[q][1], names[j], t[q][j + 1]>> : j \in DOMAIN names}
<1>0. /\ names \in Seq(Int) /\ Len(names) = Len(columns) /\ DOMAIN names = DOMAIN columns
      /\ \A j \in DOMAIN columns : names[j] = Stripped(columns[j])
  BY HeadersAre
<1>1. t \in Seq(Seq(Int)) /\ n \in Nat /\ DOMAIN t = 1..n /\ w \in Nat
  BY RowsNotBlank DEF Tables
<1>2. \A q \in DOMAIN t : t[q] \in Seq(Int) /\ Len(t[q]) = w
  <2> TAKE q \in DOMAIN t
  <2>1. PICK i \in DOMAIN table : t[q] = table[i]
    BY NotBlankAre
  <2> QED BY <1>1, <2>1
<1>3. Fits(table, w)
  BY <1>2 DEF Fits
<1>4. [q \in DOMAIN t |-> Long(Padded(t[q], w), names)] = long
  <2>1. \A q \in DOMAIN t : Padded(t[q], w) = t[q]
    BY <1>1, <1>2, PaddedIsRow
  <2> HIDE DEF t, w, names
  <2> QED BY <2>1
<1>5. Unpivot(columns, table) = FlattenSeq(long)
  BY <1>4, Zenon DEF Unpivot
<1>6. Melt(columns, table) = FlattenSeq(long)
  BY <1>3, Zenon DEF Melt
<1> HIDE DEF t, n, names
<1>7. \A q \in 1..n : Long(t[q], names) \in Seq(Seq(Int)) /\ ToSet(Long(t[q], names)) = cells(q)
  <2> TAKE q \in 1..n
  <2>1. t[q] \in Seq(Int) /\ Len(t[q]) = Len(names) + 1
    BY <1>0, <1>1, <1>2
  <2> QED BY <1>0, <2>1, LongRows
<1>8. long = [q \in 1..n |-> long[q]] /\ \A q \in 1..n : long[q] = Long(t[q], names)
  BY <1>1
<1> HIDE DEF long
<1>9. long \in Seq(Seq(Seq(Int))) /\ DOMAIN long = 1..n
  <2>1. \A q \in 1..n : long[q] \in Seq(Seq(Int))
    BY <1>7, <1>8
  <2> QED BY <1>1, <1>8, <2>1, MadeSequence
<1>10. FlattenSeq(long) \in Seq(Seq(Int)) /\ ToSet(FlattenSeq(long)) = UNION {ToSet(long[q]) : q \in 1..n}
  BY <1>9, FlatHasAll
<1>11. \A row : row \in ToSet(FlattenSeq(long)) <=> \E q \in 1..n : row \in cells(q)
  <2>1. \A q \in 1..n : ToSet(long[q]) = cells(q)
    BY <1>7, <1>8, Zenon
  <2> HIDE DEF cells
  <2> QED BY <1>10, <2>1
<1>12. \A q \in 1..n : cells(q) = {<<t[q][1], Stripped(columns[j]), t[q][j + 1]>> : j \in DOMAIN columns}
  BY <1>0
<1>13. \A row, q : q \in 1..n => (row \in cells(q) <=> \E j \in DOMAIN columns : row = <<t[q][1], Stripped(columns[j]), t[q][j + 1]>>)
  <2> HIDE DEF cells
  <2> QED BY <1>12
<1> HIDE DEF cells
<1> QED BY <1>1, <1>5, <1>6, <1>10, <1>11, <1>13 DEF t

\* The rows of a table with a value, and a row under the name of its column.
Valued(table) == {row \in ToSet(table) : Stripped(row[3]) # Empty}
Renamed(row) == <<row[1], Stripped(row[2]), row[3]>>

\* The rows of a pivot as they come back, when its columns are a header.
Restored(body, long) == Valued(long) = {Renamed(row) : row \in Valued(body)}

\* Why the columns of a pivot are no header.
NoHeader(body) ==
  \/ body = <<>>
  \/ \E i \in DOMAIN body : Stripped(body[i][2]) \in {Empty, IndexName}
  \/ \E i, j \in DOMAIN body : body[i][2] # body[j][2] /\ Stripped(body[i][2]) = Stripped(body[j][2])

\* Unpivoting a pivot gives back exactly the rows that had a value, under the
\* column without the blanks around it, and melting it is the same as
\* unpivoting it; a table whose pivot can be melted back by neither has no row,
\* a column without a name or with that of the index, or two columns that
\* differ only in blanks: for any table.
THEOREM PivotsKeepValues ==
  ASSUME PlanConstantsOK, NEW rows \in Tables
  PROVE  PivotKeepsValues(rows, Pivot(rows))
<1> DEFINE b == NotBlank(rows)
           body == PivotBody(rows)
           keys == Distinct(Column(body, 1))
           columns == Distinct(Column(body, 2))
           table == WideTable(body, keys, columns)
           long == Unpivot(columns, table)
<1>1. Pivot(rows) = IF Repeats(body) THEN None ELSE [columns |-> columns, rows |-> table]
  BY PivotIs, Zenon
<1>2. /\ b \in Seq(Seq(Int)) /\ DOMAIN body = DOMAIN b
      /\ \A i \in DOMAIN b : body[i] = Padded(b[i], 3) /\ Padded(b[i], 3) \in Seq(Int) /\ Len(Padded(b[i], 3)) = 3
  <2>1. b \in Seq(Seq(Int))
    BY RowsNotBlank DEF Tables
  <2>2. \A i \in DOMAIN b : Padded(b[i], 3) \in Seq(Int) /\ Len(Padded(b[i], 3)) = 3
    <3>1. \A i \in DOMAIN b : b[i] \in Seq(Int)
      BY <2>1
    <3>2. 3 \in Nat
      OBVIOUS
    <3> HIDE DEF b
    <3> QED BY <3>1, <3>2, PaddedIsRow
  <2> HIDE DEF b
  <2> QED BY <2>1, <2>2 DEF PivotBody, b
<1>3. body \in Bodies
  <2>1. body = [i \in 1..Len(b) |-> body[i]] /\ Len(b) \in Nat /\ DOMAIN b = 1..Len(b)
    BY <1>2 DEF PivotBody
  <2> HIDE DEF body, b
  <2>2. body \in Seq(Seq(Int))
    BY <1>2, <2>1
  <2> QED BY <1>2, <2>2 DEF Bodies
<1> HIDE DEF body, b
<1>4. /\ Column(body, 1) \in Seq(Int) /\ Column(body, 2) \in Seq(Int)
      /\ DOMAIN Column(body, 1) = DOMAIN body /\ DOMAIN Column(body, 2) = DOMAIN body
      /\ \A i \in DOMAIN body : Column(body, 1)[i] = body[i][1] /\ Column(body, 2)[i] = body[i][2]
  <2>1. 1 \in Nat \ {0} /\ 2 \in Nat \ {0} /\ body \in Seq(Seq(Int))
    BY <1>3 DEF Bodies
  <2>2. \A i \in DOMAIN body : Len(body[i]) >= 1 /\ Len(body[i]) >= 2
    <3>1. \A i \in DOMAIN body : Len(body[i]) = 3
      BY <1>3 DEF Bodies
    <3>2. 3 >= 1 /\ 3 >= 2
      OBVIOUS
    <3> QED BY <3>1, <3>2, Zenon
  <2> QED BY <2>1, <2>2, ColumnsAreThose
<1>5. /\ keys \in Seq(Int) /\ columns \in Seq(Int)
      /\ \A i \in DOMAIN body : \E j \in DOMAIN keys : keys[j] = body[i][1]
      /\ \A i \in DOMAIN body : \E j \in DOMAIN columns : columns[j] = body[i][2]
  <2>1. /\ keys \in Seq(Int)
        /\ \A i \in DOMAIN body : \E j \in DOMAIN keys : keys[j] = body[i][1]
    <3>1. \A i \in DOMAIN Column(body, 1) : \E j \in DOMAIN keys : keys[j] = Column(body, 1)[i]
      BY <1>4, DistinctAreAll
    <3>2. keys \in Seq(Int)
      BY <1>4, DistinctAreAll
    <3> HIDE DEF keys
    <3> QED BY <1>4, <3>1, <3>2
  <2>2. /\ columns \in Seq(Int)
        /\ \A i \in DOMAIN body : \E j \in DOMAIN columns : columns[j] = body[i][2]
    <3>1. \A i \in DOMAIN Column(body, 2) : \E j \in DOMAIN columns : columns[j] = Column(body, 2)[i]
      BY <1>4, DistinctAreAll
    <3>2. columns \in Seq(Int)
      BY <1>4, DistinctAreAll
    <3> HIDE DEF columns
    <3> QED BY <1>4, <3>1, <3>2
  <2> QED BY <2>1, <2>2
<1>20. /\ \A j \in DOMAIN columns : \E i \in DOMAIN body : columns[j] = body[i][2]
       /\ \A i, j \in DOMAIN columns : columns[i] = columns[j] => i = j
  <2>1. \A j \in DOMAIN columns : \E i \in DOMAIN Column(body, 2) : columns[j] = Column(body, 2)[i]
    BY <1>4, DistinctAreAll
  <2>2. \A i, j \in DOMAIN columns : columns[i] = columns[j] => i = j
    BY <1>4, DistinctAreAll
  <2> HIDE DEF columns
  <2> QED BY <1>4, <2>1, <2>2
<1> HIDE DEF keys, columns
<1> DEFINE n == Len(columns)
           V(i, j) == ValueIn(body, keys[i], columns[j])
<1>6. n \in Nat /\ DOMAIN columns = 1..n /\ \A i \in DOMAIN keys : keys[i] \in Int
  BY <1>5
<1>7. \A k, c : ValueIn(body, k, c) \in Int
  BY <1>3, ValuesAre
<1>8. \A i \in DOMAIN keys :
        /\ table[i] \in Seq(Int) /\ Len(table[i]) = n + 1
        /\ table[i][1] = keys[i] /\ \A j \in 1..n : table[i][j + 1] = V(i, j)
  <2> TAKE i \in DOMAIN keys
  <2> DEFINE f == [j \in 1..n |-> V(i, j)]
  <2>1. table[i] = <<keys[i]>> \o f
    BY <1>6 DEF WideTable
  <2>2. f \in [1..n -> Int] /\ \A j \in 1..n : f[j] = V(i, j)
    BY <1>7
  <2> HIDE DEF f, V, n, table
  <2>3. keys[i] \in Int /\ n \in Nat
    BY <1>6
  <2> QED BY <2>1, <2>2, <2>3, WideRows
<1>9. table \in Tables /\ DOMAIN table = DOMAIN keys
  <2>1. table = [i \in 1..Len(keys) |-> table[i]] /\ Len(keys) \in Nat /\ DOMAIN keys = 1..Len(keys)
    BY <1>5 DEF WideTable
  <2> HIDE DEF table, n
  <2> QED BY <1>8, <2>1 DEF Tables
<1> HIDE DEF table
<1>10. ASSUME IsHeader(columns)
       PROVE  /\ Melt(columns, table) = long /\ long \in Seq(Seq(Int))
              /\ \A row : row \in ToSet(long) <=>
                   \E q \in DOMAIN NotBlank(table), j \in DOMAIN columns :
                     row = <<NotBlank(table)[q][1], Stripped(columns[j]), NotBlank(table)[q][j + 1]>>
  <2>1. \A i \in DOMAIN table : Len(table[i]) = Len(columns) + 1
    BY <1>8, <1>9
  <2> QED BY <1>5, <1>9, <1>10, <2>1, UnpivotedAre
<1>11. ASSUME ~IsHeader(columns)
       PROVE  Melt(columns, table) = None /\ long = None
  BY <1>11 DEF Melt, Unpivot
<1> HIDE DEF long
<1>12. ASSUME IsHeader(columns), NEW row \in Valued(long)
       PROVE  \E x \in DOMAIN body : body[x] \in Valued(body) /\ row = Renamed(body[x])
  <2>0. row \in ToSet(long) /\ Stripped(row[3]) # Empty
    BY <1>12 DEF Valued
  <2>1. PICK q \in DOMAIN NotBlank(table), j \in DOMAIN columns :
          row = <<NotBlank(table)[q][1], Stripped(columns[j]), NotBlank(table)[q][j + 1]>>
    BY <1>10, <1>12, <2>0
  <2>2. PICK i \in DOMAIN table : NotBlank(table)[q] = table[i]
    BY <1>9, NotBlankAre
  <2>3. row = <<keys[i], Stripped(columns[j]), V(i, j)>>
    BY <1>6, <1>8, <1>9, <2>1, <2>2
  <2> HIDE DEF V
  <2>4. Stripped(V(i, j)) # Empty /\ V(i, j) # Empty
    BY <2>0, <2>3 DEF Stripped, Empty
  <2>5. PICK x \in DOMAIN body : body[x][1] = keys[i] /\ body[x][2] = columns[j] /\ body[x][3] = V(i, j)
    BY <1>3, <2>4, ValuesAre DEF V
  <2>6. row = Renamed(body[x])
    BY <2>3, <2>5, Zenon DEF Renamed
  <2>7. body[x] \in Valued(body)
    BY <2>4, <2>5 DEF Valued, ToSet
  <2> QED BY <2>6, <2>7
<1>13. ASSUME IsHeader(columns), ~Repeats(body), NEW x \in DOMAIN body, Stripped(body[x][3]) # Empty
       PROVE  Renamed(body[x]) \in Valued(long)
  <2>5. PICK i \in DOMAIN keys : keys[i] = body[x][1]
    BY <1>5
  <2>6. PICK j \in DOMAIN columns : columns[j] = body[x][2]
    BY <1>5
  <2>7. V(i, j) = body[x][3]
    BY <1>3, <1>13, <2>5, <2>6, ValuesAre
  <2> HIDE DEF V
  <2>8. i \in DOMAIN table /\ ~IsBlank(table[i])
    <3>1. Stripped(table[i][j + 1]) # Empty /\ j + 1 \in 1..(n + 1)
      BY <1>6, <1>8, <1>13, <2>7
    <3>2. j + 1 \in DOMAIN table[i]
      BY <1>8, <3>1
    <3> QED BY <1>9, <3>1, <3>2 DEF IsBlank
  <2>9. PICK q \in DOMAIN NotBlank(table) : NotBlank(table)[q] = table[i]
    BY <1>9, <2>8, NotBlankAre
  <2>11. Renamed(body[x]) = <<NotBlank(table)[q][1], Stripped(columns[j]), NotBlank(table)[q][j + 1]>>
    <3>1. table[i][1] = body[x][1] /\ table[i][j + 1] = body[x][3] /\ columns[j] = body[x][2]
      BY <1>6, <1>8, <2>5, <2>6, <2>7
    <3> QED BY <2>9, <3>1, Zenon DEF Renamed
  <2>12. Renamed(body[x]) \in ToSet(long)
    BY <1>10, <1>13, <2>11
  <2>13. Renamed(body[x])[3] = body[x][3]
    BY DEF Renamed
  <2> QED BY <1>13, <2>12, <2>13 DEF Valued
<1>14. ASSUME IsHeader(columns), ~Repeats(body)
       PROVE  Restored(body, long)
  <2>1. \A row \in Valued(long) : row \in {Renamed(r) : r \in Valued(body)}
    BY <1>12, <1>14
  <2>2. ASSUME NEW r \in Valued(body)
        PROVE  Renamed(r) \in Valued(long)
    <3>1. PICK x \in DOMAIN body : r = body[x]
      BY DEF Valued, ToSet
    <3>2. Stripped(body[x][3]) # Empty
      BY <3>1 DEF Valued
    <3> QED BY <1>13, <1>14, <3>1, <3>2
  <2> QED BY <2>1, <2>2 DEF Restored
<1>15. ASSUME ~IsHeader(columns)
       PROVE  NoHeader(body)
  <2> DEFINE names == HeaderOf(columns)
  <2>1. DOMAIN names = DOMAIN columns /\ \A j \in DOMAIN columns : names[j] = Stripped(columns[j])
    BY <1>5, HeadersAre
  <2>2. \/ columns = <<>>
        \/ \E i, j \in DOMAIN names : names[i] = names[j] /\ i # j
        \/ \E j \in DOMAIN names : names[j] \in {Empty, IndexName}
    <3>1. columns = <<>> \/ ~IsInjective(names) \/ {Empty, IndexName} \cap ToSet(names) # {}
      BY <1>15, Zenon DEF IsHeader
    <3> HIDE DEF names
    <3> QED BY <3>1 DEF IsInjective, ToSet
  <2> HIDE DEF names
  <2>3. CASE columns = <<>>
    <3>1. DOMAIN columns = {}
      BY <2>3
    <3>2. DOMAIN body = {} /\ body \in Seq(Seq(Int))
      BY <1>3, <1>5, <3>1 DEF Bodies
    <3>3. body = <<>>
      BY <3>2
    <3> QED BY <3>3 DEF NoHeader
  <2>4. CASE \E i, j \in DOMAIN names : names[i] = names[j] /\ i # j
    <3>1. PICK i \in DOMAIN columns, j \in DOMAIN columns : Stripped(columns[i]) = Stripped(columns[j]) /\ i # j
      BY <2>1, <2>4
    <3>2. PICK x \in DOMAIN body : columns[i] = body[x][2]
      BY <1>20
    <3>3. PICK y \in DOMAIN body : columns[j] = body[y][2]
      BY <1>20
    <3>4. columns[i] # columns[j]
      BY <1>20, <3>1
    <3> QED BY <3>1, <3>2, <3>3, <3>4 DEF NoHeader
  <2>5. CASE \E j \in DOMAIN names : names[j] \in {Empty, IndexName}
    <3>1. PICK j \in DOMAIN columns : Stripped(columns[j]) \in {Empty, IndexName}
      BY <2>1, <2>5
    <3>2. PICK y \in DOMAIN body : columns[j] = body[y][2]
      BY <1>20
    <3> QED BY <3>1, <3>2 DEF NoHeader
  <2> QED BY <2>2, <2>3, <2>4, <2>5
<1>16. Melt(columns, table) = long
  BY <1>10, <1>11
<1>17. ~Repeats(body) /\ long # None => Restored(body, long)
  BY <1>11, <1>14
<1>18. long = None => NoHeader(body)
  BY <1>10, <1>15 DEF PlanConstantsOK
<1> DEFINE r == Pivot(rows)
<1>19. r # None => ~Repeats(body) /\ r.columns = columns /\ r.rows = table
  BY <1>1
<1> HIDE DEF r
<1>21. PivotKeepsValues(rows, r)
  BY <1>16, <1>17, <1>18, <1>19, Zenon DEF PivotKeepsValues, Restored, NoHeader, Valued, Renamed, long, body
<1> QED BY <1>21 DEF r

-----------------------------------------------------------------------------
(* Sums of numbers at some places *)

LEMMA IntSumExists ==
  ASSUME NEW n \in Nat, NEW values \in [1..n -> Int]
  PROVE  \E h : AddsUp(h, values, n)
<1> DEFINE step == [x \in (1..n) \X Int |-> x[2] + values[x[1]]]
<1>1. /\ step \in [(1..n) \X Int -> Int]
      /\ \A i \in 1..n, v \in Int : step[<<i, v>>] = v + values[i]
      /\ 0 \in Int
  OBVIOUS
<1> HIDE DEF step
<1>2. PICK g \in [SUBSET (1..n) -> Int] : FoldsLeft(g, step, 0, n)
  BY <1>1, FoldLeftExists
<1>3. ASSUME NEW s \in SUBSET (1..n), s # {}
      PROVE  g[s] = g[s \ {Max(s)}] + values[Max(s)]
  <2>1. Max(s) \in 1..n
    BY <1>3, MaxOfSome
  <2>2. g[s \ {Max(s)}] \in Int
    OBVIOUS
  <2>3. g[s] = step[<<Max(s), g[s \ {Max(s)}]>>]
    BY <1>2, <1>3 DEF FoldsLeft
  <2> QED BY <1>1, <2>1, <2>2, <2>3
<1>4. AddsUp(g, values, n)
  BY <1>2, <1>3 DEF FoldsLeft, AddsUp
<1> QED BY <1>4

\* A sum can be taken in any order.
SumsFreely(h, v, n) ==
  /\ h[{}] = 0
  /\ \A s \in SUBSET (1..n) : h[s] \in Int /\ \A x \in s : h[s] = h[s \ {x}] + v[x]

LEMMA SumWithout ==
  ASSUME NEW n \in Nat, NEW v \in [1..n -> Int], NEW h, AddsUp(h, v, n)
  PROVE  SumsFreely(h, v, n)
<1> DEFINE A == {s \in SUBSET (1..n) : h[s] \in Int /\ \A x \in s : h[s] = h[s \ {x}] + v[x]}
           S == 1..n
           d == [s \in SUBSET S |-> Max(s)]
<1>1. IsFiniteSet(S)
  BY FS_Interval
<1>2. \A s \in SUBSET S : d[s] = Max(s) /\ (s # {} => d[s] \in s /\ \A y \in s : y <= d[s])
  BY MaxOfSome
<1>3. h[{}] = 0 /\ \A s \in SUBSET S : s # {} => h[s] = h[s \ {d[s]}] + v[d[s]]
  BY <1>2 DEF AddsUp
<1>4. {} \in A
  BY <1>3
<1> HIDE DEF d
<1>5. Picks(d, S)
  BY <1>2 DEF Picks
<1>6. ClosedUnder(d, A, S)
  <2> SUFFICES ASSUME NEW s \in SUBSET S, s # {}, s \ {d[s]} \in A
               PROVE  s \in A
    BY DEF ClosedUnder
  <2> DEFINE m == d[s]
             t == s \ {m}
  <2>1. m \in s /\ m \in 1..n /\ \A y \in s : y <= m
    BY <1>2
  <2> HIDE DEF m
  <2>2. h[s] = h[t] + v[m] /\ h[t] \in Int /\ v[m] \in Int /\ \A x \in t : h[t] = h[t \ {x}] + v[x]
    BY <1>3, <2>1 DEF m
  <2>3. ASSUME NEW x \in s, x # m
        PROVE  h[s] = h[s \ {x}] + v[x]
    <3> DEFINE u == s \ {x}
    <3>1. u \in SUBSET S /\ u # {} /\ m \in u /\ x \in t /\ u \ {m} = t \ {x} /\ v[x] \in Int
      BY <2>1, <2>3
    <3>2. d[u] = m
      <4>1. d[u] \in u /\ m <= d[u]
        BY <1>2, <3>1
      <4>3. d[u] \in s /\ d[u] \in 1..n
        BY <4>1
      <4>2. d[u] <= m /\ d[u] \in Int /\ m \in Int
        BY <2>1, <4>3
      <4> HIDE DEF u
      <4> QED BY <4>1, <4>2
    <3>3. h[u] = h[t \ {x}] + v[m]
      BY <1>3, <3>1, <3>2
    <3>4. h[t] = h[t \ {x}] + v[x] /\ h[t \ {x}] \in Int
      <4>1. t \ {x} \in SUBSET (1..n)
        OBVIOUS
      <4>2. h[t] = h[t \ {x}] + v[x]
        BY <2>2, <3>1
      <4>3. h[t \ {x}] \in Int
        <5> DEFINE B == {w \in SUBSET S : h[w] \in Int}
        <5>1. {} \in B
          BY <1>3
        <5>2. ClosedUnder(d, B, S)
          <6> SUFFICES ASSUME NEW w \in SUBSET S, w # {}, w \ {d[w]} \in B
                       PROVE  w \in B
            BY DEF ClosedUnder
          <6>1. h[w] = h[w \ {d[w]}] + v[d[w]] /\ d[w] \in 1..n /\ h[w \ {d[w]}] \in Int
            BY <1>2, <1>3
          <6> QED BY <6>1
        <5>3. SUBSET S \subseteq B
          <6> HIDE DEF B
          <6> QED BY <1>1, <1>5, <5>1, <5>2, SubsetsByRemoval
        <5> QED BY <4>1, <5>3
      <4> HIDE DEF t
      <4> QED BY <4>2, <4>3
    <3>5. v[m] \in Int /\ v[x] \in Int
      BY <2>2, <3>1
    <3>6. h[s] = h[t] + v[m]
      BY <2>2
    <3> HIDE DEF t, u
    <3>7. h[s] = h[u] + v[x]
      BY <3>3, <3>4, <3>5, <3>6
    <3> QED BY <3>7 DEF u
  <2>4. h[s] \in Int
    BY <2>2
  <2> QED BY <2>2, <2>3, <2>4
<1>7. SUBSET S \subseteq A
  <2> HIDE DEF A
  <2> QED BY <1>1, <1>4, <1>5, <1>6, SubsetsByRemoval
<1> QED BY <1>3, <1>7 DEF SumsFreely

\* With every set without a place, the set with it.
Grows(A, S) == \A T \in SUBSET S : \A x \in S \ T : T \in A => T \cup {x} \in A

LEMMA PlacesByAddition ==
  ASSUME NEW n \in Nat, NEW S \in SUBSET (1..n), NEW A, {} \in A, Grows(A, S)
  PROVE  S \in A
<1>1. IsFiniteSet(S)
  BY PlacesAreListed
<1>2. ASSUME NEW Q, IsFiniteSet(Q), Grows(A, Q)
      PROVE  Q \in A
  <2>1. SUBSET Q \subseteq A
    BY <1>2, SubsetsByAddition DEF Grows
  <2> QED BY <2>1
<1> QED BY <1>1, <1>2, Zenon

Additive(h, n) == \A S, T \in SUBSET (1..n) : S \cap T = {} => h[S \cup T] = h[S] + h[T]

LEMMA SumOfParts ==
  ASSUME NEW n \in Nat, NEW v \in [1..n -> Int], NEW h, AddsUp(h, v, n)
  PROVE  Additive(h, n)
<1> SUFFICES ASSUME NEW S \in SUBSET (1..n), NEW T \in SUBSET (1..n), S \cap T = {}
             PROVE  h[S \cup T] = h[S] + h[T]
  BY DEF Additive
<1> DEFINE A == {s \in SUBSET T : h[S \cup s] = h[S] + h[s]}
<1>1. h[{}] = 0 /\ \A s \in SUBSET (1..n) : h[s] \in Int /\ \A x \in s : h[s] = h[s \ {x}] + v[x]
  <2>1. SumsFreely(h, v, n)
    BY SumWithout, Zenon
  <2> QED BY <2>1, Zenon DEF SumsFreely
<1>2. {} \in A
  <2>1. S \cup {} = S
    OBVIOUS
  <2> QED BY <1>1, <2>1
<1>3. ASSUME NEW s \in SUBSET T, NEW x \in T \ s, s \in A
      PROVE  s \cup {x} \in A
  <2> DEFINE a == S \cup (s \cup {x})
             b == s \cup {x}
  <2>1. a \in SUBSET (1..n) /\ b \in SUBSET (1..n) /\ x \in a /\ x \in b /\ a \ {x} = S \cup s /\ b \ {x} = s
    OBVIOUS
  <2>2. h[a] = h[S \cup s] + v[x] /\ h[b] = h[s] + v[x]
    <3> HIDE DEF a, b
    <3> QED BY <1>1, <2>1
  <2>3. h[S] \in Int /\ h[s] \in Int /\ v[x] \in Int /\ h[S \cup s] = h[S] + h[s]
    BY <1>1, <1>3
  <2>4. h[a] = h[S] + h[b]
    <3> HIDE DEF a, b
    <3> QED BY <2>2, <2>3
  <2> QED BY <2>4
<1>5. T \in A
  <2>1. Grows(A, T)
    BY <1>3 DEF Grows
  <2> HIDE DEF A
  <2> QED BY <1>2, <2>1, PlacesByAddition, Zenon
<1> QED BY <1>5

Total(v, n) == (CHOOSE h : AddsUp(h, v, n))[1..n]

LEMMA TotalIs ==
  ASSUME NEW n \in Nat, NEW v \in [1..n -> Int], NEW h, AddsUp(h, v, n)
  PROVE  Total(v, n) = h[1..n]
<1> DEFINE g == CHOOSE g : AddsUp(g, v, n)
<1>1. AddsUp(g, v, n)
  BY Zenon
<1> HIDE DEF g
<1> DEFINE A == {s \in SUBSET (1..n) : g[s] = h[s]}
<1>2. h[{}] = 0 /\ \A s \in SUBSET (1..n) : h[s] \in Int /\ \A x \in s : h[s] = h[s \ {x}] + v[x]
  BY SumWithout DEF SumsFreely
<1>3. g[{}] = 0 /\ \A s \in SUBSET (1..n) : g[s] \in Int /\ \A x \in s : g[s] = g[s \ {x}] + v[x]
  BY <1>1, SumWithout DEF SumsFreely
<1>4. {} \in A
  BY <1>2, <1>3
<1>5. ASSUME NEW s \in SUBSET (1..n), NEW x \in (1..n) \ s, s \in A
      PROVE  s \cup {x} \in A
  <2>1. (s \cup {x}) \ {x} = s /\ s \cup {x} \in SUBSET (1..n) /\ x \in s \cup {x}
    OBVIOUS
  <2> DEFINE b == s \cup {x}
  <2> HIDE DEF b
  <2>3. b \ {x} = s /\ b \in SUBSET (1..n) /\ x \in b
    BY <2>1 DEF b
  <2>2. h[b] = h[s] + v[x] /\ g[b] = g[s] + v[x]
    BY <1>2, <1>3, <2>3
  <2>4. g[b] = h[b]
    BY <1>5, <2>2
  <2> QED BY <2>3, <2>4 DEF b
<1>7. 1..n \in A
  <2>1. Grows(A, 1..n)
    BY <1>5 DEF Grows
  <2>2. 1..n \in SUBSET (1..n)
    OBVIOUS
  <2> HIDE DEF A
  <2> QED BY <1>4, <2>1, <2>2, PlacesByAddition, Zenon
<1>8. g[1..n] = h[1..n]
  BY <1>7
<1> QED BY <1>8 DEF Total, g

\* A sum taken from the first to the last.
Onwards(h, v, n) ==
  /\ Total(v, n) = h[1..n] /\ h[1..0] = 0
  /\ \A i \in 1..n : h[1..i] = h[1..(i - 1)] + v[i]
  /\ \A i \in 0..n : h[1..i] \in Int

LEMMA SumsOnwards ==
  ASSUME NEW n \in Nat, NEW v \in [1..n -> Int]
  PROVE  \E h : Onwards(h, v, n)
<1>1. PICK h : AddsUp(h, v, n)
  BY IntSumExists
<1>2. SumsFreely(h, v, n)
  BY <1>1, SumWithout
<1>3. Total(v, n) = h[1..n]
  BY <1>1, TotalIs
<1>4. h[1..0] = 0
  <2>1. 1..0 = {}
    OBVIOUS
  <2> QED BY <1>2, <2>1 DEF SumsFreely
<1>5. ASSUME NEW i \in 1..n
      PROVE  h[1..i] = h[1..(i - 1)] + v[i]
  <2> DEFINE s == 1..i
  <2>1. s \in SUBSET (1..n) /\ i \in s /\ s \ {i} = 1..(i - 1)
    OBVIOUS
  <2> HIDE DEF s
  <2>2. h[s] = h[s \ {i}] + v[i]
    BY <1>2, <2>1, Zenon DEF SumsFreely
  <2> QED BY <2>1, <2>2 DEF s
<1>6. ASSUME NEW i \in 0..n
      PROVE  h[1..i] \in Int
  <2> DEFINE s == 1..i
  <2>1. s \in SUBSET (1..n)
    OBVIOUS
  <2> HIDE DEF s
  <2>2. h[s] \in Int
    BY <1>2, <2>1, Zenon DEF SumsFreely
  <2> QED BY <2>2 DEF s
<1>7. Onwards(h, v, n)
  BY <1>3, <1>4, <1>5, <1>6, Zenon DEF Onwards
<1> QED BY <1>7

LEMMA FoldIsTotal ==
  ASSUME NEW n \in Nat, NEW v, DOMAIN v = 1..n
  PROVE  FoldLeft(+, 0, v) = Total(v, n)
BY Zenon DEF FoldLeft, MapThenFoldSet, AddsUp, Total

\* The sum of what is at some places, taken in their order.
Picked(v, p, m) == [i \in 1..m |-> v[p[i]]]

LEMMA SumAtPlaces ==
  ASSUME NEW n \in Nat, NEW v \in [1..n -> Int], NEW h, SumsFreely(h, v, n),
         NEW S \in SUBSET (1..n), NEW p, Lists(p, S)
  PROVE  Total(Picked(v, p, Cardinality(S)), Cardinality(S)) = h[S]
<1> DEFINE m == Cardinality(S)
           u == [i \in 1..m |-> v[p[i]]]
           P(i) == {p[j] : j \in 1..i}
<1>1. m \in Nat
  BY PlacesAreListed
<1>2. /\ p \in [1..m -> S]
      /\ \A k \in S : \E j \in 1..m : p[j] = k
      /\ \A i, j \in 1..m : i < j => p[i] < p[j]
  BY DEF Lists, Bijection, Injection, Surjection
<1> HIDE DEF m
<1>3. u \in [1..m -> Int] /\ \A i \in 1..m : u[i] = v[p[i]]
  BY <1>1, <1>2
<1> HIDE DEF u
<1>4. PICK g : Onwards(g, u, m)
  BY <1>1, <1>3, SumsOnwards
<1>20. /\ Total(u, m) = g[1..m] /\ g[1..0] = 0
      /\ \A i \in 1..m : g[1..i] = g[1..(i - 1)] + u[i]
  BY <1>4, Zenon DEF Onwards
<1> DEFINE A == {i \in 0..m : g[1..i] = h[P(i)]}
<1>5. 0 \in A
  <2>1. P(0) = {}
    OBVIOUS
  <2>2. h[P(0)] = 0
    BY <2>1, Zenon DEF SumsFreely
  <2>3. 0 \in 0..m
    BY <1>1
  <2> HIDE DEF P
  <2> QED BY <1>20, <2>2, <2>3, Zenon
<1>6. ASSUME NEW i \in 1..m, i - 1 \in A
      PROVE  i \in A
  <2>1. P(i) \in SUBSET (1..n) /\ p[i] \in P(i)
    <3>1. i \in 1..i /\ \A j \in 1..i : j \in 1..m
      BY <1>1
    <3>2. \A j \in 1..m : p[j] \in 1..n
      BY <1>2
    <3> QED BY <3>1, <3>2
  <2>2. P(i) \ {p[i]} = P(i - 1)
    <3>1. \A j \in 1..i : j \in 1..m /\ (j = i \/ (j \in 1..(i - 1) /\ j < i))
      BY <1>1
    <3>2. \A j \in 1..(i - 1) : j \in 1..i /\ j \in 1..m /\ j < i
      BY <1>1
    <3>3. \A j \in 1..m : p[j] \in Int
      <4>1. \A x \in S : x \in Int
        OBVIOUS
      <4>2. \A j \in 1..m : p[j] \in S
        BY <1>2, Zenon
      <4> QED BY <4>1, <4>2
    <3>4. \A j \in 1..(i - 1) : p[j] # p[i]
      BY <1>2, <3>2, <3>3
    <3> QED BY <3>1, <3>2, <3>4
  <2> DEFINE Q == P(i)
             R == P(i - 1)
  <2>3. g[1..(i - 1)] = h[R]
    BY <1>6
  <2>4. Q \in SUBSET (1..n) /\ p[i] \in Q /\ Q \ {p[i]} = R
    BY <2>1, <2>2
  <2> HIDE DEF P, Q, R
  <2>5. h[Q] = h[R] + v[p[i]]
    BY <2>4 DEF SumsFreely
  <2>6. g[1..i] = h[Q]
    BY <1>3, <1>20, <2>3, <2>5
  <2>7. i \in 0..m
    BY <1>1
  <2> QED BY <2>6, <2>7 DEF Q
<1>7. m \in A
  <2> HIDE DEF A
  <2>1. 0..m \subseteq A
    BY <1>1, <1>5, <1>6, UpTo
  <2>2. m \in 0..m
    BY <1>1
  <2> QED BY <2>1, <2>2
<1>8. P(m) = S
  BY <1>2
<1>9. Total(u, m) = h[P(m)]
  BY <1>20, <1>7
<1> QED BY <1>8, <1>9 DEF u, m, Picked

\* Every row has a key, no key is listed twice.
KeysOf(keys, m, k, n) ==
  /\ \A i, j \in 1..m : keys[i] = keys[j] => i = j
  /\ \A i \in 1..n : \E j \in 1..m : keys[j] = k[i]
PartSums(h, keys, m, k, n) == [j \in 1..m |-> h[{i \in 1..n : k[i] = keys[j]}]]

\* The sum of the sums of all groups.
LEMMA SumOfGroups ==
  ASSUME NEW n \in Nat, NEW v \in [1..n -> Int], NEW h, AddsUp(h, v, n), NEW k, NEW m \in Nat,
         NEW keys, KeysOf(keys, m, k, n)
  PROVE  Total(PartSums(h, keys, m, k, n), m) = h[1..n]
<1> DEFINE S(j) == {i \in 1..n : k[i] = keys[j]}
           U(j) == {i \in 1..n : \E l \in 1..j : k[i] = keys[l]}
           w == [j \in 1..m |-> h[S(j)]]
<1>1. SumsFreely(h, v, n)
  BY SumWithout
<1>21. Additive(h, n)
  BY SumOfParts
<1>2. w \in [1..m -> Int] /\ \A j \in 1..m : w[j] = h[S(j)]
  <2>1. \A j \in 1..m : S(j) \in SUBSET (1..n)
    OBVIOUS
  <2> HIDE DEF S
  <2>2. \A j \in 1..m : h[S(j)] \in Int
    BY <1>1, <2>1, Zenon DEF SumsFreely
  <2> QED BY <2>2
<1> HIDE DEF w
<1>3. PICK g : Onwards(g, w, m)
  BY <1>2, SumsOnwards
<1>20. /\ Total(w, m) = g[1..m] /\ g[1..0] = 0
      /\ \A i \in 1..m : g[1..i] = g[1..(i - 1)] + w[i]
  BY <1>3, Zenon DEF Onwards
<1> DEFINE A == {j \in 0..m : g[1..j] = h[U(j)]}
<1>4. 0 \in A
  <2>1. U(0) = {}
    OBVIOUS
  <2>2. h[U(0)] = 0
    BY <1>1, <2>1, Zenon DEF SumsFreely
  <2>3. 0 \in 0..m
    OBVIOUS
  <2> HIDE DEF U
  <2> QED BY <1>20, <2>2, <2>3, Zenon
<1>5. ASSUME NEW j \in 1..m, j - 1 \in A
      PROVE  j \in A
  <2>1. U(j) = U(j - 1) \cup S(j)
    <3>1. \A l : l \in 1..j <=> l \in 1..(j - 1) \/ l = j
      OBVIOUS
    <3> QED BY <3>1
  <2>2. U(j - 1) \cap S(j) = {}
    <3>1. \A l \in 1..(j - 1) : l \in 1..m /\ l # j
      OBVIOUS
    <3>2. \A l \in 1..(j - 1) : keys[l] # keys[j]
      BY <3>1 DEF KeysOf
    <3> QED BY <3>2
  <2>3. U(j - 1) \in SUBSET (1..n) /\ S(j) \in SUBSET (1..n)
    OBVIOUS
  <2>4. g[1..(j - 1)] = h[U(j - 1)] /\ w[j] = h[S(j)]
    BY <1>2, <1>5
  <2> DEFINE a == U(j - 1)
             b == S(j)
  <2>5. a \in SUBSET (1..n) /\ b \in SUBSET (1..n) /\ a \cap b = {} /\ U(j) = a \cup b
    BY <2>1, <2>2, <2>3
  <2>6. g[1..(j - 1)] = h[a] /\ w[j] = h[b]
    BY <2>4
  <2> HIDE DEF a, b, S, U
  <2>7. h[a \cup b] = h[a] + h[b]
    <3>1. a \in SUBSET (1..n)
      BY <2>5, Zenon
    <3>2. b \in SUBSET (1..n)
      BY <2>5, Zenon
    <3>3. a \cap b = {}
      BY <2>5, Zenon
    <3> QED BY <1>21, <3>1, <3>2, <3>3, Zenon DEF Additive
  <2>8. g[1..j] = h[U(j)]
    BY <1>20, <2>5, <2>6, <2>7
  <2>9. j \in 0..m
    OBVIOUS
  <2> QED BY <2>8, <2>9
<1>6. m \in A
  <2> HIDE DEF A
  <2>1. 0..m \subseteq A
    BY <1>4, <1>5, UpTo
  <2>2. m \in 0..m
    OBVIOUS
  <2> QED BY <2>1, <2>2
<1>7. U(m) = 1..n
  BY DEF KeysOf
<1>8. Total(w, m) = h[U(m)]
  BY <1>20, <1>6
<1> QED BY <1>7, <1>8 DEF w, PartSums

LEMMA SecondsAreTotal ==
  ASSUME NEW n \in Nat, NEW s, DOMAIN s = 1..n
  PROVE  FoldLeft(LAMBDA a, row : a + row[2], 0, s) = Total([i \in 1..n |-> s[i][2]], n)
<1> DEFINE v == [i \in 1..n |-> s[i][2]]
           F(g) == [t \in SUBSET DOMAIN s |-> IF t = {} THEN 0 ELSE g[t \ {Max(t)}] + s[Max(t)][2]]
           G(g) == [t \in SUBSET (1..n) |-> IF t = {} THEN 0 ELSE g[t \ {Max(t)}] + v[Max(t)]]
<1>1. FoldLeft(LAMBDA a, row : a + row[2], 0, s) = (CHOOSE g : g = F(g))[DOMAIN s]
  BY Zenon DEF FoldLeft, MapThenFoldSet
<1>2. \A t \in SUBSET (1..n) : t # {} => v[Max(t)] = s[Max(t)][2]
  BY MaxOfSome
<1>3. ASSUME NEW g
      PROVE  F(g) = G(g)
  <2> HIDE DEF v
  <2> QED BY <1>2
<1> HIDE DEF F
<1>4. FoldLeft(LAMBDA a, row : a + row[2], 0, s) = (CHOOSE g : g = G(g))[1..n]
  <2> DEFINE x == FoldLeft(LAMBDA a, row : a + row[2], 0, s)
  <2>1. x = (CHOOSE g : g = F(g))[DOMAIN s]
    BY <1>1
  <2> HIDE DEF G, x
  <2>2. x = (CHOOSE g : g = G(g))[1..n]
    BY <1>3, <2>1
  <2> QED BY <2>2 DEF x
<1> HIDE DEF v
<1>5. (CHOOSE g : g = G(g))[1..n] = Total(v, n)
  BY Zenon DEF Total, AddsUp
<1> QED BY <1>4, <1>5, Zenon DEF v

LEMMA FirstsAreTotal ==
  ASSUME NEW n \in Nat, NEW s, DOMAIN s = 1..n
  PROVE  FoldLeft(LAMBDA a, group : a + group.value[1], 0, s) = Total([i \in 1..n |-> s[i].value[1]], n)
<1> DEFINE v == [i \in 1..n |-> s[i].value[1]]
           F(g) == [t \in SUBSET DOMAIN s |-> IF t = {} THEN 0 ELSE g[t \ {Max(t)}] + s[Max(t)].value[1]]
           G(g) == [t \in SUBSET (1..n) |-> IF t = {} THEN 0 ELSE g[t \ {Max(t)}] + v[Max(t)]]
<1>1. FoldLeft(LAMBDA a, group : a + group.value[1], 0, s) = (CHOOSE g : g = F(g))[DOMAIN s]
  BY Zenon DEF FoldLeft, MapThenFoldSet
<1>2. \A t \in SUBSET (1..n) : t # {} => v[Max(t)] = s[Max(t)].value[1]
  BY MaxOfSome
<1>3. ASSUME NEW g
      PROVE  F(g) = G(g)
  <2> HIDE DEF v
  <2> QED BY <1>2
<1> HIDE DEF F
<1>4. FoldLeft(LAMBDA a, group : a + group.value[1], 0, s) = (CHOOSE g : g = G(g))[1..n]
  <2> DEFINE x == FoldLeft(LAMBDA a, group : a + group.value[1], 0, s)
  <2>1. x = (CHOOSE g : g = F(g))[DOMAIN s]
    BY <1>1
  <2> HIDE DEF G, x
  <2>2. x = (CHOOSE g : g = G(g))[1..n]
    BY <1>3, <2>1
  <2> QED BY <2>2 DEF x
<1> HIDE DEF v
<1>5. (CHOOSE g : g = G(g))[1..n] = Total(v, n)
  BY Zenon DEF Total, AddsUp
<1> QED BY <1>4, <1>5, Zenon DEF v

\* Counting is summing ones.
LEMMA OnesAreCounted ==
  ASSUME NEW n \in Nat, NEW v \in [1..n -> Int], \A i \in 1..n : v[i] = 1, NEW h, SumsFreely(h, v, n),
         NEW S \in SUBSET (1..n)
  PROVE  h[S] = Cardinality(S)
<1> DEFINE A == {s \in SUBSET S : IsFiniteSet(s) /\ Cardinality(s) \in Nat /\ h[s] = Cardinality(s)}
<1>1. {} \in A
  BY FS_EmptySet DEF SumsFreely
<1>2. ASSUME NEW s \in SUBSET S, NEW x \in S \ s, s \in A
      PROVE  s \cup {x} \in A
  <2> DEFINE t == s \cup {x}
  <2>1. t \in SUBSET S /\ t \in SUBSET (1..n) /\ x \in t /\ t \ {x} = s /\ v[x] = 1
    OBVIOUS
  <2>2. IsFiniteSet(t) /\ Cardinality(t) = Cardinality(s) + 1
    BY <1>2, FS_AddElement
  <2> HIDE DEF t
  <2>3. h[t] = h[s] + v[x]
    BY <2>1, Zenon DEF SumsFreely
  <2>4. t \in A
    BY <1>2, <2>1, <2>2, <2>3
  <2> QED BY <2>4 DEF t
<1>3. Grows(A, S)
  BY <1>2 DEF Grows
<1>4. S \in A
  <2> HIDE DEF A
  <2> QED BY <1>1, <1>3, PlacesByAddition, Zenon
<1> QED BY <1>4

\* The extremes of some numbers.
IsExtreme(least, most, u) == \A i \in DOMAIN u : least <= u[i] /\ u[i] <= most

LEMMA ExtremesExist ==
  ASSUME NEW m \in Nat \ {0}, NEW u \in [1..m -> Int]
  PROVE  /\ \E v \in ToSet(u) : \A w \in ToSet(u) : v <= w
         /\ \E v \in ToSet(u) : \A w \in ToSet(u) : v >= w
<1> DEFINE A == {i \in 0..m : i = 0 \/ /\ \E j \in 1..i : \A k \in 1..i : u[j] <= u[k]
                                       /\ \E j \in 1..i : \A k \in 1..i : u[j] >= u[k]}
<1>1. 0 \in A
  OBVIOUS
<1>2. ASSUME NEW i \in 1..m, i - 1 \in A
      PROVE  i \in A
  <2>1. i \in 0..m /\ i \in 1..i /\ u[i] \in Int
    OBVIOUS
  <2>2. \A k \in 1..i : k = i \/ k \in 1..(i - 1)
    OBVIOUS
  <2>3. \A k \in 1..(i - 1) : k \in 1..i /\ k \in 1..m
    OBVIOUS
  <2>7. \A k \in 1..i : u[k] \in Int
    OBVIOUS
  <2>4. CASE i = 1
    BY <2>1, <2>4
  <2>5. CASE i # 1
    <3>1. /\ \E j \in 1..(i - 1) : \A k \in 1..(i - 1) : u[j] <= u[k]
          /\ \E j \in 1..(i - 1) : \A k \in 1..(i - 1) : u[j] >= u[k]
      BY <1>2, <2>5
    <3>2. \E j \in 1..i : \A k \in 1..i : u[j] <= u[k]
      <4>1. PICK j \in 1..(i - 1) : \A k \in 1..(i - 1) : u[j] <= u[k]
        BY <3>1
      <4>2. CASE u[j] <= u[i]
        BY <2>2, <2>3, <4>1, <4>2
      <4>3. CASE ~(u[j] <= u[i])
        <5>1. u[i] <= u[j] /\ u[j] \in Int
          BY <2>1, <2>3, <2>7, <4>1, <4>3
        <5>2. \A k \in 1..i : u[i] <= u[k]
          BY <2>1, <2>2, <2>3, <2>7, <4>1, <5>1
        <5> QED BY <2>1, <5>2
      <4> QED BY <4>2, <4>3
    <3>3. \E j \in 1..i : \A k \in 1..i : u[j] >= u[k]
      <4>1. PICK j \in 1..(i - 1) : \A k \in 1..(i - 1) : u[j] >= u[k]
        BY <3>1
      <4>2. CASE u[j] >= u[i]
        BY <2>2, <2>3, <4>1, <4>2
      <4>3. CASE ~(u[j] >= u[i])
        <5>1. u[i] >= u[j] /\ u[j] \in Int
          BY <2>1, <2>3, <2>7, <4>1, <4>3
        <5>2. \A k \in 1..i : u[i] >= u[k]
          BY <2>1, <2>2, <2>3, <2>7, <4>1, <5>1
        <5> QED BY <2>1, <5>2
      <4> QED BY <4>2, <4>3
    <3> HIDE DEF A
    <3> QED BY <2>1, <3>2, <3>3 DEF A
  <2> QED BY <2>4, <2>5
<1>3. m \in A
  <2> HIDE DEF A
  <2>1. 0..m \subseteq A
    BY <1>1, <1>2, UpTo
  <2>2. m \in 0..m
    OBVIOUS
  <2> QED BY <2>1, <2>2
<1>4. /\ \E j \in 1..m : \A k \in 1..m : u[j] <= u[k]
      /\ \E j \in 1..m : \A k \in 1..m : u[j] >= u[k]
  BY <1>3
<1>5. \A w : w \in ToSet(u) <=> \E k \in 1..m : u[k] = w
  BY DEF ToSet
<1>6. PICK j \in 1..m : \A k \in 1..m : u[j] <= u[k]
  BY <1>4
<1>7. PICK l \in 1..m : \A k \in 1..m : u[l] >= u[k]
  BY <1>4
<1>8. u[j] \in ToSet(u) /\ \A w \in ToSet(u) : u[j] <= w
  BY <1>5, <1>6
<1>9. u[l] \in ToSet(u) /\ \A w \in ToSet(u) : u[l] >= w
  BY <1>5, <1>7
<1> QED BY <1>8, <1>9, Zenon

LEMMA ExtremesAre ==
  ASSUME NEW m \in Nat \ {0}, NEW u \in [1..m -> Int]
  PROVE  \A i \in 1..m : Aggregate("min", u)[1] <= u[i] /\ u[i] <= Aggregate("max", u)[1]
<1> DEFINE low == CHOOSE v \in ToSet(u) : \A w \in ToSet(u) : v <= w
           high == CHOOSE v \in ToSet(u) : \A w \in ToSet(u) : v >= w
<1>1. Aggregate("min", u) = <<low, 1>> /\ Aggregate("max", u) = <<high, 1>>
  BY DEF Aggregate
<1>2. low \in ToSet(u) /\ \A w \in ToSet(u) : low <= w
  BY ExtremesExist
<1>3. high \in ToSet(u) /\ \A w \in ToSet(u) : high >= w
  BY ExtremesExist
<1>4. \A i \in 1..m : u[i] \in ToSet(u) /\ u[i] \in Int
  BY DEF ToSet
<1>5. low \in Int /\ high \in Int
  BY <1>2, <1>3 DEF ToSet
<1> HIDE DEF low, high
<1>6. Aggregate("min", u)[1] = low /\ Aggregate("max", u)[1] = high
  BY <1>1
<1> QED BY <1>2, <1>3, <1>4, <1>5, <1>6

\* A sum lies between as many of the least and of the greatest.
LEMMA MeanBetween ==
  ASSUME NEW m \in Nat, NEW u \in [1..m -> Int], NEW low \in Int, NEW high \in Int,
         \A i \in 1..m : low <= u[i] /\ u[i] <= high
  PROVE  low * m <= Total(u, m) /\ Total(u, m) <= high * m
<1>1. PICK g : Onwards(g, u, m)
  BY SumsOnwards
<1>2. /\ Total(u, m) = g[1..m] /\ g[1..0] = 0
      /\ \A i \in 1..m : g[1..i] = g[1..(i - 1)] + u[i]
      /\ \A i \in 0..m : g[1..i] \in Int
  BY <1>1, Zenon DEF Onwards
<1> DEFINE A == {i \in 0..m : low * i <= g[1..i] /\ g[1..i] <= high * i}
<1>3. 0 \in A
  <2> DEFINE z == g[1..0]
  <2>1. z = 0
    BY <1>2, Zenon
  <2>2. low * 0 = 0 /\ high * 0 = 0 /\ 0 \in 0..m
    OBVIOUS
  <2> HIDE DEF z
  <2>3. low * 0 <= z /\ z <= high * 0
    BY <2>1, <2>2
  <2> QED BY <2>2, <2>3, Zenon DEF z
<1>4. ASSUME NEW i \in 1..m, i - 1 \in A
      PROVE  i \in A
  <2> DEFINE a == g[1..i]
             b == g[1..(i - 1)]
             k == i - 1
  <2>1. a = b + u[i] /\ b \in Int /\ u[i] \in Int /\ low * k <= b /\ b <= high * k /\ low <= u[i] /\ u[i] <= high
    BY <1>2, <1>4
  <2>2. low * i = low * k + low /\ high * i = high * k + high
    BY Z3
  <2>3. low * k \in Int /\ high * k \in Int /\ i \in 0..m
    OBVIOUS
  <2> HIDE DEF a, b, k
  <2>4. low * i <= a /\ a <= high * i
    BY <2>1, <2>2, <2>3
  <2> QED BY <2>3, <2>4 DEF a
<1>5. m \in A
  <2> HIDE DEF A
  <2>1. 0..m \subseteq A
    BY <1>3, <1>4, UpTo
  <2>2. m \in 0..m
    OBVIOUS
  <2> QED BY <2>1, <2>2
<1> QED BY <1>2, <1>5

-----------------------------------------------------------------------------
(* csv_groupby *)

Aggregates == {"sum", "count", "min", "max", "mean"}

\* Not refused: there are rows, and each has a number in its second cell.
Grouped(body) == body # <<>> /\ \A i \in DOMAIN body : Len(body[i]) >= 2

\* The places of a key, and what is in the second cells there.
PlacesOf(body, key) == {i \in DOMAIN body : body[i][1] = key}
ValuesOf(body, key) == Column(OfKey(body, key), 2)

LEMMA GroupByIs ==
  ASSUME NEW rows \in Tables, NEW agg
  PROVE  /\ GroupBy(rows, agg) # None => Grouped(NotBlank(rows))
         /\ GroupBy(rows, agg) # None =>
              GroupBy(rows, agg) =
                [i \in DOMAIN Distinct(Column(NotBlank(rows), 1)) |->
                   [key   |-> Distinct(Column(NotBlank(rows), 1))[i],
                    value |-> Aggregate(agg, ValuesOf(NotBlank(rows), Distinct(Column(NotBlank(rows), 1))[i]))]]
<1> DEFINE body == NotBlank(rows)
           keys == Distinct(Column(body, 1))
           refused == body = <<>> \/ \E i \in DOMAIN body : Len(body[i]) < 2 \/ body[i][2] = Empty
<1>1. GroupBy(rows, agg) = IF refused THEN None
                           ELSE [i \in DOMAIN keys |-> [key |-> keys[i], value |-> Aggregate(agg, ValuesOf(body, keys[i]))]]
  BY Zenon DEF GroupBy, ValuesOf
<1>2. body \in Seq(Seq(Int))
  BY RowsNotBlank DEF Tables
<1>3. ~refused => Grouped(body)
  <2> HIDE DEF body
  <2>1. \A i \in DOMAIN body : Len(body[i]) \in Nat
    BY <1>2
  <2> QED BY <2>1 DEF Grouped
<1> HIDE DEF refused
<1> QED BY <1>1, <1>3, Zenon

\* What is in the second cells of a group.
LEMMA GroupHas ==
  ASSUME NEW body \in Tables, Grouped(body), NEW key
  PROVE  \E p : /\ Lists(p, PlacesOf(body, key))
                /\ ValuesOf(body, key) = [i \in 1..Cardinality(PlacesOf(body, key)) |-> Column(body, 2)[p[i]]]
                /\ Cardinality(PlacesOf(body, key)) \in Nat
                /\ ValuesOf(body, key) \in [1..Cardinality(PlacesOf(body, key)) -> Int]
<1> DEFINE S == PlacesOf(body, key)
           t == OfKey(body, key)
           m == Cardinality(S)
           v == Column(body, 2)
<1>1. body \in Seq(Seq(Int)) /\ S \in SUBSET DOMAIN body /\ t = At(body, S)
  BY DEF Tables, PlacesOf, OfKey
<1> HIDE DEF S, t
<1>2. PICK p : Selects(t, p, body, S)
  BY <1>1, AtSelects
<1>3. Lists(p, S) /\ DOMAIN t = 1..m /\ \A i \in 1..m : t[i] = body[p[i]]
  BY <1>2 DEF Selects
<1>4. p \in [1..m -> S]
  BY <1>3 DEF Lists, Bijection, Injection
<1>5. \A i \in 1..m : p[i] \in DOMAIN body
  BY <1>1, <1>4
<1>6. \A i \in DOMAIN body : v[i] = body[i][2] /\ v[i] \in Int
  <2>1. \A i \in DOMAIN body : body[i] \in Seq(Int) /\ Len(body[i]) >= 2
    BY <1>1 DEF Grouped
  <2>2. \A i \in DOMAIN body : body[i][2] \in Int
    BY <2>1
  <2> QED BY <2>2 DEF Column
<1> HIDE DEF v, m
<1>7. \A i \in 1..m : t[i][2] = v[p[i]] /\ v[p[i]] \in Int
  BY <1>3, <1>5, <1>6
<1>8. Column(t, 2) = [i \in 1..m |-> v[p[i]]] /\ Column(t, 2) \in [1..m -> Int]
  <2>1. Column(t, 2) = [i \in 1..m |-> t[i][2]]
    BY <1>3, Zenon DEF Column
  <2> QED BY <1>7, <2>1
<1>9. m \in Nat
  <2>1. Len(body) \in Nat /\ DOMAIN body = 1..Len(body)
    BY <1>1
  <2> QED BY <1>1, <2>1, PlacesAreListed DEF m
<1> QED BY <1>3, <1>8, <1>9, Zenon DEF ValuesOf, S, t, m, v

\* The groups of a table that is not refused.
GroupsAre(body, keys, agg) ==
  [i \in DOMAIN keys |-> [key |-> keys[i], value |-> Aggregate(agg, ValuesOf(body, keys[i]))]]

LEMMA GroupKeys ==
  ASSUME NEW body \in Tables, Grouped(body)
  PROVE  /\ Distinct(Column(body, 1)) \in Seq(Int)
         /\ KeysOf(Distinct(Column(body, 1)), Len(Distinct(Column(body, 1))), Column(body, 1), Len(body))
         /\ \A j \in DOMAIN Distinct(Column(body, 1)) : PlacesOf(body, Distinct(Column(body, 1))[j]) # {}
         /\ Column(body, 2) \in [1..Len(body) -> Int]
         /\ \A key : PlacesOf(body, key) = {i \in 1..Len(body) : Column(body, 1)[i] = key}
<1> DEFINE keys == Distinct(Column(body, 1))
           k == Column(body, 1)
<1>1. body \in Seq(Seq(Int)) /\ DOMAIN body = 1..Len(body)
  BY DEF Tables
<1>2. \A i \in DOMAIN body : Len(body[i]) >= 1 /\ Len(body[i]) >= 2
  <2>1. \A i \in DOMAIN body : Len(body[i]) >= 2 /\ Len(body[i]) \in Nat
    BY <1>1 DEF Grouped
  <2> QED BY <2>1
<1>3. 1 \in Nat \ {0} /\ 2 \in Nat \ {0}
  OBVIOUS
<1>4. /\ k \in Seq(Int) /\ DOMAIN k = DOMAIN body
      /\ \A i \in DOMAIN body : k[i] = body[i][1]
  BY <1>1, <1>2, <1>3, ColumnsAreThose
<1>5. Column(body, 2) \in Seq(Int) /\ DOMAIN Column(body, 2) = DOMAIN body
  BY <1>1, <1>2, <1>3, ColumnsAreThose
<1> HIDE DEF k
<1>6. keys \in Seq(Int) /\ DOMAIN keys = 1..Len(keys)
  <2>1. keys \in Seq(Int)
    BY <1>4, DistinctAreAll DEF k
  <2> HIDE DEF keys
  <2> QED BY <2>1
<1>7. /\ \A i \in DOMAIN k : \E j \in DOMAIN keys : keys[j] = k[i]
      /\ \A j \in DOMAIN keys : \E i \in DOMAIN k : keys[j] = k[i]
      /\ \A i, j \in DOMAIN keys : keys[i] = keys[j] => i = j
  BY <1>4, DistinctAreAll DEF k
<1> HIDE DEF keys
<1>8. KeysOf(keys, Len(keys), k, Len(body))
  BY <1>1, <1>4, <1>6, <1>7, Zenon DEF KeysOf
<1>9. \A j \in DOMAIN keys : PlacesOf(body, keys[j]) # {}
  BY <1>4, <1>7 DEF PlacesOf
<1>10. Column(body, 2) \in [1..Len(body) -> Int]
  BY <1>1, <1>5
<1>11. \A key : PlacesOf(body, key) = {i \in 1..Len(body) : k[i] = key}
  BY <1>1, <1>4 DEF PlacesOf
<1> QED BY <1>6, <1>8, <1>9, <1>10, <1>11 DEF keys, k

\* What the groups add up to.
LEMMA GroupsCounted ==
  ASSUME NEW body \in Tables, Grouped(body), NEW keys, keys = Distinct(Column(body, 1))
  PROVE  FoldLeft(LAMBDA a, group : a + group.value[1], 0, GroupsAre(body, keys, "count")) = Len(body)
<1> DEFINE n == Len(body)
           m == Len(keys)
           k == Column(body, 1)
           v == [i \in 1..n |-> 1]
           s == GroupsAre(body, keys, "count")
           w == [i \in 1..m |-> s[i].value[1]]
<1>1. n \in Nat
  BY DEF Tables
<1>2. keys \in Seq(Int) /\ KeysOf(keys, m, k, n) /\ \A key : PlacesOf(body, key) = {i \in 1..n : k[i] = key}
  BY GroupKeys
<1>3. m \in Nat /\ DOMAIN keys = 1..m
  BY <1>2
<1>4. v \in [1..n -> Int] /\ \A i \in 1..n : v[i] = 1
  OBVIOUS
<1> HIDE DEF v, n, m, k
<1>5. PICK h : AddsUp(h, v, n)
  BY <1>1, <1>4, IntSumExists
<1>6. SumsFreely(h, v, n)
  BY <1>1, <1>4, <1>5, SumWithout
<1>7. ASSUME NEW S \in SUBSET (1..n)
      PROVE  h[S] = Cardinality(S)
  BY <1>1, <1>4, <1>6, OnesAreCounted, Zenon
<1>8. \A j \in 1..m : s[j].value[1] = h[{i \in 1..n : k[i] = keys[j]}]
  <2> TAKE j \in 1..m
  <2> DEFINE S == {i \in 1..n : k[i] = keys[j]}
             u == ValuesOf(body, keys[j])
  <2>1. S = PlacesOf(body, keys[j]) /\ S \in SUBSET (1..n)
    BY <1>2
  <2>2. u \in [1..Cardinality(S) -> Int] /\ Cardinality(S) \in Nat
    BY <2>1, GroupHas
  <2>3. s[j].value = Aggregate("count", u)
    BY <1>3 DEF GroupsAre
  <2> HIDE DEF S, u, s
  <2>4. Aggregate("count", u) = <<Len(u), 1>> /\ Len(u) = Cardinality(S)
    <3>1. Aggregate("count", u) = <<Len(u), 1>>
      BY DEF Aggregate
    <3>2. u \in Seq(Int) /\ Len(u) = Cardinality(S)
      <4> DEFINE q == Cardinality(S)
      <4>1. u \in [1..q -> Int] /\ q \in Nat
        BY <2>2
      <4> HIDE DEF q
      <4>2. u \in Seq(Int) /\ Len(u) = q
        BY <4>1
      <4> QED BY <4>2 DEF q
    <3> QED BY <3>1, <3>2
  <2>5. h[S] = Cardinality(S)
    BY <1>7, <2>1
  <2> QED BY <2>3, <2>4, <2>5 DEF S
<1>9. DOMAIN s = 1..m
  BY <1>3 DEF GroupsAre
<1> HIDE DEF s
<1>10. w = PartSums(h, keys, m, k, n)
  BY <1>8 DEF PartSums
<1>11. FoldLeft(LAMBDA a, group : a + group.value[1], 0, s) = Total(w, m)
  BY <1>3, <1>9, FirstsAreTotal
<1>12. Total(PartSums(h, keys, m, k, n), m) = h[1..n]
  BY <1>1, <1>2, <1>3, <1>4, <1>5, SumOfGroups
<1>13. h[1..n] = n
  <2>1. Cardinality(1..n) = n
    <3>1. 0 + 1 = 1 /\ 1 \in Int /\ n \in Int /\ n - 1 + 1 = n
      BY <1>1
    <3>2. Cardinality(1..n) = IF 1 > n THEN 0 ELSE n - 1 + 1
      BY <3>1, FS_Interval
    <3> QED BY <1>1, <3>1, <3>2
  <2>2. 1..n \in SUBSET (1..n)
    OBVIOUS
  <2> QED BY <1>7, <2>1, <2>2, Zenon
<1> HIDE DEF w
<1>14. FoldLeft(LAMBDA a, group : a + group.value[1], 0, s) = n
  BY <1>10, <1>11, <1>12, <1>13, Zenon
<1> QED BY <1>14 DEF s, n

LEMMA GroupsAddUp ==
  ASSUME NEW body \in Tables, Grouped(body), NEW keys, keys = Distinct(Column(body, 1))
  PROVE  FoldLeft(LAMBDA a, group : a + group.value[1], 0, GroupsAre(body, keys, "sum"))
           = FoldLeft(LAMBDA a, row : a + row[2], 0, body)
<1> DEFINE n == Len(body)
           m == Len(keys)
           k == Column(body, 1)
           v == Column(body, 2)
           s == GroupsAre(body, keys, "sum")
           w == [i \in 1..m |-> s[i].value[1]]
<1>1. n \in Nat /\ DOMAIN body = 1..n
  BY DEF Tables
<1>2. keys \in Seq(Int) /\ KeysOf(keys, m, k, n) /\ \A key : PlacesOf(body, key) = {i \in 1..n : k[i] = key}
  BY GroupKeys
<1>3. m \in Nat /\ DOMAIN keys = 1..m
  BY <1>2
<1>4. v \in [1..n -> Int] /\ v = [i \in 1..n |-> body[i][2]]
  <2>1. v \in [1..n -> Int]
    BY GroupKeys
  <2> QED BY <1>1, <2>1, Zenon DEF Column
<1> HIDE DEF v, n, m, k
<1>5. PICK h : AddsUp(h, v, n)
  BY <1>1, <1>4, IntSumExists
<1>6. SumsFreely(h, v, n) /\ Total(v, n) = h[1..n]
  BY <1>1, <1>4, <1>5, SumWithout, TotalIs
<1>8. \A j \in 1..m : s[j].value[1] = h[{i \in 1..n : k[i] = keys[j]}]
  <2> TAKE j \in 1..m
  <2> DEFINE S == {i \in 1..n : k[i] = keys[j]}
             u == ValuesOf(body, keys[j])
             q == Cardinality(S)
  <2>1. S = PlacesOf(body, keys[j]) /\ S \in SUBSET (1..n)
    BY <1>2
  <2>3. s[j].value = Aggregate("sum", u)
    BY <1>3 DEF GroupsAre
  <2> HIDE DEF S, u, s
  <2>2. PICK p : Lists(p, S) /\ u = Picked(v, p, q) /\ q \in Nat /\ u \in [1..q -> Int]
    BY <2>1, GroupHas, Zenon DEF u, v, Picked
  <2>4. Total(Picked(v, p, q), q) = h[S]
    <3>1. n \in Nat /\ v \in [1..n -> Int] /\ SumsFreely(h, v, n) /\ S \in SUBSET (1..n) /\ Lists(p, S)
      BY <1>1, <1>4, <1>6, <2>1, <2>2, Zenon
    <3> QED BY <3>1, SumAtPlaces, SMTT(30) DEF q
  <2>5. FoldLeft(+, 0, u) = Total(u, q)
    <3>1. DOMAIN u = 1..q /\ q \in Nat
      BY <2>2
    <3> HIDE DEF q
    <3> QED BY <3>1, FoldIsTotal
  <2>6. Aggregate("sum", u) = <<FoldLeft(+, 0, u), 1>>
    BY DEF Aggregate
  <2>7. Aggregate("sum", u)[1] = FoldLeft(+, 0, u)
    <3> DEFINE f == FoldLeft(+, 0, u)
    <3>1. Aggregate("sum", u) = <<f, 1>>
      BY <2>6
    <3> HIDE DEF f
    <3>2. Aggregate("sum", u)[1] = f
      BY <3>1
    <3> QED BY <3>2 DEF f
  <2>8. Aggregate("sum", u)[1] = h[S]
    BY <2>2, <2>4, <2>5, <2>7, Zenon
  <2> QED BY <2>3, <2>8, Zenon DEF S
<1>9. DOMAIN s = 1..m
  BY <1>3 DEF GroupsAre
<1> HIDE DEF s
<1>10. w = PartSums(h, keys, m, k, n)
  BY <1>8 DEF PartSums
<1>11. FoldLeft(LAMBDA a, group : a + group.value[1], 0, s) = Total(w, m)
  BY <1>3, <1>9, FirstsAreTotal
<1>12. Total(PartSums(h, keys, m, k, n), m) = h[1..n]
  <2>1. v \in [1..n -> Int] /\ n \in Nat /\ m \in Nat /\ KeysOf(keys, m, k, n)
    BY <1>1, <1>2, <1>3, <1>4
  <2> QED BY <1>5, <2>1, SumOfGroups
<1>13. FoldLeft(LAMBDA a, row : a + row[2], 0, body) = Total(v, n)
  <2>1. FoldLeft(LAMBDA a, row : a + row[2], 0, body) = Total([i \in 1..n |-> body[i][2]], n)
    BY <1>1, SecondsAreTotal
  <2> QED BY <1>4, <2>1, Zenon
<1> HIDE DEF w
<1>14. FoldLeft(LAMBDA a, group : a + group.value[1], 0, s) = FoldLeft(LAMBDA a, row : a + row[2], 0, body)
  BY <1>6, <1>10, <1>11, <1>12, <1>13, Zenon
<1> QED BY <1>14 DEF s

LEMMA MeansAreBetween ==
  ASSUME NEW body \in Tables, Grouped(body), NEW key, PlacesOf(body, key) # {}
  PROVE  /\ Aggregate("min", ValuesOf(body, key))[1] * Aggregate("mean", ValuesOf(body, key))[2]
              <= Aggregate("mean", ValuesOf(body, key))[1]
         /\ Aggregate("mean", ValuesOf(body, key))[1]
              <= Aggregate("max", ValuesOf(body, key))[1] * Aggregate("mean", ValuesOf(body, key))[2]
<1> DEFINE S == PlacesOf(body, key)
           m == Cardinality(S)
           u == ValuesOf(body, key)
           low == Aggregate("min", u)[1]
           high == Aggregate("max", u)[1]
           sum == FoldLeft(+, 0, u)
<1>1. u \in [1..m -> Int] /\ m \in Nat
  BY GroupHas
<1>2. m # 0
  <2>1. Len(body) \in Nat /\ S \in SUBSET (1..Len(body))
    BY DEF Tables, PlacesOf
  <2>2. IsFiniteSet(S)
    BY <2>1, PlacesAreListed
  <2> QED BY <2>2, FS_EmptySet
<1> HIDE DEF m, u
<1>3. m \in Nat \ {0} /\ DOMAIN u = 1..m
  BY <1>1, <1>2
<1>4. \A i \in 1..m : low <= u[i] /\ u[i] <= high
  BY <1>1, <1>3, ExtremesAre
<1>5. low \in Int /\ high \in Int
  <2> DEFINE a == CHOOSE v \in ToSet(u) : \A w \in ToSet(u) : v <= w
             b == CHOOSE v \in ToSet(u) : \A w \in ToSet(u) : v >= w
  <2>1. Aggregate("min", u) = <<a, 1>> /\ Aggregate("max", u) = <<b, 1>>
    BY DEF Aggregate
  <2>2. a \in ToSet(u) /\ b \in ToSet(u)
    BY <1>1, <1>3, ExtremesExist
  <2>3. ToSet(u) \subseteq Int
    BY <1>1, <1>3 DEF ToSet
  <2> HIDE DEF a, b
  <2> QED BY <2>1, <2>2, <2>3
<1>6. sum = Total(u, m)
  BY <1>3, FoldIsTotal
<1>7. Aggregate("mean", u)[1] = sum /\ Aggregate("mean", u)[2] = m
  <2>1. Aggregate("mean", u) = <<sum, Len(u)>>
    BY DEF Aggregate
  <2>2. Len(u) = m
    <3>1. u \in Seq(Int) /\ Len(u) = m
      BY <1>1
    <3> QED BY <3>1
  <2> HIDE DEF sum
  <2> QED BY <2>1, <2>2
<1> HIDE DEF low, high, sum
<1>8. low * m <= Total(u, m) /\ Total(u, m) <= high * m
  BY <1>1, <1>4, <1>5, MeanBetween
<1>9. low * m <= sum /\ sum <= high * m
  BY <1>6, <1>8, Zenon
<1>10. low * Aggregate("mean", u)[2] <= Aggregate("mean", u)[1] /\ Aggregate("mean", u)[1] <= high * Aggregate("mean", u)[2]
  BY <1>7, <1>9, Zenon
<1> QED BY <1>10, Zenon DEF low, high, u

\* csv_groupby puts every row in one group, for tables of any size.
THEOREM RowsGrouped ==
  ASSUME NEW c, c.rows \in Tables, c.agg \in Aggregates
  PROVE  GroupsPartition(c, GroupBy(c.rows, c.agg))
<1> DEFINE rows == c.rows
           body == NotBlank(rows)
           keys == Distinct(Column(body, 1))
           groups == GroupBy(rows, c.agg)
<1>1. body \in Tables
  BY RowsNotBlank
<1> HIDE DEF body
<1>2. SUFFICES ASSUME groups # None
               PROVE  GroupsPartition(c, groups)
  BY DEF GroupsPartition
<1>3. Grouped(body) /\ groups = GroupsAre(body, keys, c.agg)
  BY <1>2, GroupByIs, Zenon DEF body, GroupsAre
<1>4. /\ keys \in Seq(Int) /\ KeysOf(keys, Len(keys), Column(body, 1), Len(body))
      /\ \A j \in DOMAIN keys : PlacesOf(body, keys[j]) # {}
  BY <1>1, <1>3, GroupKeys
<1>5. DOMAIN keys = 1..Len(keys) /\ DOMAIN groups = DOMAIN keys
  BY <1>3, <1>4 DEF GroupsAre
<1>6. \A i \in DOMAIN keys : groups[i].key = keys[i] /\ groups[i].value = Aggregate(c.agg, ValuesOf(body, keys[i]))
  BY <1>3 DEF GroupsAre
<1>7. c.agg = "count" => FoldLeft(LAMBDA a, group : a + group.value[1], 0, groups) = Len(body)
  <2> SUFFICES ASSUME c.agg = "count"
               PROVE  FoldLeft(LAMBDA a, group : a + group.value[1], 0, groups) = Len(body)
    OBVIOUS
  <2>1. groups = GroupsAre(body, keys, "count")
    BY <1>3
  <2>2. FoldLeft(LAMBDA a, group : a + group.value[1], 0, GroupsAre(body, keys, "count")) = Len(body)
    BY <1>1, <1>3, GroupsCounted
  <2> HIDE DEF groups, keys
  <2> QED BY <2>1, <2>2, Zenon
<1>8. c.agg = "sum" => FoldLeft(LAMBDA a, group : a + group.value[1], 0, groups)
                         = FoldLeft(LAMBDA a, row : a + row[2], 0, body)
  <2> SUFFICES ASSUME c.agg = "sum"
               PROVE  FoldLeft(LAMBDA a, group : a + group.value[1], 0, groups)
                         = FoldLeft(LAMBDA a, row : a + row[2], 0, body)
    OBVIOUS
  <2>1. groups = GroupsAre(body, keys, "sum")
    BY <1>3
  <2>2. FoldLeft(LAMBDA a, group : a + group.value[1], 0, GroupsAre(body, keys, "sum"))
          = FoldLeft(LAMBDA a, row : a + row[2], 0, body)
    BY <1>1, <1>3, GroupsAddUp
  <2> HIDE DEF groups, keys
  <2> QED BY <2>1, <2>2, Zenon
<1>9. ASSUME c.agg = "mean", NEW i \in DOMAIN groups
      PROVE  /\ GroupBy(rows, "min")[i].value[1] * groups[i].value[2] <= groups[i].value[1]
             /\ groups[i].value[1] <= GroupBy(rows, "max")[i].value[1] * groups[i].value[2]
  <2> DEFINE u == ValuesOf(body, keys[i])
  <2>1. GroupBy(rows, "min") = GroupsAre(body, keys, "min") /\ GroupBy(rows, "max") = GroupsAre(body, keys, "max")
    <3> DEFINE refused == body = <<>> \/ \E j \in DOMAIN body : Len(body[j]) < 2 \/ body[j][2] = Empty
    <3>1. \A agg : GroupBy(rows, agg) = IF refused THEN None ELSE GroupsAre(body, keys, agg)
      BY Zenon DEF GroupBy, GroupsAre, ValuesOf, body
    <3> HIDE DEF refused
    <3>2. ~refused
      BY <1>2, <3>1, Zenon
    <3> QED BY <3>1, <3>2, Zenon
  <2>2. /\ GroupBy(rows, "min")[i].value = Aggregate("min", u)
        /\ GroupBy(rows, "max")[i].value = Aggregate("max", u)
        /\ groups[i].value = Aggregate("mean", u)
    <3>1. i \in DOMAIN keys
      BY <1>5
    <3> HIDE DEF groups, keys
    <3>2. GroupsAre(body, keys, "min")[i].value = Aggregate("min", u) /\ GroupsAre(body, keys, "max")[i].value = Aggregate("max", u)
      BY <3>1 DEF GroupsAre
    <3> QED BY <1>6, <1>9, <2>1, <3>1, <3>2, Zenon
  <2>3. /\ Aggregate("min", u)[1] * Aggregate("mean", u)[2] <= Aggregate("mean", u)[1]
        /\ Aggregate("mean", u)[1] <= Aggregate("max", u)[1] * Aggregate("mean", u)[2]
    <3>1. PlacesOf(body, keys[i]) # {}
      BY <1>4, <1>5
    <3> HIDE DEF keys
    <3> QED BY <1>1, <1>3, <3>1, MeansAreBetween, Zenon
  <2> HIDE DEF groups, u
  <2> QED BY <2>2, <2>3, Zenon
<1>10. \A i, j \in DOMAIN groups : groups[i].key = groups[j].key => i = j
  <2> SUFFICES ASSUME NEW i \in DOMAIN groups, NEW j \in DOMAIN groups, groups[i].key = groups[j].key
               PROVE  i = j
    OBVIOUS
  <2> HIDE DEF groups, keys
  <2>1. i \in 1..Len(keys) /\ j \in 1..Len(keys) /\ keys[i] = keys[j]
    BY <1>5, <1>6
  <2> QED BY <1>4, <2>1, Zenon DEF KeysOf
<1> HIDE DEF groups
<1>11. GroupsPartition(c, groups)
  BY <1>7, <1>8, <1>9, <1>10, Zenon DEF GroupsPartition, body
<1> QED BY <1>11

-----------------------------------------------------------------------------
(* A call and its answer *)

\* The arguments of the calls that have a contract.
ArgumentsOK(c) ==
  /\ c.fn = "waves" => c.hard \in BOOLEAN /\ c.deps \in [Steps -> SUBSET (Steps \cup {Unknown})]
  /\ c.fn = "gate" => c.gate \in RatioGates /\ c.n \in Nat /\ c.d \in Nat
  /\ c.fn = "share" => c.q \in Int /\ c.gate \in {"kappa", "confidence"}
  /\ c.fn = "count" => c.n \in Nat /\ c.limit \in Nat /\ (c.gate = "egress" \/ c.limit # 0)
  /\ c.fn = "execute" =>
       /\ c.schema.properties \in Seq(Tags) /\ c.schema.required \in Seq(Tags)
       /\ c.payload.shape \in {"structured", "object", "plain"}
       /\ c.outcome \in {"timeout", "protocol", "lost", "isError", "answer"} /\ c.valid \in BOOLEAN
  /\ c.fn = "cap" => c.text \in Seq(Int) /\ c.limit \in Nat /\ c.margin \in Nat /\ c.redacts \in BOOLEAN
  /\ c.fn \in {"truncate", "compact", "summarize"} => c.n \in Nat
  /\ c.fn = "truncate" => c.max \in Nat /\ c.marker \in Nat \ {0}
  /\ c.fn \in {"compact", "summarize"} => c.head \in Nat /\ c.tail \in Nat
  /\ c.fn = "diff" => c.left \in Seq(Tags) /\ c.right \in Seq(Tags)
  /\ c.fn = "percentile" => c.samples \in Seq(Int) /\ c.max \in Nat \ {0} /\ c.pct \in 1..100
  /\ c.fn = "route" => c.tags \in [Steps -> SUBSET Tags] /\ c.tokens \in SUBSET Tags
  /\ c.fn = "prefetch" => c.recent \in Seq(Int) /\ c.available \in SUBSET Steps /\ c.max \in Nat

Contracted ==
  {"waves", "gate", "share", "count", "execute", "cap", "truncate", "compact", "summarize",
   "diff", "percentile", "route", "prefetch"}

LEMMA OthersOK ==
  ASSUME NEW c, c.fn \notin Contracted
  PROVE  ArgumentsOK(c)
BY DEF ArgumentsOK, Contracted

LEMMA SeqsAreSeqs ==
  ASSUME NEW S, NEW T, S \subseteq T, NEW n \in Nat, NEW s \in SeqsUpTo(S, n)
  PROVE  s \in Seq(T)
<1>1. PICK m \in 0..n : s \in [1..m -> S]
  BY DEF SeqsUpTo
<1>2. m \in Nat /\ s \in [1..m -> T]
  BY <1>1
<1> QED BY <1>2

LEMMA QuotientsOK ==
  ASSUME NEW c \in Quotients
  PROVE  ArgumentsOK(c)
<1>1. ASSUME NEW g \in RatioGates, NEW d \in Divisors, NEW n \in Near(g, d),
             c = [fn |-> "gate", gate |-> g, n |-> n, d |-> d]
      PROVE  ArgumentsOK(c)
  <2>1. n \in Nat
    <3>1. g.soft \in Nat /\ g.hard \in Nat
      BY DEF RatioGates
    <3>2. \A l \in Nat : (l * d) \div 10000 \in Int
      BY <1>1 DEF Divisors
    <3> QED BY <3>1, <3>2 DEF Near
  <2> QED BY <1>1, <2>1 DEF ArgumentsOK, Divisors
<1>2. ASSUME NEW g \in RatioGates, NEW n \in 0..6, c = [fn |-> "gate", gate |-> g, n |-> n, d |-> 0]
      PROVE  ArgumentsOK(c)
  BY <1>2 DEF ArgumentsOK
<1>3. CASE \E g \in RatioGates, d \in Divisors :
             \E n \in Near(g, d) : c = [fn |-> "gate", gate |-> g, n |-> n, d |-> d]
  BY <1>1, <1>3, Zenon
<1>4. CASE \E g \in RatioGates, n \in 0..6 : c = [fn |-> "gate", gate |-> g, n |-> n, d |-> 0]
  BY <1>2, <1>4, Zenon
<1>5. CASE c \in Ratios
  BY <1>3, <1>5 DEF Ratios
<1>6. CASE c \in RatiosToNone
  BY <1>4, <1>6 DEF RatiosToNone
<1> QED BY <1>5, <1>6 DEF Quotients

LEMMA JsonOK ==
  ASSUME NEW c \in JsonCalls
  PROVE  ArgumentsOK(c)
<1>1. c.fn \in {"patch", "merge", "paths", "flatten", "unflatten"}
  BY DEF JsonCalls
<1>2. c.fn \notin Contracted
  BY <1>1 DEF Contracted
<1> QED BY <1>2, OthersOK

LEMMA CsvOK ==
  ASSUME NEW c \in CsvCalls
  PROVE  ArgumentsOK(c)
<1>1. c.fn \in {"pivot", "join", "groupby", "unique", "sort", "difftables", "windows", "versions"}
  BY DEF CsvCalls
<1>2. c.fn \notin Contracted
  BY <1>1 DEF Contracted
<1> QED BY <1>2, OthersOK

LEMMA CallsAreOK ==
  ASSUME PlanConstantsOK, NEW c \in PlanCalls
  PROVE  ArgumentsOK(c)
<1>1. StepCount \in Nat /\ MaxLength \in Nat /\ Steps \subseteq Int
  BY DEF PlanConstantsOK, Steps
<1>2. ASSUME c \in [fn : {"order"}, deps : [Steps -> SUBSET (Steps \cup {Unknown})]]
      PROVE  ArgumentsOK(c)
  BY <1>2, OthersOK DEF Contracted
<1>3. ASSUME c \in [fn : {"waves"}, hard : BOOLEAN, deps : [Steps -> SUBSET (Steps \cup {Unknown})]]
      PROVE  ArgumentsOK(c)
  BY <1>3 DEF ArgumentsOK
<1>4. ASSUME c \in [fn : {"route"}, tags : [Steps -> SUBSET Tags], tokens : SUBSET Tags]
      PROVE  ArgumentsOK(c)
  BY <1>4 DEF ArgumentsOK
<1>5. ASSUME c \in [fn : {"prefetch"}, recent : SeqsUpTo(Steps, 3), available : SUBSET Steps,
                    hinted : SUBSET Steps, max : 1..2]
      PROVE  ArgumentsOK(c)
  <2>1. c.recent \in Seq(Int)
    BY <1>1, <1>5, SeqsAreSeqs
  <2> QED BY <1>5, <2>1 DEF ArgumentsOK
<1>6. ASSUME c \in [fn : {"diff"}, left : SeqsUpTo(Tags, 3), right : SeqsUpTo(Tags, 3)]
      PROVE  ArgumentsOK(c)
  <2>1. c.left \in Seq(Tags) /\ c.right \in Seq(Tags)
    BY <1>6, SeqsAreSeqs
  <2> QED BY <1>6, <2>1 DEF ArgumentsOK
<1>7. ASSUME c \in [fn : {"percentile"}, samples : SeqsUpTo(1..3, 4), max : 1..3, pct : {50, 95}]
      PROVE  ArgumentsOK(c)
  <2>1. c.samples \in Seq(Int)
    <3>1. 1..3 \subseteq Int /\ c.samples \in SeqsUpTo(1..3, 4)
      BY <1>7
    <3> QED BY <3>1, SeqsAreSeqs
  <2> QED BY <1>7, <2>1 DEF ArgumentsOK
<1>8. ASSUME c \in [fn : {"truncate"}, n : 0..MaxLength, max : 0..MaxLength, marker : 1..3]
      PROVE  ArgumentsOK(c)
  BY <1>1, <1>8 DEF ArgumentsOK
<1>9. ASSUME c \in [fn : {"compact", "summarize"}, n : 0..MaxLength, head : 0..2, tail : 0..2]
      PROVE  ArgumentsOK(c)
  BY <1>1, <1>9 DEF ArgumentsOK
<1>10. ASSUME c \in [fn : {"share"}, gate : {"kappa", "confidence"},
                     q : {-10000, -1, 0, 1999, 2000, 4999, 5000, 5999, 6000, 7499, 7500, 9999, 10000}]
       PROVE  ArgumentsOK(c)
  BY <1>10 DEF ArgumentsOK
<1>11. ASSUME \/ c \in [fn : {"count"}, gate : {"quorum", "replan"}, n : 0..7, limit : 1..7]
              \/ c \in [fn : {"count"}, gate : {"egress"}, n : 0..3, limit : 0..3]
       PROVE  ArgumentsOK(c)
  <2>1. c.fn = "count" /\ c.n \in Nat /\ c.limit \in Nat /\ (c.gate = "egress" \/ c.limit # 0)
    BY <1>11
  <2> QED BY <2>1 DEF ArgumentsOK
<1>12. ASSUME c \in [fn : {"execute"},
                     schema : [properties : SeqsUpTo(Tags, 2), required : SeqsUpTo(Tags, 2), typed : SUBSET Tags],
                     payload : [shape : {"structured", "object", "plain"}, keys : SUBSET Tags, decodes : BOOLEAN],
                     outcome : {"timeout", "protocol", "lost", "isError", "answer"}, valid : BOOLEAN]
       PROVE  ArgumentsOK(c)
  <2>1. c.schema.properties \in Seq(Tags) /\ c.schema.required \in Seq(Tags)
    <3>1. c.schema.properties \in SeqsUpTo(Tags, 2) /\ c.schema.required \in SeqsUpTo(Tags, 2)
      BY <1>12
    <3> QED BY <3>1, SeqsAreSeqs
  <2> QED BY <1>12, <2>1 DEF ArgumentsOK
<1>13. ASSUME c \in [fn : {"cap"}, text : SeqsUpTo({1, 3, -1, -3}, 3), limit : 0..MaxLength, margin : {2},
                     redacts : BOOLEAN]
       PROVE  ArgumentsOK(c)
  <2>1. c.text \in Seq(Int)
    <3>1. {1, 3, -1, -3} \subseteq Int /\ c.text \in SeqsUpTo({1, 3, -1, -3}, 3)
      BY <1>13
    <3> QED BY <3>1, SeqsAreSeqs
  <2> QED BY <1>1, <1>13, <2>1 DEF ArgumentsOK
<1>14. (c \in Quotients \/ c \in JsonCalls \/ c \in CsvCalls) => ArgumentsOK(c)
  BY QuotientsOK, JsonOK, CsvOK, Zenon
<1> HIDE DEF ArgumentsOK
<1> QED BY <1>2, <1>3, <1>4, <1>5, <1>6, <1>7, <1>8, <1>9, <1>10, <1>11, <1>12, <1>13, <1>14 DEF PlanCalls

\* What an answer has to meet, whatever it is.
Meets(c, r) ==
  /\ c.fn = "waves" => WavesMeetDependencies(c, r.waves)
  /\ c.fn = "gate" => GradedByQuotient(c, r)
  /\ c.fn = "share" => GradedByMisses(c, r)
  /\ c.fn = "count" => GradedByCount(c, r)
  /\ c.fn = "execute" => ToolResultIsHonest(c, r)
  /\ c.fn = "cap" => CapIsHonest(c, r)
  /\ c.fn \in {"truncate", "compact", "summarize"} => CutKeepsEnds(c, r)
  /\ c.fn = "diff" => DiffFindsAll(c, r)
  /\ c.fn = "percentile" => PercentileIsNearestRank(c, r)
  /\ c.fn = "route" => RoutedToBest(c, r)
  /\ c.fn = "prefetch" => PrefetchedByScore(c, r)

LEMMA AnswersMeet ==
  ASSUME PlanConstantsOK, ArgumentsOK(call), PlanNext, result' # result
  PROVE  Meets(call, result')
<1> DEFINE c == call
           r == result'
<1> USE DEF Returns
<1>1. CASE PlanWaves
  <2>1. c.fn = "waves" /\ r = [waves |-> Waves(c.deps, c.hard)]
    BY <1>1 DEF PlanWaves
  <2>2. WavesMeetDependencies(c, Waves(c.deps, c.hard))
    BY <2>1, WavesPlanned DEF ArgumentsOK
  <2>3. r.waves = Waves(c.deps, c.hard)
    BY <2>1
  <2> QED BY <2>1, <2>2, <2>3, Zenon DEF Meets
<1>2. CASE GradeQuotient
  <2>1. c.fn = "gate" /\ r \in Grades(c.gate, c.n, c.d)
    BY <1>2 DEF GradeQuotient
  <2>2. GradedByQuotient(c, r)
    BY <2>1, GatesRoundToOneSide DEF ArgumentsOK
  <2> QED BY <2>1, <2>2, Zenon DEF Meets
<1>3. CASE GradeShare
  <2>1. c.fn = "share" /\ r = ShareGrade(c.gate, c.q)
    BY <1>3 DEF GradeShare
  <2>2. GradedByMisses(c, r)
    BY <2>1, SharesGradedByMisses DEF ArgumentsOK
  <2> QED BY <2>1, <2>2, Zenon DEF Meets
<1>4. CASE GradeCount
  <2>1. c.fn = "count" /\ r = CountGrade(c.gate, c.n, c.limit)
    BY <1>4 DEF GradeCount
  <2>2. GradedByCount(c, r)
    BY <2>1, CountsGraded DEF ArgumentsOK
  <2> QED BY <2>1, <2>2, Zenon DEF Meets
<1>5. CASE ExecuteTool
  <2>1. /\ c.fn = "execute"
        /\ r = [sent  |-> Coerced(c.schema, c.payload),
                error |-> IF Coerced(c.schema, c.payload) = None THEN "invalid_arguments"
                          ELSE ErrorKind(c.outcome, c.valid)]
    BY <1>5, Zenon DEF ExecuteTool
  <2>2. ToolResultIsHonest(c, r)
    BY <2>1, CallsSentHonestly, Zenon DEF ArgumentsOK
  <2> QED BY <2>1, <2>2, Zenon DEF Meets
<1>6. CASE CapResult
  <2>1. c.fn = "cap" /\ r = ResultText(c.text, c.limit, c.margin, c.redacts)
    BY <1>6 DEF CapResult
  <2>2. CapIsHonest(c, r)
    BY <2>1, ResultsCapped DEF ArgumentsOK
  <2> QED BY <2>1, <2>2, Zenon DEF Meets
<1>7. CASE TruncateText \/ CompactEvents \/ SummarizeMessages
  <2>1. /\ c.fn \in {"truncate", "compact", "summarize"}
        /\ c.fn = "truncate" => r = Truncate(c.n, c.max, c.marker)
        /\ c.fn = "compact" => r = Compact(c.n, c.head, c.tail)
        /\ c.fn = "summarize" => r = Summarize(c.n, c.head, c.tail)
    BY <1>7, Zenon DEF TruncateText, CompactEvents, SummarizeMessages
  <2>2. CutKeepsEnds(c, r)
    <3>1. /\ c.n \in Nat
          /\ c.fn = "truncate" => c.max \in Nat /\ c.marker \in Nat \ {0}
          /\ c.fn \in {"compact", "summarize"} => c.head \in Nat /\ c.tail \in Nat
      BY <2>1, Zenon DEF ArgumentsOK
    <3> QED BY <2>1, <3>1, CutsKeepEnds
  <2> QED BY <2>1, <2>2 DEF Meets
<1>8. CASE DiffRuns
  <2>1. c.fn = "diff" /\ r = Diff(c.left, c.right)
    BY <1>8 DEF DiffRuns
  <2>2. DiffFindsAll(c, r)
    BY <2>1, DiffsFound DEF ArgumentsOK
  <2> QED BY <2>1, <2>2, Zenon DEF Meets
<1>9. CASE Stats
  <2>1. c.fn = "percentile" /\ c.samples # <<>> /\ r = Percentile(Retained(c.samples, c.max), c.pct)
    BY <1>9 DEF Stats
  <2>2. PercentileIsNearestRank(c, r)
    BY <2>1, PercentilesAreNearestRank DEF ArgumentsOK
  <2> QED BY <2>1, <2>2, Zenon DEF Meets
<1>10. CASE RouteTask
  <2>1. c.fn = "route" /\ r = Route(c.tags, c.tokens)
    BY <1>10 DEF RouteTask
  <2>2. RoutedToBest(c, r)
    BY <2>1, TasksRoutedToBest DEF ArgumentsOK
  <2> QED BY <2>1, <2>2, Zenon DEF Meets
<1>11. CASE PlanPrefetch
  <2>1. c.fn = "prefetch" /\ r = Prefetch(c)
    BY <1>11 DEF PlanPrefetch
  <2>2. PrefetchedByScore(c, r)
    BY <2>1, ToolsPrefetchedByScore DEF ArgumentsOK
  <2> QED BY <2>1, <2>2, Zenon DEF Meets
<1>12. CASE c.fn \notin Contracted
  BY <1>12, Zenon DEF Meets, Contracted
<1>13. CASE \/ ResolveOrder \/ PatchJson \/ MergeJson \/ DiffJson \/ FlattenJson \/ UnflattenJson
            \/ PivotCsv \/ JoinCsv \/ GroupCsv \/ UniqueCsv \/ SortCsv \/ DiffCsv \/ WindowCsv
            \/ CompareSemver
  <2>1. c.fn \in {"order", "patch", "merge", "paths", "flatten", "unflatten", "pivot", "join", "groupby",
                  "unique", "sort", "difftables", "windows", "versions"}
    BY <1>13, Zenon
       DEF ResolveOrder, PatchJson, MergeJson, DiffJson, FlattenJson, UnflattenJson, PivotCsv, JoinCsv,
           GroupCsv, UniqueCsv, SortCsv, DiffCsv, WindowCsv, CompareSemver
  <2>2. c.fn \notin Contracted
    BY <2>1 DEF Contracted
  <2> QED BY <1>12, <2>2
<1>14. ~Returned
  BY DEF Returned, planVars
<1> QED BY <1>1, <1>2, <1>3, <1>4, <1>5, <1>6, <1>7, <1>8, <1>9, <1>10, <1>11, <1>13, <1>14, Zenon DEF PlanNext

\* The arguments of the calls of the tools.
ToolArgumentsOK(c) ==
  /\ c.fn = "patch" => c.doc \in Documents /\ c.op \in Operations
  /\ c.fn \in {"merge", "paths"} => c.left \in Documents /\ c.right \in Documents
  /\ c.fn = "flatten" => c.doc \in Documents \cup Blanks
  /\ c.fn = "unflatten" => \E keys : KeyedBy(keys) /\ c.entries = KeyEntries(keys)
  /\ c.fn \in {"pivot", "groupby", "unique", "sort"} => c.rows \in Tables
  /\ c.fn = "groupby" => c.agg \in Aggregates
  /\ c.fn \in {"join", "difftables"} => c.left \in Tables /\ c.right \in Tables
  /\ c.fn = "join" => c.how \in {"inner", "left"}
  /\ c.fn = "sort" => /\ c.descending \in BOOLEAN /\ c.numeric \in BOOLEAN
                      /\ \A i \in DOMAIN c.rows : c.rows[i][1] \in Int /\ c.rows[i][2] = i
  /\ c.fn = "windows" => c.n \in Nat /\ c.start \in Nat /\ c.size \in Nat \ {0} /\ c.step \in Nat \ {0}
  /\ c.fn = "versions" => IsVersion(c.a) /\ IsVersion(c.b) /\ IsVersion(c.c)

JsonTool == {"patch", "merge", "paths", "flatten", "unflatten"}
CsvTool == {"pivot", "join", "groupby", "unique", "sort", "difftables", "windows", "versions"}

LEMMA OtherToolsOK ==
  ASSUME NEW c, c.fn \notin JsonTool, c.fn \notin CsvTool
  PROVE  ToolArgumentsOK(c)
BY DEF ToolArgumentsOK, JsonTool, CsvTool

LEMMA SixIsFinite ==
  ASSUME NEW a, NEW b, NEW c, NEW d, NEW e, NEW f
  PROVE  IsFiniteSet({a, b, c, d, e, f})
<1>1. IsFiniteSet({a}) /\ IsFiniteSet({b}) /\ IsFiniteSet({c}) /\ IsFiniteSet({d}) /\ IsFiniteSet({e}) /\ IsFiniteSet({f})
  BY FS_Singleton
<1>2. IsFiniteSet({a} \cup {b}) /\ IsFiniteSet({c} \cup {d}) /\ IsFiniteSet({e} \cup {f})
  BY <1>1, FS_Union
<1>3. IsFiniteSet(({a} \cup {b}) \cup ({c} \cup {d}))
  BY <1>2, FS_Union
<1>4. IsFiniteSet((({a} \cup {b}) \cup ({c} \cup {d})) \cup ({e} \cup {f}))
  BY <1>2, <1>3, FS_Union
<1>5. (({a} \cup {b}) \cup ({c} \cup {d})) \cup ({e} \cup {f}) = {a, b, c, d, e, f}
  OBVIOUS
<1> QED BY <1>4, <1>5

LEMMA PartsAreKeys ==
  ASSUME NEW keys \in SUBSET SeqsUpTo(Parts(0..2, {0, Name, Blank}), 3)
  PROVE  KeyedBy(keys)
<1> DEFINE L(n) == [kind |-> "list", token |-> n]
           O(n) == [kind |-> "object", token |-> n]
           parts == Parts(0..2, {0, Name, Blank})
<1>1. parts = {L(0), L(1), L(2), O(0), O(Name), O(Blank)}
  <2>1. 0..2 = {0, 1, 2}
    OBVIOUS
  <2>2. parts = [kind : {"list"}, token : {0, 1, 2}] \cup [kind : {"object"}, token : {0, Name, Blank}]
    BY <2>1 DEF Parts
  <2> QED BY <2>2
<1> HIDE DEF L, O
<1>2. IsFiniteSet(parts)
  <2>1. IsFiniteSet({L(0), L(1), L(2), O(0), O(Name), O(Blank)})
    BY SixIsFinite
  <2> QED BY <1>1, <2>1
<1>3. parts \in SUBSET ComponentsOver(Names)
  BY DEF Parts, ComponentsOver, Names
<1> QED BY <1>2, <1>3 DEF KeyedBy

LEMMA JsonToolsOK ==
  ASSUME NEW c \in JsonCalls
  PROVE  ToolArgumentsOK(c)
<1>1. ASSUME c \in [fn : {"patch"}, doc : Documents, op : Operations]
      PROVE  ToolArgumentsOK(c)
  <2>1. c.fn = "patch" /\ c.doc \in Documents /\ c.op \in Operations
    BY <1>1
  <2> QED BY <2>1 DEF ToolArgumentsOK
<1>2. ASSUME c \in [fn : {"merge", "paths"}, left : Documents, right : Documents]
      PROVE  ToolArgumentsOK(c)
  <2>1. c.fn \in {"merge", "paths"} /\ c.left \in Documents /\ c.right \in Documents
    BY <1>2
  <2> QED BY <2>1 DEF ToolArgumentsOK
<1>3. ASSUME c \in [fn : {"flatten"}, doc : Documents \cup Blanks]
      PROVE  ToolArgumentsOK(c)
  <2>1. c.fn = "flatten" /\ c.doc \in Documents \cup Blanks
    BY <1>3
  <2> QED BY <2>1 DEF ToolArgumentsOK
<1>4. ASSUME NEW keys, KeyedBy(keys), c = [fn |-> "unflatten", entries |-> KeyEntries(keys)]
      PROVE  ToolArgumentsOK(c)
  <2>1. c.fn = "unflatten" /\ c.entries = KeyEntries(keys)
    BY <1>4
  <2> QED BY <1>4, <2>1 DEF ToolArgumentsOK
<1>5. ASSUME NEW keys \in UNION {kSubset(n, SeqsUpTo(Parts({0, 1}, {0, Name}), 2)) : n \in 0..3}
      PROVE  KeyedBy(keys)
  <2>1. PICK k \in 0..3 : keys \in kSubset(k, SeqsUpTo(Parts({0, 1}, {0, Name}), 2))
    BY <1>5
  <2>2. keys \in SUBSET SeqsUpTo(Parts({0, 1}, {0, Name}), 2)
    BY <2>1 DEF kSubset
  <2>3. Parts({0, 1}, {0, Name}) \subseteq Parts(0..2, {0, Name, Blank})
    BY DEF Parts
  <2>4. SeqsUpTo(Parts({0, 1}, {0, Name}), 2) \subseteq SeqsUpTo(Parts(0..2, {0, Name, Blank}), 3)
    <3> DEFINE S == Parts({0, 1}, {0, Name})
               T == Parts(0..2, {0, Name, Blank})
    <3>1. S \subseteq T
      BY <2>3
    <3> HIDE DEF S, T
    <3>2. SeqsUpTo(S, 2) \subseteq SeqsUpTo(T, 3)
      <4> SUFFICES ASSUME NEW n \in 0..2, NEW s \in [1..n -> S]
                   PROVE  s \in SeqsUpTo(T, 3)
        BY DEF SeqsUpTo
      <4>1. n \in 0..3 /\ s \in [1..n -> T]
        BY <3>1
      <4> QED BY <4>1 DEF SeqsUpTo
    <3> QED BY <3>2 DEF S, T
  <2> QED BY <2>2, <2>4, PartsAreKeys
<1>6. ASSUME NEW path \in SeqsUpTo(Parts(0..2, {0, Name, Blank}), 3)
      PROVE  KeyedBy({path})
  BY <1>6, PartsAreKeys
<1> DEFINE few == UNION {kSubset(n, SeqsUpTo(Parts({0, 1}, {0, Name}), 2)) : n \in 0..3}
           long == SeqsUpTo(Parts(0..2, {0, Name, Blank}), 3)
<1>7. ASSUME c \in {[fn |-> "unflatten", entries |-> KeyEntries(keys)] : keys \in few \cup {{path} : path \in long}}
      PROVE  ToolArgumentsOK(c)
  <2>1. PICK keys \in few \cup {{path} : path \in long} : c = [fn |-> "unflatten", entries |-> KeyEntries(keys)]
    BY <1>7
  <2>2. KeyedBy(keys)
    BY <1>5, <1>6 DEF few, long
  <2> QED BY <1>4, <2>1, <2>2
<1> HIDE DEF few, long
<1>8. \/ c \in [fn : {"patch"}, doc : Documents, op : Operations]
      \/ c \in [fn : {"merge", "paths"}, left : Documents, right : Documents]
      \/ c \in [fn : {"flatten"}, doc : Documents \cup Blanks]
      \/ c \in {[fn |-> "unflatten", entries |-> KeyEntries(keys)] : keys \in few \cup {{path} : path \in long}}
  BY Zenon DEF JsonCalls, few, long
<1> QED BY <1>1, <1>2, <1>3, <1>7, <1>8

LEMMA RowsAreSeqs ==
  ASSUME NEW w \in Nat, NEW S, S \subseteq Int, NEW row \in [1..w -> S]
  PROVE  row \in Seq(Int)
<1>1. row = [i \in 1..w |-> row[i]] /\ \A i \in 1..w : row[i] \in Int
  OBVIOUS
<1>2. row \in [1..w -> Int]
  BY <1>1
<1> QED BY <1>2

\* Tables of rows as long as the header or one cell shorter.
LEMMA RaggedAreTables ==
  ASSUME NEW width \in Nat \ {0}, NEW S, S \subseteq Int, NEW n \in Nat, NEW rows \in Ragged(width, S, n)
  PROVE  rows \in Tables
<1> DEFINE R == UNION {[1..w -> S] : w \in {width - 1, width}}
<1>1. R \subseteq Seq(Int)
  <2> SUFFICES ASSUME NEW w \in {width - 1, width}, NEW row \in [1..w -> S]
               PROVE  row \in Seq(Int)
    OBVIOUS
  <2>1. w \in Nat
    OBVIOUS
  <2> QED BY <2>1, RowsAreSeqs
<1>2. rows \in SeqsUpTo(R, n)
  BY DEF Ragged
<1> HIDE DEF R
<1> QED BY <1>1, <1>2, SeqsAreSeqs DEF Tables

LEMMA SortedRowsOK ==
  ASSUME NEW cells \in SeqsUpTo(0..3, 4), NEW rows, rows = [i \in DOMAIN cells |-> <<cells[i], i>>]
  PROVE  rows \in Tables /\ \A i \in DOMAIN rows : rows[i][1] \in Int /\ rows[i][2] = i
<1>1. cells \in Seq(0..3)
  <2>1. 4 \in Nat /\ 0..3 \subseteq 0..3
    OBVIOUS
  <2> QED BY <2>1, SeqsAreSeqs
<1>2. Len(cells) \in Nat /\ DOMAIN cells = 1..Len(cells) /\ DOMAIN rows = 1..Len(cells)
  BY <1>1
<1>3. \A i \in DOMAIN rows : rows[i] = <<cells[i], i>> /\ cells[i] \in Int /\ i \in Int
  BY <1>1, <1>2
<1>4. ASSUME NEW i \in DOMAIN rows
      PROVE  rows[i] \in Seq(Int) /\ rows[i][1] \in Int /\ rows[i][2] = i
  <2>1. <<cells[i], i>> \in Seq(Int)
    BY <1>3
  <2> QED BY <1>3, <2>1
<1>5. rows \in [1..Len(cells) -> Seq(Int)]
  <2>1. rows = [i \in 1..Len(cells) |-> rows[i]]
    BY <1>2
  <2> QED BY <1>2, <1>4, <2>1
<1> QED BY <1>2, <1>4, <1>5 DEF Tables

LEMMA CoresAre ==
  <<0, 0, 0>> \in [1..3 -> Int] /\ <<0, 1, 0>> \in [1..3 -> Int]
OBVIOUS

LEMMA VersionsOK ==
  ASSUME NEW v \in Versions
  PROVE  IsVersion(v)
<1>1. v = [core |-> v.core, pre |-> v.pre] /\ v.core \in {<<0, 0, 0>>, <<0, 1, 0>>} /\ v.pre \in SeqsUpTo(Identifiers, 2)
  BY DEF Versions
<1>2. v.core \in [1..3 -> Int]
  BY <1>1, CoresAre
<1>3. v.pre \in Seq([rank : Nat, zeros : Nat])
  <2>1. 2 \in Nat /\ Identifiers \subseteq [rank : Nat, zeros : Nat]
    BY DEF Identifiers
  <2> QED BY <1>1, <2>1, SeqsAreSeqs
<1> QED BY <1>1, <1>2, <1>3 DEF IsVersion

LEMMA CsvToolsOK ==
  ASSUME NEW c \in CsvCalls
  PROVE  ToolArgumentsOK(c)
<1>1. ASSUME NEW width \in {2, 3}, NEW n \in {2, 3, 4}, NEW rows \in Ragged(width, Cells, n)
      PROVE  rows \in Tables
  <2>1. Cells \subseteq Int /\ width \in Nat \ {0} /\ n \in Nat
    BY DEF Cells, Empty
  <2> QED BY <2>1, RaggedAreTables
<1>2. ASSUME c \in [fn : {"pivot"}, rows : SeqsUpTo(Long3 \cup {SubSeq(row, 1, 2) : row \in Long3}, 3)]
      PROVE  ToolArgumentsOK(c)
  <2> DEFINE R == Long3 \cup {SubSeq(row, 1, 2) : row \in Long3}
  <2>1. c.fn = "pivot" /\ c.rows \in SeqsUpTo(R, 3)
    BY <1>2
  <2>2. ASSUME NEW row \in Long3
        PROVE  row \in Seq(Int) /\ SubSeq(row, 1, 2) \in Seq(Int)
    <3>1. PICK index \in Cells, column \in {Empty, 1, 2, -2}, value \in Cells : row = <<index, column, value>>
      BY DEF Long3
    <3>2. index \in Int /\ column \in Int /\ value \in Int
      BY DEF Cells, Empty
    <3>3. row \in Seq(Int) /\ Len(row) = 3
      BY <3>1, <3>2
    <3>4. SubSeq(row, 1, 2) = [i \in 1..2 |-> row[i]]
      BY <3>3
    <3>5. row[1] \in Int /\ row[2] \in Int
      BY <3>1, <3>2
    <3>6. SubSeq(row, 1, 2) \in [1..2 -> Int]
      <4>1. \A i \in 1..2 : row[i] \in Int
        BY <3>5
      <4> QED BY <3>4, <4>1
    <3>7. [1..2 -> Int] \subseteq Seq(Int)
      <4>1. 2 \in Nat
        OBVIOUS
      <4> QED BY <4>1, SeqDef
    <3> QED BY <3>3, <3>6, <3>7
  <2>3. R \subseteq Seq(Int) /\ 3 \in Nat
    BY <2>2
  <2> HIDE DEF R
  <2>4. c.rows \in Tables
    BY <2>1, <2>3, SeqsAreSeqs DEF Tables
  <2> QED BY <2>1, <2>4 DEF ToolArgumentsOK
<1>3. ASSUME c \in [fn : {"join"}, how : {"inner", "left"}, left : Ragged(2, Cells, 2), right : Ragged(2, Cells, 2)]
      PROVE  ToolArgumentsOK(c)
  <2>1. c.fn = "join" /\ c.left \in Tables /\ c.right \in Tables /\ c.how \in {"inner", "left"}
    BY <1>1, <1>3
  <2> QED BY <2>1 DEF ToolArgumentsOK
<1>4. ASSUME c \in [fn : {"groupby"}, agg : {"sum", "count", "min", "max", "mean"}, rows : SeqsUpTo([1..2 -> 0..2], 3)]
      PROVE  ToolArgumentsOK(c)
  <2>1. c.fn = "groupby" /\ c.agg \in Aggregates /\ c.rows \in SeqsUpTo([1..2 -> 0..2], 3)
    BY <1>4 DEF Aggregates
  <2>2. [1..2 -> 0..2] \subseteq Seq(Int) /\ 3 \in Nat
    <3> SUFFICES ASSUME NEW row \in [1..2 -> 0..2]
                 PROVE  row \in Seq(Int)
      OBVIOUS
    <3>1. 2 \in Nat /\ 0..2 \subseteq Int
      OBVIOUS
    <3> QED BY <3>1, RowsAreSeqs
  <2>3. c.rows \in Tables
    BY <2>1, <2>2, SeqsAreSeqs DEF Tables
  <2> QED BY <2>1, <2>3 DEF ToolArgumentsOK
<1>5. ASSUME c \in [fn : {"unique"}, rows : Ragged(2, Cells, 4)]
      PROVE  ToolArgumentsOK(c)
  <2>1. c.fn = "unique" /\ c.rows \in Tables
    BY <1>1, <1>5
  <2> QED BY <2>1 DEF ToolArgumentsOK
<1>6. ASSUME c \in [fn : {"sort"}, rows : {[i \in DOMAIN cells |-> <<cells[i], i>>] : cells \in SeqsUpTo(0..3, 4)},
                    descending : BOOLEAN, numeric : BOOLEAN]
      PROVE  ToolArgumentsOK(c)
  <2>1. /\ c.fn = "sort" /\ c.descending \in BOOLEAN /\ c.numeric \in BOOLEAN
        /\ c.rows \in {[i \in DOMAIN cells |-> <<cells[i], i>>] : cells \in SeqsUpTo(0..3, 4)}
    BY <1>6
  <2>2. PICK cells \in SeqsUpTo(0..3, 4) : c.rows = [i \in DOMAIN cells |-> <<cells[i], i>>]
    BY <2>1, Zenon
  <2>3. c.rows \in Tables /\ \A i \in DOMAIN c.rows : c.rows[i][1] \in Int /\ c.rows[i][2] = i
    BY <2>2, SortedRowsOK
  <2> QED BY <2>1, <2>3, Zenon DEF ToolArgumentsOK
<1>7. ASSUME c \in [fn : {"difftables"}, left : Ragged(2, Cells, 2), right : Ragged(2, Cells, 2)]
      PROVE  ToolArgumentsOK(c)
  <2>1. c.fn = "difftables" /\ c.left \in Tables /\ c.right \in Tables
    BY <1>1, <1>7
  <2> QED BY <2>1 DEF ToolArgumentsOK
<1>8. ASSUME c \in [fn : {"windows"}, n : 0..5, start : 0..5, size : 1..4, step : 1..3]
      PROVE  ToolArgumentsOK(c)
  <2>1. c.fn = "windows" /\ c.n \in Nat /\ c.start \in Nat /\ c.size \in Nat \ {0} /\ c.step \in Nat \ {0}
    BY <1>8
  <2> QED BY <2>1 DEF ToolArgumentsOK
<1>9. ASSUME c \in [fn : {"versions"}, a : Versions, b : Versions, c : Versions]
      PROVE  ToolArgumentsOK(c)
  <2>1. c.fn = "versions" /\ c.a \in Versions /\ c.b \in Versions /\ c.c \in Versions
    BY <1>9
  <2> QED BY <2>1, VersionsOK DEF ToolArgumentsOK
<1> HIDE DEF ToolArgumentsOK
<1> QED BY <1>2, <1>3, <1>4, <1>5, <1>6, <1>7, <1>8, <1>9 DEF CsvCalls

LEMMA ToolCallsAreOK ==
  ASSUME NEW c \in PlanCalls
  PROVE  ToolArgumentsOK(c)
<1>1. CASE c \in JsonCalls \/ c \in CsvCalls
  BY <1>1, JsonToolsOK, CsvToolsOK
<1>2. CASE c \in Quotients
  <2>1. c.fn = "gate"
    BY <1>2 DEF Quotients, Ratios, RatiosToNone
  <2> QED BY <2>1, OtherToolsOK DEF JsonTool, CsvTool
<1>3. CASE c \notin JsonCalls /\ c \notin CsvCalls /\ c \notin Quotients
  <2>1. c.fn \in {"order", "waves", "route", "prefetch", "diff", "percentile", "truncate", "compact",
                  "summarize", "share", "count", "execute", "cap"}
    BY <1>3 DEF PlanCalls
  <2> QED BY <2>1, OtherToolsOK DEF JsonTool, CsvTool
<1> QED BY <1>1, <1>2, <1>3

LEMMA DocumentsPatched ==
  ASSUME PlanConstantsOK, NEW doc \in Documents, NEW op \in Operations
  PROVE  PatchCanBeUndone(doc, op, ApplyPatch(doc, <<op>>))
<1> DEFINE D == Nesting(Tokens)[3]
<1>1. Atom(1) \in D /\ doc \in D
  <2>1. 1 \in Nat /\ 3 \in Nat /\ 1 <= 3
    OBVIOUS
  <2>2. Nesting(Tokens)[1] \subseteq D
    BY <2>1, NestingGrows
  <2> QED BY <2>2, DocumentsAreNested
<1>2. ASSUME NEW path \in Paths
      PROVE  path \in Seq(Tokens) /\ Len(path) \in 0..2
  <2>1. PICK n \in 0..2 : path \in [1..n -> Tokens]
    BY DEF Paths, SeqsUpTo
  <2> QED BY <2>1
<1>3. op.path \in Paths
  BY DEF Operations
<1> HIDE DEF D
<1>4. op \in PatchOperations(Tokens, D)
  <2>1. CASE op \in [op : {"add", "replace", "test"}, path : Paths, value : {Atom(1)}]
    BY <1>1, <1>2, <2>1 DEF PatchOperations
  <2>2. CASE op \in [op : {"remove"}, path : Paths]
    BY <1>2, <2>2 DEF PatchOperations
  <2>3. CASE op \in [op : {"copy", "move"}, from : Paths, path : Paths]
    BY <1>2, <2>3 DEF PatchOperations
  <2> QED BY <2>1, <2>2, <2>3 DEF Operations
<1>5. None \notin Nesting(Tokens)[3 + Len(op.path)]
  <2> DEFINE n == Len(op.path)
  <2>0. n \in 0..2
    BY <1>2, <1>3
  <2> HIDE DEF n
  <2>1. 3 + n \in 1..5
    BY <2>0
  <2>2. None \notin Nesting(Tokens)[3 + n]
    BY <2>1 DEF PlanConstantsOK
  <2> QED BY <2>2 DEF n
<1>6. 3 \in Nat
  OBVIOUS
<1> QED BY <1>1, <1>4, <1>5, <1>6, PatchesCanBeUndone DEF D

\* What an answer of a tool has to meet, whatever it is.
ToolMeets(c, r) ==
  /\ c.fn = "patch" => PatchCanBeUndone(c.doc, c.op, r.doc)
  /\ c.fn = "merge" => MergeIsIdempotent(c.left, c.right, r)
  /\ c.fn = "paths" => PathsTellDifferences(c.left, c.right, r.paths)
  /\ c.fn = "flatten" => FlattenKeepsDocument(c.doc, r.entries)
  /\ c.fn = "unflatten" => UnflattenKeepsKeys(c.entries, r.doc)
  /\ c.fn = "pivot" => PivotKeepsValues(c.rows, r.table)
  /\ c.fn = "join" => JoinHasAllPairs(c, r)
  /\ c.fn = "groupby" => GroupsPartition(c, r.groups)
  /\ c.fn = "unique" => UniqueKeepsFirst(c.rows, r.rows)
  /\ c.fn = "sort" => SortIsStable(c, r)
  /\ c.fn = "difftables" => DiffTurnsAround(c, r.diff)
  /\ c.fn = "windows" => WindowsFit(c, r.windows)
  /\ c.fn = "versions" => VersionsOrdered(c, r)

LEMMA OthersMeet ==
  ASSUME NEW c, NEW r, c.fn \notin JsonTool, c.fn \notin CsvTool
  PROVE  ToolMeets(c, r)
BY Zenon DEF ToolMeets, JsonTool, CsvTool

LEMMA JsonToolsMeet ==
  ASSUME PlanConstantsOK, ToolArgumentsOK(call),
         PatchJson \/ MergeJson \/ DiffJson \/ FlattenJson \/ UnflattenJson
  PROVE  ToolMeets(call, result')
<1> DEFINE c == call
           r == result'
<1> USE DEF Returns
<1>1. CASE PatchJson
  <2>1. c.fn = "patch" /\ r = [doc |-> ApplyPatch(c.doc, <<c.op>>)]
    BY <1>1 DEF PatchJson
  <2>2. r.doc = ApplyPatch(c.doc, <<c.op>>)
    BY <2>1
  <2>3. PatchCanBeUndone(c.doc, c.op, r.doc)
    BY <2>1, <2>2, DocumentsPatched DEF ToolArgumentsOK
  <2> QED BY <2>1, <2>3, Zenon DEF ToolMeets
<1>2. CASE MergeJson
  <2>1. c.fn = "merge" /\ r = MergePatch[<<c.left, c.right>>]
    BY <1>2, Zenon DEF MergeJson
  <2>2. c.left \in Documents /\ c.right \in Documents
    BY <2>1, Zenon DEF ToolArgumentsOK
  <2>3. MergeIsIdempotent(c.left, c.right, r)
    BY <2>1, <2>2, DocumentsMerged, Zenon
  <2> QED BY <2>1, <2>3, Zenon DEF ToolMeets
<1>3. CASE DiffJson
  <2>1. c.fn = "paths" /\ r = [paths |-> DifferentPaths[<<c.left, c.right>>]]
    BY <1>3, Zenon DEF DiffJson
  <2>2. c.left \in Documents /\ c.right \in Documents
    BY <2>1, Zenon DEF ToolArgumentsOK
  <2>3. r.paths = DifferentPaths[<<c.left, c.right>>]
    BY <2>1
  <2>4. None \notin Nesting(Tokens)[3]
    <3>1. 3 \in 1..5
      OBVIOUS
    <3> QED BY <3>1 DEF PlanConstantsOK
  <2>5. PathsTellDifferences(c.left, c.right, DifferentPaths[<<c.left, c.right>>])
    BY <2>2, <2>4, DocumentsCompared
  <2>6. PathsTellDifferences(c.left, c.right, r.paths)
    BY <2>3, <2>5, Zenon
  <2> QED BY <2>1, <2>6, Zenon DEF ToolMeets
<1>4. CASE FlattenJson
  <2>1. c.fn = "flatten" /\ \E entries \in Flattenings(c.doc) : r = [entries |-> entries]
    BY <1>4, Zenon DEF FlattenJson
  <2>2. c.doc \in Documents \cup Blanks
    BY <2>1, Zenon DEF ToolArgumentsOK
  <2>3. PICK entries \in Flattenings(c.doc) : r = [entries |-> entries]
    BY <2>1
  <2>4. r.entries = entries
    BY <2>3
  <2>5. FlattenKeepsDocument(c.doc, r.entries)
    BY <2>2, <2>4, DocumentsFlattened, Zenon
  <2> QED BY <2>1, <2>5, Zenon DEF ToolMeets
<1>5. CASE UnflattenJson
  <2>1. c.fn = "unflatten" /\ r = [doc |-> Unflatten(c.entries)]
    BY <1>5, Zenon DEF UnflattenJson
  <2>2. PICK keys : KeyedBy(keys) /\ c.entries = KeyEntries(keys)
    BY <2>1, Zenon DEF ToolArgumentsOK
  <2>3. r.doc = Unflatten(c.entries)
    BY <2>1
  <2>4. UnflattenKeepsKeys(KeyEntries(keys), Unflatten(KeyEntries(keys)))
    BY <2>2, KeysUnflattened, Zenon
  <2>5. UnflattenKeepsKeys(c.entries, r.doc)
    BY <2>2, <2>3, <2>4, Zenon
  <2> QED BY <2>1, <2>5, Zenon DEF ToolMeets
<1> QED BY <1>1, <1>2, <1>3, <1>4, <1>5, Zenon

LEMMA CsvToolsMeet ==
  ASSUME PlanConstantsOK, ToolArgumentsOK(call),
         \/ PivotCsv \/ JoinCsv \/ GroupCsv \/ UniqueCsv \/ SortCsv \/ DiffCsv \/ WindowCsv
         \/ CompareSemver
  PROVE  ToolMeets(call, result')
<1> DEFINE c == call
           r == result'
<1> USE DEF Returns
<1>1. CASE PivotCsv
  <2>1. c.fn = "pivot" /\ r = [table |-> Pivot(c.rows)]
    BY <1>1 DEF PivotCsv
  <2>2. r.table = Pivot(c.rows)
    BY <2>1
  <2>3. c.rows \in Tables
    BY <2>1, Zenon DEF ToolArgumentsOK
  <2>4. PivotKeepsValues(c.rows, r.table)
    BY <2>2, <2>3, PivotsKeepValues
  <2> QED BY <2>1, <2>4, Zenon DEF ToolMeets
<1>2. CASE JoinCsv
  <2>1. c.fn = "join" /\ r = Join(c.left, c.right, 2, c.how)
    BY <1>2 DEF JoinCsv
  <2>2. c.left \in Tables /\ c.right \in Tables /\ c.how \in {"inner", "left"}
    BY <2>1, Zenon DEF ToolArgumentsOK
  <2>3. JoinHasAllPairs(c, r)
    BY <2>1, <2>2, JoinsHaveAllPairs
  <2> QED BY <2>1, <2>3, Zenon DEF ToolMeets
<1>3. CASE GroupCsv
  <2>1. c.fn = "groupby" /\ r = [groups |-> GroupBy(c.rows, c.agg)]
    BY <1>3 DEF GroupCsv
  <2>2. r.groups = GroupBy(c.rows, c.agg)
    BY <2>1
  <2>3. c.rows \in Tables /\ c.agg \in Aggregates
    BY <2>1, Zenon DEF ToolArgumentsOK
  <2>4. GroupsPartition(c, r.groups)
    BY <2>2, <2>3, RowsGrouped
  <2> QED BY <2>1, <2>4, Zenon DEF ToolMeets
<1>4. CASE UniqueCsv
  <2>1. c.fn = "unique" /\ r = [rows |-> Unique(c.rows, 2)]
    BY <1>4 DEF UniqueCsv
  <2>2. r.rows = Unique(c.rows, 2)
    BY <2>1
  <2>3. c.rows \in Tables
    BY <2>1, Zenon DEF ToolArgumentsOK
  <2>4. UniqueKeepsFirst(c.rows, r.rows)
    BY <2>2, <2>3, UniqueRowsAreFirst
  <2> QED BY <2>1, <2>4, Zenon DEF ToolMeets
<1>5. CASE SortCsv
  <2>1. c.fn = "sort" /\ r = SortRows(c.rows, c.descending, c.numeric)
    BY <1>5 DEF SortCsv
  <2>2. /\ c.rows \in Tables /\ c.descending \in BOOLEAN /\ c.numeric \in BOOLEAN
        /\ \A i \in DOMAIN c.rows : c.rows[i][1] \in Int /\ c.rows[i][2] = i
    BY <2>1, Zenon DEF ToolArgumentsOK
  <2>3. SortIsStable(c, r)
    BY <2>1, <2>2, TablesAreSorted
  <2> QED BY <2>1, <2>3, Zenon DEF ToolMeets
<1>6. CASE DiffCsv
  <2>1. c.fn = "difftables" /\ r = [diff |-> DiffTables(c.left, c.right, 2)]
    BY <1>6 DEF DiffCsv
  <2>2. r.diff = DiffTables(c.left, c.right, 2)
    BY <2>1
  <2>3. c.left \in Tables /\ c.right \in Tables
    BY <2>1, Zenon DEF ToolArgumentsOK
  <2>4. None \notin Differences
    BY DEF PlanConstantsOK, Differences
  <2>5. DiffTurnsAround(c, r.diff)
    BY <2>2, <2>3, <2>4, TableDiffsFound
  <2> QED BY <2>1, <2>5, Zenon DEF ToolMeets
<1>7. CASE WindowCsv
  <2>1. c.fn = "windows" /\ r = [windows |-> Windows(c.n, c.start, c.size, c.step)]
    BY <1>7 DEF WindowCsv
  <2>2. r.windows = Windows(c.n, c.start, c.size, c.step)
    BY <2>1
  <2>3. c.n \in Nat /\ c.start \in Nat /\ c.size \in Nat \ {0} /\ c.step \in Nat \ {0}
    BY <2>1, Zenon DEF ToolArgumentsOK
  <2>4. None \notin Seq(SUBSET Nat)
    BY DEF PlanConstantsOK
  <2>5. WindowsFit(c, r.windows)
    BY <2>2, <2>3, <2>4, WindowsAreThose
  <2> QED BY <2>1, <2>5, Zenon DEF ToolMeets
<1>8. CASE CompareSemver
  <2>1. /\ c.fn = "versions"
        /\ r = <<CompareVersions(c.a, c.b), CompareVersions(c.b, c.c), CompareVersions(c.a, c.c)>>
    BY <1>8 DEF CompareSemver
  <2>2. IsVersion(c.a) /\ IsVersion(c.b) /\ IsVersion(c.c)
    BY <2>1, Zenon DEF ToolArgumentsOK
  <2>3. VersionsOrdered(c, r)
    BY <2>1, <2>2, VersionsAreOrdered
  <2> QED BY <2>1, <2>3, Zenon DEF ToolMeets
<1> QED BY <1>1, <1>2, <1>3, <1>4, <1>5, <1>6, <1>7, <1>8, Zenon

LEMMA ToolAnswersMeet ==
  ASSUME PlanConstantsOK, ToolArgumentsOK(call), PlanNext, result' # result
  PROVE  ToolMeets(call, result')
<1>1. CASE PatchJson \/ MergeJson \/ DiffJson \/ FlattenJson \/ UnflattenJson
  BY <1>1, JsonToolsMeet
<1>2. CASE \/ PivotCsv \/ JoinCsv \/ GroupCsv \/ UniqueCsv \/ SortCsv \/ DiffCsv \/ WindowCsv
           \/ CompareSemver
  BY <1>2, CsvToolsMeet
<1>3. CASE \/ ResolveOrder \/ PlanWaves \/ RouteTask \/ PlanPrefetch \/ DiffRuns \/ Stats
           \/ TruncateText \/ CompactEvents \/ SummarizeMessages
           \/ GradeQuotient \/ GradeShare \/ GradeCount \/ ExecuteTool \/ CapResult
  <2>1. call.fn \in {"order", "waves", "route", "prefetch", "diff", "percentile", "truncate", "compact",
                     "summarize", "gate", "share", "count", "execute", "cap"}
    BY <1>3, Zenon
       DEF ResolveOrder, PlanWaves, RouteTask, PlanPrefetch, DiffRuns, Stats, TruncateText, CompactEvents,
           SummarizeMessages, GradeQuotient, GradeShare, GradeCount, ExecuteTool, CapResult
  <2>2. call.fn \notin JsonTool /\ call.fn \notin CsvTool
    BY <2>1 DEF JsonTool, CsvTool
  <2> QED BY <2>2, OthersMeet
<1>4. ~Returned
  BY DEF Returned, planVars
<1> QED BY <1>1, <1>2, <1>3, <1>4, Zenon DEF PlanNext

\* The call never changes, so its arguments stay those that were accepted.
PlanInv ==
  /\ ArgumentsOK(call) /\ ToolArgumentsOK(call)
  /\ PlansMeetContracts /\ JsonToolsMeetContracts /\ CsvToolsMeetContracts

LEMMA PlanInitially ==
  ASSUME PlanConstantsOK, PlanInit
  PROVE  PlanInv
<1>1. call \in PlanCalls /\ result = None
  BY Zenon DEF PlanInit
<1>2. ArgumentsOK(call) /\ ToolArgumentsOK(call)
  BY <1>1, CallsAreOK, ToolCallsAreOK, Zenon
<1> QED BY <1>1, <1>2, Zenon DEF PlanInv, PlansMeetContracts, JsonToolsMeetContracts, CsvToolsMeetContracts

LEMMA PlanSteps ==
  ASSUME PlanConstantsOK, PlanInv, PlanNext \/ UNCHANGED planVars
  PROVE  PlanInv'
<1>1. call' = call
  BY Zenon DEF PlanNext, planVars, Returns, Returned, ResolveOrder, PlanWaves, RouteTask, PlanPrefetch,
        DiffRuns, Stats, TruncateText, CompactEvents, SummarizeMessages, GradeQuotient, GradeShare,
        GradeCount, ExecuteTool, CapResult, PatchJson, MergeJson, DiffJson, FlattenJson, UnflattenJson,
        PivotCsv, JoinCsv, GroupCsv, UniqueCsv, SortCsv, DiffCsv, WindowCsv, CompareSemver
<1>2. ArgumentsOK(call') /\ ToolArgumentsOK(call')
  BY <1>1, Zenon DEF PlanInv
<1>3. CASE result' = result
  <2>1. PlansMeetContracts /\ JsonToolsMeetContracts /\ CsvToolsMeetContracts
    BY Zenon DEF PlanInv
  <2>2. PlansMeetContracts'
    BY <1>1, <1>3, <2>1, Zenon DEF PlansMeetContracts
  <2>3. JsonToolsMeetContracts'
    BY <1>1, <1>3, <2>1, Zenon DEF JsonToolsMeetContracts
  <2>4. CsvToolsMeetContracts'
    BY <1>1, <1>3, <2>1, Zenon DEF CsvToolsMeetContracts
  <2> QED BY <1>2, <2>2, <2>3, <2>4, Zenon DEF PlanInv
<1>4. CASE result' # result
  <2>1. PlanNext
    BY <1>4 DEF planVars
  <2>2. ArgumentsOK(call) /\ ToolArgumentsOK(call)
    BY Zenon DEF PlanInv
  <2>3. Meets(call', result')
    BY <1>1, <1>4, <2>1, <2>2, AnswersMeet, Zenon
  <2>4. ToolMeets(call', result')
    BY <1>1, <1>4, <2>1, <2>2, ToolAnswersMeet, Zenon
  <2>5. PlansMeetContracts'
    BY <2>3, Zenon DEF PlansMeetContracts, Meets
  <2>6. JsonToolsMeetContracts'
    BY <2>4, Zenon DEF JsonToolsMeetContracts, ToolMeets
  <2>7. CsvToolsMeetContracts'
    BY <2>4, Zenon DEF CsvToolsMeetContracts, ToolMeets
  <2> QED BY <1>2, <2>5, <2>6, <2>7, Zenon DEF PlanInv
<1> QED BY <1>3, <1>4
=============================================================================
