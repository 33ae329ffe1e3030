--------------------------------- MODULE Gates ---------------------------------
(***************************************************************************)
(* The guards that grade a quotient, a share or a count.  A quotient is    *)
(* rounded to four decimals before it is compared, so it is graded in      *)
(* ten-thousandths.  Grades are severities, 0 being the best.              *)
(***************************************************************************)
EXTENDS Integers, FiniteSets

\* mutant: the quotient is cut off after four decimals
Rounded_Down(n, d) == {(10000 * n) \div d}
\* round(n / d, 4): the nearest ten-thousandth.  Of two that are equally near
\* binary floating point picks either.
Rounded(n, d) ==
  LET q == (10000 * n) \div d IN {x \in {q, q + 1} : 2 * (x * d - 10000 * n) \in -d..d}

GreaterOf(a, b) == IF a > b THEN a ELSE b

-----------------------------------------------------------------------------
(* How limits are compared *)

\* Good up to and including a limit; reached at a limit; good from a limit on,
\* tested from the top; the same, tested from the bottom.
Above(q, soft, hard) == IF q <= soft THEN 0 ELSE IF q <= hard THEN 1 ELSE 2
Reached(q, soft, hard) == IF q >= hard THEN 2 ELSE IF q >= soft THEN 1 ELSE 0
Below(q, soft, hard) == IF q >= soft THEN 0 ELSE IF q >= hard THEN 1 ELSE 2
BelowFloor(q, soft, floor) == IF q < floor THEN 2 ELSE IF q < soft THEN 1 ELSE 0

FanInSkewBandGuard(q) == Above(q, 15000, 30000)
MultiBotLatencyBudgetAllocator(q) == Above(q, 8000, 10000)
\* mutant: a wait that has used its timeout up is still approaching it
CriticTimeoutBandGuard_Late(q) == IF q > 10000 THEN 2 ELSE IF q >= 7000 THEN 1 ELSE 0
CriticTimeoutBandGuard(q) == Reached(q, 7000, 10000)
ConsensusTimeoutBandGuard(q) == Reached(q, 7000, 10000)
ToolInvocationDeadlineGuard(q) == Reached(q, 7000, 10000)
BlackboardWriteAmplificationBandGuard(q) == Reached(q, 20000, 50000)
PlannerGoalDriftGuard(q) == Below(q, 5000, 2000)
CriticPairwiseKappaGate(q) == Below(q, 6000, 2000)
CriticVerdictDiversityGate(q, floor) == BelowFloor(q, 8500, floor)

\* Four bands, from low to unanimous.
\* mutant: a share is in the band below when it is just at a limit
ConsensusConfidenceBandAdvisor_Above(q) ==
  IF q >= 10000 THEN 0 ELSE IF q > 7500 THEN 1 ELSE IF q > 5000 THEN 2 ELSE 3
ConsensusConfidenceBandAdvisor(q) ==
  IF q >= 10000 THEN 0 ELSE IF q >= 7500 THEN 1 ELSE IF q >= 5000 THEN 2 ELSE 3

-----------------------------------------------------------------------------
(* Counts and classes *)

\* mutant: half of an odd quorum is rounded down
ConsensusQuorumFloorGuard_Down(yes, min) ==
  IF yes >= min THEN 0 ELSE IF yes >= GreaterOf(1, min \div 2) THEN 1 ELSE 2
ConsensusQuorumFloorGuard(yes, min) ==
  IF yes >= min THEN 0 ELSE IF yes >= GreaterOf(1, (min + 1) \div 2) THEN 1 ELSE 2

PlannerReplanBudgetLimiter(count, max) ==
  IF count >= max THEN 2 ELSE IF count >= GreaterOf(1, (66 * max) \div 100) THEN 1 ELSE 0

\* The rank of a sandbox class; none is 0, admin is 3.
\* mutant: the maximum itself is not allowed without review
ToolSandboxEgressClassGuard_Below(rank, max) ==
  IF rank < max THEN 0 ELSE IF rank <= max + 1 THEN 1 ELSE 2
ToolSandboxEgressClassGuard(rank, max) ==
  IF rank <= max THEN 0 ELSE IF rank = max + 1 THEN 1 ELSE 2

-----------------------------------------------------------------------------

\* The gates of a quotient: their limits, and in which direction they grade.
RatioGates ==
  {[gate |-> "fan_in_skew", up |-> TRUE, inclusive |-> FALSE, soft |-> 15000, hard |-> 30000],
   [gate |-> "latency_budget", up |-> TRUE, inclusive |-> FALSE, soft |-> 8000, hard |-> 10000],
   [gate |-> "critic_timeout", up |-> TRUE, inclusive |-> TRUE, soft |-> 7000, hard |-> 10000],
   [gate |-> "consensus_timeout", up |-> TRUE, inclusive |-> TRUE, soft |-> 7000, hard |-> 10000],
   [gate |-> "tool_deadline", up |-> TRUE, inclusive |-> TRUE, soft |-> 7000, hard |-> 10000],
   [gate |-> "write_amplification", up |-> TRUE, inclusive |-> TRUE, soft |-> 20000, hard |-> 50000],
   [gate |-> "goal_drift", up |-> FALSE, inclusive |-> TRUE, soft |-> 5000, hard |-> 2000],
   [gate |-> "diversity", up |-> FALSE, inclusive |-> TRUE, soft |-> 8500, hard |-> 5000]}

GradeOf(g, q) ==
  CASE g.gate = "fan_in_skew"         -> FanInSkewBandGuard(q)
    [] g.gate = "latency_budget"      -> MultiBotLatencyBudgetAllocator(q)
    [] g.gate = "critic_timeout"      -> CriticTimeoutBandGuard(q)
    [] g.gate = "consensus_timeout"   -> ConsensusTimeoutBandGuard(q)
    [] g.gate = "tool_deadline"       -> ToolInvocationDeadlineGuard(q)
    [] g.gate = "write_amplification" -> BlackboardWriteAmplificationBandGuard(q)
    [] g.gate = "goal_drift"          -> PlannerGoalDriftGuard(q)
    [] g.gate = "diversity"           -> CriticVerdictDiversityGate(q, g.hard)

\* The grades a quotient may get; a count of reads of 0 is taken for 1.
Grades(g, n, d) == {GradeOf(g, q) : q \in Rounded(n, GreaterOf(d, 1))}

\* The gates of a share, given in ten-thousandths, and of counts.
ShareGrade(gate, q) ==
  IF gate = "kappa" THEN CriticPairwiseKappaGate(q) ELSE ConsensusConfidenceBandAdvisor(q)
CountGrade(gate, n, limit) ==
  CASE gate = "quorum" -> ConsensusQuorumFloorGuard(n, limit)
    [] gate = "replan" -> PlannerReplanBudgetLimiter(n, limit)
    [] gate = "egress" -> ToolSandboxEgressClassGuard(n, limit)
=============================================================================
