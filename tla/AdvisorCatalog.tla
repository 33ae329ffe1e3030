---------------------------- MODULE AdvisorCatalog ----------------------------
(***************************************************************************)
(* The stateless advisors, guards and limiters of docs/ADVISOR_CATALOG.md  *)
(* that grade one measurement against limits: what each one is configured  *)
(* with, and how the three families of them grade.                         *)
(*                                                                         *)
(* A float is an integer number of thousandths, or NaN, for which every    *)
(* comparison is false; a metric the code annotates as int is that         *)
(* integer.  The three bands of every family (ok, elevated, blocked; ok,   *)
(* near_limit, exhausted; healthy, warning, stalled...) are the severities *)
(* 0, 1 and 2.                                                             *)
(***************************************************************************)
EXTENDS Integers

CONSTANT NaN    \* float("nan")

Number == Int \cup {NaN}

ASSUME NaNIsNoNumber == NaN \notin Int

\* Python's <= and < on numbers that may be NaN.
Le(a, b) == a # NaN /\ b # NaN /\ a <= b
Lt(a, b) == a # NaN /\ b # NaN /\ a < b

-----------------------------------------------------------------------------
(* The families *)

\* advise() grades upwards from the soft limit; lo and hi bound the values it
\* does not reject (a bound of NaN rejects nothing), type is the annotation
\* of the measurement.
BoundedCeiling(soft, hard, lo, hi, type) ==
  [kind |-> "ceiling", soft |-> soft, hard |-> hard, lo |-> lo, hi |-> hi, type |-> type]
Ceiling(soft, hard) == BoundedCeiling(soft, hard, 0, NaN, "float")

\* check() grades downwards from the hard limit.
Watchdog(soft, hard, type) ==
  [kind |-> "watchdog", soft |-> soft, hard |-> hard, lo |-> 0, hi |-> NaN, type |-> type]

\* check() grades what remains of a maximum; the last 1/divisor is near it.
Budget(max, divisor) ==
  [kind |-> "budget", max |-> max, divisor |-> divisor, lo |-> 0, hi |-> NaN, type |-> "int"]

\* The constructor's checks of the limits of a ceiling.
Accepts(soft, hard) == ~Le(soft, 0) /\ ~Le(hard, soft)

\* The checks of the measurement.
InRange(a, v) == ~Lt(v, a.lo) /\ ~Lt(a.hi, v)

\* mutant: the same bands, tested from the top
CeilingSeverity_FromTheTop(a, v) == IF Lt(a.hard, v) THEN 2 ELSE IF Lt(a.soft, v) THEN 1 ELSE 0
\* mutant: the elevated band is tested first
CeilingSeverity_Swapped(a, v) == IF Le(v, a.hard) THEN IF Le(v, a.soft) THEN 1 ELSE 0 ELSE 2
CeilingSeverity(a, v) == IF Le(v, a.soft) THEN 0 ELSE IF Le(v, a.hard) THEN 1 ELSE 2

WatchdogSeverity(a, v) == IF Le(a.hard, v) THEN 2 ELSE IF Le(a.soft, v) THEN 1 ELSE 0

\* mutant: the margin of a small budget rounds to nothing
Margin_RoundsToZero(a) == a.max \div a.divisor
Margin(a) == IF a.max \div a.divisor > 1 THEN a.max \div a.divisor ELSE 1
BudgetSeverity(a, v) ==
  LET remaining == IF v > a.max THEN 0 ELSE a.max - v
  IN  IF remaining = 0 THEN 2 ELSE IF remaining <= Margin(a) THEN 1 ELSE 0

\* The band of a measurement.
Severity(a, v) ==
  CASE a.kind = "ceiling"  -> CeilingSeverity(a, v)
    [] a.kind = "watchdog" -> WatchdogSeverity(a, v)
    [] a.kind = "budget"   -> BudgetSeverity(a, v)

-----------------------------------------------------------------------------
(* The catalog, by source file, with the default limits *)

actor_mailbox_overflow == Ceiling(250, 600)
agent_affinity_decay_band == Ceiling(200, 500)
agent_affinity_skew_band == Ceiling(200, 500)
agent_capability_revocation == Ceiling(200, 600)
agent_deadlock_detector == Ceiling(200, 600)
agent_handoff_loop_band == Ceiling(250, 600)
agent_loop_token_bleed == Ceiling(250, 600)
agent_memory_poison_band == Ceiling(200, 500)
agent_token_budget_skew_band == Ceiling(200, 500)
blackboard_cas_write_skew == Ceiling(600, 900)
blackboard_lease_thrash == Ceiling(250, 600)
blackboard_read_staleness == Ceiling(250, 600)
blackboard_stale_entry == Ceiling(300000, 3600000)
blackboard_write_contention_band == Ceiling(200, 500)
bot_capability_drift == Ceiling(300, 700)
consensus_participation_skew == Ceiling(300, 700)
consensus_quorum_band == Ceiling(200, 500)
consensus_quorum_stall == Ceiling(250, 600)
consensus_vote_latency_skew_band == Ceiling(700, 950)
consensus_vote_stuffing == Ceiling(200, 600)
critic_calibration_drift_band == Ceiling(200, 500)
critic_collusion_band == Ceiling(200, 600)
critic_disagreement_spread == Ceiling(350, 750)
critic_fanout_skew == Ceiling(250, 600)
critic_latency_skew_band == Ceiling(200, 500)
critic_latency_slo == Ceiling(1500000, 3000000)
critic_majority_capture_band == Ceiling(250, 600)
critic_quorum_hysteresis == Ceiling(600, 900)
critic_score_inflation_band == Ceiling(200, 500)
critic_self_consistency == Ceiling(250, 500)
critic_timeout_cascade == Ceiling(200, 600)
critic_token_budget == Ceiling(4000000, 8000000)
fan_in_barrier_stall == Ceiling(250, 600)
handoff_payload_bloat == Ceiling(250, 600)
handoff_schema_drift_band == Ceiling(200, 500)
handoff_timeout_band == Ceiling(250, 600)
hitl_approval_starvation_band == Ceiling(200, 500)
hitl_timeout_cascade_band == Ceiling(200, 500)
memory_compaction_lag_band == Ceiling(200, 500)
memory_namespace_leak == Ceiling(200, 550)
message_bus_backpressure == Ceiling(100000, 500000)
message_bus_partition_band == Ceiling(700, 950)
message_bus_poison_pill == Ceiling(200, 600)
orchestrator_cascade_failure == Ceiling(2000, 4000)
orchestrator_fairness_aging == Ceiling(30000, 120000)
orchestrator_fan_in_stall_band == Ceiling(300, 700)
orchestrator_fanout_budget == Ceiling(600, 900)
orchestrator_heartbeat_gap == Ceiling(250, 600)
orchestrator_priority_inversion_band == Ceiling(700, 950)
orchestrator_retry_storm_band == Ceiling(250, 600)
orphan_task_sweeper == Ceiling(200, 600)
parallel_tool_collision == Ceiling(600, 900)
plan_goal_contradiction_band == Ceiling(200, 600)
plan_step_cycle_detector == Ceiling(200, 600)
planner_context_overflow_band == Ceiling(200, 500)
planner_cost_ceiling == Ceiling(1000, 5000)
planner_critic_oscillation_band == Ceiling(200, 550)
planner_depth_cap == Ceiling(5000, 15000)
planner_goal_churn_band == Ceiling(200, 500)
planner_horizon_band == Ceiling(600, 900)
planner_replan_thrash == Ceiling(600, 900)
planner_step_budget_band == Ceiling(600, 900)
planner_tool_mismatch_band == Ceiling(250, 600)
planner_tool_mismatch_cascade_band == Ceiling(700, 950)
prompt_leak_band == Ceiling(200, 600)
shared_kv_lease_expiry_band == Ceiling(200, 500)
shared_kv_write_amplification == Ceiling(250, 600)
shared_lock_contention_band == Ceiling(250, 600)
shared_memory_poisoning == Ceiling(200, 600)
shared_memory_quota_thrash_band == Ceiling(700, 950)
shared_state_write_skew_band == Ceiling(200, 500)
subgraph_cancel_leak == Ceiling(250, 600)
subgraph_deadlock_residual_band == Ceiling(200, 500)
subgraph_recursion_cap == Ceiling(600, 900)
subgraph_retry_amplification_band == Ceiling(200, 500)
supervisor_handoff_loop_band == Ceiling(200, 500)
supervisor_idle_skew == Ceiling(250, 600)
supervisor_restart_thrash == Ceiling(250, 600)
tool_arg_schema_drift == Ceiling(150, 400)
tool_budget_exhaustion_band == Ceiling(700, 950)
tool_idempotency_collision_band == Ceiling(700, 950)
tool_permission_drift == Ceiling(250, 600)
tool_permission_escalation_band == Ceiling(600, 900)
tool_result_poisoning == Ceiling(200, 600)
tool_result_schema_drift_band == Ceiling(250, 600)
tool_result_schema_lag == Ceiling(600, 900)
tool_result_size_bomb == Ceiling(200, 600)
tool_result_truncation_band == Ceiling(200, 500)
tool_retry_budget == Ceiling(3000, 10000)
tool_sandbox_cpu_quota == Ceiling(70000, 95000)
tool_sandbox_disk_quota == Ceiling(1024000, 4096000)
tool_sandbox_dns_rebind == Ceiling(200, 600)
tool_sandbox_escape_attempt_band == Ceiling(50, 200)
tool_sandbox_memory_quota == Ceiling(512000, 1024000)
tool_sandbox_network_exfil == Ceiling(200, 600)
tool_sandbox_syscall_denylist == Ceiling(50, 200)
tool_schema_compat_band == Ceiling(200, 500)
tool_side_effect_ledger == Ceiling(300, 700)
tool_side_effect_orphan_band == Ceiling(200, 500)
tool_side_effect_replay_band == Ceiling(250, 600)
tool_timeout_cascade_band == Ceiling(220, 580)
worker_heartbeat_miss_band == Ceiling(250, 600)
worker_mailbox_overflow_band == Ceiling(200, 500)
worker_queue_depth_band == Ceiling(200, 500)
worker_starvation_band == Ceiling(250, 600)

agent_handoff_latency == Ceiling(200, 600)
planner_beam_width == BoundedCeiling(4, 8, 1, NaN, "int")
shared_memory_ttl_eviction == BoundedCeiling(200, 500, 0, 1000, "float")
tool_result_cardinality == BoundedCeiling(100, 1000, 0, NaN, "int")
orchestrator_stall_watchdog == Watchdog(30000, 120000, "float")
bot_idle_timeout == Watchdog(210000, 300000, "float")
shared_memory_conflict_band == Watchdog(1, 3, "int")
agent_handoff_depth == Budget(4, 4)
bot_spawn_budget == Budget(8, 4)
critic_pass_budget == Budget(3, 3)
debate_round_limiter == Budget(5, 5)
shared_memory_quota == Budget(20, 5)
tool_arg_byte_budget == Budget(8192, 10)

AgentCeilings ==
  {actor_mailbox_overflow, agent_affinity_decay_band, agent_affinity_skew_band,
   agent_capability_revocation, agent_deadlock_detector, agent_handoff_latency,
   agent_handoff_loop_band, agent_loop_token_bleed, agent_memory_poison_band,
   agent_token_budget_skew_band, bot_capability_drift, fan_in_barrier_stall,
   handoff_payload_bloat, handoff_schema_drift_band, handoff_timeout_band,
   hitl_approval_starvation_band, hitl_timeout_cascade_band,
   supervisor_handoff_loop_band, supervisor_idle_skew, supervisor_restart_thrash,
   worker_heartbeat_miss_band, worker_mailbox_overflow_band, worker_queue_depth_band,
   worker_starvation_band}

BoardCeilings ==
  {blackboard_cas_write_skew, blackboard_lease_thrash, blackboard_read_staleness,
   blackboard_stale_entry, blackboard_write_contention_band,
   consensus_participation_skew, consensus_quorum_band, consensus_quorum_stall,
   consensus_vote_latency_skew_band, consensus_vote_stuffing,
   memory_compaction_lag_band, memory_namespace_leak, message_bus_backpressure,
   message_bus_partition_band, message_bus_poison_pill, shared_kv_lease_expiry_band,
   shared_kv_write_amplification, shared_lock_contention_band,
   shared_memory_poisoning, shared_memory_quota_thrash_band,
   shared_state_write_skew_band}

CriticCeilings ==
  {critic_calibration_drift_band, critic_collusion_band, critic_disagreement_spread,
   critic_fanout_skew, critic_latency_skew_band, critic_latency_slo,
   critic_majority_capture_band, critic_quorum_hysteresis,
   critic_score_inflation_band, critic_self_consistency, critic_timeout_cascade,
   critic_token_budget}

PlannerCeilings ==
  {orchestrator_cascade_failure, orchestrator_fairness_aging,
   orchestrator_fan_in_stall_band, orchestrator_fanout_budget,
   orchestrator_heartbeat_gap, orchestrator_priority_inversion_band,
   orchestrator_retry_storm_band, orphan_task_sweeper, parallel_tool_collision,
   plan_goal_contradiction_band, plan_step_cycle_detector,
   planner_context_overflow_band, planner_cost_ceiling,
   planner_critic_oscillation_band, planner_depth_cap, planner_goal_churn_band,
   planner_horizon_band, planner_replan_thrash, planner_step_budget_band,
   planner_tool_mismatch_band, planner_tool_mismatch_cascade_band, prompt_leak_band,
   subgraph_cancel_leak, subgraph_deadlock_residual_band, subgraph_recursion_cap,
   subgraph_retry_amplification_band}

ToolCeilings ==
  {tool_arg_schema_drift, tool_budget_exhaustion_band,
   tool_idempotency_collision_band, tool_permission_drift,
   tool_permission_escalation_band, tool_result_poisoning,
   tool_result_schema_drift_band, tool_result_schema_lag, tool_result_size_bomb,
   tool_result_truncation_band, tool_retry_budget, tool_sandbox_cpu_quota,
   tool_sandbox_disk_quota, tool_sandbox_dns_rebind, tool_sandbox_escape_attempt_band,
   tool_sandbox_memory_quota, tool_sandbox_network_exfil,
   tool_sandbox_syscall_denylist, tool_schema_compat_band, tool_side_effect_ledger,
   tool_side_effect_orphan_band, tool_side_effect_replay_band,
   tool_timeout_cascade_band}

BoundedCeilings ==
  {planner_beam_width, shared_memory_ttl_eviction, tool_result_cardinality}

Ceilings ==
  AgentCeilings \cup BoardCeilings \cup CriticCeilings \cup PlannerCeilings
    \cup ToolCeilings \cup BoundedCeilings

Watchdogs ==
  {orchestrator_stall_watchdog, bot_idle_timeout, shared_memory_conflict_band}

Budgets ==
  {agent_handoff_depth, bot_spawn_budget, critic_pass_budget, debate_round_limiter,
   shared_memory_quota, tool_arg_byte_budget}

Catalog == Ceilings \cup Watchdogs \cup Budgets
=============================================================================
