---------------------------- MODULE Library_proofs ----------------------------
(***************************************************************************)
(* What the parts of Library promise, as theorems about LibrarySpec.  The  *)
(* ledgers are proved in a module of their own, which is instantiated here *)
(* as Library instantiates the part; the planning functions are proved in  *)
(* Planning_proofs, and the other parts below.                             *)
(***************************************************************************)
EXTENDS Library, Planning_proofs

LedgerProofs == INSTANCE Ledgers_proofs WITH
  kind <- setup, counts <- objects, plan <- progress, log <- trace, MaxOps <- LedgerOps

-----------------------------------------------------------------------------
(* Composition *)

\* A behaviour stays with its part, and a step is a step of that part.
LEMMA PartSteps ==
  ASSUME [LibraryNext]_libraryVars
  PROVE  /\ part' = part
         /\ part = "blackboard" => Board!Next \/ UNCHANGED others
         /\ part = "tool calls" => Calls!Next \/ UNCHANGED others
         /\ part = "fan-out" => Fan!Next \/ UNCHANGED others
         /\ part = "ledgers" => Ledger!Next \/ UNCHANGED others
         /\ part = "timers" => Timer!Next \/ UNCHANGED others
         /\ part = "toolset" => Toolset!Next \/ UNCHANGED others
BY DEF LibraryNext, libraryVars, others, Unmoved, UseAdvisor, UseBoard, UseCalls, UseFan,
       UseLedger, UseTimer, UseToolset, UsePlan

LEMMA PartInits ==
  ASSUME LibraryInit
  PROVE  /\ part = "blackboard" => Board!Init
         /\ part = "tool calls" => Calls!Init
         /\ part = "fan-out" => Fan!Init
         /\ part = "ledgers" => Ledger!Init
         /\ part = "timers" => Timer!Init
         /\ part = "toolset" => Toolset!Init
BY Zenon DEF LibraryInit

-----------------------------------------------------------------------------
(* Advisors *)

\* What the proofs need to know of an advisor of each family.
IsCeiling(a) ==
  \E s, h, lo, hi \in Number, t \in {"float", "int"} : a = BoundedCeiling(s, h, lo, hi, t)
IsWatchdog(a) == \E s, h \in Int, t \in {"float", "int"} : a = Watchdog(s, h, t)
IsBudget(a) == \E m \in Nat, d \in Nat \ {0} : a = Budget(m, d)

\* The constructors make advisors of their families.
LEMMA CeilingIs ==
  /\ \A s, h, lo, hi \in Number, t \in {"float", "int"} :
       IsCeiling(BoundedCeiling(s, h, lo, hi, t))
  /\ \A s, h \in Int : IsCeiling(Ceiling(s, h))
<1>1. \A s, h, lo, hi \in Number, t \in {"float", "int"} :
       IsCeiling(BoundedCeiling(s, h, lo, hi, t))
  BY Zenon DEF IsCeiling
<1>2. ASSUME NEW s \in Int, NEW h \in Int
      PROVE  IsCeiling(Ceiling(s, h))
  <2>1. s \in Number /\ h \in Number /\ 0 \in Number /\ NaN \in Number /\ "float" \in {"float", "int"}
    BY DEF Number
  <2>2. QED BY <1>1, <2>1 DEF Ceiling
<1>3. QED BY <1>1, <1>2

\* A watchdog and a budget are of their families.
LEMMA OthersAre ==
  /\ \A s, h \in Int, t \in {"float", "int"} : IsWatchdog(Watchdog(s, h, t))
  /\ \A m \in Nat, d \in Nat \ {0} : IsBudget(Budget(m, d))
  BY Zenon DEF IsWatchdog, IsBudget

\* Every entry of the catalog belongs to its family.
LEMMA CatalogTyped ==
  /\ \A a \in Ceilings : IsCeiling(a)
  /\ \A a \in Watchdogs : IsWatchdog(a)
  /\ \A a \in Budgets : IsBudget(a)
<1>1. \A a \in AgentCeilings : IsCeiling(a)
  BY CeilingIs
     DEF AgentCeilings, actor_mailbox_overflow, agent_affinity_decay_band, agent_affinity_skew_band,
         agent_capability_revocation, agent_deadlock_detector, agent_handoff_latency,
         agent_handoff_loop_band, agent_loop_token_bleed, agent_memory_poison_band,
         agent_token_budget_skew_band, bot_capability_drift, fan_in_barrier_stall,
         handoff_payload_bloat, handoff_schema_drift_band, handoff_timeout_band,
         hitl_approval_starvation_band, hitl_timeout_cascade_band,
         supervisor_handoff_loop_band, supervisor_idle_skew, supervisor_restart_thrash,
         worker_heartbeat_miss_band, worker_mailbox_overflow_band,
         worker_queue_depth_band, worker_starvation_band
<1>2. \A a \in BoardCeilings : IsCeiling(a)
  BY CeilingIs
     DEF BoardCeilings, blackboard_cas_write_skew, blackboard_lease_thrash, blackboard_read_staleness,
         blackboard_stale_entry, blackboard_write_contention_band,
         consensus_participation_skew, consensus_quorum_band, consensus_quorum_stall,
         consensus_vote_latency_skew_band, consensus_vote_stuffing,
         memory_compaction_lag_band, memory_namespace_leak, message_bus_backpressure,
         message_bus_partition_band, message_bus_poison_pill,
         shared_kv_lease_expiry_band, shared_kv_write_amplification,
         shared_lock_contention_band, shared_memory_poisoning,
         shared_memory_quota_thrash_band, shared_state_write_skew_band
<1>3. \A a \in CriticCeilings : IsCeiling(a)
  BY CeilingIs
     DEF CriticCeilings, critic_calibration_drift_band, critic_collusion_band,
         critic_disagreement_spread, critic_fanout_skew, critic_latency_skew_band,
         critic_latency_slo, critic_majority_capture_band, critic_quorum_hysteresis,
         critic_score_inflation_band, critic_self_consistency, critic_timeout_cascade,
         critic_token_budget
<1>4. \A a \in PlannerCeilings : IsCeiling(a)
  BY CeilingIs
     DEF PlannerCeilings, orchestrator_cascade_failure, orchestrator_fairness_aging,
         orchestrator_fan_in_stall_band, orchestrator_fanout_budget,
         orchestrator_heartbeat_gap, orchestrator_priority_inversion_band,
         orchestrator_retry_storm_band, orphan_task_sweeper, parallel_tool_collision,
         plan_goal_contradiction_band, plan_step_cycle_detector,
         planner_context_overflow_band, planner_cost_ceiling,
         planner_critic_oscillation_band, planner_depth_cap, planner_goal_churn_band,
         planner_horizon_band, planner_replan_thrash, planner_step_budget_band,
         planner_tool_mismatch_band, planner_tool_mismatch_cascade_band,
         prompt_leak_band, subgraph_cancel_leak, subgraph_deadlock_residual_band,
         subgraph_recursion_cap, subgraph_retry_amplification_band
<1>5. \A a \in ToolCeilings : IsCeiling(a)
  BY CeilingIs
     DEF ToolCeilings, tool_arg_schema_drift, tool_budget_exhaustion_band,
         tool_idempotency_collision_band, tool_permission_drift,
         tool_permission_escalation_band, tool_result_poisoning,
         tool_result_schema_drift_band, tool_result_schema_lag, tool_result_size_bomb,
         tool_result_truncation_band, tool_retry_budget, tool_sandbox_cpu_quota,
         tool_sandbox_disk_quota, tool_sandbox_dns_rebind,
         tool_sandbox_escape_attempt_band, tool_sandbox_memory_quota,
         tool_sandbox_network_exfil, tool_sandbox_syscall_denylist,
         tool_schema_compat_band, tool_side_effect_ledger,
         tool_side_effect_orphan_band, tool_side_effect_replay_band,
         tool_timeout_cascade_band
<1>6. \A a \in BoundedCeilings : IsCeiling(a)
  <2>1. NaN \in Number /\ \A n \in Int : n \in Number
    BY DEF Number
  <2>2. IsCeiling(planner_beam_width)
    BY <2>1, CeilingIs DEF planner_beam_width
  <2>3. IsCeiling(shared_memory_ttl_eviction)
    BY <2>1, CeilingIs DEF shared_memory_ttl_eviction
  <2>4. IsCeiling(tool_result_cardinality)
    BY <2>1, CeilingIs DEF tool_result_cardinality
  <2>5. QED BY <2>2, <2>3, <2>4 DEF BoundedCeilings
<1>7. \A a \in Watchdogs : IsWatchdog(a)
  BY OthersAre DEF Watchdogs, orchestrator_stall_watchdog, bot_idle_timeout,
                   shared_memory_conflict_band
<1>8. \A a \in Budgets : IsBudget(a)
  BY OthersAre DEF Budgets, agent_handoff_depth, bot_spawn_budget, critic_pass_budget,
                   debate_round_limiter, shared_memory_quota, tool_arg_byte_budget
<1>9. QED BY <1>1, <1>2, <1>3, <1>4, <1>5, <1>6, <1>7, <1>8 DEF Ceilings

\* A ceiling grades monotonically, and what is in a band below the last one is
\* a number and has a number for its limit.
LEMMA CeilingGrades ==
  ASSUME NEW a, IsCeiling(a), NEW v \in Number, NEW w \in Number
  PROVE  /\ Severity(a, v) = CeilingSeverity(a, v)
         /\ Severity(a, v) \in 0..2
         /\ Le(v, w) => Severity(a, v) <= Severity(a, w)
         /\ Severity(a, v) = 0 => v # NaN /\ a.soft # NaN
         /\ Severity(a, v) = 1 => v # NaN /\ a.hard # NaN
<1>1. a.kind = "ceiling" /\ a.soft \in Number /\ a.hard \in Number
  BY DEF IsCeiling, BoundedCeiling
<1>2. Severity(a, v) = CeilingSeverity(a, v) /\ Severity(a, w) = CeilingSeverity(a, w)
  BY <1>1 DEF Severity
<1>3. QED BY <1>1, <1>2, NaNIsNoNumber DEF CeilingSeverity, Le, Number

\* A watchdog grades monotonically.
LEMMA WatchdogGrades ==
  ASSUME NEW a, IsWatchdog(a), NEW v \in Number, NEW w \in Number
  PROVE  /\ Severity(a, v) \in 0..2
         /\ Le(v, w) => Severity(a, v) <= Severity(a, w)
<1>1. a.kind = "watchdog" /\ a.soft \in Int /\ a.hard \in Int
  BY DEF IsWatchdog, Watchdog
<1>2. Severity(a, v) = WatchdogSeverity(a, v) /\ Severity(a, w) = WatchdogSeverity(a, w)
  BY <1>1 DEF Severity
<1>3. QED BY <1>1, <1>2, NaNIsNoNumber DEF WatchdogSeverity, Le, Number

\* A budget grades monotonically and has a near_limit band of at least one.
LEMMA BudgetGrades ==
  ASSUME NEW a, IsBudget(a), NEW v \in Int, NEW w \in Int
  PROVE  /\ Severity(a, v) \in 0..2
         /\ Le(v, w) => Severity(a, v) <= Severity(a, w)
         /\ Severity(a, v) = 0 /\ Severity(a, w) = 2 => w > v + 1
<1>1. a.kind = "budget" /\ a.max \in Nat /\ a.divisor \in Nat \ {0}
  BY DEF IsBudget, Budget
<1>2. Severity(a, v) = BudgetSeverity(a, v) /\ Severity(a, w) = BudgetSeverity(a, w)
  BY <1>1 DEF Severity
<1>3. Margin(a) \in Nat /\ Margin(a) >= 1
  <2>1. a.max \div a.divisor \in Int
    BY <1>1
  <2>2. QED BY <2>1 DEF Margin
<1>4. QED BY <1>1, <1>2, <1>3, NaNIsNoNumber DEF BudgetSeverity, Le

\* The invariant: the object is of a family and the answers are its own.
AdvisorInv ==
  /\ obj # None =>
       /\ IsCeiling(obj) \/ IsWatchdog(obj) \/ IsBudget(obj)
       /\ \A x \in answers : /\ x.value \in Number
                             /\ x.value = NaN => obj.type = "float"
                             /\ x.severity = Severity(obj, x.value)
  /\ obj = None => answers = {}

\* Answers come only from the object in use.
LEMMA AdvisorInvariant == LibrarySpec => []AdvisorInv
<1>1. LibraryInit => AdvisorInv
  BY DEF LibraryInit, Init, AdvisorInv
<1>2. ASSUME AdvisorInv, [LibraryNext]_libraryVars
      PROVE  AdvisorInv'
  <2>1. Next \/ UNCHANGED advisorVars
    BY <1>2 DEF LibraryNext, libraryVars, advisorVars, UseAdvisor, UseBoard, UseCalls, UseFan,
                UseLedger, UseTimer, UseToolset, UsePlan, Unmoved
  <2>2. ASSUME NEW a \in Catalog, Construct(a) PROVE AdvisorInv'
    BY <1>2, <2>2, CatalogTyped, AdvisorConstantsOK DEF Construct, Catalog, AdvisorInv
  <2>3. ASSUME NEW a \in Ceilings, NEW limits \in Limits, ConstructWith(a, limits)
        PROVE  AdvisorInv'
    <3>1. limits[1] \in Number /\ limits[2] \in Number
      BY AdvisorConstantsOK
    <3>2. PICK s \in Number, h \in Number, lo \in Number, hi \in Number, t \in {"float", "int"} :
            a = BoundedCeiling(s, h, lo, hi, t)
      BY CatalogTyped DEF IsCeiling
    <3>3. obj' = BoundedCeiling(limits[1], limits[2], lo, hi, t)
      BY <2>3, <3>2 DEF ConstructWith, BoundedCeiling
    <3>4. IsCeiling(obj')
      BY <3>1, <3>3, CeilingIs, Zenon
    <3>5. answers' = {}
      BY <1>2, <2>3 DEF ConstructWith, AdvisorInv
    <3>6. QED BY <3>4, <3>5 DEF AdvisorInv
  <2>4. ASSUME NEW v \in Values, Advise(v) PROVE AdvisorInv'
    BY <1>2, <2>4, AdvisorConstantsOK DEF Advise, AdvisorInv
  <2>5. CASE Drop
    BY <2>5 DEF Drop, AdvisorInv
  <2>6. CASE UNCHANGED advisorVars
    BY <1>2, <2>6 DEF advisorVars, AdvisorInv
  <2>7. ASSUME NEW a \in Budgets, NEW max \in Maxima, ConstructWithMax(a, max)
        PROVE  AdvisorInv'
    <3>1. max \in Nat
      BY <2>7, AdvisorConstantsOK DEF ConstructWithMax
    <3>2. PICK m \in Nat, d \in Nat \ {0} : a = Budget(m, d)
      BY CatalogTyped DEF IsBudget
    <3>3. obj' = Budget(max, d)
      BY <2>7, <3>2 DEF ConstructWithMax, Budget
    <3>4. IsBudget(obj')
      BY <3>1, <3>3, OthersAre
    <3>5. answers' = {}
      BY <1>2, <2>7 DEF ConstructWithMax, AdvisorInv
    <3>6. QED BY <3>4, <3>5 DEF AdvisorInv
  <2>8. QED BY <2>1, <2>2, <2>3, <2>4, <2>5, <2>6, <2>7 DEF Next
<1>3. QED BY <1>1, <1>2, PTL DEF LibrarySpec

\* For every measurement and every limits a constructor accepts, of every
\* advisor of the catalog: the band never falls as the measurement grows.
THEOREM SeverityMonotone == LibrarySpec => []SeverityNeverFalls
<1>1. ASSUME AdvisorInv, NEW x \in answers, NEW y \in answers, Le(x.value, y.value)
      PROVE  x.severity <= y.severity
  <2>1. obj # None
    BY <1>1 DEF AdvisorInv
  <2>2. /\ x.value \in Number /\ x.severity = Severity(obj, x.value)
        /\ y.value \in Number /\ y.severity = Severity(obj, y.value)
    BY <1>1, <2>1 DEF AdvisorInv
  <2>3. x.value \in Int /\ y.value \in Int
    BY <1>1, <2>2 DEF Le, Number
  <2>4. IsCeiling(obj) \/ IsWatchdog(obj) \/ IsBudget(obj)
    BY <1>1, <2>1 DEF AdvisorInv
  <2>5. QED BY <1>1, <2>2, <2>3, <2>4, CeilingGrades, WatchdogGrades, BudgetGrades
<1>2. AdvisorInv => SeverityNeverFalls
  BY <1>1 DEF SeverityNeverFalls
<1>3. QED BY <1>2, AdvisorInvariant, PTL

\* The advisors that compare with <= answer a measurement that is NaN with
\* their last band, never answer ok when the soft limit is NaN, and answer
\* nothing between ok and the last band when the hard limit is NaN.
THEOREM CeilingsFailClosed == LibrarySpec => []FailsClosed
<1>1. ASSUME AdvisorInv, obj # None, obj.kind = "ceiling",
             NEW x \in answers
      PROVE  /\ x.severity = 0 => x.value # NaN /\ obj.soft # NaN
             /\ x.severity = 1 => x.value # NaN /\ obj.hard # NaN
  <2>1. IsCeiling(obj)
    BY <1>1 DEF AdvisorInv, IsWatchdog, IsBudget, Watchdog, Budget
  <2>2. x.value \in Number /\ x.severity = Severity(obj, x.value)
    BY <1>1 DEF AdvisorInv
  <2>3. QED BY <1>1, <2>1, <2>2, CeilingGrades
<1>2. AdvisorInv => FailsClosed
  BY <1>1 DEF FailsClosed
<1>3. QED BY <1>2, AdvisorInvariant, PTL

\* The budget limiters never go from ok to exhausted with one unit.
THEOREM BudgetsWarn == LibrarySpec => []WarnedBeforeExhausted
<1>1. ASSUME AdvisorInv, obj # None, obj.kind = "budget",
             NEW x \in answers, NEW y \in answers, x.severity = 0, y.severity = 2
      PROVE  y.value > x.value + 1
  <2>1. IsBudget(obj)
    BY <1>1 DEF AdvisorInv, IsWatchdog, IsCeiling, Watchdog, BoundedCeiling
  <2>2. obj.type # "float"
    BY <2>1 DEF IsBudget, Budget
  <2>3. /\ x.value \in Int /\ x.severity = Severity(obj, x.value)
        /\ y.value \in Int /\ y.severity = Severity(obj, y.value)
    BY <1>1, <2>2 DEF AdvisorInv, Number
  <2>4. QED BY <1>1, <2>1, <2>3, BudgetGrades
<1>2. AdvisorInv => WarnedBeforeExhausted
  BY <1>1 DEF WarnedBeforeExhausted
<1>3. QED BY <1>2, AdvisorInvariant, PTL

-----------------------------------------------------------------------------
(* Blackboard *)

\* The manager's record of a lease and the grant its holder relies on agree:
\* at most one bot relies on a key, and the manager knows which and how long.
GrantIsLease ==
  \A b \in Bots, k \in BoardKeys :
    Board!Holds(b, k) => /\ objects.leases[k] # None
                         /\ objects.leases[k].holder = b
                         /\ objects.leases[k].until = trace[<<b, k>>].until

BoardIInv == Board!TypeOK /\ GrantIsLease /\ Board!NoSilentOverwrite

LEMMA BoardInitial ==
  ASSUME Board!BoardConstantsOK, Board!Init
  PROVE  BoardIInv
<1>1. Board!TypeOK
  BY DEF Board!BoardConstantsOK, Board!Init, Board!TypeOK
<1>2. GrantIsLease /\ Board!NoSilentOverwrite
  BY <1>1 DEF Board!Init, GrantIsLease, Board!NoSilentOverwrite, Board!Holds
<1> QED BY <1>1, <1>2 DEF BoardIInv

\* put and delete by a bot that was told it may write: either it still holds
\* the key, and nobody else does, or whoever holds it knows of a late writer.
LEMMA ChangeKeeps ==
  ASSUME BoardIInv, NEW b \in Bots, NEW k \in BoardKeys, NEW e \in Board!Entries \cup {None},
         objects' = [objects EXCEPT !.entries[k] = e],
         trace' = Board!Changed(b, k, e), setup' = setup, progress' = progress
  PROVE  BoardIInv'
<1>1. /\ objects'.leases = objects.leases
      /\ \A x \in BoardKeys : objects'.entries[x] = IF x = k THEN e ELSE objects.entries[x]
  BY DEF BoardIInv, Board!TypeOK
<1>2. ASSUME NEW c \in Bots, NEW x \in BoardKeys
      PROVE  /\ trace'[<<c, x>>] \in [entry : Board!Entries \cup {None}, until : Nat, late : BOOLEAN]
             /\ trace'[<<c, x>>].until = trace[<<c, x>>].until
             /\ trace'[<<c, x>>].entry = IF c = b /\ x = k THEN e ELSE trace[<<c, x>>].entry
             /\ ~trace'[<<c, x>>].late =>
                  \/ c = b /\ x = k
                  \/ ~trace[<<c, x>>].late
                     /\ ~(x = k /\ Board!Holds(c, k) /\ ~Board!Holds(b, k))
  <2>1. trace[<<c, x>>] \in [entry : Board!Entries \cup {None}, until : Nat, late : BOOLEAN]
    BY DEF BoardIInv, Board!TypeOK
  <2>2. trace'[<<c, x>>] =
          IF <<c, x>> = <<b, k>> THEN [trace[<<c, x>>] EXCEPT !.entry = e, !.late = FALSE]
          ELSE IF x = k /\ Board!Holds(c, k) /\ ~Board!Holds(b, k)
               THEN [trace[<<c, x>>] EXCEPT !.late = TRUE]
          ELSE trace[<<c, x>>]
    BY DEF BoardIInv, Board!TypeOK, Board!Changed
  <2> QED BY <2>1, <2>2
<1>3. Board!TypeOK'
  <2>0. objects' \in [entries : [BoardKeys -> Board!Entries \cup {None}],
                     leases : [BoardKeys -> Board!Leases \cup {None}]]
    BY DEF BoardIInv, Board!TypeOK
  <2>1. trace' \in [Bots \X BoardKeys -> [entry : Board!Entries \cup {None}, until : Nat, late : BOOLEAN]]
    <3>1. DOMAIN trace' = Bots \X BoardKeys /\ trace' = [x \in Bots \X BoardKeys |-> trace'[x]]
      BY DEF BoardIInv, Board!TypeOK, Board!Changed
    <3>2. ASSUME NEW x \in Bots \X BoardKeys
          PROVE  trace'[x] \in [entry : Board!Entries \cup {None}, until : Nat, late : BOOLEAN]
      <4>1. PICK c \in Bots, y \in BoardKeys : x = <<c, y>>
        OBVIOUS
      <4> QED BY <4>1, <1>2
    <3> QED BY <3>1, <3>2
  <2> QED BY <2>0, <2>1 DEF BoardIInv, Board!TypeOK
<1>4. GrantIsLease'
  <2>1. \A c \in Bots, x \in BoardKeys : trace'[<<c, x>>].until = trace[<<c, x>>].until
    BY <1>2
  <2> QED BY <1>1, <2>1 DEF BoardIInv, GrantIsLease, Board!Holds
<1>5. Board!NoSilentOverwrite'
  <2> SUFFICES ASSUME setup = "hard", NEW c \in Bots, NEW x \in BoardKeys, Board!Holds(c, x),
                      trace'[<<c, x>>].entry # None, ~trace'[<<c, x>>].late
               PROVE  objects'.entries[x] = trace'[<<c, x>>].entry
    BY <1>2 DEF Board!NoSilentOverwrite, Board!Holds
  <2>1. CASE c = b /\ x = k
    BY <2>1, <1>1, <1>2
  <2>2. CASE ~(c = b /\ x = k)
    <3>1. /\ trace'[<<c, x>>].entry = trace[<<c, x>>].entry /\ ~trace[<<c, x>>].late
          /\ ~(x = k /\ Board!Holds(c, k) /\ ~Board!Holds(b, k))
      BY <2>2, <1>2
    <3>2. objects.entries[x] = trace[<<c, x>>].entry
      BY <3>1 DEF BoardIInv, Board!NoSilentOverwrite
    <3>3. x # k
      BY <3>1, <2>2 DEF BoardIInv, GrantIsLease
    <3> QED BY <3>1, <3>2, <3>3, <1>1
  <2> QED BY <2>1, <2>2
<1> QED BY <1>3, <1>4, <1>5 DEF BoardIInv

LEMMA PutKeeps ==
  ASSUME Board!BoardConstantsOK, BoardIInv, NEW b \in Bots, NEW k \in BoardKeys,
         NEW v \in BoardValues, Board!Put(b, k, v)
  PROVE  BoardIInv'
<1>1. Board!Revision(k) \in Nat \ {0}
  BY DEF BoardIInv, Board!TypeOK, Board!Revision, Board!Entries
<1>2. Board!Entry(v, b, Board!Revision(k)) \in Board!Entries
  BY <1>1 DEF Board!Entry, Board!Entries
<1> QED BY <1>2, ChangeKeeps DEF Board!Put

LEMMA DeleteKeeps ==
  ASSUME BoardIInv, NEW b \in Bots, NEW k \in BoardKeys, Board!Delete(b, k)
  PROVE  BoardIInv'
BY ChangeKeeps DEF Board!Delete

LEMMA GetKeeps ==
  ASSUME BoardIInv, NEW b \in Bots, NEW k \in BoardKeys, Board!Get(b, k)
  PROVE  BoardIInv'
<1>1. Board!TypeOK'
  <2>1. objects.entries[k] \in Board!Entries \cup {None}
    BY DEF BoardIInv, Board!TypeOK
  <2>2. trace[<<b, k>>] \in [entry : Board!Entries \cup {None}, until : Nat, late : BOOLEAN]
    BY DEF BoardIInv, Board!TypeOK
  <2>3. /\ trace' = [trace EXCEPT ![<<b, k>>] =
                       [trace[<<b, k>>] EXCEPT !.entry = objects.entries[k], !.late = FALSE]]
        /\ setup' = setup /\ objects' = objects /\ progress' = progress
    BY DEF BoardIInv, Board!TypeOK, Board!Get
  <2>4. trace' \in [Bots \X BoardKeys -> [entry : Board!Entries \cup {None}, until : Nat, late : BOOLEAN]]
    BY <2>1, <2>2, <2>3 DEF BoardIInv, Board!TypeOK
  <2> QED BY <2>3, <2>4 DEF BoardIInv, Board!TypeOK
<1>2. /\ objects' = objects /\ setup' = setup /\ progress' = progress
      /\ \A x \in Bots \X BoardKeys :
           /\ trace'[x].until = trace[x].until
           /\ trace'[x].entry = IF x = <<b, k>> THEN objects.entries[k] ELSE trace[x].entry
  BY DEF BoardIInv, Board!TypeOK, Board!Get
<1>3. \A x \in Bots \X BoardKeys : ~trace'[x].late => x = <<b, k>> \/ ~trace[x].late
  BY DEF BoardIInv, Board!TypeOK, Board!Get
<1>4. GrantIsLease'
  BY <1>2 DEF BoardIInv, GrantIsLease, Board!Holds
<1>5. Board!NoSilentOverwrite'
  BY <1>2, <1>3 DEF BoardIInv, Board!NoSilentOverwrite, Board!Holds
<1> QED BY <1>1, <1>4, <1>5 DEF BoardIInv

\* acquire: a grant needs that no other bot relies on the key.
LEMMA GrantKeeps ==
  ASSUME Board!BoardConstantsOK, BoardIInv, NEW b \in Bots, NEW k \in BoardKeys,
         Board!Grant(b, k), setup' = setup, progress' = progress,
         \A c \in Bots : Board!Holds(c, k) => c = b
  PROVE  BoardIInv'
<1>1. Board!TypeOK'
  <2>1. progress + LeaseSeconds \in Nat /\ LeaseSeconds \in Nat
    BY DEF BoardIInv, Board!TypeOK, Board!BoardConstantsOK
  <2>2. objects' \in [entries : [BoardKeys -> Board!Entries \cup {None}],
                     leases : [BoardKeys -> Board!Leases \cup {None}]]
    BY <2>1 DEF BoardIInv, Board!TypeOK, Board!Grant, Board!Leases
  <2>3. trace[<<b, k>>] \in [entry : Board!Entries \cup {None}, until : Nat, late : BOOLEAN]
    BY DEF BoardIInv, Board!TypeOK
  <2>4. trace' \in [Bots \X BoardKeys -> [entry : Board!Entries \cup {None}, until : Nat, late : BOOLEAN]]
    <3>1. [entry |-> IF Board!Holds(b, k) THEN trace[<<b, k>>].entry ELSE None,
           until |-> progress + LeaseSeconds,
           late |-> Board!Holds(b, k) /\ trace[<<b, k>>].late]
            \in [entry : Board!Entries \cup {None}, until : Nat, late : BOOLEAN]
      BY <2>1, <2>3
    <3> QED BY <3>1 DEF BoardIInv, Board!TypeOK, Board!Grant
  <2> QED BY <2>2, <2>4 DEF BoardIInv, Board!TypeOK
<1>2. /\ objects'.entries = objects.entries
      /\ \A x \in BoardKeys : objects'.leases[x] =
           IF x = k THEN [holder |-> b, until |-> progress + LeaseSeconds]
           ELSE objects.leases[x]
      /\ \A x \in Bots \X BoardKeys :
           /\ trace'[x].until = IF x = <<b, k>> THEN progress + LeaseSeconds ELSE trace[x].until
           /\ trace'[x].entry = IF x = <<b, k>>
                                 THEN IF Board!Holds(b, k) THEN trace[x].entry ELSE None
                                 ELSE trace[x].entry
           /\ trace'[x].late = IF x = <<b, k>> THEN Board!Holds(b, k) /\ trace[x].late
                                ELSE trace[x].late
  BY DEF BoardIInv, Board!TypeOK, Board!Grant
<1>3. [holder |-> b, until |-> progress + LeaseSeconds] # None
  BY DEF BoardIInv, Board!TypeOK, Board!Leases, Board!BoardConstantsOK
<1>4. GrantIsLease'
  BY <1>2, <1>3 DEF BoardIInv, GrantIsLease, Board!Holds
<1>5. Board!NoSilentOverwrite'
  BY <1>2 DEF BoardIInv, Board!NoSilentOverwrite, Board!Holds
<1> QED BY <1>1, <1>4, <1>5 DEF BoardIInv

LEMMA LeaseKeeps ==
  ASSUME Board!BoardConstantsOK, BoardIInv, NEW b \in Bots, NEW k \in BoardKeys,
         Board!AcquireFree(b, k) \/ Board!Refresh(b, k)
  PROVE  BoardIInv'
<1>1. Board!Grant(b, k) /\ setup' = setup /\ progress' = progress
  BY DEF Board!AcquireFree, Board!Refresh
<1>2. ASSUME NEW c \in Bots, Board!Holds(c, k)
      PROVE  c = b
  BY <1>2 DEF BoardIInv, Board!TypeOK, GrantIsLease, Board!Holds, Board!AcquireFree, Board!Refresh,
             Board!Expired, Board!Leases
<1> QED BY <1>1, <1>2, GrantKeeps

\* A refusal and a release: the bot relies on no grant any more.
LEMMA GiveBackKeeps ==
  ASSUME BoardIInv, NEW b \in Bots, NEW k \in BoardKeys,
         Board!Conflict(b, k) \/ Board!Release(b, k)
  PROVE  BoardIInv'
<1>1. /\ trace' = [trace EXCEPT ![<<b, k>>] = [trace[<<b, k>>] EXCEPT !.until = 0]]
      /\ setup' = setup /\ progress' = progress
  BY DEF BoardIInv, Board!TypeOK, Board!Conflict, Board!Release
<1>2. Board!TypeOK'
  <2>1. objects' \in [entries : [BoardKeys -> Board!Entries \cup {None}],
                     leases : [BoardKeys -> Board!Leases \cup {None}]]
    BY DEF BoardIInv, Board!TypeOK, Board!Conflict, Board!Release
  <2>2. trace[<<b, k>>] \in [entry : Board!Entries \cup {None}, until : Nat, late : BOOLEAN]
    BY DEF BoardIInv, Board!TypeOK
  <2>3. [trace[<<b, k>>] EXCEPT !.until = 0]
          \in [entry : Board!Entries \cup {None}, until : Nat, late : BOOLEAN]
    BY <2>2
  <2>4. trace' \in [Bots \X BoardKeys -> [entry : Board!Entries \cup {None}, until : Nat, late : BOOLEAN]]
    BY <1>1, <2>3 DEF BoardIInv, Board!TypeOK
  <2> QED BY <2>1, <1>1, <2>4 DEF BoardIInv, Board!TypeOK
<1>3. /\ setup' = setup /\ progress' = progress
      /\ \A x \in Bots \X BoardKeys :
           /\ trace'[x].until = IF x = <<b, k>> THEN 0 ELSE trace[x].until
           /\ trace'[x].entry = trace[x].entry
  BY <1>1 DEF BoardIInv, Board!TypeOK
<1>4. /\ objects'.entries = objects.entries
      /\ \A x \in BoardKeys :
           objects'.leases[x] # objects.leases[x] => x = k /\ objects.leases[x].holder = b
  <2>1. CASE objects' = objects
    BY <2>1
  <2>2. CASE /\ objects' = [objects EXCEPT !.leases[k] = None]
             /\ objects.leases[k].holder = b
    BY <2>2 DEF BoardIInv, Board!TypeOK
  <2> QED BY <2>1, <2>2 DEF Board!Conflict, Board!Release, Board!Releasable
<1>5. GrantIsLease'
  <2>1. \A c \in Bots, x \in BoardKeys :
          trace'[<<c, x>>].until = IF c = b /\ x = k THEN 0 ELSE trace[<<c, x>>].until
    BY <1>3
  <2> QED BY <1>3, <1>4, <2>1 DEF BoardIInv, Board!TypeOK, GrantIsLease, Board!Holds
<1>6. \A x \in Bots \X BoardKeys : ~trace'[x].late => ~trace[x].late
  BY <1>1 DEF BoardIInv, Board!TypeOK
<1>7. Board!NoSilentOverwrite'
  BY <1>3, <1>4, <1>6 DEF BoardIInv, Board!TypeOK, Board!NoSilentOverwrite, Board!Holds
<1> QED BY <1>2, <1>5, <1>7 DEF BoardIInv

LEMMA TickKeeps ==
  ASSUME BoardIInv, Board!Tick
  PROVE  BoardIInv'
BY DEF BoardIInv, Board!TypeOK, GrantIsLease, Board!NoSilentOverwrite, Board!Holds, Board!Tick

LEMMA BoardStutter ==
  ASSUME BoardIInv, UNCHANGED Board!boardVars
  PROVE  BoardIInv'
BY DEF BoardIInv, Board!TypeOK, GrantIsLease, Board!NoSilentOverwrite, Board!Holds, Board!boardVars

LEMMA BoardNext ==
  ASSUME Board!BoardConstantsOK, BoardIInv, [Board!Next]_Board!boardVars
  PROVE  BoardIInv'
<1>1. CASE UNCHANGED Board!boardVars
  BY <1>1, BoardStutter
<1>2. CASE Board!Tick
  BY <1>2, TickKeeps
<1>3. ASSUME NEW b \in Bots, NEW k \in BoardKeys,
             \/ \E v \in BoardValues : Board!Put(b, k, v)
             \/ Board!Get(b, k) \/ Board!Delete(b, k)
             \/ Board!AcquireFree(b, k) \/ Board!Refresh(b, k) \/ Board!Conflict(b, k) \/ Board!Release(b, k)
      PROVE  BoardIInv'
  BY <1>3, PutKeeps, GetKeeps, DeleteKeeps, LeaseKeeps, GiveBackKeeps
<1> QED BY <1>1, <1>2, <1>3 DEF Board!Next

BoardInv == part = "blackboard" => BoardIInv

LEMMA BoardInvariance == LibrarySpec => []BoardInv
<1>1. LibraryInit => BoardInv
  BY PartInits, BoardInitial, LibraryConstants DEF BoardInv
<1>2. ASSUME BoardInv, [LibraryNext]_libraryVars
      PROVE  BoardInv'
  <2>1. CASE part = "blackboard"
    <3>1. [Board!Next]_Board!boardVars
      BY <1>2, <2>1, PartSteps DEF others, Board!boardVars
    <3> QED BY <1>2, <2>1, <3>1, LibraryConstants, BoardNext DEF BoardInv
  <2>2. CASE part # "blackboard"
    BY <1>2, <2>2, PartSteps DEF BoardInv
  <2> QED BY <2>1, <2>2
<1> QED BY <1>1, <1>2, PTL DEF LibrarySpec

\* SharedBlackboard and SharedBlackboardWriteLease keep their types.
THEOREM BoardTypes == LibrarySpec => [](part = "blackboard" => Board!TypeOK)
<1>1. BoardInv => (part = "blackboard" => Board!TypeOK)
  BY DEF BoardInv, BoardIInv
<1> QED BY <1>1, BoardInvariance, PTL

\* SharedBlackboardWriteLease: what the holder of a running lease read is what
\* is on the board, with any number of bots and keys, unless a bot whose grant
\* ran out wrote the key.
THEOREM LeaseProtects == LibrarySpec => []NoSilentOverwrite
<1>1. BoardInv => NoSilentOverwrite
  BY DEF BoardInv, BoardIInv, NoSilentOverwrite
<1> QED BY <1>1, BoardInvariance, PTL

\* SharedBlackboardWriteLease.acquire: two bots never rely on one key at a time.
THEOREM OneHolder ==
  LibrarySpec =>
    [](part = "blackboard" =>
         \A b, c \in Bots, k \in BoardKeys : Board!Holds(b, k) /\ Board!Holds(c, k) => b = c)
<1>1. ASSUME BoardIInv, NEW b \in Bots, NEW c \in Bots, NEW k \in BoardKeys,
             Board!Holds(b, k), Board!Holds(c, k)
      PROVE  b = c
  <2>1. objects.leases[k].holder = b
    BY <1>1 DEF BoardIInv, GrantIsLease
  <2>2. objects.leases[k].holder = c
    BY <1>1 DEF BoardIInv, GrantIsLease
  <2> QED BY <2>1, <2>2
<1>2. BoardInv => (part = "blackboard" =>
                     \A b, c \in Bots, k \in BoardKeys : Board!Holds(b, k) /\ Board!Holds(c, k) => b = c)
  BY <1>1 DEF BoardInv
<1> QED BY <1>2, BoardInvariance, PTL

-----------------------------------------------------------------------------
(* Tool calls: the circuit breaker *)

BreakerStates == {"closed", "open", "half_open"}

\* The fields of the breaker have their types; what the other guards keep
\* beside them is left open.
BreakerShape(o) ==
  o \in [state : BreakerStates, failures : Nat, openedAt : Nat \cup {None},
         hits : {o.hits}, cached : {o.cached}, letters : {o.letters}]

CallHistories == [failedAt : Seq(Nat), startedAt : Seq(Nat)]

BreakerTypes ==
  /\ BreakerShape(objects)
  /\ setup \in Nat
  /\ trace \in CallHistories

\* The breaker counts the failures since the last success, and once it has
\* opened it remembers the last of them; a breaker that is half open has seen
\* its cooldown pass.
CountsFailures ==
  LET f == trace.failedAt IN
  /\ objects.failures = Len(f)
  /\ objects.state = "closed" => Len(f) < Threshold
  /\ objects.state # "closed" => Len(f) >= Threshold /\ objects.openedAt = f[Len(f)]
  /\ objects.state = "half_open" => setup - f[Len(f)] >= Cooldown

CallsIInv == BreakerTypes /\ CountsFailures

\* Two records agree in the fields of the breaker.
SameBreaker(o, p) == o.state = p.state /\ o.failures = p.failures /\ o.openedAt = p.openedAt

-----------------------------------------------------------------------------
(* Tool calls: updates of the guards' fields *)

\* What the other guards change leaves the breaker.
LEMMA OtherFields ==
  ASSUME NEW o, BreakerShape(o), NEW x, NEW c
  PROVE  /\ BreakerShape([o EXCEPT !.hits = x]) /\ SameBreaker([o EXCEPT !.hits = x], o)
         /\ BreakerShape([o EXCEPT !.cached = x]) /\ SameBreaker([o EXCEPT !.cached = x], o)
         /\ BreakerShape([o EXCEPT !.letters[c] = x])
         /\ SameBreaker([o EXCEPT !.letters[c] = x], o)
<1>1. BreakerShape([o EXCEPT !.hits = x]) /\ SameBreaker([o EXCEPT !.hits = x], o)
  BY DEF BreakerShape, SameBreaker
<1>2. BreakerShape([o EXCEPT !.cached = x]) /\ SameBreaker([o EXCEPT !.cached = x], o)
  BY DEF BreakerShape, SameBreaker
<1>3. /\ BreakerShape([o EXCEPT !.letters[c] = x])
      /\ SameBreaker([o EXCEPT !.letters[c] = x], o)
  BY DEF BreakerShape, SameBreaker
<1> QED BY <1>1, <1>2, <1>3

\* What the history records of a start, a failure and a success.
LEMMA HistoryFields ==
  ASSUME NEW s \in CallHistories, NEW q \in Seq(Nat)
  PROVE  /\ [s EXCEPT !.startedAt = q] \in CallHistories
         /\ [s EXCEPT !.startedAt = q].failedAt = s.failedAt
         /\ [s EXCEPT !.failedAt = q] \in CallHistories
         /\ [s EXCEPT !.failedAt = q].failedAt = q
BY DEF CallHistories

LEMMA HistoryTypes ==
  ASSUME NEW s \in CallHistories, NEW n \in Nat
  PROVE  s.failedAt \in Seq(Nat) /\ Append(s.failedAt, n) \in Seq(Nat)
           /\ Append(s.startedAt, n) \in Seq(Nat)
BY DEF CallHistories

LEMMA StateField ==
  ASSUME NEW o, BreakerShape(o), NEW s \in BreakerStates
  PROVE  LET r == [o EXCEPT !.state = s] IN
         BreakerShape(r) /\ r.state = s /\ r.failures = o.failures /\ r.openedAt = o.openedAt
BY DEF BreakerShape

LEMMA FailuresField ==
  ASSUME NEW o, BreakerShape(o), NEW n \in Nat
  PROVE  LET r == [o EXCEPT !.failures = n] IN
         BreakerShape(r) /\ r.state = o.state /\ r.failures = n /\ r.openedAt = o.openedAt
BY DEF BreakerShape

LEMMA ShapeTypes ==
  ASSUME NEW o, BreakerShape(o)
  PROVE  o.state \in BreakerStates /\ o.failures \in Nat /\ o.openedAt \in Nat \cup {None}
BY DEF BreakerShape

-----------------------------------------------------------------------------
(* Tool calls: the steps of the breaker *)

LEMMA CallsInitially ==
  ASSUME Calls!CallConstantsOK, Calls!Init
  PROVE  CallsIInv
BY DEF Calls!CallConstantsOK, Calls!Init, CallsIInv, BreakerTypes, BreakerShape, CallHistories,
       BreakerStates, CountsFailures

\* The lazy transition to half open changes the state alone.
LEMMA HalfOpenedFields ==
  ASSUME Calls!CallConstantsOK, CallsIInv
  PROVE  LET o == Calls!HalfOpened(objects) IN
         /\ BreakerShape(o)
         /\ o.failures = objects.failures /\ o.openedAt = objects.openedAt
         /\ o.state = IF objects.state = "open" /\ setup - trace.failedAt[Len(trace.failedAt)] >= Cooldown
                        THEN "half_open" ELSE objects.state
<1>1. BreakerShape(objects)
  BY DEF CallsIInv, BreakerTypes
<1>2. objects.state = "open" => objects.openedAt = trace.failedAt[Len(trace.failedAt)]
  BY DEF CallsIInv, CountsFailures
<1>3. "half_open" \in BreakerStates
  BY DEF BreakerStates
<1> QED BY <1>1, <1>2, <1>3, StateField DEF Calls!HalfOpened

\* A step that leaves the history and at most lets the breaker half open.
LEMMA HalfOpenKeeps ==
  ASSUME Calls!CallConstantsOK, CallsIInv, BreakerShape(objects'), UNCHANGED <<setup, trace>>,
         SameBreaker(objects', objects) \/ SameBreaker(objects', Calls!HalfOpened(objects))
  PROVE  CallsIInv'
<1>1. BreakerTypes'
  BY DEF CallsIInv, BreakerTypes
<1>2. CASE SameBreaker(objects', objects)
  BY <1>1, <1>2 DEF CallsIInv, CountsFailures, SameBreaker
<1>3. CASE SameBreaker(objects', Calls!HalfOpened(objects))
  BY <1>1, <1>3, HalfOpenedFields DEF CallsIInv, CountsFailures, SameBreaker
<1> QED BY <1>2, <1>3

\* An attempt that raised leaves the breaker as the guard that raised left it.
LEMMA AttemptFailedFields ==
  ASSUME NEW c, NEW o, BreakerShape(o), Calls!AttemptFailed(c, o)
  PROVE  BreakerShape(objects') /\ SameBreaker(objects', o)
<1>1. objects' = o \/ objects' = [o EXCEPT !.letters[c] = "pending"]
  BY DEF Calls!AttemptFailed
<1>2. BreakerShape([o EXCEPT !.letters[c] = "pending"])
        /\ SameBreaker([o EXCEPT !.letters[c] = "pending"], o)
  BY OtherFields
<1>3. SameBreaker(o, o)
  BY DEF SameBreaker
<1> QED BY <1>1, <1>2, <1>3

LEMMA AllowKeeps ==
  ASSUME Calls!CallConstantsOK, CallsIInv, NEW c \in Callers, Calls!Allow(c)
  PROVE  CallsIInv'
<1>1. /\ UNCHANGED <<setup, trace>>
      /\ objects' = Calls!HalfOpened(objects) \/ Calls!AttemptFailed(c, Calls!HalfOpened(objects))
  BY DEF Calls!Allow
<1>2. BreakerShape(Calls!HalfOpened(objects))
  BY HalfOpenedFields
<1>3. BreakerShape(objects') /\ SameBreaker(objects', Calls!HalfOpened(objects))
  BY <1>1, <1>2, AttemptFailedFields DEF SameBreaker
<1> QED BY <1>1, <1>3, HalfOpenKeeps

\* execute raises before it calls, or starts the tool; both leave the breaker.
LEMMA ExecuteKeeps ==
  ASSUME Calls!CallConstantsOK, CallsIInv, NEW c \in Callers, Calls!Execute(c)
  PROVE  CallsIInv'
<1> DEFINE o == Calls!Pruned(objects)
<1>1. BreakerShape(o) /\ SameBreaker(o, objects)
  BY OtherFields DEF CallsIInv, BreakerTypes, Calls!Pruned
<1>2. /\ setup' = setup
      /\ \/ /\ objects' = [o EXCEPT !.hits = Append(o.hits, setup)]
            /\ trace' = [trace EXCEPT !.startedAt = Append(trace.startedAt, setup)]
         \/ Calls!AttemptFailed(c, o) /\ trace' = trace
  BY DEF Calls!Execute
<1> HIDE DEF o
<1>3. BreakerShape(objects') /\ SameBreaker(objects', o)
  <2>1. CASE objects' = [o EXCEPT !.hits = Append(o.hits, setup)]
    <3>1. BreakerShape([o EXCEPT !.hits = Append(o.hits, setup)])
            /\ SameBreaker([o EXCEPT !.hits = Append(o.hits, setup)], o)
      BY <1>1, OtherFields
    <3> QED BY <2>1, <3>1
  <2>2. CASE Calls!AttemptFailed(c, o)
    BY <1>1, <2>2, AttemptFailedFields
  <2> QED BY <1>2, <2>1, <2>2
<1>4. /\ trace' \in CallHistories
      /\ trace'.failedAt = trace.failedAt
  <2>1. trace \in CallHistories /\ setup \in Nat
    BY DEF CallsIInv, BreakerTypes
  <2>2. Append(trace.startedAt, setup) \in Seq(Nat)
    BY <2>1, HistoryTypes
  <2>3. /\ [trace EXCEPT !.startedAt = Append(trace.startedAt, setup)] \in CallHistories
        /\ [trace EXCEPT !.startedAt = Append(trace.startedAt, setup)].failedAt = trace.failedAt
    BY <2>1, <2>2, HistoryFields
  <2> QED BY <1>2, <2>1, <2>3
<1>5. BreakerTypes'
  BY <1>2, <1>3, <1>4 DEF CallsIInv, BreakerTypes
<1>6. CountsFailures'
  BY <1>1, <1>2, <1>3, <1>4 DEF CallsIInv, CountsFailures, SameBreaker
<1> QED BY <1>5, <1>6 DEF CallsIInv

LEMMA SucceedKeeps ==
  ASSUME Calls!CallConstantsOK, CallsIInv, NEW c \in Callers, Calls!Succeed(c)
  PROVE  CallsIInv'
<1> DEFINE o == Calls!RecordSuccess(objects)
<1>1. /\ objects' = [o EXCEPT !.cached = TRUE]
      /\ trace' = [trace EXCEPT !.failedAt = <<>>] /\ setup' = setup
  BY DEF Calls!Succeed
<1>2. BreakerShape(o) /\ o.state = "closed" /\ o.failures = 0
  <2>1. BreakerShape(objects) /\ "closed" \in BreakerStates
    BY DEF CallsIInv, BreakerTypes, BreakerStates
  <2> QED BY <2>1 DEF Calls!RecordSuccess, BreakerShape
<1> HIDE DEF o
<1>3. BreakerShape(objects') /\ objects'.state = "closed" /\ objects'.failures = 0
  BY <1>1, <1>2, OtherFields DEF SameBreaker
<1>4. /\ trace' \in CallHistories
      /\ trace'.failedAt = <<>>
  <2>1. trace \in CallHistories /\ <<>> \in Seq(Nat)
    BY DEF CallsIInv, BreakerTypes
  <2> QED BY <1>1, <2>1, HistoryFields
<1>5. BreakerTypes'
  BY <1>1, <1>3, <1>4 DEF CallsIInv, BreakerTypes
<1>6. CountsFailures'
  BY <1>3, <1>4 DEF CountsFailures, Calls!CallConstantsOK
<1> QED BY <1>5, <1>6 DEF CallsIInv

\* A failure that is reported: it is counted, and it is the last one.
LEMMA FailKeeps ==
  ASSUME Calls!CallConstantsOK, CallsIInv, NEW c \in Callers, Calls!Fail(c)
  PROVE  CallsIInv'
<1> DEFINE o == Calls!RecordFailure(objects)
           f == trace.failedAt
<1>1. Calls!AttemptFailed(c, o) /\ trace' = [trace EXCEPT !.failedAt = Append(f, setup)] /\ setup' = setup
  BY DEF Calls!Fail
<1>2. /\ BreakerShape(o)
      /\ o.failures = objects.failures + 1
      /\ IF objects.state = "half_open" \/ objects.failures + 1 >= Threshold
           THEN o.state = "open" /\ o.openedAt = setup
           ELSE o.state = objects.state /\ o.openedAt = objects.openedAt
  <2>1. BreakerShape(objects) /\ setup \in Nat /\ "open" \in BreakerStates
    BY DEF CallsIInv, BreakerTypes, BreakerStates
  <2>2. objects.failures + 1 \in Nat
    BY <2>1, ShapeTypes
  <2>3. CASE objects.state = "half_open" \/ objects.failures + 1 >= Threshold
    <3>1. o = [objects EXCEPT !.failures = objects.failures + 1, !.state = "open", !.openedAt = setup]
      BY <2>3, Zenon DEF Calls!RecordFailure, Calls!OpenedAt
    <3>2. BreakerShape(o) /\ o.state = "open" /\ o.failures = objects.failures + 1 /\ o.openedAt = setup
      <4> HIDE DEF o
      <4>1. setup \in Nat \cup {None}
        BY <2>1
      <4> QED BY <2>1, <2>2, <3>1, <4>1 DEF BreakerShape
    <3> QED BY <2>3, <3>2
  <2>4. CASE ~(objects.state = "half_open" \/ objects.failures + 1 >= Threshold)
    <3>1. o = [objects EXCEPT !.failures = objects.failures + 1]
      BY <2>4 DEF Calls!RecordFailure
    <3>2. /\ BreakerShape(o) /\ o.failures = objects.failures + 1
          /\ o.state = objects.state /\ o.openedAt = objects.openedAt
      BY <2>1, <2>2, <3>1, FailuresField
    <3> QED BY <2>4, <3>2
  <2> QED BY <2>3, <2>4
<1> HIDE DEF o
<1>3. BreakerShape(objects') /\ SameBreaker(objects', o)
  BY <1>1, <1>2, AttemptFailedFields
<1>4. /\ f \in Seq(Nat) /\ setup \in Nat /\ trace'.failedAt = Append(f, setup)
      /\ trace' \in CallHistories
  <2>1. trace \in CallHistories /\ setup \in Nat
    BY DEF CallsIInv, BreakerTypes
  <2>2. f \in Seq(Nat) /\ Append(f, setup) \in Seq(Nat)
    BY <2>1, HistoryTypes
  <2> QED BY <1>1, <2>1, <2>2, HistoryFields
<1>5. Len(trace'.failedAt) = Len(f) + 1 /\ trace'.failedAt[Len(f) + 1] = setup /\ Len(f) \in Nat
  BY <1>4
<1>6. /\ objects.failures = Len(f) /\ Threshold \in Nat /\ objects.state \in BreakerStates
      /\ objects.state # "closed" => Len(f) >= Threshold
  BY ShapeTypes DEF CallsIInv, BreakerTypes, CountsFailures, Calls!CallConstantsOK
<1> HIDE DEF f
<1>7. CountsFailures'
  BY <1>2, <1>3, <1>5, <1>6 DEF CountsFailures, SameBreaker, BreakerStates
<1>8. BreakerTypes'
  BY <1>1, <1>3, <1>4 DEF CallsIInv, BreakerTypes
<1> QED BY <1>7, <1>8 DEF CallsIInv

\* What anyone may do at any time.
LEMMA OthersKeep ==
  ASSUME Calls!CallConstantsOK, CallsIInv,
         Calls!State \/ Calls!Remaining \/ Calls!Invalidate \/ \E c \in Callers : Calls!Acknowledge(c)
  PROVE  CallsIInv'
<1>1. BreakerShape(objects)
  BY DEF CallsIInv, BreakerTypes
<1>2. UNCHANGED <<setup, trace>> /\ BreakerShape(objects')
        /\ (SameBreaker(objects', objects) \/ SameBreaker(objects', Calls!HalfOpened(objects)))
  <2>1. CASE Calls!State
    BY <2>1, HalfOpenedFields DEF Calls!State, SameBreaker
  <2>2. CASE Calls!Remaining
    BY <1>1, <2>2, OtherFields DEF Calls!Remaining, Calls!Pruned
  <2>3. CASE Calls!Invalidate
    BY <1>1, <2>3, OtherFields DEF Calls!Invalidate
  <2>4. ASSUME NEW c \in Callers, Calls!Acknowledge(c)
        PROVE  UNCHANGED <<setup, trace>> /\ BreakerShape(objects') /\ SameBreaker(objects', objects)
    BY <1>1, <2>4, OtherFields DEF Calls!Acknowledge
  <2> QED BY <2>1, <2>2, <2>3, <2>4
<1> QED BY <1>2, HalfOpenKeeps

LEMMA LookupKeeps ==
  ASSUME Calls!CallConstantsOK, CallsIInv, NEW c \in Callers, Calls!Lookup(c)
  PROVE  CallsIInv'
BY DEF Calls!Lookup, CallsIInv, BreakerTypes, CountsFailures

LEMMA ClockKeepsHistory ==
  ASSUME Calls!CallConstantsOK, CallsIInv, Calls!Tick
  PROVE  CallsIInv'
<1>1. setup' = setup + 1 /\ objects' = objects /\ trace' = trace /\ setup \in Nat /\ BreakerTypes
  BY DEF Calls!Tick, CallsIInv, BreakerTypes
<1>2. objects.state = "half_open" => trace.failedAt[Len(trace.failedAt)] \in Nat
  BY <1>1 DEF CallsIInv, BreakerTypes, CallHistories, CountsFailures, Calls!CallConstantsOK
<1>3. BreakerTypes'
  BY <1>1 DEF BreakerTypes
<1> QED BY <1>1, <1>2, <1>3 DEF CallsIInv, CountsFailures, Calls!CallConstantsOK

LEMMA CallsSteps ==
  ASSUME Calls!CallConstantsOK, CallsIInv, [Calls!Next]_Calls!callVars
  PROVE  CallsIInv'
<1>1. CASE UNCHANGED Calls!callVars
  BY <1>1 DEF Calls!callVars, CallsIInv, BreakerTypes, CountsFailures
<1>2. CASE Calls!Next
  BY <1>2, LookupKeeps, AllowKeeps, ExecuteKeeps, SucceedKeeps, FailKeeps, OthersKeep, ClockKeepsHistory
     DEF Calls!Next
<1> QED BY <1>1, <1>2

LEMMA HistoryFromCallsInv ==
  ASSUME Calls!CallConstantsOK, CallsIInv
  PROVE  Calls!BreakerIsItsHistory
<1> DEFINE f == trace.failedAt
<1>1. Calls!HalfOpened(objects).state = IF objects.state = "open" /\ setup - f[Len(f)] >= Cooldown
                                THEN "half_open" ELSE objects.state
  BY HalfOpenedFields
<1>2. /\ objects.state \in {"closed", "open", "half_open"} /\ setup \in Nat /\ Len(f) \in Nat
      /\ Len(f) >= Threshold => f[Len(f)] \in Nat
  <2>1. objects.state \in {"closed", "open", "half_open"}
    BY ShapeTypes DEF CallsIInv, BreakerTypes, BreakerStates
  <2> QED BY <2>1 DEF CallsIInv, BreakerTypes, CallHistories, Calls!CallConstantsOK
<1> QED BY <1>1, <1>2 DEF CallsIInv, CountsFailures, Calls!BreakerIsItsHistory, Calls!CallConstantsOK

-----------------------------------------------------------------------------
(* Tool calls: the sliding window of the runner *)

\* Starts are recorded in the order of the clock.
StartsInOrder ==
  LET s == trace.startedAt IN
  /\ \A i \in 1..Len(s) : s[i] <= setup
  /\ \A i, j \in 1..Len(s) : i < j => s[i] <= s[j]

\* The bucket holds the latest starts, and what was popped from it is older
\* than a window.
HitsAreLatest ==
  LET s == trace.startedAt  h == objects.hits  popped == Len(s) - Len(h) IN
  /\ h \in Seq(Nat) /\ popped \in Nat
  /\ \A i \in 1..Len(h) : h[i] = s[popped + i]
  /\ \A i \in 1..popped : s[i] < setup - Window

\* CallsPerWindow starts further on, more than a window has passed.
StartsSpaced ==
  LET s == trace.startedAt IN
  \A i \in 1..Len(s) : i + CallsPerWindow <= Len(s) => s[i] + Window < s[i + CallsPerWindow]

WindowInv == CallsIInv /\ StartsInOrder /\ HitsAreLatest /\ StartsSpaced

\* A set of naturals has a least element.
LEMMA LeastExists ==
  ASSUME NEW S, S \subseteq Nat, S # {}
  PROVE  \E m \in S : \A n \in S : m <= n
<1>1. IsWellFoundedOn(OpToRel(<, Nat), Nat)
  BY NatLessThanWellFounded
<1>2. PICK m \in S : \A n \in S : ~(<<n, m>> \in OpToRel(<, Nat))
  BY <1>1, WFMin, Zenon
<1>3. \A n \in S : ~(n < m)
  BY <1>2 DEF OpToRel
<1> QED BY <1>3

\* The loop ends: there is an oldest start to keep, or the bucket is empty.
LEMMA OldestFound ==
  ASSUME NEW h \in Seq(Nat)
  PROVE  /\ Calls!Oldest(h) \in 1..(Len(h) + 1)
         /\ \A i \in 1..(Calls!Oldest(h) - 1) : ~Calls!Recent(h[i])
<1> DEFINE S == {k \in 1..(Len(h) + 1) : k <= Len(h) => Calls!Recent(h[k])}
           Stops(k) == /\ \A i \in 1..(k - 1) : ~Calls!Recent(h[i])
                       /\ k <= Len(h) => Calls!Recent(h[k])
<1>1. Len(h) \in Nat
  OBVIOUS
<1>2. S \subseteq Nat /\ Len(h) + 1 \in S
  BY <1>1
<1>3. PICK m \in S : \A n \in S : m <= n
  <2> HIDE DEF S
  <2> QED BY <1>2, LeastExists
<1>4. m \in 1..(Len(h) + 1) /\ Stops(m)
  <2>1. ASSUME NEW i \in 1..(m - 1)
        PROVE  ~Calls!Recent(h[i])
    <3>1. i \in 1..(Len(h) + 1) /\ i <= Len(h) /\ ~(m <= i)
      BY <1>1
    <3>2. i \notin S
      BY <1>3, <3>1
    <3> QED BY <3>1, <3>2
  <2> QED BY <2>1
<1>5. \E k \in 1..(Len(h) + 1) : Stops(k)
  BY <1>4
<1>6. Calls!Oldest(h) = CHOOSE k \in 1..(Len(h) + 1) : Stops(k)
  BY DEF Calls!Oldest
<1>7. Calls!Oldest(h) \in 1..(Len(h) + 1) /\ Stops(Calls!Oldest(h))
  <2> HIDE DEF Stops
  <2> QED BY <1>5, <1>6, Zenon
<1> QED BY <1>7

\* What is left of the bucket, when its starts are the latest ones.
LEMMA PrunedLatest ==
  ASSUME Calls!CallConstantsOK, WindowInv
  PROVE  LET s == trace.startedAt  h == Calls!Pruned(objects).hits  popped == Len(s) - Len(h) IN
         /\ h \in Seq(Nat) /\ popped \in Nat
         /\ \A i \in 1..Len(h) : h[i] = s[popped + i]
         /\ \A i \in 1..popped : s[i] < setup - Window
<1> DEFINE s == trace.startedAt
           o == objects.hits
           k == Calls!Oldest(o)
           h == SubSeq(o, k, Len(o))
           gone == Len(s) - Len(o)
<1>1. /\ o \in Seq(Nat) /\ s \in Seq(Nat) /\ setup \in Nat /\ Window \in Nat
      /\ gone \in Nat
      /\ \A i \in 1..Len(o) : o[i] = s[gone + i]
      /\ \A i \in 1..gone : s[i] < setup - Window
  BY DEF WindowInv, HitsAreLatest, CallsIInv, BreakerTypes, CallHistories, Calls!CallConstantsOK
<1>2. Calls!Pruned(objects).hits = h
  BY DEF Calls!Pruned, WindowInv, CallsIInv, BreakerTypes, BreakerShape
<1>3. k \in 1..(Len(o) + 1) /\ \A i \in 1..(k - 1) : ~Calls!Recent(o[i])
  BY <1>1, OldestFound
<1>4. Len(o) \in Nat /\ Len(s) \in Nat
  BY <1>1
<1> HIDE DEF k, s, o
<1>5. \A i \in k..Len(o) : o[i] \in Nat
  BY <1>1, <1>3, <1>4
<1>6. /\ h \in Seq(Nat) /\ Len(h) = Len(o) - k + 1
      /\ \A i \in 1..Len(h) : h[i] = o[k + i - 1]
  <2>1. k \in Int /\ Len(o) \in Int
    BY <1>3, <1>4
  <2>2. /\ h \in Seq(Nat) /\ Len(h) = IF k <= Len(o) THEN Len(o) - k + 1 ELSE 0
        /\ \A i \in 1..(Len(o) - k + 1) : h[i] = o[k + i - 1]
    BY <1>5, <2>1, SubSeqProperties
  <2> QED BY <1>3, <1>4, <2>2
<1> HIDE DEF h
<1>7. Len(s) - Len(h) = gone + k - 1
  BY <1>4, <1>6, <1>3
<1>8. \A i \in 1..Len(h) : h[i] = s[Len(s) - Len(h) + i]
  <2>1. TAKE i \in 1..Len(h)
  <2>2. k + i - 1 \in 1..Len(o) /\ gone + (k + i - 1) = Len(s) - Len(h) + i
    BY <1>3, <1>4, <1>6
  <2>3. o[k + i - 1] = s[gone + (k + i - 1)] /\ h[i] = o[k + i - 1]
    BY <1>1, <1>6, <2>2
  <2> QED BY <2>2, <2>3
<1>9. \A i \in 1..(Len(s) - Len(h)) : s[i] < setup - Window
  <2>1. TAKE i \in 1..(Len(s) - Len(h))
  <2>2. CASE i <= gone
    BY <1>1, <1>4, <2>2
  <2>3. CASE i > gone
    <3> DEFINE j == i - gone
    <3>1. j \in 1..(k - 1) /\ j \in 1..Len(o) /\ gone + j = i
      BY <1>1, <1>3, <1>4, <1>7, <2>3
    <3> HIDE DEF j
    <3>2. ~Calls!Recent(o[j]) /\ o[j] \in Nat
      BY <1>1, <1>3, <3>1
    <3>3. o[j] = s[i]
      <4>1. o[j] = s[gone + j]
        BY <1>1, <3>1
      <4> QED BY <3>1, <4>1
    <3> QED BY <1>1, <3>2, <3>3 DEF Calls!Recent
  <2> QED BY <1>1, <1>4, <2>2, <2>3
<1>10. Len(s) - Len(h) \in Nat
  BY <1>1, <1>3, <1>4, <1>7
<1> QED BY <1>2, <1>6, <1>8, <1>9, <1>10 DEF s

\* A step that leaves the clock, the bucket and the starts.
LEMMA WindowUntouched ==
  ASSUME WindowInv, CallsIInv', UNCHANGED setup, objects'.hits = objects.hits,
         trace'.startedAt = trace.startedAt
  PROVE  WindowInv'
BY DEF WindowInv, StartsInOrder, HitsAreLatest, StartsSpaced

\* A step that prunes the bucket and starts nothing.
LEMMA WindowPruned ==
  ASSUME Calls!CallConstantsOK, WindowInv, CallsIInv', UNCHANGED setup,
         objects'.hits = Calls!Pruned(objects).hits,
         trace'.startedAt = trace.startedAt
  PROVE  WindowInv'
<1>1. HitsAreLatest'
  BY PrunedLatest DEF HitsAreLatest
<1> QED BY <1>1 DEF WindowInv, StartsInOrder, StartsSpaced

\* A start finds fewer than CallsPerWindow starts in the bucket; the one that
\* many starts before it was popped, so more than a window has passed.
LEMMA WindowStarted ==
  ASSUME Calls!CallConstantsOK, WindowInv, CallsIInv', UNCHANGED setup,
         Len(Calls!Pruned(objects).hits) < CallsPerWindow,
         objects'.hits = Append(Calls!Pruned(objects).hits, setup),
         trace'.startedAt = Append(trace.startedAt, setup)
  PROVE  WindowInv'
<1> DEFINE s == trace.startedAt
           h == Calls!Pruned(objects).hits
           popped == Len(s) - Len(h)
<1>1. /\ s \in Seq(Nat) /\ setup \in Nat
      /\ CallsPerWindow \in Nat \ {0} /\ Window \in Nat
      /\ \A i \in 1..Len(s) : s[i] <= setup
      /\ \A i, j \in 1..Len(s) : i < j => s[i] <= s[j]
      /\ \A i \in 1..Len(s) : i + CallsPerWindow <= Len(s) => s[i] + Window < s[i + CallsPerWindow]
  BY DEF WindowInv, StartsInOrder, StartsSpaced, CallsIInv, BreakerTypes, CallHistories,
         Calls!CallConstantsOK
<1>2. /\ h \in Seq(Nat) /\ popped \in Nat
      /\ \A i \in 1..Len(h) : h[i] = s[popped + i]
      /\ \A i \in 1..popped : s[i] < setup - Window
  BY PrunedLatest
<1> HIDE DEF s, h
<1>3. /\ Append(s, setup) \in Seq(Nat) /\ Len(Append(s, setup)) = Len(s) + 1
      /\ \A i \in 1..Len(s) : Append(s, setup)[i] = s[i]
      /\ Append(s, setup)[Len(s) + 1] = setup
      /\ Append(h, setup) \in Seq(Nat) /\ Len(Append(h, setup)) = Len(h) + 1
      /\ \A i \in 1..Len(h) : Append(h, setup)[i] = h[i]
      /\ Append(h, setup)[Len(h) + 1] = setup
      /\ Len(s) \in Nat /\ Len(h) \in Nat
      /\ \A i \in 1..Len(s) : s[i] \in Nat
  BY <1>1, <1>2
<1>4. objects'.hits = Append(h, setup) /\ trace'.startedAt = Append(s, setup) /\ setup' = setup
  BY DEF s, h
<1>5. StartsInOrder'
  BY <1>1, <1>3, <1>4 DEF StartsInOrder
<1>6. HitsAreLatest'
  <2>1. Len(Append(s, setup)) - Len(Append(h, setup)) = popped
    BY <1>3
  <2>2. \A i \in 1..(Len(h) + 1) : Append(h, setup)[i] = Append(s, setup)[popped + i]
    <3>1. TAKE i \in 1..(Len(h) + 1)
    <3>2. CASE i = Len(h) + 1
      BY <1>3, <3>2
    <3>3. CASE i # Len(h) + 1
      <4>1. i \in 1..Len(h) /\ popped + i \in 1..Len(s)
        BY <1>2, <1>3, <3>3
      <4> QED BY <1>2, <1>3, <4>1
    <3> QED BY <3>2, <3>3
  <2>3. \A i \in 1..popped : Append(s, setup)[i] < setup - Window
    <3>1. TAKE i \in 1..popped
    <3>2. i \in 1..Len(s)
      BY <1>2, <1>3
    <3> QED BY <1>2, <1>3, <3>2
  <2> QED BY <1>2, <1>3, <1>4, <2>1, <2>2, <2>3 DEF HitsAreLatest
<1>7. StartsSpaced'
  <2>1. ASSUME NEW i \in 1..(Len(s) + 1), i + CallsPerWindow <= Len(s) + 1
        PROVE  Append(s, setup)[i] + Window < Append(s, setup)[i + CallsPerWindow]
    <3>1. i \in 1..Len(s) /\ Append(s, setup)[i] = s[i] /\ s[i] \in Nat
      <4>1. i \in 1..Len(s)
        <5>1. Len(s) \in Nat
          BY <1>3
        <5> QED BY <1>1, <2>1, <5>1
      <4> QED BY <1>3, <4>1
    <3>2. CASE i + CallsPerWindow <= Len(s)
      <4>1. i + CallsPerWindow \in 1..Len(s)
        BY <1>1, <1>3, <3>1, <3>2
      <4>2. Append(s, setup)[i + CallsPerWindow] = s[i + CallsPerWindow]
        BY <1>3, <4>1
      <4> QED BY <1>1, <3>1, <3>2, <4>2
    <3>3. CASE i + CallsPerWindow = Len(s) + 1
      <4>1. Len(h) < CallsPerWindow
        BY DEF h
      <4>2. i \in 1..popped
        BY <1>1, <1>3, <3>1, <3>3, <4>1
      <4>3. Append(s, setup)[i + CallsPerWindow] = setup
        BY <1>3, <3>3
      <4>4. s[i] < setup - Window
        BY <1>2, <4>2
      <4> QED BY <1>1, <3>1, <4>3, <4>4
    <3>4. i + CallsPerWindow <= Len(s) \/ i + CallsPerWindow = Len(s) + 1
      <4>1. Len(s) \in Nat /\ CallsPerWindow \in Nat
        BY <1>1, <1>3
      <4> QED BY <2>1, <4>1
    <3> QED BY <3>2, <3>3, <3>4
  <2> QED BY <1>3, <1>4, <2>1 DEF StartsSpaced
<1> QED BY <1>5, <1>6, <1>7 DEF WindowInv

\* What a failed attempt and the breaker leave of the other fields.
LEMMA HitsField ==
  ASSUME NEW o, BreakerShape(o), NEW x, NEW c
  PROVE  /\ [o EXCEPT !.hits = x].hits = x
         /\ [o EXCEPT !.cached = x].hits = o.hits
         /\ [o EXCEPT !.letters[c] = x].hits = o.hits
         /\ [o EXCEPT !.state = x].hits = o.hits
         /\ Calls!RecordFailure(o).hits = o.hits
         /\ Calls!RecordSuccess(o).hits = o.hits
         /\ Calls!HalfOpened(o).hits = o.hits
<1>1. /\ [o EXCEPT !.hits = x].hits = x
      /\ [o EXCEPT !.cached = x].hits = o.hits
      /\ [o EXCEPT !.letters[c] = x].hits = o.hits
      /\ \A s : [o EXCEPT !.state = s].hits = o.hits
  BY DEF BreakerShape
<1>2. Calls!RecordFailure(o).hits = o.hits
  BY DEF BreakerShape, Calls!RecordFailure
<1>3. Calls!RecordSuccess(o).hits = o.hits
  BY DEF BreakerShape, Calls!RecordSuccess
<1>4. Calls!HalfOpened(o).hits = o.hits
  BY <1>1 DEF Calls!HalfOpened
<1> QED BY <1>1, <1>2, <1>3, <1>4

LEMMA AttemptKeepsHits ==
  ASSUME NEW c, NEW o, BreakerShape(o), Calls!AttemptFailed(c, o)
  PROVE  objects'.hits = o.hits
<1>1. objects' = o \/ objects' = [o EXCEPT !.letters[c] = "pending"]
  BY DEF Calls!AttemptFailed
<1>2. [o EXCEPT !.letters[c] = "pending"].hits = o.hits
  BY DEF BreakerShape
<1> QED BY <1>1, <1>2

LEMMA RecordFailureShape ==
  ASSUME CallsIInv
  PROVE  BreakerShape(Calls!RecordFailure(objects))
<1>1. BreakerShape(objects) /\ setup \in Nat /\ "open" \in BreakerStates
  BY DEF CallsIInv, BreakerTypes, BreakerStates
<1>2. objects.failures + 1 \in Nat /\ setup \in Nat \cup {None}
  BY <1>1, ShapeTypes
<1> QED BY <1>1, <1>2 DEF Calls!RecordFailure, Calls!OpenedAt, BreakerShape

LEMMA ExecuteKeepsWindow ==
  ASSUME Calls!CallConstantsOK, WindowInv, CallsIInv', NEW c \in Callers, Calls!Execute(c)
  PROVE  WindowInv'
<1> DEFINE o == Calls!Pruned(objects)
<1>1. BreakerShape(o)
  BY OtherFields DEF WindowInv, CallsIInv, BreakerTypes, Calls!Pruned
<1>2. setup' = setup /\ trace \in CallHistories
  BY DEF Calls!Execute, WindowInv, CallsIInv, BreakerTypes
<1>3. CASE /\ Len(o.hits) < CallsPerWindow
           /\ objects' = [o EXCEPT !.hits = Append(o.hits, setup)]
           /\ trace' = [trace EXCEPT !.startedAt = Append(trace.startedAt, setup)]
  <2>1. objects'.hits = Append(o.hits, setup)
    <3> HIDE DEF o
    <3> QED BY <1>1, <1>3, HitsField
  <2>2. trace'.startedAt = Append(trace.startedAt, setup)
    BY <1>2, <1>3 DEF CallHistories
  <2> QED BY <1>2, <1>3, <2>1, <2>2, WindowStarted
<1>4. CASE Calls!AttemptFailed(c, o) /\ trace' = trace
  <2>1. objects'.hits = o.hits
    BY <1>1, <1>4, AttemptKeepsHits
  <2> QED BY <1>2, <1>4, <2>1, WindowPruned
<1> QED BY <1>3, <1>4 DEF Calls!Execute

\* Every other step of a call leaves the window.
LEMMA CallKeepsWindow ==
  ASSUME Calls!CallConstantsOK, WindowInv, CallsIInv', NEW c \in Callers,
         Calls!Lookup(c) \/ Calls!Allow(c) \/ Calls!Succeed(c) \/ Calls!Fail(c) \/ Calls!Acknowledge(c)
  PROVE  WindowInv'
<1>1. BreakerShape(objects) /\ trace \in CallHistories
  BY DEF WindowInv, CallsIInv, BreakerTypes
<1>2. CASE Calls!Lookup(c)
  BY <1>2, WindowUntouched DEF Calls!Lookup
<1>3. CASE Calls!Allow(c)
  <2>1. BreakerShape(Calls!HalfOpened(objects)) /\ Calls!HalfOpened(objects).hits = objects.hits
    BY <1>1, HalfOpenedFields, HitsField DEF WindowInv
  <2>2. /\ UNCHANGED <<setup, trace>>
        /\ objects' = Calls!HalfOpened(objects) \/ Calls!AttemptFailed(c, Calls!HalfOpened(objects))
    BY <1>3 DEF Calls!Allow
  <2>3. objects'.hits = objects.hits
    BY <2>1, <2>2, AttemptKeepsHits
  <2> QED BY <2>2, <2>3, WindowUntouched
<1>4. CASE Calls!Succeed(c)
  <2>1. BreakerShape(Calls!RecordSuccess(objects))
    <3>1. "closed" \in BreakerStates
      BY DEF BreakerStates
    <3> QED BY <1>1, <3>1 DEF Calls!RecordSuccess, BreakerShape
  <2>2. objects'.hits = Calls!RecordSuccess(objects).hits
    BY <1>4, <2>1, HitsField DEF Calls!Succeed
  <2>3. objects'.hits = objects.hits
    BY <1>1, <2>2, HitsField
  <2>4. trace'.startedAt = trace.startedAt /\ setup' = setup
    BY <1>1, <1>4 DEF Calls!Succeed, CallHistories
  <2> QED BY <2>3, <2>4, WindowUntouched
<1>5. CASE Calls!Fail(c)
  <2>1. objects'.hits = Calls!RecordFailure(objects).hits
    <3>1. Calls!AttemptFailed(c, Calls!RecordFailure(objects))
      BY <1>5 DEF Calls!Fail
    <3>2. BreakerShape(Calls!RecordFailure(objects))
      BY RecordFailureShape DEF WindowInv
    <3> QED BY <3>1, <3>2, AttemptKeepsHits
  <2>2. objects'.hits = objects.hits
    BY <1>1, <2>1, HitsField
  <2>3. trace'.startedAt = trace.startedAt /\ setup' = setup
    BY <1>1, <1>5 DEF Calls!Fail, CallHistories
  <2> QED BY <2>2, <2>3, WindowUntouched
<1>6. CASE Calls!Acknowledge(c)
  BY <1>1, <1>6, HitsField, WindowUntouched DEF Calls!Acknowledge
<1> QED BY <1>2, <1>3, <1>4, <1>5, <1>6

LEMMA OthersKeepWindow ==
  ASSUME Calls!CallConstantsOK, WindowInv, CallsIInv', Calls!State \/ Calls!Remaining \/ Calls!Invalidate \/ Calls!Tick
  PROVE  WindowInv'
<1>1. BreakerShape(objects) /\ setup \in Nat
  BY DEF WindowInv, CallsIInv, BreakerTypes
<1>2. CASE Calls!State
  BY <1>1, <1>2, HitsField, WindowUntouched DEF Calls!State
<1>3. CASE Calls!Remaining
  BY <1>3, WindowPruned DEF Calls!Remaining
<1>4. CASE Calls!Invalidate
  BY <1>1, <1>4, HitsField, WindowUntouched DEF Calls!Invalidate
<1>5. CASE Calls!Tick
  <2>1. setup' = setup + 1 /\ objects' = objects /\ trace' = trace
    BY <1>5 DEF Calls!Tick
  <2>2. /\ trace.startedAt \in Seq(Nat) /\ Window \in Nat
    BY DEF WindowInv, CallsIInv, BreakerTypes, CallHistories, Calls!CallConstantsOK
  <2>3. StartsInOrder'
    BY <1>1, <2>1, <2>2 DEF WindowInv, StartsInOrder
  <2>4. HitsAreLatest'
    <3> DEFINE s == trace.startedAt
               popped == Len(s) - Len(objects.hits)
    <3>1. /\ objects.hits \in Seq(Nat) /\ popped \in Nat
          /\ \A i \in 1..Len(objects.hits) : objects.hits[i] = s[popped + i]
          /\ \A i \in 1..popped : s[i] < setup - Window
      BY DEF WindowInv, HitsAreLatest
    <3>2. \A i \in 1..popped : s[i] \in Nat
      <4>1. Len(objects.hits) \in Nat /\ Len(s) \in Nat /\ \A i \in 1..Len(s) : s[i] \in Nat
        BY <2>2, <3>1
      <4> QED BY <3>1, <4>1
    <3>3. \A i \in 1..popped : s[i] < setup' - Window
      <4>1. TAKE i \in 1..popped
      <4>2. s[i] < setup - Window /\ s[i] \in Nat
        BY <3>1, <3>2
      <4> HIDE DEF popped, s
      <4> QED BY <1>1, <2>1, <2>2, <4>2
    <3>4. trace'.startedAt = s /\ objects'.hits = objects.hits
      BY <2>1
    <3> HIDE DEF s
    <3> QED BY <3>1, <3>3, <3>4 DEF HitsAreLatest
  <2>5. StartsSpaced'
    BY <2>1 DEF WindowInv, StartsSpaced
  <2> QED BY <2>3, <2>4, <2>5 DEF WindowInv
<1> QED BY <1>2, <1>3, <1>4, <1>5

LEMMA NextWindowInv ==
  ASSUME Calls!CallConstantsOK, WindowInv, [Calls!Next]_Calls!callVars
  PROVE  WindowInv'
<1>1. CallsIInv'
  BY CallsSteps DEF WindowInv
<1>2. CASE UNCHANGED Calls!callVars
  BY <1>1, <1>2, WindowUntouched DEF Calls!callVars
<1>3. CASE Calls!Next
  BY <1>1, <1>3, ExecuteKeepsWindow, CallKeepsWindow, OthersKeepWindow DEF Calls!Next
<1> QED BY <1>2, <1>3

LEMMA InitWindowInv ==
  ASSUME Calls!CallConstantsOK, Calls!Init
  PROVE  WindowInv
<1>1. trace.startedAt = <<>> /\ objects.hits = <<>> /\ <<>> \in Seq(Nat) /\ Len(<<>>) = 0
  BY DEF Calls!Init
<1>2. StartsInOrder
  BY <1>1 DEF StartsInOrder
<1>3. HitsAreLatest
  BY <1>1 DEF HitsAreLatest
<1>4. StartsSpaced
  BY <1>1 DEF StartsSpaced
<1> QED BY <1>2, <1>3, <1>4, CallsInitially DEF WindowInv

\* The starts within a window are at most CallsPerWindow: they follow each
\* other, and the one that many further on lies outside.
LEMMA WindowFromInv ==
  ASSUME Calls!CallConstantsOK, WindowInv
  PROVE  Calls!WindowNeverExceeded
<1> DEFINE s == trace.startedAt
<1>1. /\ s \in Seq(Nat) /\ CallsPerWindow \in Nat \ {0} /\ Window \in Nat /\ setup \in Nat
      /\ \A i, j \in 1..Len(s) : i < j => s[i] <= s[j]
      /\ \A i \in 1..Len(s) : i + CallsPerWindow <= Len(s) => s[i] + Window < s[i + CallsPerWindow]
  BY DEF WindowInv, StartsInOrder, StartsSpaced, CallsIInv, BreakerTypes, CallHistories,
         Calls!CallConstantsOK
<1>2. /\ DOMAIN s = 1..Len(s) /\ Len(s) \in Nat
      /\ \A i \in 1..Len(s) : s[i] \in Nat
  BY <1>1
<1> SUFFICES ASSUME NEW t \in 0..setup
             PROVE  Cardinality({i \in DOMAIN s : s[i] \in t..(t + Window)}) <= CallsPerWindow
  <2>1. \A S : Calls!Cardinality(S) = Cardinality(S)
    BY Zenon DEF Calls!Cardinality, Cardinality
  <2> QED BY <2>1 DEF Calls!WindowNeverExceeded
<1> HIDE DEF s
<1> DEFINE I == {i \in DOMAIN s : s[i] \in t..(t + Window)}
<1>3. CASE I = {}
  <2>1. Cardinality(I) = 0
    BY <1>3, FS_EmptySet
  <2> QED BY <1>1, <2>1
<1>4. CASE I # {}
  <2>1. I \subseteq Nat
    BY <1>2
  <2>2. PICK m \in I : \A i \in I : m <= i
    <3> HIDE DEF I
    <3> QED BY <1>4, <2>1, LeastExists
  <2>3. m \in 1..Len(s) /\ t <= s[m] /\ s[m] \in Nat /\ t \in Nat
    BY <1>1, <1>2
  <2>4. ASSUME NEW i \in I
        PROVE  i \in m..(m + CallsPerWindow - 1)
    <3>1. i \in 1..Len(s) /\ s[i] <= t + Window /\ s[i] \in Nat /\ m <= i
      BY <1>2, <2>2, <2>3
    <3>2. ~(i >= m + CallsPerWindow)
      <4>1. SUFFICES ASSUME i >= m + CallsPerWindow
                     PROVE  FALSE
        OBVIOUS
      <4>2. m + CallsPerWindow \in 1..Len(s) /\ s[m] + Window < s[m + CallsPerWindow]
        <5>1. m + CallsPerWindow \in 1..Len(s) /\ m + CallsPerWindow <= Len(s)
          <6>1. CallsPerWindow \in Nat \ {0} /\ Len(s) \in Nat /\ i \in 1..Len(s) /\ m \in 1..Len(s)
            BY <1>1, <1>2, <2>3, <3>1
          <6> QED BY <4>1, <6>1
        <5> QED BY <1>1, <2>3, <5>1
      <4>3. s[m + CallsPerWindow] <= s[i]
        <5>1. CASE i = m + CallsPerWindow
          BY <3>1, <5>1
        <5>2. CASE i # m + CallsPerWindow
          BY <1>1, <3>1, <4>1, <4>2, <5>2, <2>3
        <5> QED BY <5>1, <5>2
      <4>4. s[m + CallsPerWindow] \in Nat
        BY <1>2, <4>2
      <4>5. s[m] \in Nat /\ t \in Nat /\ Window \in Nat /\ t <= s[m] /\ s[i] \in Nat /\ s[i] <= t + Window
        BY <1>1, <2>3, <3>1
      <4> QED BY <4>2, <4>3, <4>4, <4>5
    <3> QED BY <1>1, <2>3, <3>1, <3>2
  <2>5. I \subseteq m..(m + CallsPerWindow - 1)
    BY <2>4
  <2>6. /\ IsFiniteSet(m..(m + CallsPerWindow - 1))
        /\ Cardinality(m..(m + CallsPerWindow - 1)) = CallsPerWindow
    <3>1. m \in Int /\ m + CallsPerWindow - 1 \in Int /\ m <= m + CallsPerWindow - 1
            /\ (m + CallsPerWindow - 1) - m + 1 = CallsPerWindow
      BY <1>1, <2>3
    <3> QED BY <3>1, FS_Interval
  <2>7. Cardinality(I) <= Cardinality(m..(m + CallsPerWindow - 1))
    <3> HIDE DEF I
    <3> QED BY <2>5, <2>6, FS_Subset
  <2> QED BY <2>6, <2>7
<1> QED BY <1>3, <1>4

CallsInv == part = "tool calls" => WindowInv

LEMMA CallsInvariance == LibrarySpec => []CallsInv
<1>1. LibraryInit => CallsInv
  BY PartInits, LibraryConstants, InitWindowInv DEF CallsInv
<1>2. ASSUME CallsInv, [LibraryNext]_libraryVars
      PROVE  CallsInv'
  <2>1. CASE part = "tool calls"
    <3>1. [Calls!Next]_Calls!callVars
      BY <1>2, <2>1, PartSteps DEF others, Calls!callVars
    <3> QED BY <1>2, <2>1, <3>1, PartSteps, LibraryConstants, NextWindowInv DEF CallsInv
  <2>2. CASE part # "tool calls"
    BY <1>2, <2>2, PartSteps DEF CallsInv
  <2> QED BY <2>1, <2>2
<1> QED BY <1>1, <1>2, PTL DEF LibrarySpec

\* CircuitBreaker: with any number of overlapping calls it rejects exactly
\* while the last of at least failure_threshold failures since a success is
\* younger than cooldown_seconds.
THEOREM BreakerByHistory == LibrarySpec => []BreakerIsItsHistory
<1>1. CallsInv => BreakerIsItsHistory
  BY LibraryConstants, HistoryFromCallsInv DEF CallsInv, WindowInv, BreakerIsItsHistory
<1> QED BY <1>1, CallsInvariance, PTL

\* RateLimitedToolRunner: wherever a window of window_seconds is laid, at most
\* max_calls starts of the tool fall into it, ends included.
THEOREM StartsWithinLimit == LibrarySpec => []WindowNeverExceeded
<1>1. CallsInv => WindowNeverExceeded
  BY LibraryConstants, WindowFromInv DEF CallsInv, WindowNeverExceeded
<1> QED BY <1>1, CallsInvariance, PTL

-----------------------------------------------------------------------------
(* MCP toolset *)

Commands == {"run", "resume", "mcp-tools"}
CommandPlaces == {"begin", "starting", "running", "closing", "ended"}
Pairs == [server : Toolset!Servers, tool : Tools \cup {BadName}]

ToolsetTypes ==
  /\ setup \in [command : Commands, entries : [Toolset!Servers -> Toolset!EntryTypes], finished : Toolset!Outcomes]
  /\ objects \in [clients : Seq(Toolset!Servers), tools : SUBSET Pairs, failed : SUBSET Toolset!Servers,
                  hidden : SUBSET Pairs, skipped : SUBSET Pairs]
  /\ progress \in [pc : CommandPlaces, next : Nat, exit : {None, 0, 1, 2, 130}]
  /\ trace \in [Toolset!Servers -> Toolset!Listings \cup {None}]

\* The toolset knows the client of every server that runs.
Tracked ==
  \A i \in Toolset!Servers : trace[i] # None => \E n \in 1..Len(objects.clients) : objects.clients[n] = i

\* A command ends with all clients closed, with 0 only without a failed server.
ExitOK ==
  /\ progress.pc = "ended" => objects.clients = <<>>
  /\ progress.pc \in {"begin", "starting", "running"} => progress.exit = None
  /\ progress.exit = 0 => objects.failed = {}

\* Until it is closed, the toolset has come past exactly the servers before
\* next: those of kind stdio run or failed, the others never started.
Upto ==
  /\ progress.pc = "begin" => progress.next = 1 /\ objects.failed = {} /\ objects.clients = <<>>
  /\ progress.pc = "running" => progress.next > ServerCount /\ objects.failed = {}
  /\ progress.pc \in {"begin", "starting", "running"} =>
       /\ \A i \in objects.failed : i < progress.next
       /\ \A i \in Toolset!Servers :
            trace[i] # None <=>
              i < progress.next /\ setup.entries[i].kind = "stdio" /\ i \notin objects.failed

Offers(i, t) == trace[i] # None /\ \E n \in DOMAIN trace[i] : trace[i][n] = t

\* ... and its tools are those the servers listed and the lists expose.
Registered ==
  progress.pc \in {"begin", "starting", "running"} =>
    \A p : p \in objects.tools <=>
      /\ p \in [server : Toolset!Servers, tool : Tools]
      /\ Offers(p.server, p.tool)
      /\ Toolset!Exposes(setup.entries[p.server], p.tool)

ToolsetIInv == ToolsetTypes /\ Tracked /\ ExitOK /\ Upto /\ Registered

LEMMA ToolsetInitial ==
  ASSUME Toolset!ToolsetConstantsOK, Toolset!Init
  PROVE  ToolsetIInv
<1>1. ToolsetTypes
  BY DEF Toolset!ToolsetConstantsOK, Toolset!Init, ToolsetTypes, Commands, CommandPlaces
<1>2. Tracked /\ ExitOK /\ Upto /\ Registered
  BY DEF Toolset!ToolsetConstantsOK, Toolset!Init, Tracked, ExitOK, Upto, Registered, Offers, Toolset!Servers
<1> QED BY <1>1, <1>2 DEF ToolsetIInv

\* _register on what a server listed: a tool is exposed when it was listed
\* under a valid name and the lists expose it, once however often it is listed.
LEMMA ExposedByFate ==
  ASSUME Toolset!ToolsetConstantsOK, NEW i \in Toolset!Servers, NEW listing \in Toolset!Listings, NEW p
  PROVE  p \in Toolset!WithFate(i, listing, "exposed") <=>
           /\ p \in [server : {i}, tool : Tools]
           /\ \E n \in DOMAIN listing : listing[n] = p.tool
           /\ Toolset!Exposes(setup.entries[i], p.tool)
<1> DEFINE E(t) == Toolset!Exposes(setup.entries[i], t)
<1>1. CASE listing = <<>>
  BY <1>1 DEF Toolset!WithFate
<1>2. ASSUME NEW t \in Tools, NEW u \in Tools \cup {BadName}, listing = <<t, u>>
      PROVE  p \in Toolset!WithFate(i, listing, "exposed") <=>
               /\ p \in [server : {i}, tool : Tools]
               /\ \E n \in DOMAIN listing : listing[n] = p.tool
               /\ E(p.tool)
  <2>1. DOMAIN listing = {1, 2} /\ listing[1] = t /\ listing[2] = u
    BY <1>2
  <2>2. Toolset!Fate(i, listing, 1) = "exposed" <=> E(t)
    BY <2>1 DEF Toolset!Fate, Toolset!ToolsetConstantsOK
  <2>3. Toolset!Fate(i, listing, 2) = "exposed" <=> u # BadName /\ E(u) /\ t # u
    BY <2>1 DEF Toolset!Fate, Toolset!ToolsetConstantsOK
  <2>4. p \in Toolset!WithFate(i, listing, "exposed") <=>
          \/ E(t) /\ p = [server |-> i, tool |-> t]
          \/ u # BadName /\ E(u) /\ t # u /\ p = [server |-> i, tool |-> u]
    BY <2>1, <2>2, <2>3 DEF Toolset!WithFate
  <2> HIDE DEF E
  <2>5. ASSUME p \in [server : {i}, tool : Tools], p.tool = t \/ p.tool = u, E(p.tool)
        PROVE  p \in Toolset!WithFate(i, listing, "exposed")
    <3>1. p = [server |-> i, tool |-> p.tool] /\ p.tool # BadName
      BY <2>5 DEF Toolset!ToolsetConstantsOK
    <3> QED BY <2>4, <2>5, <3>1
  <2>6. ASSUME p \in Toolset!WithFate(i, listing, "exposed")
        PROVE  p \in [server : {i}, tool : Tools] /\ (p.tool = t \/ p.tool = u) /\ E(p.tool)
    BY <2>4, <2>6
  <2> QED BY <2>1, <2>5, <2>6
<1> QED BY <1>1, <1>2 DEF Toolset!Listings

LEMMA FatePairs ==
  ASSUME NEW i \in Toolset!Servers, NEW listing \in Toolset!Listings, NEW fate
  PROVE  Toolset!WithFate(i, listing, fate) \in SUBSET Pairs
<1>1. \A n \in DOMAIN listing : listing[n] \in Tools \cup {BadName}
  BY DEF Toolset!Listings
<1> QED BY <1>1 DEF Toolset!WithFate, Pairs

LEMMA StartServerKeeps ==
  ASSUME Toolset!ToolsetConstantsOK, ToolsetIInv, NEW i \in Toolset!Servers, NEW listing \in Toolset!Listings,
         Toolset!StartServer(i, listing)
  PROVE  ToolsetIInv'
<1>1. /\ progress.pc = "starting" /\ progress.next = i /\ setup.entries[i].kind = "stdio"
      /\ trace' = [trace EXCEPT ![i] = listing] /\ setup' = setup
      /\ objects'.clients = Append(objects.clients, i) /\ objects'.failed = objects.failed
      /\ objects'.tools = objects.tools \cup Toolset!WithFate(i, listing, "exposed")
      /\ progress'.pc = "starting" /\ progress'.next = i + 1 /\ progress'.exit = progress.exit
  BY DEF Toolset!StartServer, Toolset!Starting, Toolset!Advance, ToolsetIInv, ToolsetTypes
<1>2. ToolsetTypes'
  <2>1. progress' \in [pc : CommandPlaces, next : Nat, exit : {None, 0, 1, 2, 130}]
    BY DEF Toolset!StartServer, Toolset!Advance, ToolsetIInv, ToolsetTypes
  <2>2. \A fate : Toolset!WithFate(i, listing, fate) \in SUBSET Pairs
    BY FatePairs
  <2>3. Append(objects.clients, i) \in Seq(Toolset!Servers)
    BY DEF ToolsetIInv, ToolsetTypes
  <2>4. objects' \in [clients : Seq(Toolset!Servers), tools : SUBSET Pairs, failed : SUBSET Toolset!Servers,
                      hidden : SUBSET Pairs, skipped : SUBSET Pairs]
    <3>1. objects \in [clients : Seq(Toolset!Servers), tools : SUBSET Pairs,
                      failed : SUBSET Toolset!Servers, hidden : SUBSET Pairs, skipped : SUBSET Pairs]
      BY DEF ToolsetIInv, ToolsetTypes
    <3>2. objects' = [objects EXCEPT !.clients = Append(@, i),
                                     !.tools = @ \cup Toolset!WithFate(i, listing, "exposed"),
                                     !.hidden = @ \cup Toolset!WithFate(i, listing, "hidden"),
                                     !.skipped = @ \cup Toolset!WithFate(i, listing, "skipped")]
      BY DEF Toolset!StartServer
    <3> QED BY <2>2, <2>3, <3>1, <3>2
  <2> QED BY <1>1, <2>1, <2>4 DEF ToolsetIInv, ToolsetTypes
<1>3. objects.clients \in Seq(Toolset!Servers) /\ i \in Nat /\ listing # None
  BY DEF ToolsetIInv, ToolsetTypes, Toolset!Servers, Toolset!ToolsetConstantsOK
<1>4. Tracked'
  <2>1. \A n \in 1..Len(objects.clients) : objects'.clients[n] = objects.clients[n]
    BY <1>1, <1>3
  <2>2. /\ objects'.clients[Len(objects.clients) + 1] = i
        /\ Len(objects'.clients) = Len(objects.clients) + 1 /\ Len(objects.clients) \in Nat
    BY <1>1, <1>3
  <2>3. ASSUME NEW j \in Toolset!Servers, trace'[j] # None
        PROVE  \E n \in 1..Len(objects'.clients) : objects'.clients[n] = j
    <3>1. CASE j = i
      BY <2>2, <3>1
    <3>2. CASE j # i
      <4>1. trace[j] # None
        BY <1>1, <2>3, <3>2 DEF ToolsetIInv, ToolsetTypes
      <4>2. PICK n \in 1..Len(objects.clients) : objects.clients[n] = j
        BY <4>1 DEF ToolsetIInv, Tracked
      <4> QED BY <2>1, <2>2, <4>2
    <3> QED BY <3>1, <3>2
  <2> QED BY <2>3 DEF Tracked
<1>5. ExitOK'
  BY <1>1 DEF ToolsetIInv, ExitOK
<1>6. Upto'
  <2>1. i \notin objects.failed /\ objects.failed \subseteq Toolset!Servers /\ Toolset!Servers \subseteq Nat
    BY <1>1, <1>3 DEF ToolsetIInv, Upto, ToolsetTypes, Toolset!Servers, Toolset!ToolsetConstantsOK
  <2>2. \A j \in Toolset!Servers : trace'[j] = IF j = i THEN listing ELSE trace[j]
    BY <1>1 DEF ToolsetIInv, ToolsetTypes
  <2>3. \A j \in Toolset!Servers : j \in Nat /\ (j < i + 1 <=> j < i \/ j = i)
    BY DEF Toolset!Servers
  <2>4. \A j \in objects'.failed : j < i + 1
    BY <1>1, <2>1, <2>3 DEF ToolsetIInv, Upto
  <2>5. \A j \in Toolset!Servers : trace[j] # None <=>
          j < i /\ setup.entries[j].kind = "stdio" /\ j \notin objects.failed
    BY <1>1 DEF ToolsetIInv, Upto
  <2>6. \A j \in Toolset!Servers : trace'[j] # None <=>
          j < i + 1 /\ setup.entries[j].kind = "stdio" /\ j \notin objects'.failed
    BY <1>1, <1>3, <2>1, <2>2, <2>3, <2>5
  <2> QED BY <1>1, <2>4, <2>6 DEF Upto
<1>7. Registered'
  <2>1. trace[i] = None
    BY <1>1, <1>3 DEF ToolsetIInv, Upto
  <2>2. \A j \in Toolset!Servers : \A t : Offers(j, t)' <=>
          IF j = i THEN \E n \in DOMAIN listing : listing[n] = t ELSE Offers(j, t)
    BY <1>1, <1>3 DEF ToolsetIInv, ToolsetTypes, Offers
  <2>3. ASSUME NEW p
        PROVE  p \in objects'.tools <=>
                 /\ p \in [server : Toolset!Servers, tool : Tools]
                 /\ Offers(p.server, p.tool)' /\ Toolset!Exposes(setup.entries[p.server], p.tool)
    <3>1. p \in Toolset!WithFate(i, listing, "exposed") <=>
            /\ p \in [server : {i}, tool : Tools]
            /\ \E n \in DOMAIN listing : listing[n] = p.tool
            /\ Toolset!Exposes(setup.entries[i], p.tool)
      BY ExposedByFate
    <3>2. p \in objects.tools <=>
            /\ p \in [server : Toolset!Servers, tool : Tools]
            /\ Offers(p.server, p.tool) /\ Toolset!Exposes(setup.entries[p.server], p.tool)
      BY <1>1 DEF ToolsetIInv, Registered
    <3>3. p \in objects'.tools <=> p \in objects.tools \/ p \in Toolset!WithFate(i, listing, "exposed")
      BY <1>1
    <3>4. CASE p \in [server : Toolset!Servers, tool : Tools]
      <4>1. p.server \in Toolset!Servers /\ (p \in [server : {i}, tool : Tools] <=> p.server = i)
        BY <3>4
      <4>2. CASE p.server = i
        <5>1. ~Offers(p.server, p.tool)
          BY <2>1, <4>2 DEF Offers
        <5> QED BY <2>2, <3>1, <3>2, <3>3, <3>4, <4>1, <4>2, <5>1
      <4>3. CASE p.server # i
        BY <2>2, <3>1, <3>2, <3>3, <3>4, <4>1, <4>3
      <4> QED BY <4>2, <4>3
    <3>5. CASE p \notin [server : Toolset!Servers, tool : Tools]
      <4>1. p \notin [server : {i}, tool : Tools]
        BY <3>5
      <4> QED BY <3>1, <3>2, <3>3, <3>5, <4>1
    <3> QED BY <3>4, <3>5
  <2> QED BY <1>1, <2>3 DEF Registered
<1> QED BY <1>2, <1>4, <1>5, <1>6, <1>7 DEF ToolsetIInv

\* Steps that leave the clients, the servers and the tools.
LEMMA QuietStep ==
  ASSUME ToolsetTypes, ToolsetTypes', Tracked, Registered, setup' = setup, trace' = trace,
         objects'.clients = objects.clients, objects'.tools = objects.tools,
         progress'.pc \in {"begin", "starting", "running"} =>
           progress.pc \in {"begin", "starting", "running"}
  PROVE  Tracked' /\ Registered'
BY DEF Tracked, Registered, Offers

LEMMA FailServerKeeps ==
  ASSUME Toolset!ToolsetConstantsOK, ToolsetIInv, NEW i \in Toolset!Servers, Toolset!FailServer(i)
  PROVE  ToolsetIInv'
<1>1. /\ progress.pc = "starting" /\ progress.next = i /\ setup.entries[i].kind = "stdio"
      /\ trace' = trace /\ setup' = setup
      /\ objects'.clients = objects.clients /\ objects'.failed = objects.failed \cup {i}
      /\ objects'.tools = objects.tools
      /\ progress'.pc = "starting" /\ progress'.next = i + 1 /\ progress'.exit = progress.exit
  BY DEF Toolset!FailServer, Toolset!AfterFailure, Toolset!Starting, Toolset!Advance, ToolsetIInv, ToolsetTypes
<1>2. ToolsetTypes'
  <2>1. progress' \in [pc : CommandPlaces, next : Nat, exit : {None, 0, 1, 2, 130}]
    BY DEF Toolset!FailServer, Toolset!Advance, ToolsetIInv, ToolsetTypes
  <2>2. objects' \in [clients : Seq(Toolset!Servers), tools : SUBSET Pairs, failed : SUBSET Toolset!Servers,
                      hidden : SUBSET Pairs, skipped : SUBSET Pairs]
    <3>1. objects.failed \cup {i} \in SUBSET Toolset!Servers
      BY DEF ToolsetIInv, ToolsetTypes
    <3> QED BY <3>1 DEF Toolset!FailServer, ToolsetIInv, ToolsetTypes
  <2> QED BY <1>1, <2>1, <2>2 DEF ToolsetIInv, ToolsetTypes
<1>3. Tracked' /\ Registered'
  BY <1>1, <1>2, QuietStep DEF ToolsetIInv
<1>4. ExitOK'
  BY <1>1 DEF ToolsetIInv, ExitOK, Toolset!ToolsetConstantsOK
<1>5. Upto'
  <2>1. i \in Nat /\ \A j \in Toolset!Servers : j \in Nat /\ (j < i + 1 <=> j < i \/ j = i)
    BY DEF Toolset!Servers
  <2>2. objects.failed \subseteq Toolset!Servers
    BY DEF ToolsetIInv, ToolsetTypes
  <2>3. \A j \in objects'.failed : j < i + 1
    BY <1>1, <2>1, <2>2 DEF ToolsetIInv, Upto
  <2>4. \A j \in Toolset!Servers : trace[j] # None <=>
          j < i /\ setup.entries[j].kind = "stdio" /\ j \notin objects.failed
    BY <1>1 DEF ToolsetIInv, Upto
  <2>5. \A j \in Toolset!Servers : trace'[j] # None <=>
          j < i + 1 /\ setup.entries[j].kind = "stdio" /\ j \notin objects'.failed
    <3>1. ~(i < i) /\ \A j : j \in objects'.failed <=> j \in objects.failed \/ j = i
      BY <1>1, <2>1
    <3> SUFFICES ASSUME NEW j \in Toolset!Servers
                 PROVE  trace[j] # None <=>
                          j < i + 1 /\ setup.entries[j].kind = "stdio" /\ j \notin objects'.failed
      BY <1>1
    <3>2. CASE j = i
      BY <2>4, <3>1, <3>2
    <3>3. CASE j # i
      BY <2>1, <2>4, <3>1, <3>3
    <3> QED BY <3>2, <3>3
  <2> QED BY <1>1, <2>3, <2>5 DEF Upto
<1> QED BY <1>2, <1>3, <1>4, <1>5 DEF ToolsetIInv

LEMMA SkipKeeps ==
  ASSUME Toolset!ToolsetConstantsOK, ToolsetIInv, NEW i \in Toolset!Servers, Toolset!Skip(i)
  PROVE  ToolsetIInv'
<1>1. /\ progress.pc = "starting" /\ progress.next = i /\ setup.entries[i].kind # "stdio"
      /\ UNCHANGED <<setup, objects, trace>>
      /\ progress'.pc = "starting" /\ progress'.next = i + 1 /\ progress'.exit = progress.exit
      /\ progress' \in [pc : CommandPlaces, next : Nat, exit : {None, 0, 1, 2, 130}]
  BY DEF Toolset!Skip, Toolset!Starting, Toolset!Advance, ToolsetIInv, ToolsetTypes
<1>2. ToolsetTypes'
  BY <1>1 DEF ToolsetIInv, ToolsetTypes
<1>3. Tracked' /\ Registered'
  BY <1>1, <1>2, QuietStep DEF ToolsetIInv
<1>4. ExitOK'
  BY <1>1 DEF ToolsetIInv, ExitOK
<1>5. Upto'
  <2>1. i \in Nat /\ \A j \in Toolset!Servers : j \in Nat /\ (j < i + 1 <=> j < i \/ j = i)
    BY DEF Toolset!Servers
  <2>2. objects.failed \subseteq Toolset!Servers
    BY DEF ToolsetIInv, ToolsetTypes
  <2>3. \A j \in objects'.failed : j < i + 1
    BY <1>1, <2>1, <2>2 DEF ToolsetIInv, Upto
  <2>4. \A j \in Toolset!Servers : trace[j] # None <=>
          j < i /\ setup.entries[j].kind = "stdio" /\ j \notin objects.failed
    BY <1>1 DEF ToolsetIInv, Upto
  <2>5. \A j \in Toolset!Servers : trace'[j] # None <=>
          j < i + 1 /\ setup.entries[j].kind = "stdio" /\ j \notin objects'.failed
    BY <1>1, <2>1, <2>4
  <2> QED BY <1>1, <2>3, <2>5 DEF Upto
<1> QED BY <1>2, <1>3, <1>4, <1>5 DEF ToolsetIInv

\* The steps that move the command alone.
LEMMA MoveKeeps ==
  ASSUME Toolset!ToolsetConstantsOK, ToolsetIInv, UNCHANGED <<setup, objects, trace>>,
         progress' \in [pc : CommandPlaces, next : Nat, exit : {None, 0, 1, 2, 130}],
         progress'.next = progress.next, progress'.pc # "begin",
         progress'.pc \in {"starting", "running"} =>
           progress.pc \in {"begin", "starting"} /\ progress'.exit = None,
         progress'.pc = "running" => progress.next > ServerCount /\ objects.failed = {},
         progress'.pc = "ended" => objects.clients = <<>>,
         progress'.exit = 0 => objects.failed = {}
  PROVE  ToolsetIInv'
<1>1. ToolsetTypes'
  BY DEF ToolsetIInv, ToolsetTypes
<1>2. Tracked' /\ Registered'
  BY <1>1, QuietStep DEF ToolsetIInv, ToolsetTypes, CommandPlaces
<1>3. ExitOK'
  BY DEF ExitOK, ToolsetIInv
<1>4. Upto'
  BY DEF Upto, ToolsetIInv
<1> QED BY <1>1, <1>2, <1>3, <1>4 DEF ToolsetIInv

LEMMA CommandKeeps ==
  ASSUME Toolset!ToolsetConstantsOK, ToolsetIInv,
         \/ Toolset!LoadConfig \/ Toolset!ReportFinished \/ Toolset!Started \/ Toolset!Closed
         \/ \E i \in Toolset!Servers : Toolset!InterruptStart(i)
         \/ \E code \in {0, 2, 130} : Toolset!EndRun(code)
  PROVE  ToolsetIInv'
<1>1. progress \in [pc : CommandPlaces, next : Nat, exit : {None, 0, 1, 2, 130}]
  BY DEF ToolsetIInv, ToolsetTypes
<1>2. CASE Toolset!LoadConfig
  <2>1. /\ progress'.next = progress.next /\ progress'.exit \in {2, progress.exit}
        /\ \/ progress'.pc = "starting" /\ progress'.exit = progress.exit
           \/ progress'.pc = "ended"
        /\ progress' \in [pc : CommandPlaces, next : Nat, exit : {None, 0, 1, 2, 130}]
        /\ progress.pc = "begin" /\ UNCHANGED <<setup, objects, trace>>
    <3>1. CASE progress' = [progress EXCEPT !.pc = "ended", !.exit = 2]
      BY <1>1, <1>2, <3>1 DEF Toolset!LoadConfig, CommandPlaces
    <3>2. CASE progress' = [progress EXCEPT !.pc = "starting"]
      BY <1>1, <1>2, <3>2 DEF Toolset!LoadConfig, CommandPlaces
    <3> QED BY <1>2, <3>1, <3>2 DEF Toolset!LoadConfig, Toolset!Exit, Toolset!Goto
  <2> QED BY <2>1, MoveKeeps DEF ToolsetIInv, Upto, ExitOK, Toolset!ToolsetConstantsOK
<1>3. CASE Toolset!ReportFinished
  <2>1. /\ progress'.next = progress.next /\ progress'.pc = "ended"
        /\ progress' \in [pc : CommandPlaces, next : Nat, exit : {None, 0, 1, 2, 130}]
        /\ progress.pc = "begin" /\ UNCHANGED <<setup, objects, trace>>
    BY <1>1, <1>3 DEF Toolset!ReportFinished, Toolset!Exit, CommandPlaces
  <2> QED BY <2>1, MoveKeeps DEF ToolsetIInv, Upto
<1>4. CASE Toolset!Started
  <2>1. /\ progress.pc = "starting" /\ progress.next > ServerCount
        /\ UNCHANGED <<setup, objects, trace>>
        /\ \/ progress' = [progress EXCEPT !.pc = "closing", !.exit = 0] /\ objects.failed = {}
           \/ progress' = [progress EXCEPT !.pc = "closing", !.exit = 1]
           \/ progress' = [progress EXCEPT !.pc = "closing", !.exit = 2]
           \/ progress' = [progress EXCEPT !.pc = "running"] /\ objects.failed = {}
    BY <1>4 DEF Toolset!Started
  <2>2. /\ progress'.next = progress.next
        /\ progress' \in [pc : CommandPlaces, next : Nat, exit : {None, 0, 1, 2, 130}]
        /\ \/ progress'.pc = "closing" /\ (progress'.exit = 0 => objects.failed = {})
           \/ progress'.pc = "running" /\ progress'.exit = progress.exit /\ objects.failed = {}
    <3>1. ASSUME NEW x \in {0, 1, 2}, progress' = [progress EXCEPT !.pc = "closing", !.exit = x]
          PROVE  /\ progress'.next = progress.next /\ progress'.pc = "closing" /\ progress'.exit = x
                 /\ progress' \in [pc : CommandPlaces, next : Nat, exit : {None, 0, 1, 2, 130}]
      BY <1>1, <3>1 DEF CommandPlaces
    <3>2. ASSUME progress' = [progress EXCEPT !.pc = "running"]
          PROVE  /\ progress'.next = progress.next /\ progress'.pc = "running"
                 /\ progress'.exit = progress.exit
                 /\ progress' \in [pc : CommandPlaces, next : Nat, exit : {None, 0, 1, 2, 130}]
      BY <1>1, <3>2 DEF CommandPlaces
    <3> QED BY <2>1, <3>1, <3>2
  <2> QED BY <2>1, <2>2, MoveKeeps DEF ToolsetIInv, ExitOK
<1>5. CASE Toolset!Closed
  <2>1. /\ progress'.next = progress.next /\ progress'.pc = "ended"
        /\ progress'.exit = progress.exit /\ objects.clients = <<>>
        /\ progress' \in [pc : CommandPlaces, next : Nat, exit : {None, 0, 1, 2, 130}]
        /\ UNCHANGED <<setup, objects, trace>>
    BY <1>1, <1>5 DEF Toolset!Closed, Toolset!Goto, CommandPlaces
  <2> QED BY <2>1, MoveKeeps DEF ToolsetIInv, ExitOK
<1>6. ASSUME NEW i \in Toolset!Servers, Toolset!InterruptStart(i)
      PROVE  ToolsetIInv'
  <2>1. /\ progress'.next = progress.next /\ progress'.pc = "closing" /\ progress'.exit = 130
        /\ progress' \in [pc : CommandPlaces, next : Nat, exit : {None, 0, 1, 2, 130}]
        /\ UNCHANGED <<setup, objects, trace>>
    BY <1>1, <1>6 DEF Toolset!InterruptStart, CommandPlaces
  <2> QED BY <2>1, MoveKeeps
<1>7. ASSUME NEW code \in {0, 2, 130}, Toolset!EndRun(code)
      PROVE  ToolsetIInv'
  <2>1. /\ progress'.next = progress.next /\ progress'.pc = "closing" /\ progress.pc = "running"
        /\ progress' \in [pc : CommandPlaces, next : Nat, exit : {None, 0, 1, 2, 130}]
        /\ UNCHANGED <<setup, objects, trace>>
    BY <1>1, <1>7 DEF Toolset!EndRun, CommandPlaces
  <2> QED BY <2>1, MoveKeeps DEF ToolsetIInv, Upto
<1> QED BY <1>2, <1>3, <1>4, <1>5, <1>6, <1>7

LEMMA CloseNextKeeps ==
  ASSUME Toolset!ToolsetConstantsOK, ToolsetIInv, Toolset!CloseNext
  PROVE  ToolsetIInv'
<1> DEFINE c == objects.clients
           n == Len(c)
<1>1. /\ progress.pc = "closing" /\ progress' = progress /\ setup' = setup /\ c # <<>>
      /\ objects' = [objects EXCEPT !.clients = SubSeq(c, 1, n - 1)]
      /\ trace' = [trace EXCEPT ![c[n]] = None]
  BY DEF Toolset!CloseNext
<1>2. c \in Seq(Toolset!Servers) /\ n \in Nat \ {0} /\ c[n] \in Toolset!Servers
  BY <1>1 DEF ToolsetIInv, ToolsetTypes
<1>3. /\ SubSeq(c, 1, n - 1) \in Seq(Toolset!Servers) /\ Len(SubSeq(c, 1, n - 1)) = n - 1
      /\ \A m \in 1..(n - 1) : SubSeq(c, 1, n - 1)[m] = c[m]
  BY <1>2
<1>4. objects'.clients = SubSeq(c, 1, n - 1) /\ objects'.failed = objects.failed
  BY <1>1 DEF ToolsetIInv, ToolsetTypes
<1>5. ToolsetTypes'
  BY <1>1, <1>2, <1>3 DEF ToolsetIInv, ToolsetTypes
<1>6. Tracked'
  <2>1. ASSUME NEW j \in Toolset!Servers, trace'[j] # None
        PROVE  \E m \in 1..Len(objects'.clients) : objects'.clients[m] = j
    <3>1. trace[j] # None /\ j # c[n]
      BY <1>1, <1>2, <2>1 DEF ToolsetIInv, ToolsetTypes
    <3>2. PICK m \in 1..n : c[m] = j
      BY <3>1 DEF ToolsetIInv, Tracked
    <3>3. m \in 1..(n - 1)
      BY <1>2, <3>1, <3>2
    <3> QED BY <1>2, <1>3, <1>4, <3>2, <3>3
  <2> QED BY <2>1 DEF Tracked
<1>7. ExitOK' /\ Upto' /\ Registered'
  BY <1>1, <1>4 DEF ToolsetIInv, ExitOK, Upto, Registered
<1> QED BY <1>5, <1>6, <1>7 DEF ToolsetIInv

LEMMA ToolsetNext ==
  ASSUME Toolset!ToolsetConstantsOK, ToolsetIInv, [Toolset!Next]_Toolset!toolsetVars
  PROVE  ToolsetIInv'
<1>1. CASE UNCHANGED Toolset!toolsetVars
  BY <1>1 DEF Toolset!toolsetVars, ToolsetIInv, ToolsetTypes, Tracked, ExitOK, Upto, Registered, Offers
<1>2. CASE Toolset!Next
  BY <1>1, <1>2, StartServerKeeps, FailServerKeeps, SkipKeeps, CommandKeeps, CloseNextKeeps
     DEF Toolset!Next, Toolset!Terminated
<1> QED BY <1>1, <1>2

LEMMA ClosedFromInv ==
  ASSUME ToolsetIInv
  PROVE  Toolset!NoServerOutlivesCommand
<1>1. ASSUME progress.pc = "ended", NEW i \in Toolset!Servers
      PROVE  trace[i] = None
  <2>1. Len(objects.clients) = 0
    BY <1>1 DEF ToolsetIInv, ExitOK
  <2> QED BY <2>1 DEF ToolsetIInv, Tracked
<1> QED BY <1>1 DEF ToolsetIInv, ExitOK, Toolset!NoServerOutlivesCommand

LEMMA ConfiguredFromInv ==
  ASSUME Toolset!ToolsetConstantsOK, ToolsetIInv
  PROVE  Toolset!RunSeesConfiguredTools
<1>1. ASSUME progress.pc = "running"
      PROVE  \A i \in Toolset!Servers : setup.entries[i].kind = "stdio" <=> trace[i] # None
  <2>1. progress.next \in Nat /\ ServerCount \in Nat /\ Toolset!Servers = 1..ServerCount
    BY DEF ToolsetIInv, ToolsetTypes, Toolset!Servers, Toolset!ToolsetConstantsOK
  <2> QED BY <1>1, <2>1 DEF ToolsetIInv, Upto
<1>2. ASSUME progress.pc = "running", NEW p
      PROVE  p \in Toolset!RuntimeTools <=>
               /\ p \in [server : Toolset!Servers, tool : Tools]
               /\ trace[p.server] # None
               /\ \E n \in DOMAIN trace[p.server] : trace[p.server][n] = p.tool
               /\ p.tool \notin setup.entries[p.server].denied
               /\ setup.entries[p.server].allowed # None =>
                    p.tool \in setup.entries[p.server].allowed
  BY <1>2 DEF ToolsetIInv, Registered, Toolset!RuntimeTools, Offers, Toolset!Exposes
<1> QED BY <1>1, <1>2 DEF Toolset!RunSeesConfiguredTools

ToolsetInv == part = "toolset" => ToolsetIInv

LEMMA ToolsetInvariance == LibrarySpec => []ToolsetInv
<1>1. LibraryInit => ToolsetInv
  BY PartInits, ToolsetInitial, LibraryConstants DEF ToolsetInv
<1>2. ASSUME ToolsetInv, [LibraryNext]_libraryVars
      PROVE  ToolsetInv'
  <2>1. CASE part = "toolset"
    <3>1. [Toolset!Next]_Toolset!toolsetVars
      BY <1>2, <2>1, PartSteps DEF others, Toolset!toolsetVars
    <3> QED BY <1>2, <2>1, <3>1, LibraryConstants, ToolsetNext DEF ToolsetInv
  <2>2. CASE part # "toolset"
    BY <1>2, <2>2, PartSteps DEF ToolsetInv
  <2> QED BY <2>1, <2>2
<1> QED BY <1>1, <1>2, PTL DEF LibrarySpec

\* McpToolset.close and the callers of start: whatever fails or is
\* interrupted, the command leaves no server, and 0 means that none failed.
THEOREM ServersClosed == LibrarySpec => []NoServerOutlivesCommand
<1>1. ToolsetInv => NoServerOutlivesCommand
  BY ClosedFromInv DEF ToolsetInv, NoServerOutlivesCommand
<1> QED BY <1>1, ToolsetInvariance, PTL

\* McpToolset.start and build_runtime_tools: a run has every configured stdio
\* server and exactly the tools they listed and the lists expose.
THEOREM ToolsAsConfigured == LibrarySpec => []RunSeesConfiguredTools
<1>1. ToolsetInv => RunSeesConfiguredTools
  BY ConfiguredFromInv, LibraryConstants DEF ToolsetInv, RunSeesConfiguredTools
<1> QED BY <1>1, ToolsetInvariance, PTL

-----------------------------------------------------------------------------
(* Fan-out *)

\* The operators of FiniteSets, seen through the instance.
LEMMA FanSets ==
  /\ \A S : Fan!Cardinality(S) = Cardinality(S)
  /\ \A S : Fan!IsFiniteSet(S) <=> IsFiniteSet(S)
<1>1. \A S : Fan!Cardinality(S) = Cardinality(S)
  BY Zenon DEF Fan!Cardinality, Cardinality
<1>2. \A S : Fan!IsFiniteSet(S) <=> IsFiniteSet(S)
  BY Zenon DEF Fan!IsFiniteSet, IsFiniteSet
<1> QED BY <1>1, <1>2

LEMMA FanConstants ==
  /\ IsFiniteSet(Workers)
  /\ MinInFlight \in Nat \ {0} /\ MaxInFlight \in Nat /\ MinInFlight <= MaxInFlight
BY LibraryConstants, FanSets DEF Fan!FanOutConstantsOK

Pcs == {"free", "wants", "asleep", "woken", "inside", "ran"}
ThreadShape(t) == t \in [pc : Pcs, task : {t.task}, outcome : {t.outcome}]

FanTypes ==
  /\ objects \in [inFlight : Int, limit : Int, streak : Int]
  /\ progress = [w \in Workers |-> progress[w]]
  /\ \A w \in Workers : ThreadShape(progress[w])

\* _in_flight counts the threads between acquire and release, and a thread
\* that sleeps has seen the limit reached since anything last changed.
CountsThreads ==
  /\ objects.inFlight = Cardinality(Fan!Inside)
  /\ objects.inFlight <= MaxInFlight /\ objects.limit <= MaxInFlight
  /\ \A w \in Workers : progress[w].pc = "asleep" => objects.inFlight >= objects.limit

FanInv == part = "fan-out" => FanTypes /\ CountsThreads

LEMMA ThreadFields ==
  ASSUME NEW t, ThreadShape(t), NEW pc \in Pcs, NEW o, NEW u,
         u = [t EXCEPT !.pc = pc] \/ u = [t EXCEPT !.pc = pc, !.outcome = o]
  PROVE  ThreadShape(u) /\ u.pc = pc
BY DEF ThreadShape

\* What a step does to the limiter and to the places of the threads decides.
LEMMA FanStep ==
  ASSUME FanTypes, CountsThreads, FanTypes',
         objects'.inFlight = objects.inFlight, objects'.limit = objects.limit,
         \A v \in Workers : progress'[v].pc = "inside" <=> progress[v].pc = "inside",
         \A v \in Workers : progress'[v].pc = "asleep" =>
                              progress[v].pc = "asleep" \/ objects.inFlight >= objects.limit
  PROVE  CountsThreads'
<1>1. Fan!Inside' = Fan!Inside
  BY DEF Fan!Inside
<1> QED BY <1>1 DEF CountsThreads

\* One thread goes on to pc, with an outcome or without.
LEMMA OneThread ==
  ASSUME FanTypes, NEW w \in Workers, NEW pc \in Pcs, NEW o,
         \/ progress' = [progress EXCEPT ![w].pc = pc]
         \/ progress' = [progress EXCEPT ![w].pc = pc, ![w].outcome = o]
  PROVE  /\ progress' = [v \in Workers |-> progress'[v]]
         /\ \A v \in Workers : ThreadShape(progress'[v])
         /\ progress'[w].pc = pc /\ \A v \in Workers \ {w} : progress'[v] = progress[v]
<1>1. ThreadShape(progress[w])
  BY DEF FanTypes
<1>2. \/ progress' = [progress EXCEPT ![w] = [progress[w] EXCEPT !.pc = pc]]
      \/ progress' = [progress EXCEPT ![w] = [progress[w] EXCEPT !.pc = pc, !.outcome = o]]
  <2>1. progress = [v \in Workers |-> progress[v]]
    BY DEF FanTypes
  <2> QED BY <2>1
<1>3. PICK t : /\ t = [progress[w] EXCEPT !.pc = pc] \/ t = [progress[w] EXCEPT !.pc = pc, !.outcome = o]
               /\ progress' = [progress EXCEPT ![w] = t]
  <2>1. CASE progress' = [progress EXCEPT ![w] = [progress[w] EXCEPT !.pc = pc]]
    <3> DEFINE t == [progress[w] EXCEPT !.pc = pc]
    <3>1. t = [progress[w] EXCEPT !.pc = pc] /\ progress' = [progress EXCEPT ![w] = t]
      BY <2>1
    <3> HIDE DEF t
    <3> QED BY <3>1, Zenon
  <2>2. CASE progress' = [progress EXCEPT ![w] = [progress[w] EXCEPT !.pc = pc, !.outcome = o]]
    <3> DEFINE t == [progress[w] EXCEPT !.pc = pc, !.outcome = o]
    <3>1. t = [progress[w] EXCEPT !.pc = pc, !.outcome = o] /\ progress' = [progress EXCEPT ![w] = t]
      BY <2>2
    <3> HIDE DEF t
    <3> QED BY <3>1
  <2> QED BY <1>2, <2>1, <2>2
<1>4. ThreadShape(t) /\ t.pc = pc
  BY <1>1, <1>3 DEF ThreadShape
<1> QED BY <1>3, <1>4 DEF FanTypes

LEMMA AcquireKeeps ==
  ASSUME FanTypes, CountsThreads, NEW w \in Workers, Fan!Acquire(w)
  PROVE  FanTypes' /\ CountsThreads'
<1>1. CASE /\ ~Fan!Full
           /\ objects' = [objects EXCEPT !.inFlight = objects.inFlight + 1]
           /\ Fan!Go(w, "inside")
  <2>1. progress' = [progress EXCEPT ![w].pc = "inside"]
    BY <1>1 DEF Fan!Go
  <2>2. /\ progress' = [v \in Workers |-> progress'[v]]
        /\ \A v \in Workers : ThreadShape(progress'[v])
        /\ progress'[w].pc = "inside" /\ \A v \in Workers \ {w} : progress'[v] = progress[v]
    BY <2>1, OneThread DEF Pcs
  <2>3. /\ objects' \in [inFlight : Int, limit : Int, streak : Int]
        /\ objects'.inFlight = objects.inFlight + 1 /\ objects'.limit = objects.limit
        /\ objects.inFlight \in Int /\ objects.limit \in Int
        /\ objects.inFlight < objects.limit
    BY <1>1 DEF FanTypes, Fan!Full
  <2>4. w \notin Fan!Inside /\ Fan!Inside' = Fan!Inside \cup {w}
    <3>1. progress[w].pc # "inside"
      BY DEF Fan!Acquire
    <3> QED BY <2>2, <3>1 DEF Fan!Inside
  <2>5. Cardinality(Fan!Inside') = Cardinality(Fan!Inside) + 1
    <3>1. IsFiniteSet(Fan!Inside)
      BY FanConstants, FS_Subset DEF Fan!Inside
    <3> QED BY <2>4, <3>1, FS_AddElement
  <2>6. FanTypes'
    BY <2>2, <2>3 DEF FanTypes
  <2>7. \A v \in Workers : progress'[v].pc # "asleep"
    BY <2>2, <2>3 DEF CountsThreads
  <2> QED BY <2>3, <2>5, <2>6, <2>7, FanConstants DEF CountsThreads
<1>2. CASE Fan!Full /\ objects' = objects /\ Fan!Go(w, "asleep")
  <2>1. progress' = [progress EXCEPT ![w].pc = "asleep"]
    BY <1>2 DEF Fan!Go
  <2>2. /\ progress' = [v \in Workers |-> progress'[v]]
        /\ \A v \in Workers : ThreadShape(progress'[v])
        /\ progress'[w].pc = "asleep" /\ \A v \in Workers \ {w} : progress'[v] = progress[v]
    BY <2>1, OneThread DEF Pcs
  <2>3. FanTypes' /\ progress[w].pc # "inside" /\ objects.inFlight >= objects.limit
    BY <1>2, <2>2 DEF FanTypes, Fan!Full, Fan!Acquire
  <2> QED BY <1>2, <2>2, <2>3, FanStep
<1>3. CASE objects' = objects /\ progress' = [progress EXCEPT ![w].pc = "ran", ![w].outcome = "failed"]
  <2>1. /\ progress' = [v \in Workers |-> progress'[v]]
        /\ \A v \in Workers : ThreadShape(progress'[v])
        /\ progress'[w].pc = "ran" /\ \A v \in Workers \ {w} : progress'[v] = progress[v]
    BY <1>3, OneThread DEF Pcs
  <2>2. FanTypes' /\ progress[w].pc # "inside"
    BY <1>3, <2>1 DEF FanTypes, Fan!Acquire
  <2> QED BY <1>3, <2>1, <2>2, FanStep
<1> QED BY <1>1, <1>2, <1>3 DEF Fan!Acquire

LEMMA LimiterFields ==
  ASSUME NEW l \in [inFlight : Int, limit : Int, streak : Int], NEW a \in Int, NEW b \in Int,
         NEW u, u = [l EXCEPT !.streak = a, !.limit = b]
  PROVE  u \in [inFlight : Int, limit : Int, streak : Int] /\ u.inFlight = l.inFlight /\ u.limit = b
OBVIOUS

\* release: one thread leaves, the limit moves by at most one and stays at
\* most max_in_flight, and nobody sleeps any more.
LEMMA FanReleaseKeeps ==
  ASSUME FanTypes, CountsThreads, NEW w \in Workers, Fan!Release(w)
  PROVE  FanTypes' /\ CountsThreads'
<1>1. PICK outcome \in Fan!Outcomes :
        /\ objects' = Fan!Adapted([objects EXCEPT !.inFlight = objects.inFlight - 1], outcome = "ok")
        /\ progress' = Fan!Woken([progress EXCEPT ![w].pc = "ran", ![w].outcome = outcome])
  BY DEF Fan!Release
<1>2. /\ objects' \in [inFlight : Int, limit : Int, streak : Int]
      /\ objects'.inFlight = objects.inFlight - 1
      /\ objects'.limit <= MaxInFlight
  <2> DEFINE l == [objects EXCEPT !.inFlight = objects.inFlight - 1]
  <2>1. /\ l \in [inFlight : Int, limit : Int, streak : Int]
        /\ l.inFlight = objects.inFlight - 1 /\ l.limit <= MaxInFlight
    BY DEF FanTypes, CountsThreads
  <2>2. objects' = Fan!Adapted(l, outcome = "ok")
    BY <1>1
  <2> HIDE DEF l
  <2>3. MaxInFlight \in Int
    BY FanConstants
  <2>4. CASE outcome = "ok"
    <3>1. objects' = [l EXCEPT !.streak = 0,
                               !.limit = IF setup.adaptive /\ l.limit < MaxInFlight THEN l.limit + 1
                                                                                    ELSE l.limit]
      BY <2>2, <2>4 DEF Fan!Adapted
    <3> DEFINE b == IF setup.adaptive /\ l.limit < MaxInFlight THEN l.limit + 1 ELSE l.limit
    <3>2. b \in Int /\ b <= MaxInFlight /\ 0 \in Int
      BY <2>1, <2>3
    <3>3. objects' = [l EXCEPT !.streak = 0, !.limit = b]
      BY <3>1
    <3> HIDE DEF b
    <3>4. /\ objects' \in [inFlight : Int, limit : Int, streak : Int]
          /\ objects'.inFlight = l.inFlight /\ objects'.limit = b
      BY <2>1, <3>2, <3>3, LimiterFields, Zenon
    <3> QED BY <2>1, <3>2, <3>4
  <2>5. CASE outcome # "ok"
    <3>1. objects' = [l EXCEPT !.streak = l.streak + 1,
                               !.limit = IF setup.adaptive /\ l.limit > MinInFlight THEN l.limit - 1
                                                                                    ELSE l.limit]
      BY <2>2, <2>5 DEF Fan!Adapted
    <3> DEFINE b == IF setup.adaptive /\ l.limit > MinInFlight THEN l.limit - 1 ELSE l.limit
    <3>2. b \in Int /\ b <= MaxInFlight /\ l.streak + 1 \in Int
      BY <2>1, <2>3
    <3>3. objects' = [l EXCEPT !.streak = l.streak + 1, !.limit = b]
      BY <3>1
    <3> HIDE DEF b
    <3>4. /\ objects' \in [inFlight : Int, limit : Int, streak : Int]
          /\ objects'.inFlight = l.inFlight /\ objects'.limit = b
      BY <2>1, <3>2, <3>3, LimiterFields, Zenon
    <3> QED BY <2>1, <3>2, <3>4
  <2> QED BY <2>4, <2>5
<1>3. /\ progress' = [v \in Workers |-> progress'[v]]
      /\ \A v \in Workers : ThreadShape(progress'[v]) /\ progress'[v].pc # "asleep"
      /\ \A v \in Workers : progress'[v].pc = "inside" <=> progress[v].pc = "inside" /\ v # w
  <2> DEFINE ts == [progress EXCEPT ![w].pc = "ran", ![w].outcome = outcome]
  <2>1. /\ ThreadShape(ts[w]) /\ ts[w].pc = "ran"
        /\ \A v \in Workers \ {w} : ts[v] = progress[v]
    <3>1. ThreadShape(progress[w]) /\ progress = [v \in Workers |-> progress[v]]
      BY DEF FanTypes
    <3>2. ts[w] = [progress[w] EXCEPT !.pc = "ran", !.outcome = outcome]
      BY <3>1
    <3>3. \A v \in Workers \ {w} : ts[v] = progress[v]
      BY <3>1
    <3> HIDE DEF ts
    <3>4. "ran" \in Pcs
      BY DEF Pcs
    <3>5. ThreadShape(ts[w]) /\ ts[w].pc = "ran"
      BY <3>1, <3>2, <3>4 DEF ThreadShape
    <3> QED BY <3>3, <3>5
  <2>2. \A v \in Workers : ThreadShape(ts[v])
    BY <2>1 DEF FanTypes
  <2>3. progress' = [v \in Workers |-> IF ts[v].pc = "asleep" THEN [ts[v] EXCEPT !.pc = "woken"] ELSE ts[v]]
    BY <1>1 DEF Fan!Woken
  <2> HIDE DEF ts
  <2>4. ASSUME NEW v \in Workers
        PROVE  /\ ThreadShape(progress'[v]) /\ progress'[v].pc # "asleep"
               /\ progress'[v].pc = "inside" <=> ts[v].pc = "inside"
    <3>1. "woken" \in Pcs
      BY DEF Pcs
    <3>2. CASE ts[v].pc = "asleep"
      <4>1. progress'[v] = [ts[v] EXCEPT !.pc = "woken"]
        BY <2>3, <3>2
      <4>2. ThreadShape(progress'[v]) /\ progress'[v].pc = "woken"
        BY <2>2, <3>1, <4>1, ThreadFields, Zenon
      <4> QED BY <3>2, <4>2
    <3>3. CASE ts[v].pc # "asleep"
      BY <2>2, <2>3, <3>3
    <3> QED BY <3>2, <3>3
  <2>5. ASSUME NEW v \in Workers
        PROVE  ts[v].pc = "inside" <=> progress[v].pc = "inside" /\ v # w
    BY <2>1
  <2> QED BY <2>3, <2>4, <2>5
<1>4. FanTypes'
  BY <1>2, <1>3 DEF FanTypes
<1>5. w \in Fan!Inside /\ Fan!Inside' = Fan!Inside \ {w}
  BY <1>3 DEF Fan!Inside, Fan!Release
<1>6. Cardinality(Fan!Inside') = Cardinality(Fan!Inside) - 1
  <2>1. IsFiniteSet(Fan!Inside)
    BY FanConstants, FS_Subset DEF Fan!Inside
  <2> QED BY <1>5, <2>1, FS_RemoveElement
<1>7. objects.inFlight \in Int /\ MaxInFlight \in Int
  BY FanConstants DEF FanTypes
<1> QED BY <1>2, <1>3, <1>4, <1>6, <1>7 DEF CountsThreads

\* Steps of a thread outside the limiter.
LEMMA ThreadKeeps ==
  ASSUME FanTypes, CountsThreads, NEW w \in Workers,
         Fan!Take(w) \/ Fan!TimedOut(w) \/ Fan!Finish(w)
  PROVE  FanTypes' /\ CountsThreads'
<1>1. CASE Fan!Take(w)
  <2>1. /\ objects' = objects /\ progress[w].pc = "free"
        /\ progress' = [progress EXCEPT ![w] = [pc |-> "wants", task |-> trace.submitted + 1,
                                                outcome |-> None]]
    BY <1>1 DEF Fan!Take
  <2>2. \A x : ThreadShape([pc |-> "wants", task |-> x, outcome |-> None])
    BY DEF ThreadShape, Pcs
  <2>3. /\ FanTypes' /\ progress'[w].pc = "wants"
        /\ \A v \in Workers \ {w} : progress'[v] = progress[v]
    BY <2>1, <2>2 DEF FanTypes
  <2> QED BY <2>1, <2>3, FanStep
<1>2. CASE Fan!TimedOut(w)
  <2>1. /\ objects' = objects /\ progress[w].pc # "inside"
        /\ progress' = [progress EXCEPT ![w].pc = "ran", ![w].outcome = "failed"]
    BY <1>2 DEF Fan!TimedOut
  <2>2. /\ progress' = [v \in Workers |-> progress'[v]]
        /\ \A v \in Workers : ThreadShape(progress'[v])
        /\ progress'[w].pc = "ran" /\ \A v \in Workers \ {w} : progress'[v] = progress[v]
    BY <2>1, OneThread DEF Pcs
  <2>3. FanTypes'
    BY <2>1, <2>2 DEF FanTypes
  <2> QED BY <2>1, <2>2, <2>3, FanStep
<1>3. CASE Fan!Finish(w)
  <2>1. /\ objects' = objects /\ progress[w].pc # "inside"
        /\ progress' = [progress EXCEPT ![w].pc = "free"]
    BY <1>3 DEF Fan!Finish, Fan!Go
  <2>2. /\ progress' = [v \in Workers |-> progress'[v]]
        /\ \A v \in Workers : ThreadShape(progress'[v])
        /\ progress'[w].pc = "free" /\ \A v \in Workers \ {w} : progress'[v] = progress[v]
    BY <2>1, OneThread DEF Pcs
  <2>3. FanTypes'
    BY <2>1, <2>2 DEF FanTypes
  <2> QED BY <2>1, <2>2, <2>3, FanStep
<1> QED BY <1>1, <1>2, <1>3

LEMMA FanNextKeeps ==
  ASSUME FanTypes, CountsThreads, Fan!Next \/ UNCHANGED others
  PROVE  FanTypes' /\ CountsThreads'
<1>1. ASSUME UNCHANGED <<objects, progress>>
      PROVE  FanTypes' /\ CountsThreads'
  BY <1>1 DEF FanTypes, CountsThreads, Fan!Inside
<1>2. ASSUME NEW i \in Fan!Tasks, Fan!Collect(i)
      PROVE  UNCHANGED <<objects, progress>>
  BY <1>2 DEF Fan!Collect
<1>3. Fan!Return \/ Fan!Terminated \/ UNCHANGED others => UNCHANGED <<objects, progress>>
  BY DEF Fan!Return, Fan!Terminated, Fan!fanOutVars, others
<1> QED BY <1>1, <1>2, <1>3, AcquireKeeps, FanReleaseKeeps, ThreadKeeps DEF Fan!Next

LEMMA FanInitial ==
  ASSUME LibraryInit, part = "fan-out"
  PROVE  FanTypes /\ CountsThreads
<1>1. /\ objects = [inFlight |-> 0, limit |-> MaxInFlight, streak |-> 0]
      /\ progress = [w \in Workers |-> [pc |-> "free", task |-> 0, outcome |-> None]]
  BY PartInits DEF Fan!Init
<1>2. FanTypes
  BY <1>1, FanConstants DEF FanTypes, ThreadShape, Pcs
<1>3. Fan!Inside = {}
  BY <1>1 DEF Fan!Inside
<1> QED BY <1>1, <1>2, <1>3, FS_EmptySet, FanConstants DEF CountsThreads

\* AdaptiveConcurrencyLimiter: with any number of threads it admits no more
\* than max_in_flight, and a thread sleeps on it only while it is full.
THEOREM NoLostWakeup == LibrarySpec => []NoSleepWhileSlotFree
<1>1. ASSUME FanInv, [LibraryNext]_libraryVars
      PROVE  FanInv'
  BY <1>1, PartSteps, FanNextKeeps DEF FanInv
<1>2. FanInv => NoSleepWhileSlotFree
  BY FanSets DEF FanInv, FanTypes, CountsThreads, NoSleepWhileSlotFree, Fan!NoSleepWhileSlotFree
<1>3. LibraryInit => FanInv
  BY FanInitial DEF FanInv
<1> QED BY <1>1, <1>2, <1>3, PTL DEF LibrarySpec

-----------------------------------------------------------------------------
(* Results of a fan-out *)

LEMMA FanMax ==
  ASSUME NEW n \in Nat, NEW s \in SUBSET (1..n), s # {}
  PROVE  Fan!Max(s) \in s /\ \A y \in s : y <= Fan!Max(s)
<1>1. Fan!Max(s) = Max(s)
  BY Zenon DEF Fan!Max, Max
<1> QED BY <1>1, MaxOfSome

\* A fold from left to right that appends the values of the places in K: what
\* it is on the first k places follows from what it is on those before.
Filtered(g, K, val, n) ==
  [s \in SUBSET (1..n) |->
     IF s = {} THEN <<>>
     ELSE IF Fan!Max(s) \in K THEN Append(g[s \ {Fan!Max(s)}], val[Fan!Max(s)])
                              ELSE g[s \ {Fan!Max(s)}]]

LEMMA FilterExists ==
  ASSUME NEW n \in Nat, NEW K, NEW val
  PROVE  \E g : g = Filtered(g, K, val, n)
<1> DEFINE S == 1..n
           V == Seq({val[k] : k \in 1..n})
           d == [s \in SUBSET S |-> Fan!Max(s)]
           step == [p \in S \X V |-> IF p[1] \in K THEN Append(p[2], val[p[1]]) ELSE p[2]]
<1>1. \A s \in SUBSET S : d[s] = Fan!Max(s) /\ (s # {} => d[s] \in s)
  BY FanMax
<1>2. /\ step \in [S \X V -> V]
      /\ \A k \in S, q \in V : step[<<k, q>>] = IF k \in K THEN Append(q, val[k]) ELSE q
  OBVIOUS
<1>3. IsFiniteSet(S)
  BY FS_Interval
<1>4. <<>> \in V
  OBVIOUS
<1>5. PICK g \in [SUBSET S -> V] : IsFold(g, d, step, <<>>, S)
  <2> HIDE DEF d, step, S, V
  <2>1. Picks(d, S)
    BY <1>1 DEF Picks
  <2> QED BY <1>2, <1>3, <1>4, <2>1, FoldExists
<1>6. ASSUME NEW s \in SUBSET S, s # {}
      PROVE  g[s] = IF Fan!Max(s) \in K THEN Append(g[s \ {Fan!Max(s)}], val[Fan!Max(s)])
                                        ELSE g[s \ {Fan!Max(s)}]
  <2> HIDE DEF d, step, S, V
  <2>1. d[s] = Fan!Max(s) /\ d[s] \in S /\ s \ {d[s]} \in SUBSET S
    BY <1>1, <1>6
  <2>2. g[s \ {d[s]}] \in V
    BY <1>5, <2>1
  <2>3. g[s] = step[<<d[s], g[s \ {d[s]}]>>]
    BY <1>5, <1>6 DEF IsFold
  <2> QED BY <1>2, <2>1, <2>2, <2>3
<1>7. {} \in SUBSET S /\ g[{}] = <<>>
  <2> HIDE DEF d, step
  <2> QED BY <1>5 DEF IsFold
<1>8. g = Filtered(g, K, val, n)
  <2> HIDE DEF d, step, V
  <2> QED BY <1>5, <1>6, <1>7 DEF Filtered
<1> QED BY <1>8

LEMMA FilterPrefixes ==
  ASSUME NEW n \in Nat, NEW K, NEW val, NEW g, g = Filtered(g, K, val, n)
  PROVE  /\ g[1..0] = <<>>
         /\ \A k \in 1..n : g[1..k] = IF k \in K THEN Append(g[1..(k - 1)], val[k]) ELSE g[1..(k - 1)]
<1>1. g[1..0] = <<>>
  <2>1. 1..0 = {} /\ {} \in SUBSET (1..n)
    OBVIOUS
  <2> QED BY <2>1 DEF Filtered
<1>2. ASSUME NEW k \in 1..n
      PROVE  g[1..k] = IF k \in K THEN Append(g[1..(k - 1)], val[k]) ELSE g[1..(k - 1)]
  <2> DEFINE s == 1..k
  <2>1. s \in SUBSET (1..n) /\ s \subseteq Int /\ s # {} /\ k \in s /\ \A y \in s : y <= k
    OBVIOUS
  <2>2. Fan!Max(s) = k
    <3> HIDE DEF s
    <3>1. Fan!Max(s) \in s /\ k <= Fan!Max(s) /\ Fan!Max(s) <= k
      BY <2>1, FanMax
    <3>2. \A x \in s : x \in Int
      BY <2>1
    <3>3. Fan!Max(s) \in Int /\ k \in Int
      BY <2>1, <3>1, <3>2
    <3> QED BY <3>1, <3>3
  <2>3. s \ {k} = 1..(k - 1)
    OBVIOUS
  <2> HIDE DEF s
  <2>4. g[s] = IF k \in K THEN Append(g[s \ {k}], val[k]) ELSE g[s \ {k}]
    BY <2>1, <2>2 DEF Filtered
  <2> QED BY <2>3, <2>4 DEF s
<1> QED BY <1>1, <1>2

\* The first k results, and what is made of them.
TaskPrefixes(p, K, val, n) ==
  /\ p[0] = <<>>
  /\ \A k \in 1..n : p[k] = IF k \in K THEN Append(p[k - 1], val[k]) ELSE p[k - 1]

LEMMA FilterSteps ==
  ASSUME NEW n \in Nat, NEW K, NEW val, NEW g, g = Filtered(g, K, val, n)
  PROVE  \E p : TaskPrefixes(p, K, val, n) /\ p[n] = g[1..n]
<1> DEFINE p == [k \in 0..n |-> g[1..k]]
<1>1. \A k \in 0..n : p[k] = g[1..k]
  OBVIOUS
<1>2. 0 \in 0..n /\ n \in 0..n /\ \A k \in 1..n : k \in 0..n /\ k - 1 \in 0..n
  OBVIOUS
<1> HIDE DEF p
<1>3. TaskPrefixes(p, K, val, n)
  BY <1>1, <1>2, FilterPrefixes DEF TaskPrefixes
<1> QED BY <1>1, <1>2, <1>3

LEMMA MergedSteps ==
  ASSUME NEW n \in Nat, NEW rs, DOMAIN rs = 1..n
  PROVE  \E p : /\ TaskPrefixes(p, {k \in 1..n : rs[k].outcome = "ok"}, [k \in 1..n |-> rs[k].task], n)
                /\ Fan!Merged(rs) = p[n]
<1> DEFINE K == {k \in 1..n : rs[k].outcome = "ok"}
           val == [k \in 1..n |-> rs[k].task]
           G(g) == [s \in SUBSET (1..n) |->
                      IF s = {} THEN <<>>
                      ELSE IF rs[Fan!Max(s)].outcome = "ok"
                             THEN Append(g[s \ {Fan!Max(s)}], rs[Fan!Max(s)].task)
                             ELSE g[s \ {Fan!Max(s)}]]
           h == CHOOSE g : g = G(g)
<1>1. ASSUME NEW g
      PROVE  G(g) = Filtered(g, K, val, n)
  <2>1. ASSUME NEW s \in SUBSET (1..n), s # {}
        PROVE  /\ Fan!Max(s) \in K <=> rs[Fan!Max(s)].outcome = "ok"
               /\ val[Fan!Max(s)] = rs[Fan!Max(s)].task
    <3>1. Fan!Max(s) \in 1..n
      BY <2>1, FanMax
    <3> QED BY <3>1
  <2> HIDE DEF K, val
  <2> QED BY <2>1 DEF Filtered
<1>2. \E g : g = G(g)
  <2> HIDE DEF G, K, val
  <2> QED BY <1>1, FilterExists
<1>3. h = G(h)
  <2> HIDE DEF G
  <2> QED BY <1>2, Zenon
<1>4. Fan!Merged(rs) = h[1..n]
  BY DEF Fan!Merged, Fan!FoldLeft, Fan!MapThenFoldSet
<1> HIDE DEF h, G
<1>5. h = Filtered(h, K, val, n)
  BY <1>1, <1>3
<1> HIDE DEF K, val
<1>6. PICK p : TaskPrefixes(p, K, val, n) /\ p[n] = h[1..n]
  BY <1>5, FilterSteps
<1> QED BY <1>4, <1>6 DEF K, val

LEMMA PresentSteps ==
  ASSUME NEW n \in Nat, NEW rs, DOMAIN rs = 1..n
  PROVE  \E p : /\ TaskPrefixes(p, {k \in 1..n : rs[k] # None}, rs, n)
                /\ Fan!Present(rs) = p[n]
<1> DEFINE K == {k \in 1..n : rs[k] # None}
           G(g) == [s \in SUBSET (1..n) |->
                      IF s = {} THEN <<>>
                      ELSE IF rs[Fan!Max(s)] # None
                             THEN Append(g[s \ {Fan!Max(s)}], rs[Fan!Max(s)])
                             ELSE g[s \ {Fan!Max(s)}]]
           h == CHOOSE g : g = G(g)
<1>1. ASSUME NEW g
      PROVE  G(g) = Filtered(g, K, rs, n)
  <2>1. ASSUME NEW s \in SUBSET (1..n), s # {}
        PROVE  Fan!Max(s) \in K <=> rs[Fan!Max(s)] # None
    <3>1. Fan!Max(s) \in 1..n
      BY <2>1, FanMax
    <3> QED BY <3>1
  <2> HIDE DEF K
  <2> QED BY <2>1 DEF Filtered
<1>2. \E g : g = G(g)
  <2> HIDE DEF G, K
  <2> QED BY <1>1, FilterExists
<1>3. h = G(h)
  <2> HIDE DEF G
  <2> QED BY <1>2, Zenon
<1>4. Fan!Present(rs) = h[1..n]
  BY DEF Fan!Present, Fan!FoldLeft, Fan!MapThenFoldSet
<1> HIDE DEF h, G
<1>5. h = Filtered(h, K, rs, n)
  BY <1>1, <1>3
<1> HIDE DEF K
<1>6. PICK p : TaskPrefixes(p, K, rs, n) /\ p[n] = h[1..n]
  BY <1>5, FilterSteps
<1> QED BY <1>4, <1>6 DEF K

LEMMA FirstGrows ==
  ASSUME NEW k \in Nat, NEW rs
  PROVE  Append([i \in 1..k |-> rs[i]], rs[k + 1]) = [i \in 1..(k + 1) |-> rs[i]]
<1> DEFINE T == {rs[i] : i \in 1..(k + 1)}
           q == [i \in 1..k |-> rs[i]]
<1>1. /\ \A i \in 1..(k + 1) : rs[i] \in T
      /\ \A i \in 1..k : i \in 1..(k + 1) /\ q[i] = rs[i]
  OBVIOUS
<1>2. q \in [1..k -> T]
  <2> HIDE DEF T
  <2> QED BY <1>1
<1> HIDE DEF T, q
<1>3. q \in Seq(T) /\ Len(q) = k
  BY <1>2
<1>4. rs[k + 1] \in T
  BY <1>1
<1>5. Append(q, rs[k + 1]) = [i \in 1..(k + 1) |-> rs[i]]
  BY <1>1, <1>3, <1>4
<1> QED BY <1>5 DEF q

\* Without gaps, run returns what was collected.
LEMMA PresentIsAll ==
  ASSUME NEW n \in Nat, NEW rs, rs = [k \in 1..n |-> rs[k]], \A k \in 1..n : rs[k] # None
  PROVE  Fan!Present(rs) = rs
<1> DEFINE K == {k \in 1..n : rs[k] # None}
<1>1. PICK p : TaskPrefixes(p, K, rs, n) /\ Fan!Present(rs) = p[n]
  <2>1. DOMAIN rs = 1..n
    OBVIOUS
  <2> QED BY <2>1, PresentSteps
<1>2. \A k \in 1..n : k \in K
  OBVIOUS
<1> HIDE DEF K
<1> DEFINE first(k) == [i \in 1..k |-> rs[i]]
           A == {k \in Nat : k <= n => p[k] = first(k)}
<1>3. 0 \in A
  <2>1. first(0) = <<>>
    OBVIOUS
  <2> QED BY <1>1, <2>1 DEF TaskPrefixes
<1>4. ASSUME NEW k \in A
      PROVE  k + 1 \in A
  <2> SUFFICES ASSUME k + 1 <= n
               PROVE  p[k + 1] = first(k + 1)
    OBVIOUS
  <2>1. k + 1 \in 1..n /\ (k + 1) - 1 = k /\ p[k] = first(k)
    OBVIOUS
  <2>2. p[k + 1] = Append(first(k), rs[k + 1])
    <3> HIDE DEF first
    <3> QED BY <1>1, <1>2, <2>1 DEF TaskPrefixes
  <2>3. Append(first(k), rs[k + 1]) = first(k + 1)
    BY FirstGrows
  <2> QED BY <2>2, <2>3
<1>5. n \in A
  <2>1. A \subseteq Nat
    OBVIOUS
  <2> HIDE DEF A
  <2> QED BY <1>3, <1>4, <2>1, NatsAll
<1>6. p[n] = first(n)
  BY <1>5
<1> QED BY <1>1, <1>6

\* merge_answers keeps the order and leaves out the failed tasks.
InOrder(q, K, k) ==
  /\ q \in Seq(Int)
  /\ \A i, j \in DOMAIN q : i < j => q[i] < q[j]
  /\ {q[i] : i \in DOMAIN q} = K \cap (1..k)

LEMMA AppendInOrder ==
  ASSUME NEW K, NEW k \in Nat, NEW q, InOrder(q, K, k), k + 1 \in K
  PROVE  InOrder(Append(q, k + 1), K, k + 1)
<1> DEFINE r == Append(q, k + 1)
<1>1. /\ r \in Seq(Int) /\ DOMAIN q = 1..Len(q) /\ DOMAIN r = 1..(Len(q) + 1) /\ Len(q) \in Nat
      /\ \A i \in 1..Len(q) : r[i] = q[i]
      /\ r[Len(q) + 1] = k + 1
  BY DEF InOrder
<1> HIDE DEF r
<1>2. \A i \in 1..Len(q) : q[i] \in K /\ q[i] \in 1..k
  BY <1>1 DEF InOrder
<1>3. ASSUME NEW i \in DOMAIN r, NEW j \in DOMAIN r, i < j
      PROVE  r[i] < r[j]
  <2>1. i \in 1..Len(q)
    BY <1>1, <1>3
  <2>2. CASE j = Len(q) + 1
    BY <1>1, <1>2, <2>1, <2>2
  <2>3. CASE j # Len(q) + 1
    <3>1. j \in 1..Len(q)
      BY <1>1, <2>3
    <3> QED BY <1>1, <1>3, <2>1, <3>1 DEF InOrder
  <2> QED BY <2>2, <2>3
<1>4. {r[i] : i \in DOMAIN r} = K \cap (1..(k + 1))
  <2>1. {r[i] : i \in DOMAIN r} = {q[i] : i \in DOMAIN q} \cup {k + 1}
    BY <1>1
  <2>2. K \cap (1..(k + 1)) = (K \cap (1..k)) \cup {k + 1}
    OBVIOUS
  <2> QED BY <2>1, <2>2 DEF InOrder
<1>5. InOrder(r, K, k + 1)
  BY <1>1, <1>3, <1>4 DEF InOrder
<1> QED BY <1>5 DEF r

LEMMA MergedInOrder ==
  ASSUME NEW n \in Nat, NEW rs, DOMAIN rs = 1..n, \A k \in 1..n : rs[k].task = k
  PROVE  InOrder(Fan!Merged(rs), {k \in 1..n : rs[k].outcome = "ok"}, n)
<1> DEFINE K == {k \in 1..n : rs[k].outcome = "ok"}
           val == [k \in 1..n |-> rs[k].task]
<1>1. PICK p : TaskPrefixes(p, K, val, n) /\ Fan!Merged(rs) = p[n]
  BY MergedSteps
<1>2. \A k \in 1..n : val[k] = k
  OBVIOUS
<1> HIDE DEF K, val
<1> DEFINE A == {k \in Nat : k <= n => InOrder(p[k], K, k)}
<1>3. 0 \in A
  <2>1. InOrder(<<>>, K, 0)
    BY DEF InOrder
  <2> QED BY <1>1, <2>1 DEF TaskPrefixes
<1>4. ASSUME NEW k \in A
      PROVE  k + 1 \in A
  <2> SUFFICES ASSUME k + 1 <= n
               PROVE  InOrder(p[k + 1], K, k + 1)
    OBVIOUS
  <2>1. k \in Nat /\ k + 1 \in 1..n /\ (k + 1) - 1 = k /\ InOrder(p[k], K, k)
    OBVIOUS
  <2> HIDE DEF A
  <2>2. p[k + 1] = IF k + 1 \in K THEN Append(p[k], k + 1) ELSE p[k]
    BY <1>1, <1>2, <2>1 DEF TaskPrefixes
  <2>3. CASE k + 1 \in K
    BY <2>1, <2>2, <2>3, AppendInOrder
  <2>4. CASE k + 1 \notin K
    <3>1. K \cap (1..(k + 1)) = K \cap (1..k)
      BY <2>1, <2>4
    <3> QED BY <2>1, <2>2, <2>4, <3>1 DEF InOrder
  <2> QED BY <2>3, <2>4
<1>5. n \in A
  <2>1. A \subseteq Nat
    OBVIOUS
  <2> HIDE DEF A
  <2> QED BY <1>3, <1>4, <2>1, NatsAll
<1>6. InOrder(p[n], K, n)
  BY <1>5
<1> QED BY <1>1, <1>6 DEF K

\* A thread that is not free has a task of its own, submitted and without a
\* result; a result is in the place of its task, and what is collected is a
\* result; what run returned is all the results.
BatchShape(b) ==
  b = [submitted |-> b.submitted, results |-> b.results, ordered |-> b.ordered, returned |-> b.returned]

OwnTasks(ts, b) ==
  /\ \A w \in Workers : ts[w].pc # "free" =>
       ts[w].task \in 1..b.submitted /\ b.results[ts[w].task] = None
  /\ \A v, w \in Workers : v # w /\ ts[v].pc # "free" /\ ts[w].pc # "free" => ts[v].task # ts[w].task

ResultsPlaced(b) ==
  /\ b.submitted \in 0..TaskCount
  /\ b.results = [i \in Fan!Tasks |-> b.results[i]] /\ b.ordered = [i \in Fan!Tasks |-> b.ordered[i]]
  /\ \A i \in Fan!Tasks : i > b.submitted => b.results[i] = None
  /\ \A i \in Fan!Tasks : b.results[i] # None => b.results[i].task = i
  /\ \A i \in Fan!Tasks : b.ordered[i] = None \/ b.ordered[i] = b.results[i]

AllReturned(b) ==
  b.returned # None => b.returned = b.results /\ \A i \in Fan!Tasks : b.ordered[i] # None

FanOrder == BatchShape(trace) /\ OwnTasks(progress, trace) /\ ResultsPlaced(trace) /\ AllReturned(trace)

LEMMA BatchFields ==
  ASSUME NEW b, BatchShape(b), NEW x
  PROVE  /\ [b EXCEPT !.submitted = x]
              = [submitted |-> x, results |-> b.results, ordered |-> b.ordered, returned |-> b.returned]
         /\ [b EXCEPT !.results = x]
              = [submitted |-> b.submitted, results |-> x, ordered |-> b.ordered, returned |-> b.returned]
         /\ [b EXCEPT !.ordered = x]
              = [submitted |-> b.submitted, results |-> b.results, ordered |-> x, returned |-> b.returned]
         /\ [b EXCEPT !.returned = x]
              = [submitted |-> b.submitted, results |-> b.results, ordered |-> b.ordered, returned |-> x]
BY DEF BatchShape

\* The limiter leaves the tasks of the threads alone.
LEMMA TaskKept ==
  ASSUME NEW t, ThreadShape(t), NEW pc, NEW o
  PROVE  /\ [t EXCEPT !.pc = pc].task = t.task /\ [t EXCEPT !.pc = pc].pc = pc
         /\ [t EXCEPT !.pc = pc, !.outcome = o].task = t.task
         /\ [t EXCEPT !.pc = pc, !.outcome = o].pc = pc
BY DEF ThreadShape

LEMMA PcThenOutcome ==
  ASSUME NEW f, NEW w \in Workers, NEW pc, NEW o, f = [v \in Workers |-> f[v]]
  PROVE  /\ [f EXCEPT ![w].pc = pc] = [f EXCEPT ![w] = [f[w] EXCEPT !.pc = pc]]
         /\ [f EXCEPT ![w].pc = pc, ![w].outcome = o] = [f EXCEPT ![w] = [f[w] EXCEPT !.pc = pc, !.outcome = o]]
OBVIOUS

LEMMA OneTaskKept ==
  ASSUME FanTypes, NEW w \in Workers, NEW pc, NEW o,
         \/ progress' = [progress EXCEPT ![w].pc = pc]
         \/ progress' = [progress EXCEPT ![w].pc = pc, ![w].outcome = o]
  PROVE  /\ \A v \in Workers : progress'[v].task = progress[v].task
         /\ progress'[w].pc = pc /\ \A v \in Workers \ {w} : progress'[v].pc = progress[v].pc
<1>1. ThreadShape(progress[w]) /\ progress = [v \in Workers |-> progress[v]]
  BY DEF FanTypes
<1>2. CASE progress' = [progress EXCEPT ![w].pc = pc]
  <2>1. progress'[w] = [progress[w] EXCEPT !.pc = pc] /\ \A v \in Workers \ {w} : progress'[v] = progress[v]
    <3> DEFINE t == [progress[w] EXCEPT !.pc = pc]
    <3>1. progress' = [progress EXCEPT ![w] = t]
      BY <1>1, <1>2, PcThenOutcome
    <3> HIDE DEF t
    <3>2. progress'[w] = t /\ \A v \in Workers \ {w} : progress'[v] = progress[v]
      BY <1>1, <3>1
    <3> QED BY <3>2 DEF t
  <2>2. progress'[w].task = progress[w].task /\ progress'[w].pc = pc
    BY <1>1, <2>1, TaskKept
  <2> QED BY <2>1, <2>2
<1>3. CASE progress' = [progress EXCEPT ![w].pc = pc, ![w].outcome = o]
  <2>1. /\ progress'[w] = [progress[w] EXCEPT !.pc = pc, !.outcome = o]
        /\ \A v \in Workers \ {w} : progress'[v] = progress[v]
    <3> DEFINE t == [progress[w] EXCEPT !.pc = pc, !.outcome = o]
    <3>1. progress' = [progress EXCEPT ![w] = t]
      BY <1>1, <1>3, PcThenOutcome
    <3> HIDE DEF t
    <3>2. progress'[w] = t /\ \A v \in Workers \ {w} : progress'[v] = progress[v]
      BY <1>1, <3>1
    <3> QED BY <3>2 DEF t
  <2>2. progress'[w].task = progress[w].task /\ progress'[w].pc = pc
    BY <1>1, <2>1, TaskKept
  <2> QED BY <2>1, <2>2
<1> QED BY <1>2, <1>3

TasksStay ==
  /\ trace' = trace
  /\ \A v \in Workers : /\ progress'[v].task = progress[v].task
                        /\ progress'[v].pc # "free" => progress[v].pc # "free"

LEMMA LimiterLeavesTasks ==
  ASSUME FanTypes, NEW w \in Workers, Fan!Acquire(w) \/ Fan!TimedOut(w) \/ Fan!Release(w)
  PROVE  TasksStay
<1>1. CASE Fan!Acquire(w)
  <2>1. PICK pc \in {"inside", "asleep", "ran"} :
          \/ progress' = [progress EXCEPT ![w].pc = pc]
          \/ progress' = [progress EXCEPT ![w].pc = pc, ![w].outcome = "failed"]
    BY <1>1 DEF Fan!Acquire, Fan!Go
  <2>2. trace' = trace /\ progress[w].pc # "free"
    BY <1>1 DEF Fan!Acquire
  <2> QED BY <2>1, <2>2, OneTaskKept DEF TasksStay
<1>2. CASE Fan!TimedOut(w)
  <2>1. /\ progress' = [progress EXCEPT ![w].pc = "ran", ![w].outcome = "failed"]
        /\ trace' = trace /\ progress[w].pc # "free"
    BY <1>2 DEF Fan!TimedOut
  <2> QED BY <2>1, OneTaskKept DEF TasksStay
<1>3. CASE Fan!Release(w)
  <2>1. PICK outcome \in Fan!Outcomes :
          progress' = Fan!Woken([progress EXCEPT ![w].pc = "ran", ![w].outcome = outcome])
    BY <1>3 DEF Fan!Release
  <2>2. trace' = trace /\ progress[w].pc # "free"
    BY <1>3 DEF Fan!Release
  <2> DEFINE ts == [progress EXCEPT ![w].pc = "ran", ![w].outcome = outcome]
  <2>3. /\ \A v \in Workers : ts[v].task = progress[v].task /\ ThreadShape(ts[v])
        /\ \A v \in Workers \ {w} : ts[v].pc = progress[v].pc
    <3>1. ThreadShape(progress[w]) /\ progress = [v \in Workers |-> progress[v]]
      BY DEF FanTypes
    <3>2. /\ ts[w] = [progress[w] EXCEPT !.pc = "ran", !.outcome = outcome]
          /\ \A v \in Workers \ {w} : ts[v] = progress[v]
      BY <3>1
    <3> HIDE DEF ts
    <3>3. "ran" \in Pcs
      BY DEF Pcs
    <3>4. ThreadShape(ts[w]) /\ ts[w].task = progress[w].task
      BY <3>1, <3>2, <3>3 DEF ThreadShape
    <3> QED BY <3>2, <3>4 DEF FanTypes
  <2>4. progress' = [v \in Workers |-> IF ts[v].pc = "asleep" THEN [ts[v] EXCEPT !.pc = "woken"] ELSE ts[v]]
    BY <2>1 DEF Fan!Woken
  <2> HIDE DEF ts
  <2>5. ASSUME NEW v \in Workers
        PROVE  progress'[v].task = ts[v].task /\ (progress'[v].pc = ts[v].pc \/ ts[v].pc = "asleep")
    <3>1. CASE ts[v].pc = "asleep"
      <4>1. progress'[v] = [ts[v] EXCEPT !.pc = "woken"]
        BY <2>4, <3>1
      <4>2. progress'[v].task = ts[v].task
        BY <2>3, <4>1, TaskKept
      <4> QED BY <3>1, <4>2
    <3>2. CASE ts[v].pc # "asleep"
      BY <2>4, <3>2
    <3> QED BY <3>1, <3>2
  <2>6. \A v \in Workers : progress'[v].task = progress[v].task
    BY <2>3, <2>5
  <2>7. ASSUME NEW v \in Workers, progress'[v].pc # "free"
        PROVE  progress[v].pc # "free"
    <3>1. CASE v = w
      BY <2>2, <3>1
    <3>2. CASE v # w
      BY <2>3, <2>5, <2>7, <3>2
    <3> QED BY <3>1, <3>2
  <2> QED BY <2>2, <2>6, <2>7 DEF TasksStay
<1> QED BY <1>1, <1>2, <1>3

LEMMA StayKeeps ==
  ASSUME FanOrder, TasksStay
  PROVE  FanOrder'
<1>1. OwnTasks(progress, trace)'
  BY DEF FanOrder, TasksStay, OwnTasks
<1> QED BY <1>1 DEF FanOrder, TasksStay, BatchShape, ResultsPlaced, AllReturned

LEMMA TakeKeeps ==
  ASSUME FanTypes, FanOrder, NEW w \in Workers, Fan!Take(w)
  PROVE  FanOrder'
<1> DEFINE n == trace.submitted + 1
<1>1. TaskCount \in Nat
  BY LibraryConstants DEF Fan!FanOutConstantsOK
<1>2. trace.submitted \in Nat /\ n \in Nat /\ n \in Fan!Tasks /\ trace.submitted < n /\ n \in 0..TaskCount
  BY <1>1 DEF FanOrder, ResultsPlaced, Fan!Take, Fan!Tasks
<1>3. trace' = [submitted |-> n, results |-> trace.results, ordered |-> trace.ordered,
                returned |-> trace.returned]
  BY BatchFields DEF FanOrder, Fan!Take
<1>4. progress' = [progress EXCEPT ![w] = [pc |-> "wants", task |-> n, outcome |-> None]]
  BY DEF Fan!Take
<1> HIDE DEF n
<1>5. /\ trace'.submitted = n /\ trace'.results = trace.results /\ trace'.ordered = trace.ordered
      /\ trace'.returned = trace.returned /\ BatchShape(trace')
  BY <1>3 DEF BatchShape
<1>6. /\ progress'[w].task = n /\ \A v \in Workers \ {w} : progress'[v] = progress[v]
      /\ progress'[w].pc = "wants"
  BY <1>4 DEF FanTypes
<1>7. trace.results[n] = None
  BY <1>2 DEF FanOrder, ResultsPlaced
<1>8. \A v \in Workers : progress[v].pc # "free" =>
        progress[v].task # n /\ progress[v].task \in 1..n /\ trace.results[progress[v].task] = None
  BY <1>2 DEF FanOrder, OwnTasks
<1>9. OwnTasks(progress', trace')
  <2>1. n \in 1..n
    BY <1>2
  <2>2. ASSUME NEW v \in Workers, progress'[v].pc # "free"
        PROVE  progress'[v].task \in 1..n /\ trace.results[progress'[v].task] = None
    BY <1>6, <1>7, <1>8, <2>1, <2>2
  <2>3. ASSUME NEW v \in Workers, NEW u \in Workers, v # u,
               progress'[v].pc # "free", progress'[u].pc # "free"
        PROVE  progress'[v].task # progress'[u].task
    BY <1>6, <1>8, <2>3 DEF FanOrder, OwnTasks
  <2> QED BY <1>5, <2>2, <2>3 DEF OwnTasks
<1>10. ResultsPlaced(trace')
  <2>1. \A i \in Fan!Tasks : i > n => i > trace.submitted
    BY <1>2 DEF Fan!Tasks
  <2> QED BY <1>2, <1>5, <2>1 DEF FanOrder, ResultsPlaced
<1>11. AllReturned(trace')
  BY <1>5 DEF FanOrder, AllReturned
<1> QED BY <1>5, <1>9, <1>10, <1>11 DEF FanOrder

LEMMA FinishKeeps ==
  ASSUME FanTypes, FanOrder, NEW w \in Workers, Fan!Finish(w)
  PROVE  FanOrder'
<1> DEFINE t == progress[w].task
           r == [task |-> t, outcome |-> progress[w].outcome]
           rs == [trace.results EXCEPT ![t] = r]
<1>1. TaskCount \in Nat
  BY LibraryConstants DEF Fan!FanOutConstantsOK
<1>2. progress[w].pc # "free" /\ t \in 1..trace.submitted /\ trace.results[t] = None
  BY DEF Fan!Finish, FanOrder, OwnTasks
<1>3. trace.submitted \in 0..TaskCount /\ t \in Fan!Tasks
  BY <1>1, <1>2 DEF FanOrder, ResultsPlaced, Fan!Tasks
<1>4. trace' = [trace EXCEPT !.results = rs]
  BY DEF Fan!Finish, FanOrder, BatchShape
<1>5. progress' = [progress EXCEPT ![w].pc = "free"]
  BY DEF Fan!Finish, Fan!Go
<1>6. r.task = t
  OBVIOUS
<1> HIDE DEF r
<1>7. /\ rs = [i \in Fan!Tasks |-> rs[i]] /\ rs[t] = r
      /\ \A i \in Fan!Tasks \ {t} : rs[i] = trace.results[i]
  BY <1>3 DEF FanOrder, ResultsPlaced
<1> HIDE DEF rs
<1>8. /\ trace'.submitted = trace.submitted /\ trace'.results = rs /\ trace'.ordered = trace.ordered
      /\ trace'.returned = trace.returned /\ BatchShape(trace')
  <2>1. trace' = [submitted |-> trace.submitted, results |-> rs, ordered |-> trace.ordered,
                  returned |-> trace.returned]
    BY <1>4, BatchFields DEF FanOrder
  <2> QED BY <2>1 DEF BatchShape
<1>9. /\ \A v \in Workers : progress'[v].task = progress[v].task
      /\ progress'[w].pc = "free" /\ \A v \in Workers \ {w} : progress'[v].pc = progress[v].pc
  BY <1>5, OneTaskKept
<1> HIDE DEF t
<1>10. OwnTasks(progress', trace')
  <2>1. ASSUME NEW v \in Workers, progress'[v].pc # "free"
        PROVE  progress'[v].task \in 1..trace.submitted /\ rs[progress'[v].task] = None
    <3>1. v # w /\ progress[v].pc # "free" /\ progress'[v].task = progress[v].task
      BY <1>9, <2>1
    <3>2. progress[v].task \in 1..trace.submitted /\ trace.results[progress[v].task] = None
      BY <3>1 DEF FanOrder, OwnTasks
    <3>3. progress[v].task # t
      BY <1>2, <3>1 DEF FanOrder, OwnTasks, t
    <3>4. progress[v].task \in Fan!Tasks
      BY <1>1, <1>3, <3>2 DEF Fan!Tasks
    <3> QED BY <1>7, <3>1, <3>2, <3>3, <3>4
  <2>2. ASSUME NEW v \in Workers, NEW u \in Workers, v # u,
               progress'[v].pc # "free", progress'[u].pc # "free"
        PROVE  progress'[v].task # progress'[u].task
    BY <1>9, <2>2 DEF FanOrder, OwnTasks
  <2> QED BY <1>8, <2>1, <2>2 DEF OwnTasks
<1>11. trace.ordered[t] = None
  BY <1>2, <1>3 DEF FanOrder, ResultsPlaced, t
<1>12. ResultsPlaced(trace')
  <2>1. ASSUME NEW i \in Fan!Tasks
        PROVE  /\ i > trace.submitted => rs[i] = None
               /\ rs[i] # None => rs[i].task = i
               /\ trace.ordered[i] = None \/ trace.ordered[i] = rs[i]
    <3>1. CASE i = t
      <4>1. ~(i > trace.submitted)
        BY <1>2, <1>3, <3>1 DEF t
      <4> QED BY <1>6, <1>7, <1>11, <3>1, <4>1
    <3>2. CASE i # t
      BY <1>7, <3>2 DEF FanOrder, ResultsPlaced
    <3> QED BY <3>1, <3>2
  <2> QED BY <1>3, <1>7, <1>8, <2>1 DEF FanOrder, ResultsPlaced
<1>13. AllReturned(trace')
  BY <1>3, <1>8, <1>11 DEF FanOrder, AllReturned
<1> QED BY <1>8, <1>10, <1>12, <1>13 DEF FanOrder

\* as_completed: a result is collected into its own place.
LEMMA CollectKeeps ==
  ASSUME FanOrder, NEW i \in Fan!Tasks, Fan!Collect(i)
  PROVE  FanOrder'
<1> DEFINE os == [trace.ordered EXCEPT ![i] = trace.results[i]]
<1>1. trace.results[i] # None /\ progress' = progress /\ trace' = [trace EXCEPT !.ordered = os]
  BY DEF Fan!Collect, Fan!Place, FanOrder, BatchShape
<1>2. /\ os = [j \in Fan!Tasks |-> os[j]] /\ os[i] = trace.results[i]
      /\ \A j \in Fan!Tasks \ {i} : os[j] = trace.ordered[j]
  BY DEF FanOrder, ResultsPlaced
<1> HIDE DEF os
<1>3. /\ trace'.submitted = trace.submitted /\ trace'.results = trace.results /\ trace'.ordered = os
      /\ trace'.returned = trace.returned /\ BatchShape(trace')
  <2>1. trace' = [submitted |-> trace.submitted, results |-> trace.results, ordered |-> os,
                  returned |-> trace.returned]
    BY <1>1, BatchFields DEF FanOrder
  <2> QED BY <2>1 DEF BatchShape
<1>4. \A j \in Fan!Tasks : os[j] = None \/ os[j] = trace.results[j]
  BY <1>2 DEF FanOrder, ResultsPlaced
<1>5. ResultsPlaced(trace')
  BY <1>2, <1>3, <1>4 DEF FanOrder, ResultsPlaced
<1>6. OwnTasks(progress', trace')
  BY <1>1, <1>3 DEF FanOrder, OwnTasks
<1>7. AllReturned(trace')
  BY <1>1, <1>2, <1>3 DEF FanOrder, AllReturned
<1> QED BY <1>3, <1>5, <1>6, <1>7 DEF FanOrder

\* run returns when every future is collected.
LEMMA ReturnKeeps ==
  ASSUME FanOrder, Fan!Return
  PROVE  FanOrder'
<1>1. TaskCount \in Nat /\ Fan!Tasks = 1..TaskCount
  BY LibraryConstants DEF Fan!FanOutConstantsOK, Fan!Tasks
<1>2. /\ progress' = progress /\ trace' = [trace EXCEPT !.returned = Fan!Present(trace.ordered)]
      /\ Cardinality({j \in Fan!Tasks : trace.ordered[j] # None}) = TaskCount
  BY FanSets DEF Fan!Return
<1>3. \A j \in Fan!Tasks : trace.ordered[j] # None
  <2> DEFINE S == {j \in Fan!Tasks : trace.ordered[j] # None}
  <2>1. IsFiniteSet(Fan!Tasks) /\ Cardinality(Fan!Tasks) = TaskCount /\ S \subseteq Fan!Tasks
    BY <1>1, FS_Interval
  <2>2. Cardinality(S) = TaskCount
    BY <1>2
  <2> HIDE DEF S
  <2>3. S = Fan!Tasks
    BY <2>1, <2>2, FS_Subset
  <2> QED BY <2>3 DEF S
<1>4. trace.ordered = trace.results
  BY <1>3 DEF FanOrder, ResultsPlaced
<1>5. Fan!Present(trace.ordered) = trace.results
  BY <1>1, <1>3, <1>4, PresentIsAll DEF FanOrder, ResultsPlaced
<1>6. /\ trace'.submitted = trace.submitted /\ trace'.results = trace.results
      /\ trace'.ordered = trace.ordered /\ trace'.returned = trace.results /\ BatchShape(trace')
  <2>1. trace' = [submitted |-> trace.submitted, results |-> trace.results, ordered |-> trace.ordered,
                  returned |-> trace.results]
    BY <1>2, <1>5, BatchFields DEF FanOrder
  <2> QED BY <2>1 DEF BatchShape
<1>7. ResultsPlaced(trace') /\ OwnTasks(progress', trace') /\ AllReturned(trace')
  BY <1>2, <1>3, <1>6 DEF FanOrder, ResultsPlaced, OwnTasks, AllReturned
<1> QED BY <1>6, <1>7 DEF FanOrder

LEMMA FanOrderKeeps ==
  ASSUME FanTypes, FanOrder, Fan!Next \/ UNCHANGED others
  PROVE  FanOrder'
<1>1. Fan!Terminated \/ UNCHANGED others => UNCHANGED <<progress, trace>>
  BY DEF Fan!Terminated, Fan!fanOutVars, others
<1>2. UNCHANGED <<progress, trace>> => TasksStay
  BY DEF TasksStay
<1> QED BY <1>1, <1>2, StayKeeps, LimiterLeavesTasks, TakeKeeps, FinishKeeps, CollectKeeps, ReturnKeeps
  DEF Fan!Next

FanOrderInv == part = "fan-out" => FanTypes /\ CountsThreads /\ FanOrder

\* ParallelFanOut.run and merge_answers: whatever order the futures finish and
\* are collected in, results are in the order of the tasks.
THEOREM TaskOrderKept == LibrarySpec => []ResultsInTaskOrder
<1>1. ASSUME LibraryInit, part = "fan-out"
      PROVE  FanOrder
  <2>1. /\ trace = [submitted |-> 0, results |-> [i \in Fan!Tasks |-> None],
                    ordered |-> [i \in Fan!Tasks |-> None], returned |-> None]
        /\ progress = [w \in Workers |-> [pc |-> "free", task |-> 0, outcome |-> None]]
    BY <1>1, PartInits DEF Fan!Init
  <2>2. OwnTasks(progress, trace)
    BY <2>1 DEF OwnTasks
  <2>3. 0 \in 0..TaskCount
    BY LibraryConstants DEF Fan!FanOutConstantsOK
  <2> QED BY <2>1, <2>2, <2>3 DEF FanOrder, BatchShape, ResultsPlaced, AllReturned
<1>2. LibraryInit => FanOrderInv
  BY <1>1, FanInitial DEF FanOrderInv
<1>3. ASSUME FanOrderInv, [LibraryNext]_libraryVars
      PROVE  FanOrderInv'
  BY <1>3, PartSteps, FanNextKeeps, FanOrderKeeps DEF FanOrderInv
<1>4. ASSUME FanOrderInv
      PROVE  ResultsInTaskOrder
  <2> SUFFICES ASSUME part = "fan-out"
               PROVE  Fan!ResultsInTaskOrder
    BY DEF ResultsInTaskOrder
  <2>1. TaskCount \in Nat /\ Fan!Tasks = 1..TaskCount
    BY LibraryConstants DEF Fan!FanOutConstantsOK, Fan!Tasks
  <2>2. ResultsPlaced(trace) /\ AllReturned(trace)
    BY <1>4 DEF FanOrderInv, FanOrder
  <2>3. \A i \in Fan!Tasks : trace.ordered[i] \in {None, trace.results[i]}
    BY <2>2 DEF ResultsPlaced
  <2>4. ASSUME trace.returned # None
        PROVE  /\ trace.returned = trace.results
               /\ \A i \in Fan!Tasks : trace.returned[i].task = i
               /\ InOrder(Fan!Merged(trace.returned),
                          {k \in 1..TaskCount : trace.returned[k].outcome = "ok"}, TaskCount)
    <3>1. /\ trace.returned = trace.results
          /\ \A i \in Fan!Tasks : trace.results[i] # None
      BY <2>2, <2>4 DEF AllReturned, ResultsPlaced
    <3>2. /\ \A i \in Fan!Tasks : trace.results[i].task = i
          /\ DOMAIN trace.results = 1..TaskCount
      BY <2>1, <2>2, <3>1 DEF ResultsPlaced
    <3> QED BY <2>1, <3>1, <3>2, MergedInOrder
  <2>5. {k \in 1..TaskCount : trace.results[k].outcome = "ok"} \cap (1..TaskCount)
          = {i \in Fan!Tasks : trace.results[i].outcome = "ok"}
    BY <2>1
  <2> QED BY <2>3, <2>4, <2>5 DEF Fan!ResultsInTaskOrder, InOrder
<1> QED BY <1>2, <1>3, <1>4, PTL DEF LibrarySpec

-----------------------------------------------------------------------------
(* Ledgers *)

LEMMA LedgerSets ==
  /\ \A S : Ledger!Cardinality(S) = LedgerProofs!Cardinality(S)
  /\ \A S : Ledger!IsFiniteSet(S) <=> LedgerProofs!IsFiniteSet(S)
<1>1. \A S : Ledger!Cardinality(S) = LedgerProofs!Cardinality(S)
  BY Zenon DEF Ledger!Cardinality, LedgerProofs!Cardinality
<1>2. \A S : Ledger!IsFiniteSet(S) <=> LedgerProofs!IsFiniteSet(S)
  BY Zenon DEF Ledger!IsFiniteSet, LedgerProofs!IsFiniteSet
<1> QED BY <1>1, <1>2

LEMMA LedgerSums ==
  \A f, S : Ledger!SumOver(f, S) = LedgerProofs!SumOver(f, S)
BY Zenon DEF Ledger!SumOver, LedgerProofs!SumOver, Ledger!MapThenSumSet, LedgerProofs!MapThenSumSet,
      Ledger!MapThenFoldSet, LedgerProofs!MapThenFoldSet

LEMMA LedgerConstants == LedgerProofs!LedgerConstantsOK
BY LibraryConstants, LedgerSets DEF Ledger!LedgerConstantsOK, LedgerProofs!LedgerConstantsOK

LEMMA LedgerRows ==
  /\ Ledger!Empty = LedgerProofs!Empty
  /\ \A row : Ledger!Total(row) = LedgerProofs!Total(row)
  /\ \A op, o, x, n : Ledger!Log(op, o, x, n) => LedgerProofs!Log(op, o, x, n)
  /\ \A o, x, n : Ledger!Charge(o, x, n) => LedgerProofs!Charge(o, x, n)
  /\ \A o, xs : Ledger!Clear(o, xs) => LedgerProofs!Clear(o, xs)
<1>1. Ledger!Empty = LedgerProofs!Empty
  BY DEF Ledger!Empty, LedgerProofs!Empty
<1>2. \A row : Ledger!Total(row) = LedgerProofs!Total(row)
  BY LedgerSums DEF Ledger!Total, LedgerProofs!Total
<1>3. \A op, o, x, n : Ledger!Log(op, o, x, n) => LedgerProofs!Log(op, o, x, n)
  BY DEF Ledger!Log, LedgerProofs!Log
<1>4. \A o, x, n : Ledger!Charge(o, x, n) => LedgerProofs!Charge(o, x, n)
  BY DEF Ledger!Charge, LedgerProofs!Charge
<1>5. \A o, xs : Ledger!Clear(o, xs) => LedgerProofs!Clear(o, xs)
  BY DEF Ledger!Clear, LedgerProofs!Clear
<1> QED BY <1>1, <1>2, <1>3, <1>4, <1>5

LEMMA LedgerSame ==
  /\ Ledger!Init => LedgerProofs!Init
  /\ Ledger!Next => LedgerProofs!Next
<1>1. Ledger!Init => LedgerProofs!Init
  BY LedgerRows DEF Ledger!Init, LedgerProofs!Init, Ledger!Classes, LedgerProofs!Classes
<1>2. \A o, x :
       /\ Ledger!RecordCall(o, x) => LedgerProofs!RecordCall(o, x)
       /\ Ledger!ResetCalls(o, x) => LedgerProofs!ResetCalls(o, x)
       /\ Ledger!Arrive(o, x) => LedgerProofs!Arrive(o, x)
       /\ Ledger!Observe(o, x) => LedgerProofs!Observe(o, x)
  BY LedgerRows
     DEF Ledger!RecordCall, LedgerProofs!RecordCall, Ledger!ResetCalls, LedgerProofs!ResetCalls,
         Ledger!Arrive, LedgerProofs!Arrive, Ledger!Observe, LedgerProofs!Observe,
         Ledger!Exhausted, LedgerProofs!Exhausted
<1>3. \A o, x : Ledger!RecordBotTurn(o, x) => LedgerProofs!RecordBotTurn(o, x)
  BY LedgerRows
     DEF Ledger!RecordBotTurn, LedgerProofs!RecordBotTurn,
         Ledger!WouldAllow, LedgerProofs!WouldAllow
<1>4. \A o, x :
       /\ Ledger!GrantTool(o, x) => LedgerProofs!GrantTool(o, x)
       /\ Ledger!RevokeTool(o, x) => LedgerProofs!RevokeTool(o, x)
       /\ Ledger!ClaimRole(o, x) => LedgerProofs!ClaimRole(o, x)
       /\ Ledger!ReleaseRole(o, x) => LedgerProofs!ReleaseRole(o, x)
  BY LedgerRows
     DEF Ledger!GrantTool, LedgerProofs!GrantTool, Ledger!RevokeTool, LedgerProofs!RevokeTool,
         Ledger!Revoked, LedgerProofs!Revoked,
         Ledger!ClaimRole, LedgerProofs!ClaimRole, Ledger!ReleaseRole, LedgerProofs!ReleaseRole
<1>5. \A o, x :
       /\ Ledger!Bind(o, x) => LedgerProofs!Bind(o, x)
       /\ Ledger!DecideReview(o, x) => LedgerProofs!DecideReview(o, x)
       /\ Ledger!AddVote(o, x) => LedgerProofs!AddVote(o, x)
  BY LedgerRows
     DEF Ledger!Bind, LedgerProofs!Bind, Ledger!DecideReview, LedgerProofs!DecideReview,
         Ledger!AddVote, LedgerProofs!AddVote
<1>6. \A o :
       /\ \A used : Ledger!RecordTokens(o, used) => LedgerProofs!RecordTokens(o, used)
       /\ Ledger!RecordTurn(o) => LedgerProofs!RecordTurn(o)
  BY LedgerRows
     DEF Ledger!RecordTokens, LedgerProofs!RecordTokens, Ledger!RecordTurn, LedgerProofs!RecordTurn,
         Ledger!Exhausted, LedgerProofs!Exhausted
<1>7. \A o :
       /\ Ledger!Unbind(o) => LedgerProofs!Unbind(o)
       /\ Ledger!ResetAllCalls(o) => LedgerProofs!ResetAllCalls(o)
       /\ Ledger!ResetTurns(o) => LedgerProofs!ResetTurns(o)
       /\ Ledger!ResetTokens(o) => LedgerProofs!ResetTokens(o)
       /\ Ledger!ResetFairness(o) => LedgerProofs!ResetFairness(o)
       /\ Ledger!ResetBarrier(o) => LedgerProofs!ResetBarrier(o)
       /\ Ledger!ResetResults(o) => LedgerProofs!ResetResults(o)
       /\ Ledger!ResetRole(o) => LedgerProofs!ResetRole(o)
  <2>1. \A o, class : Ledger!ClearRow(o, class) => LedgerProofs!ClearRow(o, class)
    BY LedgerRows DEF Ledger!ClearRow, LedgerProofs!ClearRow
  <2> QED BY <2>1
    DEF Ledger!Unbind, LedgerProofs!Unbind, Ledger!ResetAllCalls, LedgerProofs!ResetAllCalls,
        Ledger!ResetTurns, LedgerProofs!ResetTurns, Ledger!ResetTokens, LedgerProofs!ResetTokens,
        Ledger!ResetFairness, LedgerProofs!ResetFairness,
        Ledger!ResetBarrier, LedgerProofs!ResetBarrier,
        Ledger!ResetResults, LedgerProofs!ResetResults, Ledger!ResetRole, LedgerProofs!ResetRole
<1>8. /\ Ledger!ClearVotes => LedgerProofs!ClearVotes
      /\ Ledger!MakePlan => LedgerProofs!MakePlan
      /\ \A n : Ledger!Reserve(n) => LedgerProofs!Reserve(n)
      /\ Ledger!Read => LedgerProofs!Read
  BY LedgerRows
     DEF Ledger!ClearVotes, LedgerProofs!ClearVotes, Ledger!MakePlan, LedgerProofs!MakePlan,
         Ledger!ByTokens, LedgerProofs!ByTokens, Ledger!Reserve, LedgerProofs!Reserve,
         Ledger!Read, LedgerProofs!Read, Ledger!ledgerVars, LedgerProofs!ledgerVars
<1>9. Ledger!Next => LedgerProofs!Next
  BY <1>2, <1>3, <1>4, <1>5, <1>6, <1>7, <1>8 DEF Ledger!Next, LedgerProofs!Next
<1> QED BY <1>1, <1>9

LedgersInv == part = "ledgers" => LedgerProofs!LedgerInv

LEMMA LedgersInvariance == LibrarySpec => []LedgersInv
<1>1. LibraryInit => LedgersInv
  BY PartInits, LedgerSame, LedgerConstants, LedgerProofs!InitLedgerInv DEF LedgersInv
<1>2. ASSUME LedgersInv, [LibraryNext]_libraryVars
      PROVE  LedgersInv'
  <2>1. CASE part = "ledgers"
    <3>1. [LedgerProofs!Next]_LedgerProofs!ledgerVars
      BY <1>2, <2>1, PartSteps, LedgerSame DEF others, LedgerProofs!ledgerVars
    <3> QED BY <1>2, <2>1, <3>1, LedgerConstants, LedgerProofs!NextLedgerInv DEF LedgersInv
  <2>2. CASE part # "ledgers"
    BY <1>2, <2>2, PartSteps DEF LedgersInv
  <2> QED BY <2>1, <2>2
<1> QED BY <1>1, <1>2, PTL DEF LibrarySpec

\* The logs say the same through both instances.
LEMMA LedgerLogs ==
  /\ \A o, x : Ledger!Standing(o, x) = LedgerProofs!Standing(o, x)
  /\ \A o, x : Ledger!Recorded(o, x) = LedgerProofs!Recorded(o, x)
  /\ \A o, x : Ledger!Granted(o, x) <=> LedgerProofs!Granted(o, x)
  /\ \A o, x : Ledger!Pinned(o, x) <=> LedgerProofs!Pinned(o, x)
<1>1. \A o, x : Ledger!Standing(o, x) = LedgerProofs!Standing(o, x)
  BY DEF Ledger!Standing, LedgerProofs!Standing, Ledger!Drops, LedgerProofs!Drops
<1>2. \A o, x : Ledger!Recorded(o, x) = LedgerProofs!Recorded(o, x)
  BY <1>1, LedgerSums
     DEF Ledger!Recorded, LedgerProofs!Recorded, Ledger!Amounts, LedgerProofs!Amounts
<1>3. \A o, x : Ledger!Granted(o, x) <=> LedgerProofs!Granted(o, x)
  BY DEF Ledger!Granted, LedgerProofs!Granted, Ledger!Ends, LedgerProofs!Ends
<1>4. \A o, x : Ledger!Pinned(o, x) <=> LedgerProofs!Pinned(o, x)
  BY <1>1 DEF Ledger!Pinned, LedgerProofs!Pinned
<1> QED BY <1>1, <1>2, <1>3, <1>4

LEMMA LedgerAnswers ==
  /\ \A total : Ledger!TokenStatus(total) = LedgerProofs!TokenStatus(total)
  /\ \A row : /\ Ledger!Released(row) <=> LedgerProofs!Released(row)
              /\ Ledger!Conflict(row) <=> LedgerProofs!Conflict(row)
  /\ \A row, x : Ledger!Allowed(row, x) <=> LedgerProofs!Allowed(row, x)
  /\ Ledger!Winner = LedgerProofs!Winner
<1>1. \A total : Ledger!TokenStatus(total) = LedgerProofs!TokenStatus(total)
  BY DEF Ledger!TokenStatus, LedgerProofs!TokenStatus
<1>2. \A row : /\ Ledger!Released(row) <=> LedgerProofs!Released(row)
               /\ Ledger!Conflict(row) <=> LedgerProofs!Conflict(row)
  BY LedgerSets DEF Ledger!Released, LedgerProofs!Released, Ledger!Conflict, LedgerProofs!Conflict
<1>3. \A row, x : Ledger!Allowed(row, x) <=> LedgerProofs!Allowed(row, x)
  BY LedgerRows DEF Ledger!Allowed, LedgerProofs!Allowed
<1>4. Ledger!Winner = LedgerProofs!Winner
  <2>1. \A x : Ledger!Tally(x) = LedgerProofs!Tally(x)
    BY LedgerSets DEF Ledger!Tally, LedgerProofs!Tally
  <2>2. Ledger!Voters = LedgerProofs!Voters
    BY LedgerSets, LedgerRows DEF Ledger!Voters, LedgerProofs!Voters
  <2>3. Ledger!Leaders = LedgerProofs!Leaders
    BY <2>1 DEF Ledger!Leaders, LedgerProofs!Leaders
  <2> QED BY <2>1, <2>2, <2>3, LedgerSets DEF Ledger!Winner, LedgerProofs!Winner
<1> QED BY <1>1, <1>2, <1>3, <1>4

\* The session ledgers: every answer follows from the operations accepted, for
\* all numbers of owners, items and operations and in whatever order they come.
THEOREM LedgersRemember == LibrarySpec => []LedgersAreTheirLog
<1>1. ASSUME LedgersInv
      PROVE  LedgersAreTheirLog
  <2>1. part = "ledgers" => LedgerProofs!LedgersAreTheirLog
    BY <1>1, LedgerConstants, LedgerProofs!AnswersFromInv DEF LedgersInv
  <2>2. ASSUME NEW o \in Owners, NEW x \in Items
        PROVE  LedgerProofs!AmountsAnswer(o, x) => Ledger!AmountsAnswer(o, x)
    <3>1. /\ {y \in Items : Ledger!Standing(o, y) # {}} = {y \in Items : LedgerProofs!Standing(o, y) # {}}
          /\ {i \in Ledger!Standing(o, x) : trace[i].op = "accept"}
               = {i \in LedgerProofs!Standing(o, x) : trace[i].op = "accept"}
      BY LedgerLogs
    <3> QED BY <3>1, LedgerSets, LedgerRows, LedgerLogs, LedgerAnswers
      DEF Ledger!AmountsAnswer, LedgerProofs!AmountsAnswer
  <2>3. ASSUME NEW o \in Owners, NEW x \in Items
        PROVE  LedgerProofs!GrantsAnswer(o, x) => Ledger!GrantsAnswer(o, x)
    BY LedgerLogs, LedgerAnswers DEF Ledger!GrantsAnswer, LedgerProofs!GrantsAnswer
  <2>4. ASSUME NEW o \in Owners, NEW x \in Items
        PROVE  LedgerProofs!PinsAnswer(o, x) => Ledger!PinsAnswer(o, x)
    <3>1. /\ {v \in Owners : Ledger!Pinned(v, x)} = {v \in Owners : LedgerProofs!Pinned(v, x)}
          /\ {v \in Owners : \E y \in Items : Ledger!Pinned(v, y)}
               = {v \in Owners : \E y \in Items : LedgerProofs!Pinned(v, y)}
      BY LedgerLogs
    <3> QED BY <3>1, LedgerSets, LedgerLogs, LedgerAnswers
      DEF Ledger!PinsAnswer, LedgerProofs!PinsAnswer
  <2>5. LedgerProofs!PlanAnswers => Ledger!PlanAnswers
    BY DEF Ledger!PlanAnswers, LedgerProofs!PlanAnswers
  <2> QED BY <2>1, <2>2, <2>3, <2>4, <2>5
    DEF LedgersAreTheirLog, Ledger!LedgersAreTheirLog, LedgerProofs!LedgersAreTheirLog
<1> QED BY <1>1, LedgersInvariance, PTL

-----------------------------------------------------------------------------
(* Timers *)

LogEntries == [op : {"report", "forget"}, keys : SUBSET TimerKeys, at : Nat]

TimerTypes ==
  /\ setup \in [class : Timer!Classes, hard : BOOLEAN]
  /\ objects \in [TimerKeys -> Nat \cup {None}]
  /\ progress \in Nat
  /\ trace \in Seq(LogEntries)
  /\ \A i \in DOMAIN trace : trace[i].at <= progress

\* A stamp is the time that came with the last report that still counts.
LastReport(k, stamp, counted, reports) ==
  IF stamp = None
    THEN counted = {}
    ELSE \E i \in counted : reports[i].at = stamp /\ \A j \in counted : j <= i

StampsTrace == \A k \in TimerKeys : LastReport(k, objects[k], Timer!Reports(k), trace)

EvictedAll ==
  setup.class = "entries" /\ trace # <<>> /\ trace[Len(trace)].op = "forget"
    /\ trace[Len(trace)].at = progress => Timer!ExpiredKeys(progress) = {}

TimerInv == part = "timers" => TimerTypes /\ StampsTrace /\ EvictedAll

LEMMA TimerConstants == Period \in Nat /\ None \notin Nat
BY LibraryConstants DEF Timer!TimerConstantsOK

LEMMA LogTyped ==
  ASSUME TimerTypes
  PROVE  /\ Len(trace) \in Nat /\ DOMAIN trace = 1..Len(trace)
         /\ \A i \in DOMAIN trace : trace[i].at \in Nat /\ trace[i].at <= progress
<1>1. \A i \in DOMAIN trace : trace[i] \in LogEntries /\ trace[i].at <= progress
  BY DEF TimerTypes
<1>2. \A e \in LogEntries : e.at \in Nat
  BY DEF LogEntries
<1>3. Len(trace) \in Nat /\ DOMAIN trace = 1..Len(trace)
  BY DEF TimerTypes
<1> QED BY <1>1, <1>2, <1>3

\* What one more entry of the log does to the reports that count.
LEMMA ReportsAppend ==
  ASSUME TimerTypes, NEW r \in LogEntries, trace' = Append(trace, r), NEW k \in TimerKeys
  PROVE  Timer!Reports(k)' =
           IF k \notin r.keys THEN Timer!Reports(k)
           ELSE IF r.op = "forget" THEN {} ELSE Timer!Reports(k) \cup {Len(trace) + 1}
<1> DEFINE n == Len(trace)
<1>1. /\ trace \in Seq(LogEntries) /\ n \in Nat /\ DOMAIN trace = 1..n
      /\ Len(trace') = n + 1 /\ DOMAIN trace' = 1..(n + 1)
      /\ trace'[n + 1] = r /\ \A i \in 1..n : trace'[i] = trace[i]
  BY DEF TimerTypes
<1>2. r.op \in {"report", "forget"} /\ (r.op = "report" => r.op # "forget")
  BY DEF LogEntries
<1> DEFINE Forgets(i) == \E j \in (i + 1)..n : trace[j].op = "forget" /\ k \in trace[j].keys
           Drops == r.op = "forget" /\ k \in r.keys
<1>3. ASSUME NEW i \in 1..n
      PROVE  i \in Timer!Reports(k)' <=> i \in Timer!Reports(k) /\ ~Drops
  <2>1. /\ i \in Timer!Reports(k) <=> trace[i].op = "report" /\ k \in trace[i].keys /\ ~Forgets(i)
        /\ \A j \in (i + 1)..(n + 1) : j \in 1..n \/ j = n + 1
        /\ n + 1 \in (i + 1)..(n + 1) /\ \A j \in (i + 1)..n : j \in (i + 1)..(n + 1) /\ j \in 1..n
    BY <1>1 DEF Timer!Reports
  <2>2. i \in Timer!Reports(k)' <=>
          /\ trace[i].op = "report" /\ k \in trace[i].keys
          /\ \A j \in (i + 1)..(n + 1) : ~(trace'[j].op = "forget" /\ k \in trace'[j].keys)
    BY <1>1 DEF Timer!Reports
  <2>3. (\A j \in (i + 1)..(n + 1) : ~(trace'[j].op = "forget" /\ k \in trace'[j].keys))
          <=> ~Forgets(i) /\ ~Drops
    <3>1. ASSUME \A j \in (i + 1)..(n + 1) : ~(trace'[j].op = "forget" /\ k \in trace'[j].keys)
          PROVE  ~Forgets(i) /\ ~Drops
      BY <1>1, <2>1, <3>1
    <3>2. ASSUME ~Forgets(i) /\ ~Drops, NEW j \in (i + 1)..(n + 1)
          PROVE  ~(trace'[j].op = "forget" /\ k \in trace'[j].keys)
      <4>1. CASE j = n + 1
        BY <1>1, <3>2, <4>1
      <4>2. CASE j \in (i + 1)..n
        BY <1>1, <2>1, <3>2, <4>2
      <4> QED BY <1>1, <4>1, <4>2
    <3> QED BY <3>1, <3>2
  <2> QED BY <2>1, <2>2, <2>3
<1>4. n + 1 \in Timer!Reports(k)' <=> r.op = "report" /\ k \in r.keys
  BY <1>1 DEF Timer!Reports
<1>5. Timer!Reports(k)' \subseteq 1..(n + 1) /\ Timer!Reports(k) \subseteq 1..n
  BY <1>1 DEF Timer!Reports
<1>6. \A i \in 1..(n + 1) : i \in 1..n \/ i = n + 1
  BY <1>1
<1>7. n + 1 \notin 1..n
  BY <1>1
<1> HIDE DEF n
<1> HIDE DEF Drops
<1>8. CASE k \notin r.keys
  <2>1. ~Drops
    BY <1>8 DEF Drops
  <2>2. \A i \in 1..(n + 1) : i \in Timer!Reports(k)' <=> i \in Timer!Reports(k)
    BY <1>3, <1>4, <1>5, <1>6, <1>7, <1>8, <2>1
  <2>3. 1..n \subseteq 1..(n + 1)
    BY <1>1 DEF n
  <2>4. Timer!Reports(k)' = Timer!Reports(k)
    BY <1>5, <2>2, <2>3
  <2> QED BY <1>8, <2>4
<1>9. CASE k \in r.keys /\ r.op = "forget"
  <2>1. Drops
    BY <1>9 DEF Drops
  <2> QED BY <1>2, <1>3, <1>4, <1>5, <1>6, <1>9, <2>1
<1>10. CASE k \in r.keys /\ r.op = "report"
  <2>1. ~Drops
    BY <1>10 DEF Drops
  <2>2. \A i \in 1..(n + 1) : i \in Timer!Reports(k)' <=> i \in Timer!Reports(k) \/ i = n + 1
    BY <1>3, <1>4, <1>5, <1>6, <1>7, <1>10, <2>1
  <2>3. n + 1 \in 1..(n + 1) /\ 1..n \subseteq 1..(n + 1)
    BY <1>1 DEF n
  <2>4. Timer!Reports(k)' = Timer!Reports(k) \cup {n + 1}
    BY <1>5, <2>2, <2>3
  <2> QED BY <1>2, <1>10, <2>4 DEF n
<1> QED BY <1>2, <1>8, <1>9, <1>10

LEMMA ReportKeeps ==
  ASSUME TimerTypes, StampsTrace, NEW k \in TimerKeys, NEW t \in 0..progress, Timer!Report(k, t)
  PROVE  TimerTypes' /\ StampsTrace' /\ EvictedAll'
<1> DEFINE r == [op |-> "report", keys |-> {k}, at |-> t]
           n == Len(trace)
<1>1. /\ r \in LogEntries /\ r.op = "report" /\ r.keys = {k} /\ r.at = t /\ t \in Nat /\ t <= progress
      /\ trace' = Append(trace, r)
      /\ objects' = [objects EXCEPT ![k] = t] /\ setup' = setup /\ progress' = progress
  BY DEF Timer!Report, TimerTypes, LogEntries
<1> HIDE DEF r
<1>2. /\ trace \in Seq(LogEntries) /\ n \in Nat /\ DOMAIN trace = 1..n
      /\ trace' \in Seq(LogEntries) /\ DOMAIN trace' = 1..(n + 1) /\ Len(trace') = n + 1
      /\ trace'[n + 1] = r /\ \A i \in 1..n : trace'[i] = trace[i]
  BY <1>1 DEF TimerTypes
<1>3. TimerTypes'
  <2>1. \A i \in DOMAIN trace' : trace'[i].at <= progress'
    BY <1>1, <1>2 DEF TimerTypes
  <2> QED BY <1>1, <1>2, <2>1 DEF TimerTypes
<1>4. ASSUME NEW j \in TimerKeys
      PROVE  LastReport(j, objects[j], Timer!Reports(j), trace)'
  <2>1. Timer!Reports(j) \subseteq 1..n
    BY <1>2 DEF Timer!Reports
  <2>2. CASE j # k
    <3>1. Timer!Reports(j)' = Timer!Reports(j) /\ objects'[j] = objects[j]
      BY <1>1, <2>2, ReportsAppend DEF TimerTypes
    <3> QED BY <1>2, <2>1, <3>1 DEF StampsTrace, LastReport
  <2>3. CASE j = k
    <3>1. Timer!Reports(k)' = Timer!Reports(k) \cup {n + 1} /\ objects'[k] = t
      BY <1>1, ReportsAppend DEF TimerTypes
    <3>2. \A i \in Timer!Reports(k)' : i <= n + 1
      BY <1>2, <2>1, <2>3, <3>1
    <3>3. trace'[n + 1].at = t
      BY <1>1, <1>2
    <3>4. t # None
      BY <1>1, TimerConstants
    <3> QED BY <2>3, <3>1, <3>2, <3>3, <3>4 DEF LastReport
  <2> QED BY <2>2, <2>3
<1>5. EvictedAll'
  BY <1>1, <1>2 DEF EvictedAll
<1> QED BY <1>3, <1>4, <1>5 DEF StampsTrace

LEMMA ForgetKeeps ==
  ASSUME TimerTypes, StampsTrace, NEW ks \in SUBSET TimerKeys, Timer!Forget(ks),
         setup.class = "entries" => ks = Timer!ExpiredKeys(progress)
  PROVE  TimerTypes' /\ StampsTrace' /\ EvictedAll'
<1> DEFINE r == [op |-> "forget", keys |-> ks, at |-> progress]
           n == Len(trace)
<1>1. /\ r \in LogEntries /\ r.op = "forget" /\ r.keys = ks /\ r.at = progress
      /\ trace' = Append(trace, r)
      /\ objects' = [k \in TimerKeys |-> IF k \in ks THEN None ELSE objects[k]]
      /\ setup' = setup /\ progress' = progress
  BY DEF Timer!Forget, TimerTypes, LogEntries
<1> HIDE DEF r
<1>2. /\ trace \in Seq(LogEntries) /\ n \in Nat /\ DOMAIN trace = 1..n
      /\ trace' \in Seq(LogEntries) /\ DOMAIN trace' = 1..(n + 1)
      /\ trace'[n + 1] = r /\ \A i \in 1..n : trace'[i] = trace[i]
  BY <1>1 DEF TimerTypes
<1>3. TimerTypes'
  <2>1. \A i \in DOMAIN trace' : trace'[i].at <= progress'
    BY <1>1, <1>2 DEF TimerTypes
  <2> QED BY <1>1, <1>2, <2>1 DEF TimerTypes
<1>4. ASSUME NEW j \in TimerKeys
      PROVE  LastReport(j, objects[j], Timer!Reports(j), trace)'
  <2>1. Timer!Reports(j) \subseteq 1..n
    BY <1>2 DEF Timer!Reports
  <2>2. CASE j \notin ks
    <3>1. Timer!Reports(j)' = Timer!Reports(j) /\ objects'[j] = objects[j]
      BY <1>1, <2>2, ReportsAppend
    <3> QED BY <1>2, <2>1, <3>1 DEF StampsTrace, LastReport
  <2>3. CASE j \in ks
    <3>1. Timer!Reports(j)' = {} /\ objects'[j] = None
      BY <1>1, <2>3, ReportsAppend
    <3> QED BY <3>1 DEF LastReport
  <2> QED BY <2>2, <2>3
<1>5. EvictedAll'
  <2> SUFFICES ASSUME setup.class = "entries", NEW k \in TimerKeys, objects'[k] # None,
                      progress - objects'[k] >= Period
               PROVE  FALSE
    BY <1>1 DEF EvictedAll, Timer!ExpiredKeys, Timer!EntryExpired
  <2>1. k \notin ks /\ objects'[k] = objects[k]
    BY <1>1
  <2> QED BY <2>1 DEF Timer!ExpiredKeys, Timer!EntryExpired
<1> QED BY <1>3, <1>4, <1>5 DEF StampsTrace

LEMMA TimerNextKeeps ==
  ASSUME TimerTypes, StampsTrace, EvictedAll, Timer!Next \/ UNCHANGED others
  PROVE  TimerTypes' /\ StampsTrace' /\ EvictedAll'
<1>1. ASSUME NEW k \in TimerKeys, NEW t \in 0..progress,
             \/ Timer!TouchSession(k, t) \/ Timer!TouchEntry(k, t) \/ Timer!Heartbeat(k, t)
             \/ Timer!RecordDeny(k, t) \/ Timer!StartRun(k, t)
      PROVE  Timer!Report(k, t)
  BY <1>1 DEF Timer!TouchSession, Timer!TouchEntry, Timer!Heartbeat, Timer!RecordDeny, Timer!StartRun
<1>2. ASSUME NEW k \in TimerKeys, Timer!ResetSession(k) \/ Timer!ResetCooldown(k)
      PROVE  setup.class # "entries" /\ Timer!Forget({k})
  BY <1>2 DEF Timer!ResetSession, Timer!ResetCooldown
<1>3. CASE Timer!Evict
  <2>1. /\ Timer!Forget(Timer!ExpiredKeys(progress))
        /\ Timer!ExpiredKeys(progress) \subseteq TimerKeys
    BY <1>3 DEF Timer!Evict, Timer!Doomed, Timer!ExpiredKeys
  <2> QED BY <2>1, ForgetKeeps
<1>4. CASE Timer!Tick
  <2>1. /\ progress' = progress + 1 /\ progress \in Nat /\ progress' \in Nat
        /\ setup' = setup /\ objects' = objects /\ trace' = trace
    BY <1>4 DEF Timer!Tick, TimerTypes
  <2>2. \A i \in DOMAIN trace : trace[i].at \in Nat /\ trace[i].at <= progress
    BY LogTyped
  <2>3. \A i \in DOMAIN trace : trace[i].at < progress'
    BY <2>1, <2>2
  <2>4. TimerTypes'
    BY <2>1, <2>2 DEF TimerTypes
  <2>5. StampsTrace'
    BY <2>1 DEF StampsTrace, LastReport, Timer!Reports
  <2>6. trace # <<>> => Len(trace) \in DOMAIN trace
    BY DEF TimerTypes
  <2>7. EvictedAll'
    BY <2>1, <2>2, <2>3, <2>6 DEF EvictedAll
  <2> QED BY <2>4, <2>5, <2>7
<1>5. CASE Timer!Read \/ UNCHANGED others
  BY <1>5 DEF Timer!Read, Timer!timerVars, others, TimerTypes, StampsTrace, LastReport,
         Timer!Reports, EvictedAll, Timer!ExpiredKeys, Timer!EntryExpired
<1> QED BY <1>1, <1>2, <1>3, <1>4, <1>5, ReportKeeps, ForgetKeeps DEF Timer!Next

\* What a class answers is a comparison with the stamp.
LEMMA RunningByStamp ==
  ASSUME TimerTypes, NEW k \in TimerKeys, objects[k] \in Nat, objects[k] <= progress
  PROVE  Timer!Running(k) <=> progress < objects[k] + Period
<1>1. /\ Period \in Nat /\ None \notin Nat /\ progress \in Nat
      /\ setup.class \in {"session", "entries", "heartbeat", "cooldown", "deadline"}
  BY TimerConstants DEF TimerTypes, Timer!Classes
<1>2. CASE setup.class = "session"
  BY <1>1, <1>2 DEF Timer!Running, Timer!SessionExpired
<1>3. CASE setup.class = "entries"
  BY <1>1, <1>3 DEF Timer!Running, Timer!EntryExpired
<1>4. CASE setup.class = "heartbeat"
  BY <1>1, <1>4 DEF Timer!Running, Timer!Stale
<1>5. CASE setup.class = "cooldown"
  BY <1>1, <1>5 DEF Timer!Running, Timer!CoolingDown, Timer!Remaining
<1>6. CASE setup.class = "deadline"
  BY <1>1, <1>6 DEF Timer!Running, Timer!DeadlineExpired
<1> QED BY <1>1, <1>2, <1>3, <1>4, <1>5, <1>6

\* SessionTtlExpirer, BlackboardTtlExpirer, BotHeartbeatMonitor,
\* HumanEscalationCooldown and RunDeadlineWatchdog: with any period and any
\* order of reports, a period runs only after activity within it.
THEOREM PeriodsFollowActivity == LibrarySpec => []RunsOnlyWhileActive
<1>1. ASSUME LibraryInit, part = "timers"
      PROVE  TimerTypes /\ StampsTrace /\ EvictedAll
  <2>1. /\ setup \in [class : Timer!Classes, hard : BOOLEAN] /\ progress = 0 /\ trace = <<>>
        /\ objects = [k \in TimerKeys |-> None]
    BY <1>1, PartInits DEF Timer!Init
  <2>2. trace \in Seq(LogEntries) /\ DOMAIN trace = {}
    BY <2>1
  <2> QED BY <2>1, <2>2 DEF TimerTypes, StampsTrace, LastReport, Timer!Reports, EvictedAll
<1>2. LibraryInit => TimerInv
  BY <1>1 DEF TimerInv
<1>3. ASSUME TimerInv, [LibraryNext]_libraryVars
      PROVE  TimerInv'
  BY <1>3, PartSteps, TimerNextKeeps DEF TimerInv
<1>4. ASSUME TimerTypes, StampsTrace, EvictedAll, NEW k \in TimerKeys, Timer!Reports(k) # {}
      PROVE  /\ Timer!Running(k) => Timer!ActiveWithin(k)
             /\ Timer!InOrder(k) /\ Timer!ActiveWithin(k) => Timer!Running(k)
             /\ setup.class = "heartbeat" => (Timer!Stale(k, progress) <=> k \in Timer!StaleBots(progress))
             /\ setup.class = "entries" /\ trace[Len(trace)].op = "forget" /\ trace[Len(trace)].at = progress
                  => k \notin Timer!ExpiredKeys(progress)
  <2>1. objects[k] # None
    BY <1>4 DEF StampsTrace, LastReport
  <2>2. PICK i \in Timer!Reports(k) : trace[i].at = objects[k] /\ \A j \in Timer!Reports(k) : j <= i
    BY <1>4, <2>1 DEF StampsTrace, LastReport
  <2>3. /\ Timer!Reports(k) \subseteq DOMAIN trace /\ DOMAIN trace \subseteq Nat
        /\ \A j \in DOMAIN trace : trace[j].at \in Nat /\ trace[j].at <= progress
        /\ progress \in Nat
    BY <1>4, LogTyped DEF Timer!Reports, TimerTypes
  <2>4. objects[k] \in Nat /\ objects[k] <= progress
    BY <2>2, <2>3
  <2>5. Timer!Running(k) <=> progress < objects[k] + Period
    BY <1>4, <2>4, RunningByStamp
  <2>6. Timer!Running(k) => Timer!ActiveWithin(k)
    BY <2>2, <2>5 DEF Timer!ActiveWithin
  <2>7. Timer!InOrder(k) /\ Timer!ActiveWithin(k) => Timer!Running(k)
    <3> SUFFICES ASSUME Timer!InOrder(k), NEW j \in Timer!Reports(k), progress < trace[j].at + Period
                 PROVE  progress < objects[k] + Period
      BY <2>5 DEF Timer!ActiveWithin
    <3>1. j = i \/ j < i
      BY <2>2, <2>3
    <3>2. trace[j].at <= trace[i].at
      BY <2>3, <3>1 DEF Timer!InOrder
    <3> QED BY <2>2, <2>3, <2>4, <3>2, TimerConstants
  <2>8. setup.class = "heartbeat" => (Timer!Stale(k, progress) <=> k \in Timer!StaleBots(progress))
    BY <2>1 DEF Timer!Stale, Timer!StaleBots
  <2>9. trace # <<>>
    BY <2>2, <2>3
  <2> QED BY <1>4, <2>6, <2>7, <2>8, <2>9 DEF EvictedAll
<1>5. TimerInv => RunsOnlyWhileActive
  BY <1>4 DEF TimerInv, RunsOnlyWhileActive, Timer!RunsOnlyWhileActive
<1> QED BY <1>2, <1>3, <1>5, PTL DEF LibrarySpec

-----------------------------------------------------------------------------
(* Planning *)

\* The part that plans keeps its invariant, and the others never answer.
PlanningInv == IF part = "planning" THEN PlanInv ELSE result = None

LEMMA PlanningSteps ==
  ASSUME [LibraryNext]_libraryVars
  PROVE  /\ part' = part
         /\ part = "planning" => PlanNext \/ UNCHANGED planVars
         /\ part # "planning" => UNCHANGED planVars
BY Zenon DEF LibraryNext, libraryVars, planVars, Unmoved, UseAdvisor, UsePlan, UseBoard, UseCalls, UseFan,
             UseLedger, UseTimer, UseToolset

LEMMA NothingAnswered ==
  ASSUME result = None
  PROVE  PlansMeetContracts /\ JsonToolsMeetContracts /\ CsvToolsMeetContracts
BY Zenon DEF PlansMeetContracts, JsonToolsMeetContracts, CsvToolsMeetContracts

LEMMA AlwaysPlanningInv == LibrarySpec => []PlanningInv
<1>1. LibraryInit => PlanningInv
  BY PlanningConstants, PlanInitially, Zenon DEF LibraryInit, PlanningInv
<1>2. ASSUME PlanningInv, [LibraryNext]_libraryVars
      PROVE  PlanningInv'
  <2>1. CASE part = "planning"
    BY <1>2, <2>1, PlanningConstants, PlanningSteps, PlanSteps, Zenon DEF PlanningInv
  <2>2. CASE part # "planning"
    BY <1>2, <2>2, PlanningSteps, Zenon DEF PlanningInv, planVars
  <2> QED BY <2>1, <2>2
<1> QED BY <1>1, <1>2, PTL DEF LibrarySpec

\* Every function of the guards and planners that has a contract, and what
\* becomes of texts on the way to a tool and back, answers as it says in every
\* call that is made, for any number of steps and tags and any length.
THEOREM PlansAlwaysMeetContracts == LibrarySpec => []PlansMeetContracts
<1>1. PlanningInv => PlansMeetContracts
  BY NothingAnswered, Zenon DEF PlanningInv, PlanInv
<1> QED BY <1>1, AlwaysPlanningInv, PTL

\* So does every tool that edits documents, for any caps of json_unflatten.
THEOREM JsonToolsAlwaysMeetContracts == LibrarySpec => []JsonToolsMeetContracts
<1>1. PlanningInv => JsonToolsMeetContracts
  BY NothingAnswered, Zenon DEF PlanningInv, PlanInv
<1> QED BY <1>1, AlwaysPlanningInv, PTL

\* And every tool that reshapes tables or orders versions.
THEOREM CsvToolsAlwaysMeetContracts == LibrarySpec => []CsvToolsMeetContracts
<1>1. PlanningInv => CsvToolsMeetContracts
  BY NothingAnswered, Zenon DEF PlanningInv, PlanInv
<1> QED BY <1>1, AlwaysPlanningInv, PTL
=============================================================================
