# A verification project for multi-bot-agentic

TLA+ models of the program's core, checked with TLC on small instances and, where it matters most,
proved with TLAPS for every instance. Paths are relative to the repository; `pkg/` stands for
`src/multi_bot_agentic/`.

## 1. The system

multi-bot-agentic executes bounded agent runs. A run is a loop *observe, decide, act*: a
deterministic engine looks at the observations made so far and chooses to ask the LLM provider, to
execute a tool, to hand the run to another bot, or to end. Everything is written to a SQLite event
log, from which a run can be replayed, reported and, after its process died, resumed.

| Component | State | Operations | Interacts with |
| --- | --- | --- | --- |
| Lifecycle (`pkg/lifecycle.py`, `models.py`) | the state of one call | `transition_to`, `is_terminal` | runner |
| Decision engine (`decision.py`) | none | `decide` | runner, safety policy, bots |
| Runner (`runner.py`) | active bot and tool scope of the object; step, observations and decision of a call | `run`, `resume`, the loop, `_handoff`, `_act`, `_succeed`, `_cancel`, `_fail` | event log, provider, tools |
| Checkpoints (`checkpoint.py`) | events in the log | `save_checkpoint`, `load_latest_checkpoint` | runner, event log |
| Event log (`event_log.py`) | a table, and one transaction per connection | `append`, `list_events`, `close` | every process that opens the file |
| Safety policy (`safety.py`) | limits, allowlist, a cancellation file on disk | `validate_*`, `is_cancelled` | runner, the operator |
| MCP client (`mcp/client.py`) | a server process, pending requests, generation, era | `start`, `call_tool`, `list_tools`, `close`, reader threads | MCP servers, threads that call tools |
| MCP toolset and commands (`mcp/bridge.py`, `mcp/config.py`, `cli.py`) | the clients started so far, the tools registered | parsing, `start`, `_register`, `close`, arguments and capped results | MCP client, runner |
| Blackboard and write leases (`blackboard.py`, `blackboard_write_lease.py`) | entries with revisions; a holder and an expiry per key | `put`, `get`, `delete`, `acquire`, `release` | the bots of a session |
| Guards of a tool call (`circuit_breaker.py`, `tool_runner.py`, `retry_backoff.py`, `tool_idempotency_cache.py`, `dead_letter_tool_queue.py`) | failures and state of the breaker, times of calls, cached results, letters | look up, allow, execute, record, retry, enqueue | whoever calls a tool |
| Fan-out and limiter (`fanout.py`, `concurrency_limiter.py`) | a thread pool, its futures; slots, an adaptive limit, a condition variable | `run`, `merge_answers`, `acquire`, `release` | worker threads |
| Ledgers (quotas, budgets, fairness, barriers, permissions, roles, affinity, verdicts, votes, duplicates) | a dictionary of counts or sets | `record`, `check`, `reset`, `grant`, `revoke`, `claim`, `decide`, ... | the bots of a session |
| Timers (session and entry TTL, heartbeats, cooldowns, deadlines) | the time of the last report per key | `touch`, `check`, `evict`, `reset` | the bots of a session |
| Approval gate (`approval.py`) | one JSON file per request | `request`, `resolve`, `poll` | bots and operators in other processes |
| Advisors (about 130 files) | limits alone | `advise`, `check` | none: functions for callers |
| Planning and condensing functions | none | ordering, waves, routing, diffs, truncation, compaction, summaries | none |
| Local tools (`tools/`) | none | about 120 `execute` methods on documents, tables and texts | runner |
| Providers (`llm/`), evaluation (`eval/`) | none of their own | I/O | runner |

What is hard here:

- **crashes**: each event is committed on its own, so a process can die between any two of them,
  among others between a tool's effect and the checkpoint after it, or between the terminal
  transition and the terminal event;
- **state that outlives its call**: the bot and the tool scope belong to the runner object, not to
  the run; a transaction that an `INSERT` opened outlives the exception it raised;
- **several processes**: two of them number the next event at the same time, processes with other
  budgets and bot registries resume each other's runs;
- **the operator**: a cancellation file that appears and disappears at any moment;
- **threads**: requests of several threads share one MCP server process that may be replaced under
  them, while readers, writes and waits of the old process are still under way; the threads of a
  fan-out sleep on a condition variable whose limit changes under them;
- **overlapping calls**: what a tool call reports to the breaker may come long after it was allowed,
  when the breaker has opened, or opened and half closed, in between;
- **time**: leases, windows, cooldowns and idle periods end in the middle of what they protect, and
  reports of activity arrive late and out of order;
- **partial failure**: one of several servers fails to start, or the user interrupts, when others run;
- **boundaries**: the last step of a budget, a budget that shrank, budgets of one unit, a call that is
  exactly one window old, ties in rounding, NaN.

What makes each component correct: a run has one outcome and never moves after it; a resumed run
continues from exactly what was durable; no checkpointed work is repeated; tools stay in the scope
of the bot the run was handed to; a log has gapless numbers and never loses a record it
acknowledged; an MCP request is received and answered by the process it was made for and always
ends; no end of a command leaves a server behind; under a lease only a writer whose own lease ran out can
overwrite what its holder read; the breaker rejects exactly while the last of enough failures is young; no wake-up of the
limiter is lost and results keep the order of their tasks; a ledger's answers follow from the
operations it accepted; a period runs only after activity within it; an advisor never grades a worse
measurement more mildly; a pure function answers as its specification. The hazards are listed line by
line in `PROJECT.json`.

## 2. Modules

| Module | Models | Kind |
| --- | --- | --- |
| `Lifecycle` | states, transitions, event types | definitions |
| `Decision` | `DeterministicDecisionEngine` | pure function |
| `AgentRunner` | runner, checkpoints, policy, bots, operator, crashes | state machine |
| `DurableRun` | what a run promises to the outside | abstract specification |
| `EventLog` | `SQLiteEventLog` objects of several processes | state machine |
| `AppendOnlyLog` | what the log promises the runner | abstract specification |
| `McpClient` | `StdioMcpClient` shared by threads, its server processes | state machine |
| `AdvisorCatalog` | 118 stateless advisors, one definition per source file, and their three families | data and pure functions |
| `Advisors` | the use of one advisor object | state machine |
| `Blackboard` | `SharedBlackboard` and `SharedBlackboardWriteLease` with several bots and a clock | state machine |
| `ToolCalls` | overlapping calls through cache, breaker, rate limit, retries and dead letters | state machine |
| `FanOut` | `ParallelFanOut` whose workers share an `AdaptiveConcurrencyLimiter` | state machine |
| `Ledgers` | twelve in-memory ledgers | state machine |
| `Timers` | five guards that compare the time of an activity with the clock | state machine |
| `McpToolset` | configuration and servers of one command | state machine |
| `Planning` | every pure function, called once, beside its contract | state machine of two steps |
| `Gates`, `ToolText`, `JsonTools`, `CsvTools`, `Answers` | the functions `Planning` calls | pure functions |
| `Library` | the parts from `Advisors` to `Planning` side by side | composition |
| `Approvals` | `HitlApprovalGate` of several processes on one file | state machine |
| `MC*` | instances for TLC | - |
| `FoldTheorems` | induction over naturals and finite sets; folds, sums and orders of any length | lemmas |
| `*_proofs` | theorems and proofs | - |

`AgentRunner` is built on the atomic append of `AppendOnlyLog`; `EventLog` shows that the SELECT,
INSERT and COMMIT of `append` provide it. `AgentRunner` in turn implements `DurableRun`.

### AgentRunner

Durable state: `log` (the events of each run) and `cancelFile`. The runner object: `runner`
(registry, active bot, allowed tools, `max_steps`). The frame of the call in progress: `run`,
`step`, `sm` (the state machine), `obs`, `dec`, `got` (a result not yet logged), `fin` (the ending
being recorded) and `pc`. History variables record what the outside saw: `effects` (tool
executions), `returned` (results given to callers), `lateActs`, `failures`.

Every append is an action of its own, since it commits on its own: `BeginObserving`, `Observe`,
`BeginDeciding`, `MakeDecision`, `BeginActing`, `Handoff`, `Request`, `CompleteLlm`, `ExecuteTool`,
`LogResult`, `SaveCheckpoint`, `EndTransition`, `EndEvent`. `ActRaises` is an exception the loop
catches; `Escape` is one it does not (`sqlite3.Error`, `KeyboardInterrupt`), after which the object
lives on; `Crash` loses the object. A tool that raises may or may not have had its effect.

The text of model outputs is abstracted to what the engine's prefix tests and parsers tell apart.
The exact answer text, metadata and the provider's name are left out.

`FreshRunIds` says whether callers of `run()` choose a new id. The guide asks for it and nothing
enforces it; every run and every theorem about resuming assumes it (section 5 says what happens
otherwise).

### EventLog

`rows` is the committed table, a function from sequence number to event per run (the primary key).
Each connection has a transaction state: `auto` (none), `begun`, `reading` (a snapshot is held),
`writing` (the write lock is held). Python's `sqlite3` starts a transaction before an `INSERT`;
`append` has no `rollback`, so after an `IntegrityError` the connection keeps the write lock, and
after "database is locked" its next SELECT takes a snapshot it keeps from then on. With an old
snapshot every INSERT is refused. SQLite itself is external and modelled from this use.

### McpClient

The object's fields keep their names without the underscore (`gen`, `proc`, `closed`, `pending`,
`responses`, `era`, `launched`, `restarts`, ...). A process is its generation number; `alive`,
`reading` (its stdout reader runs) and `inbox` (requests it has not answered) are the world outside,
and `broken` records that the current process really failed. `th[t]` is the frame of a thread: where
it is, the message it sends, the generation `g` it was registered for, the pipe `s` it fetched.

One action per stretch of code between two points where another thread can interfere: `Launch`,
`Teardown`, `Spawn`, `Popen` under the lifecycle lock; `Payload`, `Issue`, `FetchPipe`, `Send`,
`Receive` of a request and of the handshake, with the ways each can fail; `HandleLine` and
`ReaderEnds` of the reader threads. Deadlines are not clocks: a wait may expire whenever its answer
is not there. Left out: replies to requests of a legacy server, standard error, and the retry with a
second modern version, of which only one is shipped.

### Advisors

A float is an integer number of thousandths or NaN; bands are severities 0, 1, 2. Three families:
ceilings (`<=` from below), watchdogs (`>=` from above) and budgets (what remains of a maximum).
`Advisors` constructs any of them, with default or chosen limits, and asks it repeatedly.

### Library

`Library` puts the parts that share no state with a run, or with each other, side by side: a behaviour
chooses one part and uses one object of it. Each part is a module with its own specification and
at most four variables, which `Library` maps to its own (`INSTANCE ... WITH`): `setup` (class, mode or
command), `objects` (the fields of the Python objects), `progress` (a clock, the threads, or the place in
a command) and `trace` (what was observed, for the properties). `Advisors` and `Planning` are extended and
keep two variables each. The composition is a disjoint union: it states that the parts do not interact, as the
code has no path between them, and lets one run and one module of theorems cover them all.

- `Blackboard`: an entry is its value, writer and revision; `AcquireFree`, `Refresh`, `Conflict`, `Release`,
  `Put`, `Get`, `Delete` and `Tick`. The two objects do not know each other: a bot asks the manager, and
  writes to a board that does not ask. In hard mode a bot keeps to the last answer it had, which does not
  say when the lease ends, so that it may write when the lease has run out and another bot holds the key; in
  advisory mode every answer allows the write. `seen` is what a bot read last, until when its grant runs,
  and whether such a late writer changed the key since (`Changed`).
- `ToolCalls`: `Lookup`, `Allow`, `Execute`, `Succeed`, `Fail` and what follows a failure are separate
  actions of each caller, with the clock between them. The half-open state is entered lazily by
  whoever asks (`HalfOpened`), as in the code.
- `FanOut`: `Take`, `Acquire`, `TimedOut`, `Release`, `Finish` of the pool's threads; `Collect` (any
  finished future) and `Return` of the caller. `asleep` and `woken` are the two sides of the condition
  variable: a notified thread tests its predicate again when its turn comes, and its timeout may pass
  before that.
- `Ledgers`: what twelve classes keep is one shape, a row of counts per owner; `kind` selects the class
  and its mode. Accepted operations are logged, and the expected answer is computed from the log. The bots
  that may take a turn are named anew with every turn, as callers of `bot_turn_fairness.py` do.
- `Timers`: every operation takes its time as an argument; a report may be older than one already
  made. Naive timestamps are left out.
- `McpToolset`: parsing is what it makes of an entry (stdio server, other, malformed); each server
  starts with a listing, fails, or is interrupted; the registered names are pairs of server and tool. `resume` of
  a finished run starts nothing and exits 0 if that run succeeded, otherwise 2.

### Planning

`call` is a function with its arguments out of a bounded set, `result` its answer; the
contract of each function is a definition in other terms (a sort is a stable permutation in order, a
patch is undone by the patch in the other direction, a diff turned around is the diff of the swapped tables).
Strings that are only compared are numbers in their order, a text to be cut is the sequence of
its positions or the UTF-8 sizes of its characters. A sort is the one enumeration of a set that is in order
(`SortedBy`). The contracts are gathered in three properties: `PlansMeetContracts` for guards, planners and
what is sent to a tool and kept of its answer, `JsonToolsMeetContracts` for the tools on documents,
`CsvToolsMeetContracts` for those on tables and versions. What rounding does to a tie (`round()` on floats)
is a nondeterministic choice. A function on a pair of documents is a function of the pair
(`MergePatch[<<left, right>>]`), and `Over` and `Nesting` are the sets of documents that the theorems and the
assumption on `None` range over.

What the data is reduced to, where a contract depends on it:

- Gates (`Gates`): quotients are compared after rounding to four decimals. The contract says to which side
  that errs: a rising gate that counts its limit as passed may grade up to half a ten-thousandth early
  and misses nothing; the exclusive and the falling gates are never early and may miss a quotient that
  is past its limit by as much (30001/30000 is graded soft by a gate that allows 1).
- Cells (`CsvTools`) are numbers; `-n - 1` is the text `n` with a blank before it, so that a header that
  is stripped, and the checks for columns without a name or with the same one, say something.
- Identifiers of a version are a rank and, for numerals, the number of zeros before it: `int()` drops
  the zeros, so that `1.0.0-01` and `1.0.0-1` differ and compare as equal.
- `json_flatten` does not put a separator behind an empty key: an empty name at the root of a document
  disappears, and what is below it may fall together with its neighbours (`Collapsed`; which of two values
  is kept depends on the order of the members, here a choice). `json_unflatten` refuses keys that are
  longer than `MaxPathDepth`, have an index over `MaxArrayIndex`, or an empty name (`Refused`). The other caps
  of the tools, on rows, columns, keys and characters, refuse a call before it does anything and are left out.

### Approvals

A request file is absent, truncated, or complete. `resolve` is `CheckPending`, `WriteOpen` (which
truncates) and `WriteFill`; a process may die between them.

## 3. Runs

| Run | Instance | Shows |
| --- | --- | --- |
| `runner` | one run id; a process with budget 5, one with budget 2 and no bots, one with budget 1 and another active bot; calls of a tool with an adapter and of one without, handoffs to a known and an unknown bot, an answer; one failure | handoff, tools before and after it, shrunken budgets and other registries, resume at every point; refinement of `DurableRun` |
| `live` | budgets 2 and 3, tool calls and a malformed one, two failures, fairness | every call returns, every checkpointed run finishes, a repeated step repeats its tool |
| `reopened`, `reuse` | as `runner`; two run ids and one runner object for `reuse` | findings 1 and 2 |
| `event_log` | two connections, two runs, two events, two rows per run, fairness | collisions, lock timeouts, old snapshots, crashes; refinement of `AppendOnlyLog` |
| `mcp` | two threads, two calls, one restart, two pages, symmetric threads | generations keep requests, answers and failures of two processes apart; no process leaks; restarts are bounded |
| `mcp_live` | two threads, one call and one `start`, no restart, fairness | every call ends |
| `mcp_envelope` | as `mcp` | finding 3 |
| `library` | `Library.cfg`, below | the parts used around a run, each with its properties; the pure functions against their contracts |
| `approval_flip` | one request, two actors | finding 4 |
| `plan_order` | three plan steps, every dependency between them | finding 5 |
| `revision` | one key, two bots | finding 6 |

*Bounds.* Budget 5 is the shortest in which a run asks, calls a tool, synthesises, hands off and
calls a tool again before the budget rule ends it; a process with a budget of 2 or 1 that resumes it finds the
budget spent. To the engine plain text, a malformed request and a call out of scope are one case, another
question to the model, so one of them stands for all in `runner` and `live`. One failure reaches every crash point of every
step; two (in `live`) reach a crash of the resumed run. `MaxFailures` is the only counter that is
capped. The runs of one database do not share anything the runner looks at, so one run id is
enough except where an object is reused. Two connections suffice for each race of `append`, which
is between one that reads a number or snapshot and one that commits; `EventLog` is proved for any
number. `MaxCalls` and `MaxStarts` bound how often threads enter the client: two calls are one that
uses a process and one that replaces it, which is what every property is about. In `mcp_live` the
relaunch comes from `start`, which ignores the restart budget, so that both the relaunch and the
refused restart occur.

In `library` each part has the smallest instance in which its cases meet:

- advisors: all 118, asked twice about values at and next to every limit and about NaN, with accepted
  and rejected limits and maxima smaller than their divisor;
- blackboard: two bots and two keys on a board that holds one (`MaxKeys`), a lease of 2 under a clock
  of 3 (`BoardTime`), so that a lease ends, is taken over, and the bot that had it writes late; `MaxRevision`
  caps rewriting one key;
- tool calls: two callers, a cooldown and a window of 2 under a clock of 4 (`CallTime`), so that both
  pass twice, and two calls per window; three attempts;
- fan-out: three threads, four tasks, two slots and a limit that shrinks to one;
- ledgers: two owners and items, `LedgerOps` of 5 operations: caps of 2 are reached, exceeded, reset
  and reached again;
- timers: two keys, a period of 2 under a clock of 4 and three reports (`TimerOps`);
- toolset: two servers, so that one is up when the other fails, two tools and a name that is refused;
- planning: three steps and two tags with every dependency between them, and for every other function all
  arguments of a few elements: documents of depth three with a list, an object and every token of a
  pointer, empty names at the root, tables of up to four rows with empty cells, cells of blanks, blank rows
  and rows that are too short, two identifiers of a version, with and without leading zeros. `MaxLength` bounds
  a text to be cut, `MaxPathDepth` of 2 and `MaxArrayIndex` of 1 put keys on both sides of the limits of
  `json_unflatten`. The divisor 20001 of a gate gives a quotient that is past a limit of 1 and
  rounds to it.

*Fairness.* `CallStep` is weakly fair: the loop never waits for anything but the provider and tools,
whose calls have timeouts. Starting a process is weakly fair and resuming strongly fair: the
operator keeps trying. Nothing is assumed of crashes or of the cancellation file. In `EventLog` the
steps of an append are weakly fair: `sqlite3.connect` sets a busy timeout. In `McpClient` each
thread inside the client is weakly fair: every wait, write and shutdown has a deadline. Servers and
readers owe nothing. The parts of `Library` and `Approvals` are specified without fairness: their
properties are safety properties. That the limiter loses no wake-up is stated as one, of every state
in which a thread sleeps.

*Deadlock* is checked in all runs except those of `McpClient`, which may stop when the bounded calls
are over. A part of `Library` that has an end (a batch, a command, one call of a function) states it as a
stuttering action.

## 4. Theorems

`AgentRunner_proofs`: for all tools, bots, scopes, budgets, outputs and numbers of failures,

- `TypeCorrect`, `DefensiveChecks`: typing; no forbidden transition, no unregistered handoff target
  and no tool outside the scope ever reaches the checks that would raise. Inductive: `TypeOK`,
  `FrameOK` (what the frame holds at each `pc`) and `LifecycleOK` (the state at each `pc`).
- with `FreshRunIds`: `FinishedRunsFinal`, `OneOutcomeHolds`, `CheckpointChainHolds`, `NoRepeat`,
  `RunnerImplementsDurableRun`. None of these is inductive: that a call never works on a finished
  run (`WorksOnUnfinished`), that a terminal event is last (`EndIsLast`) and that the frame holds
  exactly what the log holds (`InStepWithLog`: the step is the latest checkpoint's, the
  observations are the latest checkpoint's plus, just before the next checkpoint, the logged
  result) are needed together. Their conjunction is `IInv`.
- `CancelledInTime`: at most one action follows the cancellation file. Inductive: `LateOK`, that an
  iteration which has not acted yet began without the file, or before it came.
- `ExhaustedByShrunkBudget` (with `FreshRunIds`): the loop runs out of its range only in a call that
  began no step. `BudgetFrame` says that a step under way leaves an iteration over, since the engine's
  budget rule ends the run first; `BudgetEndings` says the same of the endings in the log.
- `RepeatsSameTool` (with `FreshRunIds`): all executions of one step of a run are of one tool, and are
  at most one more than the interruptions. `RepeatInv` joins that effects are of steps the run has
  reached, that at the reached step they are of the tool the checkpoint asks for, and that each
  but the first is paid for by a failure.
- `ScopeFollowsHandoff` (with `FreshRunIds`): after a handoff, tools outside the scope of the bot the log
  names are not executed. The log may be ahead of the checkpoint by one handoff, so `ScopeInv` says: the
  log names the bot of the checkpointed observations, or these ask for a handoff, which will
  be repeated before anything else (`LogNamesBot`, `DecisionAsked`); a checkpoint restores the bot its
  observations were handed to; and the runner keeps the scope of its bot.

`EventLog_proofs`: for any number of connections, `NumbersGapless`, `RecordsDurable`,
`ReadsCommitted`, `TableImplementsAppendOnlyLog`. Inductive invariant `LogInv`: at most one writer,
a number read is at most one beyond the end, a writer's view is the committed table (plus its row),
a snapshot is a start of the committed table.

`McpClient_proofs`: for any number of threads, calls, restarts and pages, `AnswersOwn`,
`RequestsOwn`, `NothingLeaks`, `Negotiated`, `HealthyUsable`, `NothingStray`. What the properties say
about moments when the lock is free depends on what happens while it is held, so the inductive
invariant `IInv` describes that too: the lock is held by exactly the thread that launches, closes or
shakes hands, and there is no process until `Popen` (`LockOK`); each point of the code fixes what
the thread's frame can hold, in particular that a fetched pipe is that of the generation the request
was registered for (`FrameOK`); an id stands for one request to one generation (`OwnOK`); a running
process is the client's or is being torn down (`AliveOK`); from `Spawn` on the channel is closed only
by a failure of the current process (`HealthOK`) and every registration belongs to a thread
(`PendingOK`).

`LaunchesPaid` is an argument of credit: a launch is paid for by a call of `start`, by a counted
restart, or by being the first one. `BudgetOK` says that the launches made, the one on its way, and
those the waiting callers of `start` are owed never exceed `restarts + starts + First`; several
threads that see the server dead at once compete for the same credit under the lock.

`Library_proofs`, about `LibrarySpec`, for every part. The ledgers have a proof module of their own,
which it instantiates with the same substitution as `Library`, and the planning functions are in
`Planning_proofs`, which it extends; the others are proved there.

- `SeverityMonotone`, `CeilingsFailClosed`, `BudgetsWarn`, for all measurements and all limits the
  constructors accept. Failing closed is: NaN as a measurement gets the last band, a soft limit of NaN leaves
  no "ok", and a hard limit of NaN leaves nothing between "ok" below the soft limit and the last band.
- `LeaseProtects`, `OneHolder`: for any bots, keys, lease and clock. Inductive with
  `GrantIsLease`: what a holder relies on is what the manager records, so that two grants for a key
  cannot overlap, and a bot that writes without a running grant is a late writer.
- `BreakerByHistory`: for any number of overlapping calls. Inductive with `CountsFailures`: the count
  is the number of failures since a success and, once open, the opening time is that of the last one.
- `StartsWithinLimit`: however many calls overlap, no window of the clock holds more starts than the
  runner allows. Inductive, `WindowInv`: starts are in the order of the clock, the bucket holds the latest
  ones and has dropped only those older than a window, and `MaxCalls` starts further on more than a
  window has passed (`StartsSpaced`).
- `LedgersRemember`: every answer of the twelve ledgers follows from the operations they accepted, for
  any owners, items and caps and logs of any length. Nothing is said of a bot without grants where
  `default_deny` is False, and no bound on the skew of turns, which depends on the bots each caller names. Inductive, `LedgerInv`, one part for each shape of
  ledger: what a row holds is what its log adds up to, stands in it, or was granted, pinned or decided by it.
  Sums over a log and over a row are folds, which the lemmas of `FoldTheorems` unfold by one element.
- `NoLostWakeup`: for any finite number of threads. Inductive: `_in_flight` counts the threads between
  acquire and release, and a thread sleeps only while the limit is reached. The second part survives
  `release` since it notifies all.
- `TaskOrderKept`: the results of a fan-out are in the order of its tasks and merged so, for any number
  of tasks and threads. Inductive, `FanOrder`: a task is with one thread, done once, or still in the queue,
  and a collected result stands at the place of its task.
- `PeriodsFollowActivity`: for any period and any reports. Inductive: a stamp is the time of the report
  that arrived last since the key was forgotten (`StampsTrace`) and an eviction leaves nothing expired.
- `ServersClosed`, `ToolsAsConfigured`: for any number of servers. Inductive: the clients kept are the
  processes that run (`Tracked`), the first servers are done (`Upto`), what is registered is what
  they offered and the lists expose (`Registered`), and a command ends only when nothing is left (`ExitOK`).
- `PlansAlwaysMeetContracts`, `JsonToolsAlwaysMeetContracts`, `CsvToolsAlwaysMeetContracts`: every call of a
  function or a tool is answered as its contract says. The invariant, `PlanInv`, says that the arguments of
  the call are what the theorem about the function asks for (`ArgumentsOK`, `ToolArgumentsOK`), and that the
  contracts are met.

`Planning_proofs` and `JsonTools_proofs` hold one theorem for each function, about arguments of every size and
not only those of `PlanCalls`.

- `GatesRoundToOneSide`: the two integers next to a quotient bound what rounding does to it; the
  rest is linear in the limit, once for each kind of comparison. `SharesGradedByMisses` and `CountsGraded` need no such lemma.
- `WavesPlanned`: the waves are a recursive function of what is resolved, which exists because every
  wave resolves something (induction over what is left). A tool's wave is one more than the latest of those
  it waits for, and what no wave takes is on or behind a cycle.
- `PercentilesAreNearestRank`, `TasksRoutedToBest`, `ToolsPrefetchedByScore`: a finite set has an order by any
  linear relation, found by taking out its last element, and an order is a bijection, so that the place
  of an element counts the elements up to it.
- `ResultsCapped`, `CutsKeepEnds`, `DiffsFound`, `CallsSentHonestly`: texts, lists and schemas of any length.

The tools on tables, for tables of any length with rows of any length (`Tables`):

- `WindowsAreThose`: the windows are placed by a step, and the last that fits is found by the
  multiple of the step next to the end (`csv_window`).
- `TableDiffsFound`, `UniqueRowsAreFirst`: a row of a key is found by the first place it stands at; the
  places are a finite set with a unique order, so that a selection is ordered by them (`csv_diff`,
  `csv_unique`).
- `TablesAreSorted`: the stable enumeration by a total preorder exists and is the only one
  (`csv_sort`). That it is stable in both directions follows from the preorder, not from the sorting.
- `VersionsAreOrdered`: two versions compare as they do without the zeros before their numerals (`Plain`), and
  these as their ranks do, functions from places to numbers in which the end of a version has a rank of its
  own; the first place that differs decides (`semver_compare`).
- `JoinsHaveAllPairs`: the joined table is the concatenation of a pile of rows for each row of the left
  table; a fold counts its rows and collects them (`csv_join`).
- `PivotsKeepValues`: a key and a column name one row of the table at most, so that the cell of the wide
  table is that row's value, and unpivoting finds every row that has one, under its stripped column. Both
  tools refuse the wide header, if it is refused at all, for a column of the table without a name or with that
  of the index, or for two that differ only in blanks (`csv_pivot`, `csv_melt`).
- `RowsGrouped`: the places of the keys partition the rows. Sums and counts of the groups add up to
  those of the rows, by induction over the keys, and a mean lies between the extremes since each value does
  (`csv_groupby`).

The tools on documents (`JsonTools_proofs`), for members of any names, lists of any length and nesting of any depth. The documents
of a depth are a set, `Nesting(names)[depth]`, and what a function defined by recursion over documents computes is
proved by induction over the depth: first that there is such a function, then that it is the only one.

- `PatchesCanBeUndone`: a path is taken apart at its end, and replacing a child of a node keeps every other
  child; a list that was inserted into and removed from, or the other way round, is the one it was
  (`json_patch_apply`). `move` looks its destination up when the value is gone, and is undone in two steps.
- `MergesAreIdempotent`: a merge leaves no null where the patch has a member, and merging the patch again finds
  what it put there (`json_merge_patch`).
- `DifferencesFound`: for every path, however long, not only those of `Paths` (`json_diff_paths`).
- `FlattenedIsRebuilt`: a document without members is its own entry; one with members is the union of what its
  components lead to, no two entries of a document are in conflict, and the entries below a component are those of
  its member, so that rendering them gives the document back, unless one of its keys is refused, whatever the
  limits are. Documents with an empty name at the root are excepted (`json_flatten`).
- `UnflattenedIsKept`: of any set of entries without a conflict and a key that is refused, over any finite set of components and with keys of any
  length, the document rendered leads to every entry, and to nothing else but nulls (`json_unflatten`).

*How it is done.* A function `f[n \in Nat]` and a fold are `CHOOSE` expressions, of which nothing is known
until the function they choose is shown to exist. `FoldTheorems` does that once, for folds over sequences and
over sets, from induction stated as membership: a set of naturals that contains 0 and with each
number the next one contains them all (`NatsAll`); a family of subsets of a finite set that contains the empty
one and with each subset every larger by one contains them all (`SubsetsByAddition`). The library's induction
theorems take a predicate as a parameter and cannot be used.

Assumptions are the named `ASSUME`s on the constants (typing, `None` and `NaN` are no ordinary
values, what constructors accept). Only model-checked: liveness under fairness (`CallsReturn`,
`CheckpointedRunsFinish`, `AppendsEnd`, `CallsEnd`), which the prover does not reach. Every invariant and
every action property of a run is also a theorem.

## 5. Findings

1. `reopened`: the transition into a terminal state and the terminal event are two commits. After a
   crash between them `resume` goes on and logs transitions after a terminal one, although
   `recorded_outcome` says that reading the log prevents that.
2. `reuse`: a handoff changes the runner object for good. If the object then resumes a run that was
   checkpointed without a bot, the run's tools execute under the other run's bot.
3. `mcp_envelope`: `_call` reads the era, and `_issue` the generation, after `_ensure_running`
   released its lock. When another thread relaunches the server in between, the request goes to the
   new process before `server/discover` and without `_meta`, although the module says modern
   requests always carry it.
4. `approval_flip`: `resolve` reads, tests and rewrites the file without a lock. Two operators that both
   read it pending both resolve it, one way and the other, although the guide says that a resolved
   request cannot flip.
5. `plan_order`: in `PlanStepDependencyResolver.resolve` the loop that adds edges uses the variable of the
   loop before it, so every dependency becomes one of the last step. An order that violates the plan is
   reported as complete.

6. `revision`: a key that was deleted starts again at revision 1, so a bot that remembers revision 2 finds a
   lower one, although `BlackboardEntry` calls the revision monotonic for its key.

Observations made while modelling, without a run of their own:

- `run()` does not look its run id up (`runner.py:152`). With the id of a finished run it appends to that
  run, which `docs/guides/CHECKPOINT_RESUME_GUIDE.md:50` calls final. `FreshRunIds` excludes it.
- A run that fails by an exception reports `max_steps`, not the steps it took (`runner.py:287`).
- After a failed `append` the connection keeps an open transaction (possibly the write lock, possibly
  an old snapshot) until it is closed.
- Watchdogs, which compare with `>=`, answer "healthy" to NaN while ceilings answer "blocked".
- `tool_permission.py:102`: with `default_deny=False`, revoking a bot's last grant deletes its set, after
  which it may use every tool. The constructor's docstring (lines 57-58) says that revokes are tracked by an
  empty set, and line 130 would deny for one, while
  `test_explicit_empty_grants_still_deny_under_default_allow` (`tests/test_tool_permission.py:74`) asserts that
  the tool is then allowed. No property takes either side.
- `bot_turn_fairness.py:152`: hard mode compares the turns before the one that is recorded, so the skew may
  reach `max_skew + 1`, and more among bots a caller did not name together, while the docstrings (lines 54
  and 104) refuse a turn that would exceed `max_skew`. With `max_skew=0` the test
  (`tests/test_bot_turn_fairness.py:22`) records a first turn and refuses the second.
- `blackboard.py` does not ask the lease manager: a bot whose lease ran out may still write over what the next
  holder read.
- `semver_compare` accepts numerals with leading zeros, which SemVer does not, and ignores the zeros.
- `bot_role_conflict.py` in hard mode records the claimant it denied.
- A report with an older time overwrites a newer one in the heartbeat, TTL and cooldown guards; the
  model logs the order of arrival and the property is about that.
- The event compactor applied to its own output compacts again.
- A half-open breaker admits any number of probes.
- An approval file that a crash left truncated can be neither read nor resolved.
- `json_flatten` loses an empty name at the root, with a scalar under it, and a root that is a scalar or an
  empty list comes back as an empty object. It makes keys that `json_unflatten` refuses: with empty names
  further down, or of more than 100 components.
- `csv_pivot` writes headers that it and `csv_melt` refuse: with an empty name, that of the index, or two names
  that differ only in blanks.

## 6. Not modelled

- Providers and the evaluation harness: I/O. `AgentRunner` lets a provider answer anything or raise.
- About a hundred local tools that parse, encode, hash or lay out text, with nothing but their argument
  to depend on, and the guards that hash, redact, or match patterns and schemas.
- `critic_agreement_entropy.py`, which takes logarithms.
- Of the command line: argument parsing, `replay` and `report`, which only read and print.
- Of the MCP client: replies to requests of a legacy server, the buffer of standard error, the retry
  with a second modern version, of which only one is shipped, and the notifications of cancelled
  requests (hazard `mcp/client.py:653`: the replacement ignores an id it does not know).
- Of the MCP bridge: `render_content`, which lays texts out; the mangling of names. Interrupts are modelled
  where `start` blocks; the moment between a server's start and the `append` that keeps it, and an
  interrupt of `close`, are left to the client's finalizer (`mcp/client.py:382`), which is not modelled.
- Goal length limits, and log payloads or approval files that the program did not write.
- Caps on the size of documents, tables and texts, where a tool refuses the call before doing anything.
- Numeric columns with a cell `nan` in `csv_sort`, and keys with separators or brackets in
  `json_flatten`.

## 7. What could follow

1. A model of the legacy handshake's server requests and of cancelled requests in `McpClient`.
2. The remaining tools whose result obeys a law (HTML and YAML round trips, slices of spreadsheets).
