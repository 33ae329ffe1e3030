------------------------------- MODULE Library -------------------------------
(***************************************************************************)
(* The parts of the library that are used around a run and share no state  *)
(* with it or with each other, side by side: a behaviour chooses one part  *)
(* and uses one object of it.  The advisors and the pure functions keep    *)
(* their own variables; the four variables of every other part are mapped  *)
(* to the four below.                                                      *)
(***************************************************************************)
EXTENDS Advisors, Planning

CONSTANTS
  BoardKeys, Bots, BoardValues, MaxKeys, LeaseSeconds, MaxRevision, BoardTime,
  Callers, Threshold, Cooldown, CallsPerWindow, Window, MaxAttempts,
  BaseSeconds, Multiplier, MaxSeconds, CallTime,
  Workers, TaskCount, MinInFlight, MaxInFlight,
  Owners, Items, Turn, MaxCount, SoftLimit, MaxSkew, MaxSteps, MaxTokens, LedgerOps,
  TimerKeys, Period, TimerTime, TimerOps,
  Tools, BadName, ServerCount

VARIABLES
  part,       \* the part that is used
  setup,      \* its configuration: mode, class or command
  objects,    \* the fields of its objects
  progress,   \* its clock, its threads or the place in a command
  trace       \* what was observed

others == <<setup, objects, progress, trace>>
libraryVars == <<part, obj, answers, call, result, setup, objects, progress, trace>>

Board == INSTANCE Blackboard WITH
  mode <- setup, board <- objects, now <- progress, seen <- trace,
  Keys <- BoardKeys, Values <- BoardValues, MaxTime <- BoardTime

Calls == INSTANCE ToolCalls WITH
  obj <- objects, now <- setup, calls <- progress, seen <- trace,
  MaxCalls <- CallsPerWindow, MaxTime <- CallTime

Fan == INSTANCE FanOut WITH
  how <- setup, limiter <- objects, threads <- progress, batch <- trace

Ledger == INSTANCE Ledgers WITH
  kind <- setup, counts <- objects, plan <- progress, log <- trace, MaxOps <- LedgerOps

Timer == INSTANCE Timers WITH
  timer <- setup, stamps <- objects, now <- progress, log <- trace,
  Keys <- TimerKeys, MaxTime <- TimerTime, MaxOps <- TimerOps

Toolset == INSTANCE McpToolset WITH
  setup <- setup, toolset <- objects, progress <- progress, running <- trace

\* What the constructors of the parts accept.
ASSUME LibraryConstants ==
  /\ Board!BoardConstantsOK /\ Calls!CallConstantsOK /\ Fan!FanOutConstantsOK
  /\ Ledger!LedgerConstantsOK /\ Timer!TimerConstantsOK /\ Toolset!ToolsetConstantsOK

-----------------------------------------------------------------------------

LibraryInit ==
  /\ Init
  /\ \/ /\ part \in {"advisors", "planning"}
        /\ setup = None /\ objects = None /\ progress = None /\ trace = None
     \/ part = "blackboard" /\ Board!Init
     \/ part = "tool calls" /\ Calls!Init
     \/ part = "fan-out" /\ Fan!Init
     \/ part = "ledgers" /\ Ledger!Init
     \/ part = "timers" /\ Timer!Init
     \/ part = "toolset" /\ Toolset!Init
  /\ IF part = "planning" THEN PlanInit ELSE call = None /\ result = None

UseAdvisor == part = "advisors" /\ Next /\ UNCHANGED <<part, planVars, others>>
UsePlan == part = "planning" /\ PlanNext /\ UNCHANGED <<part, advisorVars, others>>

Unmoved == UNCHANGED <<part, advisorVars, planVars>>
UseBoard == part = "blackboard" /\ Board!Next /\ Unmoved
UseCalls == part = "tool calls" /\ Calls!Next /\ Unmoved
UseFan == part = "fan-out" /\ Fan!Next /\ Unmoved
UseLedger == part = "ledgers" /\ Ledger!Next /\ Unmoved
UseTimer == part = "timers" /\ Timer!Next /\ Unmoved
UseToolset == part = "toolset" /\ Toolset!Next /\ Unmoved

LibraryNext ==
  \/ UseAdvisor \/ UseBoard \/ UseCalls \/ UseFan \/ UseLedger \/ UseTimer \/ UseToolset \/ UsePlan

LibrarySpec == LibraryInit /\ [][LibraryNext]_libraryVars

-----------------------------------------------------------------------------
(* Properties: those of the modules, each for its part *)

\* Blackboard: under a running lease only a late writer overwrites what its
\* holder read.
NoSilentOverwrite == part = "blackboard" => Board!NoSilentOverwrite

\* ToolCalls: the circuit breaker answers by the failures since a success.
BreakerIsItsHistory == part = "tool calls" => Calls!BreakerIsItsHistory

\* ToolCalls: no window of the clock holds more starts than the runner allows.
WindowNeverExceeded == part = "tool calls" => Calls!WindowNeverExceeded

\* FanOut: the limiter admits as many threads as it may, and loses no wake-up.
NoSleepWhileSlotFree == part = "fan-out" => Fan!NoSleepWhileSlotFree

\* FanOut: run and merge_answers keep the order of the tasks.
ResultsInTaskOrder == part = "fan-out" => Fan!ResultsInTaskOrder

\* Ledgers: every answer follows from the accepted operations.
LedgersAreTheirLog == part = "ledgers" => Ledger!LedgersAreTheirLog

\* Timers: a period runs only after activity within it.
RunsOnlyWhileActive == part = "timers" => Timer!RunsOnlyWhileActive

\* McpToolset: a run has exactly the tools that were configured.
RunSeesConfiguredTools == part = "toolset" => Toolset!RunSeesConfiguredTools

\* McpToolset: no end of a command leaves a server behind.
NoServerOutlivesCommand == part = "toolset" => Toolset!NoServerOutlivesCommand
=============================================================================
