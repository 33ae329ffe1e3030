----------------------------- MODULE AgentRunner -----------------------------
(***************************************************************************)
(* runner.py: one process that executes and resumes runs, and the durable  *)
(* event log that outlives it.  Every append to the log commits on its     *)
(* own, so every append is a step and the process may die, or an exception *)
(* that run() does not catch may escape, between any two of them.          *)
(*                                                                         *)
(* One process uses the log at a time: the guide forbids resuming a run    *)
(* from two processes, and module EventLog models what happens if one does.*)
(***************************************************************************)
EXTENDS Lifecycle, Decision

CONSTANTS
  RunIds,       \* run identifiers
  FreshRunIds,  \* whether callers of run() choose a run id nobody has used
  Registered,   \* tools with an adapter in the runner's tools dict
  Scope,        \* Scope[b]: allowed_tools of the BotSpec of bot b
  Configs,      \* the constructor arguments a process may be started with
  Outputs,      \* the answers the provider may give
  MaxFailures   \* bound on crashes and escaped exceptions

ASSUME ConstantsOK ==
  /\ None \notin RunIds
  /\ FreshRunIds \in BOOLEAN
  /\ Registered \subseteq Tools
  /\ Scope \in [Bots -> SUBSET Tools]
  /\ Configs \subseteq [registered : SUBSET Bots, bot : Bots \cup {None},
                        allowed : SUBSET Tools, maxSteps : Nat]
  /\ \A c \in Configs : c.bot = None \/ c.bot \in c.registered
  /\ Outputs \subseteq ModelOutput
  /\ MaxFailures \in Nat

VARIABLES
  \* durable
  log,        \* log[r]: the events of run r, in seq order
  cancelFile, \* whether the cancellation file exists
  \* the AgentRunner object: constructor arguments, then bot and scope in force
  runner,
  \* the frame of the run() or resume() call in progress
  pc, run, step, sm, obs, seen, dec, got, fin,
  \* history: what the outside world saw
  effects,    \* tool executions, in order
  returned,   \* returned[r]: the results callers were given for run r
  lateActs,   \* actions carried out since the cancellation file appeared
  failures    \* crashes and escaped exceptions so far

frame == <<run, step, sm, obs, seen, dec, got, fin>>
vars == <<log, cancelFile, runner, pc, frame, effects, returned, lateActs, failures>>

-----------------------------------------------------------------------------
(* Events and what is read back from them *)

\* Reasons a run ends with that are not an observation's text.
Reason(why) == [source |-> "runner", kind |-> why, arg |-> None]
Reasons == {Reason(w) : w \in {"cancellation requested", "cancellation file exists",
                               "unknown bot for handoff", "exception",
                               "step budget exhausted"}}

Result == [state : TerminalStates, answer : Observation \cup Reasons, steps : Nat]
Checkpoint == [step : Nat, obs : Seq(Observation) \ {<<>>}, bot : Bots \cup {None}]

ASSUME NoneIsNoRecord == None \notin Result /\ None \notin Checkpoint

Event ==
  [type : {"run_created"}, state : {"created"}, data : {None}]
    \cup [type : {"state_transition"}, state : RunState, data : RunState]
    \cup [type : {"observation", "action_result"}, state : RunState, data : Observation]
    \cup [type : {"decision", "action_requested"}, state : RunState, data : DecisionRecord]
    \cup [type : {"checkpoint"}, state : RunState, data : Checkpoint]
    \cup [type : TerminalEventTypes, state : TerminalStates,
          data : [answer : Observation \cup Reasons, steps : Nat]]

Ev(type, state, data) == [type |-> type, state |-> state, data |-> data]

Positions(l, types) == {i \in 1..Len(l) : l[i].type \in types}

\* mutant: only run_completed is recognised as an ending
recorded_outcome_CompletedOnly(l) ==
  LET ends == Positions(l, {"run_completed"})
      e == l[Max(ends)]
  IN  IF ends = {} THEN None
      ELSE [state |-> "succeeded", answer |-> e.data.answer, steps |-> e.data.steps]

\* recorded_outcome: what the latest terminal event says.
recorded_outcome(l) ==
  LET ends == Positions(l, TerminalEventTypes)
      e == l[Max(ends)]
  IN  IF ends = {} THEN None
      ELSE [state |-> TerminalStateOf(e.type), answer |-> e.data.answer, steps |-> e.data.steps]

\* mutant: the first checkpoint instead of the latest
load_latest_checkpoint_First(l) ==
  LET saved == Positions(l, {"checkpoint"})
  IN  IF saved = {} THEN None ELSE l[Min(saved)].data

\* load_latest_checkpoint
load_latest_checkpoint(l) ==
  LET saved == Positions(l, {"checkpoint"})
  IN  IF saved = {} THEN None ELSE l[Max(saved)].data

\* SQLiteEventLog.append, by the only writer of the run.
Append1(e) == log' = [log EXCEPT ![run] = Append(@, e)]

-----------------------------------------------------------------------------
(* Process and object lifetime *)

Running == {"loop", "observe", "decide", "act", "handoff", "request",
            "execute", "result", "checkpoint", "finish", "record"}

NoRunner == [registered |-> {}, bot |-> None, allowed |-> {}, maxSteps |-> 0]

FrameGone ==
  /\ run' = None /\ step' = 0 /\ sm' = "created" /\ obs' = <<>> /\ seen' = 0
  /\ dec' = None /\ got' = None /\ fin' = None

Init ==
  /\ log = [r \in RunIds |-> <<>>]
  /\ cancelFile = FALSE
  /\ runner = NoRunner
  /\ pc = "down"
  /\ run = None /\ step = 0 /\ sm = "created" /\ obs = <<>> /\ seen = 0
  /\ dec = None /\ got = None /\ fin = None
  /\ effects = <<>>
  /\ returned = [r \in RunIds |-> {}]
  /\ lateActs = 0
  /\ failures = 0

\* AgentRunner.__init__: an initially active bot replaces the policy's scope.
NewRunner(c) ==
  /\ pc = "down"
  /\ runner' = [c EXCEPT !.allowed = IF c.bot = None THEN @ ELSE Scope[c.bot]]
  /\ pc' = "idle"
  /\ UNCHANGED <<log, cancelFile, frame, effects, returned, lateActs, failures>>

\* The process exits between two calls.
Exit ==
  /\ pc = "idle"
  /\ runner' = NoRunner
  /\ pc' = "down"
  /\ UNCHANGED <<log, cancelFile, frame, effects, returned, lateActs, failures>>

\* The process is killed during a call: what is in memory is lost.
Crash ==
  /\ pc \in Running
  /\ failures < MaxFailures
  /\ failures' = failures + 1
  /\ runner' = NoRunner
  /\ pc' = "down"
  /\ FrameGone
  /\ UNCHANGED <<log, cancelFile, effects, returned, lateActs>>

\* The runner after _handoff has switched bot and scope.
SwitchedTo(b) == [runner EXCEPT !.bot = b, !.allowed = Scope[b]]

\* An exception outside the except clause of _run_loop (sqlite3.Error,
\* TypeError, KeyboardInterrupt...) leaves the call; the object survives it.
\* _handoff switches the bot before it appends, so an append that raises
\* leaves the switched bot behind.
Escape ==
  /\ pc \in Running
  /\ failures < MaxFailures
  /\ failures' = failures + 1
  /\ \/ UNCHANGED runner
     \/ pc = "handoff" /\ runner' = SwitchedTo(dec.target)
  /\ pc' = "idle"
  /\ FrameGone
  /\ UNCHANGED <<log, cancelFile, effects, returned, lateActs>>

-----------------------------------------------------------------------------
(* run and resume *)

\* AgentRunner.run with a goal validate_goal accepts (a goal it rejects
\* leaves no trace).  It does not look the run id up in the log; the guide
\* tells callers to use a new one.
Run(r) ==
  /\ pc = "idle"
  /\ FreshRunIds => log[r] = <<>>
  /\ log' = [log EXCEPT ![r] = Append(@, Ev("run_created", "created", None))]
  /\ run' = r
  /\ step' = 0
  /\ sm' = "created"
  /\ obs' = <<GoalObservation>>
  /\ pc' = "loop"
  /\ UNCHANGED <<seen, dec, got, fin, cancelFile, runner, effects, returned, lateActs, failures>>

\* resume continues only a run without a recorded outcome.
Interrupted_Always(l) == TRUE   \* mutant: the outcome is not looked up
Interrupted(l) == recorded_outcome(l) = None

\* The bot of a checkpoint must be registered; a checkpoint may have none.
BotKnown_Required(c) == c.bot \in runner.registered   \* mutant: None is refused
BotKnown(c) == c.bot # None => c.bot \in runner.registered

\* AgentRunner.resume of a finished run: the recorded outcome, no events.
ResumeFinished(r) ==
  /\ pc = "idle"
  /\ recorded_outcome(log[r]) # None
  /\ returned' = [returned EXCEPT ![r] = @ \cup {recorded_outcome(log[r])}]
  /\ UNCHANGED <<log, cancelFile, runner, pc, frame, effects, lateActs, failures>>

\* AgentRunner.resume of an interrupted run.  Without a checkpoint, or with
\* one whose bot this runner does not know, it raises and changes nothing.
\* A checkpoint without a bot leaves the object's bot and scope as they are.
Resume(r) ==
  LET c == load_latest_checkpoint(log[r])
  IN  /\ pc = "idle"
      /\ Interrupted(log[r])
      /\ c # None
      /\ BotKnown(c)
      /\ runner' = IF c.bot = None THEN runner ELSE SwitchedTo(c.bot)
      /\ run' = r
      /\ step' = c.step
      /\ sm' = "created"
      /\ obs' = c.obs
      /\ pc' = "loop"
      /\ UNCHANGED <<log, seen, dec, got, fin, cancelFile, effects, returned, lateActs, failures>>

-----------------------------------------------------------------------------
(* _run_loop *)

\* _transition: move the state machine and append the movement.  A move it
\* does not allow would raise InvalidTransitionError.
Transition(to) ==
  /\ TransitionAllowed(sm, to)
  /\ sm' = to
  /\ Append1(Ev("state_transition", to, sm))

\* SafetyPolicy.is_cancelled
is_cancelled_Cached == FALSE   \* mutant: asked once, at the start
is_cancelled == cancelFile

\* Prepare _succeed, _cancel or _fail: what they will record and return.
Ending(state, steps, answer) == [state |-> state, steps |-> steps, answer |-> answer]

\* The loop is for step in range(start_step, max_steps).
RangeDone_OffByOne == step > runner.maxSteps   \* mutant
RangeDone == step >= runner.maxSteps

\* The cancellation check at the top of an iteration.
LoopCancelled ==
  /\ pc = "loop"
  /\ step < runner.maxSteps
  /\ is_cancelled
  /\ fin' = Ending("cancelled", step, Reason("cancellation requested"))
  /\ pc' = "finish"
  /\ UNCHANGED <<log, cancelFile, runner, run, step, sm, obs, seen, dec, got,
                 effects, returned, lateActs, failures>>

\* range(start_step, max_steps) is exhausted (or was empty to begin with).
LoopExhausted ==
  /\ pc = "loop"
  /\ RangeDone
  /\ fin' = Ending("failed", runner.maxSteps, Reason("step budget exhausted"))
  /\ pc' = "finish"
  /\ UNCHANGED <<log, cancelFile, runner, run, step, sm, obs, seen, dec, got,
                 effects, returned, lateActs, failures>>

BeginObserving ==
  /\ pc = "loop"
  /\ step < runner.maxSteps
  /\ ~is_cancelled
  /\ Transition("observing")
  /\ seen' = 0
  /\ pc' = "observe"
  /\ UNCHANGED <<cancelFile, runner, run, step, obs, dec, got, fin,
                 effects, returned, lateActs, failures>>

\* One OBSERVATION event per observation the run has, every iteration anew.
Observe ==
  /\ pc = "observe"
  /\ seen < Len(obs)
  /\ Append1(Ev("observation", sm, obs[seen + 1]))
  /\ seen' = seen + 1
  /\ UNCHANGED <<cancelFile, runner, pc, run, step, sm, obs, dec, got, fin,
                 effects, returned, lateActs, failures>>

BeginDeciding ==
  /\ pc = "observe"
  /\ seen = Len(obs)
  /\ Transition("deciding")
  /\ pc' = "decide"
  /\ UNCHANGED <<cancelFile, runner, run, step, obs, seen, dec, got, fin,
                 effects, returned, lateActs, failures>>

\* The decision is made, logged and dispatched on.
MakeDecision ==
  LET d == Decide(obs, step, runner.maxSteps, is_cancelled, runner.allowed, runner.registered)
  IN  /\ pc = "decide"
      /\ Append1(Ev("decision", sm, d))
      /\ dec' = d
      /\ \/ /\ d.action = "finish"
            /\ fin' = Ending("succeeded", step + 1, d.answer)
            /\ pc' = "finish"
         \/ /\ d.action = "cancel"
            /\ fin' = Ending("cancelled", step + 1, Reason("cancellation file exists"))
            /\ pc' = "finish"
         \/ /\ d.action = "fail"
            /\ fin' = Ending("failed", step + 1, Reason("unknown bot for handoff"))
            /\ pc' = "finish"
         \/ /\ d.action \in {"call_llm", "call_tool", "handoff"}
            /\ UNCHANGED fin
            /\ pc' = "act"
      /\ UNCHANGED <<cancelFile, runner, run, step, sm, obs, seen, got,
                     effects, returned, lateActs, failures>>

BeginActing ==
  /\ pc = "act"
  /\ Transition("acting")
  /\ pc' = IF dec.action = "handoff" THEN "handoff" ELSE "request"
  /\ UNCHANGED <<cancelFile, runner, run, step, obs, seen, dec, got, fin,
                 effects, returned, lateActs, failures>>

\* Actions done while a cancellation request is pending (history).
CountLateAct == lateActs' = IF cancelFile THEN lateActs + 1 ELSE 0

\* _handoff: switch the bot and its scope, append the result.
Handoff ==
  /\ pc = "handoff"
  /\ dec.target \in runner.registered
  /\ runner' = SwitchedTo(dec.target)
  /\ Append1(Ev("action_result", sm, HandoffObservation(dec.target)))
  /\ obs' = Append(obs, HandoffObservation(dec.target))
  /\ pc' = "checkpoint"
  /\ CountLateAct
  /\ UNCHANGED <<cancelFile, run, step, sm, seen, dec, got, fin, effects, returned, failures>>

-----------------------------------------------------------------------------
(* _act *)

Request ==
  /\ pc = "request"
  /\ Append1(Ev("action_requested", sm, dec))
  /\ pc' = "execute"
  /\ UNCHANGED <<cancelFile, runner, frame, effects, returned, lateActs, failures>>

CompleteLlm(o) ==
  /\ pc = "execute"
  /\ dec.action = "call_llm"
  /\ got' = LlmObservation(o)
  /\ pc' = "result"
  /\ CountLateAct
  /\ UNCHANGED <<log, cancelFile, runner, run, step, sm, obs, seen, dec, fin,
                 effects, returned, failures>>

\* validate_tool, the registry lookup and tool.execute.
ToolExecutable(t) == t \in runner.allowed /\ t \in Registered

RecordEffect == effects' = Append(effects, [run |-> run, step |-> step, tool |-> dec.target])

ExecuteTool(ok) ==
  /\ pc = "execute"
  /\ dec.action = "call_tool"
  /\ ToolExecutable(dec.target)
  /\ RecordEffect
  /\ got' = ToolObservation(dec.target, ok)
  /\ pc' = "result"
  /\ CountLateAct
  /\ UNCHANGED <<log, cancelFile, runner, run, step, sm, obs, seen, dec, fin,
                 returned, failures>>

\* The except clause of _run_loop: _fail with max_steps as the step count.
CaughtException == 
  /\ fin' = Ending("failed", runner.maxSteps, Reason("exception"))
  /\ pc' = "finish"

\* The provider or the tool raises OSError, RuntimeError or ValueError, the
\* tool possibly after its effect, or the tool has no adapter.
ActRaises ==
  /\ pc = "execute"
  /\ \/ dec.action = "call_llm" /\ UNCHANGED effects
     \/ dec.action = "call_tool" /\ ~ToolExecutable(dec.target) /\ UNCHANGED effects
     \/ dec.action = "call_tool" /\ ToolExecutable(dec.target) /\ RecordEffect
  /\ CaughtException
  /\ CountLateAct
  /\ UNCHANGED <<log, cancelFile, runner, run, step, sm, obs, seen, dec, got,
                 returned, failures>>

LogResult ==
  /\ pc = "result"
  /\ Append1(Ev("action_result", sm, got))
  /\ obs' = Append(obs, got)
  /\ got' = None
  /\ pc' = "checkpoint"
  /\ UNCHANGED <<cancelFile, runner, run, step, sm, seen, dec, fin,
                 effects, returned, lateActs, failures>>

\* CheckpointSnapshot.to_payload of the state after the step.
CheckpointData_NoBot == [step |-> step + 1, obs |-> obs, bot |-> None]   \* mutant
CheckpointData_NotAdvanced ==                                           \* mutant
  [step |-> step, obs |-> obs, bot |-> runner.bot]
CheckpointData_BeforeResult ==                                          \* mutant
  [step |-> step + 1, obs |-> SubSeq(obs, 1, Len(obs) - 1), bot |-> runner.bot]
CheckpointData == [step |-> step + 1, obs |-> obs, bot |-> runner.bot]

\* save_checkpoint, and the next iteration of the loop.
SaveCheckpoint ==
  /\ pc = "checkpoint"
  /\ Append1(Ev("checkpoint", sm, CheckpointData))
  /\ step' = step + 1
  /\ dec' = None
  /\ pc' = "loop"
  /\ UNCHANGED <<cancelFile, runner, run, sm, obs, seen, got, fin,
                 effects, returned, lateActs, failures>>

-----------------------------------------------------------------------------
(* _succeed, _cancel and _fail: a transition, then the terminal event *)

EndTransition ==
  /\ pc = "finish"
  /\ Transition(fin.state)
  /\ pc' = "record"
  /\ UNCHANGED <<cancelFile, runner, run, step, obs, seen, dec, got, fin,
                 effects, returned, lateActs, failures>>

EndEvent ==
  /\ pc = "record"
  /\ Append1(Ev(TerminalEventOf(fin.state), sm, [answer |-> fin.answer, steps |-> fin.steps]))
  /\ returned' = [returned EXCEPT ![run] = @ \cup {fin}]
  /\ pc' = "idle"
  /\ FrameGone
  /\ UNCHANGED <<cancelFile, runner, effects, lateActs, failures>>

-----------------------------------------------------------------------------
(* The operator's cancellation file *)

CreateCancelFile ==
  /\ ~cancelFile
  /\ cancelFile' = TRUE
  /\ UNCHANGED <<log, runner, pc, frame, effects, returned, lateActs, failures>>

RemoveCancelFile ==
  /\ cancelFile
  /\ cancelFile' = FALSE
  /\ lateActs' = 0
  /\ UNCHANGED <<log, runner, pc, frame, effects, returned, failures>>

-----------------------------------------------------------------------------

\* The steps of a call in progress.
CallStep ==
  \/ LoopCancelled \/ LoopExhausted
  \/ BeginObserving \/ Observe \/ BeginDeciding \/ MakeDecision \/ BeginActing
  \/ Handoff \/ Request
  \/ \E o \in Outputs : CompleteLlm(o)
  \/ \E ok \in BOOLEAN : ExecuteTool(ok)
  \/ ActRaises \/ LogResult \/ SaveCheckpoint
  \/ EndTransition \/ EndEvent

Next ==
  \/ \E c \in Configs : NewRunner(c)
  \/ Exit \/ Crash \/ Escape
  \/ \E r \in RunIds : Run(r) \/ ResumeFinished(r) \/ Resume(r)
  \/ CallStep
  \/ CreateCancelFile \/ RemoveCancelFile

Spec == Init /\ [][Next]_vars

\* A call that is not interrupted goes on: the loop never blocks, and every
\* provider and tool call is bounded by a timeout.  Resuming an interrupted
\* run is up to the operator, who is assumed to restart and resume.
FairSpec ==
  /\ Spec
  /\ WF_vars(CallStep)
  /\ WF_vars(\E c \in Configs : NewRunner(c))
  /\ SF_vars(\E r \in RunIds : Resume(r))

-----------------------------------------------------------------------------
(* Properties *)

\* Every variable stays in the set of values the program can give it.
TypeOK ==
  /\ log \in [RunIds -> Seq(Event)]
  /\ cancelFile \in BOOLEAN
  /\ runner \in [registered : SUBSET Bots, bot : Bots \cup {None},
                 allowed : SUBSET Tools, maxSteps : Nat]
  /\ pc \in {"down", "idle"} \cup Running
  /\ run \in RunIds \cup {None}
  /\ step \in Nat
  /\ sm \in RunState
  /\ obs \in Seq(Observation)
  /\ seen \in Nat
  /\ dec \in DecisionRecord \cup {None}
  /\ got \in Observation \cup {None}
  /\ fin \in Result \cup {None}
  /\ effects \in Seq([run : RunIds, step : Nat, tool : Tools])
  /\ returned \in [RunIds -> SUBSET Result]
  /\ lateActs \in Nat
  /\ failures \in Nat

Finished(r) == Positions(log[r], TerminalEventTypes) # {}

\* A finished run is final (docs/guides/CHECKPOINT_RESUME_GUIDE.md): once a
\* terminal event of a run is in the log, no event of that run is appended,
\* by whatever sequence of crashes, restarts and resumes.
FinishedRunIsFinal == [][\A r \in RunIds : Finished(r) => log'[r] = log[r]]_vars

\* Every caller of run() or resume() that is given a result for a run is
\* given the same one, the outcome its log records, before and after any
\* crash: a run has one outcome.
OneOutcome == \A r \in RunIds : \A x \in returned[r] : x = recorded_outcome(log[r])

\* Checkpoints form a chain.  Each one continues the one before it by one
\* step and one observation, and that observation is the action result
\* logged just before it, whatever attempts were interrupted in between.
CheckpointChain ==
  \A r \in RunIds : \A p \in Positions(log[r], {"checkpoint"}) :
    LET l == log[r]
        c == l[p].data
        before == load_latest_checkpoint(SubSeq(l, 1, p - 1))
    IN  /\ p > 1
        /\ c.step = IF before = None THEN 1 ELSE before.step + 1
        /\ c.obs = Append(IF before = None THEN <<GoalObservation>> ELSE before.obs,
                          l[p - 1].data)
        /\ l[p - 1].type = "action_result"

\* The step a run has reached durably.
Progress(l) ==
  LET saved == Positions(l, {"checkpoint"})
  IN  IF saved = {} THEN 0 ELSE l[Max(saved)].data.step

\* A tool is only ever executed at the first step that is not checkpointed:
\* the effects of checkpointed steps are never repeated by a resume.
NoRepeatOfCheckpointedWork ==
  [][effects' # effects =>
       effects'[Len(effects')].step = Progress(log[effects'[Len(effects')].run])]_vars

\* A step that an interruption makes the run repeat executes the tool it
\* executed before, never another one, and is executed at most once more
\* than there were interruptions.
RepeatedStepSameTool ==
  \A i \in 1..Len(effects) :
    LET same == {j \in 1..Len(effects) : /\ effects[j].run = effects[i].run
                                         /\ effects[j].step = effects[i].step}
    IN  /\ \A j \in same : effects[j].tool = effects[i].tool
        /\ Cardinality(same) <= failures + 1

\* The bot the run's log last handed off to, None if it never did.
LoggedBot(l) ==
  LET hs == {i \in Positions(l, {"action_result"}) : l[i].data.source = "handoff"}
  IN  IF hs = {} THEN None ELSE l[Max(hs)].data.arg

\* "After handoff, tools outside the destination bot allowlist are blocked"
\* (docs/guides/BOT_HANDOFF_GUIDE.md): also when the process dies between
\* logging the handoff and checkpointing it, and another one resumes.
HandoffScopeHolds ==
  [][effects' # effects =>
       LET e == effects'[Len(effects')]
       IN  LoggedBot(log[e.run]) # None => e.tool \in Scope[LoggedBot(log[e.run])]]_vars

\* At most one action, the one already decided, is carried out after the
\* cancellation file appears and while it exists.
CancelledBeforeNextAction == lateActs <= 1

\* The checks the runner repeats defensively never fire: every lifecycle
\* move is allowed, handoff targets are registered, and a tool the engine
\* chose passes validate_tool at the time it is executed.
DefensiveChecksNeverFire ==
  /\ pc = "loop" => TransitionAllowed(sm, "observing")
  /\ pc = "observe" => TransitionAllowed(sm, "deciding")
  /\ pc = "act" => TransitionAllowed(sm, "acting")
  /\ pc = "finish" => TransitionAllowed(sm, fin.state)
  /\ pc = "handoff" => dec.target \in runner.registered
  /\ pc = "execute" /\ dec.action = "call_tool" => dec.target \in runner.allowed

\* The budget rule makes a run finish with what it has one step before the
\* loop runs out: a call that began a step never fails with "step budget
\* exhausted", only one that could not begin any, since a process with a
\* larger budget had already carried the run that far (or the budget is 0).
ExhaustedOnlyByShrunkBudget ==
  \A r \in RunIds : \A p \in Positions(log[r], {"run_failed"}) :
    log[r][p].data.answer = Reason("step budget exhausted") =>
      /\ log[r][p - 1].data = "created"
      /\ log[r][p].data.steps <= Progress(log[r])

\* Every call returns or is interrupted: the loop terminates.
CallsReturn == pc \in Running ~> pc \in {"down", "idle"}

\* A run that has a checkpoint is brought to an outcome, through crashes.
CheckpointedRunsFinish ==
  \A r \in RunIds : load_latest_checkpoint(log[r]) # None ~> Finished(r)

\* The runner implements DurableRun: read through recorded_outcome and the
\* latest checkpoint, its log is that of a run that advances step by step to
\* one outcome, which is the only thing any caller is told.
Durable == INSTANCE DurableRun WITH
             Outcomes <- Result,
             outcome  <- [r \in RunIds |-> recorded_outcome(log[r])],
             progress <- [r \in RunIds |-> Progress(log[r])],
             told     <- returned

ImplementsDurableRun == Durable!Spec

-----------------------------------------------------------------------------
(* The parts of the inductive invariant behind the theorems *)

\* What the frame of a call holds at each point of the call.
FrameOK ==
  /\ pc \in Running => run \in RunIds /\ obs # <<>>
  /\ pc = "observe" => seen <= Len(obs)
  /\ pc \in {"act", "handoff", "request", "execute"} =>
       /\ dec \in DecisionRecord
       /\ dec.action \in {"call_llm", "call_tool", "handoff"}
       /\ dec.action = "handoff" => dec.target \in runner.registered
       /\ dec.action = "call_tool" => dec.target \in runner.allowed
  /\ pc = "handoff" => dec.action = "handoff"
  /\ pc \in {"request", "execute"} => dec.action # "handoff"
  /\ pc = "result" => got \in Observation
  /\ pc \in {"finish", "record"} => fin \in Result

\* The lifecycle state at each point of a call.
LifecycleOK ==
  /\ pc = "loop" => sm \in {"created", "acting"}
  /\ pc = "observe" => sm = "observing"
  /\ pc \in {"decide", "act"} => sm = "deciding"
  /\ pc \in {"handoff", "request", "execute", "result", "checkpoint"} => sm = "acting"
  /\ pc = "finish" => /\ sm \in {"created", "deciding", "acting"}
                      /\ fin.state = "succeeded" => sm = "deciding"
  /\ pc = "record" => sm = fin.state

\* A terminal event is the last event of its run.
EndIsLast ==
  \A r \in RunIds : \A p \in Positions(log[r], TerminalEventTypes) : p = Len(log[r])

\* No call works on a finished run.
WorksOnUnfinished == pc \in Running => ~Finished(run)

\* The observations a run has reached durably.
Known(l) ==
  LET c == load_latest_checkpoint(l) IN IF c = None THEN <<GoalObservation>> ELSE c.obs

\* A call works from the latest checkpoint: it holds exactly what the log
\* holds, plus the logged result of the step it is about to checkpoint.
InStepWithLog ==
  pc \in Running =>
    LET l == log[run]
    IN  /\ step = Progress(l)
        /\ pc # "checkpoint" => obs = Known(l)
        /\ pc = "checkpoint" => /\ l # <<>>
                                /\ l[Len(l)].type = "action_result"
                                /\ obs = Append(Known(l), l[Len(l)].data)

IInv ==
  /\ TypeOK /\ FrameOK /\ LifecycleOK
  /\ EndIsLast /\ WorksOnUnfinished /\ OneOutcome
  /\ InStepWithLog

-----------------------------------------------------------------------------
(* What docstrings say and the code does not do (see README, Findings) *)

\* runner.py, recorded_outcome: "Terminal lifecycle states have no outgoing
\* transitions; reading them from the durable log enforces that across
\* processes".  No transition is logged after one into a terminal state.
NoMoveAfterTerminalState ==
  \A r \in RunIds : \A p, q \in Positions(log[r], {"state_transition"}) :
    p < q => ~IsTerminal(log[r][p].state)

\* runner.py, resume: "The bot that was active when the checkpoint was
\* written is restored, so a resumed run keeps that bot's tool scope".  A
\* tool is executed under the bot the run's latest checkpoint records.
ToolsRunUnderCheckpointedBot ==
  [][effects' # effects => runner.bot = load_latest_checkpoint(log[run]).bot]_vars
=============================================================================
