-------------------------- MODULE AgentRunner_proofs --------------------------
(***************************************************************************)
(* Proofs about AgentRunner for every set of runs, tools, bots, outputs    *)
(* and configurations, and any number of failures.                         *)
(***************************************************************************)
EXTENDS AgentRunner, FiniteSetTheorems, SequenceTheorems, TLAPS

-----------------------------------------------------------------------------
(* Positions in a sequence *)

\* A nonempty set of positions has a largest one: the latest-event lookups
\* of recorded_outcome, load_latest_checkpoint and the decision engine are
\* well defined.
LEMMA MaxExists ==
  ASSUME NEW n \in Nat, NEW S, S \subseteq 1..n, S # {}
  PROVE  Max(S) \in S /\ \A j \in S : j <= Max(S)
<1> DEFINE T == {n - i : i \in S}
<1>1. T \subseteq Nat /\ T # {}
  OBVIOUS
<1>2. IsWellFoundedOn(OpToRel(<, Nat), Nat)
  BY NatLessThanWellFounded
<1>3. PICK x \in T : \A y \in T : ~(<<y, x>> \in OpToRel(<, Nat))
  <2> HIDE DEF T
  <2>1. QED BY <1>1, <1>2, WFMin, Zenon
<1>4. PICK m \in S : x = n - m
  BY <1>3
<1>5. \A y \in T : ~(y < x)
  BY <1>1, <1>3 DEF OpToRel
<1>6. \A j \in S : j <= m
  <2>1. TAKE j \in S
  <2>2. n - j \in T
    OBVIOUS
  <2>3. ~(n - j < n - m)
    BY <1>4, <1>5, <2>2
  <2>4. QED BY <2>3
<1>7. \E i \in S : \A j \in S : i >= j
  BY <1>6
<1>8. QED BY <1>7 DEF Max

\* Appending an event adds its own position to the positions of its type
\* and moves nothing else.
LEMMA PositionsAppend ==
  ASSUME NEW l \in Seq(Event), NEW e \in Event, NEW T
  PROVE  /\ e.type \in T => Positions(Append(l, e), T) = Positions(l, T) \cup {Len(l) + 1}
         /\ e.type \notin T => Positions(Append(l, e), T) = Positions(l, T)
         /\ Positions(l, T) \subseteq 1..Len(l)
         /\ \A i \in 1..Len(l) : Append(l, e)[i] = l[i]
         /\ Append(l, e)[Len(l) + 1] = e
  BY DEF Positions

-----------------------------------------------------------------------------
(* The decision engine *)

\* The engine always decides, only for a tool in the scope it is given or a
\* bot in the registry it is given, and finishes with an observation.
LEMMA DecideTyped ==
  ASSUME NEW o \in Seq(Observation), o # <<>>,
         NEW s \in Nat, NEW m \in Nat, NEW c \in BOOLEAN,
         NEW allowed \in SUBSET Tools, NEW registered \in SUBSET Bots
  PROVE  LET d == Decide(o, s, m, c, allowed, registered)
         IN  /\ d \in DecisionRecord
             /\ d.action = "call_tool" => d.target \in allowed
             /\ d.action = "handoff" => d.target \in registered
             /\ d.action = "finish" => d.answer \in Observation
<1> DEFINE Good(d) == /\ d \in DecisionRecord
                      /\ d.action = "call_tool" => d.target \in allowed
                      /\ d.action = "handoff" => d.target \in registered
                      /\ d.action = "finish" => d.answer \in Observation
<1>1. o[Len(o)] \in Observation
  OBVIOUS
<1>2. ModelOutputs(o) # {} => o[Max(ModelOutputs(o))] \in Observation
  <2>1. ModelOutputs(o) \subseteq 1..Len(o)
    BY DEF ModelOutputs
  <2>2. QED BY <2>1, MaxExists
<1>3. ASSUME NEW x \in Observation
      PROVE  Good(FromModelOutput(x, allowed, registered))
  BY <1>3 DEF FromModelOutput, CallLlm, Finish, Targeted, DecisionRecord, Observation
<1>4. ASSUME NEW x \in Observation
      PROVE  Good(Finish(x))
  BY <1>4 DEF Finish, DecisionRecord
<1>5. /\ Good(Targeted("cancel", None, "safety.cancel-file"))
      /\ Good(CallLlm("tool.result-needs-synthesis"))
      /\ Good(CallLlm("handoff.needs-continuation"))
      /\ Good(CallLlm("observe.no-model-output"))
  BY DEF Targeted, CallLlm, DecisionRecord
<1>6. Good(Decide(o, s, m, c, allowed, registered))
  <2> HIDE DEF Good
  <2> QED BY <1>1, <1>2, <1>3, <1>4, <1>5 DEF Decide
<1>7. QED BY <1>6

-----------------------------------------------------------------------------
(* Type correctness *)

\* The events the runner builds are events.
LEMMA EventTyped ==
  ASSUME NEW st \in RunState
  PROVE  /\ Ev("run_created", "created", None) \in Event
         /\ \A x \in RunState : Ev("state_transition", st, x) \in Event
         /\ \A x \in Observation : /\ Ev("observation", st, x) \in Event
                                   /\ Ev("action_result", st, x) \in Event
         /\ \A x \in DecisionRecord : /\ Ev("decision", st, x) \in Event
                                      /\ Ev("action_requested", st, x) \in Event
         /\ \A x \in Checkpoint : Ev("checkpoint", st, x) \in Event
  BY DEF Ev, Event

\* A terminal event built from a result is an event.
LEMMA EndEventTyped ==
  ASSUME NEW f \in Result
  PROVE  Ev(TerminalEventOf(f.state), f.state, [answer |-> f.answer, steps |-> f.steps]) \in Event
<1>1. f.state \in TerminalStates /\ f.answer \in Observation \cup Reasons /\ f.steps \in Nat
  BY DEF Result
<1>2. TerminalEventOf(f.state) \in TerminalEventTypes
  BY <1>1 DEF TerminalEventOf, TerminalEventTypes, TerminalStates
<1>3. QED BY <1>1, <1>2 DEF Ev, Event

\* What load_latest_checkpoint returns is None or a checkpoint.
LEMMA CheckpointTyped ==
  ASSUME NEW l \in Seq(Event)
  PROVE  load_latest_checkpoint(l) = None \/ load_latest_checkpoint(l) \in Checkpoint
<1> DEFINE P == Positions(l, {"checkpoint"})
<1>1. CASE P = {}
  BY <1>1 DEF load_latest_checkpoint
<1>2. CASE P # {}
  <2>1. P \subseteq 1..Len(l)
    BY DEF Positions
  <2>2. Max(P) \in P
    BY <1>2, <2>1, MaxExists
  <2>3. l[Max(P)] \in Event /\ l[Max(P)].type = "checkpoint"
    BY <2>1, <2>2 DEF Positions
  <2>4. l[Max(P)].data \in Checkpoint
    BY <2>3 DEF Event, TerminalEventTypes
  <2>5. QED BY <1>2, <2>4 DEF load_latest_checkpoint
<1>3. QED BY <1>1, <1>2

\* What recorded_outcome returns is None or a result.
LEMMA OutcomeTyped ==
  ASSUME NEW l \in Seq(Event)
  PROVE  IF Positions(l, TerminalEventTypes) = {}
         THEN recorded_outcome(l) = None
         ELSE recorded_outcome(l) \in Result
<1> DEFINE P == Positions(l, TerminalEventTypes)
           e == l[Max(P)]
<1>1. CASE P = {}
  BY <1>1 DEF recorded_outcome
<1>2. CASE P # {}
  <2>1. P \subseteq 1..Len(l)
    BY DEF Positions
  <2>2. Max(P) \in P
    BY <1>2, <2>1, MaxExists
  <2>3. e \in Event /\ e.type \in TerminalEventTypes
    BY <2>1, <2>2 DEF Positions
  <2>4. e.data \in [answer : Observation \cup Reasons, steps : Nat]
    BY <2>3 DEF Event, TerminalEventTypes
  <2>5. TerminalStateOf(e.type) \in TerminalStates
    BY <2>3 DEF TerminalStateOf, TerminalStates, TerminalEventTypes
  <2>6. recorded_outcome(l) =
          [state |-> TerminalStateOf(e.type), answer |-> e.data.answer, steps |-> e.data.steps]
    BY <1>2 DEF recorded_outcome
  <2>7. QED BY <1>2, <2>4, <2>5, <2>6 DEF Result
<1>3. QED BY <1>1, <1>2

\* Appending an event to the log of the current run keeps the log typed.
LEMMA LogTyped ==
  ASSUME log \in [RunIds -> Seq(Event)], NEW r \in RunIds, NEW e \in Event
  PROVE  [log EXCEPT ![r] = Append(@, e)] \in [RunIds -> Seq(Event)]
  OBVIOUS

\* An append of the call in progress keeps the log typed.
LEMMA LoggedTyped ==
  ASSUME TypeOK, FrameOK, pc \in Running, NEW e \in Event, Append1(e)
  PROVE  log' \in [RunIds -> Seq(Event)]
  BY LogTyped DEF Append1, TypeOK, FrameOK

\* The states written as literals.
LEMMA StatesTyped ==
  /\ {"created", "observing", "deciding", "acting"} \subseteq RunState
  /\ TerminalStates \subseteq RunState
  BY DEF RunState, TerminalStates

\* The runner object after a switch to a known bot is a runner object.
LEMMA SwitchTyped ==
  ASSUME TypeOK, NEW b \in Bots
  PROVE  SwitchedTo(b) \in [registered : SUBSET Bots, bot : Bots \cup {None},
                            allowed : SUBSET Tools, maxSteps : Nat]
  BY ConstantsOK DEF SwitchedTo, TypeOK

\* What _succeed, _cancel and _fail record and return is a result.
LEMMA EndingTyped ==
  ASSUME NEW st \in TerminalStates, NEW n \in Nat
  PROVE  /\ \A a \in Observation : Ending(st, n, a) \in Result
         /\ \A w \in {"cancellation requested", "cancellation file exists",
                      "unknown bot for handoff", "exception", "step budget exhausted"} :
              Ending(st, n, Reason(w)) \in Result
  BY DEF Ending, Result, Reasons

\* Appending keeps a sequence over its set, and nonempty.
LEMMA AppendTyped ==
  ASSUME NEW S, NEW q \in Seq(S), NEW x \in S
  PROVE  Append(q, x) \in Seq(S) /\ Append(q, x) # <<>>
  BY AppendProperties

\* The inductive step of type correctness, one case per action.
LEMMA TypeStep == TypeOK /\ FrameOK /\ LifecycleOK /\ [Next]_vars => TypeOK' /\ FrameOK'
<1> SUFFICES ASSUME TypeOK, FrameOK, LifecycleOK, [Next]_vars
             PROVE  TypeOK' /\ FrameOK'
  OBVIOUS
<1> USE ConstantsOK, NoneIsNoName, StatesTyped
<1>1. ASSUME NEW c \in Configs, NewRunner(c) PROVE TypeOK' /\ FrameOK'
  BY <1>1 DEF NewRunner, TypeOK, FrameOK, Running, frame
<1>2. CASE Exit
  BY <1>2 DEF Exit, NoRunner, TypeOK, FrameOK, Running, frame
<1>3. CASE Crash
  BY <1>3 DEF Crash, FrameGone, NoRunner, TypeOK, FrameOK, Running
<1>4. CASE Escape
  <2>1. pc = "handoff" => dec.target \in Bots
    BY DEF FrameOK, TypeOK
  <2>2. runner' \in [registered : SUBSET Bots, bot : Bots \cup {None},
                     allowed : SUBSET Tools, maxSteps : Nat]
    BY <1>4, <2>1, SwitchTyped DEF Escape, TypeOK
  <2>3. QED BY <1>4, <2>2 DEF Escape, FrameGone, TypeOK, FrameOK, Running
<1>5. ASSUME NEW r \in RunIds, Run(r) PROVE TypeOK' /\ FrameOK'
  BY <1>5, EventTyped, LogTyped DEF Run, GoalObservation, Observation, TypeOK, FrameOK, Running
<1>6. ASSUME NEW r \in RunIds, ResumeFinished(r) PROVE TypeOK' /\ FrameOK'
  BY <1>6, OutcomeTyped DEF ResumeFinished, TypeOK, FrameOK, Running, frame
<1>7. ASSUME NEW r \in RunIds, Resume(r) PROVE TypeOK' /\ FrameOK'
  BY <1>7, CheckpointTyped DEF Resume, SwitchedTo, Checkpoint, TypeOK, FrameOK, Running
<1>8. CASE LoopCancelled
  BY <1>8 DEF LoopCancelled, Ending, Result, Reasons, TerminalStates, TypeOK, FrameOK, Running
<1>9. CASE LoopExhausted
  BY <1>9 DEF LoopExhausted, Ending, Result, Reasons, TerminalStates, TypeOK, FrameOK, Running
<1>10. CASE BeginObserving
  <2>1. Ev("state_transition", "observing", sm) \in Event
    BY <1>10, EventTyped, StatesTyped DEF BeginObserving, TypeOK, FrameOK, Running
  <2>2. log' \in [RunIds -> Seq(Event)]
    BY <1>10, <2>1, LoggedTyped DEF BeginObserving, Transition, Running
  <2>3. QED BY <1>10, <2>2, StatesTyped DEF BeginObserving, Transition, TypeOK, FrameOK, Running
<1>11. CASE Observe
  <2>1. Ev("observation", sm, obs[seen + 1]) \in Event
    BY <1>11, EventTyped, StatesTyped DEF Observe, TypeOK, FrameOK, Running
  <2>2. log' \in [RunIds -> Seq(Event)]
    BY <1>11, <2>1, LoggedTyped DEF Observe, Running
  <2>3. QED BY <1>11, <2>2, StatesTyped DEF Observe, TypeOK, FrameOK, Running
<1>12. CASE BeginDeciding
  <2>1. Ev("state_transition", "deciding", sm) \in Event
    BY <1>12, EventTyped, StatesTyped DEF BeginDeciding, TypeOK, FrameOK, Running
  <2>2. log' \in [RunIds -> Seq(Event)]
    BY <1>12, <2>1, LoggedTyped DEF BeginDeciding, Transition, Running
  <2>3. QED BY <1>12, <2>2, StatesTyped DEF BeginDeciding, Transition, TypeOK, FrameOK, Running
<1>13. CASE MakeDecision
  <2> DEFINE d == Decide(obs, step, runner.maxSteps, is_cancelled, runner.allowed,
                         runner.registered)
  <2>1. /\ d \in DecisionRecord
        /\ d.action = "call_tool" => d.target \in runner.allowed
        /\ d.action = "handoff" => d.target \in runner.registered
        /\ d.action = "finish" => d.answer \in Observation
    BY <1>13, DecideTyped DEF MakeDecision, is_cancelled, TypeOK, FrameOK, Running
  <2> HIDE DEF d
  <2>2. /\ pc = "decide"
        /\ Append1(Ev("decision", sm, d))
        /\ dec' = d
        /\ \/ /\ d.action = "finish"
              /\ fin' = Ending("succeeded", step + 1, d.answer)
              /\ pc' = "finish"
           \/ /\ d.action = "cancel"
              /\ fin' = Ending("cancelled", step + 1, Reason("cancellation file exists"))
              /\ pc' = "finish"
           \/ /\ d.action = "fail"
              /\ fin' = Ending("failed", step + 1, Reason("unknown bot for handoff"))
              /\ pc' = "finish"
           \/ /\ d.action \in {"call_llm", "call_tool", "handoff"}
              /\ UNCHANGED fin
              /\ pc' = "act"
        /\ UNCHANGED <<cancelFile, runner, run, step, sm, obs, seen, got,
                       effects, returned, lateActs, failures>>
    BY <1>13 DEF MakeDecision, d
  <2>3. log' \in [RunIds -> Seq(Event)]
    BY <2>1, <2>2, EventTyped, LogTyped DEF Append1, TypeOK, FrameOK, Running
  <2>4. fin' \in Result \cup {None} /\ (pc' = "finish" => fin' \in Result)
    <3>1. step + 1 \in Nat
      BY DEF TypeOK
    <3>2. {"succeeded", "cancelled", "failed"} \subseteq TerminalStates
      BY DEF TerminalStates
    <3>3. CASE pc' = "finish"
      <4>1. d.action = "finish" => Ending("succeeded", step + 1, d.answer) \in Result
        BY <2>1, <3>1, <3>2, EndingTyped, Zenon
      <4>2. Ending("cancelled", step + 1, Reason("cancellation file exists")) \in Result
        BY <3>1, <3>2, EndingTyped, Zenon
      <4>3. Ending("failed", step + 1, Reason("unknown bot for handoff")) \in Result
        BY <3>1, <3>2, EndingTyped, Zenon
      <4>4. QED BY <2>2, <3>3, <4>1, <4>2, <4>3
    <3>4. CASE pc' # "finish"
      BY <2>2, <3>4 DEF TypeOK
    <3>5. QED BY <3>3, <3>4
  <2>5. TypeOK'
    BY <2>1, <2>2, <2>3, <2>4 DEF TypeOK, Running
  <2>6. FrameOK'
    BY <2>1, <2>2, <2>4 DEF FrameOK, Running
  <2>7. QED BY <2>5, <2>6
<1>14. CASE BeginActing
  <2>1. Ev("state_transition", "acting", sm) \in Event
    BY <1>14, EventTyped, StatesTyped DEF BeginActing, TypeOK, FrameOK, Running
  <2>2. log' \in [RunIds -> Seq(Event)]
    BY <1>14, <2>1, LoggedTyped DEF BeginActing, Transition, Running
  <2>3. QED BY <1>14, <2>2, StatesTyped DEF BeginActing, Transition, TypeOK, FrameOK, Running
<1>15. CASE Handoff
  <2>1. dec.target \in Bots
    BY <1>15 DEF Handoff, FrameOK, TypeOK
  <2>2. HandoffObservation(dec.target) \in Observation
    BY <2>1 DEF HandoffObservation, Observation
  <2>3. runner' \in [registered : SUBSET Bots, bot : Bots \cup {None},
                     allowed : SUBSET Tools, maxSteps : Nat]
    BY <1>15, <2>1, SwitchTyped DEF Handoff
  <2>4. log' \in [RunIds -> Seq(Event)]
    <3>1. Ev("action_result", sm, HandoffObservation(dec.target)) \in Event
      BY <2>2, EventTyped DEF TypeOK
    <3>2. QED BY <1>15, <3>1, LoggedTyped DEF Handoff, Running
  <2>5. obs' \in Seq(Observation) /\ obs' # <<>>
    <3>1. obs \in Seq(Observation) /\ obs' = Append(obs, HandoffObservation(dec.target))
      BY <1>15 DEF Handoff, TypeOK
    <3>2. QED BY <2>2, <3>1, AppendTyped
  <2>6. QED
    BY <1>15, <2>3, <2>4, <2>5 DEF Handoff, CountLateAct, TypeOK, FrameOK, Running
<1>16. CASE Request
  <2>1. Ev("action_requested", sm, dec) \in Event
    BY <1>16, EventTyped, StatesTyped DEF Request, TypeOK, FrameOK, Running
  <2>2. log' \in [RunIds -> Seq(Event)]
    BY <1>16, <2>1, LoggedTyped DEF Request, Running
  <2>3. QED BY <1>16, <2>2, StatesTyped DEF Request, frame, TypeOK, FrameOK, Running
<1>17. ASSUME NEW o \in Outputs, CompleteLlm(o) PROVE TypeOK' /\ FrameOK'
  BY <1>17 DEF CompleteLlm, LlmObservation, ModelOutput, Observation, CountLateAct,
               TypeOK, FrameOK, Running
<1>18. ASSUME NEW ok \in BOOLEAN, ExecuteTool(ok) PROVE TypeOK' /\ FrameOK'
  BY <1>18 DEF ExecuteTool, ToolExecutable, RecordEffect, ToolObservation, Observation,
               CountLateAct, TypeOK, FrameOK, Running
<1>19. CASE ActRaises
  <2>1. effects' \in Seq([run : RunIds, step : Nat, tool : Tools])
    <3>1. CASE UNCHANGED effects
      BY <3>1 DEF TypeOK
    <3>2. CASE dec.action = "call_tool" /\ ToolExecutable(dec.target) /\ RecordEffect
      <4>1. [run |-> run, step |-> step, tool |-> dec.target]
              \in [run : RunIds, step : Nat, tool : Tools]
        BY <1>19, <3>2 DEF ActRaises, ToolExecutable, TypeOK, FrameOK, Running
      <4>2. QED BY <3>2, <4>1, AppendTyped DEF RecordEffect, TypeOK
    <3>3. QED BY <1>19, <3>1, <3>2 DEF ActRaises
  <2>2. fin' \in Result
    BY <1>19, EndingTyped DEF ActRaises, CaughtException, TerminalStates, TypeOK
  <2>3. QED
    BY <1>19, <2>1, <2>2 DEF ActRaises, CaughtException, CountLateAct, TypeOK, FrameOK, Running
<1>20. CASE LogResult
  <2>1. got \in Observation
    BY <1>20 DEF LogResult, FrameOK
  <2>2. log' \in [RunIds -> Seq(Event)]
    BY <1>20, <2>1, EventTyped, LogTyped DEF LogResult, Append1, TypeOK, FrameOK, Running
  <2>3. obs' \in Seq(Observation) /\ obs' # <<>>
    BY <1>20, <2>1, AppendTyped DEF LogResult, TypeOK
  <2>4. QED BY <1>20, <2>2, <2>3 DEF LogResult, TypeOK, FrameOK, Running
<1>21. CASE SaveCheckpoint
  <2>1. CheckpointData \in Checkpoint
    BY <1>21 DEF SaveCheckpoint, CheckpointData, Checkpoint, TypeOK, FrameOK, Running
  <2>2. Ev("checkpoint", sm, CheckpointData) \in Event
    BY <2>1, EventTyped DEF TypeOK
  <2>3. log' \in [RunIds -> Seq(Event)]
    BY <1>21, <2>2, LogTyped DEF SaveCheckpoint, Append1, TypeOK, FrameOK, Running
  <2>4. QED BY <1>21, <2>3 DEF SaveCheckpoint, TypeOK, FrameOK, Running
<1>22. CASE EndTransition
  <2>1. fin.state \in RunState /\ run \in RunIds
    BY <1>22, StatesTyped DEF EndTransition, Result, FrameOK, Running
  <2>2. Ev("state_transition", fin.state, sm) \in Event
    BY <2>1, EventTyped DEF TypeOK
  <2>3. log' \in [RunIds -> Seq(Event)]
    BY <1>22, <2>1, <2>2, LogTyped DEF EndTransition, Transition, Append1, TypeOK
  <2>4. QED BY <1>22, <2>1, <2>3 DEF EndTransition, Transition, TypeOK, FrameOK, Running
<1>23. CASE EndEvent
  BY <1>23, EndEventTyped, LogTyped
     DEF EndEvent, FrameGone, Append1, LifecycleOK, TypeOK, FrameOK, Running
<1>24. CASE CreateCancelFile \/ RemoveCancelFile
  <2>1. CASE CreateCancelFile
    BY <2>1 DEF CreateCancelFile, frame, TypeOK, FrameOK, Running
  <2>2. CASE RemoveCancelFile
    BY <2>2 DEF RemoveCancelFile, frame, TypeOK, FrameOK, Running
  <2>3. QED BY <1>24, <2>1, <2>2
<1>25. CASE UNCHANGED vars
  BY <1>25 DEF vars, frame, TypeOK, FrameOK, Running
<1>26. QED
  BY <1>1, <1>2, <1>3, <1>4, <1>5, <1>6, <1>7, <1>8, <1>9, <1>10, <1>11, <1>12, <1>13,
     <1>14, <1>15, <1>16, <1>17, <1>18, <1>19, <1>20, <1>21, <1>22, <1>23, <1>24, <1>25
     DEF Next, CallStep

\* The inductive step for the lifecycle state at each point of a call.
LEMMA LifecycleStep == TypeOK /\ FrameOK /\ LifecycleOK /\ [Next]_vars => LifecycleOK'
<1> SUFFICES ASSUME TypeOK, FrameOK, LifecycleOK, [Next]_vars
             PROVE  LifecycleOK'
  OBVIOUS
<1> USE DEF LifecycleOK, Running
<1>1. CASE (\E c \in Configs : NewRunner(c)) \/ Exit \/ Crash \/ Escape
  BY <1>1 DEF NewRunner, Exit, Crash, Escape
<1>2. CASE \E r \in RunIds : Run(r) \/ ResumeFinished(r) \/ Resume(r)
  BY <1>2 DEF Run, ResumeFinished, Resume, frame
<1>3. CASE LoopCancelled \/ LoopExhausted
  <2>1. pc = "loop" /\ pc' = "finish" /\ sm' = sm
    BY <1>3 DEF LoopCancelled, LoopExhausted
  <2>2. CASE LoopCancelled
    <3>1. fin'.state = "cancelled"
      BY <2>2 DEF LoopCancelled, Ending
    <3>2. QED BY <2>1, <3>1
  <2>3. CASE LoopExhausted
    <3>1. fin'.state = "failed"
      BY <2>3 DEF LoopExhausted, Ending
    <3>2. QED BY <2>1, <3>1
  <2>4. QED BY <1>3, <2>2, <2>3
<1>4. CASE BeginObserving \/ Observe \/ BeginDeciding \/ BeginActing \/ Request
  BY <1>4 DEF BeginObserving, Observe, BeginDeciding, BeginActing, Request, Transition, frame
<1>5. CASE MakeDecision
  BY <1>5 DEF MakeDecision, Ending
<1>6. CASE Handoff \/ LogResult \/ SaveCheckpoint
  BY <1>6 DEF Handoff, LogResult, SaveCheckpoint
<1>7. CASE (\E o \in Outputs : CompleteLlm(o)) \/ (\E ok \in BOOLEAN : ExecuteTool(ok))
  BY <1>7 DEF CompleteLlm, ExecuteTool
<1>8. CASE ActRaises
  BY <1>8 DEF ActRaises, CaughtException, Ending
<1>9. CASE EndTransition \/ EndEvent
  BY <1>9 DEF EndTransition, EndEvent, Transition, FrameGone
<1>10. CASE CreateCancelFile \/ RemoveCancelFile \/ UNCHANGED vars
  BY <1>10 DEF CreateCancelFile, RemoveCancelFile, vars, frame
<1>11. QED
  BY <1>1, <1>2, <1>3, <1>4, <1>5, <1>6, <1>7, <1>8, <1>9, <1>10 DEF Next, CallStep

\* The initial state satisfies every part of the inductive invariant.
LEMMA InitIInv == Init => IInv
<1> SUFFICES ASSUME Init PROVE IInv
  OBVIOUS
<1> USE DEF Init, Running
<1>1. TypeOK
  <2>1. log \in [RunIds -> Seq(Event)] /\ returned \in [RunIds -> SUBSET Result]
    OBVIOUS
  <2>2. runner \in [registered : SUBSET Bots, bot : Bots \cup {None},
                    allowed : SUBSET Tools, maxSteps : Nat]
    BY DEF NoRunner
  <2>3. obs \in Seq(Observation) /\ effects \in Seq([run : RunIds, step : Nat, tool : Tools])
    OBVIOUS
  <2>4. QED BY <2>1, <2>2, <2>3 DEF TypeOK, RunState
<1>2. FrameOK /\ LifecycleOK /\ InStepWithLog
  BY DEF FrameOK, LifecycleOK, InStepWithLog
<1>3. EndIsLast /\ WorksOnUnfinished /\ OneOutcome
  BY DEF EndIsLast, WorksOnUnfinished, OneOutcome, Positions
<1>4. QED BY <1>1, <1>2, <1>3 DEF IInv

\* Every variable keeps its type, whatever the constants: no interleaving of
\* crashes, escaped exceptions and resumes brings the runner or the log into
\* a state the code does not expect.
THEOREM TypeCorrect == Spec => []TypeOK
<1>1. Init => TypeOK /\ FrameOK /\ LifecycleOK
  BY InitIInv DEF IInv
<1>2. TypeOK /\ FrameOK /\ LifecycleOK /\ [Next]_vars => (TypeOK /\ FrameOK /\ LifecycleOK)'
  BY TypeStep, LifecycleStep
<1>3. QED BY <1>1, <1>2, PTL DEF Spec

\* The lifecycle table accepts every move the runner makes and the engine's
\* choices pass the runner's own checks: InvalidTransitionError, validate_tool
\* and the unregistered-bot error are never raised by the loop.
THEOREM DefensiveChecks == Spec => []DefensiveChecksNeverFire
<1>1. Init => TypeOK /\ FrameOK /\ LifecycleOK
  BY InitIInv DEF IInv
<1>2. TypeOK /\ FrameOK /\ LifecycleOK /\ [Next]_vars => (TypeOK /\ FrameOK /\ LifecycleOK)'
  BY TypeStep, LifecycleStep
<1>3. TypeOK /\ FrameOK /\ LifecycleOK => DefensiveChecksNeverFire
  <2> SUFFICES ASSUME TypeOK, FrameOK, LifecycleOK PROVE DefensiveChecksNeverFire
    OBVIOUS
  <2>1. /\ TransitionAllowed("created", "observing")
        /\ TransitionAllowed("acting", "observing")
        /\ TransitionAllowed("observing", "deciding")
        /\ TransitionAllowed("deciding", "acting")
        /\ TransitionAllowed("deciding", "succeeded")
        /\ \A x \in {"created", "deciding", "acting"} :
             TransitionAllowed(x, "failed") /\ TransitionAllowed(x, "cancelled")
    BY DEF TransitionAllowed, ALLOWED_TRANSITIONS, RunState
  <2>2. pc = "finish" => fin.state \in TerminalStates
    BY DEF FrameOK, Result
  <2>3. QED
    BY <2>1, <2>2 DEF DefensiveChecksNeverFire, LifecycleOK, FrameOK, TerminalStates
<1>4. QED BY <1>1, <1>2, <1>3, PTL DEF Spec

-----------------------------------------------------------------------------
(* Finished runs are final *)

\* Steps that append nothing: they keep the position of the call they are
\* part of, or end it.
Silent ==
  \/ \E c \in Configs : NewRunner(c)
  \/ Exit \/ Crash \/ Escape
  \/ LoopCancelled \/ LoopExhausted
  \/ \E o \in Outputs : CompleteLlm(o)
  \/ \E ok \in BOOLEAN : ExecuteTool(ok)
  \/ ActRaises
  \/ CreateCancelFile \/ RemoveCancelFile \/ UNCHANGED vars

\* Steps that append an event nobody reads back.
Trace ==
  BeginObserving \/ Observe \/ BeginDeciding \/ MakeDecision \/ BeginActing \/ Request
    \/ EndTransition

\* Every step is of one of these kinds.
LEMMA StepKinds ==
  [Next]_vars =>
    \/ Silent \/ Trace \/ Handoff \/ LogResult \/ SaveCheckpoint \/ EndEvent
    \/ \E r \in RunIds : Run(r) \/ ResumeFinished(r) \/ Resume(r)
  BY DEF Next, CallStep, Silent, Trace

\* What a silent step leaves alone.
LEMMA SilentFrame ==
  ASSUME Silent
  PROVE  /\ log' = log /\ returned' = returned
         /\ pc' \in Running => /\ pc \in Running
                               /\ run' = run /\ step' = step /\ obs' = obs
                               /\ pc' = "checkpoint" <=> pc = "checkpoint"
<1> USE DEF Running
<1>1. CASE \E c \in Configs : NewRunner(c)
  BY <1>1 DEF NewRunner
<1>2. CASE Exit \/ Crash \/ Escape
  BY <1>2 DEF Exit, Crash, Escape
<1>3. CASE LoopCancelled \/ LoopExhausted
  BY <1>3 DEF LoopCancelled, LoopExhausted
<1>4. CASE \E o \in Outputs : CompleteLlm(o)
  BY <1>4 DEF CompleteLlm
<1>5. CASE \E ok \in BOOLEAN : ExecuteTool(ok)
  BY <1>5 DEF ExecuteTool
<1>6. CASE ActRaises
  BY <1>6 DEF ActRaises, CaughtException
<1>7. CASE CreateCancelFile \/ RemoveCancelFile
  BY <1>7 DEF CreateCancelFile, RemoveCancelFile, frame
<1>8. CASE UNCHANGED vars
  BY <1>8 DEF vars, frame
<1>9. QED BY <1>1, <1>2, <1>3, <1>4, <1>5, <1>6, <1>7, <1>8 DEF Silent

\* What a tracing step does: one event of the current run.
LEMMA TraceFrame ==
  ASSUME TypeOK, FrameOK, LifecycleOK, Trace
  PROVE  /\ pc \in Running /\ pc # "checkpoint"
         /\ pc' \in Running /\ pc' # "checkpoint"
         /\ returned' = returned /\ run' = run /\ step' = step /\ obs' = obs
         /\ \E e \in Event : /\ e.type \notin TerminalEventTypes \cup {"checkpoint", "action_result"}
                            /\ Append1(e)
<1> USE StatesTyped DEF Running, TerminalEventTypes
<1>1. ASSUME NEW e, e \in Event, e.type \in {"state_transition", "observation", "decision",
                                            "action_requested"}, Append1(e)
      PROVE  \E x \in Event : /\ x.type \notin TerminalEventTypes \cup {"checkpoint", "action_result"}
                             /\ Append1(x)
  BY <1>1
<1>2. ASSUME NEW to \in RunState, Transition(to)
      PROVE  \E x \in Event : /\ x.type \notin TerminalEventTypes \cup {"checkpoint", "action_result"}
                             /\ Append1(x)
  <2>1. Ev("state_transition", to, sm) \in Event
    BY EventTyped DEF TypeOK
  <2>2. Ev("state_transition", to, sm).type = "state_transition"
    BY DEF Ev
  <2>3. QED BY <1>1, <1>2, <2>1, <2>2 DEF Transition
<1>3. CASE BeginObserving \/ BeginDeciding \/ BeginActing
  <2>1. Transition("observing") \/ Transition("deciding") \/ Transition("acting")
    BY <1>3 DEF BeginObserving, BeginDeciding, BeginActing
  <2>2. QED BY <1>2, <1>3, <2>1 DEF BeginObserving, BeginDeciding, BeginActing
<1>4. CASE EndTransition
  <2>1. fin.state \in RunState
    BY <1>4 DEF EndTransition, FrameOK, Result
  <2>2. QED BY <1>2, <1>4, <2>1 DEF EndTransition
<1>5. CASE Observe
  <2>1. obs[seen + 1] \in Observation
    BY <1>5 DEF Observe, TypeOK
  <2>2. Ev("observation", sm, obs[seen + 1]) \in Event
    BY <2>1, EventTyped DEF TypeOK
  <2>3. Ev("observation", sm, obs[seen + 1]).type = "observation"
    BY DEF Ev
  <2>4. QED BY <1>1, <1>5, <2>2, <2>3 DEF Observe
<1>6. CASE MakeDecision
  <2> DEFINE d == Decide(obs, step, runner.maxSteps, is_cancelled, runner.allowed,
                         runner.registered)
  <2>1. d \in DecisionRecord
    BY <1>6, DecideTyped DEF MakeDecision, is_cancelled, TypeOK, FrameOK
  <2>2. Ev("decision", sm, d) \in Event
    BY <2>1, EventTyped DEF TypeOK
  <2>3. Ev("decision", sm, d).type = "decision"
    BY DEF Ev
  <2>4. Append1(Ev("decision", sm, d))
    BY <1>6 DEF MakeDecision
  <2> HIDE DEF d
  <2>5. QED BY <1>1, <1>6, <2>2, <2>3, <2>4 DEF MakeDecision
<1>7. CASE Request
  <2>1. Ev("action_requested", sm, dec) \in Event
    BY <1>7, EventTyped DEF Request, TypeOK, FrameOK
  <2>2. Ev("action_requested", sm, dec).type = "action_requested"
    BY DEF Ev
  <2>3. QED BY <1>1, <1>7, <2>1, <2>2 DEF Request, frame
<1>8. QED BY <1>3, <1>4, <1>5, <1>6, <1>7 DEF Trace

\* An append changes one log only, at its end.
LEMMA RunAppend ==
  ASSUME TypeOK, NEW r \in RunIds, NEW e \in Event,
         log' = [log EXCEPT ![r] = Append(@, e)]
  PROVE  /\ log[r] \in Seq(Event)
         /\ log'[r] = Append(log[r], e)
         /\ \A q \in RunIds : q # r => log'[q] = log[q]
  BY DEF TypeOK

\* Nobody has been told anything about an unfinished run.
LEMMA UnfinishedUntold ==
  ASSUME TypeOK, OneOutcome, NEW r \in RunIds, ~Finished(r)
  PROVE  returned[r] = {} /\ recorded_outcome(log[r]) = None
<1>1. log[r] \in Seq(Event) /\ returned[r] \subseteq Result
  BY DEF TypeOK
<1>2. recorded_outcome(log[r]) = None
  BY <1>1, OutcomeTyped DEF Finished
<1>3. QED BY <1>1, <1>2, NoneIsNoRecord DEF OneOutcome

\* Appending a nonterminal event to an unfinished run leaves it unfinished.
LEMMA NonTerminalAppend ==
  ASSUME TypeOK, EndIsLast, OneOutcome,
         NEW r \in RunIds, ~Finished(r),
         NEW e \in Event, e.type \notin TerminalEventTypes,
         log' = [log EXCEPT ![r] = Append(@, e)],
         returned' = returned
  PROVE  EndIsLast' /\ OneOutcome' /\ ~Finished(r)'
<1>1. /\ log[r] \in Seq(Event)
      /\ log'[r] = Append(log[r], e)
      /\ \A q \in RunIds : q # r => log'[q] = log[q]
  BY RunAppend
<1>2. Positions(log'[r], TerminalEventTypes) = {}
  BY <1>1, PositionsAppend DEF Finished
<1>3. EndIsLast'
  BY <1>1, <1>2 DEF EndIsLast
<1>4. OneOutcome'
  BY <1>1, UnfinishedUntold DEF OneOutcome
<1>5. QED BY <1>2, <1>3, <1>4 DEF Finished

\* The terminal event and the returned result agree with recorded_outcome.
LEMMA EndStep ==
  ASSUME TypeOK, FrameOK, LifecycleOK, EndIsLast, WorksOnUnfinished, OneOutcome, EndEvent
  PROVE  /\ EndIsLast' /\ OneOutcome' /\ ~Finished(run)
         /\ recorded_outcome(log'[run]) = fin
         /\ \A q \in RunIds : q # run => log'[q] = log[q]
<1> DEFINE e == Ev(TerminalEventOf(fin.state), fin.state,
                   [answer |-> fin.answer, steps |-> fin.steps])
<1>1. /\ run \in RunIds /\ fin \in Result /\ sm = fin.state /\ ~Finished(run)
  BY DEF EndEvent, FrameOK, LifecycleOK, WorksOnUnfinished, Running
<1>2. e \in Event
  BY <1>1, EndEventTyped
<1>3. /\ log' = [log EXCEPT ![run] = Append(@, e)]
      /\ returned' = [returned EXCEPT ![run] = @ \cup {fin}]
  BY <1>1 DEF EndEvent, Append1
<1>4. fin.state \in TerminalStates
  BY <1>1 DEF Result
<1>5. e.type \in TerminalEventTypes /\ TerminalStateOf(e.type) = fin.state
  BY <1>4 DEF Ev, TerminalEventOf, TerminalStateOf, TerminalEventTypes, TerminalStates
<1>6. e.data = [answer |-> fin.answer, steps |-> fin.steps]
  BY DEF Ev
<1> HIDE DEF e
<1>7. /\ log[run] \in Seq(Event)
      /\ log'[run] = Append(log[run], e)
      /\ \A q \in RunIds : q # run => log'[q] = log[q]
  BY <1>1, <1>2, <1>3, RunAppend
<1>8. /\ Positions(log'[run], TerminalEventTypes) = {Len(log[run]) + 1}
      /\ log'[run][Len(log[run]) + 1] = e
      /\ Len(log'[run]) = Len(log[run]) + 1
  BY <1>1, <1>2, <1>5, <1>7, PositionsAppend DEF Finished
<1>9. Max(Positions(log'[run], TerminalEventTypes)) = Len(log[run]) + 1
  <2>1. Len(log[run]) + 1 \in Nat
    BY <1>7
  <2>2. QED BY <1>8, <2>1 DEF Max
<1>10. recorded_outcome(log'[run]) = fin
  <2>1. recorded_outcome(log'[run]) =
          [state |-> fin.state, answer |-> fin.answer, steps |-> fin.steps]
    BY <1>5, <1>6, <1>8, <1>9 DEF recorded_outcome
  <2>2. fin = [state |-> fin.state, answer |-> fin.answer, steps |-> fin.steps]
    BY <1>1 DEF Result
  <2>3. QED BY <2>1, <2>2
<1>11. EndIsLast'
  <2>1. ASSUME NEW q \in RunIds, NEW p \in Positions(log'[q], TerminalEventTypes)
        PROVE  p = Len(log'[q])
    <3>1. CASE q = run
      BY <1>8, <2>1, <3>1
    <3>2. CASE q # run
      BY <1>7, <2>1, <3>2 DEF EndIsLast
    <3>3. QED BY <3>1, <3>2
  <2>2. QED BY <2>1 DEF EndIsLast
<1>12. OneOutcome'
  <2>1. returned[run] = {}
    BY <1>1, UnfinishedUntold
  <2>2. ASSUME NEW q \in RunIds, NEW x \in returned'[q]
        PROVE  x = recorded_outcome(log'[q])
    <3>1. CASE q = run
      BY <1>3, <1>10, <2>1, <2>2, <3>1 DEF TypeOK
    <3>2. CASE q # run
      BY <1>3, <1>7, <2>2, <3>2 DEF TypeOK, OneOutcome
    <3>3. QED BY <3>1, <3>2
  <2>3. QED BY <2>2 DEF OneOutcome
<1>13. QED BY <1>1, <1>7, <1>10, <1>11, <1>12

\* The events of the remaining appending steps.
LEMMA ResultFrame ==
  ASSUME TypeOK, FrameOK, Handoff \/ LogResult
  PROVE  /\ pc \in Running /\ pc # "checkpoint" /\ pc' = "checkpoint"
         /\ returned' = returned /\ run' = run /\ step' = step
         /\ \E x \in Observation : /\ Ev("action_result", sm, x) \in Event
                                   /\ Append1(Ev("action_result", sm, x))
                                   /\ obs' = Append(obs, x)
<1> USE DEF Running
<1>1. CASE Handoff
  <2>1. HandoffObservation(dec.target) \in Observation
    BY <1>1 DEF Handoff, HandoffObservation, Observation, TypeOK
  <2>2. Ev("action_result", sm, HandoffObservation(dec.target)) \in Event
    BY <2>1, EventTyped DEF TypeOK
  <2>3. QED BY <1>1, <2>1, <2>2 DEF Handoff
<1>2. CASE LogResult
  <2>1. got \in Observation
    BY <1>2 DEF LogResult, FrameOK
  <2>2. Ev("action_result", sm, got) \in Event
    BY <2>1, EventTyped DEF TypeOK
  <2>3. QED BY <1>2, <2>1, <2>2 DEF LogResult
<1>3. QED BY <1>1, <1>2

\* The frame and the event of save_checkpoint.
LEMMA CheckpointFrame ==
  ASSUME TypeOK, FrameOK, SaveCheckpoint
  PROVE  /\ pc = "checkpoint" /\ pc' = "loop"
         /\ returned' = returned /\ run' = run /\ step' = step + 1 /\ obs' = obs
         /\ CheckpointData \in Checkpoint
         /\ Ev("checkpoint", sm, CheckpointData) \in Event
         /\ Append1(Ev("checkpoint", sm, CheckpointData))
<1>1. CheckpointData \in Checkpoint
  BY DEF SaveCheckpoint, CheckpointData, Checkpoint, TypeOK, FrameOK, Running
<1>2. QED BY <1>1, EventTyped DEF SaveCheckpoint, TypeOK

\* The inductive step for the endings: whatever a step appends to, it is an
\* unfinished run.
LEMMA EndingStep ==
  ASSUME FreshRunIds, TypeOK, FrameOK, LifecycleOK, EndIsLast, WorksOnUnfinished, OneOutcome, [Next]_vars
  PROVE  /\ EndIsLast' /\ WorksOnUnfinished' /\ OneOutcome'
         /\ \A r \in RunIds : Finished(r) => log'[r] = log[r]
<1> DEFINE Goal == /\ EndIsLast' /\ WorksOnUnfinished' /\ OneOutcome'
                   /\ \A r \in RunIds : Finished(r) => log'[r] = log[r]
<1>0. pc \in Running => run \in RunIds /\ ~Finished(run)
  BY DEF FrameOK, WorksOnUnfinished
<1>1. ASSUME NEW r \in RunIds, ~Finished(r), NEW e \in Event,
             e.type \notin TerminalEventTypes,
             log' = [log EXCEPT ![r] = Append(@, e)],
             returned' = returned, run' = r
      PROVE  Goal
  <2>1. EndIsLast' /\ OneOutcome' /\ ~Finished(r)'
    BY <1>1, NonTerminalAppend
  <2>2. WorksOnUnfinished'
    BY <1>1, <2>1 DEF WorksOnUnfinished, Finished
  <2>3. \A q \in RunIds : Finished(q) => log'[q] = log[q]
    BY <1>1, RunAppend
  <2>4. QED BY <2>1, <2>2, <2>3
<1>2. CASE Silent
  BY <1>2, <1>0, SilentFrame DEF EndIsLast, WorksOnUnfinished, OneOutcome, Finished
<1>3. CASE Trace
  <2>1. PICK e \in Event : e.type \notin TerminalEventTypes /\ Append1(e)
    BY <1>3, TraceFrame
  <2>2. run' = run /\ returned' = returned /\ pc \in Running
    BY <1>3, TraceFrame
  <2>3. QED BY <1>0, <1>1, <2>1, <2>2 DEF Append1
<1>4. CASE Handoff \/ LogResult
  <2>1. PICK x \in Observation : /\ Ev("action_result", sm, x) \in Event
                                /\ Append1(Ev("action_result", sm, x))
    BY <1>4, ResultFrame
  <2>2. run' = run /\ returned' = returned /\ pc \in Running
    BY <1>4, ResultFrame
  <2>3. Ev("action_result", sm, x).type \notin TerminalEventTypes
    BY DEF Ev, TerminalEventTypes
  <2>4. QED BY <1>0, <1>1, <2>1, <2>2, <2>3 DEF Append1
<1>5. CASE SaveCheckpoint
  <2>1. Ev("checkpoint", sm, CheckpointData).type \notin TerminalEventTypes
    BY DEF Ev, TerminalEventTypes
  <2>2. QED BY <1>0, <1>1, <1>5, <2>1, CheckpointFrame DEF Append1, Running
<1>6. CASE EndEvent
  <2>1. /\ EndIsLast' /\ OneOutcome' /\ ~Finished(run)
        /\ \A q \in RunIds : q # run => log'[q] = log[q]
    BY <1>6, EndStep
  <2>2. pc' = "idle"
    BY <1>6 DEF EndEvent
  <2>3. QED BY <2>1, <2>2 DEF WorksOnUnfinished, Running
<1>7. ASSUME NEW r \in RunIds, Run(r) PROVE Goal
  <2>1. ~Finished(r)
    BY <1>7 DEF Run, Finished, Positions
  <2>2. Ev("run_created", "created", None) \in Event
    BY EventTyped, StatesTyped
  <2>3. Ev("run_created", "created", None).type \notin TerminalEventTypes
    BY DEF Ev, TerminalEventTypes
  <2>4. QED BY <1>1, <1>7, <2>1, <2>2, <2>3 DEF Run
<1>8. ASSUME NEW r \in RunIds, ResumeFinished(r) PROVE Goal
  BY <1>8 DEF ResumeFinished, frame, EndIsLast, WorksOnUnfinished, OneOutcome, Finished, TypeOK
<1>9. ASSUME NEW r \in RunIds, Resume(r) PROVE Goal
  <2>1. log[r] \in Seq(Event) /\ recorded_outcome(log[r]) = None
    BY <1>9 DEF Resume, Interrupted, TypeOK
  <2>2. ~Finished(r)
    BY <2>1, OutcomeTyped, NoneIsNoRecord DEF Finished
  <2>3. QED
    BY <1>9, <2>2 DEF Resume, EndIsLast, WorksOnUnfinished, OneOutcome, Finished
<1>10. QED BY <1>2, <1>3, <1>4, <1>5, <1>6, <1>7, <1>8, <1>9, StepKinds

\* What the finality theorems rest on.
EndingInv ==
  TypeOK /\ FrameOK /\ LifecycleOK /\ EndIsLast /\ WorksOnUnfinished /\ OneOutcome

\* The part of the inductive invariant about endings is one by itself.
LEMMA EndingInvariant ==
  ASSUME FreshRunIds
  PROVE  Spec => []EndingInv
<1>1. Init => EndingInv
  BY InitIInv DEF IInv, EndingInv
<1>2. EndingInv /\ [Next]_vars => EndingInv'
  BY TypeStep, LifecycleStep, EndingStep DEF EndingInv
<1>3. QED BY <1>1, <1>2, PTL DEF Spec

\* A finished run is final: once a run has a terminal event its log never
\* changes again, for any number of crashes, restarts and resumes.
THEOREM FinishedRunsFinal ==
  ASSUME FreshRunIds
  PROVE  Spec => FinishedRunIsFinal
<1>1. EndingInv /\ [Next]_vars => [\A r \in RunIds : Finished(r) => log'[r] = log[r]]_vars
  BY EndingStep DEF EndingInv
<1>2. QED BY <1>1, EndingInvariant, PTL DEF Spec, FinishedRunIsFinal

\* A run has one outcome, and it is the only result anybody is given.
THEOREM OneOutcomeHolds ==
  ASSUME FreshRunIds
  PROVE  Spec => []OneOutcome
<1>1. EndingInv => OneOutcome
  BY DEF EndingInv
<1>2. QED BY <1>1, EndingInvariant, PTL

-----------------------------------------------------------------------------
(* Checkpoints and resuming *)

\* Only a checkpoint event changes what a resume starts from.
LEMMA CheckpointAppend ==
  ASSUME NEW l \in Seq(Event), NEW e \in Event
  PROVE  /\ e.type # "checkpoint" =>
              /\ load_latest_checkpoint(Append(l, e)) = load_latest_checkpoint(l)
              /\ Progress(Append(l, e)) = Progress(l)
              /\ Known(Append(l, e)) = Known(l)
         /\ e.type = "checkpoint" =>
              /\ load_latest_checkpoint(Append(l, e)) = e.data
              /\ Progress(Append(l, e)) = e.data.step
<1> DEFINE P == Positions(l, {"checkpoint"})
           Q == Positions(Append(l, e), {"checkpoint"})
<1>1. /\ P \subseteq 1..Len(l)
      /\ \A i \in 1..Len(l) : Append(l, e)[i] = l[i]
      /\ Append(l, e)[Len(l) + 1] = e
  BY PositionsAppend
<1>2. CASE e.type # "checkpoint"
  <2>1. Q = P
    BY <1>2, PositionsAppend
  <2>2. P # {} => Append(l, e)[Max(P)] = l[Max(P)]
    BY <1>1, MaxExists
  <2>3. QED
    BY <1>2, <2>1, <2>2 DEF load_latest_checkpoint, Progress, Known
<1>3. CASE e.type = "checkpoint"
  <2>1. Q = P \cup {Len(l) + 1}
    BY <1>3, PositionsAppend
  <2>2. Q \subseteq 1..(Len(l) + 1) /\ Q # {} /\ Len(l) + 1 \in Nat
    BY <1>1, <2>1
  <2>3. Max(Q) \in Q /\ \A i \in Q : i <= Max(Q)
    BY <2>2, MaxExists
  <2>4. Max(Q) = Len(l) + 1
    BY <2>1, <2>2, <2>3
  <2>5. QED BY <1>1, <1>3, <2>2, <2>4 DEF load_latest_checkpoint, Progress
<1>4. QED BY <1>2, <1>3

\* Progress and Known in terms of load_latest_checkpoint.
LEMMA ProgressIs ==
  ASSUME NEW l \in Seq(Event)
  PROVE  LET c == load_latest_checkpoint(l)
         IN  IF c = None THEN Progress(l) = 0 /\ Known(l) = <<GoalObservation>>
             ELSE Progress(l) = c.step /\ Known(l) = c.obs
<1> DEFINE P == Positions(l, {"checkpoint"})
<1>1. CASE P = {}
  BY <1>1 DEF load_latest_checkpoint, Progress, Known
<1>2. CASE P # {}
  <2>1. P \subseteq 1..Len(l)
    BY DEF Positions
  <2>2. Max(P) \in P
    BY <1>2, <2>1, MaxExists
  <2>3. l[Max(P)] \in Event /\ l[Max(P)].type = "checkpoint"
    BY <2>1, <2>2 DEF Positions
  <2>4. l[Max(P)].data \in Checkpoint
    BY <2>3 DEF Event, TerminalEventTypes
  <2>5. QED BY <1>2, <2>4, NoneIsNoRecord DEF load_latest_checkpoint, Progress, Known
<1>3. QED BY <1>1, <1>2

\* A call stays in step with the log it writes.
LEMMA InStep ==
  ASSUME FreshRunIds, TypeOK, FrameOK, LifecycleOK, InStepWithLog, [Next]_vars
  PROVE  InStepWithLog'
<1>0. pc \in Running => run \in RunIds
  BY DEF FrameOK
<1>1. CASE Silent
  BY <1>1, SilentFrame DEF InStepWithLog
<1>2. CASE Trace
  <2>1. PICK e \in Event : e.type # "checkpoint" /\ Append1(e)
    BY <1>2, TraceFrame
  <2>2. /\ pc \in Running /\ pc # "checkpoint" /\ pc' # "checkpoint"
        /\ run' = run /\ step' = step /\ obs' = obs
    BY <1>2, TraceFrame
  <2>3. log[run] \in Seq(Event) /\ log'[run] = Append(log[run], e)
    BY <1>0, <2>1, <2>2, RunAppend DEF Append1
  <2>4. QED BY <2>1, <2>2, <2>3, CheckpointAppend DEF InStepWithLog
<1>3. CASE Handoff \/ LogResult
  <2>1. PICK x \in Observation : /\ Ev("action_result", sm, x) \in Event
                                /\ Append1(Ev("action_result", sm, x))
                                /\ obs' = Append(obs, x)
    BY <1>3, ResultFrame
  <2>2. /\ pc \in Running /\ pc # "checkpoint" /\ pc' = "checkpoint"
        /\ run' = run /\ step' = step
    BY <1>3, ResultFrame
  <2> DEFINE e == Ev("action_result", sm, x)
  <2>3. e.type = "action_result" /\ e.data = x
    BY DEF Ev
  <2>4. e \in Event /\ Append1(e)
    BY <2>1
  <2> HIDE DEF e
  <2>5. log[run] \in Seq(Event) /\ log'[run] = Append(log[run], e)
    BY <1>0, <2>2, <2>4, RunAppend DEF Append1
  <2>6. /\ Progress(log'[run]) = Progress(log[run])
        /\ Known(log'[run]) = Known(log[run])
    BY <2>3, <2>4, <2>5, CheckpointAppend
  <2>7. /\ log'[run] # <<>>
        /\ log'[run][Len(log'[run])] = e
    BY <2>4, <2>5, AppendProperties
  <2>8. QED BY <2>1, <2>2, <2>3, <2>6, <2>7 DEF InStepWithLog
<1>4. CASE SaveCheckpoint
  <2> DEFINE e == Ev("checkpoint", sm, CheckpointData)
  <2>1. /\ pc = "checkpoint" /\ pc' = "loop"
        /\ run' = run /\ step' = step + 1 /\ obs' = obs
        /\ CheckpointData \in Checkpoint /\ e \in Event /\ Append1(e)
    BY <1>4, CheckpointFrame
  <2>2. e.type = "checkpoint" /\ e.data = CheckpointData
    BY DEF Ev
  <2> HIDE DEF e
  <2>3. log[run] \in Seq(Event) /\ log'[run] = Append(log[run], e)
    BY <1>0, <2>1, RunAppend DEF Append1, Running
  <2>4. load_latest_checkpoint(log'[run]) = CheckpointData
    BY <2>1, <2>2, <2>3, CheckpointAppend
  <2>5. log'[run] \in Seq(Event)
    BY <2>1, <2>3, AppendProperties
  <2>6. Progress(log'[run]) = CheckpointData.step /\ Known(log'[run]) = CheckpointData.obs
    BY <2>1, <2>4, <2>5, ProgressIs, NoneIsNoRecord
  <2>7. CheckpointData.step = step + 1 /\ CheckpointData.obs = obs
    BY DEF CheckpointData
  <2>8. QED BY <2>1, <2>6, <2>7 DEF InStepWithLog
<1>5. CASE EndEvent
  BY <1>5 DEF EndEvent, InStepWithLog, Running
<1>6. ASSUME NEW r \in RunIds, Run(r) PROVE InStepWithLog'
  <2> DEFINE e == Ev("run_created", "created", None)
  <2>1. e \in Event
    BY EventTyped, StatesTyped
  <2>2. e.type # "checkpoint"
    BY DEF Ev
  <2> HIDE DEF e
  <2>3. log[r] = <<>> /\ log' = [log EXCEPT ![r] = Append(@, e)]
    BY <1>6 DEF Run, e
  <2>4. log[r] \in Seq(Event) /\ log'[r] = Append(log[r], e)
    BY <2>1, <2>3, RunAppend
  <2>5. load_latest_checkpoint(log[r]) = None
    BY <2>3 DEF load_latest_checkpoint, Positions
  <2>6. Progress(log[r]) = 0 /\ Known(log[r]) = <<GoalObservation>>
    BY <2>4, <2>5, ProgressIs
  <2>7. Progress(log'[r]) = 0 /\ Known(log'[r]) = <<GoalObservation>>
    BY <2>1, <2>2, <2>4, <2>6, CheckpointAppend
  <2>8. QED BY <1>6, <2>7 DEF Run, InStepWithLog
<1>7. ASSUME NEW r \in RunIds, ResumeFinished(r) PROVE InStepWithLog'
  BY <1>7 DEF ResumeFinished, frame, InStepWithLog, Running
<1>8. ASSUME NEW r \in RunIds, Resume(r) PROVE InStepWithLog'
  <2>1. log[r] \in Seq(Event) /\ load_latest_checkpoint(log[r]) # None
    BY <1>8 DEF Resume, TypeOK
  <2>2. /\ Progress(log[r]) = load_latest_checkpoint(log[r]).step
        /\ Known(log[r]) = load_latest_checkpoint(log[r]).obs
    BY <2>1, ProgressIs
  <2>3. QED BY <1>8, <2>2 DEF Resume, InStepWithLog
<1>9. QED BY <1>1, <1>2, <1>3, <1>4, <1>5, <1>6, <1>7, <1>8, StepKinds

\* The part of CheckpointChain about one log.
ChainOf(l) ==
  \A p \in Positions(l, {"checkpoint"}) :
    LET c == l[p].data
        before == load_latest_checkpoint(SubSeq(l, 1, p - 1))
    IN  /\ p > 1
        /\ c.step = IF before = None THEN 1 ELSE before.step + 1
        /\ c.obs = Append(IF before = None THEN <<GoalObservation>> ELSE before.obs,
                          l[p - 1].data)
        /\ l[p - 1].type = "action_result"

\* Prefixes are not changed by an append.
LEMMA PrefixAppend ==
  ASSUME NEW l \in Seq(Event), NEW e \in Event
  PROVE  /\ \A p \in 1..Len(l) : SubSeq(Append(l, e), 1, p - 1) = SubSeq(l, 1, p - 1)
         /\ SubSeq(Append(l, e), 1, Len(l)) = l
<1>1. ASSUME NEW n \in 0..Len(l)
      PROVE  SubSeq(Append(l, e), 1, n) = SubSeq(l, 1, n)
  BY AppendProperties
<1>2. SubSeq(l, 1, Len(l)) = l
  BY SubSeqFull
<1>3. QED BY <1>1, <1>2

\* A log with the chain property keeps it under any append that is not a
\* checkpoint, and under a checkpoint that continues it.
LEMMA ChainAppend ==
  ASSUME NEW l \in Seq(Event), NEW e \in Event, ChainOf(l),
         e.type = "checkpoint" =>
           /\ l # <<>>
           /\ l[Len(l)].type = "action_result"
           /\ e.data.step = Progress(l) + 1
           /\ e.data.obs = Append(Known(l), l[Len(l)].data)
  PROVE  ChainOf(Append(l, e))
<1> DEFINE m == Append(l, e)
<1>1. /\ \A i \in 1..Len(l) : m[i] = l[i]
      /\ m[Len(l) + 1] = e
      /\ Positions(l, {"checkpoint"}) \subseteq 1..Len(l)
  BY PositionsAppend
<1>2. ASSUME NEW p \in Positions(l, {"checkpoint"})
      PROVE  /\ p > 1 /\ p \in 1..Len(l)
             /\ m[p] = l[p] /\ m[p - 1] = l[p - 1]
             /\ SubSeq(m, 1, p - 1) = SubSeq(l, 1, p - 1)
  <2>1. p > 1 /\ p \in 1..Len(l)
    BY <1>1 DEF ChainOf
  <2>2. p - 1 \in 1..Len(l)
    BY <2>1
  <2>3. QED BY <1>1, <2>1, <2>2, PrefixAppend
<1>3. CASE e.type # "checkpoint"
  <2>1. Positions(m, {"checkpoint"}) = Positions(l, {"checkpoint"})
    BY <1>3, PositionsAppend
  <2> HIDE DEF m
  <2>2. ASSUME NEW p \in Positions(m, {"checkpoint"})
        PROVE  LET c == m[p].data
                   before == load_latest_checkpoint(SubSeq(m, 1, p - 1))
               IN  /\ p > 1
                   /\ c.step = IF before = None THEN 1 ELSE before.step + 1
                   /\ c.obs = Append(IF before = None THEN <<GoalObservation>>
                                     ELSE before.obs, m[p - 1].data)
                   /\ m[p - 1].type = "action_result"
    <3>1. p \in Positions(l, {"checkpoint"})
      BY <2>1
    <3>2. QED BY <1>2, <3>1 DEF ChainOf
  <2>3. QED BY <2>2 DEF ChainOf, m
<1>4. CASE e.type = "checkpoint"
  <2>1. Positions(m, {"checkpoint"}) = Positions(l, {"checkpoint"}) \cup {Len(l) + 1}
    BY <1>4, PositionsAppend
  <2>2. Len(l) \in 1..Len(l) /\ m[Len(l)] = l[Len(l)]
    BY <1>1, <1>4
  <2>3. SubSeq(m, 1, Len(l)) = l
    BY PrefixAppend
  <2>4. /\ e.data.step = IF load_latest_checkpoint(l) = None THEN 1
                         ELSE load_latest_checkpoint(l).step + 1
        /\ e.data.obs = Append(IF load_latest_checkpoint(l) = None THEN <<GoalObservation>>
                               ELSE load_latest_checkpoint(l).obs, l[Len(l)].data)
    BY <1>4, ProgressIs
  <2> HIDE DEF m
  <2>5. ASSUME NEW p \in Positions(m, {"checkpoint"})
        PROVE  LET c == m[p].data
                   before == load_latest_checkpoint(SubSeq(m, 1, p - 1))
               IN  /\ p > 1
                   /\ c.step = IF before = None THEN 1 ELSE before.step + 1
                   /\ c.obs = Append(IF before = None THEN <<GoalObservation>>
                                     ELSE before.obs, m[p - 1].data)
                   /\ m[p - 1].type = "action_result"
    <3>1. CASE p \in Positions(l, {"checkpoint"})
      BY <1>2, <3>1 DEF ChainOf
    <3>2. CASE p = Len(l) + 1
      <4>1. p > 1 /\ p - 1 = Len(l)
        BY <2>2, <3>2
      <4>2. /\ m[p].data = e.data /\ m[p - 1] = l[Len(l)]
            /\ SubSeq(m, 1, p - 1) = l
        BY <1>1, <2>2, <2>3, <3>2, <4>1
      <4>3. QED BY <1>4, <2>4, <4>1, <4>2
    <3>3. QED BY <2>1, <2>5, <3>1, <3>2
  <2>6. QED BY <2>5 DEF ChainOf, m
<1>5. QED BY <1>3, <1>4

\* The inductive step of CheckpointChain.
LEMMA ChainStep ==
  ASSUME TypeOK, FrameOK, LifecycleOK, InStepWithLog, CheckpointChain, [Next]_vars
  PROVE  CheckpointChain'
<1>0. pc \in Running => run \in RunIds
  BY DEF FrameOK
<1>1. \A r \in RunIds : log[r] \in Seq(Event) /\ ChainOf(log[r])
  BY DEF CheckpointChain, ChainOf, TypeOK
<1>2. SUFFICES \A r \in RunIds : ChainOf(log'[r])
  BY <1>2 DEF CheckpointChain, ChainOf
<1>3. ASSUME NEW r \in RunIds, NEW e \in Event, e.type # "checkpoint",
             log' = [log EXCEPT ![r] = Append(@, e)]
      PROVE  \A q \in RunIds : ChainOf(log'[q])
  <2>1. ChainOf(Append(log[r], e))
    BY <1>1, <1>3, ChainAppend
  <2>2. QED BY <1>1, <1>3, <2>1, RunAppend
<1>4. CASE Silent
  BY <1>1, <1>4, SilentFrame
<1>5. CASE Trace
  <2>1. PICK e \in Event : e.type # "checkpoint" /\ Append1(e)
    BY <1>5, TraceFrame
  <2>2. run \in RunIds
    BY <1>0, <1>5, TraceFrame
  <2>3. QED BY <1>3, <2>1, <2>2 DEF Append1
<1>6. CASE Handoff \/ LogResult
  <2>1. PICK x \in Observation : /\ Ev("action_result", sm, x) \in Event
                                /\ Append1(Ev("action_result", sm, x))
    BY <1>6, ResultFrame
  <2>2. run \in RunIds
    BY <1>0, <1>6, ResultFrame
  <2>3. Ev("action_result", sm, x).type # "checkpoint"
    BY DEF Ev
  <2>4. QED BY <1>3, <2>1, <2>2, <2>3 DEF Append1
<1>7. CASE SaveCheckpoint
  <2> DEFINE e == Ev("checkpoint", sm, CheckpointData)
  <2>1. /\ pc = "checkpoint" /\ e \in Event /\ Append1(e)
    BY <1>7, CheckpointFrame
  <2>2. e.type = "checkpoint" /\ e.data.step = step + 1 /\ e.data.obs = obs
    BY DEF Ev, CheckpointData
  <2> HIDE DEF e
  <2>3. run \in RunIds /\ log' = [log EXCEPT ![run] = Append(@, e)]
    BY <1>0, <2>1 DEF Append1, Running
  <2>4. /\ log[run] # <<>>
        /\ log[run][Len(log[run])].type = "action_result"
        /\ step = Progress(log[run])
        /\ obs = Append(Known(log[run]), log[run][Len(log[run])].data)
    BY <2>1 DEF InStepWithLog, Running
  <2>5. ChainOf(Append(log[run], e))
    BY <1>1, <2>1, <2>2, <2>3, <2>4, ChainAppend
  <2>6. QED BY <1>1, <2>1, <2>3, <2>5, RunAppend
<1>8. CASE EndEvent
  <2> DEFINE e == Ev(TerminalEventOf(fin.state), fin.state,
                     [answer |-> fin.answer, steps |-> fin.steps])
  <2>1. run \in RunIds /\ fin \in Result /\ sm = fin.state
    BY <1>8 DEF EndEvent, FrameOK, LifecycleOK, Running
  <2>2. e \in Event
    BY <2>1, EndEventTyped
  <2>3. e.type # "checkpoint"
    BY <2>1 DEF Ev, Result, TerminalStates, TerminalEventOf
  <2>4. log' = [log EXCEPT ![run] = Append(@, e)]
    BY <1>8, <2>1 DEF EndEvent, Append1
  <2>5. QED BY <1>3, <2>1, <2>2, <2>3, <2>4
<1>9. ASSUME NEW r \in RunIds, Run(r) PROVE \A q \in RunIds : ChainOf(log'[q])
  <2>1. Ev("run_created", "created", None) \in Event
    BY EventTyped, StatesTyped
  <2>2. Ev("run_created", "created", None).type # "checkpoint"
    BY DEF Ev
  <2>3. QED BY <1>3, <1>9, <2>1, <2>2 DEF Run
<1>10. ASSUME NEW r \in RunIds, ResumeFinished(r) \/ Resume(r)
       PROVE  \A q \in RunIds : ChainOf(log'[q])
  BY <1>1, <1>10 DEF ResumeFinished, Resume
<1>11. QED BY <1>4, <1>5, <1>6, <1>7, <1>8, <1>9, <1>10, StepKinds

\* The whole inductive invariant.
LEMMA IInvHolds ==
  ASSUME FreshRunIds
  PROVE  Spec => []IInv
<1>1. IInv /\ [Next]_vars => IInv'
  BY TypeStep, LifecycleStep, EndingStep, InStep DEF IInv
<1>2. QED BY <1>1, InitIInv, PTL DEF Spec

\* Every checkpoint continues the one before it by exactly one step and the
\* one action result logged for it, however often the step was attempted.
THEOREM CheckpointChainHolds ==
  ASSUME FreshRunIds
  PROVE  Spec => []CheckpointChain
<1>1. Init => CheckpointChain
  BY DEF Init, CheckpointChain, Positions
<1>2. IInv /\ CheckpointChain /\ [Next]_vars => CheckpointChain'
  BY ChainStep DEF IInv
<1>3. QED BY <1>1, <1>2, IInvHolds, PTL DEF Spec

\* Only executing a tool has an effect, and it is an effect of the step at
\* hand.
LEMMA EffectsOf ==
  ASSUME TypeOK, [Next]_vars, effects' # effects
  PROVE  /\ pc = "execute"
         /\ effects' = Append(effects, [run |-> run, step |-> step, tool |-> dec.target])
<1>1. CASE ActRaises
  BY <1>1 DEF ActRaises, RecordEffect
<1>2. CASE \E ok \in BOOLEAN : ExecuteTool(ok)
  BY <1>2 DEF ExecuteTool, RecordEffect
<1>3. ~ActRaises /\ ~(\E ok \in BOOLEAN : ExecuteTool(ok)) => effects' = effects
  BY DEF Next, CallStep, vars, NewRunner, Exit, Crash, Escape, Run, ResumeFinished, Resume,
         LoopCancelled, LoopExhausted, BeginObserving, Observe, BeginDeciding, MakeDecision,
         BeginActing, Handoff, Request, CompleteLlm, LogResult, SaveCheckpoint,
         EndTransition, EndEvent, CreateCancelFile, RemoveCancelFile
<1>4. QED BY <1>1, <1>2, <1>3

\* A resume never repeats the tool calls of a step that was checkpointed: a
\* tool is executed only at the first step the log has no checkpoint of.
THEOREM NoRepeat ==
  ASSUME FreshRunIds
  PROVE  Spec => NoRepeatOfCheckpointedWork
<1>1. ASSUME IInv, [Next]_vars, effects' # effects
      PROVE  effects'[Len(effects')].step = Progress(log[effects'[Len(effects')].run])
  <2> DEFINE e == [run |-> run, step |-> step, tool |-> dec.target]
  <2>1. pc = "execute" /\ effects' = Append(effects, e)
    BY <1>1, EffectsOf DEF IInv
  <2>2. effects \in Seq([run : RunIds, step : Nat, tool : Tools])
    BY <1>1 DEF IInv, TypeOK
  <2>3. effects'[Len(effects')] = e
    BY <2>1, <2>2
  <2>4. step = Progress(log[run])
    BY <1>1, <2>1 DEF IInv, InStepWithLog, Running
  <2>5. QED BY <2>3, <2>4
<1>2. IInv /\ [Next]_vars =>
        [effects' # effects =>
           effects'[Len(effects')].step = Progress(log[effects'[Len(effects')].run])]_vars
  BY <1>1
<1>3. QED BY <1>2, IInvHolds, PTL DEF Spec, NoRepeatOfCheckpointedWork

-----------------------------------------------------------------------------
(* The runner implements DurableRun *)

\* Only a terminal event changes the outcome a log records.
LEMMA OutcomeAppend ==
  ASSUME NEW l \in Seq(Event), NEW e \in Event, e.type \notin TerminalEventTypes
  PROVE  recorded_outcome(Append(l, e)) = recorded_outcome(l)
<1> DEFINE P == Positions(l, TerminalEventTypes)
<1>1. Positions(Append(l, e), TerminalEventTypes) = P
  BY PositionsAppend
<1>2. P \subseteq 1..Len(l) /\ \A i \in 1..Len(l) : Append(l, e)[i] = l[i]
  BY PositionsAppend
<1>3. P # {} => Append(l, e)[Max(P)] = l[Max(P)]
  BY <1>2, MaxExists
<1>4. QED BY <1>1, <1>3 DEF recorded_outcome

\* An append that is neither a checkpoint nor an ending is not seen by
\* DurableRun, whoever makes it.
LEMMA InvisibleAppend ==
  ASSUME TypeOK, NEW r \in RunIds, NEW e \in Event,
         e.type # "checkpoint", e.type \notin TerminalEventTypes,
         log' = [log EXCEPT ![r] = Append(@, e)], returned' = returned
  PROVE  UNCHANGED Durable!vars
<1>1. /\ log[r] \in Seq(Event)
      /\ log'[r] = Append(log[r], e)
      /\ \A q \in RunIds : q # r => log'[q] = log[q]
  BY RunAppend
<1>2. /\ recorded_outcome(log'[r]) = recorded_outcome(log[r])
      /\ Progress(log'[r]) = Progress(log[r])
  BY <1>1, OutcomeAppend, CheckpointAppend
<1>3. \A q \in RunIds : /\ recorded_outcome(log'[q]) = recorded_outcome(log[q])
                        /\ Progress(log'[q]) = Progress(log[q])
  BY <1>1, <1>2
<1>4. QED BY <1>3 DEF Durable!vars

\* A checkpoint is one Advance of its run.
LEMMA CheckpointAdvances ==
  ASSUME IInv, SaveCheckpoint
  PROVE  run \in RunIds /\ Durable!Advance(run)
<1> DEFINE e == Ev("checkpoint", sm, CheckpointData)
<1>1. /\ pc = "checkpoint" /\ returned' = returned /\ e \in Event /\ Append1(e)
  BY CheckpointFrame DEF IInv
<1>2. e.type = "checkpoint" /\ e.data.step = step + 1 /\ e.type \notin TerminalEventTypes
  BY DEF Ev, CheckpointData, TerminalEventTypes
<1> HIDE DEF e
<1>3. run \in RunIds /\ ~Finished(run) /\ step = Progress(log[run])
  BY <1>1 DEF IInv, FrameOK, WorksOnUnfinished, InStepWithLog, Running
<1>4. /\ log[run] \in Seq(Event)
      /\ log'[run] = Append(log[run], e)
      /\ \A q \in RunIds : q # run => log'[q] = log[q]
  BY <1>1, <1>3, RunAppend DEF Append1, IInv
<1>5. /\ recorded_outcome(log[run]) = None
      /\ recorded_outcome(log'[run]) = recorded_outcome(log[run])
  <2>1. recorded_outcome(log[run]) = None
    BY <1>3 DEF Finished, recorded_outcome
  <2>2. QED BY <1>1, <1>2, <1>4, <2>1, OutcomeAppend
<1>6. Progress(log'[run]) = Progress(log[run]) + 1
  BY <1>1, <1>2, <1>3, <1>4, CheckpointAppend
<1>7. \A q \in RunIds : /\ recorded_outcome(log'[q]) = recorded_outcome(log[q])
                        /\ q # run => Progress(log'[q]) = Progress(log[q])
  BY <1>4, <1>5
<1>8. QED BY <1>1, <1>3, <1>5, <1>6, <1>7 DEF Durable!Advance

\* The terminal event is the Conclude of its run.
LEMMA EndConcludes ==
  ASSUME IInv, EndEvent
  PROVE  run \in RunIds /\ Durable!Conclude(run)
<1> DEFINE e == Ev(TerminalEventOf(fin.state), fin.state,
                   [answer |-> fin.answer, steps |-> fin.steps])
<1>1. /\ run \in RunIds /\ fin \in Result /\ sm = fin.state
      /\ ~Finished(run) /\ recorded_outcome(log'[run]) = fin
      /\ \A q \in RunIds : q # run => log'[q] = log[q]
  BY EndStep DEF IInv, EndEvent, FrameOK, LifecycleOK, Running
<1>2. returned' = [returned EXCEPT ![run] = @ \cup {fin}]
  BY DEF EndEvent
<1>3. e \in Event /\ log' = [log EXCEPT ![run] = Append(@, e)]
  BY <1>1, EndEventTyped DEF EndEvent, Append1
<1>4. e.type # "checkpoint"
  BY <1>1 DEF Ev, Result, TerminalStates, TerminalEventOf
<1> HIDE DEF e
<1>5. Progress(log'[run]) = Progress(log[run])
  <2>1. log[run] \in Seq(Event) /\ log'[run] = Append(log[run], e)
    BY <1>1, <1>3, RunAppend DEF IInv
  <2>2. QED BY <1>3, <1>4, <2>1, CheckpointAppend
<1>6. recorded_outcome(log[run]) = None
  BY <1>1 DEF Finished, recorded_outcome
<1>7. \A q \in RunIds : /\ Progress(log'[q]) = Progress(log[q])
                        /\ q # run => recorded_outcome(log'[q]) = recorded_outcome(log[q])
  BY <1>1, <1>5
<1>8. QED BY <1>1, <1>2, <1>6, <1>7 DEF Durable!Conclude

\* Every step of the runner is a step of DurableRun or leaves it unchanged.
LEMMA DurableStep ==
  ASSUME FreshRunIds, IInv, [Next]_vars
  PROVE  [Durable!Next]_(Durable!vars)
<1>0. TypeOK /\ FrameOK /\ LifecycleOK /\ (pc \in Running => run \in RunIds)
  BY DEF IInv, FrameOK
<1>1. CASE Silent
  BY <1>0, <1>1, SilentFrame DEF Durable!vars
<1>2. CASE Trace
  <2>1. PICK e \in Event : /\ e.type # "checkpoint" /\ e.type \notin TerminalEventTypes
                           /\ Append1(e)
    BY <1>0, <1>2, TraceFrame
  <2>2. run \in RunIds /\ returned' = returned
    BY <1>0, <1>2, TraceFrame
  <2>3. QED BY <1>0, <2>1, <2>2, InvisibleAppend DEF Append1
<1>3. CASE Handoff \/ LogResult
  <2>1. PICK x \in Observation : /\ Ev("action_result", sm, x) \in Event
                                /\ Append1(Ev("action_result", sm, x))
    BY <1>0, <1>3, ResultFrame
  <2>2. run \in RunIds /\ returned' = returned
    BY <1>0, <1>3, ResultFrame
  <2>3. /\ Ev("action_result", sm, x).type # "checkpoint"
        /\ Ev("action_result", sm, x).type \notin TerminalEventTypes
    BY DEF Ev, TerminalEventTypes
  <2>4. QED BY <1>0, <2>1, <2>2, <2>3, InvisibleAppend DEF Append1
<1>4. CASE SaveCheckpoint
  BY <1>4, CheckpointAdvances DEF Durable!Next
<1>5. CASE EndEvent
  BY <1>5, EndConcludes DEF Durable!Next
<1>6. ASSUME NEW r \in RunIds, Run(r) PROVE UNCHANGED Durable!vars
  <2>1. Ev("run_created", "created", None) \in Event
    BY EventTyped, StatesTyped
  <2>2. /\ Ev("run_created", "created", None).type # "checkpoint"
        /\ Ev("run_created", "created", None).type \notin TerminalEventTypes
    BY DEF Ev, TerminalEventTypes
  <2>3. QED BY <1>0, <1>6, <2>1, <2>2, InvisibleAppend DEF Run
<1>7. ASSUME NEW r \in RunIds, ResumeFinished(r) PROVE Durable!Report(r)
  BY <1>7 DEF ResumeFinished, Durable!Report
<1>8. ASSUME NEW r \in RunIds, Resume(r) PROVE UNCHANGED Durable!vars
  BY <1>8 DEF Resume, Durable!vars
<1>9. QED
  BY <1>0, <1>1, <1>2, <1>3, <1>4, <1>5, <1>6, <1>7, <1>8, StepKinds DEF Durable!Next

\* The runner implements the abstract durable run: seen through
\* recorded_outcome and the latest checkpoint, every step of every call,
\* crash, restart and resume is an advance, an ending, a report of the one
\* recorded outcome, or invisible.
THEOREM RunnerImplementsDurableRun ==
  ASSUME FreshRunIds
  PROVE  Spec => ImplementsDurableRun
<1>1. Init => Durable!Init
  BY DEF Init, Durable!Init, recorded_outcome, Progress, Positions
<1>2. IInv /\ [Next]_vars => [Durable!Next]_(Durable!vars)
  BY DurableStep
<1>3. QED BY <1>1, <1>2, IInvHolds, PTL DEF Spec, ImplementsDurableRun, Durable!Spec
-----------------------------------------------------------------------------
(* Cancellation *)

\* Where an iteration that was not cancelled at its top has not acted yet.
BeforeAction == {"observe", "decide", "act", "handoff", "request", "execute"}

\* A pending action was counted since the file appeared, and an iteration
\* that has not acted began without the file.
LateOK ==
  /\ lateActs <= 1
  /\ ~cancelFile => lateActs = 0
  /\ pc \in BeforeAction => lateActs = 0

\* The inductive step of LateOK: only an action at "handoff" or "execute"
\* counts, and what leads there passed the check of the loop.
LEMMA LateStep == TypeOK /\ LateOK /\ [Next]_vars => LateOK'
<1> SUFFICES ASSUME TypeOK, LateOK, [Next]_vars PROVE LateOK'
  OBVIOUS
<1> USE DEF LateOK, BeforeAction
<1>0. lateActs \in Nat
  BY DEF TypeOK
<1>1. CASE \/ \E c \in Configs : NewRunner(c)
           \/ Exit \/ Crash \/ Escape
           \/ \E r \in RunIds : Run(r) \/ ResumeFinished(r) \/ Resume(r)
  BY <1>1 DEF NewRunner, Exit, Crash, Escape, Run, ResumeFinished, Resume
<1>2. CASE LoopCancelled \/ LoopExhausted \/ BeginObserving
  <2>1. /\ pc' = "finish" \/ (pc' = "observe" /\ ~cancelFile)
        /\ UNCHANGED <<cancelFile, lateActs>>
    BY <1>2, Zenon DEF LoopCancelled, LoopExhausted, BeginObserving, is_cancelled
  <2> QED BY <2>1
<1>3. CASE Observe \/ BeginDeciding \/ MakeDecision \/ BeginActing \/ Request
  <2>1. pc \in BeforeAction /\ UNCHANGED <<cancelFile, lateActs>>
    BY <1>3, Zenon DEF Observe, BeginDeciding, MakeDecision, BeginActing, Request
  <2> QED BY <2>1
<1>4. CASE Handoff \/ ActRaises \/ (\E o \in Outputs : CompleteLlm(o))
             \/ (\E ok \in BOOLEAN : ExecuteTool(ok))
  <2>1. /\ pc \in {"handoff", "execute"} /\ pc' \in {"checkpoint", "finish", "result"}
        /\ CountLateAct /\ cancelFile' = cancelFile
    BY <1>4 DEF Handoff, ActRaises, CaughtException, CompleteLlm, ExecuteTool
  <2> QED BY <1>0, <2>1 DEF CountLateAct
<1>5. CASE LogResult \/ SaveCheckpoint \/ EndTransition \/ EndEvent
  BY <1>5 DEF LogResult, SaveCheckpoint, EndTransition, EndEvent
<1>6. CASE CreateCancelFile \/ RemoveCancelFile \/ UNCHANGED vars
  BY <1>0, <1>6 DEF CreateCancelFile, RemoveCancelFile, vars
<1> QED BY <1>1, <1>2, <1>3, <1>4, <1>5, <1>6 DEF Next, CallStep

\* From the moment the cancellation file is there at most the one action
\* already decided is carried out, however often the process is replaced.
THEOREM CancelledInTime == Spec => []CancelledBeforeNextAction
<1>1. Init => TypeOK /\ FrameOK /\ LifecycleOK /\ LateOK
  BY InitIInv DEF IInv, Init, LateOK, BeforeAction
<1>2. TypeOK /\ FrameOK /\ LifecycleOK /\ LateOK /\ [Next]_vars
        => (TypeOK /\ FrameOK /\ LifecycleOK /\ LateOK)'
  BY TypeStep, LifecycleStep, LateStep
<1>3. LateOK => CancelledBeforeNextAction
  BY DEF LateOK, CancelledBeforeNextAction
<1> QED BY <1>1, <1>2, <1>3, PTL DEF Spec
-----------------------------------------------------------------------------
(* The step budget *)

Exhausted == Reason("step budget exhausted")

\* The other endings give other answers.
LEMMA OtherAnswers ==
  /\ Reason("cancellation requested") # Exhausted
  /\ Reason("cancellation file exists") # Exhausted
  /\ Reason("unknown bot for handoff") # Exhausted
  /\ Reason("exception") # Exhausted
  /\ \A o \in Observation : o # Exhausted
<1>1. \A w : Reason(w).kind = w /\ Reason(w).source = "runner"
  BY DEF Reason
<1>2. \A o \in Observation : o.source \in {"user", "llm", "tool", "handoff"}
  BY DEF Observation
<1>3. Exhausted.kind = "step budget exhausted" /\ Exhausted.source = "runner"
  BY <1>1, Zenon DEF Exhausted
<1>4. \A o \in Observation : o.source # "runner"
  BY <1>2
<1> QED BY <1>1, <1>3, <1>4, Zenon

\* An iteration acts only while the budget has a step to spare.
LEMMA DecideInBudget ==
  ASSUME NEW o, NEW s \in Nat, NEW m \in Nat, NEW c, NEW allowed, NEW registered,
         Decide(o, s, m, c, allowed, registered).action \in {"call_llm", "call_tool", "handoff"}
  PROVE  s + 1 < m
<1>1. ~BudgetSpent(s, m)
  BY Zenon DEF Decide, Targeted, Finish
<1> QED BY <1>1 DEF BudgetSpent

LEMMA OtherEndings ==
  ASSUME NEW st, NEW n
  PROVE  /\ Ending(st, n, Reason("cancellation requested")).answer # Exhausted
         /\ Ending(st, n, Reason("cancellation file exists")).answer # Exhausted
         /\ Ending(st, n, Reason("unknown bot for handoff")).answer # Exhausted
         /\ Ending(st, n, Reason("exception")).answer # Exhausted
         /\ \A o \in Observation : Ending(st, n, o).answer # Exhausted
<1>1. \A a : Ending(st, n, a).answer = a
  BY DEF Ending
<1> QED BY <1>1, OtherAnswers, Zenon

Acting == {"act", "handoff", "request", "execute", "result", "checkpoint"}

\* While a step is under way, or was checkpointed by this call, the loop has
\* an iteration left; a call about to end for want of one began no step.
BudgetFrame ==
  /\ pc \in Acting => step + 1 < runner.maxSteps
  /\ pc = "loop" /\ sm = "acting" => step < runner.maxSteps
  /\ pc \in {"finish", "record"} /\ fin.answer = Exhausted => fin.steps <= step
  /\ pc = "finish" /\ fin.answer = Exhausted => sm = "created"
  /\ pc = "record" /\ fin.answer = Exhausted =>
       log[run] # <<>> /\ log[run][Len(log[run])].data = "created"

\* What MakeDecision leaves in the frame.
LEMMA DecisionFrame ==
  ASSUME TypeOK, FrameOK, MakeDecision
  PROVE  /\ pc' \in {"act", "finish"}
         /\ UNCHANGED <<step, runner>>
         /\ pc' = "act" => step + 1 < runner.maxSteps
         /\ pc' = "finish" => fin'.answer # Exhausted
<1> DEFINE d == Decide(obs, step, runner.maxSteps, is_cancelled, runner.allowed,
                       runner.registered)
<1>1. /\ UNCHANGED <<step, runner>>
      /\ \/ pc' = "act" /\ d.action \in {"call_llm", "call_tool", "handoff"}
         \/ pc' = "finish" /\ d.action = "finish" /\ fin' = Ending("succeeded", step + 1, d.answer)
         \/ pc' = "finish" /\ fin' = Ending("cancelled", step + 1,
                                            Reason("cancellation file exists"))
         \/ pc' = "finish" /\ fin' = Ending("failed", step + 1, Reason("unknown bot for handoff"))
  BY Zenon DEF MakeDecision
<1>2. d.action = "finish" => d.answer \in Observation
  BY DecideTyped DEF MakeDecision, is_cancelled, TypeOK, FrameOK, Running
<1>3. d.action \in {"call_llm", "call_tool", "handoff"} => step + 1 < runner.maxSteps
  BY DecideInBudget DEF TypeOK
<1> HIDE DEF d
<1>5. pc' = "finish" => fin'.answer # Exhausted
  <2> SUFFICES ASSUME pc' = "finish" PROVE fin'.answer # Exhausted
    OBVIOUS
  <2>1. CASE d.action = "finish" /\ fin' = Ending("succeeded", step + 1, d.answer)
    BY <1>2, <2>1, OtherEndings, Zenon
  <2>2. CASE fin' = Ending("cancelled", step + 1, Reason("cancellation file exists"))
    BY <2>2, OtherEndings, Zenon
  <2>3. CASE fin' = Ending("failed", step + 1, Reason("unknown bot for handoff"))
    BY <2>3, OtherEndings, Zenon
  <2> QED BY <1>1, <2>1, <2>2, <2>3, Zenon
<1>6. pc' = "act" => step + 1 < runner.maxSteps
  <2>1. pc' = "act" => d.action \in {"call_llm", "call_tool", "handoff"}
    BY <1>1, Zenon
  <2> QED BY <1>3, <2>1, Zenon
<1> QED BY <1>1, <1>5, <1>6, Zenon

\* The inductive step of BudgetFrame.
LEMMA BudgetStep ==
  ASSUME TypeOK, FrameOK, LifecycleOK, BudgetFrame, [Next]_vars
  PROVE  BudgetFrame'
<1> USE DEF Acting
<1>1. CASE \/ \E c \in Configs : NewRunner(c)
           \/ Exit \/ Crash \/ Escape \/ EndEvent
           \/ \E r \in RunIds : Run(r) \/ Resume(r)
  <2>1. pc' \in {"idle", "down"} \/ (pc' = "loop" /\ sm' = "created")
    BY <1>1 DEF NewRunner, Exit, Crash, Escape, EndEvent, Run, Resume
  <2> QED BY <2>1 DEF BudgetFrame
<1>2. CASE \/ \E r \in RunIds : ResumeFinished(r)
           \/ CreateCancelFile \/ RemoveCancelFile \/ UNCHANGED vars
  <2>1. UNCHANGED <<pc, step, runner, sm, fin, log, run>>
    BY <1>2 DEF ResumeFinished, CreateCancelFile, RemoveCancelFile, vars, frame
  <2> QED BY <2>1 DEF BudgetFrame
<1>3. CASE LoopCancelled \/ ActRaises
  <2>1. pc' = "finish" /\ fin'.answer # Exhausted
    <3>1. \/ fin' = Ending("cancelled", step, Reason("cancellation requested"))
          \/ fin' = Ending("failed", runner.maxSteps, Reason("exception"))
      BY <1>3, Zenon DEF LoopCancelled, ActRaises, CaughtException
    <3>2. fin'.answer # Exhausted
      BY <3>1, OtherEndings, Zenon
    <3>3. pc' = "finish"
      BY <1>3, Zenon DEF LoopCancelled, ActRaises, CaughtException
    <3> QED BY <3>2, <3>3
  <2> QED BY <2>1 DEF BudgetFrame
<1>4. CASE LoopExhausted
  <2>1. /\ pc = "loop" /\ RangeDone /\ pc' = "finish" /\ UNCHANGED <<step, sm>>
        /\ fin' = Ending("failed", runner.maxSteps, Exhausted)
    BY <1>4, Zenon DEF LoopExhausted, Exhausted
  <2>2. fin'.steps = runner.maxSteps /\ runner.maxSteps <= step
    BY <2>1 DEF Ending, RangeDone, TypeOK
  <2>3. sm = "created"
    BY <2>1, <2>2 DEF LifecycleOK, BudgetFrame, TypeOK
  <2> QED BY <2>1, <2>2, <2>3 DEF BudgetFrame
<1>5. CASE BeginObserving \/ Observe \/ BeginDeciding
  <2>1. pc' \in {"observe", "decide"}
    BY <1>5 DEF BeginObserving, Observe, BeginDeciding
  <2> QED BY <2>1 DEF BudgetFrame
<1>6. CASE MakeDecision
  BY <1>6, DecisionFrame DEF BudgetFrame
<1>7. CASE \/ BeginActing \/ Handoff \/ Request \/ LogResult
           \/ (\E o \in Outputs : CompleteLlm(o)) \/ (\E ok \in BOOLEAN : ExecuteTool(ok))
  <2>1. /\ pc \in Acting /\ pc' \in Acting /\ step' = step
        /\ runner'.maxSteps = runner.maxSteps
    BY <1>7 DEF BeginActing, Handoff, Request, LogResult, CompleteLlm, ExecuteTool, frame,
                SwitchedTo, TypeOK
  <2> QED BY <2>1 DEF BudgetFrame
<1>8. CASE SaveCheckpoint
  <2>1. pc = "checkpoint" /\ pc' = "loop" /\ step' = step + 1 /\ runner' = runner
    BY <1>8 DEF SaveCheckpoint
  <2> QED BY <2>1 DEF BudgetFrame
<1>9. CASE EndTransition
  <2> DEFINE e == Ev("state_transition", fin.state, sm)
  <2>1. /\ pc = "finish" /\ pc' = "record" /\ UNCHANGED <<step, fin, run>>
        /\ Append1(e)
    BY <1>9 DEF EndTransition, Transition
  <2>2. e.data = sm /\ e \in Event
    BY <2>1, EventTyped, StatesTyped DEF Ev, FrameOK, Result, TypeOK
  <2> HIDE DEF e
  <2>3. log[run] \in Seq(Event) /\ log'[run] = Append(log[run], e)
    BY <2>1, <2>2, RunAppend DEF Append1, FrameOK, Running
  <2>4. log'[run] # <<>> /\ log'[run][Len(log'[run])] = e
    BY <2>2, <2>3, AppendProperties
  <2> QED BY <2>1, <2>2, <2>4 DEF BudgetFrame
<1> QED
  BY <1>1, <1>2, <1>3, <1>4, <1>5, <1>6, <1>7, <1>8, <1>9, Zenon DEF Next, CallStep

\* Endings for want of steps, in the log.
BudgetEndings ==
  \A r \in RunIds : \A p \in Positions(log[r], {"run_failed"}) :
    log[r][p].data.answer = Exhausted =>
      /\ p > 1 /\ log[r][p - 1].data = "created"
      /\ log[r][p].data.steps <= Progress(log[r])

\* Only an ending adds an ending.
LEMMA BudgetEndingsAppend ==
  ASSUME TypeOK, BudgetEndings, NEW r \in RunIds, ~Finished(r),
         NEW e \in Event, e.type \notin TerminalEventTypes,
         log' = [log EXCEPT ![r] = Append(@, e)]
  PROVE  BudgetEndings'
<1>1. /\ log[r] \in Seq(Event)
      /\ log'[r] = Append(log[r], e)
      /\ \A q \in RunIds : q # r => log'[q] = log[q]
  BY RunAppend
<1>2. Positions(log'[r], TerminalEventTypes) = {}
  BY <1>1, PositionsAppend DEF Finished
<1>3. Positions(log'[r], {"run_failed"}) = {}
  BY <1>2 DEF Positions, TerminalEventTypes
<1> QED BY <1>1, <1>3 DEF BudgetEndings

\* The inductive step of BudgetEndings.
LEMMA BudgetEndingsStep ==
  ASSUME FreshRunIds, IInv, BudgetFrame, BudgetEndings, [Next]_vars
  PROVE  BudgetEndings'
<1>0. TypeOK /\ FrameOK /\ LifecycleOK /\ (pc \in Running => run \in RunIds /\ ~Finished(run))
  BY DEF IInv, FrameOK, WorksOnUnfinished
<1>1. CASE Silent \/ \E r \in RunIds : ResumeFinished(r) \/ Resume(r)
  <2>1. log' = log
    BY <1>1, SilentFrame DEF ResumeFinished, Resume
  <2> QED BY <2>1 DEF BudgetEndings
<1>2. CASE Trace
  <2>1. pc \in Running /\ \E e \in Event : e.type \notin TerminalEventTypes /\ Append1(e)
    BY <1>0, <1>2, TraceFrame
  <2> QED BY <1>0, <2>1, BudgetEndingsAppend DEF Append1
<1>3. CASE Handoff \/ LogResult
  <2>1. pc \in Running /\ \E x \in Observation : /\ Ev("action_result", sm, x) \in Event
                                                 /\ Append1(Ev("action_result", sm, x))
    BY <1>0, <1>3, ResultFrame
  <2>2. \A x : Ev("action_result", sm, x).type \notin TerminalEventTypes
    BY DEF Ev, TerminalEventTypes
  <2> QED BY <1>0, <2>1, <2>2, BudgetEndingsAppend DEF Append1
<1>4. CASE SaveCheckpoint
  <2>1. /\ pc = "checkpoint" /\ Ev("checkpoint", sm, CheckpointData) \in Event
        /\ Append1(Ev("checkpoint", sm, CheckpointData))
    BY <1>0, <1>4, CheckpointFrame DEF IInv
  <2>2. Ev("checkpoint", sm, CheckpointData).type \notin TerminalEventTypes
    BY DEF Ev, TerminalEventTypes
  <2> QED BY <1>0, <2>1, <2>2, BudgetEndingsAppend DEF Append1, Running
<1>5. ASSUME NEW r \in RunIds, Run(r) PROVE BudgetEndings'
  <2>1. log[r] = <<>> /\ log' = [log EXCEPT ![r] = Append(@, Ev("run_created", "created", None))]
    BY <1>5 DEF Run
  <2>2. /\ Ev("run_created", "created", None) \in Event
        /\ Ev("run_created", "created", None).type \notin TerminalEventTypes
    BY EventTyped, StatesTyped DEF Ev, TerminalEventTypes
  <2>3. ~Finished(r)
    BY <2>1 DEF Finished, Positions
  <2> QED BY <1>0, <2>1, <2>2, <2>3, BudgetEndingsAppend
<1>6. CASE EndEvent
  <2> DEFINE e == Ev(TerminalEventOf(fin.state), fin.state,
                     [answer |-> fin.answer, steps |-> fin.steps])
             n == Len(log[run])
  <2>1. pc = "record" /\ Append1(e) /\ fin \in Result
    <3>0. sm = fin.state
      BY <1>0, <1>6 DEF EndEvent, LifecycleOK
    <3>1. pc = "record" /\ Append1(e)
      BY <1>6, <3>0, Zenon DEF EndEvent
    <3> QED BY <1>0, <3>1 DEF FrameOK
  <2>2. e \in Event /\ e.type # "checkpoint" /\ e.data.answer = fin.answer /\ e.data.steps = fin.steps
    BY <2>1, EndEventTyped DEF Ev, TerminalEventOf, Result, TerminalStates
  <2>3. run \in RunIds /\ ~Finished(run) /\ step = Progress(log[run])
    BY <1>0, <2>1 DEF Running, IInv, InStepWithLog
  <2> HIDE DEF e
  <2>4. /\ log[run] \in Seq(Event)
        /\ log'[run] = Append(log[run], e)
        /\ \A q \in RunIds : q # run => log'[q] = log[q]
    BY <1>0, <2>1, <2>2, <2>3, RunAppend DEF Append1
  <2>5. Positions(log[run], {"run_failed"}) = {}
    BY <2>3 DEF Finished, Positions, TerminalEventTypes
  <2>6. /\ Positions(log'[run], {"run_failed"}) \subseteq {n + 1}
        /\ \A i \in 1..n : log'[run][i] = log[run][i]
        /\ log'[run][n + 1] = e
    BY <2>2, <2>4, <2>5, PositionsAppend
  <2>7. Progress(log'[run]) = step
    BY <2>2, <2>3, <2>4, CheckpointAppend
  <2>8. e.data.answer = Exhausted =>
          n \in Nat \ {0} /\ log[run][n].data = "created" /\ fin.steps <= step
    BY <2>1, <2>2, <2>4 DEF BudgetFrame
  <2>9. \A p \in Positions(log'[run], {"run_failed"}) :
          log'[run][p].data.answer = Exhausted =>
            /\ p > 1 /\ log'[run][p - 1].data = "created"
            /\ log'[run][p].data.steps <= Progress(log'[run])
    BY <2>2, <2>6, <2>7, <2>8
  <2> QED BY <2>4, <2>9 DEF BudgetEndings
<1> QED BY <1>1, <1>2, <1>3, <1>4, <1>5, <1>6, StepKinds

\* A run fails with "step budget exhausted" only in a call that could not
\* begin a step, because a process with a larger budget had come as far.
THEOREM ExhaustedByShrunkBudget ==
  ASSUME FreshRunIds
  PROVE  Spec => []ExhaustedOnlyByShrunkBudget
<1>1. Init => BudgetFrame /\ BudgetEndings
  BY DEF Init, BudgetFrame, Acting, BudgetEndings, Positions
<1>2. IInv /\ BudgetFrame /\ BudgetEndings /\ [Next]_vars => BudgetFrame' /\ BudgetEndings'
  BY BudgetStep, BudgetEndingsStep DEF IInv
<1>3. BudgetEndings => ExhaustedOnlyByShrunkBudget
  BY Zenon DEF BudgetEndings, ExhaustedOnlyByShrunkBudget, Exhausted
<1> QED BY <1>1, <1>2, <1>3, IInvHolds, PTL DEF Spec
-----------------------------------------------------------------------------
(* Repeated steps *)

\* The executions of tools at one step of one run.
Attempts(es, r, s) == {j \in 1..Len(es) : es[j].run = r /\ es[j].step = s}

\* The tool a run that knows o asks for next, if it asks for one.
NextTool(o) == o[Max(ModelOutputs(o))].arg

\* Where the call at run r may have executed the tool of its step.
Busy(r) == pc \in {"result", "checkpoint", "finish", "record"} /\ run = r

\* Effects are of steps the run has reached.
EffectsReached ==
  \A j \in 1..Len(effects) : effects[j].step <= Progress(log[effects[j].run])

\* At the step a run has reached, the tool is the one its checkpoint asks for.
EffectsAsked ==
  \A j \in 1..Len(effects) : effects[j].step = Progress(log[effects[j].run]) =>
    effects[j].tool = NextTool(Known(log[effects[j].run]))

EffectsAgree ==
  \A i, j \in 1..Len(effects) :
    effects[i].run = effects[j].run /\ effects[i].step = effects[j].step =>
      effects[i].tool = effects[j].tool

\* A step is executed again only after an interruption.
AttemptsPaid ==
  /\ \A r \in RunIds, s \in Nat : Cardinality(Attempts(effects, r, s)) <= failures + 1
  /\ \A r \in RunIds : ~Finished(r) =>
       Cardinality(Attempts(effects, r, Progress(log[r]))) <= failures + (IF Busy(r) THEN 1 ELSE 0)

\* A tool decided on is the tool the run asks for.
ToolAsked ==
  pc \in {"act", "request", "execute"} /\ dec.action = "call_tool" =>
    dec.target = NextTool(obs)

RepeatInv == EffectsReached /\ EffectsAsked /\ EffectsAgree /\ AttemptsPaid /\ ToolAsked

LEMMA EffectTyped ==
  ASSUME TypeOK
  PROVE  \A j \in 1..Len(effects) : effects[j].run \in RunIds /\ effects[j].step \in Nat
<1> DEFINE E == [run : RunIds, step : Nat, tool : Tools]
<1>1. effects \in Seq(E)
  BY DEF TypeOK
<1>2. \A e \in E : e.run \in RunIds /\ e.step \in Nat
  OBVIOUS
<1> HIDE DEF E
<1>3. \A j \in 1..Len(effects) : effects[j] \in E
  BY <1>1
<1> QED BY <1>2, <1>3

LEMMA AttemptsFinite ==
  ASSUME TypeOK, NEW r, NEW s
  PROVE  IsFiniteSet(Attempts(effects, r, s)) /\ Cardinality(Attempts(effects, r, s)) \in Nat
<1>1. IsFiniteSet(1..Len(effects))
  BY FS_Interval DEF TypeOK
<1>2. Attempts(effects, r, s) \subseteq 1..Len(effects)
  BY DEF Attempts
<1> QED BY <1>1, <1>2, FS_Subset, FS_CardinalityType

\* A tool is chosen by the latest model output alone.
LEMMA DecideTool ==
  ASSUME NEW o, NEW s, NEW m, NEW c, NEW allowed, NEW registered,
         Decide(o, s, m, c, allowed, registered).action = "call_tool"
  PROVE  Decide(o, s, m, c, allowed, registered).target = NextTool(o)
<1> DEFINE x == o[Max(ModelOutputs(o))]
<1>1. Decide(o, s, m, c, allowed, registered) = FromModelOutput(x, allowed, registered)
  BY Zenon DEF Decide, Targeted, Finish, CallLlm
<1>2. FromModelOutput(x, allowed, registered).action = "call_tool"
        => FromModelOutput(x, allowed, registered).target = x.arg
  <2> HIDE DEF x
  <2> QED BY DEF FromModelOutput, Targeted, Finish, CallLlm
<1> QED BY <1>1, <1>2, Zenon DEF NextTool

\* Only a checkpoint moves what a run has reached.
LEMMA LogMoves ==
  ASSUME FreshRunIds, IInv, [Next]_vars
  PROVE  \/ SaveCheckpoint
         \/ \A r \in RunIds :
              /\ Progress(log'[r]) = Progress(log[r])
              /\ Known(log'[r]) = Known(log[r])
              /\ load_latest_checkpoint(log'[r]) = load_latest_checkpoint(log[r])
<1> DEFINE Same == \A r \in RunIds :
              /\ Progress(log'[r]) = Progress(log[r])
              /\ Known(log'[r]) = Known(log[r])
              /\ load_latest_checkpoint(log'[r]) = load_latest_checkpoint(log[r])
<1>0. TypeOK /\ FrameOK /\ LifecycleOK /\ (pc \in Running => run \in RunIds)
  BY DEF IInv, FrameOK
<1>1. ASSUME NEW r \in RunIds, NEW e \in Event, e.type # "checkpoint",
             log' = [log EXCEPT ![r] = Append(@, e)]
      PROVE  Same
  <2>1. /\ log[r] \in Seq(Event)
        /\ log'[r] = Append(log[r], e)
        /\ \A q \in RunIds : q # r => log'[q] = log[q]
    BY <1>0, <1>1, RunAppend
  <2>2. /\ Progress(log'[r]) = Progress(log[r]) /\ Known(log'[r]) = Known(log[r])
        /\ load_latest_checkpoint(log'[r]) = load_latest_checkpoint(log[r])
    BY <1>1, <2>1, CheckpointAppend
  <2> QED BY <2>1, <2>2
<1>2. CASE Silent \/ \E r \in RunIds : ResumeFinished(r) \/ Resume(r)
  BY <1>2, SilentFrame DEF ResumeFinished, Resume
<1>3. CASE Trace
  <2>1. pc \in Running /\ \E e \in Event : e.type # "checkpoint" /\ Append1(e)
    BY <1>0, <1>3, TraceFrame
  <2> QED BY <1>0, <1>1, <2>1 DEF Append1
<1>4. CASE Handoff \/ LogResult
  <2>1. pc \in Running /\ \E x \in Observation : /\ Ev("action_result", sm, x) \in Event
                                                 /\ Append1(Ev("action_result", sm, x))
    BY <1>0, <1>4, ResultFrame
  <2>2. \A x : Ev("action_result", sm, x).type # "checkpoint"
    BY DEF Ev
  <2> QED BY <1>0, <1>1, <2>1, <2>2 DEF Append1
<1>5. CASE EndEvent
  <2> DEFINE e == Ev(TerminalEventOf(fin.state), fin.state,
                     [answer |-> fin.answer, steps |-> fin.steps])
  <2>1. pc = "record" /\ fin \in Result /\ sm = fin.state
    BY <1>0, <1>5 DEF EndEvent, FrameOK, LifecycleOK
  <2>2. Append1(e)
    BY <1>5, <2>1, Zenon DEF EndEvent
  <2>3. e \in Event /\ e.type # "checkpoint"
    BY <2>1, EndEventTyped DEF Ev, TerminalEventOf, Result, TerminalStates
  <2> HIDE DEF e
  <2> QED BY <1>0, <1>1, <2>1, <2>2, <2>3 DEF Append1, Running
<1>6. ASSUME NEW r \in RunIds, Run(r) PROVE Same
  <2>1. log' = [log EXCEPT ![r] = Append(@, Ev("run_created", "created", None))]
    BY <1>6 DEF Run
  <2>2. /\ Ev("run_created", "created", None) \in Event
        /\ Ev("run_created", "created", None).type # "checkpoint"
    BY EventTyped, StatesTyped DEF Ev
  <2> QED BY <1>1, <2>1, <2>2
<1> QED BY <1>2, <1>3, <1>4, <1>5, <1>6, StepKinds

\* Progress is a number of steps.
LEMMA ProgressNat ==
  ASSUME TypeOK, NEW r \in RunIds
  PROVE  Progress(log[r]) \in Nat
<1>1. log[r] \in Seq(Event)
  BY DEF TypeOK
<1> QED BY <1>1, ProgressIs, CheckpointTyped DEF Checkpoint
\* Whoever has executed the tool of a step goes on to the next step, ends the
\* run, or is interrupted.
LEMMA BusyEnds ==
  ASSUME FreshRunIds, IInv, [Next]_vars, NEW r \in RunIds, ~Finished(r)'
  PROVE  /\ ~Finished(r)
         /\ failures' \in {failures, failures + 1}
         /\ Busy(r) => Busy(r)' \/ SaveCheckpoint \/ failures' = failures + 1
<1>1. ~Finished(r)
  <2>1. Finished(r) => log'[r] = log[r]
    BY EndingStep DEF IInv
  <2> QED BY <2>1 DEF Finished
<1>2. CASE Crash \/ Escape
  BY <1>1, <1>2 DEF Crash, Escape
<1>3. CASE EndEvent
  <2>1. recorded_outcome(log'[run]) = fin /\ fin \in Result /\ run \in RunIds
    BY <1>3, EndStep DEF IInv, EndEvent, FrameOK, Running
  <2>2. log'[run] \in Seq(Event)
    BY <2>1, TypeStep DEF IInv, TypeOK
  <2>3. Positions(log'[run], TerminalEventTypes) # {}
    BY <2>1, <2>2, OutcomeTyped, NoneIsNoRecord
  <2>4. run # r
    BY <2>3 DEF Finished
  <2>5. failures' = failures
    BY <1>3 DEF EndEvent
  <2> QED BY <1>1, <2>4, <2>5 DEF Busy
<1>4. CASE SaveCheckpoint
  BY <1>1, <1>4 DEF SaveCheckpoint
<1>5. CASE \/ \E c \in Configs : NewRunner(c)
           \/ Exit
           \/ \E q \in RunIds : Run(q) \/ ResumeFinished(q) \/ Resume(q)
  BY <1>1, <1>5 DEF NewRunner, Exit, Run, ResumeFinished, Resume, Busy, frame
<1>6. CASE \/ LoopCancelled \/ LoopExhausted
           \/ BeginObserving \/ Observe \/ BeginDeciding \/ MakeDecision \/ BeginActing
           \/ Handoff \/ Request
           \/ (\E o \in Outputs : CompleteLlm(o))
           \/ (\E ok \in BOOLEAN : ExecuteTool(ok))
           \/ ActRaises
  <2>1. pc \notin {"result", "checkpoint", "finish", "record"} /\ failures' = failures
    <3>1. CASE LoopCancelled \/ LoopExhausted \/ MakeDecision \/ ActRaises
      <4>1. pc \in {"loop", "decide", "execute"} /\ failures' = failures
        BY <3>1, Zenon DEF LoopCancelled, LoopExhausted, MakeDecision, ActRaises
      <4> QED BY <4>1
    <3>2. CASE ~(LoopCancelled \/ LoopExhausted \/ MakeDecision \/ ActRaises)
      BY <1>6, <3>2 DEF BeginObserving, Observe, BeginDeciding, BeginActing, Handoff, Request,
                        CompleteLlm, ExecuteTool
    <3> QED BY <3>1, <3>2
  <2> QED BY <1>1, <2>1 DEF Busy
<1>7. CASE LogResult \/ EndTransition \/ CreateCancelFile \/ RemoveCancelFile \/ UNCHANGED vars
  BY <1>1, <1>7 DEF LogResult, EndTransition, CreateCancelFile, RemoveCancelFile, Busy, vars, frame
<1> QED BY <1>1, <1>2, <1>3, <1>4, <1>5, <1>6, <1>7, Zenon DEF Next, CallStep

\* The inductive step of ToolAsked.
LEMMA ToolAskedStep ==
  ASSUME IInv, ToolAsked, [Next]_vars PROVE ToolAsked'
<1>1. CASE MakeDecision
  <2> DEFINE d == Decide(obs, step, runner.maxSteps, is_cancelled, runner.allowed,
                         runner.registered)
  <2>1. dec' = d /\ obs' = obs
    BY <1>1, Zenon DEF MakeDecision
  <2>2. d.action = "call_tool" => d.target = NextTool(obs)
    BY DecideTool
  <2> HIDE DEF d
  <2> QED BY <2>1, <2>2, Zenon DEF ToolAsked, NextTool
<1>2. CASE BeginActing \/ Request \/ CreateCancelFile \/ RemoveCancelFile \/ UNCHANGED vars
           \/ \E r \in RunIds : ResumeFinished(r)
  BY <1>2 DEF BeginActing, Request, CreateCancelFile, RemoveCancelFile, vars, frame,
              ResumeFinished, ToolAsked, NextTool
<1>3. CASE \/ (\E c \in Configs : NewRunner(c))
           \/ Exit \/ Crash \/ Escape
           \/ (\E r \in RunIds : Run(r) \/ Resume(r))
           \/ BeginObserving \/ Observe \/ BeginDeciding \/ Handoff
           \/ (\E o \in Outputs : CompleteLlm(o))
           \/ (\E ok \in BOOLEAN : ExecuteTool(ok))
           \/ LogResult \/ SaveCheckpoint \/ EndTransition \/ EndEvent
  <2>1. pc' \notin {"act", "request", "execute"}
    BY <1>3 DEF NewRunner, Exit, Crash, Escape, Run, Resume, BeginObserving, Observe,
                BeginDeciding, Handoff, CompleteLlm, ExecuteTool, LogResult, SaveCheckpoint,
                EndTransition, EndEvent
  <2> QED BY <2>1 DEF ToolAsked
<1>4. CASE LoopCancelled \/ LoopExhausted \/ ActRaises
  <2>1. pc' = "finish"
    BY <1>4, Zenon DEF LoopCancelled, LoopExhausted, ActRaises, CaughtException
  <2> QED BY <2>1 DEF ToolAsked
<1> QED BY <1>1, <1>2, <1>3, <1>4, Zenon DEF Next, CallStep

\* Failures are counted one by one.
LEMMA FailuresGrow ==
  ASSUME [Next]_vars PROVE failures' \in {failures, failures + 1}
<1>1. CASE Crash \/ Escape
  BY <1>1 DEF Crash, Escape
<1>2. CASE ~(Crash \/ Escape)
  <2>1. failures' = failures
    BY <1>2, Zenon
       DEF Next, CallStep, NewRunner, Exit, Run, ResumeFinished, Resume, LoopCancelled,
           LoopExhausted, BeginObserving, Observe, BeginDeciding, MakeDecision, BeginActing,
           Handoff, Request, CompleteLlm, ExecuteTool, ActRaises, LogResult, SaveCheckpoint,
           EndTransition, EndEvent, CreateCancelFile, RemoveCancelFile, vars
  <2> QED BY <2>1
<1> QED BY <1>1, <1>2

\* A checkpoint moves its run one step on and no other run.
LEMMA CheckpointMoves ==
  ASSUME IInv, SaveCheckpoint
  PROVE  /\ run \in RunIds /\ step \in Nat
         /\ Progress(log[run]) = step /\ Progress(log'[run]) = step + 1
         /\ \A q \in RunIds : q # run => log'[q] = log[q]
<1> DEFINE e == Ev("checkpoint", sm, CheckpointData)
<1>1. /\ pc = "checkpoint" /\ e \in Event /\ Append1(e)
  BY CheckpointFrame DEF IInv
<1>2. e.type = "checkpoint" /\ e.data.step = step + 1
  BY DEF Ev, CheckpointData
<1> HIDE DEF e
<1>3. TypeOK /\ run \in RunIds /\ step \in Nat /\ step = Progress(log[run])
  BY <1>1 DEF IInv, TypeOK, FrameOK, InStepWithLog, Running
<1>4. /\ log[run] \in Seq(Event)
      /\ log'[run] = Append(log[run], e)
      /\ \A q \in RunIds : q # run => log'[q] = log[q]
  BY <1>1, <1>3, RunAppend DEF Append1
<1> QED BY <1>1, <1>2, <1>3, <1>4, CheckpointAppend

\* The step that executes a tool.
LEMMA EffectFrame ==
  ASSUME TypeOK, [Next]_vars, effects' # effects
  PROVE  /\ pc = "execute" /\ dec.action = "call_tool"
         /\ effects' = Append(effects, [run |-> run, step |-> step, tool |-> dec.target])
         /\ pc' \in {"result", "finish"} /\ run' = run /\ log' = log /\ failures' = failures
<1>1. pc = "execute"
  BY EffectsOf
<1>2. ActRaises \/ \E ok \in BOOLEAN : ExecuteTool(ok)
  <2>1. ~ActRaises /\ ~(\E ok \in BOOLEAN : ExecuteTool(ok)) => effects' = effects
    BY Zenon
       DEF Next, CallStep, vars, NewRunner, Exit, Crash, Escape, Run, ResumeFinished, Resume,
           LoopCancelled, LoopExhausted, BeginObserving, Observe, BeginDeciding, MakeDecision,
           BeginActing, Handoff, Request, CompleteLlm, LogResult, SaveCheckpoint,
           EndTransition, EndEvent, CreateCancelFile, RemoveCancelFile
  <2> QED BY <2>1
<1>3. CASE ActRaises
  BY <1>3 DEF ActRaises, RecordEffect, CaughtException
<1>4. CASE \E ok \in BOOLEAN : ExecuteTool(ok)
  BY <1>4 DEF ExecuteTool, RecordEffect
<1> QED BY <1>2, <1>3, <1>4

\* A step without an effect keeps what is known of the effects there are.
LEMMA NoEffectStep ==
  ASSUME FreshRunIds, IInv, RepeatInv, [Next]_vars, effects' = effects PROVE RepeatInv'
<1>0. TypeOK /\ Len(effects) \in Nat
  BY DEF IInv, TypeOK
<1>1. \A j \in 1..Len(effects) : effects[j].run \in RunIds /\ effects[j].step \in Nat
  BY <1>0, EffectTyped
<1>2. ToolAsked'
  BY ToolAskedStep DEF RepeatInv
<1>3. EffectsAgree'
  BY DEF RepeatInv, EffectsAgree
<1>5. failures \in Nat /\ failures' \in {failures, failures + 1}
  BY <1>0, FailuresGrow DEF TypeOK
<1>6. ASSUME NEW r \in RunIds, NEW s \in Nat
      PROVE  Cardinality(Attempts(effects', r, s)) <= failures' + 1
  <2>1. Cardinality(Attempts(effects, r, s)) <= failures + 1
    BY DEF RepeatInv, AttemptsPaid
  <2> QED BY <1>0, <1>5, <2>1, AttemptsFinite
<1>7. ASSUME NEW r \in RunIds, ~Finished(r)', SaveCheckpoint => r # run
      PROVE  Cardinality(Attempts(effects, r, Progress(log[r]))) <= failures' + (IF Busy(r)' THEN 1 ELSE 0)
  <2>1. /\ ~Finished(r)
        /\ Busy(r) => Busy(r)' \/ SaveCheckpoint \/ failures' = failures + 1
    BY <1>7, BusyEnds
  <2>2. Cardinality(Attempts(effects, r, Progress(log[r]))) <= failures + (IF Busy(r) THEN 1 ELSE 0)
    BY <2>1 DEF RepeatInv, AttemptsPaid
  <2>3. Cardinality(Attempts(effects, r, Progress(log[r]))) \in Nat
    BY <1>0, AttemptsFinite
  <2>4. SaveCheckpoint => ~Busy(r)
    BY <1>7 DEF Busy
  <2> QED BY <1>5, <2>1, <2>2, <2>3, <2>4
<1>8. CASE SaveCheckpoint
  <2>1. /\ run \in RunIds /\ step \in Nat
        /\ Progress(log[run]) = step /\ Progress(log'[run]) = step + 1
        /\ \A q \in RunIds : q # run => log'[q] = log[q]
    BY <1>8, CheckpointMoves
  <2>2. EffectsReached'
    BY <1>1, <2>1 DEF RepeatInv, EffectsReached
  <2>3. EffectsAsked'
    BY <1>1, <2>1 DEF RepeatInv, EffectsReached, EffectsAsked
  <2>4. Attempts(effects, run, step + 1) = {}
    BY <2>1 DEF RepeatInv, EffectsReached, Attempts
  <2>5. Cardinality(Attempts(effects, run, step + 1)) = 0
    BY <2>4, FS_EmptySet
  <2>6. \A r \in RunIds : ~Finished(r)' =>
          Cardinality(Attempts(effects', r, Progress(log'[r]))) <= failures' + (IF Busy(r)' THEN 1 ELSE 0)
    <3> TAKE r \in RunIds
    <3>1. CASE r = run
      BY <1>5, <2>1, <2>5, <3>1
    <3>2. CASE r # run
      BY <1>7, <2>1, <3>2
    <3> QED BY <3>1, <3>2
  <2>7. AttemptsPaid'
    BY <1>6, <2>6 DEF AttemptsPaid
  <2> QED BY <1>2, <1>3, <2>2, <2>3, <2>7 DEF RepeatInv
<1>9. CASE ~SaveCheckpoint
  <2>1. \A r \in RunIds : /\ Progress(log'[r]) = Progress(log[r])
                          /\ Known(log'[r]) = Known(log[r])
    BY <1>9, LogMoves
  <2>2. EffectsReached'
    BY <1>1, <2>1 DEF RepeatInv, EffectsReached
  <2>3. EffectsAsked'
    BY <1>1, <2>1 DEF RepeatInv, EffectsAsked, NextTool
  <2>4. \A r \in RunIds : ~Finished(r)' =>
          Cardinality(Attempts(effects', r, Progress(log'[r]))) <= failures' + (IF Busy(r)' THEN 1 ELSE 0)
    BY <1>7, <1>9, <2>1
  <2>5. AttemptsPaid'
    BY <1>6, <2>4 DEF AttemptsPaid
  <2> QED BY <1>2, <1>3, <2>2, <2>3, <2>5 DEF RepeatInv
<1> QED BY <1>8, <1>9

\* An effect is the tool its run asks for, at the step it has reached, and
\* the first since the last interruption.
LEMMA EffectStep ==
  ASSUME FreshRunIds, IInv, RepeatInv, [Next]_vars, effects' # effects PROVE RepeatInv'
<1> DEFINE e == [run |-> run, step |-> step, tool |-> dec.target]
           n == Len(effects)
<1>0. TypeOK /\ n \in Nat
  BY DEF IInv, TypeOK
<1>1. \A j \in 1..n : effects[j].run \in RunIds /\ effects[j].step \in Nat
  BY <1>0, EffectTyped
<1>2. /\ pc = "execute" /\ dec.action = "call_tool" /\ effects' = Append(effects, e)
      /\ pc' \in {"result", "finish"} /\ run' = run /\ log' = log /\ failures' = failures
  BY <1>0, EffectFrame
<1>3. run \in RunIds /\ ~Finished(run) /\ step = Progress(log[run]) /\ obs = Known(log[run])
  BY <1>2 DEF IInv, FrameOK, WorksOnUnfinished, InStepWithLog, Running
<1>4. dec.target = NextTool(Known(log[run]))
  BY <1>2, <1>3 DEF RepeatInv, ToolAsked
<1>5. /\ Len(effects') = n + 1 /\ effects'[n + 1] = e
      /\ \A j \in 1..n : effects'[j] = effects[j]
      /\ 1..(n + 1) = (1..n) \cup {n + 1}
  BY <1>0, <1>2 DEF TypeOK
<1>6. e.run = run /\ e.step = step /\ e.tool = NextTool(Known(log[run]))
  BY <1>4
<1> HIDE DEF e
<1>7. EffectsReached' /\ EffectsAsked'
  <2>1. EffectsReached /\ EffectsAsked
    BY DEF RepeatInv
  <2>2. step <= Progress(log[run])
    BY <1>0, <1>3 DEF TypeOK
  <2>3. EffectsReached'
    BY <1>2, <1>5, <1>6, <2>1, <2>2 DEF EffectsReached
  <2>4. EffectsAsked'
    BY <1>2, <1>5, <1>6, <2>1 DEF EffectsAsked, NextTool
  <2> QED BY <2>3, <2>4
<1>8. EffectsAgree'
  <2>1. \A j \in 1..n : effects[j].run = run /\ effects[j].step = step => effects[j].tool = e.tool
    BY <1>3, <1>6 DEF RepeatInv, EffectsAsked
  <2> QED BY <1>5, <1>6, <2>1 DEF RepeatInv, EffectsAgree
<1>9. ToolAsked'
  BY <1>2 DEF ToolAsked
<1>10. ASSUME NEW r, NEW s, r # run \/ s # step
       PROVE  Attempts(effects', r, s) = Attempts(effects, r, s)
  BY <1>5, <1>6, <1>10 DEF Attempts
<1>11. Attempts(effects', run, step) = Attempts(effects, run, step) \cup {n + 1}
  BY <1>5, <1>6 DEF Attempts
<1>12. Cardinality(Attempts(effects', run, step)) <= failures + 1
  <2>1. n + 1 \notin Attempts(effects, run, step)
    BY <1>0 DEF Attempts
  <2>2. Cardinality(Attempts(effects', run, step)) = Cardinality(Attempts(effects, run, step)) + 1
    BY <1>0, <1>11, <2>1, AttemptsFinite, FS_AddElement
  <2>3. ~Busy(run)
    BY <1>2 DEF Busy
  <2>4. Cardinality(Attempts(effects, run, step)) <= failures
    BY <1>0, <1>3, <2>3 DEF RepeatInv, AttemptsPaid, TypeOK
  <2> QED BY <1>0, <2>2, <2>4, AttemptsFinite DEF TypeOK
<1>13. AttemptsPaid'
  <2>1. ASSUME NEW r \in RunIds, NEW s \in Nat
        PROVE  Cardinality(Attempts(effects', r, s)) <= failures' + 1
    BY <1>2, <1>10, <1>12 DEF RepeatInv, AttemptsPaid
  <2>2. ASSUME NEW r \in RunIds, ~Finished(r)'
        PROVE  Cardinality(Attempts(effects', r, Progress(log'[r])))
                 <= failures' + (IF Busy(r)' THEN 1 ELSE 0)
    <3>1. CASE r = run
      <4>1. Busy(r)'
        BY <1>2, <3>1 DEF Busy
      <4> QED BY <1>2, <1>3, <1>12, <3>1, <4>1
    <3>2. CASE r # run
      <4>1. ~Finished(r) /\ ~Busy(r)
        BY <1>2, <2>2, <3>2 DEF Finished, Busy
      <4>2. Cardinality(Attempts(effects, r, Progress(log[r]))) <= failures
        BY <1>0, <4>1 DEF RepeatInv, AttemptsPaid, TypeOK
      <4>3. Cardinality(Attempts(effects, r, Progress(log[r]))) \in Nat
        BY <1>0, AttemptsFinite
      <4>4. failures \in Nat
        BY <1>0 DEF TypeOK
      <4> QED BY <1>2, <1>10, <3>2, <4>2, <4>3, <4>4
    <3> QED BY <3>1, <3>2
  <2> QED BY <2>1, <2>2 DEF AttemptsPaid
<1> QED BY <1>7, <1>8, <1>9, <1>13 DEF RepeatInv

\* A step that is repeated after an interruption executes the same tool, and
\* at most once more than there were interruptions.
THEOREM RepeatsSameTool ==
  ASSUME FreshRunIds
  PROVE  Spec => []RepeatedStepSameTool
<1>1. Init => RepeatInv
  <2> SUFFICES ASSUME Init PROVE RepeatInv
    OBVIOUS
  <2>1. effects = <<>> /\ failures = 0 /\ pc = "down"
    BY DEF Init
  <2>2. \A r, s : Attempts(effects, r, s) = {}
    BY <2>1 DEF Attempts
  <2>3. \A r, s : Cardinality(Attempts(effects, r, s)) = 0
    BY <2>2, FS_EmptySet
  <2>4. AttemptsPaid
    BY <2>1, <2>3 DEF AttemptsPaid, Busy
  <2> QED
    BY <2>1, <2>4 DEF RepeatInv, EffectsReached, EffectsAsked, EffectsAgree, ToolAsked
<1>2. IInv /\ RepeatInv /\ [Next]_vars => RepeatInv'
  BY NoEffectStep, EffectStep
<1>3. IInv /\ RepeatInv => RepeatedStepSameTool
  <2> SUFFICES ASSUME IInv, RepeatInv, NEW i \in 1..Len(effects)
               PROVE  LET same == {j \in 1..Len(effects) : /\ effects[j].run = effects[i].run
                                                           /\ effects[j].step = effects[i].step}
                      IN  /\ \A j \in same : effects[j].tool = effects[i].tool
                          /\ Cardinality(same) <= failures + 1
    BY DEF RepeatedStepSameTool
  <2>1. effects[i].run \in RunIds /\ effects[i].step \in Nat
    BY EffectTyped DEF IInv
  <2>2. Cardinality(Attempts(effects, effects[i].run, effects[i].step)) <= failures + 1
    BY <2>1 DEF RepeatInv, AttemptsPaid
  <2>3. \A j \in Attempts(effects, effects[i].run, effects[i].step) :
          effects[j].tool = effects[i].tool
    BY DEF Attempts, RepeatInv, EffectsAgree
  <2> QED BY <2>2, <2>3 DEF Attempts
<1> QED BY <1>1, <1>2, <1>3, IInvHolds, PTL DEF Spec

-----------------------------------------------------------------------------
(* Tools stay in the scope of the bot the run was handed to *)

\* The bot the observations of a call last handed off to.
HandedTo(o) ==
  LET hs == {i \in 1..Len(o) : o[i].source = "handoff"}
  IN  IF hs = {} THEN None ELSE o[Max(hs)].arg

\* A run that knows o asks for a handoff, and for nothing else before it.
AsksHandoff(o) ==
  /\ o[Len(o)].source \notin {"tool", "handoff"}
  /\ ModelOutputs(o) # {} /\ o[Max(ModelOutputs(o))].kind = "handoff"

\* The log names the bot of the latest checkpoint, or a later one whose
\* handoff will be repeated before anything else is done.
LogNamesBot ==
  \A r \in RunIds :
    LoggedBot(log[r]) = HandedTo(Known(log[r])) \/ AsksHandoff(Known(log[r]))

\* A checkpoint restores the bot its observations were handed to.
CheckpointNamesBot ==
  \A r \in RunIds :
    LET c == load_latest_checkpoint(log[r])
    IN  c # None /\ HandedTo(c.obs) # None => c.bot = HandedTo(c.obs)

\* The runner keeps the scope of its bot, and a call the bot of its run.
RunnerKeepsBot ==
  /\ runner.bot # None => runner.allowed = Scope[runner.bot]
  /\ pc \in Running /\ HandedTo(obs) # None => runner.bot = HandedTo(obs)
  /\ pc = "checkpoint" => LoggedBot(log[run]) = HandedTo(obs)

\* The decision at hand is a handoff exactly when the observations ask for it.
DecisionAsked ==
  /\ pc \in {"act", "handoff", "request", "execute", "result"} =>
       (dec.action = "handoff" <=> AsksHandoff(obs))
  /\ pc = "result" => dec.action # "handoff" /\ got.source # "handoff"

ScopeInv == LogNamesBot /\ CheckpointNamesBot /\ RunnerKeepsBot /\ DecisionAsked

LEMMA HandedAppend ==
  ASSUME NEW o \in Seq(Observation), NEW x \in Observation
  PROVE  HandedTo(Append(o, x)) = IF x.source = "handoff" THEN x.arg ELSE HandedTo(o)
<1> DEFINE q == Append(o, x)
           H == {i \in 1..Len(o) : o[i].source = "handoff"}
           K == {i \in 1..Len(q) : q[i].source = "handoff"}
<1>1. /\ Len(o) \in Nat /\ Len(q) = Len(o) + 1 /\ q[Len(o) + 1] = x
      /\ \A i \in 1..Len(o) : q[i] = o[i]
      /\ 1..(Len(o) + 1) = (1..Len(o)) \cup {Len(o) + 1}
  BY AppendProperties
<1> HIDE DEF q
<1>2. CASE x.source = "handoff"
  <2>1. K \subseteq 1..(Len(o) + 1) /\ Len(o) + 1 \in K /\ Len(o) + 1 \in Nat
    BY <1>1, <1>2
  <2> HIDE DEF K
  <2>2. Max(K) \in K /\ \A i \in K : i <= Max(K)
    BY <2>1, MaxExists
  <2>3. Max(K) = Len(o) + 1
    <3>1. Max(K) \in 1..(Len(o) + 1) /\ Len(o) + 1 <= Max(K)
      BY <2>1, <2>2, Zenon
    <3> QED BY <2>1, <3>1
  <2> QED BY <1>1, <1>2, <2>1, <2>3 DEF HandedTo, q, K
<1>3. CASE x.source # "handoff"
  <2>1. K = H
    BY <1>1, <1>3
  <2>2. H # {} => Max(H) \in 1..Len(o)
    BY <1>1, MaxExists
  <2> QED BY <1>1, <1>3, <2>1, <2>2 DEF HandedTo, q
<1> QED BY <1>2, <1>3

LEMMA LoggedAppend ==
  ASSUME NEW l \in Seq(Event), NEW e \in Event
  PROVE  LoggedBot(Append(l, e)) =
           IF e.type = "action_result" /\ e.data.source = "handoff" THEN e.data.arg ELSE LoggedBot(l)
<1> DEFINE q == Append(l, e)
           H == {i \in Positions(l, {"action_result"}) : l[i].data.source = "handoff"}
           K == {i \in Positions(q, {"action_result"}) : q[i].data.source = "handoff"}
<1>1. /\ e.type = "action_result" =>
           Positions(q, {"action_result"}) = Positions(l, {"action_result"}) \cup {Len(l) + 1}
      /\ e.type # "action_result" => Positions(q, {"action_result"}) = Positions(l, {"action_result"})
      /\ Positions(l, {"action_result"}) \subseteq 1..Len(l)
      /\ \A i \in 1..Len(l) : q[i] = l[i]
      /\ q[Len(l) + 1] = e
  BY PositionsAppend
<1>0. Len(l) \in Nat
  OBVIOUS
<1> HIDE DEF q
<1>2. CASE e.type = "action_result" /\ e.data.source = "handoff"
  <2>1. K \subseteq 1..(Len(l) + 1) /\ Len(l) + 1 \in K /\ Len(l) + 1 \in Nat
    BY <1>0, <1>1, <1>2
  <2> HIDE DEF K
  <2>2. Max(K) \in K /\ \A i \in K : i <= Max(K)
    BY <2>1, MaxExists
  <2>3. Max(K) = Len(l) + 1
    <3>1. Max(K) \in 1..(Len(l) + 1) /\ Len(l) + 1 <= Max(K)
      BY <2>1, <2>2, Zenon
    <3> QED BY <2>1, <3>1
  <2> QED BY <1>1, <1>2, <2>1, <2>3 DEF LoggedBot, q, K
<1>3. CASE ~(e.type = "action_result" /\ e.data.source = "handoff")
  <2>1. K = H
    BY <1>0, <1>1, <1>3
  <2>2. H # {} => Max(H) \in 1..Len(l)
    BY <1>0, <1>1, MaxExists
  <2> QED BY <1>1, <1>3, <2>1, <2>2 DEF LoggedBot, q
<1> QED BY <1>2, <1>3

\* The engine hands off exactly when the observations ask for it, unless it
\* ends the run.
LEMMA DecideHandoff ==
  ASSUME NEW o, NEW s, NEW m, NEW c, NEW allowed, NEW registered
  PROVE  LET d == Decide(o, s, m, c, allowed, registered)
         IN  /\ d.action = "handoff" => AsksHandoff(o)
             /\ d.action \in {"call_llm", "call_tool"} => ~AsksHandoff(o)
<1> DEFINE x == o[Max(ModelOutputs(o))]
           d == Decide(o, s, m, c, allowed, registered)
           f == FromModelOutput(x, allowed, registered)
<1>1. d.action = "handoff" =>
        d = f /\ o[Len(o)].source \notin {"tool", "handoff"} /\ ModelOutputs(o) # {}
  <2> HIDE DEF f
  <2> QED BY DEF Decide, Targeted, Finish, CallLlm, f
<1>2. AsksHandoff(o) => d = f \/ d.action \in {"cancel", "finish"}
  <2> HIDE DEF f
  <2> QED BY DEF AsksHandoff, Decide, Targeted, Finish, f
<1>3. /\ f.action = "handoff" => x.kind = "handoff"
      /\ x.kind = "handoff" => f.action \in {"handoff", "fail"}
  <2> HIDE DEF x
  <2> QED BY DEF FromModelOutput, Targeted, Finish, CallLlm
<1>4. d.action = "handoff" => AsksHandoff(o)
  <2> HIDE DEF d, f
  <2> QED BY <1>1, <1>3 DEF AsksHandoff
<1>5. d.action \in {"call_llm", "call_tool"} => ~AsksHandoff(o)
  <2> HIDE DEF d, f
  <2> QED BY <1>2, <1>3 DEF AsksHandoff
<1> QED BY <1>4, <1>5

\* A handoff is named by the log and by the observations.
LEMMA HandoffNames ==
  ASSUME IInv, DecisionAsked, Handoff
  PROVE  /\ run \in RunIds /\ run' = run /\ pc' = "checkpoint"
         /\ runner'.bot = dec.target /\ runner'.allowed = Scope[dec.target]
         /\ AsksHandoff(Known(log[run]))
         /\ LoggedBot(log'[run]) = dec.target /\ HandedTo(obs') = dec.target
         /\ \A q \in RunIds : q # run => log'[q] = log[q]
<1> DEFINE x == HandoffObservation(dec.target)
           e == Ev("action_result", sm, x)
<1>1. /\ pc = "handoff" /\ pc' = "checkpoint" /\ run' = run
      /\ dec.target \in runner.registered /\ runner' = SwitchedTo(dec.target)
      /\ Append1(e) /\ obs' = Append(obs, x)
  BY DEF Handoff
<1>2. TypeOK /\ run \in RunIds /\ obs = Known(log[run]) /\ AsksHandoff(obs)
  BY <1>1 DEF IInv, FrameOK, InStepWithLog, Running, DecisionAsked
<1>3. dec.target \in Bots /\ obs \in Seq(Observation)
  BY <1>1, <1>2 DEF TypeOK
<1>4. x \in Observation /\ x.source = "handoff" /\ x.arg = dec.target
  BY <1>3 DEF HandoffObservation, Observation
<1>5. e \in Event /\ e.type = "action_result" /\ e.data = x
  BY <1>2, <1>4, EventTyped DEF TypeOK, Ev
<1> HIDE DEF x, e
<1>6. /\ log[run] \in Seq(Event) /\ log'[run] = Append(log[run], e)
      /\ \A q \in RunIds : q # run => log'[q] = log[q]
  BY <1>1, <1>2, <1>5, RunAppend DEF Append1
<1>7. LoggedBot(log'[run]) = dec.target
  BY <1>4, <1>5, <1>6, LoggedAppend
<1>8. HandedTo(obs') = dec.target
  BY <1>1, <1>3, <1>4, HandedAppend
<1>9. runner'.bot = dec.target /\ runner'.allowed = Scope[dec.target]
  BY <1>1, <1>2 DEF SwitchedTo, TypeOK
<1> QED BY <1>1, <1>2, <1>6, <1>7, <1>8, <1>9

\* Any other result names no bot.
LEMMA ResultNames ==
  ASSUME IInv, DecisionAsked, LogResult
  PROVE  /\ run \in RunIds /\ run' = run /\ pc' = "checkpoint" /\ runner' = runner
         /\ pc \in Running /\ obs = Known(log[run]) /\ ~AsksHandoff(obs)
         /\ LoggedBot(log'[run]) = LoggedBot(log[run]) /\ HandedTo(obs') = HandedTo(obs)
         /\ \A q \in RunIds : q # run => log'[q] = log[q]
<1> DEFINE e == Ev("action_result", sm, got)
<1>1. /\ pc = "result" /\ pc' = "checkpoint" /\ run' = run /\ runner' = runner
      /\ Append1(e) /\ obs' = Append(obs, got)
  BY DEF LogResult
<1>2. /\ TypeOK /\ run \in RunIds /\ pc \in Running /\ obs = Known(log[run])
      /\ got \in Observation /\ got.source # "handoff" /\ ~AsksHandoff(obs)
  BY <1>1 DEF IInv, FrameOK, InStepWithLog, Running, DecisionAsked
<1>3. obs \in Seq(Observation)
  BY <1>2 DEF TypeOK
<1>4. e \in Event /\ e.type = "action_result" /\ e.data = got
  BY <1>2, EventTyped DEF TypeOK, Ev
<1> HIDE DEF e
<1>5. /\ log[run] \in Seq(Event) /\ log'[run] = Append(log[run], e)
      /\ \A q \in RunIds : q # run => log'[q] = log[q]
  BY <1>1, <1>2, <1>4, RunAppend DEF Append1
<1>6. LoggedBot(log'[run]) = LoggedBot(log[run])
  BY <1>2, <1>4, <1>5, LoggedAppend
<1>7. HandedTo(obs') = HandedTo(obs)
  BY <1>1, <1>2, <1>3, HandedAppend
<1> QED BY <1>1, <1>2, <1>5, <1>6, <1>7

\* Only a handoff changes the bot the log names.
LEMMA LoggedMoves ==
  ASSUME FreshRunIds, IInv, DecisionAsked, [Next]_vars
  PROVE  Handoff \/ \A r \in RunIds : LoggedBot(log'[r]) = LoggedBot(log[r])
<1> DEFINE Same == \A r \in RunIds : LoggedBot(log'[r]) = LoggedBot(log[r])
<1>0. TypeOK /\ FrameOK /\ LifecycleOK /\ (pc \in Running => run \in RunIds)
  BY DEF IInv, FrameOK
<1>1. ASSUME NEW r \in RunIds, NEW e \in Event, e.type # "action_result",
             log' = [log EXCEPT ![r] = Append(@, e)]
      PROVE  Same
  <2>1. /\ log[r] \in Seq(Event)
        /\ log'[r] = Append(log[r], e)
        /\ \A q \in RunIds : q # r => log'[q] = log[q]
    BY <1>0, <1>1, RunAppend
  <2>2. LoggedBot(log'[r]) = LoggedBot(log[r])
    BY <1>1, <2>1, LoggedAppend
  <2> QED BY <2>1, <2>2
<1>2. CASE Silent \/ \E r \in RunIds : ResumeFinished(r) \/ Resume(r)
  BY <1>2, SilentFrame DEF ResumeFinished, Resume
<1>3. CASE Trace
  <2>1. pc \in Running /\ \E e \in Event : e.type # "action_result" /\ Append1(e)
    BY <1>0, <1>3, TraceFrame
  <2> QED BY <1>0, <1>1, <2>1 DEF Append1
<1>4. CASE LogResult
  BY <1>4, ResultNames
<1>5. CASE EndEvent
  <2> DEFINE e == Ev(TerminalEventOf(fin.state), fin.state,
                     [answer |-> fin.answer, steps |-> fin.steps])
  <2>1. pc = "record" /\ fin \in Result /\ sm = fin.state
    BY <1>0, <1>5 DEF EndEvent, FrameOK, LifecycleOK
  <2>2. Append1(e)
    BY <1>5, <2>1, Zenon DEF EndEvent
  <2>3. e \in Event /\ e.type # "action_result"
    BY <2>1, EndEventTyped DEF Ev, TerminalEventOf, Result, TerminalStates
  <2> HIDE DEF e
  <2> QED BY <1>0, <1>1, <2>1, <2>2, <2>3 DEF Append1, Running
<1>6. CASE SaveCheckpoint
  <2> DEFINE e == Ev("checkpoint", sm, CheckpointData)
  <2>1. pc = "checkpoint" /\ e \in Event /\ Append1(e)
    BY <1>0, <1>6, CheckpointFrame
  <2>2. e.type # "action_result"
    BY DEF Ev
  <2> HIDE DEF e
  <2> QED BY <1>0, <1>1, <2>1, <2>2 DEF Append1, Running
<1>7. ASSUME NEW r \in RunIds, Run(r) PROVE Same
  <2>1. log' = [log EXCEPT ![r] = Append(@, Ev("run_created", "created", None))]
    BY <1>7 DEF Run
  <2>2. /\ Ev("run_created", "created", None) \in Event
        /\ Ev("run_created", "created", None).type # "action_result"
    BY EventTyped, StatesTyped DEF Ev
  <2> QED BY <1>1, <2>1, <2>2
<1> QED BY <1>2, <1>3, <1>4, <1>5, <1>6, <1>7, StepKinds

\* A checkpoint holds the observations and the bot of the call.
LEMMA CheckpointHolds ==
  ASSUME IInv, SaveCheckpoint
  PROVE  /\ pc = "checkpoint" /\ pc' = "loop" /\ pc \in Running /\ run \in RunIds
         /\ load_latest_checkpoint(log'[run]) = CheckpointData
         /\ Known(log'[run]) = obs /\ CheckpointData.obs = obs /\ CheckpointData.bot = runner.bot
         /\ \A q \in RunIds : q # run => log'[q] = log[q]
<1> DEFINE e == Ev("checkpoint", sm, CheckpointData)
<1>1. /\ pc = "checkpoint" /\ pc' = "loop" /\ CheckpointData \in Checkpoint
      /\ e \in Event /\ Append1(e)
  BY CheckpointFrame DEF IInv
<1>2. e.type = "checkpoint" /\ e.data = CheckpointData
  BY DEF Ev
<1> HIDE DEF e
<1>3. TypeOK /\ run \in RunIds /\ pc \in Running
  BY <1>1 DEF IInv, FrameOK, Running
<1>4. /\ log[run] \in Seq(Event)
      /\ log'[run] = Append(log[run], e)
      /\ \A q \in RunIds : q # run => log'[q] = log[q]
  BY <1>1, <1>3, RunAppend DEF Append1
<1>5. log'[run] \in Seq(Event) /\ load_latest_checkpoint(log'[run]) = CheckpointData
  BY <1>1, <1>2, <1>4, CheckpointAppend, AppendProperties
<1>6. Known(log'[run]) = CheckpointData.obs
  BY <1>1, <1>5, ProgressIs, NoneIsNoRecord
<1>7. CheckpointData.obs = obs /\ CheckpointData.bot = runner.bot
  BY DEF CheckpointData
<1> QED BY <1>1, <1>3, <1>4, <1>5, <1>6, <1>7

\* The inductive step for what the log says.
LEMMA LogNamesStep ==
  ASSUME FreshRunIds, IInv, ScopeInv, [Next]_vars
  PROVE  LogNamesBot' /\ CheckpointNamesBot'
<1>0. LogNamesBot /\ CheckpointNamesBot /\ RunnerKeepsBot /\ DecisionAsked
  BY DEF ScopeInv
<1>1. CASE SaveCheckpoint
  <2>1. /\ pc = "checkpoint" /\ pc \in Running /\ run \in RunIds
        /\ load_latest_checkpoint(log'[run]) = CheckpointData
        /\ Known(log'[run]) = obs /\ CheckpointData.obs = obs /\ CheckpointData.bot = runner.bot
        /\ \A q \in RunIds : q # run => log'[q] = log[q]
    BY <1>1, CheckpointHolds
  <2>2. ~Handoff
    BY <2>1 DEF Handoff
  <2>3. LoggedBot(log'[run]) = HandedTo(Known(log'[run]))
    <3>1. LoggedBot(log'[run]) = LoggedBot(log[run])
      BY <1>0, <2>1, <2>2, LoggedMoves
    <3>2. LoggedBot(log[run]) = HandedTo(obs)
      BY <1>0, <2>1 DEF RunnerKeepsBot
    <3> QED BY <2>1, <3>1, <3>2
  <2>4. LogNamesBot'
    <3> SUFFICES ASSUME NEW r \in RunIds
                 PROVE  LoggedBot(log'[r]) = HandedTo(Known(log'[r])) \/ AsksHandoff(Known(log'[r]))
      BY DEF LogNamesBot, LoggedBot, Positions, HandedTo, AsksHandoff, ModelOutputs
    <3>1. CASE r = run
      BY <2>3, <3>1
    <3>2. CASE r # run
      BY <1>0, <2>1, <3>2 DEF LogNamesBot
    <3> QED BY <3>1, <3>2
  <2>5. HandedTo(CheckpointData.obs) # None => CheckpointData.bot = HandedTo(CheckpointData.obs)
    BY <1>0, <2>1 DEF RunnerKeepsBot
  <2>6. CheckpointNamesBot'
    <3> SUFFICES ASSUME NEW r \in RunIds
                 PROVE  LET c == load_latest_checkpoint(log'[r])
                        IN  c # None /\ HandedTo(c.obs) # None => c.bot = HandedTo(c.obs)
      BY DEF CheckpointNamesBot, HandedTo
    <3>1. CASE r = run
      BY <2>1, <2>5, <3>1
    <3>2. CASE r # run
      BY <1>0, <2>1, <3>2 DEF CheckpointNamesBot
    <3> QED BY <3>1, <3>2
  <2> QED BY <2>4, <2>6
<1>2. CASE ~SaveCheckpoint
  <2>1. \A r \in RunIds :
          /\ Known(log'[r]) = Known(log[r])
          /\ load_latest_checkpoint(log'[r]) = load_latest_checkpoint(log[r])
    BY <1>2, LogMoves
  <2>2. CheckpointNamesBot'
    BY <1>0, <2>1 DEF CheckpointNamesBot, HandedTo
  <2>3. \A r \in RunIds : LoggedBot(log'[r]) = LoggedBot(log[r]) \/ AsksHandoff(Known(log[r]))
    <3>1. CASE Handoff
      BY <1>0, <3>1, HandoffNames
    <3>2. CASE ~Handoff
      BY <1>0, <3>2, LoggedMoves
    <3> QED BY <3>1, <3>2
  <2>4. LogNamesBot'
    BY <1>0, <2>1, <2>3 DEF LogNamesBot, HandedTo, AsksHandoff, ModelOutputs
  <2> QED BY <2>2, <2>4
<1> QED BY <1>1, <1>2

\* A call that has done nothing yet was handed to no bot.
LEMMA GoalNamesNone == HandedTo(<<GoalObservation>>) = None
BY DEF HandedTo, GoalObservation

\* RunnerKeepsBot of the next state, in terms of the primed variables.
LEMMA KeepsBotNext ==
  RunnerKeepsBot' <=>
    /\ runner'.bot # None => runner'.allowed = Scope[runner'.bot]
    /\ pc' \in Running /\ HandedTo(obs') # None => runner'.bot = HandedTo(obs')
    /\ pc' = "checkpoint" => LoggedBot(log'[run']) = HandedTo(obs')
BY DEF RunnerKeepsBot, HandedTo, LoggedBot, Positions

\* The inductive step for what the runner holds.
LEMMA RunnerKeepsStep ==
  ASSUME FreshRunIds, IInv, ScopeInv, [Next]_vars
  PROVE  RunnerKeepsBot'
<1>0. /\ LogNamesBot /\ CheckpointNamesBot /\ RunnerKeepsBot /\ DecisionAsked
      /\ TypeOK /\ (pc \in Running => run \in RunIds)
  BY DEF ScopeInv, IInv, FrameOK
<1>1. CASE \E c \in Configs : NewRunner(c)
  <2>1. PICK c \in Configs : NewRunner(c)
    BY <1>1
  <2>2. pc' = "idle" /\ runner' = [c EXCEPT !.allowed = IF c.bot = None THEN @ ELSE Scope[c.bot]]
    BY <2>1 DEF NewRunner
  <2>3. runner'.bot = c.bot /\ (c.bot # None => runner'.allowed = Scope[c.bot])
    BY <2>2, ConstantsOK
  <2> QED BY <2>2, <2>3, KeepsBotNext DEF Running
<1>2. CASE Exit \/ Crash
  BY <1>2 DEF Exit, Crash, NoRunner, RunnerKeepsBot, Running
<1>3. CASE Escape
  <2>1. pc' = "idle" /\ (runner' = runner \/ runner' = SwitchedTo(dec.target))
    BY <1>3, Zenon DEF Escape
  <2>2. runner'.bot # None => runner'.allowed = Scope[runner'.bot]
    <3>1. CASE runner' = runner
      BY <1>0, <3>1 DEF RunnerKeepsBot
    <3>2. CASE runner' = SwitchedTo(dec.target)
      <4>1. runner'.bot = dec.target /\ runner'.allowed = Scope[dec.target]
        BY <1>0, <3>2 DEF SwitchedTo, TypeOK
      <4> QED BY <4>1
    <3> QED BY <2>1, <3>1, <3>2
  <2> QED BY <2>1, <2>2, KeepsBotNext DEF Running
<1>4. CASE Handoff
  <2>1. /\ pc' = "checkpoint" /\ run' = run
        /\ runner'.bot = dec.target /\ runner'.allowed = Scope[dec.target]
        /\ LoggedBot(log'[run]) = dec.target /\ HandedTo(obs') = dec.target
    BY <1>0, <1>4, HandoffNames
  <2> QED BY <2>1, KeepsBotNext DEF RunnerKeepsBot
<1>5. CASE LogResult
  <2>1. /\ run \in RunIds /\ run' = run /\ runner' = runner /\ pc \in Running
        /\ obs = Known(log[run]) /\ ~AsksHandoff(obs)
        /\ LoggedBot(log'[run]) = LoggedBot(log[run]) /\ HandedTo(obs') = HandedTo(obs)
    BY <1>0, <1>5, ResultNames
  <2>2. LoggedBot(log[run]) = HandedTo(obs)
    BY <1>0, <2>1 DEF LogNamesBot
  <2>3. LoggedBot(log'[run']) = HandedTo(obs')
    BY <2>1, <2>2
  <2> QED BY <1>0, <2>1, <2>3, KeepsBotNext DEF RunnerKeepsBot
<1>6. ASSUME NEW r \in RunIds, Run(r) PROVE RunnerKeepsBot'
  <2>1. pc' = "loop" /\ runner' = runner /\ obs' = <<GoalObservation>>
    BY <1>6 DEF Run
  <2>2. HandedTo(obs') = None
    BY <2>1, GoalNamesNone
  <2> QED BY <1>0, <2>1, <2>2, KeepsBotNext DEF RunnerKeepsBot
<1>7. ASSUME NEW r \in RunIds, Resume(r) PROVE RunnerKeepsBot'
  <2> DEFINE c == load_latest_checkpoint(log[r])
  <2>1. /\ pc' = "loop" /\ c # None /\ obs' = c.obs
        /\ runner' = IF c.bot = None THEN runner ELSE SwitchedTo(c.bot)
    BY <1>7 DEF Resume
  <2>2. HandedTo(c.obs) # None => c.bot = HandedTo(c.obs)
    BY <1>0, <2>1 DEF CheckpointNamesBot
  <2> HIDE DEF c
  <2>3. /\ runner'.bot # None => runner'.allowed = Scope[runner'.bot]
        /\ c.bot # None => runner'.bot = c.bot
    BY <1>0, <2>1 DEF RunnerKeepsBot, SwitchedTo, TypeOK
  <2>4. HandedTo(obs') # None => runner'.bot = HandedTo(obs')
    BY <2>1, <2>2, <2>3
  <2> QED BY <2>1, <2>3, <2>4, KeepsBotNext DEF RunnerKeepsBot
<1>8. CASE SaveCheckpoint \/ EndEvent \/ Trace \/ \E r \in RunIds : ResumeFinished(r)
  <2>1. /\ runner' = runner /\ pc' # "checkpoint"
        /\ pc' \in Running => pc \in Running /\ obs' = obs
    <3>1. CASE SaveCheckpoint \/ EndEvent \/ \E r \in RunIds : ResumeFinished(r)
      BY <3>1 DEF SaveCheckpoint, EndEvent, ResumeFinished, frame, Running
    <3>2. CASE Trace
      <4>1. runner' = runner
        BY <3>2, Zenon DEF Trace, BeginObserving, Observe, BeginDeciding, MakeDecision, BeginActing,
                           Request, EndTransition
      <4> QED BY <3>2, <4>1, TraceFrame DEF IInv
    <3> QED BY <1>8, <3>1, <3>2
  <2> QED BY <1>0, <2>1, KeepsBotNext DEF RunnerKeepsBot
<1>9. CASE \/ LoopCancelled \/ LoopExhausted \/ ActRaises
           \/ (\E o \in Outputs : CompleteLlm(o))
           \/ (\E ok \in BOOLEAN : ExecuteTool(ok))
           \/ CreateCancelFile \/ RemoveCancelFile \/ UNCHANGED vars
  <2>1. runner' = runner /\ Silent
    <3>1. runner' = runner
      BY <1>9, Zenon DEF LoopCancelled, LoopExhausted, ActRaises, CompleteLlm, ExecuteTool,
                         CreateCancelFile, RemoveCancelFile, vars
    <3> QED BY <1>9, <3>1, Zenon DEF Silent
  <2>2. /\ log' = log
        /\ pc' \in Running => /\ pc \in Running /\ run' = run /\ obs' = obs
                              /\ pc' = "checkpoint" <=> pc = "checkpoint"
    BY <2>1, SilentFrame
  <2>3. pc' = "checkpoint" => pc' \in Running
    BY DEF Running
  <2> QED BY <1>0, <2>1, <2>2, <2>3, KeepsBotNext DEF RunnerKeepsBot
<1> QED BY <1>1, <1>2, <1>3, <1>4, <1>5, <1>6, <1>7, <1>8, <1>9, Zenon DEF Next, CallStep, Trace

\* The inductive step for the decision at hand.
LEMMA DecisionAskedStep ==
  ASSUME IInv, DecisionAsked, [Next]_vars
  PROVE  DecisionAsked'
<1>1. CASE MakeDecision
  <2> DEFINE d == Decide(obs, step, runner.maxSteps, is_cancelled, runner.allowed,
                         runner.registered)
  <2>1. /\ dec' = d /\ obs' = obs /\ pc' \in {"act", "finish"}
        /\ pc' = "act" => d.action \in {"call_llm", "call_tool", "handoff"}
    <3> HIDE DEF d
    <3>1. dec' = d /\ obs' = obs
      BY <1>1, Zenon DEF MakeDecision, d
    <3>2. pc' = "finish" \/ (pc' = "act" /\ d.action \in {"call_llm", "call_tool", "handoff"})
      BY <1>1, Zenon DEF MakeDecision, d
    <3> QED BY <3>1, <3>2
  <2>2. /\ d.action = "handoff" => AsksHandoff(obs)
        /\ d.action \in {"call_llm", "call_tool"} => ~AsksHandoff(obs)
    BY DecideHandoff
  <2> HIDE DEF d
  <2> QED BY <2>1, <2>2 DEF DecisionAsked, AsksHandoff, ModelOutputs
<1>2. CASE (\E o \in Outputs : CompleteLlm(o)) \/ (\E ok \in BOOLEAN : ExecuteTool(ok))
  <2>1. /\ pc = "execute" /\ pc' = "result" /\ dec' = dec /\ obs' = obs
        /\ dec.action \in {"call_llm", "call_tool"}
        /\ \/ \E o \in Outputs : got' = LlmObservation(o)
           \/ \E ok \in BOOLEAN : got' = ToolObservation(dec.target, ok)
    BY <1>2 DEF CompleteLlm, ExecuteTool
  <2>2. got'.source # "handoff"
    BY <2>1 DEF LlmObservation, ToolObservation
  <2> QED BY <2>1, <2>2 DEF DecisionAsked, AsksHandoff, ModelOutputs
<1>3. CASE BeginActing \/ Request \/ CreateCancelFile \/ RemoveCancelFile \/ UNCHANGED vars
           \/ \E r \in RunIds : ResumeFinished(r)
  <2>1. /\ dec' = dec /\ obs' = obs /\ got' = got /\ pc' \in {pc, "handoff", "request", "execute"}
        /\ pc' # pc => pc \in {"act", "request"}
    BY <1>3 DEF BeginActing, Request, CreateCancelFile, RemoveCancelFile, vars, frame, ResumeFinished
  <2> QED BY <2>1 DEF DecisionAsked, AsksHandoff, ModelOutputs
<1>4. CASE \/ (\E c \in Configs : NewRunner(c))
           \/ Exit \/ Crash \/ Escape
           \/ (\E r \in RunIds : Run(r) \/ Resume(r))
           \/ BeginObserving \/ Observe \/ BeginDeciding \/ Handoff
           \/ LogResult \/ SaveCheckpoint \/ EndTransition \/ EndEvent
  <2>1. pc' \notin {"act", "handoff", "request", "execute", "result"}
    BY <1>4 DEF NewRunner, Exit, Crash, Escape, Run, Resume, BeginObserving, Observe,
                BeginDeciding, Handoff, LogResult, SaveCheckpoint, EndTransition, EndEvent
  <2> QED BY <2>1 DEF DecisionAsked
<1>5. CASE LoopCancelled \/ LoopExhausted \/ ActRaises
  <2>1. pc' = "finish"
    BY <1>5, Zenon DEF LoopCancelled, LoopExhausted, ActRaises, CaughtException
  <2> QED BY <2>1 DEF DecisionAsked
<1> QED BY <1>1, <1>2, <1>3, <1>4, <1>5, Zenon DEF Next, CallStep

\* Once a run was handed to a bot, as its log says, a tool is executed only
\* if that bot may use it, whoever resumed the run after whatever crash.
THEOREM ScopeFollowsHandoff ==
  ASSUME FreshRunIds
  PROVE  Spec => HandoffScopeHolds
<1>1. Init => ScopeInv
  <2> SUFFICES ASSUME Init PROVE ScopeInv
    OBVIOUS
  <2>1. pc = "down" /\ runner = NoRunner /\ \A r \in RunIds : log[r] = <<>>
    BY DEF Init
  <2>2. \A r \in RunIds : /\ load_latest_checkpoint(log[r]) = None
                          /\ Known(log[r]) = <<GoalObservation>> /\ LoggedBot(log[r]) = None
    BY <2>1 DEF load_latest_checkpoint, Known, LoggedBot, Positions
  <2> QED BY <2>1, <2>2, GoalNamesNone
          DEF ScopeInv, LogNamesBot, CheckpointNamesBot, RunnerKeepsBot, DecisionAsked, NoRunner, Running
<1>2. IInv /\ ScopeInv /\ [Next]_vars => ScopeInv'
  BY LogNamesStep, RunnerKeepsStep, DecisionAskedStep DEF ScopeInv
<1>3. ASSUME IInv, ScopeInv, [Next]_vars, effects' # effects
      PROVE  LET e == effects'[Len(effects')]
             IN  LoggedBot(log[e.run]) # None => e.tool \in Scope[LoggedBot(log[e.run])]
  <2> DEFINE e == [run |-> run, step |-> step, tool |-> dec.target]
  <2>1. pc = "execute" /\ dec.action = "call_tool" /\ effects' = Append(effects, e)
    BY <1>3, EffectFrame DEF IInv
  <2>2. effects \in Seq([run : RunIds, step : Nat, tool : Tools])
    BY <1>3 DEF IInv, TypeOK
  <2>3. effects'[Len(effects')] = e
    BY <2>1, <2>2
  <2>4. /\ run \in RunIds /\ pc \in Running /\ obs = Known(log[run])
        /\ dec.target \in runner.allowed
    BY <1>3, <2>1 DEF IInv, FrameOK, InStepWithLog, Running
  <2>5. ~AsksHandoff(obs)
    BY <1>3, <2>1 DEF ScopeInv, DecisionAsked
  <2>6. LoggedBot(log[run]) = HandedTo(obs)
    BY <1>3, <2>4, <2>5 DEF ScopeInv, LogNamesBot
  <2>7. LoggedBot(log[run]) # None => dec.target \in Scope[LoggedBot(log[run])]
    BY <1>3, <2>4, <2>6 DEF ScopeInv, RunnerKeepsBot
  <2> QED BY <2>3, <2>7
<1>4. IInv /\ ScopeInv /\ [Next]_vars =>
        [effects' # effects =>
           LET e == effects'[Len(effects')]
           IN  LoggedBot(log[e.run]) # None => e.tool \in Scope[LoggedBot(log[e.run])]]_vars
  BY <1>3
<1> QED BY <1>1, <1>2, <1>4, IInvHolds, PTL DEF Spec, HandoffScopeHolds
=============================================================================
