------------------------------- MODULE Decision -------------------------------
(***************************************************************************)
(* DeterministicDecisionEngine of decision.py: a pure function from the    *)
(* observations, the step and the policy to the next action.               *)
(*                                                                         *)
(* The text of a model output is abstracted to what the engine's prefix    *)
(* tests and parsers distinguish: a well-formed TOOL:name:payload or       *)
(* HANDOFF:bot:summary directive with its name, the two malformed          *)
(* directives, DONE:..., and any other text.                               *)
(***************************************************************************)
EXTENDS Integers, Sequences, FiniteSetsExt

CONSTANTS
  Tools,    \* tool names a model output can ask for
  Bots,     \* bot ids a model output can hand off to, registered or not
  None      \* Python's None

ASSUME NoneIsNoName == None \notin Tools \cup Bots

-----------------------------------------------------------------------------
(* Observations *)

\* What an LLM provider may answer: ModelOutput.text after classification.
ModelOutput ==
  [kind : {"text", "done", "malformed_tool", "malformed_handoff"}, arg : {None}]
    \cup [kind : {"tool"}, arg : Tools]
    \cup [kind : {"handoff"}, arg : Bots]

\* Observation.  source stands for the source prefix (user, llm:, tool:,
\* handoff:), kind and arg for the content.
Observation ==
  [source : {"user"}, kind : {"goal"}, arg : {None}]
    \cup [source : {"llm"},
          kind : {"text", "done", "malformed_tool", "malformed_handoff"}, arg : {None}]
    \cup [source : {"llm"}, kind : {"tool"}, arg : Tools]
    \cup [source : {"llm"}, kind : {"handoff"}, arg : Bots]
    \cup [source : {"tool"}, kind : {"ok", "error"}, arg : Tools]
    \cup [source : {"handoff"}, kind : {"handed_off"}, arg : Bots]

GoalObservation == [source |-> "user", kind |-> "goal", arg |-> None]

\* ModelOutput.to_observation, ToolResult.to_observation and the observation
\* AgentRunner._handoff returns.
LlmObservation(o) == [source |-> "llm", kind |-> o.kind, arg |-> o.arg]
ToolObservation(t, ok) == [source |-> "tool", kind |-> IF ok THEN "ok" ELSE "error", arg |-> t]
HandoffObservation(b) == [source |-> "handoff", kind |-> "handed_off", arg |-> b]

-----------------------------------------------------------------------------
(* Decisions *)

\* A decision keeps its action, its target, the rule id of its rationale and,
\* for a finish, the observation whose text becomes the answer.
DecisionRecord ==
  [action : {"call_llm", "call_tool", "handoff", "finish", "fail", "cancel"},
   target : Tools \cup Bots \cup {None},
   rule   : {"safety.cancel-file", "model.done-or-budget", "tool.result-needs-synthesis",
             "handoff.needs-continuation", "observe.no-model-output",
             "model.malformed-tool-request", "model.disallowed-tool-request",
             "model.requested-tool", "model.malformed-handoff-request",
             "model.unknown-handoff-bot", "model.requested-handoff",
             "model.needs-followup"},
   answer : Observation \cup {None}]

\* There is one provider per runner, so the target of call_llm is left out.
CallLlm(rule) ==
  [action |-> "call_llm", target |-> None, rule |-> rule, answer |-> None]
Finish(o) ==
  [action |-> "finish", target |-> None, rule |-> "model.done-or-budget", answer |-> o]
Targeted(action, target, rule) ==
  [action |-> action, target |-> target, rule |-> rule, answer |-> None]

\* _latest_observation_by_prefix(observations, "llm:"): its positions.
ModelOutputs(obs) == {i \in 1..Len(obs) : obs[i].source = "llm"}

\* mutant: the allowlist is left to validate_tool
FromModelOutput_Unscoped(o, allowed, registered) ==
  CASE o.kind = "tool"    -> Targeted("call_tool", o.arg, "model.requested-tool")
    [] o.kind = "handoff" -> Targeted("handoff", o.arg, "model.requested-handoff")
    [] o.kind = "done"    -> Finish(o)
    [] OTHER              -> CallLlm("model.needs-followup")

\* The branches on the latest model output: TOOL:, HANDOFF:, DONE:, other.
FromModelOutput(o, allowed, registered) ==
  CASE o.kind = "malformed_tool"    -> CallLlm("model.malformed-tool-request")
    [] o.kind = "tool"              -> IF o.arg \in allowed
                                       THEN Targeted("call_tool", o.arg, "model.requested-tool")
                                       ELSE CallLlm("model.disallowed-tool-request")
    [] o.kind = "malformed_handoff" -> CallLlm("model.malformed-handoff-request")
    [] o.kind = "handoff"           -> IF o.arg \in registered
                                       THEN Targeted("handoff", o.arg, "model.requested-handoff")
                                       ELSE Targeted("fail", None, "model.unknown-handoff-bot")
    [] o.kind = "done"              -> Finish(o)
    [] OTHER                        -> CallLlm("model.needs-followup")

\* The last step of the budget is kept for finishing with what there is.
BudgetSpent_OffByOne(step, maxSteps) == step >= maxSteps   \* mutant
BudgetSpent(step, maxSteps) == step >= maxSteps - 1

\* DeterministicDecisionEngine.decide: the first rule that applies.
Decide(obs, step, maxSteps, cancelled, allowed, registered) ==
  LET latest == obs[Len(obs)]
  IN  IF cancelled
        THEN Targeted("cancel", None, "safety.cancel-file")
      ELSE IF BudgetSpent(step, maxSteps)
        THEN Finish(latest)
      ELSE IF latest.source = "tool"
        THEN CallLlm("tool.result-needs-synthesis")
      ELSE IF latest.source = "handoff"
        THEN CallLlm("handoff.needs-continuation")
      ELSE IF ModelOutputs(obs) = {}
        THEN CallLlm("observe.no-model-output")
      ELSE FromModelOutput(obs[Max(ModelOutputs(obs))], allowed, registered)
=============================================================================
