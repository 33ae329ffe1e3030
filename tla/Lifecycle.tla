------------------------------ MODULE Lifecycle ------------------------------
(***************************************************************************)
(* The run lifecycle of lifecycle.py and the enumerations of models.py     *)
(* that the event log stores.  There is no state here: the state machine   *)
(* object lives in AgentRunner as the variable sm.                         *)
(***************************************************************************)

TerminalStates == {"succeeded", "failed", "cancelled"}

RunState == {"created", "observing", "deciding", "acting"} \cup TerminalStates

\* ALLOWED_TRANSITIONS: for each state, the states transition_to accepts.
ALLOWED_TRANSITIONS ==
  [s \in RunState |->
     CASE s = "created"   -> {"observing", "cancelled", "failed"}
       [] s = "observing" -> {"deciding", "cancelled", "failed"}
       [] s = "deciding"  -> {"acting", "succeeded", "cancelled", "failed"}
       [] s = "acting"    -> {"observing", "succeeded", "cancelled", "failed"}
       [] OTHER           -> {}]

\* RunStateMachine.transition_to: anything else raises InvalidTransitionError.
TransitionAllowed(from, to) == to \in ALLOWED_TRANSITIONS[from]

\* RunStateMachine.is_terminal
IsTerminal(s) == s \in TerminalStates

TerminalEventTypes == {"run_completed", "run_failed", "run_cancelled"}

EventType == {"run_created", "state_transition", "observation", "decision",
              "action_requested", "action_result", "checkpoint"}
             \cup TerminalEventTypes

\* _TERMINAL_EVENT_STATES, read in both directions: the event that records
\* a terminal state, and the state a terminal event stands for.
TerminalEventOf(s) ==
  CASE s = "succeeded" -> "run_completed"
    [] s = "failed"    -> "run_failed"
    [] s = "cancelled" -> "run_cancelled"

TerminalStateOf(type) ==
  CASE type = "run_completed" -> "succeeded"
    [] type = "run_failed"    -> "failed"
    [] type = "run_cancelled" -> "cancelled"
=============================================================================
