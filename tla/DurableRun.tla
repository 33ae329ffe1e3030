------------------------------ MODULE DurableRun ------------------------------
(***************************************************************************)
(* What the runner promises about a run, seen from outside the process:    *)
(* it advances one step at a time until it has one outcome, the outcome    *)
(* never changes, and nobody is ever told anything else.  Crashes,         *)
(* restarts, repeated steps and half-written endings are all invisible     *)
(* here.  Module AgentRunner implements it (docs/guides/                   *)
(* CHECKPOINT_RESUME_GUIDE.md, "Which Runs Resume").                       *)
(***************************************************************************)
EXTENDS Naturals

CONSTANTS RunIds, Outcomes, None

VARIABLES
  outcome,    \* outcome[r]: None until the run has finished
  progress,   \* progress[r]: durably completed steps
  told        \* told[r]: outcomes reported to callers

vars == <<outcome, progress, told>>

Init ==
  /\ outcome = [r \in RunIds |-> None]
  /\ progress = [r \in RunIds |-> 0]
  /\ told = [r \in RunIds |-> {}]

\* One step of the run has become durable.
Advance(r) ==
  /\ outcome[r] = None
  /\ progress' = [progress EXCEPT ![r] = @ + 1]
  /\ UNCHANGED <<outcome, told>>

\* The run ends, and the caller that ran it is told how.
Conclude(r) ==
  /\ outcome[r] = None
  /\ outcome'[r] \in Outcomes
  /\ outcome' = [outcome EXCEPT ![r] = outcome'[r]]
  /\ told' = [told EXCEPT ![r] = @ \cup {outcome'[r]}]
  /\ UNCHANGED progress

\* A later caller is told the outcome the run already has.
Report(r) ==
  /\ outcome[r] # None
  /\ told' = [told EXCEPT ![r] = @ \cup {outcome[r]}]
  /\ UNCHANGED <<outcome, progress>>

Next ==
  \E r \in RunIds : Advance(r) \/ Conclude(r) \/ Report(r)

Spec == Init /\ [][Next]_vars
=============================================================================
