---------------------------- MODULE AppendOnlyLog ----------------------------
(***************************************************************************)
(* What the event log promises its users, AgentRunner above all: one       *)
(* sequence of events per run that only grows at its end, one event at a   *)
(* time, and an append that returns has put its event there.               *)
(***************************************************************************)
EXTENDS Sequences

CONSTANTS RunIds, Events

VARIABLES
  log,    \* log[r]: the events of run r
  known   \* what callers of append were told: run, seq and event

logVars == <<log, known>>

LogInit ==
  /\ log = [r \in RunIds |-> <<>>]
  /\ known = {}

\* append returns: its event is the last one of the run.
AppendEvent(r, e) ==
  /\ log' = [log EXCEPT ![r] = Append(@, e)]
  /\ known' = known \cup {[run |-> r, seq |-> Len(log'[r]), event |-> e]}

LogNext == \E r \in RunIds, e \in Events : AppendEvent(r, e)

LogSpec == LogInit /\ [][LogNext]_logVars
=============================================================================
