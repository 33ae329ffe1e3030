-------------------------------- MODULE Timers --------------------------------
(***************************************************************************)
(* The guards that compare the time of an activity with the clock: idle    *)
(* sessions, ages of blackboard entries, heartbeats of bots, cooldowns     *)
(* after a human deny and deadlines of runs.  Every operation takes the    *)
(* time as an argument, so the report of an activity may reach the object  *)
(* late and behind a report of a later one.                                *)
(***************************************************************************)
EXTENDS Integers, Sequences

CONSTANTS
  Keys,      \* sessions, blackboard keys, bots, escalation keys, runs
  Period,    \* ttl_seconds, timeout_seconds, cooldown_seconds, duration_seconds
  MaxTime,   \* bound on the clock
  MaxOps,    \* bound on the operations
  None

VARIABLES
  timer,    \* the class of the object and its mode
  stamps,   \* per key: the time of the last report, None without one
  now,      \* the clock
  log       \* the reports and resets the object accepted

timerVars == <<timer, stamps, now, log>>

Classes == {"session", "entries", "heartbeat", "cooldown", "deadline"}

\* What the constructors accept.
TimerConstantsOK == Period \in Nat /\ MaxTime \in Nat /\ None \notin Nat

Init ==
  /\ timer \in [class : Classes, hard : BOOLEAN]
  /\ stamps = [k \in Keys |-> None]
  /\ now = 0
  /\ log = <<>>

-----------------------------------------------------------------------------
(* What the objects answer at time t; a key without a stamp is told apart *)

\* SessionTtlExpirer: an unknown session is not expired.
\* mutant: a session expires after its deadline
SessionExpired_Late(k, t) == stamps[k] # None /\ t > stamps[k] + Period
SessionExpired(k, t) == stamps[k] # None /\ t >= stamps[k] + Period

EntryExpired(k, t) == stamps[k] # None /\ t - stamps[k] >= Period
ExpiredKeys(t) == {k \in Keys : EntryExpired(k, t)}

\* An unknown bot is stale for status, and absent from stale_bots.
Stale(k, t) == stamps[k] = None \/ t - stamps[k] >= Period
StaleBots(t) == {k \in Keys : stamps[k] # None /\ t - stamps[k] >= Period}

Remaining(k, t) == IF t <= stamps[k] THEN Period ELSE Period - (t - stamps[k])
CoolingDown(k, t) == stamps[k] # None /\ Remaining(k, t) > 0

DeadlineExpired(k, t) == stamps[k] # None /\ stamps[k] + Period - t <= 0

-----------------------------------------------------------------------------
(* Operations *)

Report(k, t) ==
  /\ Len(log) < MaxOps
  /\ stamps' = [stamps EXCEPT ![k] = t]
  /\ log' = Append(log, [op |-> "report", keys |-> {k}, at |-> t])
  /\ UNCHANGED <<timer, now>>

Forget(ks) ==
  /\ Len(log) < MaxOps
  /\ stamps' = [k \in Keys |-> IF k \in ks THEN None ELSE stamps[k]]
  /\ log' = Append(log, [op |-> "forget", keys |-> ks, at |-> now])
  /\ UNCHANGED <<timer, now>>

\* touch raises for a session that expired in hard mode, until it is reset.
TouchSession(k, t) ==
  /\ timer.class = "session"
  /\ timer.hard => ~SessionExpired(k, t)
  /\ Report(k, t)

TouchEntry(k, t) == timer.class = "entries" /\ Report(k, t)
Heartbeat(k, t) == timer.class = "heartbeat" /\ Report(k, t)
RecordDeny(k, t) == timer.class = "cooldown" /\ Report(k, t)

\* A watchdog gets its deadline when it is constructed and keeps it.
StartRun(k, t) == timer.class = "deadline" /\ stamps[k] = None /\ Report(k, t)

ResetSession(k) == timer.class = "session" /\ Forget({k})
ResetCooldown(k) == timer.class = "cooldown" /\ Forget({k})

\* mutant: one expired key is left to the next call
Doomed_One(t) == IF ExpiredKeys(t) = {} THEN {} ELSE {CHOOSE k \in ExpiredKeys(t) : TRUE}
Doomed(t) == ExpiredKeys(t)

\* evict_expired
Evict == timer.class = "entries" /\ Forget(Doomed(now))

Tick ==
  /\ now < MaxTime
  /\ now' = now + 1
  /\ UNCHANGED <<timer, stamps, log>>

\* check and status only read.
Read == UNCHANGED timerVars

Next ==
  \/ \E k \in Keys, t \in 0..now :
       TouchSession(k, t) \/ TouchEntry(k, t) \/ Heartbeat(k, t) \/ RecordDeny(k, t) \/ StartRun(k, t)
  \/ \E k \in Keys : ResetSession(k) \/ ResetCooldown(k)
  \/ Evict \/ Tick \/ Read

Spec == Init /\ [][Next]_timerVars

-----------------------------------------------------------------------------
(* Properties *)

\* The reports of k since it was last forgotten, and whether they came in order.
Reports(k) ==
  {i \in DOMAIN log :
     /\ log[i].op = "report" /\ k \in log[i].keys
     /\ \A j \in (i + 1)..Len(log) : ~(log[j].op = "forget" /\ k \in log[j].keys)}
InOrder(k) == \A i, j \in Reports(k) : i < j => log[i].at <= log[j].at
ActiveWithin(k) == \E i \in Reports(k) : now < log[i].at + Period

\* The answer for a key that was reported, as "its period still runs".
Running(k) ==
  CASE timer.class = "session"   -> ~SessionExpired(k, now)
    [] timer.class = "entries"   -> ~EntryExpired(k, now)
    [] timer.class = "heartbeat" -> ~Stale(k, now)
    [] timer.class = "cooldown"  -> CoolingDown(k, now)
    [] timer.class = "deadline"  -> ~DeadlineExpired(k, now)

\* A session, entry, bot or cooldown runs only if it was active within the
\* period, and always if it was and the reports came in order: a late report
\* can end a period too early, never stretch one past its latest activity.
\* An eviction leaves no expired key behind, and status and stale_bots agree
\* on every bot that was heard of.
RunsOnlyWhileActive ==
  \A k \in Keys :
    Reports(k) # {} =>
      /\ Running(k) => ActiveWithin(k)
      /\ InOrder(k) /\ ActiveWithin(k) => Running(k)
      /\ timer.class = "heartbeat" => (Stale(k, now) <=> k \in StaleBots(now))
      /\ timer.class = "entries" /\ log[Len(log)].op = "forget" /\ log[Len(log)].at = now
           => k \notin ExpiredKeys(now)
=============================================================================
