------------------------------- MODULE ToolCalls -------------------------------
(***************************************************************************)
(* Calls of one tool by several bots through the guards of a tool call, in *)
(* the order the guides give: the idempotency cache, the circuit breaker,  *)
(* the rate-limited runner, the retry policy around them and the dead      *)
(* letter queue behind it.  Calls overlap: what a call reports may come    *)
(* long after it was allowed.                                              *)
(***************************************************************************)
EXTENDS Integers, Sequences, FiniteSets

CONSTANTS
  Callers,
  None,
  Threshold, Cooldown,    \* the breaker: failure_threshold, cooldown_seconds
  MaxCalls, Window,       \* the runner: max_calls, window_seconds
  MaxAttempts,            \* the retry policy: max_attempts
  BaseSeconds, Multiplier, MaxSeconds,
  MaxTime                 \* bound on the clock

VARIABLES
  obj,     \* the guards' fields
  now,     \* the clock
  calls,   \* per caller: where its call stands
  seen     \* when calls failed since the last success, when calls started

callVars == <<obj, now, calls, seen>>

\* What the constructors accept.
CallConstantsOK ==
  /\ Threshold \in Nat \ {0} /\ Cooldown \in Nat
  /\ MaxCalls \in Nat \ {0} /\ Window \in Nat \ {0}
  /\ MaxTime \in Nat

Init ==
  /\ obj = [state |-> "closed", failures |-> 0, openedAt |-> None,
            hits |-> <<>>, cached |-> FALSE, letters |-> [c \in Callers |-> None]]
  /\ now = 0
  /\ calls = [c \in Callers |-> [pc |-> "idle", attempt |-> 1, wake |-> 0]]
  /\ seen = [failedAt |-> <<>>, startedAt |-> <<>>]

Move(c, pc) == calls' = [calls EXCEPT ![c].pc = pc]

-----------------------------------------------------------------------------
(* The circuit breaker *)

\* mutant: the cooldown runs from the failure that opened the circuit first
OpenedAt_Kept(o) == IF o.state = "open" THEN o.openedAt ELSE now
OpenedAt(o) == now

HalfOpened(o) ==
  IF o.state = "open" /\ now - o.openedAt >= Cooldown THEN [o EXCEPT !.state = "half_open"]
                                                      ELSE o

RecordFailure(o) ==
  LET n == o.failures + 1 IN
  IF o.state = "half_open" \/ n >= Threshold
    THEN [o EXCEPT !.failures = n, !.state = "open", !.openedAt = OpenedAt(o)]
    ELSE [o EXCEPT !.failures = n]

RecordSuccess(o) == [o EXCEPT !.state = "closed", !.failures = 0, !.openedAt = None]

-----------------------------------------------------------------------------
(* The sliding window of the runner *)

\* mutant: a call that is exactly a window old is forgotten
Recent_HalfOpen(t) == t > now - Window
Recent(t) == t >= now - Window

\* The loop pops the oldest start until one is recent, or none is left.
Oldest(hits) ==
  CHOOSE k \in 1..(Len(hits) + 1) :
    /\ \A i \in 1..(k - 1) : ~Recent(hits[i])
    /\ k <= Len(hits) => Recent(hits[k])
Pruned(o) == [o EXCEPT !.hits = SubSeq(@, Oldest(@), Len(@))]

-----------------------------------------------------------------------------
(* The retry policy and the dead letter queue *)

LesserOf(a, b) == IF a < b THEN a ELSE b
Delay(attempt) == LesserOf(MaxSeconds, BaseSeconds * Multiplier ^ (attempt - 1))

\* An attempt raised with the guards in state o: sleep (with jitter, any time
\* up to the delay) and try again, or enqueue the call as a dead letter.
AttemptFailed(c, o) ==
  IF calls[c].attempt < MaxAttempts
    THEN \E d \in 0..Delay(calls[c].attempt) :
           /\ calls' = [calls EXCEPT ![c] = [pc |-> "trying", attempt |-> @.attempt + 1,
                                             wake |-> now + d]]
           /\ obj' = o
    ELSE /\ Move(c, "dead")
         /\ obj' = [o EXCEPT !.letters[c] = "pending"]

-----------------------------------------------------------------------------
(* A call *)

Lookup(c) ==
  /\ calls[c].pc = "idle"
  /\ Move(c, IF obj.cached THEN "done" ELSE "trying")
  /\ UNCHANGED <<obj, now, seen>>

\* allow returns or raises CircuitOpenError, which the policy retries.
Allow(c) ==
  LET o == HalfOpened(obj) IN
  /\ calls[c].pc = "trying" /\ now >= calls[c].wake
  /\ \/ /\ o.state # "open"
        /\ obj' = o /\ Move(c, "allowed")
     \/ /\ o.state = "open"
        /\ AttemptFailed(c, o)
  /\ UNCHANGED <<now, seen>>

\* execute starts the tool or raises RateLimitExceededError.
Execute(c) ==
  LET o == Pruned(obj) IN
  /\ calls[c].pc = "allowed"
  /\ \/ /\ Len(o.hits) < MaxCalls
        /\ obj' = [o EXCEPT !.hits = Append(@, now)]
        /\ seen' = [seen EXCEPT !.startedAt = Append(@, now)]
        /\ Move(c, "calling")
     \/ /\ Len(o.hits) >= MaxCalls
        /\ AttemptFailed(c, o)
        /\ UNCHANGED seen
  /\ UNCHANGED now

Succeed(c) ==
  /\ calls[c].pc = "calling"
  /\ obj' = [RecordSuccess(obj) EXCEPT !.cached = TRUE]
  /\ seen' = [seen EXCEPT !.failedAt = <<>>]
  /\ Move(c, "done")
  /\ UNCHANGED now

Fail(c) ==
  /\ calls[c].pc = "calling"
  /\ AttemptFailed(c, RecordFailure(obj))
  /\ seen' = [seen EXCEPT !.failedAt = Append(@, now)]
  /\ UNCHANGED now

-----------------------------------------------------------------------------
(* Anyone, at any time *)

State ==
  /\ obj' = HalfOpened(obj) /\ UNCHANGED <<now, calls, seen>>

Remaining ==
  /\ obj' = Pruned(obj) /\ UNCHANGED <<now, calls, seen>>

Invalidate ==
  /\ obj.cached
  /\ obj' = [obj EXCEPT !.cached = FALSE]
  /\ UNCHANGED <<now, calls, seen>>

\* The operator handles a pending letter; a second acknowledge raises.
Acknowledge(c) ==
  /\ obj.letters[c] = "pending"
  /\ obj' = [obj EXCEPT !.letters[c] = "acknowledged"]
  /\ UNCHANGED <<now, calls, seen>>

Tick ==
  /\ now < MaxTime
  /\ now' = now + 1
  /\ UNCHANGED <<obj, calls, seen>>

Next ==
  \/ \E c \in Callers : \/ Lookup(c) \/ Allow(c) \/ Execute(c) \/ Succeed(c) \/ Fail(c)
                        \/ Acknowledge(c)
  \/ State \/ Remaining \/ Invalidate \/ Tick

Spec == Init /\ [][Next]_callVars

-----------------------------------------------------------------------------
(* Properties *)

\* The breaker answers by the failures since the last success alone, whatever
\* its lazy transitions and reports that arrive late did in between: it
\* rejects a call exactly while the last one of at least Threshold failures
\* is younger than the cooldown.
BreakerIsItsHistory ==
  LET f == seen.failedAt IN
  HalfOpened(obj).state = "open"
    <=> Len(f) >= Threshold /\ now - f[Len(f)] < Cooldown

\* No window of the clock, both its ends included, ever holds more than
\* MaxCalls starts of the tool, wherever the window is laid.
WindowNeverExceeded ==
  \A t \in 0..now :
    Cardinality({i \in DOMAIN seen.startedAt : seen.startedAt[i] \in t..(t + Window)}) <= MaxCalls
=============================================================================
