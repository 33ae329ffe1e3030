-------------------------------- MODULE FanOut --------------------------------
(***************************************************************************)
(* One batch of a ParallelFanOut whose workers share an                    *)
(* AdaptiveConcurrencyLimiter: the thread pool, the condition variable the *)
(* threads wait on, and the caller that collects the futures.              *)
(***************************************************************************)
EXTENDS Integers, Sequences, FiniteSets, SequencesExt

CONSTANTS
  Workers,                    \* the pool's threads: min(max_workers, len(tasks))
  TaskCount,                  \* len(tasks), between 1 and max_tasks
  MinInFlight, MaxInFlight,   \* the limiter's bounds
  None

VARIABLES
  how,       \* how the workers call acquire, and whether the limiter adapts
  limiter,   \* _in_flight, _effective_limit, _error_streak
  threads,   \* per worker: pc, the task it runs, what became of the task
  batch      \* the pool's queue, the futures' results, ordered, and what run returned

fanOutVars == <<how, limiter, threads, batch>>

Tasks == 1..TaskCount
Outcomes == {"ok", "failed"}

\* What the constructors accept.
FanOutConstantsOK ==
  /\ IsFiniteSet(Workers) /\ TaskCount \in Nat \ {0}
  /\ MinInFlight \in Nat \ {0} /\ MaxInFlight \in Nat /\ MinInFlight <= MaxInFlight

Init ==
  /\ how \in [acquire : {"blocking", "timed", "nonblocking"}, adaptive : BOOLEAN]
  /\ limiter = [inFlight |-> 0, limit |-> MaxInFlight, streak |-> 0]
  /\ threads = [w \in Workers |-> [pc |-> "free", task |-> 0, outcome |-> None]]
  /\ batch = [submitted |-> 0, results |-> [i \in Tasks |-> None],
              ordered |-> [i \in Tasks |-> None], returned |-> None]

Go(w, pc) == threads' = [threads EXCEPT ![w].pc = pc]

-----------------------------------------------------------------------------
(* The limiter *)

Full == limiter.inFlight >= limiter.limit

\* acquire: a thread at the limit sleeps, or gives up when it does not block.
Acquire(w) ==
  /\ threads[w].pc \in {"wants", "woken"}
  /\ \/ /\ ~Full
        /\ limiter' = [limiter EXCEPT !.inFlight = @ + 1]
        /\ Go(w, "inside")
     \/ /\ Full /\ how.acquire # "nonblocking"
        /\ Go(w, "asleep")
        /\ UNCHANGED limiter
     \/ /\ Full /\ how.acquire = "nonblocking"
        /\ threads' = [threads EXCEPT ![w].pc = "ran", ![w].outcome = "failed"]
        /\ UNCHANGED limiter
  /\ UNCHANGED <<how, batch>>

\* The timeout of acquire passes, also between a notify and the thread's turn.
TimedOut(w) ==
  /\ how.acquire = "timed" /\ threads[w].pc \in {"asleep", "woken"}
  /\ threads' = [threads EXCEPT ![w].pc = "ran", ![w].outcome = "failed"]
  /\ UNCHANGED <<how, limiter, batch>>

\* mutant: release wakes one waiter
Woken_One(ts) ==
  IF \E w \in Workers : ts[w].pc = "asleep"
    THEN LET w == CHOOSE w \in Workers : ts[w].pc = "asleep" IN [ts EXCEPT ![w].pc = "woken"]
    ELSE ts
Woken(ts) == [w \in Workers |-> IF ts[w].pc = "asleep" THEN [ts[w] EXCEPT !.pc = "woken"] ELSE ts[w]]

Adapted(l, success) ==
  IF success
    THEN [l EXCEPT !.streak = 0,
                   !.limit = IF how.adaptive /\ @ < MaxInFlight THEN @ + 1 ELSE @]
    ELSE [l EXCEPT !.streak = @ + 1,
                   !.limit = IF how.adaptive /\ @ > MinInFlight THEN @ - 1 ELSE @]

\* The task ends, with a result or an exception; the worker releases its slot.
Release(w) ==
  /\ threads[w].pc = "inside"
  /\ \E outcome \in Outcomes :
       /\ limiter' = Adapted([limiter EXCEPT !.inFlight = @ - 1], outcome = "ok")
       /\ threads' = Woken([threads EXCEPT ![w].pc = "ran", ![w].outcome = outcome])
  /\ UNCHANGED <<how, batch>>

-----------------------------------------------------------------------------
(* The pool and its caller *)

\* A free thread takes the task submitted first.
Take(w) ==
  /\ threads[w].pc = "free" /\ batch.submitted < TaskCount
  /\ batch' = [batch EXCEPT !.submitted = @ + 1]
  /\ threads' = [threads EXCEPT ![w] = [pc |-> "wants", task |-> batch.submitted + 1, outcome |-> None]]
  /\ UNCHANGED <<how, limiter>>

\* _invoke returns: an exception of the worker became a failed result.
Finish(w) ==
  /\ threads[w].pc = "ran"
  /\ batch' = [batch EXCEPT !.results[threads[w].task] =
                 [task |-> threads[w].task, outcome |-> threads[w].outcome]]
  /\ Go(w, "free")
  /\ UNCHANGED <<how, limiter>>

\* mutant: the result goes to the first empty place
Place_Next(i) == CHOOSE j \in Tasks : batch.ordered[j] = None /\ \A k \in 1..(j - 1) : batch.ordered[k] # None
Place(i) == i

\* as_completed yields a finished future, in any order.
Collect(i) ==
  /\ batch.results[i] # None
  /\ \A j \in Tasks : batch.ordered[j] # batch.results[i]
  /\ batch' = [batch EXCEPT !.ordered[Place(i)] = batch.results[i]]
  /\ UNCHANGED <<how, limiter, threads>>

Present(results) ==
  FoldLeft(LAMBDA acc, r : IF r # None THEN Append(acc, r) ELSE acc, <<>>, results)

\* The last future is collected: run returns the results that are there.
Return ==
  /\ batch.returned = None
  /\ Cardinality({j \in Tasks : batch.ordered[j] # None}) = TaskCount
  /\ batch' = [batch EXCEPT !.returned = Present(batch.ordered)]
  /\ UNCHANGED <<how, limiter, threads>>

\* The batch is over: nothing is left to do.
Terminated ==
  /\ batch.returned # None
  /\ UNCHANGED fanOutVars

\* merge_answers, the answers being named by their task.
Merged(results) ==
  FoldLeft(LAMBDA acc, r : IF r.outcome = "ok" THEN Append(acc, r.task) ELSE acc, <<>>, results)

Next ==
  \/ \E w \in Workers : Take(w) \/ Acquire(w) \/ TimedOut(w) \/ Release(w) \/ Finish(w)
  \/ \E i \in Tasks : Collect(i)
  \/ Return \/ Terminated

Spec == Init /\ [][Next]_fanOutVars

-----------------------------------------------------------------------------
(* Properties *)

Inside == {w \in Workers : threads[w].pc = "inside"}

\* No more threads than max_in_flight hold a slot at a time, and no wake-up is
\* lost: a thread that sleeps on the condition while it is not notified finds
\* as many threads inside as the limit allows, however it shrinks and grows.
NoSleepWhileSlotFree ==
  /\ Cardinality(Inside) <= MaxInFlight
  /\ \A w \in Workers : threads[w].pc = "asleep" => Cardinality(Inside) >= limiter.limit

\* Whatever order the futures finish in, a result is collected in the place of
\* its task, run returns one result per task, in the order of the tasks, and
\* merge_answers keeps that order and leaves out exactly the tasks that failed.
ResultsInTaskOrder ==
  /\ \A i \in Tasks : batch.ordered[i] \in {None, batch.results[i]}
  /\ batch.returned # None =>
       /\ batch.returned = batch.results
       /\ \A i \in Tasks : batch.returned[i].task = i
       /\ LET merged == Merged(batch.returned) IN
            /\ \A i, j \in DOMAIN merged : i < j => merged[i] < merged[j]
            /\ {merged[i] : i \in DOMAIN merged}
                 = {i \in Tasks : batch.results[i].outcome = "ok"}
=============================================================================
