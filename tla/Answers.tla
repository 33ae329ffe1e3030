------------------------------- MODULE Answers -------------------------------
(***************************************************************************)
(* What the modules of pure functions share.                               *)
(***************************************************************************)
EXTENDS Integers, Sequences, FiniteSets

\* In place of a value: there is none, or the function refuses its arguments.
CONSTANT None

SeqsUpTo(S, n) == UNION {[1..m -> S] : m \in 0..n}

\* sorted: the elements of a finite set, of any two of which one is before the
\* other.
SortedBy(S, Before(_, _)) ==
  CHOOSE order \in [1..Cardinality(S) -> S] :
    \A i, j \in 1..Cardinality(S) : i < j => Before(order[i], order[j])

\* What a loop appends that takes the elements at some places of a sequence.
NthOf(places, i) == CHOOSE k \in places : Cardinality({j \in places : j <= k}) = i
At(s, places) == [i \in 1..Cardinality(places) |-> s[NthOf(places, i)]]
==============================================================================
