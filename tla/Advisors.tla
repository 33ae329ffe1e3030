------------------------------- MODULE Advisors -------------------------------
(***************************************************************************)
(* The use of an advisor: it is constructed, with its default limits or    *)
(* with limits of the caller, and asked about one measurement after the    *)
(* other.  What a caller relies on is how the answers of one object        *)
(* compare, so the answers are kept.                                       *)
(***************************************************************************)
EXTENDS AdvisorCatalog, Answers

CONSTANTS
  Values,     \* measurements
  Limits,     \* <<soft, hard>> pairs a caller may construct a ceiling with
  Maxima,     \* maxima a caller may pass to a budget
  MaxCalls    \* bound on the calls of one object

ASSUME AdvisorConstantsOK ==
  /\ Values \subseteq Number
  /\ Limits \subseteq Number \X Number
  /\ Maxima \subseteq Int
  /\ MaxCalls \in Nat
  /\ None \notin Catalog

VARIABLES
  obj,      \* the advisor in use, None before the constructor returns
  answers   \* what it answered: measurement and severity

advisorVars == <<obj, answers>>

Init == obj = None /\ answers = {}

\* __init__ with default limits.
Construct(a) ==
  /\ obj = None
  /\ a.kind = "ceiling" => Accepts(a.soft, a.hard)
  /\ obj' = a
  /\ UNCHANGED answers

\* __init__ with limits of the caller.
ConstructWith(a, limits) ==
  /\ obj = None
  /\ a.type = "float"
  /\ Accepts(limits[1], limits[2])
  /\ obj' = [a EXCEPT !.soft = limits[1], !.hard = limits[2]]
  /\ UNCHANGED answers

\* check with a maximum of the caller; the advisor keeps none of its own.
ConstructWithMax(a, max) ==
  /\ obj = None
  /\ max >= 1
  /\ obj' = [a EXCEPT !.max = max]
  /\ UNCHANGED answers

\* advise or check with a non-empty id: a measurement outside the range
\* raises ValueError and leaves no trace.
Advise(v) ==
  /\ obj # None
  /\ Cardinality(answers) < MaxCalls
  /\ v = NaN => obj.type = "float"
  /\ InRange(obj, v)
  /\ answers' = answers \cup {[value |-> v, severity |-> Severity(obj, v)]}
  /\ UNCHANGED obj

\* The object is dropped.
Drop ==
  /\ obj # None
  /\ obj' = None
  /\ answers' = {}

Next ==
  \/ \E a \in Catalog : Construct(a)
  \/ \E a \in Ceilings, limits \in Limits : ConstructWith(a, limits)
  \/ \E a \in Budgets, max \in Maxima : ConstructWithMax(a, max)
  \/ \E v \in Values : Advise(v)
  \/ Drop

Spec == Init /\ [][Next]_advisorVars

-----------------------------------------------------------------------------
(* Properties *)

\* A larger measurement is never graded less severe by the same object,
\* whatever limits its constructor accepted (advise and check keep nothing
\* between calls, the "hysteresis" advisor included).
SeverityNeverFalls ==
  \A x, y \in answers : Le(x.value, y.value) => x.severity <= y.severity

\* An advisor that compares with <= fails closed: a band below the last one is
\* only answered to a number, and only when the limit of the band is a number.
\* A soft limit of NaN leaves no "ok"; a hard one of NaN leaves "ok" below the
\* soft limit and sends all the rest to the last band.
FailsClosed ==
  obj # None /\ obj.kind = "ceiling" =>
    \A x \in answers :
      /\ x.severity = 0 => x.value # NaN /\ obj.soft # NaN
      /\ x.severity = 1 => x.value # NaN /\ obj.hard # NaN

\* A budget warns before it is exhausted: using one more unit never leads
\* from "ok" straight to "exhausted", however small the budget.
WarnedBeforeExhausted ==
  obj # None /\ obj.kind = "budget" =>
    \A x, y \in answers : x.severity = 0 /\ y.severity = 2 => y.value > x.value + 1
=============================================================================
