------------------------------ MODULE MCLibrary ------------------------------
(***************************************************************************)
(* The instance of Library for TLC.  Library.cfg gives two bots and keys a *)
(* board that is full with one of them and a lease the clock outlives;     *)
(* overlapping calls around a cooldown and a window that both pass twice;  *)
(* more threads than slots and a limit that can shrink; caps that are      *)
(* reached and cleared again within the operations; a period that passes   *)
(* twice under three reports; two servers, so that one is up when the      *)
(* other fails; and all dependencies between three plan steps.             *)
(***************************************************************************)
EXTENDS Library

(* Advisors: every one of the catalog, asked twice about measurements at and *)
(* next to the limits of all of them, and about NaN.                         *)

Around(n) == {n - 1, n, n + 1}

MCValues ==
  UNION {{a.soft, a.soft + 1, a.hard, a.hard + 1} : a \in Ceilings}
    \cup UNION {Around(a.soft) \cup Around(a.hard) : a \in Watchdogs}
    \cup UNION {Around(a.max) \cup Around(a.max - Margin(a)) : a \in Budgets}
    \cup {-1, 0, NaN}

\* Budgets smaller than their divisor, and one that is refused.
MCMaxima == {0, 1, 2, 3, 9}

\* Accepted and rejected limits, NaN among them.
MCLimits == {<<1, 2>>, <<0, 5>>, <<5, 5>>, <<NaN, 5>>, <<5, NaN>>, <<NaN, NaN>>}

=============================================================================
