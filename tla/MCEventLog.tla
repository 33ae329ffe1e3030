------------------------------ MODULE MCEventLog ------------------------------
(***************************************************************************)
(* Two processes over one database: enough for both to read the same       *)
(* number, for one to wait behind the lock of the other, and for one to    *)
(* keep a snapshot while the other commits.                                *)
(***************************************************************************)
EXTENDS EventLog
=============================================================================
