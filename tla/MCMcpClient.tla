---------------------------- MODULE MCMcpClient ----------------------------
(***************************************************************************)
(* Two threads over one client whose server may be replaced once: enough   *)
(* for one to register, write or wait while the other replaces the         *)
(* process under it, and for a reader to outlive its process.              *)
(***************************************************************************)
EXTENDS McpClient, TLC

\* Threads are told apart by nothing but their name.
ThreadSymmetry == Permutations(Threads)
=============================================================================
