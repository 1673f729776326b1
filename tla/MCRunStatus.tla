----------------------------- MODULE MCRunStatus -----------------------------
(* The plans of MCQueue, looked at by status and verify while they run. *)
EXTENDS MCQueue, RunStatus
=============================================================================
