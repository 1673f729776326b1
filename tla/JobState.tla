------------------------------ MODULE JobState ------------------------------
(***************************************************************************)
(* The job state machine of zkie-runtime (src/state.rs): the states a row  *)
(* of the jobs table can be in, the events that move it, and which kinds   *)
(* of job start with which event.                                          *)
(*                                                                         *)
(* Every event of the source has a single target state, so the match of    *)
(* JobState::transition is a table from an event to the states it may      *)
(* leave and the state it reaches.  The payloads (failure record,          *)
(* verification record, blocking predecessor) are left out: every caller   *)
(* in db/ builds the payload that the guards of the match ask for.         *)
(***************************************************************************)

JobKinds ==
    {"Witness", "Prepare", "LeafProof", "LeafVerification", "NativeAggregate"}

JobStates ==
    {"Pending", "Ready", "Witnessing", "WitnessReady", "Preparing", "Prepared",
     "Proving", "Proved", "Verifying", "Verified", "ExecutionFailed",
     "VerificationFailed", "ResourceExceeded", "Interrupted", "Requeued",
     "Blocked"}

\* JobState::is_active: a worker may be running on the job's open attempt.
ActiveStates == {"Witnessing", "Preparing", "Proving", "Verifying"}

\* JobEvent::starts_attempt
StartEvents ==
    {"StartWitnessing", "StartPreparing", "StartProving", "StartVerification"}

\* The completion events apply_attempt_event lets a worker's driver report.
CompletionEvents == {"WitnessCompleted", "PreparationCompleted", "ProofProduced"}

\* The states a verification verdict may be recorded in.
AwaitingVerdict == {"WitnessReady", "Prepared", "Proved", "Verifying"}

-----------------------------------------------------------------------------
\* JobState::transition: event e is accepted in a state of source(e) ...
source(e) ==
    CASE e \in {"DependenciesSatisfied", "DependencyBlocked"}
                                     -> {"Pending", "Requeued"}
      [] e = "StartWitnessing"       -> {"Ready"}
      [] e = "WitnessCompleted"      -> {"Witnessing"}
      [] e = "StartPreparing"        -> {"Ready", "WitnessReady"}
      [] e = "PreparationCompleted"  -> {"Preparing"}
      [] e = "StartProving"          -> {"Ready", "Preparing"}
      [] e = "ProofProduced"         -> {"Proving"}
      [] e = "StartVerification"     -> {"Ready", "WitnessReady", "Preparing", "Proved"}
      [] e \in {"VerificationSucceeded", "VerificationFailed"}
                                     -> AwaitingVerdict
      [] e \in {"ExecutionFailed", "ResourceExceeded", "Interrupted"}
                                     -> ActiveStates
      [] e = "RetryExecution"        -> {"ExecutionFailed"}
      [] e = "RetryResourceExceeded" -> {"ResourceExceeded"}
      [] e = "RecoveryRequeue"       -> {"Interrupted"}

\* ... and leaves the job in target(e).
target(e) ==
    CASE e = "DependenciesSatisfied" -> "Ready"
      [] e = "DependencyBlocked"     -> "Blocked"
      [] e = "StartWitnessing"       -> "Witnessing"
      [] e = "WitnessCompleted"      -> "WitnessReady"
      [] e = "StartPreparing"        -> "Preparing"
      [] e = "PreparationCompleted"  -> "Prepared"
      [] e = "StartProving"          -> "Proving"
      [] e = "ProofProduced"         -> "Proved"
      [] e = "StartVerification"     -> "Verifying"
      [] e = "VerificationSucceeded" -> "Verified"
      [] e \in {"VerificationFailed", "ExecutionFailed", "ResourceExceeded", "Interrupted"}
                                     -> e
      [] e \in {"RetryExecution", "RetryResourceExceeded", "RecoveryRequeue"}
                                     -> "Requeued"

\* start_matches_kind, and start_event of the queue: the one start event of a kind.
start_event(kind) ==
    CASE kind = "Witness"   -> "StartWitnessing"
      [] kind = "Prepare"   -> "StartPreparing"
      [] kind = "LeafProof" -> "StartProving"
      [] kind \in {"LeafVerification", "NativeAggregate"} -> "StartVerification"

\* The completion event the queue reports for a kind whose output is published
\* after the worker has ended.
completion_event(kind) ==
    CASE kind = "Witness"   -> "WitnessCompleted"
      [] kind = "Prepare"   -> "PreparationCompleted"
      [] kind = "LeafProof" -> "ProofProduced"
=============================================================================
