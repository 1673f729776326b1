-------------------------------- MODULE RunDb --------------------------------
(***************************************************************************)
(* The run database of zkie-runtime (src/db.rs and src/db/): one action    *)
(* per operation of RunDb, each of them one SQLite transaction.  The       *)
(* tables are variables; a row is addressed by its job.  DbNext is the     *)
(* most general client: any operation, by any number of processes, in any  *)
(* order, with any attempt number, so the invariants hold for every driver *)
(* and not only for the queue that module Queue models.                    *)
(*                                                                         *)
(* Left out: identifiers, timestamps, digests and the failure columns      *)
(* (diagnostics no decision of the code reads back).  A rejected operation *)
(* changes nothing, so it is a step that is not taken here.                *)
(***************************************************************************)
EXTENDS JobState, Naturals, Sequences, FiniteSets

CONSTANTS
    Jobs,             \* job ids; numbers, because SELECT ... ORDER BY job_id
    Kind,             \* the kind of each job
    Edges,            \* dependencies a client may ask for: <<predecessor, successor>>
    MaxAttempts,      \* u32::MAX, where attempt_count.checked_add gives up
    ReservationKeys,  \* keys of resource_history
    Peaks             \* memory peaks a worker may be observed at

ASSUME JobsAssumption == Jobs \subseteq Nat
ASSUME KindAssumption == Kind \in [Jobs -> JobKinds]
ASSUME EdgesAssumption == Edges \subseteq Jobs \X Jobs
ASSUME MaxAttemptsAssumption == MaxAttempts \in Nat
ASSUME PeaksAssumption == Peaks \subseteq Nat \ {0}

VARIABLES
    state,                \* jobs.state, or "absent" when the row does not exist
    attempt_count,        \* jobs.attempt_count
    execution_retries,    \* jobs.execution_retries
    resource_requeues,    \* jobs.resource_requeues
    terminal_failure,     \* jobs.terminal_failure
    dependencies,         \* the dependencies table
    attempts,             \* the attempts table: row n of job j is attempt j:attempt:n
    verification_records, \* per job, the attempts its verification records name
    artifacts,            \* per job, the attempt its artifacts row names, or 0
    key_artifacts,        \* per job, the attempt its key_artifacts row names, or 0
    resource_history      \* per key, the largest observed peak, or 0

jobVars == <<state, attempt_count, execution_retries, resource_requeues, terminal_failure>>
evidenceVars == <<verification_records, artifacts, key_artifacts>>
dbVars == <<state, attempt_count, execution_retries, resource_requeues, terminal_failure,
            dependencies, attempts, verification_records, artifacts, key_artifacts,
            resource_history>>

AttemptNumbers == 1..MaxAttempts
AttemptRow == [state : JobStates \cup {"none"}, open : BOOLEAN]
NoRow == [state |-> "none", open |-> FALSE]

TypeOK ==
    /\ state \in [Jobs -> JobStates \cup {"absent"}]
    /\ attempt_count \in [Jobs -> 0..MaxAttempts]
    /\ execution_retries \in [Jobs -> Nat]
    /\ resource_requeues \in [Jobs -> Nat]
    /\ terminal_failure \in [Jobs -> BOOLEAN]
    /\ dependencies \subseteq Jobs \X Jobs
    /\ attempts \in [Jobs -> [AttemptNumbers -> AttemptRow]]
    /\ verification_records \in [Jobs -> Seq(AttemptNumbers)]
    /\ artifacts \in [Jobs -> 0..MaxAttempts]
    /\ key_artifacts \in [Jobs -> 0..MaxAttempts]
    /\ resource_history \in [ReservationKeys -> Nat]

\* A database whose jobs are all in one state, none of them with an attempt.
DbInitWith(initial, edges) ==
    /\ state = [j \in Jobs |-> initial]
    /\ attempt_count = [j \in Jobs |-> 0]
    /\ execution_retries = [j \in Jobs |-> 0]
    /\ resource_requeues = [j \in Jobs |-> 0]
    /\ terminal_failure = [j \in Jobs |-> FALSE]
    /\ dependencies = edges
    /\ attempts = [j \in Jobs |-> [n \in AttemptNumbers |-> NoRow]]
    /\ verification_records = [j \in Jobs |-> << >>]
    /\ artifacts = [j \in Jobs |-> 0]
    /\ key_artifacts = [j \in Jobs |-> 0]
    /\ resource_history = [k \in ReservationKeys |-> 0]

DbInit == DbInitWith("absent", {})

-----------------------------------------------------------------------------
(* Queries *)

\* predecessor_states reads the states of these jobs.
Predecessors(j) == {p \in Jobs : <<p, j>> \in dependencies}

OpenAttempts(j) == {n \in AttemptNumbers : attempts[j][n].open}

require_unique_open_attempt(j, n) == OpenAttempts(j) = {n}

\* The kinds whose output is checked after their attempt has ended, each with
\* the state the job waits in.
Finished == {<<"Witness", "WitnessReady">>, <<"Prepare", "Prepared">>, <<"LeafProof", "Proved">>}

\* Variant for testing VerifiedByLatestAttempt: any finished attempt may bring a verdict.
AnyFinishedAttempt(j, n) ==
    \/ Kind[j] \in {"LeafVerification", "NativeAggregate"} /\ state[j] = "Verifying"
    \/ <<Kind[j], state[j]>> \in Finished /\ n <= attempt_count[j] /\ ~attempts[j][n].open

\* A verdict is accepted from the unique open attempt of a verifying job, or
\* from the latest attempt, finished, of a job that waits for its verdict.
require_verification_source(j, n) ==
    \/ /\ Kind[j] \in {"LeafVerification", "NativeAggregate"}
       /\ state[j] = "Verifying"
       /\ require_unique_open_attempt(j, n)
    \/ /\ <<Kind[j], state[j]>> \in Finished
       /\ n \in AttemptNumbers
       /\ n = attempt_count[j]
       /\ attempts[j][n] = [state |-> state[j], open |-> FALSE]

required_predecessors_verified(j) ==
    \A p \in Predecessors(j) : state[p] = "Verified"

-----------------------------------------------------------------------------
(* apply_event_tx on the jobs of a set: the state column, and the rows of  *)
(* attempts it closes when the new state is not an active one.             *)

SetState(col, S, next) == [j \in Jobs |-> IF j \in S THEN next ELSE col[j]]

CloseOpen(table, S, next) ==
    [j \in Jobs |->
        IF j \in S
        THEN [n \in AttemptNumbers |->
                IF table[j][n].open THEN [state |-> next, open |-> FALSE] ELSE table[j][n]]
        ELSE table[j]]

\* Event e applied to job j, and its open attempts closed with the state reached.
ApplyEvent(j, e) ==
    /\ state[j] \in source(e)
    /\ state' = SetState(state, {j}, target(e))
    /\ attempts' = CloseOpen(attempts, {j}, target(e))

\* block_descendants_tx: its search from the failed job visits and blocks the
\* waiting jobs below it and stops at every other.  That is the least set of
\* waiting jobs that contains the waiting successors of the failed job and of
\* its own members.
Waiting == {j \in Jobs : state[j] \in source("DependencyBlocked")}
BlocksSuccessors(failed, S) ==
    \A s \in Waiting : Predecessors(s) \cap (S \cup {failed}) # {} => s \in S
\* Variant for testing FailurePropagates: the direct successors only.
block_successors(failed) == {s \in Waiting : failed \in Predecessors(s)}

block_descendants(failed) ==
    {s \in Waiting : \A S \in SUBSET Waiting : BlocksSuccessors(failed, S) => s \in S}

\* A terminal failure of j: the descendants that wait for it are blocked in the
\* same transaction.
FailTerminally(j, e) ==
    LET below == block_descendants(j)
    IN  /\ state' = SetState(SetState(state, {j}, target(e)), below, "Blocked")
        /\ attempts' = CloseOpen(CloseOpen(attempts, {j}, target(e)), below, "Blocked")
        /\ terminal_failure' = SetState(terminal_failure, {j} \cup below, TRUE)

-----------------------------------------------------------------------------
(* Operations *)

insert_job(j) ==
    /\ state[j] = "absent"
    /\ state' = [state EXCEPT ![j] = "Pending"]
    /\ UNCHANGED <<attempt_count, execution_retries, resource_requeues, terminal_failure,
                   dependencies, attempts, evidenceVars, resource_history>>

\* Both jobs must exist; the table's CHECK and PRIMARY KEY refuse the rest.
add_dependency(p, s) ==
    /\ state[p] # "absent"
    /\ state[s] # "absent"
    /\ p # s
    /\ <<p, s>> \notin dependencies
    /\ dependencies' = dependencies \cup {<<p, s>>}
    /\ UNCHANGED <<jobVars, attempts, evidenceVars, resource_history>>

\* Variant for testing PredecessorsVerified: one verified predecessor is enough.
UnlockedByAny ==
    {j \in Waiting : Predecessors(j) = {} \/ \E p \in Predecessors(j) : state[p] = "Verified"}

\* The jobs refresh_readiness unlocks ...
Unlocked == {j \in Waiting : required_predecessors_verified(j)}
\* Variant for testing BlockedHasCause: an interrupted predecessor counts as failed.
BlockedByInterruption(B) ==
    B = {j \in Waiting \ Unlocked :
            \E p \in Predecessors(j) :
                \/ terminal_failure[p]
                \/ state[p] \in {"VerificationFailed", "Blocked", "Interrupted"}
                \/ p \in B /\ p < j}

\* ... and the ones it blocks: it walks the waiting jobs in the order of their
\* ids, so a job also sees the predecessors this pass has already blocked.
BlockedInPass(B) ==
    B = {j \in Waiting \ Unlocked :
            \E p \in Predecessors(j) :
                \/ terminal_failure[p]
                \/ state[p] \in {"VerificationFailed", "Blocked"}
                \/ p \in B /\ p < j}

refresh_readiness ==
    \E B \in SUBSET Waiting :
        /\ BlockedInPass(B)
        /\ state' = SetState(SetState(state, Unlocked, "Ready"), B, "Blocked")
        /\ attempts' = CloseOpen(CloseOpen(attempts, Unlocked, "Ready"), B, "Blocked")
        /\ UNCHANGED <<attempt_count, execution_retries, resource_requeues, terminal_failure,
                       dependencies, evidenceVars, resource_history>>

\* Variant for testing TypeOK: the counter is not checked.
BeginUncounted(j, e) ==
    LET n == attempt_count[j] + 1
    IN  /\ e = start_event(Kind[j])
        /\ OpenAttempts(j) = {}
        /\ state[j] \in source(e)
        /\ state' = [state EXCEPT ![j] = target(e)]
        /\ attempt_count' = [attempt_count EXCEPT ![j] = n]
        /\ attempts' = [attempts EXCEPT ![j] =
                [i \in AttemptNumbers |->
                    IF i = n THEN [state |-> target(e), open |-> TRUE] ELSE @[i]]]
        /\ UNCHANGED <<execution_retries, resource_requeues, terminal_failure, dependencies,
                       evidenceVars, resource_history>>

\* Predecessors are not looked at again: only a job that is Ready can start.
begin_attempt(j, e) ==
    LET n == attempt_count[j] + 1
    IN  /\ e = start_event(Kind[j])
        /\ OpenAttempts(j) = {}
        /\ attempt_count[j] < MaxAttempts
        /\ state[j] \in source(e)
        /\ state' = [state EXCEPT ![j] = target(e)]
        /\ attempt_count' = [attempt_count EXCEPT ![j] = n]
        /\ attempts' = [attempts EXCEPT ![j][n] = [state |-> target(e), open |-> TRUE]]
        /\ UNCHANGED <<execution_retries, resource_requeues, terminal_failure, dependencies,
                       evidenceVars, resource_history>>

\* apply_attempt_event accepts the completion events and Interrupted.
apply_attempt_event(j, n, e) ==
    /\ e \in CompletionEvents \cup {"Interrupted"}
    /\ require_unique_open_attempt(j, n)
    /\ ApplyEvent(j, e)
    /\ UNCHANGED <<attempt_count, execution_retries, resource_requeues, terminal_failure,
                   dependencies, evidenceVars, resource_history>>

\* record_resource_peak_tx keeps the maximum.
PeakRecorded(key, peak) ==
    [resource_history EXCEPT ![key] = IF peak > @ THEN peak ELSE @]

record_resource_peak(key, peak) ==
    /\ resource_history' = PeakRecorded(key, peak)
    /\ UNCHANGED <<jobVars, dependencies, attempts, evidenceVars>>

ExecutionRetryLimit == 2
ResourceRetryLimit == 3

\* handle_attempt_failure below the retry limit: the failure and the retry are
\* two events of one transaction, and the attempt keeps the failure's state.
Requeue(j, e) ==
    /\ state' = [state EXCEPT ![j] = "Requeued"]
    /\ attempts' = CloseOpen(attempts, {j}, target(e))
    /\ UNCHANGED terminal_failure

execution_failed(j, n) ==
    /\ require_unique_open_attempt(j, n)
    /\ state[j] \in source("ExecutionFailed")
    /\ \/ /\ execution_retries[j] < ExecutionRetryLimit
          /\ execution_retries' = [execution_retries EXCEPT ![j] = @ + 1]
          /\ Requeue(j, "ExecutionFailed")
       \/ /\ execution_retries[j] >= ExecutionRetryLimit
          /\ FailTerminally(j, "ExecutionFailed")
          /\ UNCHANGED execution_retries
    /\ UNCHANGED <<attempt_count, resource_requeues, dependencies, evidenceVars,
                   resource_history>>

resource_exceeded(j, n, key, peak) ==
    /\ require_unique_open_attempt(j, n)
    /\ resource_history' = PeakRecorded(key, peak)
    /\ state[j] \in source("ResourceExceeded")
    /\ \/ /\ resource_requeues[j] < ResourceRetryLimit
          /\ resource_requeues' = [resource_requeues EXCEPT ![j] = @ + 1]
          /\ Requeue(j, "ResourceExceeded")
       \/ /\ resource_requeues[j] >= ResourceRetryLimit
          /\ FailTerminally(j, "ResourceExceeded")
          /\ UNCHANGED resource_requeues
    /\ UNCHANGED <<attempt_count, execution_retries, dependencies, evidenceVars>>

fail_verification(j, n) ==
    /\ require_verification_source(j, n)
    /\ state[j] \in source("VerificationFailed")
    /\ FailTerminally(j, "VerificationFailed")
    /\ UNCHANGED <<attempt_count, execution_retries, resource_requeues, dependencies,
                   evidenceVars, resource_history>>

\* The part the three successful verdicts share: the record and the transition.
RecordVerified(j, n) ==
    /\ require_verification_source(j, n)
    /\ verification_records' = [verification_records EXCEPT ![j] = Append(@, n)]
    /\ ApplyEvent(j, "VerificationSucceeded")
    /\ UNCHANGED <<attempt_count, execution_retries, resource_requeues, terminal_failure,
                   dependencies, resource_history>>

\* TrustedProofIdentity::new refuses a LeafVerification job; UNIQUE(run, job).
commit_verified_artifact(j, n) ==
    /\ Kind[j] \in JobKinds \ {"LeafVerification"}
    /\ artifacts[j] = 0
    /\ artifacts' = [artifacts EXCEPT ![j] = n]
    /\ RecordVerified(j, n)
    /\ UNCHANGED key_artifacts

\* TrustedKeyIdentity::new accepts only a Prepare job.
commit_verified_key(j, n) ==
    /\ Kind[j] = "Prepare"
    /\ key_artifacts[j] = 0
    /\ key_artifacts' = [key_artifacts EXCEPT ![j] = n]
    /\ RecordVerified(j, n)
    /\ UNCHANGED artifacts

complete_verification(j, n) ==
    /\ Kind[j] = "LeafVerification"
    /\ RecordVerified(j, n)
    /\ UNCHANGED <<artifacts, key_artifacts>>

\* Every open attempt of an active job is interrupted and its job requeued; no
\* retry is charged.
Interruptible == {j \in Jobs : OpenAttempts(j) # {} /\ state[j] \in ActiveStates}

\* Variants for testing AttemptDiscipline (the attempts stay open),
\* RetryAccounting (an interruption is charged as an execution retry) and
\* EventuallySettled (the second event, the requeue, is missing).
RecoverLeavingOpen ==
    /\ state' = SetState(state, Interruptible, "Requeued")
    /\ UNCHANGED <<attempts, attempt_count, execution_retries, resource_requeues,
                   terminal_failure, dependencies, evidenceVars, resource_history>>

RecoverCharging ==
    /\ state' = SetState(state, Interruptible, "Requeued")
    /\ attempts' = CloseOpen(attempts, Interruptible, "Interrupted")
    /\ execution_retries' =
            [j \in Jobs |-> execution_retries[j] + IF j \in Interruptible THEN 1 ELSE 0]
    /\ UNCHANGED <<attempt_count, resource_requeues, terminal_failure, dependencies,
                   evidenceVars, resource_history>>

RecoverStranding ==
    /\ state' = SetState(state, Interruptible, "Interrupted")
    /\ attempts' = CloseOpen(attempts, Interruptible, "Interrupted")
    /\ UNCHANGED <<attempt_count, execution_retries, resource_requeues, terminal_failure,
                   dependencies, evidenceVars, resource_history>>

\* Variant for testing DbKeepsPromise: a recovered job starts over.
RecoverForgetting ==
    /\ state' = SetState(state, Interruptible, "Pending")
    /\ attempts' = CloseOpen(attempts, Interruptible, "Interrupted")
    /\ UNCHANGED <<attempt_count, execution_retries, resource_requeues, terminal_failure,
                   dependencies, evidenceVars, resource_history>>

recover_interrupted ==
    /\ state' = SetState(state, Interruptible, "Requeued")
    /\ attempts' = CloseOpen(attempts, Interruptible, "Interrupted")
    /\ UNCHANGED <<attempt_count, execution_retries, resource_requeues, terminal_failure,
                   dependencies, evidenceVars, resource_history>>

-----------------------------------------------------------------------------
(* The most general client.  Its one discipline is the queue's: a          *)
(* dependency is added to a job that has not been unlocked yet.            *)

AttemptStep(j, n) ==
    \/ \E e \in CompletionEvents \cup {"Interrupted"} : apply_attempt_event(j, n, e)
    \/ execution_failed(j, n)
    \/ \E key \in ReservationKeys, peak \in Peaks : resource_exceeded(j, n, key, peak)
    \/ fail_verification(j, n)
    \/ commit_verified_artifact(j, n)
    \/ commit_verified_key(j, n)
    \/ complete_verification(j, n)

DbNext ==
    \/ \E j \in Jobs : insert_job(j)
    \/ \E edge \in Edges : state[edge[2]] = "Pending" /\ add_dependency(edge[1], edge[2])
    \/ refresh_readiness
    \/ \E j \in Jobs, e \in StartEvents : begin_attempt(j, e)
    \/ \E j \in Jobs, n \in AttemptNumbers : AttemptStep(j, n)
    \/ \E key \in ReservationKeys, peak \in Peaks : record_resource_peak(key, peak)
    \/ recover_interrupted

DbSpec == DbInit /\ [][DbNext]_dbVars

-----------------------------------------------------------------------------
(* Properties *)

\* Jobs that no operation may move again.
Final(j) ==
    \/ state[j] \in {"Verified", "VerificationFailed", "Blocked"}
    \/ terminal_failure[j]

\* The state column and the attempts table are written by different statements
\* of several transactions, and the code reads both: recover_interrupted finds
\* jobs through their open attempts, begin_attempt refuses a job that has one.
\* They agree: an active job has exactly one open attempt, the latest, in the
\* job's own state; every other job has none.
AttemptDiscipline ==
    \A j \in Jobs :
        /\ OpenAttempts(j) = IF state[j] \in ActiveStates THEN {attempt_count[j]} ELSE {}
        /\ state[j] \in ActiveStates => attempts[j][attempt_count[j]].state = state[j]

\* A job is Verified exactly when it has one verification record; the record
\* and the artifact or key row name the job's latest attempt, and that attempt
\* was never failed or interrupted.  A verdict that arrives late, for an
\* attempt another process has requeued, is never recorded
\* (require_verification_source).
VerifiedByLatestAttempt ==
    \A j \in Jobs :
        IF state[j] = "Verified"
        THEN /\ verification_records[j] = <<attempt_count[j]>>
             /\ attempts[j][attempt_count[j]].state
                    \in {"WitnessReady", "Prepared", "Proved", "Verified"}
             /\ artifacts[j] + key_artifacts[j] =
                    IF Kind[j] = "LeafVerification" THEN 0 ELSE attempt_count[j]
        ELSE /\ verification_records[j] = << >>
             /\ artifacts[j] = 0 /\ key_artifacts[j] = 0

\* begin_attempt does not look at the predecessors: it relies on Ready meaning
\* that they are Verified, and on Verified being final.  So no job is Ready, is
\* running or has ever run unless every predecessor it has is Verified.
PredecessorsVerified ==
    \A j \in Jobs :
        (state[j] = "Ready" \/ attempt_count[j] > 0) => required_predecessors_verified(j)

\* The state column tells whether a job has ever run, which is what lets the
\* queue add the edges of a Pending job, and lets block_descendants_tx leave
\* alone every successor that does not wait: a Pending job has no attempt, and
\* a job without attempts is Pending, Ready or blocked.  Edges join existing jobs.
NeverStartedWhilePending ==
    /\ \A j \in Jobs :
        /\ state[j] \in {"absent", "Pending"} => attempt_count[j] = 0
        /\ attempt_count[j] = 0 => state[j] \in {"absent", "Pending", "Ready", "Blocked"}
    /\ \A p, s \in Jobs : <<p, s>> \in dependencies => state[p] # "absent" /\ state[s] # "absent"

\* terminal_failure is set by another statement than state.  They agree: a job
\* that failed and was not requeued is terminal, and nothing else but a
\* blocked job is.
TerminalConsistent ==
    \A j \in Jobs :
        /\ terminal_failure[j] =>
             state[j] \in {"ExecutionFailed", "ResourceExceeded", "VerificationFailed", "Blocked"}
        /\ state[j] \in {"ExecutionFailed", "ResourceExceeded", "VerificationFailed"} =>
             terminal_failure[j]

\* Blocked jobs are blocked for a reason: some predecessor has failed for good
\* or is blocked itself, whether block_descendants_tx or refresh_readiness did it.
BlockedHasCause ==
    \A j \in Jobs : state[j] = "Blocked" => \E p \in Predecessors(j) : Final(p) /\ state[p] # "Verified"

\* The retry counters against the attempts table: every failed attempt but the
\* one that made the job terminal was charged once, to the counter of its
\* kind, and an interruption was charged to none.
FailedAttempts(j, s) == {n \in AttemptNumbers : attempts[j][n].state = s}
RetryAccounting ==
    \A j \in Jobs :
        /\ Cardinality(FailedAttempts(j, "ExecutionFailed")) =
             execution_retries[j] + (IF state[j] = "ExecutionFailed" THEN 1 ELSE 0)
        /\ Cardinality(FailedAttempts(j, "ResourceExceeded")) =
             resource_requeues[j] + (IF state[j] = "ResourceExceeded" THEN 1 ELSE 0)
        /\ execution_retries[j] <= ExecutionRetryLimit
        /\ resource_requeues[j] <= ResourceRetryLimit

\* What is final stays: a job that is Verified, blocked or has failed for good
\* keeps its state and starts no further attempt, and its evidence rows stay.
KeepsFinal ==
    \A j \in Jobs : Final(j) =>
        /\ state'[j] = state[j]
        /\ attempt_count'[j] = attempt_count[j]
        /\ terminal_failure'[j] = terminal_failure[j]
        /\ verification_records'[j] = verification_records[j]
        /\ artifacts'[j] = artifacts[j]
        /\ key_artifacts'[j] = key_artifacts[j]

FinalIsForever == [][KeepsFinal]_dbVars

\* A job's terminal failure, or its blocking by block_descendants_tx, leaves no
\* successor waiting: the search skips a successor that is not waiting, which
\* is sound only because no such successor can be Ready or have run.
PropagatesFailure ==
    \A j, s \in Jobs :
        ~terminal_failure[j] /\ terminal_failure'[j] /\ <<j, s>> \in dependencies =>
            state'[s] = "Blocked"

FailurePropagates == [][PropagatesFailure]_dbVars

\* What a client may know of a job: from the first time it is Ready until its
\* end, through attempts, failures, interruptions and requeues, it is released.
PhaseOf(s) ==
    CASE s = "absent"   -> "absent"
      [] s = "Pending"  -> "waiting"
      [] s = "Verified" -> "verified"
      [] s = "Blocked"  -> "blocked"
      [] s \in {"ExecutionFailed", "ResourceExceeded", "VerificationFailed"} -> "failed"
      [] OTHER          -> "released"

Execution == INSTANCE DagExecution WITH
    phase <- [j \in Jobs |-> PhaseOf(state[j])],
    needs <- dependencies

\* The database executes the graph: a job is released only when its predecessors
\* are Verified, and no retry, interruption or recovery takes that back.  So a
\* Requeued job, which block_descendants_tx and refresh_readiness treat like a
\* Pending one, is never blocked; a failure blocks exactly the Pending jobs below
\* it; and one pass of refresh_readiness releases every job that can be released.
ImplementsDagExecution == Execution!DagSpec

\* What clients of the database build on: the graph is executed, and what is
\* final, the evidence rows included, stays.
DbKeepsPromise == FinalIsForever /\ ImplementsDagExecution
=============================================================================
