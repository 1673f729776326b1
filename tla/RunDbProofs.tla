----------------------------- MODULE RunDbProofs -----------------------------
(***************************************************************************)
(* Proofs about RunDb, for every set of jobs, kind assignment, dependency  *)
(* graph and attempt limit.                                                *)
(***************************************************************************)
EXTENDS RunDb, FiniteSetTheorems, NaturalsInduction, WellFoundedInduction, TLAPS

-----------------------------------------------------------------------------
(* The operators the operations are built from *)

\* JobState::transition, event by event.
LEMMA EventFacts ==
    /\ source("StartWitnessing") = {"Ready"} /\ target("StartWitnessing") = "Witnessing"
    /\ source("StartPreparing") = {"Ready", "WitnessReady"}
    /\ target("StartPreparing") = "Preparing"
    /\ source("StartProving") = {"Ready", "Preparing"} /\ target("StartProving") = "Proving"
    /\ source("StartVerification") = {"Ready", "WitnessReady", "Preparing", "Proved"}
    /\ target("StartVerification") = "Verifying"
    /\ source("WitnessCompleted") = {"Witnessing"}
    /\ target("WitnessCompleted") = "WitnessReady"
    /\ source("PreparationCompleted") = {"Preparing"}
    /\ target("PreparationCompleted") = "Prepared"
    /\ source("ProofProduced") = {"Proving"} /\ target("ProofProduced") = "Proved"
    /\ source("Interrupted") = ActiveStates /\ target("Interrupted") = "Interrupted"
    /\ source("ExecutionFailed") = ActiveStates
    /\ target("ExecutionFailed") = "ExecutionFailed"
    /\ source("ResourceExceeded") = ActiveStates
    /\ target("ResourceExceeded") = "ResourceExceeded"
    /\ source("VerificationFailed") = AwaitingVerdict
    /\ target("VerificationFailed") = "VerificationFailed"
    /\ source("VerificationSucceeded") = AwaitingVerdict
    /\ target("VerificationSucceeded") = "Verified"
    /\ source("DependencyBlocked") = {"Pending", "Requeued"}
  BY Zenon DEF source, target

\* What starting an attempt needs and does, whatever the kind of the job.
LEMMA StartFacts ==
    ASSUME NEW k \in JobKinds
    PROVE  /\ start_event(k) \in StartEvents
           /\ source(start_event(k)) \subseteq
                {"Ready", "WitnessReady", "Preparing", "Proved"}
           /\ target(start_event(k)) \in ActiveStates
  <1>1. start_event(k) \in StartEvents
    BY Zenon DEF JobKinds, start_event, StartEvents
  <1>2. QED
    BY <1>1, EventFacts DEF StartEvents, ActiveStates

\* The completion events and Interrupted leave an active state for one that is
\* neither active, nor waiting, nor final.
LEMMA CompletionFacts ==
    ASSUME NEW e \in CompletionEvents \cup {"Interrupted"}
    PROVE  /\ source(e) \subseteq ActiveStates
           /\ target(e) \in {"WitnessReady", "Prepared", "Proved", "Interrupted"}
  BY EventFacts DEF CompletionEvents, ActiveStates

\* The waiting jobs are the ones that are Pending or Requeued.
LEMMA WaitingFacts ==
    Waiting = {j \in Jobs : state[j] \in {"Pending", "Requeued"}}
  BY EventFacts, Zenon DEF Waiting

\* SetState changes the jobs of its set and no other.
LEMMA SetStateFacts ==
    ASSUME NEW col \in [Jobs -> JobStates \cup {"absent"}], NEW S, NEW v \in JobStates
    PROVE  /\ SetState(col, S, v) \in [Jobs -> JobStates \cup {"absent"}]
           /\ \A j \in Jobs : SetState(col, S, v)[j] = IF j \in S THEN v ELSE col[j]
  BY DEF SetState

\* CloseOpen leaves no attempt of its jobs open, gives the ones it closes the
\* new state, and changes nothing else.
LEMMA CloseOpenFacts ==
    ASSUME NEW table \in [Jobs -> [AttemptNumbers -> AttemptRow]],
           NEW S, NEW v \in JobStates
    PROVE  /\ CloseOpen(table, S, v) \in [Jobs -> [AttemptNumbers -> AttemptRow]]
           /\ \A j \in Jobs : j \notin S => CloseOpen(table, S, v)[j] = table[j]
           /\ \A j \in Jobs, n \in AttemptNumbers : j \in S =>
                 CloseOpen(table, S, v)[j][n] =
                     IF table[j][n].open THEN [state |-> v, open |-> FALSE] ELSE table[j][n]
  <1>1. [state |-> v, open |-> FALSE] \in AttemptRow
    BY DEF AttemptRow
  <1>2. QED
    BY <1>1, SMT DEF CloseOpen

\* block_descendants blocks waiting jobs only, all the waiting successors of
\* the failed job and of the jobs it blocks, and no job without such a
\* predecessor.
LEMMA DescendantFacts ==
    ASSUME NEW f \in Jobs
    PROVE  /\ block_descendants(f) \subseteq Waiting
           /\ BlocksSuccessors(f, block_descendants(f))
           /\ \A s \in block_descendants(f) :
                 Predecessors(s) \cap (block_descendants(f) \cup {f}) # {}
  <1> DEFINE L == block_descendants(f)
  <1>1. L \subseteq Waiting
    BY DEF block_descendants
  <1>2. BlocksSuccessors(f, L)
    <2> SUFFICES ASSUME NEW s \in Waiting, Predecessors(s) \cap (L \cup {f}) # {},
                        NEW S \in SUBSET Waiting, BlocksSuccessors(f, S)
                 PROVE  s \in S
      BY DEF BlocksSuccessors, block_descendants
    <2>1. L \subseteq S
      BY DEF block_descendants
    <2>2. Predecessors(s) \cap (S \cup {f}) # {}
      BY <2>1
    <2> QED
      BY <2>2 DEF BlocksSuccessors
  <1>3. ASSUME NEW s \in L, Predecessors(s) \cap (L \cup {f}) = {}
        PROVE  FALSE
    <2> DEFINE S == L \ {s}
    <2>1. S \in SUBSET Waiting
      BY <1>1
    <2>2. BlocksSuccessors(f, S)
      BY <1>2, <1>3 DEF BlocksSuccessors
    <2>3. s \in S
      BY <2>1, <2>2 DEF block_descendants
    <2> QED
      BY <2>3
  <1> QED
    BY <1>1, <1>2, <1>3

-----------------------------------------------------------------------------
(* Type correctness *)

\* The columns and tables keep their types under every operation.
LEMMA TypeOKStep ==
    ASSUME TypeOK, [DbNext]_dbVars
    PROVE  TypeOK'
  <1> USE JobsAssumption, KindAssumption, EdgesAssumption, MaxAttemptsAssumption,
          PeaksAssumption DEF TypeOK, jobVars, evidenceVars
  <1> DEFINE Columns == JobStates \cup {"absent"}
             Tables == [Jobs -> [AttemptNumbers -> AttemptRow]]
  <1>1. ASSUME NEW j \in Jobs, insert_job(j)
        PROVE  TypeOK'
    BY <1>1 DEF insert_job, JobStates
  <1>2. ASSUME NEW p \in Jobs, NEW s \in Jobs, add_dependency(p, s)
        PROVE  TypeOK'
    <2>1. dependencies' \subseteq Jobs \X Jobs
      BY <1>2 DEF add_dependency
    <2> QED
      BY <1>2, <2>1 DEF add_dependency
  <1>3. ASSUME refresh_readiness
        PROVE  TypeOK'
    <2> PICK B \in SUBSET Waiting :
            /\ state' = SetState(SetState(state, Unlocked, "Ready"), B, "Blocked")
            /\ attempts' = CloseOpen(CloseOpen(attempts, Unlocked, "Ready"), B, "Blocked")
      BY <1>3 DEF refresh_readiness
    <2>0. "Ready" \in JobStates /\ "Blocked" \in JobStates
      BY DEF JobStates
    <2>2. state' \in [Jobs -> Columns]
      BY <2>0 DEF SetState
    <2>3. CloseOpen(attempts, Unlocked, "Ready") \in Tables
      BY <2>0, CloseOpenFacts
    <2>4. attempts' \in Tables
      BY <2>0, <2>3, CloseOpenFacts
    <2> QED
      BY <1>3, <2>2, <2>4 DEF refresh_readiness
  <1>4. ASSUME NEW j \in Jobs, NEW e \in StartEvents, begin_attempt(j, e)
        PROVE  TypeOK'
    <2>1. target(e) \in JobStates
      BY EventFacts DEF StartEvents, JobStates
    <2>2. attempt_count[j] + 1 \in AttemptNumbers
      BY <1>4 DEF begin_attempt, AttemptNumbers
    <2>3. attempts' \in Tables
      BY <1>4, <2>1, <2>2 DEF begin_attempt, AttemptRow
    <2>4. state' \in [Jobs -> Columns] /\ attempt_count' \in [Jobs -> 0..MaxAttempts]
      BY <1>4, <2>1, <2>2 DEF begin_attempt, AttemptNumbers
    <2> QED
      BY <1>4, <2>3, <2>4 DEF begin_attempt
  <1>5. ASSUME NEW j \in Jobs, NEW v \in JobStates,
               state' = SetState(state, {j}, v), attempts' = CloseOpen(attempts, {j}, v)
        PROVE  state' \in [Jobs -> Columns] /\ attempts' \in Tables
    BY <1>5, SetStateFacts, CloseOpenFacts
  <1>6. ASSUME NEW j \in Jobs, NEW e \in {"ExecutionFailed", "ResourceExceeded"}, Requeue(j, e)
        PROVE  /\ state' \in [Jobs -> Columns] /\ attempts' \in Tables
               /\ terminal_failure' \in [Jobs -> BOOLEAN]
    <2>1. target(e) \in JobStates
      BY EventFacts DEF JobStates
    <2> QED
      BY <1>6, <2>1, CloseOpenFacts DEF Requeue, JobStates
  <1>7. ASSUME NEW j \in Jobs, FailTerminally(j, "ExecutionFailed")
                \/ FailTerminally(j, "ResourceExceeded") \/ FailTerminally(j, "VerificationFailed")
        PROVE  /\ state' \in [Jobs -> Columns] /\ attempts' \in Tables
               /\ terminal_failure' \in [Jobs -> BOOLEAN]
    <2> DEFINE below == block_descendants(j)
    <2> PICK v \in {"ExecutionFailed", "ResourceExceeded", "VerificationFailed"} :
            /\ state' = SetState(SetState(state, {j}, v), below, "Blocked")
            /\ attempts' = CloseOpen(CloseOpen(attempts, {j}, v), below, "Blocked")
            /\ terminal_failure' = SetState(terminal_failure, {j} \cup below, TRUE)
      BY <1>7, EventFacts, Zenon DEF FailTerminally
    <2> HIDE DEF below
    <2>0. v \in JobStates /\ "Blocked" \in JobStates
      BY DEF JobStates
    <2>1. SetState(state, {j}, v) \in [Jobs -> Columns]
      BY <2>0, SetStateFacts
    <2>2. state' \in [Jobs -> Columns]
      BY <2>0, <2>1, SetStateFacts
    <2>3. CloseOpen(attempts, {j}, v) \in Tables
      BY <2>0, CloseOpenFacts
    <2>4. attempts' \in Tables
      BY <2>0, <2>3, CloseOpenFacts
    <2>5. terminal_failure' \in [Jobs -> BOOLEAN]
      BY DEF SetState
    <2> QED
      BY <2>2, <2>4, <2>5
  <1>8. ASSUME NEW j \in Jobs, NEW n \in AttemptNumbers,
               NEW e \in CompletionEvents \cup {"Interrupted"}, apply_attempt_event(j, n, e)
        PROVE  TypeOK'
    <2>1. target(e) \in JobStates
      BY CompletionFacts DEF JobStates
    <2> QED
      BY <1>8, <2>1, <1>5 DEF apply_attempt_event, ApplyEvent
  <1>9. ASSUME NEW j \in Jobs, NEW n \in AttemptNumbers, execution_failed(j, n)
        PROVE  TypeOK'
    <2>1. execution_retries' \in [Jobs -> Nat]
      BY <1>9 DEF execution_failed
    <2> QED
      BY <1>9, <1>6, <1>7, <2>1 DEF execution_failed
  <1>10. ASSUME NEW key \in ReservationKeys, NEW peak \in Peaks,
                resource_history' = PeakRecorded(key, peak)
         PROVE  resource_history' \in [ReservationKeys -> Nat]
    BY <1>10 DEF PeakRecorded
  <1>11. ASSUME NEW j \in Jobs, NEW n \in AttemptNumbers, NEW key \in ReservationKeys,
                NEW peak \in Peaks, resource_exceeded(j, n, key, peak)
         PROVE  TypeOK'
    <2>1. resource_requeues' \in [Jobs -> Nat]
      <3>1. \/ resource_requeues' = [resource_requeues EXCEPT ![j] = @ + 1]
            \/ UNCHANGED resource_requeues
        BY ONLY <1>11 DEF resource_exceeded
      <3>2. resource_requeues \in [Jobs -> Nat]
        OBVIOUS
      <3> QED
        BY ONLY <3>1, <3>2
    <2>2. resource_history' \in [ReservationKeys -> Nat]
      BY <1>10, <1>11 DEF resource_exceeded
    <2> QED
      BY <1>11, <1>6, <1>7, <2>1, <2>2 DEF resource_exceeded
  <1>12. ASSUME NEW j \in Jobs, NEW n \in AttemptNumbers, fail_verification(j, n)
         PROVE  TypeOK'
    BY <1>7, <1>12 DEF fail_verification
  <1>13. ASSUME NEW j \in Jobs, NEW n \in AttemptNumbers, RecordVerified(j, n),
                artifacts' \in [Jobs -> 0..MaxAttempts],
                key_artifacts' \in [Jobs -> 0..MaxAttempts]
         PROVE  TypeOK'
    <2>1. target("VerificationSucceeded") \in JobStates
      BY EventFacts DEF JobStates
    <2>2. verification_records' \in [Jobs -> Seq(AttemptNumbers)]
      BY <1>13 DEF RecordVerified
    <2> QED
      BY <1>13, <2>1, <2>2, <1>5 DEF RecordVerified, ApplyEvent
  <1>14. ASSUME NEW j \in Jobs, NEW n \in AttemptNumbers,
                \/ commit_verified_artifact(j, n)
                \/ commit_verified_key(j, n)
                \/ complete_verification(j, n)
         PROVE  TypeOK'
    <2>1. RecordVerified(j, n)
      BY <1>14 DEF commit_verified_artifact, commit_verified_key, complete_verification
    <2>2. n \in 0..MaxAttempts
      BY DEF AttemptNumbers
    <2>3. /\ artifacts' \in [Jobs -> 0..MaxAttempts]
          /\ key_artifacts' \in [Jobs -> 0..MaxAttempts]
      BY <1>14, <2>2 DEF commit_verified_artifact, commit_verified_key, complete_verification
    <2> QED
      BY <1>13, <2>1, <2>3
  <1>15. ASSUME NEW key \in ReservationKeys, NEW peak \in Peaks, record_resource_peak(key, peak)
         PROVE  TypeOK'
    BY <1>10, <1>15 DEF record_resource_peak
  <1>16. ASSUME recover_interrupted
         PROVE  TypeOK'
    <2>1. state' \in [Jobs -> Columns]
      BY <1>16, SetStateFacts DEF recover_interrupted, JobStates
    <2>2. attempts' \in Tables
      BY <1>16, CloseOpenFacts DEF recover_interrupted, JobStates
    <2> QED
      BY <1>16, <2>1, <2>2 DEF recover_interrupted
  <1>17. CASE UNCHANGED dbVars
    BY <1>17 DEF dbVars
  <1>18. QED
    BY <1>1, <1>2, <1>3, <1>4, <1>8, <1>9, <1>11, <1>12, <1>14, <1>15, <1>16, <1>17
       DEF DbNext, AttemptStep

\* Every state the database can reach is well typed; in particular the attempt
\* counter never passes the limit where checked_add gives up (begin_attempt).
THEOREM TypeCorrect == DbSpec => []TypeOK
  <1>1. DbInit => TypeOK
    BY MaxAttemptsAssumption
       DEF DbInit, DbInitWith, TypeOK, AttemptRow, NoRow, AttemptNumbers
  <1>2. QED
    BY <1>1, TypeOKStep, PTL DEF DbSpec

-----------------------------------------------------------------------------
(* What a step does to one job.  Every operation, whatever it does to the  *)
(* others, takes a job along one of eight moves; the invariants follow     *)
(* from the moves.                                                         *)

DbInv ==
    /\ TypeOK
    /\ NeverStartedWhilePending
    /\ AttemptDiscipline
    /\ PredecessorsVerified
    /\ TerminalConsistent
    /\ BlockedHasCause
    /\ VerifiedByLatestAttempt

KeepsEvidence(i) ==
    /\ verification_records'[i] = verification_records[i]
    /\ artifacts'[i] = artifacts[i]
    /\ key_artifacts'[i] = key_artifacts[i]

KeepsRetries(i) ==
    /\ execution_retries'[i] = execution_retries[i]
    /\ resource_requeues'[i] = resource_requeues[i]

KeepsCounters(i) ==
    /\ attempt_count'[i] = attempt_count[i]
    /\ terminal_failure'[i] = terminal_failure[i]
    /\ KeepsRetries(i)

\* An attempt that ends in v without ending its job is charged to the retry
\* counter of its failure, below the limit, and an interruption to none.
Charges(i, v) ==
    /\ execution_retries'[i] = execution_retries[i] + (IF v = "ExecutionFailed" THEN 1 ELSE 0)
    /\ v = "ExecutionFailed" => execution_retries[i] < ExecutionRetryLimit
    /\ resource_requeues'[i] = resource_requeues[i] + (IF v = "ResourceExceeded" THEN 1 ELSE 0)
    /\ v = "ResourceExceeded" => resource_requeues[i] < ResourceRetryLimit

Closes(i, v) ==
    \A n \in AttemptNumbers :
        attempts'[i][n] =
            IF attempts[i][n].open THEN [state |-> v, open |-> FALSE] ELSE attempts[i][n]

Stays(i) ==
    /\ state'[i] = state[i] /\ attempts'[i] = attempts[i]
    /\ KeepsCounters(i) /\ KeepsEvidence(i)

Enters(i) ==
    /\ state[i] = "absent" /\ state'[i] = "Pending"
    /\ attempts'[i] = attempts[i]
    /\ KeepsCounters(i) /\ KeepsEvidence(i)

Unlocks(i) ==
    /\ state[i] \in {"Pending", "Requeued"} /\ state'[i] = "Ready"
    /\ required_predecessors_verified(i)
    /\ \E v \in JobStates : Closes(i, v)
    /\ KeepsCounters(i) /\ KeepsEvidence(i)

Blocks(i) ==
    /\ state[i] \in {"Pending", "Requeued"} /\ state'[i] = "Blocked"
    /\ \E p \in Predecessors(i) :
            terminal_failure'[p] \/ state'[p] \in {"VerificationFailed", "Blocked"}
    /\ \E v \in JobStates : Closes(i, v)
    /\ attempt_count'[i] = attempt_count[i]
    /\ KeepsRetries(i) /\ KeepsEvidence(i)

Starts(i) ==
    /\ state[i] \in {"Ready", "WitnessReady", "Preparing", "Proved"}
    /\ state'[i] \in ActiveStates
    /\ OpenAttempts(i) = {}
    /\ attempt_count'[i] = attempt_count[i] + 1
    /\ attempt_count'[i] \in AttemptNumbers
    /\ attempts'[i] = [attempts[i] EXCEPT ![attempt_count'[i]] =
                                                [state |-> state'[i], open |-> TRUE]]
    /\ terminal_failure'[i] = terminal_failure[i]
    /\ KeepsRetries(i) /\ KeepsEvidence(i)

Ends(i) ==
    /\ state[i] \in ActiveStates
    /\ state'[i] \in {"WitnessReady", "Prepared", "Proved", "Interrupted", "Requeued"}
    /\ \E v \in JobStates : Closes(i, v) /\ Charges(i, v)
    /\ attempt_count'[i] = attempt_count[i]
    /\ terminal_failure'[i] = terminal_failure[i]
    /\ KeepsEvidence(i)

Fails(i) ==
    /\ state[i] \in ActiveStates \cup AwaitingVerdict
    /\ state'[i] \in {"ExecutionFailed", "ResourceExceeded", "VerificationFailed"}
    /\ state'[i] # "VerificationFailed" => state[i] \in ActiveStates
    /\ terminal_failure'[i]
    /\ Closes(i, state'[i])
    /\ attempt_count'[i] = attempt_count[i]
    /\ KeepsRetries(i) /\ KeepsEvidence(i)

Verifies(i) ==
    /\ state[i] \in AwaitingVerdict /\ state'[i] = "Verified"
    /\ KeepsCounters(i)
    /\ Closes(i, "Verified")
    /\ \E n \in AttemptNumbers :
        /\ require_verification_source(i, n)
        /\ verification_records'[i] = Append(verification_records[i], n)
        /\ \/ Kind[i] # "LeafVerification" /\ artifacts'[i] = n /\ key_artifacts'[i] = key_artifacts[i]
           \/ Kind[i] # "LeafVerification" /\ key_artifacts'[i] = n /\ artifacts'[i] = artifacts[i]
           \/ /\ Kind[i] = "LeafVerification"
              /\ artifacts'[i] = artifacts[i] /\ key_artifacts'[i] = key_artifacts[i]

Moves(i) ==
    Stays(i) \/ Enters(i) \/ Unlocks(i) \/ Blocks(i) \/ Starts(i) \/ Ends(i) \/ Fails(i)
        \/ Verifies(i)

\* The edges change only by one into a job that is still Pending.
EdgesGrow ==
    \/ dependencies' = dependencies
    \/ \E p, s \in Jobs :
        /\ state[p] # "absent" /\ state[s] = "Pending"
        /\ dependencies' = dependencies \cup {<<p, s>>}
        /\ \A i \in Jobs : Stays(i)

\* A terminal failure moves the failed job, blocks what waits below it, and
\* leaves the other jobs alone.
LEMMA FailTerminallyMoves ==
    ASSUME TypeOK, NEW f \in Jobs, state[f] \in ActiveStates \cup AwaitingVerdict,
           NEW v \in {"ExecutionFailed", "ResourceExceeded", "VerificationFailed"},
           v # "VerificationFailed" => state[f] \in ActiveStates,
           FailTerminally(f, v), UNCHANGED attempt_count, UNCHANGED evidenceVars,
           UNCHANGED <<execution_retries, resource_requeues>>
    PROVE  \A i \in Jobs : Moves(i)
  <1> DEFINE below == block_descendants(f)
  <1>1. /\ state' = SetState(SetState(state, {f}, v), below, "Blocked")
        /\ attempts' = CloseOpen(CloseOpen(attempts, {f}, v), below, "Blocked")
        /\ terminal_failure' = SetState(terminal_failure, {f} \cup below, TRUE)
    BY EventFacts, Zenon DEF FailTerminally
  <1>2. /\ below \subseteq Waiting
        /\ \A s \in below : Predecessors(s) \cap (below \cup {f}) # {}
    BY DescendantFacts
  <1> HIDE DEF below
  <1>3. \A i \in Waiting : state[i] \in {"Pending", "Requeued"}
    BY WaitingFacts
  <1>4. f \notin below
    BY <1>2, <1>3 DEF ActiveStates, AwaitingVerdict
  <1>5. v \in JobStates /\ "Blocked" \in JobStates
    BY DEF JobStates
  <1>6. \A i \in Jobs : state'[i] = IF i \in below THEN "Blocked" ELSE IF i = f THEN v ELSE state[i]
    BY <1>1 DEF SetState
  <1>7. \A i \in Jobs : terminal_failure'[i] = IF i \in below \cup {f} THEN TRUE ELSE terminal_failure[i]
    BY <1>1 DEF SetState
  <1>8. \A i \in Jobs : KeepsEvidence(i) /\ KeepsRetries(i) /\ attempt_count'[i] = attempt_count[i]
    BY DEF evidenceVars, KeepsEvidence, KeepsRetries
  <1>9. ASSUME NEW i \in Jobs, i \in below
        PROVE  Blocks(i)
    <2>1. Closes(i, "Blocked")
      BY <1>1, <1>4, <1>9 DEF CloseOpen, Closes
    <2>2. PICK p \in Predecessors(i) : p \in below \cup {f}
      BY <1>2, <1>9
    <2>3. terminal_failure'[p]
      BY <1>7, <2>2 DEF Predecessors
    <2> QED
      BY <1>2, <1>3, <1>5, <1>6, <1>8, <1>9, <2>1, <2>2, <2>3 DEF Blocks
  <1>10. Fails(f)
    <2>1. Closes(f, v)
      BY <1>1, <1>4 DEF CloseOpen, Closes
    <2> QED
      BY <1>4, <1>5, <1>6, <1>7, <1>8, <2>1 DEF Fails
  <1>11. ASSUME NEW i \in Jobs, i \notin below, i # f
         PROVE  Stays(i)
    BY <1>1, <1>6, <1>7, <1>8, <1>11 DEF CloseOpen, Stays, KeepsCounters
  <1> QED
    BY <1>9, <1>10, <1>11 DEF Moves

\* Below the retry limit a failure only ends the attempt.
LEMMA RequeueMoves ==
    ASSUME TypeOK, NEW j \in Jobs, state[j] \in ActiveStates,
           NEW e \in {"ExecutionFailed", "ResourceExceeded"}, Requeue(j, e),
           UNCHANGED attempt_count, UNCHANGED evidenceVars,
           Charges(j, e), \A i \in Jobs : i # j => KeepsRetries(i)
    PROVE  \A i \in Jobs : Moves(i)
  <1>1. target(e) = e /\ e \in JobStates
    BY EventFacts DEF JobStates
  <1>2. \A i \in Jobs : /\ KeepsEvidence(i) /\ attempt_count'[i] = attempt_count[i]
                        /\ terminal_failure'[i] = terminal_failure[i]
    BY DEF Requeue, evidenceVars, KeepsEvidence
  <1>3. \A i \in Jobs : state'[i] = IF i = j THEN "Requeued" ELSE state[i]
    BY DEF Requeue, TypeOK
  <1>4. Closes(j, target(e))
    BY DEF Requeue, CloseOpen, Closes
  <1>5. \A i \in Jobs : i # j => attempts'[i] = attempts[i]
    BY DEF Requeue, CloseOpen
  <1>6. Ends(j)
    BY <1>1, <1>2, <1>3, <1>4 DEF Ends
  <1> QED
    BY <1>2, <1>3, <1>5, <1>6 DEF Moves, Stays, KeepsCounters

\* A verdict is about the latest attempt; with it the job is Verified and the
\* others stay.
LEMMA RecordVerifiedMoves ==
    ASSUME TypeOK, NEW j \in Jobs, NEW n \in AttemptNumbers, RecordVerified(j, n),
           \/ /\ Kind[j] # "LeafVerification"
              /\ artifacts' = [artifacts EXCEPT ![j] = n] /\ UNCHANGED key_artifacts
           \/ /\ Kind[j] # "LeafVerification"
              /\ key_artifacts' = [key_artifacts EXCEPT ![j] = n] /\ UNCHANGED artifacts
           \/ /\ Kind[j] = "LeafVerification"
              /\ UNCHANGED <<artifacts, key_artifacts>>
    PROVE  \A i \in Jobs : Moves(i)
  <1>1. /\ state[j] \in AwaitingVerdict
        /\ state' = SetState(state, {j}, "Verified")
        /\ attempts' = CloseOpen(attempts, {j}, "Verified")
    BY EventFacts, Zenon DEF RecordVerified, ApplyEvent
  <1>2. /\ require_verification_source(j, n)
        /\ verification_records' = [verification_records EXCEPT ![j] = Append(@, n)]
        /\ UNCHANGED <<attempt_count, terminal_failure, execution_retries, resource_requeues>>
    BY DEF RecordVerified
  <1>3. \A i \in Jobs : KeepsCounters(i)
    BY <1>2 DEF KeepsCounters, KeepsRetries
  <1>4. \A i \in Jobs : state'[i] = IF i = j THEN "Verified" ELSE state[i]
    BY <1>1 DEF SetState
  <1>5. Closes(j, "Verified")
    BY <1>1 DEF CloseOpen, Closes
  <1>6. \A i \in Jobs : i # j => attempts'[i] = attempts[i]
    BY <1>1 DEF CloseOpen
  <1>7. \A i \in Jobs : i # j => KeepsEvidence(i)
    BY <1>2 DEF KeepsEvidence, TypeOK
  <1>8. Verifies(j)
    <2>1. verification_records'[j] = Append(verification_records[j], n)
      BY <1>2 DEF TypeOK
    <2>2. \/ Kind[j] # "LeafVerification" /\ artifacts'[j] = n /\ key_artifacts'[j] = key_artifacts[j]
          \/ Kind[j] # "LeafVerification" /\ key_artifacts'[j] = n /\ artifacts'[j] = artifacts[j]
          \/ /\ Kind[j] = "LeafVerification"
             /\ artifacts'[j] = artifacts[j] /\ key_artifacts'[j] = key_artifacts[j]
      BY DEF TypeOK
    <2> QED
      BY <1>1, <1>2, <1>3, <1>4, <1>5, <2>1, <2>2 DEF Verifies
  <1> QED
    BY <1>3, <1>4, <1>6, <1>7, <1>8 DEF Moves, Stays

\* The retry counters are numbers.
LEMMA RetriesAreNumbers ==
    ASSUME TypeOK
    PROVE  \A i \in Jobs : execution_retries[i] \in Nat /\ resource_requeues[i] \in Nat
  BY DEF TypeOK

\* Attempts are counted in natural numbers.
LEMMA CountsAreNumbers ==
    ASSUME TypeOK
    PROVE  \A i \in Jobs : attempt_count[i] \in Nat
  <1>1. attempt_count \in [Jobs -> 0..MaxAttempts]
    BY DEF TypeOK
  <1>2. 0..MaxAttempts \subseteq Nat
    BY MaxAttemptsAssumption
  <1> QED
    BY <1>1, <1>2

\* Every step of the general client moves each job along one of the moves.
LEMMA StepMoves ==
    ASSUME TypeOK, DbNext
    PROVE  (\A i \in Jobs : Moves(i)) /\ EdgesGrow
  <1> USE DEF jobVars, evidenceVars, KeepsRetries
  <1>1. ASSUME NEW j \in Jobs, insert_job(j)
        PROVE  (\A i \in Jobs : Moves(i)) /\ EdgesGrow
    <2>1. Enters(j)
      BY <1>1 DEF insert_job, Enters, KeepsCounters, KeepsEvidence, TypeOK
    <2>2. \A i \in Jobs : i # j => Stays(i)
      BY <1>1 DEF insert_job, Stays, KeepsCounters, KeepsEvidence, TypeOK
    <2> QED
      BY <1>1, <2>1, <2>2 DEF insert_job, Moves, EdgesGrow
  <1>2. ASSUME NEW edge \in Edges, state[edge[2]] = "Pending", add_dependency(edge[1], edge[2])
        PROVE  (\A i \in Jobs : Moves(i)) /\ EdgesGrow
    <2>1. edge[1] \in Jobs /\ edge[2] \in Jobs
      BY EdgesAssumption
    <2>2. \A i \in Jobs : Stays(i)
      BY <1>2 DEF add_dependency, Stays, KeepsCounters, KeepsEvidence
    <2>3. state[edge[1]] # "absent" /\ dependencies' = dependencies \cup {<<edge[1], edge[2]>>}
      BY <1>2 DEF add_dependency
    <2> QED
      BY <1>2, <2>1, <2>2, <2>3 DEF Moves, EdgesGrow
  <1>3. ASSUME refresh_readiness
        PROVE  (\A i \in Jobs : Moves(i)) /\ EdgesGrow
    <2> PICK B \in SUBSET Waiting :
            /\ BlockedInPass(B)
            /\ state' = SetState(SetState(state, Unlocked, "Ready"), B, "Blocked")
            /\ attempts' = CloseOpen(CloseOpen(attempts, Unlocked, "Ready"), B, "Blocked")
      BY <1>3 DEF refresh_readiness
    <2>1. UNCHANGED <<attempt_count, terminal_failure, execution_retries, resource_requeues,
                      dependencies, verification_records, artifacts, key_artifacts>>
      BY <1>3 DEF refresh_readiness
    <2>2. \A i \in Jobs : KeepsCounters(i) /\ KeepsEvidence(i)
      BY <2>1 DEF KeepsCounters, KeepsEvidence
    <2>3. /\ \A i \in Waiting : i \in Jobs /\ state[i] \in {"Pending", "Requeued"}
          /\ Unlocked \subseteq Waiting /\ B \cap Unlocked = {}
      BY WaitingFacts DEF Unlocked, BlockedInPass
    <2>4. \A i \in Jobs : state'[i] = IF i \in B THEN "Blocked"
                                     ELSE IF i \in Unlocked THEN "Ready" ELSE state[i]
      BY DEF SetState
    <2>5. "Ready" \in JobStates /\ "Blocked" \in JobStates
      BY DEF JobStates
    <2>6. ASSUME NEW i \in Jobs, i \in Unlocked
          PROVE  Unlocks(i)
      <3>1. Closes(i, "Ready")
        BY <2>3, <2>6 DEF CloseOpen, Closes
      <3>2. required_predecessors_verified(i)
        BY <2>6 DEF Unlocked
      <3> QED
        BY <2>2, <2>3, <2>4, <2>5, <2>6, <3>1, <3>2 DEF Unlocks
    <2>7. ASSUME NEW i \in Jobs, i \in B
          PROVE  Blocks(i)
      <3>1. Closes(i, "Blocked")
        BY <2>3, <2>7 DEF CloseOpen, Closes
      <3>2. PICK p \in Predecessors(i) :
                terminal_failure[p] \/ state[p] \in {"VerificationFailed", "Blocked"} \/ p \in B
        BY <2>7 DEF BlockedInPass
      <3>3. p \in Jobs
        BY DEF Predecessors
      <3>4. terminal_failure'[p] \/ state'[p] \in {"VerificationFailed", "Blocked"}
        BY <2>1, <2>3, <2>4, <3>2, <3>3
      <3> QED
        BY <2>2, <2>3, <2>4, <2>5, <2>7, <3>1, <3>2, <3>4 DEF Blocks, KeepsCounters
    <2>8. ASSUME NEW i \in Jobs, i \notin B, i \notin Unlocked
          PROVE  Stays(i)
      BY <2>2, <2>4, <2>8 DEF Stays, CloseOpen
    <2> QED
      BY <2>1, <2>6, <2>7, <2>8 DEF Moves, EdgesGrow
  <1>4. ASSUME NEW j \in Jobs, NEW e \in StartEvents, begin_attempt(j, e)
        PROVE  (\A i \in Jobs : Moves(i)) /\ EdgesGrow
    <2> DEFINE n == attempt_count[j] + 1
    <2>1. /\ state[j] \in {"Ready", "WitnessReady", "Preparing", "Proved"}
          /\ target(e) \in ActiveStates
      BY <1>4, StartFacts, KindAssumption DEF begin_attempt
    <2>2. /\ OpenAttempts(j) = {}
          /\ attempt_count[j] < MaxAttempts
          /\ state' = [state EXCEPT ![j] = target(e)]
          /\ attempt_count' = [attempt_count EXCEPT ![j] = n]
          /\ attempts' = [attempts EXCEPT ![j][n] = [state |-> target(e), open |-> TRUE]]
          /\ UNCHANGED <<terminal_failure, execution_retries, resource_requeues, dependencies,
                         verification_records, artifacts, key_artifacts>>
      BY <1>4 DEF begin_attempt
    <2>3. n \in AttemptNumbers
      BY <2>2, MaxAttemptsAssumption DEF AttemptNumbers, TypeOK
    <2>4. \A i \in Jobs : KeepsEvidence(i)
      BY <2>2 DEF KeepsEvidence
    <2>5. Starts(j)
      BY <2>1, <2>2, <2>3, <2>4 DEF Starts, TypeOK
    <2>6. \A i \in Jobs : i # j => Stays(i)
      BY <2>2, <2>4 DEF Stays, KeepsCounters, TypeOK
    <2> QED
      BY <2>2, <2>5, <2>6 DEF Moves, EdgesGrow
  <1>5. ASSUME NEW j \in Jobs, NEW n \in AttemptNumbers,
               NEW e \in CompletionEvents \cup {"Interrupted"}, apply_attempt_event(j, n, e)
        PROVE  (\A i \in Jobs : Moves(i)) /\ EdgesGrow
    <2>1. /\ state[j] \in ActiveStates
          /\ target(e) \in {"WitnessReady", "Prepared", "Proved", "Interrupted"}
      BY <1>5, CompletionFacts DEF apply_attempt_event, ApplyEvent
    <2>2. \A i \in Jobs : KeepsCounters(i) /\ KeepsEvidence(i)
      BY <1>5 DEF apply_attempt_event, KeepsCounters, KeepsEvidence
    <2>3. /\ state' = SetState(state, {j}, target(e))
          /\ attempts' = CloseOpen(attempts, {j}, target(e))
          /\ dependencies' = dependencies
      BY <1>5 DEF apply_attempt_event, ApplyEvent
    <2>4. \A i \in Jobs : state'[i] = IF i = j THEN target(e) ELSE state[i]
      BY <2>3 DEF SetState
    <2>5. Closes(j, target(e)) /\ target(e) \in JobStates
      BY <2>1, <2>3 DEF CloseOpen, Closes, JobStates
    <2>6. Ends(j)
      <3>1. Charges(j, target(e))
        BY <2>1, <2>2, RetriesAreNumbers DEF KeepsCounters, Charges
      <3> QED
        BY <2>1, <2>2, <2>4, <2>5, <3>1 DEF Ends, KeepsCounters
    <2>7. \A i \in Jobs : i # j => Stays(i)
      BY <2>2, <2>3, <2>4 DEF Stays, CloseOpen
    <2> QED
      BY <2>3, <2>6, <2>7 DEF Moves, EdgesGrow
  <1>6. ASSUME NEW j \in Jobs, NEW n \in AttemptNumbers, execution_failed(j, n)
        PROVE  (\A i \in Jobs : Moves(i)) /\ EdgesGrow
    <2>1. /\ state[j] \in ActiveStates
          /\ UNCHANGED attempt_count /\ UNCHANGED evidenceVars /\ UNCHANGED dependencies
          /\ UNCHANGED resource_requeues
      BY <1>6, EventFacts DEF execution_failed
    <2>2. CASE /\ execution_retries[j] < ExecutionRetryLimit
               /\ execution_retries' = [execution_retries EXCEPT ![j] = @ + 1]
               /\ Requeue(j, "ExecutionFailed")
      <3>1. Charges(j, "ExecutionFailed") /\ \A i \in Jobs : i # j => KeepsRetries(i)
        BY <2>1, <2>2, RetriesAreNumbers DEF Charges, TypeOK
      <3> QED
        BY <2>1, <2>2, <3>1, RequeueMoves DEF EdgesGrow
    <2>3. CASE FailTerminally(j, "ExecutionFailed") /\ UNCHANGED execution_retries
      BY <2>1, <2>3, FailTerminallyMoves DEF EdgesGrow
    <2> QED
      BY <1>6, <2>2, <2>3 DEF execution_failed
  <1>7. ASSUME NEW j \in Jobs, NEW n \in AttemptNumbers, NEW key \in ReservationKeys,
               NEW peak \in Peaks, resource_exceeded(j, n, key, peak)
        PROVE  (\A i \in Jobs : Moves(i)) /\ EdgesGrow
    <2>1. /\ state[j] \in ActiveStates
          /\ UNCHANGED attempt_count /\ UNCHANGED evidenceVars /\ UNCHANGED dependencies
          /\ UNCHANGED execution_retries
      BY <1>7, EventFacts DEF resource_exceeded
    <2>2. CASE /\ resource_requeues[j] < ResourceRetryLimit
               /\ resource_requeues' = [resource_requeues EXCEPT ![j] = @ + 1]
               /\ Requeue(j, "ResourceExceeded")
      <3>1. Charges(j, "ResourceExceeded") /\ \A i \in Jobs : i # j => KeepsRetries(i)
        BY <2>1, <2>2, RetriesAreNumbers DEF Charges, TypeOK
      <3> QED
        BY <2>1, <2>2, <3>1, RequeueMoves DEF EdgesGrow
    <2>3. CASE FailTerminally(j, "ResourceExceeded") /\ UNCHANGED resource_requeues
      BY <2>1, <2>3, FailTerminallyMoves DEF EdgesGrow
    <2> QED
      BY <1>7, <2>2, <2>3 DEF resource_exceeded
  <1>8. ASSUME NEW j \in Jobs, NEW n \in AttemptNumbers, fail_verification(j, n)
        PROVE  (\A i \in Jobs : Moves(i)) /\ EdgesGrow
    <2>1. /\ state[j] \in AwaitingVerdict
          /\ UNCHANGED attempt_count /\ UNCHANGED evidenceVars /\ UNCHANGED dependencies
          /\ UNCHANGED <<execution_retries, resource_requeues>>
          /\ FailTerminally(j, "VerificationFailed")
      BY <1>8, EventFacts DEF fail_verification
    <2> QED
      BY <2>1, FailTerminallyMoves DEF EdgesGrow
  <1>9. ASSUME NEW j \in Jobs, NEW n \in AttemptNumbers,
               \/ commit_verified_artifact(j, n)
               \/ commit_verified_key(j, n)
               \/ complete_verification(j, n)
        PROVE  (\A i \in Jobs : Moves(i)) /\ EdgesGrow
    <2>1. RecordVerified(j, n)
      BY <1>9 DEF commit_verified_artifact, commit_verified_key, complete_verification
    <2>2. \/ /\ Kind[j] # "LeafVerification"
             /\ artifacts' = [artifacts EXCEPT ![j] = n] /\ UNCHANGED key_artifacts
          \/ /\ Kind[j] # "LeafVerification"
             /\ key_artifacts' = [key_artifacts EXCEPT ![j] = n] /\ UNCHANGED artifacts
          \/ /\ Kind[j] = "LeafVerification"
             /\ UNCHANGED <<artifacts, key_artifacts>>
      BY <1>9 DEF commit_verified_artifact, commit_verified_key, complete_verification
    <2>3. dependencies' = dependencies
      BY <2>1 DEF RecordVerified
    <2> QED
      BY <2>1, <2>2, <2>3, RecordVerifiedMoves DEF EdgesGrow
  <1>10. ASSUME NEW key \in ReservationKeys, NEW peak \in Peaks, record_resource_peak(key, peak)
         PROVE  (\A i \in Jobs : Moves(i)) /\ EdgesGrow
    BY <1>10 DEF record_resource_peak, Moves, Stays, KeepsCounters, KeepsEvidence, EdgesGrow
  <1>11. ASSUME recover_interrupted
         PROVE  (\A i \in Jobs : Moves(i)) /\ EdgesGrow
    <2>1. \A i \in Jobs : KeepsCounters(i) /\ KeepsEvidence(i)
      BY <1>11 DEF recover_interrupted, KeepsCounters, KeepsEvidence
    <2>2. \A i \in Jobs : state'[i] = IF i \in Interruptible THEN "Requeued" ELSE state[i]
      BY <1>11 DEF recover_interrupted, SetState
    <2>3. ASSUME NEW i \in Jobs, i \in Interruptible
          PROVE  Ends(i)
      <3>1. Closes(i, "Interrupted") /\ "Interrupted" \in JobStates
        BY <1>11, <2>3 DEF recover_interrupted, CloseOpen, Closes, JobStates
      <3>2. state[i] \in ActiveStates
        BY <2>3 DEF Interruptible
      <3>3. Charges(i, "Interrupted")
        BY <2>1, RetriesAreNumbers DEF KeepsCounters, Charges
      <3> QED
        BY <2>1, <2>2, <2>3, <3>1, <3>2, <3>3 DEF Ends, KeepsCounters
    <2>4. ASSUME NEW i \in Jobs, i \notin Interruptible
          PROVE  Stays(i)
      BY <1>11, <2>1, <2>2, <2>4 DEF recover_interrupted, CloseOpen, Stays
    <2> QED
      BY <1>11, <2>3, <2>4 DEF recover_interrupted, Moves, EdgesGrow
  <1> QED
    BY <1>1, <1>2, <1>3, <1>4, <1>5, <1>6, <1>7, <1>8, <1>9, <1>10, <1>11
       DEF DbNext, AttemptStep

-----------------------------------------------------------------------------
(* The inductive invariant *)

\* Only a Stays leaves a final job, so what is final stays as it is.
LEMMA FinalStays ==
    ASSUME TypeOK, TerminalConsistent, NEW i \in Jobs, Final(i), Moves(i)
    PROVE  Stays(i)
  <1>1. state[i] \in {"Verified", "VerificationFailed", "Blocked", "ExecutionFailed",
                      "ResourceExceeded"}
    BY DEF Final, TerminalConsistent
  <1> QED
    BY <1>1 DEF Moves, Enters, Unlocks, Blocks, Starts, Ends, Fails, Verifies, ActiveStates,
                AwaitingVerdict

\* The general step of each part of the invariant.
LEMMA NeverStartedStep ==
    ASSUME DbInv, \A i \in Jobs : Moves(i), EdgesGrow
    PROVE  NeverStartedWhilePending'
  <1>1. ASSUME NEW i \in Jobs
        PROVE  /\ state'[i] \in {"absent", "Pending"} => attempt_count'[i] = 0
               /\ attempt_count'[i] = 0 => state'[i] \in {"absent", "Pending", "Ready", "Blocked"}
               /\ state[i] # "absent" => state'[i] # "absent"
    <2>1. attempt_count[i] \in Nat
      BY CountsAreNumbers DEF DbInv
    <2>2. /\ state[i] \in {"absent", "Pending"} => attempt_count[i] = 0
          /\ attempt_count[i] = 0 => state[i] \in {"absent", "Pending", "Ready", "Blocked"}
      BY DEF DbInv, NeverStartedWhilePending
    <2>3. CASE Stays(i) \/ Enters(i) \/ Unlocks(i) \/ Blocks(i)
      BY <2>1, <2>2, <2>3 DEF Stays, Enters, Unlocks, Blocks, KeepsCounters
    <2>4. CASE Starts(i) \/ Ends(i)
      BY <2>1, <2>2, <2>4 DEF Starts, Ends, KeepsCounters, ActiveStates
    <2>5. CASE Fails(i) \/ Verifies(i)
      BY <2>1, <2>2, <2>5 DEF Fails, Verifies, KeepsCounters, ActiveStates, AwaitingVerdict
    <2> QED
      BY <2>3, <2>4, <2>5 DEF Moves
  <1>2. ASSUME NEW p \in Jobs, NEW s \in Jobs, <<p, s>> \in dependencies'
        PROVE  state'[p] # "absent" /\ state'[s] # "absent"
    <2>1. state[p] # "absent" /\ state[s] # "absent"
      BY <1>2 DEF EdgesGrow, DbInv, NeverStartedWhilePending
    <2> QED
      BY <1>1, <2>1
  <1> QED
    BY <1>1, <1>2 DEF NeverStartedWhilePending

LEMMA AttemptDisciplineStep ==
    ASSUME DbInv, TypeOK', NEW i \in Jobs, Moves(i)
    PROVE  /\ OpenAttempts(i)' = IF state'[i] \in ActiveStates THEN {attempt_count'[i]} ELSE {}
           /\ state'[i] \in ActiveStates => attempts'[i][attempt_count'[i]].state = state'[i]
  <1>1. /\ OpenAttempts(i) = IF state[i] \in ActiveStates THEN {attempt_count[i]} ELSE {}
        /\ state[i] \in ActiveStates => attempts[i][attempt_count[i]].state = state[i]
    BY DEF DbInv, AttemptDiscipline
  <1>2. CASE Stays(i)
    BY <1>1, <1>2 DEF Stays, KeepsCounters, OpenAttempts
  <1>3. CASE Enters(i)
    BY <1>1, <1>3 DEF Enters, OpenAttempts, ActiveStates
  <1>4. CASE \E v \in JobStates : Closes(i, v) /\ state'[i] \notin ActiveStates
    BY <1>4 DEF Closes, OpenAttempts
  <1>5. CASE Starts(i)
    <2> DEFINE n == attempt_count'[i]
    <2>1. n \in AttemptNumbers /\ attempts[i] \in [AttemptNumbers -> AttemptRow]
      BY <1>5 DEF Starts, DbInv, TypeOK
    <2>2. \A m \in AttemptNumbers : attempts'[i][m] =
                IF m = n THEN [state |-> state'[i], open |-> TRUE] ELSE attempts[i][m]
      BY <1>5, <2>1 DEF Starts
    <2>3. \A m \in AttemptNumbers : ~attempts[i][m].open
      BY <1>5 DEF Starts, OpenAttempts
    <2> HIDE DEF n
    <2>4. OpenAttempts(i)' = {n}
      BY <2>1, <2>2, <2>3 DEF OpenAttempts
    <2> QED
      BY <1>5, <2>1, <2>2, <2>4 DEF Starts, n
  <1>6. /\ Closes(i, "Verified") => \E v \in JobStates : Closes(i, v)
        /\ Fails(i) => \E v \in JobStates : Closes(i, v)
    BY DEF JobStates, Fails
  <1> QED
    BY <1>2, <1>3, <1>4, <1>5, <1>6
       DEF Moves, Unlocks, Blocks, Ends, Fails, Verifies, ActiveStates

LEMMA PredecessorsVerifiedStep ==
    ASSUME DbInv, \A i \in Jobs : Moves(i), EdgesGrow
    PROVE  PredecessorsVerified'
  <1> SUFFICES ASSUME NEW j \in Jobs, state'[j] = "Ready" \/ attempt_count'[j] > 0,
                      NEW p \in Jobs, <<p, j>> \in dependencies'
               PROVE  state'[p] = "Verified"
    BY DEF PredecessorsVerified, required_predecessors_verified, Predecessors
  <1>1. <<p, j>> \in dependencies
    BY MaxAttemptsAssumption
       DEF EdgesGrow, Stays, KeepsCounters, DbInv, NeverStartedWhilePending, TypeOK
  <1>2. state[p] = "Verified" => state'[p] = "Verified"
    BY FinalStays DEF DbInv, Final, Stays
  <1>3. required_predecessors_verified(j)
    <2>1. attempt_count[j] \in Nat /\ Moves(j)
      BY CountsAreNumbers DEF DbInv
    <2>2. Unlocks(j) \/ state[j] = "Ready" \/ attempt_count[j] > 0
      BY <2>1 DEF Moves, Stays, Enters, Blocks, Starts, Ends, Fails, Verifies, KeepsCounters,
                  DbInv, NeverStartedWhilePending
    <2> QED
      BY <2>2 DEF Unlocks, DbInv, PredecessorsVerified
  <1> QED
    BY <1>1, <1>2, <1>3 DEF required_predecessors_verified, Predecessors

LEMMA TerminalConsistentStep ==
    ASSUME DbInv, NEW j \in Jobs, Moves(j)
    PROVE  /\ terminal_failure'[j] => state'[j] \in {"ExecutionFailed", "ResourceExceeded",
                                                      "VerificationFailed", "Blocked"}
           /\ state'[j] \in {"ExecutionFailed", "ResourceExceeded", "VerificationFailed"} =>
                terminal_failure'[j]
  <1>1. /\ terminal_failure[j] =>
             state[j] \in {"ExecutionFailed", "ResourceExceeded", "VerificationFailed", "Blocked"}
        /\ state[j] \in {"ExecutionFailed", "ResourceExceeded", "VerificationFailed"} =>
             terminal_failure[j]
    BY DEF DbInv, TerminalConsistent
  <1> QED
    BY <1>1 DEF Moves, Stays, Enters, Unlocks, Blocks, Starts, Ends, Fails, Verifies,
                KeepsCounters, ActiveStates, AwaitingVerdict

LEMMA BlockedHasCauseStep ==
    ASSUME DbInv, TerminalConsistent', \A i \in Jobs : Moves(i), EdgesGrow
    PROVE  BlockedHasCause'
  <1> SUFFICES ASSUME NEW j \in Jobs, state'[j] = "Blocked"
               PROVE  \E p \in Jobs : /\ <<p, j>> \in dependencies'
                                      /\ Final(p)' /\ state'[p] # "Verified"
    BY DEF BlockedHasCause, Predecessors
  <1>1. CASE Blocks(j)
    <2> PICK p \in Predecessors(j) :
            terminal_failure'[p] \/ state'[p] \in {"VerificationFailed", "Blocked"}
      BY <1>1 DEF Blocks
    <2> QED
      BY DEF Predecessors, EdgesGrow, Final, TerminalConsistent
  <1>2. CASE Stays(j)
    <2>1. PICK p \in Predecessors(j) : Final(p) /\ state[p] # "Verified"
      BY <1>2 DEF Stays, DbInv, BlockedHasCause
    <2>2. p \in Jobs /\ <<p, j>> \in dependencies'
      BY DEF Predecessors, EdgesGrow
    <2>3. Stays(p)
      BY <2>1, <2>2, FinalStays DEF DbInv
    <2> QED
      BY <2>1, <2>2, <2>3 DEF Stays, Final, KeepsCounters
  <1> QED
    BY <1>1, <1>2 DEF Moves, Enters, Unlocks, Starts, Ends, Fails, Verifies, ActiveStates

LEMMA VerifiedByLatestStep ==
    ASSUME DbInv, NEW j \in Jobs, Moves(j)
    PROVE  IF state'[j] = "Verified"
           THEN /\ verification_records'[j] = <<attempt_count'[j]>>
                /\ attempts'[j][attempt_count'[j]].state
                       \in {"WitnessReady", "Prepared", "Proved", "Verified"}
                /\ artifacts'[j] + key_artifacts'[j] =
                       IF Kind[j] = "LeafVerification" THEN 0 ELSE attempt_count'[j]
           ELSE /\ verification_records'[j] = << >>
                /\ artifacts'[j] = 0 /\ key_artifacts'[j] = 0
  <1>1. IF state[j] = "Verified"
        THEN /\ verification_records[j] = <<attempt_count[j]>>
             /\ attempts[j][attempt_count[j]].state
                    \in {"WitnessReady", "Prepared", "Proved", "Verified"}
             /\ artifacts[j] + key_artifacts[j] =
                    IF Kind[j] = "LeafVerification" THEN 0 ELSE attempt_count[j]
        ELSE /\ verification_records[j] = << >>
             /\ artifacts[j] = 0 /\ key_artifacts[j] = 0
    BY DEF DbInv, VerifiedByLatestAttempt
  <1>2. CASE Stays(j)
    BY <1>1, <1>2 DEF Stays, KeepsCounters, KeepsEvidence
  <1>3. CASE Enters(j) \/ Unlocks(j) \/ Blocks(j) \/ Starts(j) \/ Ends(j) \/ Fails(j)
    BY <1>1, <1>3 DEF Enters, Unlocks, Blocks, Starts, Ends, Fails, KeepsEvidence, ActiveStates,
                      AwaitingVerdict
  <1>4. CASE Verifies(j)
    <2>1. PICK n \in AttemptNumbers :
            /\ require_verification_source(j, n)
            /\ verification_records'[j] = Append(verification_records[j], n)
            /\ \/ Kind[j] # "LeafVerification" /\ artifacts'[j] = n
                    /\ key_artifacts'[j] = key_artifacts[j]
               \/ Kind[j] # "LeafVerification" /\ key_artifacts'[j] = n
                    /\ artifacts'[j] = artifacts[j]
               \/ /\ Kind[j] = "LeafVerification"
                  /\ artifacts'[j] = artifacts[j] /\ key_artifacts'[j] = key_artifacts[j]
      BY <1>4 DEF Verifies
    <2>2. /\ state[j] # "Verified" /\ state'[j] = "Verified"
          /\ attempt_count'[j] = attempt_count[j]
          /\ Closes(j, "Verified")
      BY <1>4 DEF Verifies, KeepsCounters, AwaitingVerdict
    <2>3. /\ n = attempt_count[j]
          /\ attempts'[j][n].state \in {"WitnessReady", "Prepared", "Proved", "Verified"}
      <3>1. CASE state[j] = "Verifying" /\ require_unique_open_attempt(j, n)
        <4>1. OpenAttempts(j) = {n} /\ OpenAttempts(j) = {attempt_count[j]}
          BY <3>1 DEF require_unique_open_attempt, DbInv, AttemptDiscipline, ActiveStates
        <4>2. attempts[j][n].open
          BY <4>1 DEF OpenAttempts
        <4> QED
          BY <2>2, <4>1, <4>2 DEF Closes
      <3>2. CASE /\ <<Kind[j], state[j]>> \in Finished
                 /\ n = attempt_count[j]
                 /\ attempts[j][n] = [state |-> state[j], open |-> FALSE]
        BY <2>2, <3>2 DEF Closes, Finished
      <3> QED
        BY <2>1, <3>1, <3>2 DEF require_verification_source
    <2>4. verification_records'[j] = <<n>>
      <3>1. verification_records[j] = << >>
        BY <1>1, <2>2
      <3>2. Append(<< >>, n) = <<n>>
        OBVIOUS
      <3> QED
        BY <2>1, <3>1, <3>2
    <2>5. artifacts'[j] + key_artifacts'[j] = IF Kind[j] = "LeafVerification" THEN 0 ELSE n
      BY <1>1, <2>1, <2>2 DEF AttemptNumbers
    <2> QED
      BY <2>2, <2>3, <2>4, <2>5
  <1> QED
    BY <1>2, <1>3, <1>4 DEF Moves

\* DbInv holds in a database without attempts, of a run that is planned or not.
LEMMA DbInvWithoutAttempts ==
    ASSUME NEW initial \in {"absent", "Pending"}, NEW edges \in SUBSET (Jobs \X Jobs),
           initial = "absent" => edges = {}, DbInitWith(initial, edges)
    PROVE  DbInv
  <1>1. TypeOK
    BY MaxAttemptsAssumption
       DEF DbInitWith, TypeOK, AttemptRow, NoRow, AttemptNumbers, JobStates
  <1>2. AttemptDiscipline /\ NeverStartedWhilePending /\ PredecessorsVerified
    BY DEF DbInitWith, AttemptDiscipline, NeverStartedWhilePending, OpenAttempts,
           NoRow, ActiveStates, PredecessorsVerified
  <1>3. TerminalConsistent /\ BlockedHasCause /\ VerifiedByLatestAttempt
    BY DEF DbInitWith, TerminalConsistent, BlockedHasCause, VerifiedByLatestAttempt
  <1> QED
    BY <1>1, <1>2, <1>3 DEF DbInv

\* DbInv holds initially and every step preserves it.
LEMMA DbInvInductive ==
    /\ DbInit => DbInv
    /\ DbInv /\ [DbNext]_dbVars => DbInv'
  <1>1. ASSUME DbInit
        PROVE  DbInv
    BY <1>1, DbInvWithoutAttempts DEF DbInit
  <1>2. ASSUME DbInv, DbNext
        PROVE  DbInv'
    <2>1. TypeOK'
      BY <1>2, TypeOKStep DEF DbInv
    <2>2. (\A i \in Jobs : Moves(i)) /\ EdgesGrow
      BY <1>2, StepMoves DEF DbInv
    <2>3. NeverStartedWhilePending' /\ PredecessorsVerified'
      BY <1>2, <2>2, NeverStartedStep, PredecessorsVerifiedStep
    <2>4. AttemptDiscipline'
      BY <1>2, <2>1, <2>2, AttemptDisciplineStep DEF AttemptDiscipline
    <2>5. TerminalConsistent'
      BY <1>2, <2>2, TerminalConsistentStep DEF TerminalConsistent
    <2>6. BlockedHasCause'
      BY <1>2, <2>2, <2>5, BlockedHasCauseStep
    <2>7. VerifiedByLatestAttempt'
      BY <1>2, <2>2, VerifiedByLatestStep DEF VerifiedByLatestAttempt
    <2> QED
      BY <2>1, <2>3, <2>4, <2>5, <2>6, <2>7 DEF DbInv
  <1>3. ASSUME DbInv, UNCHANGED dbVars
        PROVE  DbInv'
    BY <1>3 DEF dbVars, DbInv, TypeOK, NeverStartedWhilePending, AttemptDiscipline, OpenAttempts,
                PredecessorsVerified, required_predecessors_verified, Predecessors,
                TerminalConsistent, BlockedHasCause, Final, VerifiedByLatestAttempt
  <1> QED
    BY <1>1, <1>2, <1>3

-----------------------------------------------------------------------------
(* Theorems *)

\* The state column, the attempts table, the failure flag and the evidence rows
\* agree in every reachable state, whatever processes use the database and in
\* whatever order: the inductive invariant.
THEOREM DbInvariant == DbSpec => []DbInv
  BY DbInvInductive, PTL DEF DbSpec

\* An active job has exactly one open attempt, the latest; other jobs have none.
THEOREM AttemptsAgree == DbSpec => []AttemptDiscipline
  <1>1. DbInv => AttemptDiscipline
    BY DEF DbInv
  <1> QED
    BY <1>1, DbInvariant, PTL

\* Every Verified job was verified once, on its latest attempt
\* (require_verification_source refuses every other).
THEOREM VerdictsAreCurrent == DbSpec => []VerifiedByLatestAttempt
  <1>1. DbInv => VerifiedByLatestAttempt
    BY DEF DbInv
  <1> QED
    BY <1>1, DbInvariant, PTL

\* No job is ready or has run while a predecessor is not Verified, although
\* begin_attempt does not look at the predecessors.
THEOREM NothingRunsEarly == DbSpec => []PredecessorsVerified
  <1>1. DbInv => PredecessorsVerified
    BY DEF DbInv
  <1> QED
    BY <1>1, DbInvariant, PTL

\* The terminal_failure column and the state column agree.
THEOREM FailuresAgree == DbSpec => []TerminalConsistent
  <1>1. DbInv => TerminalConsistent
    BY DEF DbInv
  <1> QED
    BY <1>1, DbInvariant, PTL

\* A blocked job has a predecessor that failed for good or is blocked.
THEOREM BlockingIsJustified == DbSpec => []BlockedHasCause
  <1>1. DbInv => BlockedHasCause
    BY DEF DbInv
  <1> QED
    BY <1>1, DbInvariant, PTL

\* No operation moves a Verified, failed or blocked job, or touches its evidence.
THEOREM FinalityHolds == DbSpec => FinalIsForever
  <1>1. DbInv /\ [DbNext]_dbVars => [KeepsFinal]_dbVars
    <2> SUFFICES ASSUME DbInv, DbNext
                 PROVE  KeepsFinal
      OBVIOUS
    <2>1. \A i \in Jobs : Moves(i)
      BY StepMoves DEF DbInv
    <2>2. \A i \in Jobs : Final(i) => Stays(i)
      BY <2>1, FinalStays DEF DbInv
    <2> QED
      BY <2>2 DEF KeepsFinal, Stays, KeepsCounters, KeepsEvidence
  <1> QED
    BY <1>1, DbInvariant, PTL DEF DbSpec, FinalIsForever

\* A terminal failure of f flags f and the jobs below it; every successor of a
\* flagged job is blocked.
LEMMA FailTerminallyPropagates ==
    ASSUME DbInv, NEW f \in Jobs, state[f] \in ActiveStates \cup AwaitingVerdict,
           NEW v \in {"ExecutionFailed", "ResourceExceeded", "VerificationFailed"},
           FailTerminally(f, v)
    PROVE  PropagatesFailure
  <1> DEFINE below == block_descendants(f)
  <1>1. /\ state' = SetState(SetState(state, {f}, target(v)), below, "Blocked")
        /\ terminal_failure' = SetState(terminal_failure, {f} \cup below, TRUE)
    BY Zenon DEF FailTerminally
  <1>2. below \subseteq Waiting /\ BlocksSuccessors(f, below)
    BY DescendantFacts
  <1> HIDE DEF below
  <1> SUFFICES ASSUME NEW j \in Jobs, NEW s \in Jobs, ~terminal_failure[j], terminal_failure'[j],
                      <<j, s>> \in dependencies
               PROVE  state'[s] = "Blocked"
    BY DEF PropagatesFailure
  <1>3. j \in below \cup {f}
    BY <1>1 DEF SetState
  <1>4. state[j] # "Verified"
    BY <1>2, <1>3, WaitingFacts DEF ActiveStates, AwaitingVerdict
  <1>5. state[s] # "Ready" /\ ~(attempt_count[s] > 0)
    BY <1>4 DEF DbInv, PredecessorsVerified, required_predecessors_verified, Predecessors
  <1>6. attempt_count[s] = 0
    <2>1. attempt_count[s] \in Nat
      BY CountsAreNumbers DEF DbInv
    <2> QED
      BY <1>5, <2>1
  <1>7. state[s] \in {"Pending", "Blocked"}
    BY <1>5, <1>6 DEF DbInv, NeverStartedWhilePending
  <1>8. s # f
    BY <1>7 DEF ActiveStates, AwaitingVerdict
  <1>9. CASE state[s] = "Pending"
    <2>1. s \in Waiting /\ j \in Predecessors(s)
      BY <1>9, WaitingFacts DEF Predecessors
    <2>2. s \in below
      BY <1>2, <1>3, <2>1 DEF BlocksSuccessors
    <2> QED
      BY <1>1, <2>2 DEF SetState
  <1>10. CASE state[s] = "Blocked"
    BY <1>1, <1>8, <1>10 DEF SetState
  <1> QED
    BY <1>7, <1>9, <1>10

\* A terminal failure, and the blocking that follows it, leaves no successor
\* ready or waiting: block_descendants_tx may skip every successor that is not
\* waiting.
THEOREM FailuresPropagate == DbSpec => FailurePropagates
  <1>1. DbInv /\ [DbNext]_dbVars => [PropagatesFailure]_dbVars
    <2> SUFFICES ASSUME DbInv, DbNext
                 PROVE  PropagatesFailure
      OBVIOUS
    <2>1. CASE UNCHANGED terminal_failure
      BY <2>1 DEF PropagatesFailure
    <2>2. ASSUME NEW j \in Jobs, NEW n \in AttemptNumbers,
                 \/ execution_failed(j, n) \/ fail_verification(j, n)
                 \/ \E key \in ReservationKeys, peak \in Peaks : resource_exceeded(j, n, key, peak)
          PROVE  PropagatesFailure
      <3>1. /\ state[j] \in ActiveStates \cup AwaitingVerdict
            /\ \/ FailTerminally(j, "ExecutionFailed") \/ FailTerminally(j, "ResourceExceeded")
               \/ FailTerminally(j, "VerificationFailed") \/ UNCHANGED terminal_failure
        BY <2>2, EventFacts DEF execution_failed, resource_exceeded, fail_verification, Requeue
      <3> QED
        BY <2>1, <3>1, FailTerminallyPropagates
    <2> QED
      BY <2>1, <2>2
         DEF DbNext, AttemptStep, insert_job, add_dependency, jobVars, refresh_readiness,
             begin_attempt, apply_attempt_event, commit_verified_artifact, commit_verified_key,
             complete_verification, RecordVerified, record_resource_peak, recover_interrupted
  <1> QED
    BY <1>1, DbInvariant, PTL DEF DbSpec, FailurePropagates

-----------------------------------------------------------------------------
(* The retry counters *)

FailureKinds == {"ExecutionFailed", "ResourceExceeded"}

\* The table has no row beyond the attempts that were counted, so an attempt
\* that starts overwrites no failure.
RowsCounted ==
    \A j \in Jobs, n \in AttemptNumbers : n > attempt_count[j] => attempts[j][n].state = "none"

RetryInv == DbInv /\ RowsCounted /\ RetryAccounting

\* The counter that a failure of kind s is charged to, and its limit.
Counter(s) == IF s = "ExecutionFailed" THEN execution_retries ELSE resource_requeues
Limit(s) == IF s = "ExecutionFailed" THEN ExecutionRetryLimit ELSE ResourceRetryLimit

\* A job and its failures of kind s are left alone, or one more attempt has failed
\* and was charged, or was the last.
NoneFails(i, s) ==
    /\ FailedAttempts(i, s)' = FailedAttempts(i, s)
    /\ Counter(s)'[i] = Counter(s)[i]
    /\ state'[i] = s <=> state[i] = s
OneFails(i, s) ==
    /\ attempt_count[i] \in AttemptNumbers \ FailedAttempts(i, s)
    /\ FailedAttempts(i, s)' = FailedAttempts(i, s) \cup {attempt_count[i]}
    /\ state[i] # s
    /\ \/ state'[i] = s /\ Counter(s)'[i] = Counter(s)[i]
       \/ state'[i] # s /\ Counter(s)[i] < Limit(s) /\ Counter(s)'[i] = Counter(s)[i] + 1

\* What closing the open attempt of a job does to its failures.
LEMMA ClosingFails ==
    ASSUME DbInv, NEW i \in Jobs, NEW v \in JobStates, Closes(i, v), NEW s \in FailureKinds
    PROVE  /\ state[i] \notin ActiveStates \/ v # s => FailedAttempts(i, s)' = FailedAttempts(i, s)
           /\ state[i] \in ActiveStates /\ v = s =>
                 /\ attempt_count[i] \in AttemptNumbers \ FailedAttempts(i, s)
                 /\ FailedAttempts(i, s)' = FailedAttempts(i, s) \cup {attempt_count[i]}
  <1>1. \A n \in AttemptNumbers :
           attempts[i][n].open <=> state[i] \in ActiveStates /\ n = attempt_count[i]
    <2>1. OpenAttempts(i) = IF state[i] \in ActiveStates THEN {attempt_count[i]} ELSE {}
      BY DEF DbInv, AttemptDiscipline
    <2> QED
      BY <2>1 DEF OpenAttempts
  <1>2. state[i] \in ActiveStates =>
           attempt_count[i] \in AttemptNumbers /\ attempts[i][attempt_count[i]].state = state[i]
    BY DEF DbInv, AttemptDiscipline, OpenAttempts
  <1>3. s \notin ActiveStates
    BY DEF FailureKinds, ActiveStates
  <1>4. \A n \in AttemptNumbers :
           attempts'[i][n].state = IF attempts[i][n].open THEN v ELSE attempts[i][n].state
    BY DEF Closes
  <1> QED
    BY <1>1, <1>2, <1>3, <1>4 DEF FailedAttempts

\* Every move either leaves the failures of a kind alone or adds one.
LEMMA MovesFail ==
    ASSUME DbInv, RowsCounted, NEW i \in Jobs, Moves(i), NEW s \in FailureKinds
    PROVE  NoneFails(i, s) \/ OneFails(i, s)
  <1>0. s \notin ActiveStates /\ s \in {"ExecutionFailed", "ResourceExceeded"}
        /\ execution_retries[i] \in Nat /\ resource_requeues[i] \in Nat
    BY RetriesAreNumbers DEF FailureKinds, ActiveStates, DbInv
  <1>1. CASE Stays(i) \/ Enters(i)
    BY <1>0, <1>1 DEF Stays, Enters, KeepsCounters, KeepsRetries, NoneFails, FailedAttempts, Counter
  <1>2. CASE Unlocks(i) \/ Blocks(i)
    <2>1. PICK v \in JobStates : Closes(i, v)
      BY <1>2 DEF Unlocks, Blocks
    <2>2. state[i] \notin ActiveStates
      BY <1>2 DEF Unlocks, Blocks, ActiveStates
    <2> QED
      BY <1>0, <1>2, <2>1, <2>2, ClosingFails
         DEF Unlocks, Blocks, KeepsCounters, KeepsRetries, NoneFails, Counter
  <1>3. CASE Starts(i)
    <2> DEFINE n == attempt_count[i] + 1
    <2>1. n \in AttemptNumbers /\ attempts[i] \in [AttemptNumbers -> AttemptRow]
          /\ attempt_count[i] \in Nat
      BY <1>3, MaxAttemptsAssumption DEF Starts, DbInv, TypeOK
    <2>2. /\ attempts[i][n].state = "none"
          /\ \A m \in AttemptNumbers : attempts'[i][m].state =
                IF m = n THEN state'[i] ELSE attempts[i][m].state
      BY <1>3, <2>1 DEF Starts, RowsCounted
    <2>3. FailedAttempts(i, s)' = FailedAttempts(i, s)
      BY <1>0, <1>3, <2>2 DEF Starts, FailedAttempts
    <2> QED
      BY <1>0, <1>3, <2>3 DEF Starts, ActiveStates, KeepsRetries, NoneFails, Counter
  <1>4. CASE Ends(i)
    <2>1. PICK v \in JobStates : Closes(i, v) /\ Charges(i, v)
      BY <1>4 DEF Ends
    <2>2. state[i] \in ActiveStates /\ state'[i] # s
      BY <1>0, <1>4 DEF Ends
    <2>3. CASE v = s
      BY <1>0, <2>1, <2>2, <2>3, ClosingFails DEF Charges, OneFails, Counter, Limit
    <2>4. CASE v # s
      BY <1>0, <2>1, <2>2, <2>4, ClosingFails DEF Charges, NoneFails, Counter
    <2> QED
      BY <2>3, <2>4
  <1>5. CASE Fails(i)
    <2>1. /\ state'[i] \in JobStates /\ Closes(i, state'[i])
          /\ state[i] # s
          /\ state'[i] = s => state[i] \in ActiveStates
      BY <1>0, <1>5 DEF Fails, JobStates, ActiveStates, AwaitingVerdict
    <2> QED
      BY <1>0, <1>5, <2>1, ClosingFails DEF Fails, KeepsRetries, NoneFails, OneFails, Counter
  <1>6. CASE Verifies(i)
    <2>1. "Verified" \in JobStates /\ Closes(i, "Verified") /\ "Verified" # s
          /\ state[i] # s /\ state'[i] # s
      BY <1>0, <1>6 DEF Verifies, JobStates, AwaitingVerdict
    <2> QED
      BY <1>0, <1>6, <2>1, ClosingFails DEF Verifies, KeepsCounters, KeepsRetries, NoneFails, Counter
  <1> QED
    BY <1>1, <1>2, <1>3, <1>4, <1>5, <1>6 DEF Moves

\* The failures of a job are a finite set, and one more failure is one more.
LEMMA FailedCardinality ==
    /\ \A j \in Jobs, s \in FailureKinds :
          IsFiniteSet(FailedAttempts(j, s)) /\ Cardinality(FailedAttempts(j, s)) \in Nat
    /\ \A j \in Jobs, s \in FailureKinds, n \in AttemptNumbers :
          n \notin FailedAttempts(j, s) =>
             Cardinality(FailedAttempts(j, s) \cup {n}) = Cardinality(FailedAttempts(j, s)) + 1
  <1>1. IsFiniteSet(AttemptNumbers)
    BY FS_Interval, MaxAttemptsAssumption DEF AttemptNumbers
  <1>2. \A j \in Jobs, s \in FailureKinds : IsFiniteSet(FailedAttempts(j, s))
    <2> SUFFICES ASSUME NEW j \in Jobs, NEW s \in FailureKinds
                 PROVE  IsFiniteSet(FailedAttempts(j, s))
      OBVIOUS
    <2>1. FailedAttempts(j, s) \in SUBSET AttemptNumbers
      BY DEF FailedAttempts
    <2> QED
      BY <1>1, <2>1, FS_Subset
  <1> QED
    BY <1>2, FS_AddElement, FS_CardinalityType

\* No attempt is in the table before it is counted.
LEMMA RowsCountedStep ==
    ASSUME DbInv, RowsCounted, NEW i \in Jobs, Moves(i),
           NEW n \in AttemptNumbers, n > attempt_count'[i]
    PROVE  attempts'[i][n].state = "none"
  <1>1. /\ attempt_count[i] \in Nat /\ n \in Nat
        /\ n > attempt_count[i] => attempts[i][n].state = "none"
    BY MaxAttemptsAssumption DEF DbInv, TypeOK, RowsCounted, AttemptNumbers
  <1>2. n > attempt_count[i] => ~attempts[i][n].open
    <2>1. OpenAttempts(i) = IF state[i] \in ActiveStates THEN {attempt_count[i]} ELSE {}
      BY DEF DbInv, AttemptDiscipline
    <2> QED
      BY <1>1, <2>1 DEF OpenAttempts
  <1>3. CASE \E v \in JobStates : Closes(i, v) /\ attempt_count'[i] = attempt_count[i]
    BY <1>1, <1>2, <1>3 DEF Closes
  <1>4. CASE Stays(i) \/ Enters(i)
    BY <1>1, <1>4 DEF Stays, Enters, KeepsCounters
  <1>5. CASE Starts(i)
    <2>1. attempts[i] \in [AttemptNumbers -> AttemptRow]
      BY DEF DbInv, TypeOK
    <2> QED
      BY <1>1, <1>5, <2>1 DEF Starts
  <1>6. Fails(i) \/ Verifies(i) =>
           \E v \in JobStates : Closes(i, v) /\ attempt_count'[i] = attempt_count[i]
    BY DEF Fails, Verifies, KeepsCounters, JobStates
  <1> QED
    BY <1>3, <1>4, <1>5, <1>6 DEF Moves, Unlocks, Blocks, Ends, KeepsCounters

\* Every failed attempt but the one that ended its job was charged once, to the
\* counter of its kind and below its limit; an interruption never was
\* (handle_attempt_failure, recover_interrupted).
THEOREM RetriesAccounted == DbSpec => []RetryAccounting
  <1>1. ASSUME DbInit
        PROVE  RetryInv
    <2>1. DbInv
      BY <1>1, DbInvInductive
    <2>2. RowsCounted
      BY <1>1 DEF DbInit, DbInitWith, RowsCounted, NoRow
    <2>3. \A j \in Jobs, s \in FailureKinds : FailedAttempts(j, s) = {}
      BY <1>1 DEF DbInit, DbInitWith, FailedAttempts, FailureKinds, NoRow
    <2>4. RetryAccounting
      <3>1. \A j \in Jobs : /\ execution_retries[j] = 0 /\ resource_requeues[j] = 0
                            /\ state[j] \notin FailureKinds
        BY <1>1 DEF DbInit, DbInitWith, FailureKinds
      <3>2. \A j \in Jobs, s \in FailureKinds : Cardinality(FailedAttempts(j, s)) = 0
        BY <2>3, FS_EmptySet
      <3> QED
        BY <3>1, <3>2 DEF RetryAccounting, FailureKinds, ExecutionRetryLimit, ResourceRetryLimit
    <2> QED
      BY <2>1, <2>2, <2>4 DEF RetryInv
  <1>2. ASSUME RetryInv, DbNext
        PROVE  RetryInv'
    <2>1. DbInv'
      BY <1>2, DbInvInductive DEF RetryInv
    <2>2. \A i \in Jobs : Moves(i)
      BY <1>2, StepMoves DEF RetryInv, DbInv
    <2>3. RowsCounted'
      BY <1>2, <2>2, RowsCountedStep DEF RetryInv, RowsCounted
    <2>4. ASSUME NEW i \in Jobs, NEW s \in FailureKinds
          PROVE  /\ Cardinality(FailedAttempts(i, s)') =
                      Counter(s)'[i] + (IF state'[i] = s THEN 1 ELSE 0)
                 /\ Counter(s)'[i] <= Limit(s)
      <3>1. /\ Cardinality(FailedAttempts(i, s)) = Counter(s)[i] + (IF state[i] = s THEN 1 ELSE 0)
            /\ Counter(s)[i] <= Limit(s)
        BY <1>2 DEF RetryInv, RetryAccounting, FailureKinds, Counter, Limit
      <3>2. Counter(s)[i] \in Nat /\ Limit(s) \in Nat
        BY <1>2, RetriesAreNumbers DEF RetryInv, DbInv, Counter, Limit, ExecutionRetryLimit, ResourceRetryLimit
      <3>3. NoneFails(i, s) \/ OneFails(i, s)
        BY <1>2, <2>2, MovesFail DEF RetryInv
      <3>4. CASE NoneFails(i, s)
        BY <3>1, <3>4 DEF NoneFails
      <3>5. CASE OneFails(i, s)
        <4>1. Cardinality(FailedAttempts(i, s)') = Cardinality(FailedAttempts(i, s)) + 1
          BY <3>5, FailedCardinality DEF OneFails
        <4> QED
          BY <3>1, <3>2, <3>5, <4>1 DEF OneFails
      <3> QED
        BY <3>3, <3>4, <3>5
    <2>5. RetryAccounting'
      <3>1. "ExecutionFailed" \in FailureKinds /\ "ResourceExceeded" \in FailureKinds
        BY DEF FailureKinds
      <3> QED
        BY <2>4, <3>1 DEF RetryAccounting, Counter, Limit
    <2> QED
      BY <2>1, <2>3, <2>5 DEF RetryInv
  <1>3. ASSUME RetryInv, UNCHANGED dbVars
        PROVE  RetryInv'
    <2>1. DbInv'
      BY <1>3, DbInvInductive DEF RetryInv
    <2> QED
      BY <1>3, <2>1 DEF dbVars, RetryInv, RowsCounted, RetryAccounting, FailedAttempts
  <1>4. RetryInv => RetryAccounting
    BY DEF RetryInv
  <1> QED
    BY <1>1, <1>2, <1>3, <1>4, PTL DEF DbSpec

-----------------------------------------------------------------------------
(* The database executes the graph *)

JobPhase == [j \in Jobs |-> PhaseOf(state[j])]

\* What a client sees of a job, state by state.
LEMMA PhaseFacts ==
    /\ PhaseOf("absent") = "absent" /\ PhaseOf("Pending") = "waiting"
    /\ PhaseOf("Verified") = "verified" /\ PhaseOf("Blocked") = "blocked"
    /\ \A s \in {"ExecutionFailed", "ResourceExceeded", "VerificationFailed"} :
          PhaseOf(s) = "failed"
    /\ \A s \in ActiveStates \cup AwaitingVerdict \cup {"Ready", "Interrupted", "Requeued"} :
          PhaseOf(s) = "released"
    /\ \A s \in JobStates \cup {"absent"} :
          /\ PhaseOf(s) = "waiting" <=> s = "Pending"
          /\ PhaseOf(s) = "verified" <=> s = "Verified"
          /\ PhaseOf(s) = "absent" <=> s = "absent"
  BY DEF PhaseOf, JobStates, ActiveStates, AwaitingVerdict

\* The waiting jobs of the abstract execution are the Pending ones.
LEMMA WaitingIsPending ==
    ASSUME TypeOK
    PROVE  /\ Execution!WaitingJobs = {j \in Jobs : state[j] = "Pending"}
           /\ \A j \in Jobs : Execution!Needs(j) = Predecessors(j)
           /\ Execution!Satisfied =
                 {j \in Jobs : state[j] = "Pending" /\ required_predecessors_verified(j)}
  <1>1. \A j \in Jobs : state[j] \in JobStates \cup {"absent"}
    BY DEF TypeOK
  <1>2. Execution!WaitingJobs = {j \in Jobs : state[j] = "Pending"}
    BY <1>1, PhaseFacts DEF Execution!WaitingJobs
  <1>3. \A j \in Jobs : Execution!Needs(j) = Predecessors(j)
    BY DEF Execution!Needs, Predecessors
  <1>4. ASSUME NEW j \in Jobs
        PROVE  (\A p \in Predecessors(j) : JobPhase[p] = "verified")
                    <=> required_predecessors_verified(j)
    BY <1>1, PhaseFacts DEF JobPhase, required_predecessors_verified, Predecessors
  <1>5. Execution!Satisfied =
            {j \in Jobs : state[j] = "Pending" /\ required_predecessors_verified(j)}
    BY <1>2, <1>3, <1>4 DEF Execution!Satisfied, JobPhase
  <1> QED
    BY <1>2, <1>3, <1>5

\* A job that has a predecessor which is not Verified has never run.
LEMMA RequeuedIsSatisfied ==
    ASSUME DbInv, NEW j \in Jobs, state[j] = "Requeued"
    PROVE  required_predecessors_verified(j)
  <1>1. attempt_count[j] # 0
    BY DEF DbInv, NeverStartedWhilePending
  <1>2. attempt_count[j] > 0
    <2>1. attempt_count[j] \in Nat
      BY CountsAreNumbers DEF DbInv
    <2> QED
      BY <1>1, <2>1
  <1> QED
    BY <1>2 DEF DbInv, PredecessorsVerified

\* block_descendants_tx looks at Requeued jobs too, and finds the Pending ones.
LEMMA DescendantsArePending ==
    ASSUME DbInv, NEW f \in Jobs, state[f] # "Verified"
    PROVE  block_descendants(f) = Execution!Below(f)
  <1> DEFINE L == block_descendants(f)
             P == {j \in Jobs : state[j] = "Pending"}
  <1>1. /\ P \subseteq Waiting
        /\ \A s \in Waiting : s \in Jobs /\ (s \in P \/ state[s] = "Requeued")
    BY WaitingFacts
  <1>2. ASSUME NEW s \in Waiting, NEW p \in Predecessors(s), state[p] # "Verified"
        PROVE  s \in P
    BY <1>1, <1>2, RequeuedIsSatisfied DEF required_predecessors_verified
  <1>3. /\ Execution!WaitingJobs = P
        /\ \A j \in Jobs : Execution!Needs(j) = Predecessors(j)
    BY WaitingIsPending DEF DbInv
  <1>4. ASSUME NEW S \in SUBSET P
        PROVE  Execution!Closed(f, S) <=> BlocksSuccessors(f, S)
    <2>1. \A p \in S \cup {f} : state[p] # "Verified"
      OBVIOUS
    <2>2. ASSUME NEW s \in Waiting, Predecessors(s) \cap (S \cup {f}) # {}
          PROVE  s \in P
      BY <1>2, <2>1, <2>2
    <2>3. \A s \in P : s \in Jobs
      OBVIOUS
    <2> HIDE DEF P
    <2>4. Execution!Closed(f, S) <=>
            \A s \in P : Predecessors(s) \cap (S \cup {f}) # {} => s \in S
      BY <1>3, <2>3 DEF Execution!Closed
    <2> QED
      BY <1>1, <2>2, <2>4 DEF BlocksSuccessors
  <1>5. /\ L \subseteq Waiting /\ BlocksSuccessors(f, L)
        /\ \A s \in L : Predecessors(s) \cap (L \cup {f}) # {}
    BY DescendantFacts
  <1>6. L \subseteq P
    <2> SUFFICES ASSUME NEW s \in L PROVE s \in P
      OBVIOUS
    <2>1. PICK p \in Predecessors(s) : p \in L \cup {f}
      BY <1>5
    <2>2. state[p] # "Verified"
      BY <1>5, <2>1, WaitingFacts
    <2> QED
      BY <1>2, <1>5, <2>2
  <1>7. ASSUME NEW s \in L
        PROVE  s \in Execution!Below(f)
    <2>1. s \in P
      BY <1>6
    <2>2. \A S \in SUBSET P : Execution!Closed(f, S) => s \in S
      BY <1>1, <1>4 DEF block_descendants
    <2> HIDE DEF P, L
    <2> QED
      BY <1>3, <2>1, <2>2 DEF Execution!Below
  <1>8. ASSUME NEW s \in Execution!Below(f)
        PROVE  s \in L
    <2>1. L \in SUBSET P /\ Execution!Closed(f, L)
      BY <1>4, <1>5, <1>6
    <2> HIDE DEF P, L
    <2> QED
      BY <1>3, <2>1 DEF Execution!Below
  <1> QED
    BY <1>7, <1>8

\* Every terminal failure is a failure of the abstract execution.
LEMMA FailTerminallyImplements ==
    ASSUME DbInv, NEW f \in Jobs, state[f] \in ActiveStates \cup AwaitingVerdict,
           NEW v \in {"ExecutionFailed", "ResourceExceeded", "VerificationFailed"},
           FailTerminally(f, v), dependencies' = dependencies
    PROVE  Execution!Fail(f)
  <1> DEFINE below == block_descendants(f)
  <1>1. state' = SetState(SetState(state, {f}, v), below, "Blocked")
    BY EventFacts, Zenon DEF FailTerminally
  <1>2. below \subseteq Waiting /\ below = Execution!Below(f)
    BY DescendantFacts, DescendantsArePending DEF ActiveStates, AwaitingVerdict
  <1> HIDE DEF below
  <1>3. f \notin below
    BY <1>2, WaitingFacts DEF ActiveStates, AwaitingVerdict
  <1>4. \A i \in Jobs : state'[i] = IF i \in below THEN "Blocked" ELSE IF i = f THEN v ELSE state[i]
    BY <1>1 DEF SetState
  <1>5. /\ PhaseOf(state[f]) = "released"
        /\ \A i \in Jobs : PhaseOf(state'[i]) =
                IF i = f THEN "failed" ELSE IF i \in below THEN "blocked" ELSE PhaseOf(state[i])
    BY <1>3, <1>4, PhaseFacts
  <1>6. [i \in Jobs |-> PhaseOf(state'[i])] =
            [i \in Jobs |-> IF i = f THEN "failed"
                            ELSE IF i \in Execution!Below(f) THEN "blocked" ELSE JobPhase[i]]
    BY <1>2, <1>5 DEF JobPhase
  <1> QED
    BY <1>5, <1>6 DEF Execution!Fail, JobPhase

\* The causes of the jobs that a pass of refresh_readiness blocks are well
\* founded: the first of any of them by its id has its cause outside.
LEMMA PassIsCaused ==
    ASSUME DbInv, NEW B \in SUBSET Waiting, BlockedInPass(B)
    PROVE  Execution!Caused(B)
  <1>1. \A j \in Jobs : Execution!Needs(j) = Predecessors(j)
    BY WaitingIsPending DEF DbInv
  <1>2. B \subseteq Jobs /\ B \subseteq Nat
    BY JobsAssumption DEF Waiting
  <1>3. ASSUME NEW S \in SUBSET B, S # {}
        PROVE  \E s \in S : \E p \in Execution!Needs(s) :
                    JobPhase[p] \in {"failed", "blocked"} \/ p \in B \ S
    <2>1. \E x \in S : \A y \in S : ~(<<y, x>> \in OpToRel(<, Nat))
      BY <1>2, <1>3, NatLessThanWellFounded, WFMin
    <2>2. PICK x \in S : \A y \in S : ~(<<y, x>> \in OpToRel(<, Nat))
      BY <2>1
    <2>3. \A y \in S : ~(y < x)
      BY <1>2, <2>2 DEF OpToRel
    <2>4. PICK p \in Predecessors(x) :
                \/ terminal_failure[p] \/ state[p] \in {"VerificationFailed", "Blocked"}
                \/ p \in B /\ p < x
      BY DEF BlockedInPass
    <2>5. p \in Jobs /\ x \in Jobs
      BY <1>2 DEF Predecessors
    <2>6. CASE terminal_failure[p] \/ state[p] \in {"VerificationFailed", "Blocked"}
      <3>1. state[p] \in {"ExecutionFailed", "ResourceExceeded", "VerificationFailed", "Blocked"}
        BY <2>5, <2>6 DEF DbInv, TerminalConsistent
      <3>2. JobPhase[p] \in {"failed", "blocked"}
        BY <2>5, <3>1, PhaseFacts DEF JobPhase
      <3> QED
        BY <1>1, <2>4, <2>5, <3>2
    <2>7. CASE p \in B /\ p < x
      BY <1>1, <2>3, <2>4, <2>5, <2>7
    <2> QED
      BY <2>4, <2>6, <2>7
  <1> QED
    BY <1>3 DEF Execution!Caused, JobPhase

\* One pass of refresh_readiness is a sweep: it releases the Pending jobs whose
\* predecessors are Verified, and a Requeued job is never among the blocked.
LEMMA RefreshImplements ==
    ASSUME DbInv, refresh_readiness
    PROVE  \E B \in SUBSET Jobs : Execution!Sweep(B)
  <1>0. TypeOK
    BY DEF DbInv
  <1>1. PICK B \in SUBSET Waiting :
            /\ BlockedInPass(B)
            /\ state' = SetState(SetState(state, Unlocked, "Ready"), B, "Blocked")
            /\ dependencies' = dependencies
    BY DEF refresh_readiness
  <1> DEFINE P == {j \in Jobs : state[j] = "Pending"}
             R == {j \in Jobs : state[j] = "Pending" /\ required_predecessors_verified(j)}
  <1>2. /\ \A j \in Waiting : j \in Jobs /\ (state[j] = "Pending" \/ state[j] = "Requeued")
        /\ \A j \in Jobs : j \in Unlocked <=>
              state[j] \in {"Pending", "Requeued"} /\ required_predecessors_verified(j)
    BY WaitingFacts DEF Unlocked
  <1>3. B \cap Unlocked = {}
    BY <1>1 DEF BlockedInPass
  <1>4. \A j \in Jobs : j \in Unlocked <=> j \in R \/ state[j] = "Requeued"
    BY <1>2, RequeuedIsSatisfied
  <1>5. B \subseteq P \ R
    BY <1>2, <1>3, <1>4
  <1>6. \A j \in Jobs : state'[j] = IF j \in B THEN "Blocked"
                                   ELSE IF j \in Unlocked THEN "Ready" ELSE state[j]
    BY <1>1 DEF SetState
  <1>7. Execution!WaitingJobs = P /\ Execution!Satisfied = R
    BY <1>0, WaitingIsPending
  <1>8. \A j \in Jobs : PhaseOf(state'[j]) =
                IF j \in R THEN "released" ELSE IF j \in B THEN "blocked" ELSE PhaseOf(state[j])
    BY <1>3, <1>4, <1>5, <1>6, PhaseFacts
  <1> HIDE DEF P, R
  <1>9. [j \in Jobs |-> PhaseOf(state'[j])] =
            [j \in Jobs |-> IF j \in Execution!Satisfied THEN "released"
                            ELSE IF j \in B THEN "blocked" ELSE JobPhase[j]]
    BY <1>7, <1>8 DEF JobPhase
  <1>10. Execution!Caused(B)
    BY <1>1, PassIsCaused
  <1>11. Execution!Sweep(B)
    BY <1>1, <1>5, <1>7, <1>9, <1>10 DEF Execution!Sweep, JobPhase
  <1>12. B \in SUBSET Jobs
    BY <1>2
  <1> QED
    BY <1>11, <1>12

\* A step that leaves every job in its phase and the edges alone is invisible.
LEMMA PhasesKept ==
    ASSUME \A i \in Jobs : PhaseOf(state'[i]) = PhaseOf(state[i]), dependencies' = dependencies
    PROVE  UNCHANGED <<JobPhase, dependencies>>
  BY DEF JobPhase

\* Every step of the general client is a step of the abstract execution, or is
\* invisible in it: attempts, their ends, requeues and recoveries are.
LEMMA StepImplements ==
    ASSUME DbInv, [DbNext]_dbVars
    PROVE  [Execution!DagNext]_<<JobPhase, dependencies>>
  <1> USE DEF jobVars, evidenceVars
  <1>0. TypeOK /\ state \in [Jobs -> JobStates \cup {"absent"}]
    BY DEF DbInv, TypeOK
  <1> DEFINE Goal == [Execution!DagNext]_<<JobPhase, dependencies>>
  <1>1. ASSUME NEW j \in Jobs, insert_job(j)
        PROVE  Goal
    <2>1. /\ PhaseOf(state[j]) = "absent"
          /\ \A i \in Jobs : PhaseOf(state'[i]) = IF i \in {j} THEN "waiting" ELSE PhaseOf(state[i])
      BY <1>0, <1>1, PhaseFacts DEF insert_job
    <2>2. Execution!Enter(j)
      BY <1>1, <2>1 DEF insert_job, Execution!Enter, Execution!Move
    <2> QED
      BY <2>2 DEF Execution!DagNext
  <1>2. ASSUME NEW edge \in Edges, state[edge[2]] = "Pending", add_dependency(edge[1], edge[2])
        PROVE  Goal
    <2>1. edge[1] \in Jobs /\ edge[2] \in Jobs
      BY EdgesAssumption
    <2>2. PhaseOf(state[edge[1]]) # "absent" /\ PhaseOf(state[edge[2]]) = "waiting"
      BY <1>0, <1>2, <2>1, PhaseFacts DEF add_dependency
    <2>3. Execution!Need(edge[1], edge[2])
      BY <1>2, <2>1, <2>2 DEF add_dependency, Execution!Need
    <2> QED
      BY <2>1, <2>3 DEF Execution!DagNext
  <1>3. ASSUME refresh_readiness
        PROVE  Goal
    BY <1>3, RefreshImplements DEF Execution!DagNext
  <1>4. ASSUME NEW j \in Jobs, NEW e \in StartEvents, begin_attempt(j, e)
        PROVE  Goal
    <2>1. /\ state[j] \in {"Ready", "WitnessReady", "Preparing", "Proved"}
          /\ target(e) \in ActiveStates
      BY <1>4, StartFacts, KindAssumption DEF begin_attempt
    <2>2. PhaseOf(state[j]) = "released" /\ PhaseOf(target(e)) = "released"
      BY <2>1, PhaseFacts DEF ActiveStates, AwaitingVerdict
    <2>3. /\ \A i \in Jobs : state'[i] = IF i = j THEN target(e) ELSE state[i]
          /\ dependencies' = dependencies
      BY <1>0, <1>4 DEF begin_attempt
    <2> QED
      BY <2>2, <2>3, PhasesKept
  <1>5. ASSUME NEW j \in Jobs, NEW n \in AttemptNumbers,
               NEW e \in CompletionEvents \cup {"Interrupted"}, apply_attempt_event(j, n, e)
        PROVE  Goal
    <2>1. /\ state[j] \in ActiveStates
          /\ target(e) \in {"WitnessReady", "Prepared", "Proved", "Interrupted"}
      BY <1>5, CompletionFacts DEF apply_attempt_event, ApplyEvent
    <2>2. PhaseOf(state[j]) = "released" /\ PhaseOf(target(e)) = "released"
      BY <2>1, PhaseFacts DEF AwaitingVerdict
    <2>3. /\ \A i \in Jobs : state'[i] = IF i = j THEN target(e) ELSE state[i]
          /\ dependencies' = dependencies
      BY <1>5 DEF apply_attempt_event, ApplyEvent, SetState
    <2> QED
      BY <2>2, <2>3, PhasesKept
  <1>6. ASSUME NEW j \in Jobs, NEW v \in {"ExecutionFailed", "ResourceExceeded", "VerificationFailed"},
               state[j] \in ActiveStates \cup AwaitingVerdict, dependencies' = dependencies,
               Requeue(j, v) \/ FailTerminally(j, v)
        PROVE  Goal
    <2>1. CASE Requeue(j, v)
      <3>1. \A i \in Jobs : state'[i] = IF i = j THEN "Requeued" ELSE state[i]
        BY <1>0, <2>1 DEF Requeue
      <3>2. \A i \in Jobs : PhaseOf(state'[i]) = PhaseOf(state[i])
        BY <1>6, <3>1, PhaseFacts
      <3> QED
        BY <1>6, <3>2, PhasesKept
    <2>2. CASE FailTerminally(j, v)
      <3>1. Execution!Fail(j)
        BY <1>6, <2>2, FailTerminallyImplements
      <3> QED
        BY <3>1 DEF Execution!DagNext
    <2> QED
      BY <1>6, <2>1, <2>2
  <1>7. ASSUME NEW j \in Jobs, NEW n \in AttemptNumbers,
               \/ execution_failed(j, n) \/ fail_verification(j, n)
               \/ \E key \in ReservationKeys, peak \in Peaks : resource_exceeded(j, n, key, peak)
        PROVE  Goal
    <2>1. /\ state[j] \in ActiveStates \cup AwaitingVerdict /\ dependencies' = dependencies
          /\ \E v \in {"ExecutionFailed", "ResourceExceeded", "VerificationFailed"} :
                Requeue(j, v) \/ FailTerminally(j, v)
      BY <1>7, EventFacts DEF execution_failed, resource_exceeded, fail_verification
    <2> QED
      BY <1>6, <2>1
  <1>8. ASSUME NEW j \in Jobs, NEW n \in AttemptNumbers, RecordVerified(j, n)
        PROVE  Goal
    <2>1. /\ state[j] \in AwaitingVerdict /\ dependencies' = dependencies
          /\ state' = SetState(state, {j}, "Verified")
      BY <1>8, EventFacts, Zenon DEF RecordVerified, ApplyEvent
    <2>2. /\ PhaseOf(state[j]) = "released"
          /\ \A i \in Jobs : PhaseOf(state'[i]) = IF i \in {j} THEN "verified" ELSE PhaseOf(state[i])
      BY <2>1, PhaseFacts DEF SetState
    <2>3. Execution!Verify(j)
      BY <2>1, <2>2 DEF Execution!Verify, Execution!Move
    <2> QED
      BY <2>3 DEF Execution!DagNext
  <1>9. ASSUME recover_interrupted
        PROVE  Goal
    <2>1. /\ \A i \in Jobs : state'[i] = IF i \in Interruptible THEN "Requeued" ELSE state[i]
          /\ dependencies' = dependencies
      BY <1>9 DEF recover_interrupted, SetState
    <2>2. \A i \in Interruptible : state[i] \in ActiveStates
      BY DEF Interruptible
    <2>3. \A i \in Jobs : PhaseOf(state'[i]) = PhaseOf(state[i])
      BY <2>1, <2>2, PhaseFacts
    <2> QED
      BY <2>1, <2>3, PhasesKept
  <1>10. ASSUME UNCHANGED <<state, dependencies>>
         PROVE  Goal
    BY <1>10, PhasesKept
  <1>11. ASSUME DbNext
         PROVE  Goal
    <2> HIDE DEF Goal
    <2>1. ASSUME NEW j \in Jobs, NEW n \in AttemptNumbers, AttemptStep(j, n)
          PROVE  Goal
      BY <1>5, <1>7, <1>8, <2>1
         DEF AttemptStep, commit_verified_artifact, commit_verified_key, complete_verification
    <2>2. ASSUME NEW key \in ReservationKeys, NEW peak \in Peaks, record_resource_peak(key, peak)
          PROVE  Goal
      BY <1>10, <2>2 DEF record_resource_peak
    <2> QED
      BY <1>1, <1>2, <1>3, <1>4, <1>9, <1>11, <2>1, <2>2 DEF DbNext
  <1> QED
    BY <1>10, <1>11 DEF dbVars

\* A database without attempts, its plan persisted or not, is where the
\* abstract execution starts.
LEMMA InitImplements ==
    ASSUME NEW initial \in {"absent", "Pending"}, NEW edges \in SUBSET (Jobs \X Jobs),
           initial = "absent" => edges = {}, DbInitWith(initial, edges)
    PROVE  Execution!DagInit
  <1>1. /\ \A j \in Jobs : state[j] = initial
        /\ dependencies = edges
    BY DEF DbInitWith
  <1>2. \A j \in Jobs : PhaseOf(state[j]) \in {"absent", "waiting"}
    BY <1>1, PhaseFacts
  <1>3. initial = "Pending" => Execution!WaitingJobs = Jobs
    BY <1>1, PhaseFacts DEF Execution!WaitingJobs
  <1>4. dependencies \subseteq Execution!WaitingJobs \X Execution!WaitingJobs
    BY <1>1, <1>3
  <1> QED
    BY <1>2, <1>4 DEF Execution!DagInit

\* The run database, under the most general client, executes the graph: jobs are
\* released in order, end once, and are blocked exactly below failures, whatever
\* attempts, retries and recoveries happen meanwhile.
THEOREM ExecutesTheGraph == DbSpec => ImplementsDagExecution
  <1>1. DbInit => Execution!DagInit
    BY InitImplements DEF DbInit
  <1>2. DbInv /\ [DbNext]_dbVars => [Execution!DagNext]_<<JobPhase, dependencies>>
    BY StepImplements
  <1> QED
    BY <1>1, <1>2, DbInvariant, PTL
       DEF DbSpec, ImplementsDagExecution, Execution!DagSpec, JobPhase

\* The graph is executed and what is final stays, under every client.
THEOREM DatabaseKeepsPromise == DbSpec => DbKeepsPromise
  BY FinalityHolds, ExecutesTheGraph, PTL DEF DbKeepsPromise
=============================================================================
