------------------------------ MODULE RunStatus ------------------------------
(***************************************************************************)
(* The commands that look at a run from outside: status (overall_state)    *)
(* and verify (verify_run), of src/cli.rs and src/bin/zkie.rs.  Both read  *)
(* the database of module Queue at any moment, also while queues run, die  *)
(* and are run again.                                                      *)
(***************************************************************************)
EXTENDS Queue

VARIABLE
    shown   \* the last answers of status and verify: [state, failures]

statusVars == <<vars, shown>>

\* The rows status reads.
Records == {j \in Jobs : state[j] # "absent"}

\* Variant for testing ShownVerifiedIsFinal: the first verified job decides.
OverallAny ==
    IF \E j \in Records : state[j] = "Verified" THEN "verified" ELSE "running"

overall_state ==
    IF \E j \in Records : state[j] = "VerificationFailed" THEN "failed"
    ELSE IF Records # {} /\ \A j \in Records : state[j] = "Verified" THEN "verified"
    ELSE IF \E j \in Records : terminal_failure[j] THEN "blocked"
    ELSE "running"

\* reopen_artifact_for_job and reopen_key_for_job: the row of the job's latest
\* commit names an object, and the store has it.
Reopens(rows, j) == rows[j] # 0 /\ <<j, rows[j]>> \in objects

\* verify_run: the jobs it reports as failures.
verify_run ==
    {j \in Records : state[j] = "Verified" /\
        ~Reopens(IF Kind[j] = "Prepare" THEN key_artifacts ELSE artifacts, j)}

StatusInit == QueueInit /\ shown = [state |-> "none", failures |-> {}]

status ==
    /\ shown' = [shown EXCEPT !.state = overall_state]
    /\ UNCHANGED vars

verify ==
    /\ shown' = [shown EXCEPT !.failures = verify_run]
    /\ UNCHANGED vars

StatusNext ==
    \/ QueueNext /\ UNCHANGED shown
    \/ status
    \/ verify

StatusSpec == StatusInit /\ [][StatusNext]_statusVars

-----------------------------------------------------------------------------
(* Properties *)

\* Once status has answered "verified", every job of the plan is verified, also
\* those a crashed queue had not inserted yet, and stays so.
ShownVerifiedIsFinal ==
    shown.state = "verified" => \A j \in Jobs : state[j] = "Verified"

\* After a queue has returned, status does not say that work is in flight.
ReturnedIsNotRunning ==
    (\E q \in Queues : At(q, "returned")) => overall_state # "running"

\* verify finds an object for every verified job, while the store is undamaged.
VerifyIsClean == shown.failures = {}

\* What status and verify say of a run is so, at whatever moment they look.
StatusTruthful == ShownVerifiedIsFinal /\ ReturnedIsNotRunning /\ VerifyIsClean
=============================================================================
