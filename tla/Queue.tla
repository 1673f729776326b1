-------------------------------- MODULE Queue --------------------------------
(***************************************************************************)
(* The queue engine of zkie-runtime (src/queue.rs) over the run database:  *)
(* run_queue as a process that may be killed, or return an error, between  *)
(* any two of its transactions, and be run again.  Several processes may   *)
(* drive one database: nothing in the code keeps them apart.               *)
(*                                                                         *)
(* A step of a driver is one transaction of RunDb, or one call of a        *)
(* component the queue is given: the worker launcher, the verifier, the    *)
(* memory monitor, the content store.                                      *)
(***************************************************************************)
EXTENDS RunDb, FiniteSetsExt

CONSTANTS
    Queues,         \* the processes that run run_queue
    Planned,        \* TRUE: an earlier run has persisted the whole plan
    Request,        \* the resources a job asks for, in one dimension
    Capacity,       \* the capacity the queue is given
    MaxRounds,      \* QueueRuntime.max_rounds
    AbortAt,        \* the points where a driver may crash or an I/O error may end it
    MaxAborts,      \* bound on the number of crashes and error returns
    WorkerMayFail,  \* the launcher may return WorkerOutcome::Failed
    LaunchMayFail,  \* the launcher may return an error
    MayReject,      \* the verifier may reject an output
    MayFreeze       \* the memory monitor may answer something else than Admit

ASSUME QueueBoundsAssumption == MaxRounds \in Nat /\ MaxAborts \in Nat

VARIABLES
    driver,    \* per process, where run_queue is and its local variables
    objects,   \* <<job, attempt>> pairs the content store has published
    accepted,  \* <<job, attempt>> pairs the verifier has accepted
    rejected,  \* <<job, attempt>> pairs the verifier has rejected
    aborts     \* crashes and error returns so far

queueVars == <<driver, objects, accepted, rejected, aborts>>
vars == <<dbVars, queueVars>>

ProgramPoints ==
    {"idle", "insert", "edges", "round", "decide", "begin", "worker", "verify",
     "accepted", "publish", "commit", "returned"}

Local(pc) ==
    [pc |-> pc, todo |-> {}, edges |-> {}, created |-> {}, rounds |-> 0, selected |-> {},
     job |-> 0, attempt |-> 0]

QueueTypeOK ==
    /\ driver \in [Queues ->
            [pc : ProgramPoints, todo : SUBSET Jobs, edges : SUBSET Edges, created : SUBSET Jobs,
             rounds : 0..MaxRounds, selected : SUBSET Jobs, job : Jobs \cup {0},
             attempt : 0..MaxAttempts]]
    /\ objects \cup accepted \cup rejected \subseteq Jobs \X AttemptNumbers
    /\ aborts \in 0..MaxAborts

QueueInit ==
    /\ DbInitWith(IF Planned THEN "Pending" ELSE "absent", IF Planned THEN Edges ELSE {})
    /\ driver = [q \in Queues |-> Local("idle")]
    /\ objects = {}
    /\ accepted = {}
    /\ rejected = {}
    /\ aborts = 0

At(q, pc) == driver[q].pc = pc
Goto(q, local) == driver' = [driver EXCEPT ![q] = local]

-----------------------------------------------------------------------------
(* Endings *)

\* run_queue returns an error, with what it had committed so far.
Error(q) ==
    /\ Goto(q, Local("idle"))
    /\ UNCHANGED <<dbVars, objects, accepted, rejected, aborts>>

\* The environment ends the run: counted, and bounded by MaxAborts.
EndedByEnvironment(q) ==
    /\ aborts < MaxAborts
    /\ aborts' = aborts + 1
    /\ Goto(q, Local("idle"))
    /\ UNCHANGED <<dbVars, objects, accepted>>

\* A step that the database takes if it can, and that ends the run if it cannot.
Try(q, can, step) ==
    \/ can /\ step
    \/ ~can /\ Error(q)

\* The process is killed, or an operation outside the database fails.
abort(q) ==
    /\ driver[q].pc \in AbortAt
    /\ EndedByEnvironment(q)
    /\ UNCHANGED rejected

-----------------------------------------------------------------------------
(* run_queue up to its loop: recover_interrupted, then ensure_planned.     *)

start(q) ==
    /\ driver[q].pc \in {"idle", "returned"}
    /\ recover_interrupted
    /\ Goto(q, [Local("insert") EXCEPT !.todo = Jobs])
    /\ UNCHANGED <<objects, accepted, rejected, aborts>>

\* The jobs of the plan in some order: a job that exists is left alone.
ensure_job(q) ==
    /\ At(q, "insert")
    /\ \E j \in driver[q].todo :
        LET created == driver[q].created \cup (IF state[j] = "absent" THEN {j} ELSE {})
            todo == driver[q].todo \ {j}
            edges == {e \in Edges : e[2] \in created}
        IN  /\ IF state[j] = "absent" THEN insert_job(j) ELSE UNCHANGED dbVars
            /\ Goto(q, IF todo # {}
                       THEN [driver[q] EXCEPT !.todo = todo, !.created = created]
                       ELSE IF edges # {}
                       THEN [Local("edges") EXCEPT !.edges = edges]
                       ELSE Local("round"))
    /\ UNCHANGED <<objects, accepted, rejected, aborts>>

\* Then the edges of the jobs this call has created, one statement each.
ensure_edge(q) ==
    /\ At(q, "edges")
    /\ \E e \in driver[q].edges :
        LET edges == driver[q].edges \ {e}
        IN  /\ add_dependency(e[1], e[2])
            /\ Goto(q, IF edges # {} THEN [driver[q] EXCEPT !.edges = edges]
                       ELSE Local("round"))
    /\ UNCHANGED <<objects, accepted, rejected, aborts>>

-----------------------------------------------------------------------------
(* The rounds *)

Ready == {j \in Jobs : state[j] = "Ready"}

\* Variant for testing ReturnsSettled: readiness is refreshed in the first round only.
RoundWithoutRefresh(q) ==
    /\ At(q, "round")
    /\ \/ /\ driver[q].rounds < MaxRounds
          /\ IF driver[q].rounds = 0 THEN refresh_readiness ELSE UNCHANGED dbVars
          /\ Goto(q, IF Ready' = {} THEN Local("returned")
                     ELSE [Local("decide") EXCEPT !.rounds = driver[q].rounds + 1,
                                                  !.todo = Ready'])
          /\ UNCHANGED <<objects, accepted, rejected, aborts>>
       \/ /\ driver[q].rounds = MaxRounds
          /\ Error(q)

\* The head of the loop: readiness is refreshed and the candidates are read.
begin_round(q) ==
    /\ At(q, "round")
    /\ \/ /\ driver[q].rounds < MaxRounds
          /\ refresh_readiness
          /\ Goto(q, IF Ready' = {}
                     THEN Local("returned")
                     ELSE [Local("decide") EXCEPT !.rounds = driver[q].rounds + 1,
                                                  !.todo = Ready'])
          /\ UNCHANGED <<objects, accepted, rejected, aborts>>
       \/ /\ driver[q].rounds = MaxRounds
          /\ Error(q)

\* What Scheduler::decide may select: jobs that fit together, and none that
\* still fits is left out.
Fits(S) == MapThenSumSet(LAMBDA j : Request[j], S) <= Capacity
Packings(eligible) ==
    {S \in SUBSET eligible : Fits(S) /\ \A j \in eligible \ S : ~Fits(S \cup {j})}

\* decide_with_memory: no admission selects nothing; otherwise readiness is
\* refreshed again and the candidates are filtered by what the database says
\* now.  An empty selection ends the run.
decide(q) ==
    /\ At(q, "decide")
    /\ \/ /\ MayFreeze
          /\ Goto(q, Local("returned"))
          /\ UNCHANGED dbVars
       \/ /\ refresh_readiness
          /\ \E S \in Packings({j \in driver[q].todo \cap Ready' :
                                    required_predecessors_verified(j)'}) :
                Goto(q, IF S = {}
                        THEN Local("returned")
                        ELSE [Local("begin") EXCEPT !.rounds = driver[q].rounds,
                                                    !.selected = S])
    /\ UNCHANGED <<objects, accepted, rejected, aborts>>

\* The attempt of the current job is over: the next selected job, or a new round.
NextJob(q) ==
    LET rest == driver[q].selected \ {driver[q].job}
    IN  Goto(q, [Local(IF rest = {} THEN "round" ELSE "begin")
                    EXCEPT !.rounds = driver[q].rounds, !.selected = rest])

-----------------------------------------------------------------------------
(* run_one *)

\* begin_attempt refuses a selected job that another driver has taken meanwhile.
run_one(q) ==
    /\ At(q, "begin")
    /\ \E j \in driver[q].selected :
        Try(q,
            state[j] = "Ready" /\ attempt_count[j] < MaxAttempts,
            /\ begin_attempt(j, start_event(Kind[j]))
            /\ Goto(q, [driver[q] EXCEPT !.pc = "worker", !.job = j,
                                         !.attempt = attempt_count[j] + 1])
            /\ UNCHANGED <<objects, accepted, rejected, aborts>>)

worker_succeeded(q) ==
    /\ At(q, "worker")
    /\ Goto(q, [driver[q] EXCEPT !.pc = "verify"])
    /\ UNCHANGED <<dbVars, objects, accepted, rejected, aborts>>

worker_failed(q) ==
    LET j == driver[q].job
        n == driver[q].attempt
    IN  /\ WorkerMayFail
        /\ At(q, "worker")
        /\ Try(q,
               require_unique_open_attempt(j, n),
               /\ execution_failed(j, n)
               /\ NextJob(q)
               /\ UNCHANGED <<objects, accepted, rejected, aborts>>)

\* The worker process exits with an error, or its result file does not match
\* the attempt: the launcher's error ends the run.
launch_error(q) ==
    /\ LaunchMayFail
    /\ At(q, "worker")
    /\ EndedByEnvironment(q)
    /\ UNCHANGED rejected

-----------------------------------------------------------------------------
(* finish_success: independent verification, the completion event,         *)
(* publication, and the commit of the verified state.                      *)

verifier_accepts(q) ==
    /\ At(q, "verify")
    /\ accepted' = accepted \cup {<<driver[q].job, driver[q].attempt>>}
    /\ Goto(q, [driver[q] EXCEPT !.pc = "accepted"])
    /\ UNCHANGED <<dbVars, objects, rejected, aborts>>

\* The rejection ends the run; the attempt stays open.
verifier_rejects(q) ==
    /\ MayReject
    /\ At(q, "verify")
    /\ rejected' = rejected \cup {<<driver[q].job, driver[q].attempt>>}
    /\ EndedByEnvironment(q)

\* Variant for testing EvidenceBehindVerified: the publication is skipped.
FinishUnpublished(q) ==
    LET j == driver[q].job
        n == driver[q].attempt
    IN  /\ At(q, "accepted")
        /\ IF Kind[j] = "NativeAggregate" THEN UNCHANGED dbVars
           ELSE apply_attempt_event(j, n, completion_event(Kind[j]))
        /\ Goto(q, [driver[q] EXCEPT !.pc = "commit"])
        /\ UNCHANGED <<objects, accepted, rejected, aborts>>

finish_success(q) ==
    LET j == driver[q].job
        n == driver[q].attempt
    IN  /\ At(q, "accepted")
        /\ \/ /\ Kind[j] = "LeafVerification"
              /\ Try(q,
                     require_verification_source(j, n),
                     complete_verification(j, n) /\ NextJob(q)
                         /\ UNCHANGED <<objects, accepted, rejected, aborts>>)
           \/ /\ Kind[j] \in {"Witness", "Prepare", "LeafProof"}
              /\ Try(q,
                     require_unique_open_attempt(j, n),
                     /\ apply_attempt_event(j, n, completion_event(Kind[j]))
                     /\ Goto(q, [driver[q] EXCEPT !.pc = "publish"])
                     /\ UNCHANGED <<objects, accepted, rejected, aborts>>)
           \/ /\ Kind[j] = "NativeAggregate"
              /\ Goto(q, [driver[q] EXCEPT !.pc = "publish"])
              /\ UNCHANGED <<dbVars, objects, accepted, rejected, aborts>>

\* stage, write, validate and publish; module ContentStore of the plan.
publish(q) ==
    /\ At(q, "publish")
    /\ objects' = objects \cup {<<driver[q].job, driver[q].attempt>>}
    /\ Goto(q, [driver[q] EXCEPT !.pc = "commit"])
    /\ UNCHANGED <<dbVars, accepted, rejected, aborts>>

\* Variant for testing DriversUseTheDb: the attempt is not checked again.
CommitStale(q) ==
    LET j == driver[q].job
        n == driver[q].attempt
    IN  /\ At(q, "commit")
        /\ state' = SetState(state, {j}, "Verified")
        /\ artifacts' = [artifacts EXCEPT ![j] = n]
        /\ verification_records' = [verification_records EXCEPT ![j] = Append(@, n)]
        /\ UNCHANGED <<attempt_count, execution_retries, resource_requeues, terminal_failure,
                       dependencies, attempts, key_artifacts, resource_history>>
        /\ NextJob(q)
        /\ UNCHANGED <<objects, accepted, rejected, aborts>>

commit(q) ==
    LET j == driver[q].job
        n == driver[q].attempt
    IN  /\ At(q, "commit")
        /\ Try(q,
               require_verification_source(j, n),
               /\ commit_verified_artifact(j, n) \/ commit_verified_key(j, n)
               /\ NextJob(q)
               /\ UNCHANGED <<objects, accepted, rejected, aborts>>)

-----------------------------------------------------------------------------
DriverStep(q) ==
    \/ ensure_job(q)
    \/ ensure_edge(q)
    \/ begin_round(q)
    \/ decide(q)
    \/ run_one(q)
    \/ worker_succeeded(q)
    \/ worker_failed(q)
    \/ launch_error(q)
    \/ verifier_accepts(q)
    \/ verifier_rejects(q)
    \/ finish_success(q)
    \/ publish(q)
    \/ commit(q)

QueueNext == \E q \in Queues : start(q) \/ DriverStep(q) \/ abort(q)

QueueSpec == QueueInit /\ [][QueueNext]_vars

\* run_queue is sequential code: it takes its next step unless it is killed.
\* A run that ended with an error is run again; one that returned need not be.
QueueFairness ==
    \A q \in Queues : WF_vars(DriverStep(q)) /\ WF_vars(At(q, "idle") /\ start(q))

FairQueueSpec == QueueSpec /\ QueueFairness

-----------------------------------------------------------------------------
(* Properties *)

Settled(j) == Final(j)

\* Every step of a driver is an operation of the run database, used with the
\* discipline of RunDb's general client, or leaves the database alone: what is
\* proved of RunDb holds of the queue.
DriversUseTheDb == [][DbNext]_dbVars

\* A job has never been started unless every predecessor its plan names is
\* Verified ("downstream never starts while a dependency is not verified").
\* The database knows only the edges that ensure_planned has persisted.
PlanRespected ==
    \A e \in Edges : attempt_count[e[2]] > 0 => state[e[1]] = "Verified"

\* A job is Verified only on the strength of a verdict on the very attempt its
\* record names, and, unless it only verifies, with that attempt's output
\* published: verification first, publication second, the commit last.
EvidenceBehindVerified ==
    \A j \in Jobs : state[j] = "Verified" =>
        LET source_attempt == <<j, verification_records[j][1]>>
        IN  /\ source_attempt \in accepted \ rejected
            /\ Kind[j] # "LeafVerification" => source_attempt \in objects

\* run_queue returns only when no job is left to run: each one is Verified,
\* blocked, or has failed for good.
ReturnsSettled ==
    (\E q \in Queues : At(q, "returned")) => \A j \in Jobs : Settled(j)

\* One process runs the queue.
OneDriver == \A q, r \in Queues : q = r

\* The number of attempts of a job: the first, the charged retries, and one
\* more for each time the environment ended a run.  Two processes take running
\* attempts from each other when they start, which is charged to nobody.
RetryBudget ==
    OneDriver => \A j \in Jobs : attempt_count[j] <= 1 + ExecutionRetryLimit + aborts

\* However the workers fail, and wherever the environment ends a run finitely
\* often, running the queue again brings every job to an end.
EventuallySettled == <>[](\A j \in Jobs : Settled(j))

\* run_queue keeps to the plan and to the retry limits, and leaves no job
\* Verified without its evidence, whichever driver dies or is overtaken.
QueueSafe ==
    /\ QueueTypeOK /\ PlanRespected /\ EvidenceBehindVerified /\ RetryBudget
    /\ AttemptDiscipline /\ VerifiedByLatestAttempt
=============================================================================
