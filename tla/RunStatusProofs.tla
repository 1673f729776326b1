--------------------------- MODULE RunStatusProofs ---------------------------
(***************************************************************************)
(* Proofs about how a run of the queue ends, and about what status and     *)
(* verify say of it, for every acyclic plan: a queue that returns leaves   *)
(* no job behind, and the answers given at any moment are right.           *)
(***************************************************************************)
EXTENDS RunStatus, QueueProofs

\* Every set of jobs has one whose predecessors in the plan are all outside it.
Acyclic ==
    \A S \in SUBSET Jobs : S # {} => \E j \in S : \A p \in S : <<p, j>> \notin Edges

\* What a return without leftovers rests on: one process, a capacity that each
\* job fits into, a memory monitor that admits, and no crash between the
\* completion event and the commit (run queue_stranded shows what one does).
Undisturbed ==
    /\ OneDriver
    /\ Acyclic
    /\ AbortAt \cap {"publish", "commit"} = {}
    /\ ~MayFreeze
    /\ \A j \in Jobs : Fits({j})

\* While a job of the plan or an edge of a created job is missing, nothing has
\* been started: run_queue inserts all jobs first, and then their edges.
PlanFresh ==
    (\/ \E j \in Jobs : state[j] = "absent"
     \/ \E q \in Queues : driver[q].created # {} \/ driver[q].edges # {})
    => \A j \in Jobs : state[j] \in {"absent", "Pending"}

\* A driver past ensure_jobs has found or created every job.
InsertInv ==
    \A q \in Queues, j \in Jobs :
        state[j] = "absent" =>
            \/ driver[q].pc = "idle"
            \/ driver[q].pc = "insert" /\ j \in driver[q].todo

FreshInv == QueueInv /\ PlanFresh /\ InsertInv

\* The states of a job whose output waits for its publication and commit.
Finishing == {"WitnessReady", "Prepared", "Proved"}

\* A job is in flight only in the hands of the driver, or was left open by a
\* run that has ended; an output that waits for its commit is never left.
InFlight(q, j) ==
    /\ state[j] \in Finishing =>
          driver[q].pc \in {"publish", "commit"} /\ driver[q].job = j
    /\ state[j] \in ActiveStates =>
          driver[q].pc = "idle" \/ (driver[q].pc \in Running /\ driver[q].job = j)
    /\ state[j] # "Interrupted"

\* A terminal failure has reached every job below it: refresh_readiness, which
\* walks the jobs once and in the order of their ids, has nothing to block.
FailuresBlock ==
    /\ \A j \in Jobs : state[j] = "Blocked" => terminal_failure[j]
    /\ \A p, s \in Jobs :
          <<p, s>> \in dependencies /\ terminal_failure[p] => state[s] = "Blocked"

\* The candidates of a round are still Ready when the scheduler decides.
CandidatesReady(q) ==
    driver[q].pc = "decide" => driver[q].todo # {} /\ driver[q].todo \subseteq Ready

SettleInv ==
    /\ BudgetInv /\ FreshInv
    /\ dependencies \subseteq Edges
    /\ FailuresBlock
    /\ \A q \in Queues :
          /\ \A j \in Jobs : InFlight(q, j)
          /\ CandidatesReady(q)
          /\ driver[q].pc = "returned" => \A j \in Jobs : Final(j)

-----------------------------------------------------------------------------
(* Where the steps of a driver lead *)

\* A step to a new local state, as seen by the driver that takes it.
LEMMA GoesTo ==
    ASSUME QueueInv, NEW q \in Queues, NEW local, Goto(q, local)
    PROVE  driver'[q] = local
  BY DriverFacts DEF Goto, QueueInv

\* A run starts with all jobs to look at, and requeues what is interruptible.
LEMMA StartGoes ==
    ASSUME QueueInv, NEW q \in Queues, start(q)
    PROVE  /\ driver[q].pc \in {"idle", "returned"}
           /\ driver'[q].pc = "insert" /\ driver'[q].todo = Jobs
           /\ driver'[q].created = {} /\ driver'[q].edges = {}
           /\ state' = SetState(state, Interruptible, "Requeued")
           /\ UNCHANGED <<terminal_failure, dependencies, attempt_count>>
  <1>1. driver'[q] = [Local("insert") EXCEPT !.todo = Jobs]
    BY GoesTo DEF start
  <1>2. driver'[q].pc = "insert" /\ driver'[q].todo = Jobs
    BY <1>1 DEF Local
  <1>3. driver'[q].created = {} /\ driver'[q].edges = {}
    BY <1>1 DEF Local
  <1> QED
    BY <1>2, <1>3 DEF start, recover_interrupted

\* One job of the plan is created if it is missing; after the last one the
\* driver goes on to the edges, or to its first round.
LEMMA EnsureJobGoes ==
    ASSUME QueueInv, NEW q \in Queues, ensure_job(q)
    PROVE  \E j \in driver[q].todo :
              /\ driver[q].pc = "insert" /\ j \in Jobs
              /\ \A i \in Jobs :
                    state'[i] = IF i = j /\ state[j] = "absent" THEN "Pending" ELSE state[i]
              /\ UNCHANGED <<terminal_failure, dependencies, attempt_count>>
              /\ \/ driver'[q].pc = "insert" /\ driver'[q].todo = driver[q].todo \ {j}
                 \/ driver'[q].pc \in {"edges", "round"} /\ driver[q].todo \ {j} = {}
  <1> PICK j \in driver[q].todo :
        LET created == driver[q].created \cup (IF state[j] = "absent" THEN {j} ELSE {})
            todo == driver[q].todo \ {j}
            edges == {e \in Edges : e[2] \in created}
        IN  /\ IF state[j] = "absent" THEN insert_job(j) ELSE UNCHANGED dbVars
            /\ Goto(q, IF todo # {}
                       THEN [driver[q] EXCEPT !.todo = todo, !.created = created]
                       ELSE IF edges # {}
                       THEN [Local("edges") EXCEPT !.edges = edges]
                       ELSE Local("round"))
    BY DEF ensure_job
  <1> DEFINE created == driver[q].created \cup (IF state[j] = "absent" THEN {j} ELSE {})
             todo == driver[q].todo \ {j}
             edges == {e \in Edges : e[2] \in created}
             more == [driver[q] EXCEPT !.todo = todo, !.created = created]
             linking == [Local("edges") EXCEPT !.edges = edges]
  <1>1. driver'[q] = IF todo # {} THEN more ELSE IF edges # {} THEN linking ELSE Local("round")
    BY GoesTo
  <1>2. driver[q].pc = "insert" /\ driver[q] \in DriverRecord /\ j \in Jobs /\ TypeOK
    BY DriverFacts DEF ensure_job, At, QueueInv, DbInv
  <1>3. \A i \in Jobs : state'[i] = IF i = j /\ state[j] = "absent" THEN "Pending" ELSE state[i]
    BY <1>2 DEF insert_job, dbVars, TypeOK
  <1>4. UNCHANGED <<terminal_failure, dependencies, attempt_count>>
    BY DEF insert_job, dbVars
  <1> HIDE DEF created, edges
  <1>5. more.pc = "insert" /\ more.todo = todo
    BY <1>2 DEF DriverRecord
  <1>6. linking.pc = "edges" /\ Local("round").pc = "round"
    BY DEF Local
  <1> HIDE DEF more, linking
  <1>7. \/ driver'[q].pc = "insert" /\ driver'[q].todo = todo
        \/ driver'[q].pc \in {"edges", "round"} /\ todo = {}
    BY <1>1, <1>5, <1>6
  <1> QED
    BY <1>2, <1>3, <1>4, <1>7

\* One edge of a created job is added.
LEMMA EnsureEdgeGoes ==
    ASSUME QueueInv, NEW q \in Queues, ensure_edge(q)
    PROVE  /\ driver[q].pc = "edges" /\ driver[q].edges # {}
           /\ driver'[q].pc \in {"edges", "round"}
           /\ UNCHANGED <<state, terminal_failure, attempt_count>>
           /\ dependencies' \subseteq dependencies \cup Edges
  <1> PICK e \in driver[q].edges :
        LET edges == driver[q].edges \ {e}
        IN  /\ add_dependency(e[1], e[2])
            /\ Goto(q, IF edges # {} THEN [driver[q] EXCEPT !.edges = edges]
                       ELSE Local("round"))
    BY DEF ensure_edge
  <1> DEFINE edges == driver[q].edges \ {e}
             more == [driver[q] EXCEPT !.edges = edges]
  <1>1. driver'[q] = IF edges # {} THEN more ELSE Local("round")
    BY GoesTo
  <1>2. driver[q].pc = "edges" /\ driver[q] \in DriverRecord /\ e \in Edges
    BY DriverFacts DEF ensure_edge, At, QueueInv
  <1>3. UNCHANGED <<state, terminal_failure, attempt_count>>
        /\ dependencies' = dependencies \cup {<<e[1], e[2]>>}
    BY DEF add_dependency, jobVars
  <1>4. <<e[1], e[2]>> \in Edges
    BY <1>2, EdgesAssumption
  <1> HIDE DEF edges
  <1>5. more.pc = "edges" /\ Local("round").pc = "round"
    BY <1>2 DEF DriverRecord, Local
  <1> HIDE DEF more
  <1> QED
    BY <1>1, <1>2, <1>3, <1>4, <1>5

\* The head of a round gives up, returns because nothing is Ready, or takes
\* what is Ready as the candidates.
LEMMA RoundGoes ==
    ASSUME QueueInv, NEW q \in Queues, begin_round(q)
    PROVE  /\ driver[q].pc = "round"
           /\ \/ driver'[q].pc = "idle" /\ UNCHANGED dbVars
              \/ driver'[q].pc = "returned" /\ refresh_readiness /\ Ready' = {}
              \/ /\ driver'[q].pc = "decide" /\ refresh_readiness
                 /\ Ready' # {} /\ driver'[q].todo = Ready'
  <1> DEFINE going == [Local("decide") EXCEPT !.rounds = driver[q].rounds + 1, !.todo = Ready']
             local == IF Ready' = {} THEN Local("returned") ELSE going
  <1>1. driver[q].pc = "round"
    BY DEF begin_round, At
  <1>2. CASE Error(q)
    <2>1. driver'[q] = Local("idle") /\ UNCHANGED dbVars
      BY <1>2, GoesTo DEF Error
    <2>2. driver'[q].pc = "idle"
      BY <2>1 DEF Local
    <2> QED
      BY <1>1, <2>1, <2>2
  <1>3. CASE refresh_readiness /\ Goto(q, local)
    <2>1. driver'[q] = IF Ready' = {} THEN Local("returned") ELSE going
      BY <1>3, GoesTo
    <2>2. going.pc = "decide" /\ going.todo = Ready' /\ Local("returned").pc = "returned"
      BY DEF Local
    <2> HIDE DEF going
    <2>3. \/ driver'[q].pc = "returned" /\ Ready' = {}
          \/ driver'[q].pc = "decide" /\ Ready' # {} /\ driver'[q].todo = Ready'
      BY <2>1, <2>2
    <2> QED
      BY <1>1, <1>3, <2>3
  <1> QED
    BY <1>2, <1>3 DEF begin_round

\* The scheduler selects some of the candidates, or the run returns.
LEMMA DecideGoes ==
    ASSUME QueueInv, NEW q \in Queues, decide(q)
    PROVE  /\ driver[q].pc = "decide"
           /\ \/ MayFreeze /\ driver'[q].pc = "returned"
              \/ /\ refresh_readiness
                 /\ \E S \in Packings({j \in driver[q].todo \cap Ready' :
                                            required_predecessors_verified(j)'}) :
                        driver'[q].pc = IF S = {} THEN "returned" ELSE "begin"
  <1>1. driver[q].pc = "decide" /\ Local("returned").pc = "returned"
    BY DEF decide, At, Local
  <1>2. CASE MayFreeze /\ Goto(q, Local("returned"))
    BY <1>1, <1>2, GoesTo
  <1>3. CASE /\ refresh_readiness
             /\ \E S \in Packings({j \in driver[q].todo \cap Ready' :
                                        required_predecessors_verified(j)'}) :
                    Goto(q, IF S = {}
                            THEN Local("returned")
                            ELSE [Local("begin") EXCEPT !.rounds = driver[q].rounds,
                                                        !.selected = S])
    <2>1. PICK S \in Packings({j \in driver[q].todo \cap Ready' :
                                        required_predecessors_verified(j)'}) :
                Goto(q, IF S = {}
                        THEN Local("returned")
                        ELSE [Local("begin") EXCEPT !.rounds = driver[q].rounds, !.selected = S])
      BY <1>3
    <2> DEFINE going == [Local("begin") EXCEPT !.rounds = driver[q].rounds, !.selected = S]
    <2>2. driver'[q] = IF S = {} THEN Local("returned") ELSE going
      BY <2>1, GoesTo
    <2>3. going.pc = "begin"
      BY DEF Local
    <2> HIDE DEF going
    <2>4. driver'[q].pc = IF S = {} THEN "returned" ELSE "begin"
      BY <1>1, <2>2, <2>3
    <2> QED
      BY <1>1, <1>3, <2>4
  <1> QED
    BY <1>2, <1>3 DEF decide

\* A selected job is refused, which ends the run, or its attempt begins.
LEMMA BeginGoes ==
    ASSUME QueueInv, NEW q \in Queues, run_one(q)
    PROVE  /\ driver[q].pc = "begin"
           /\ \/ Error(q)
              \/ \E j \in Jobs : /\ state[j] = "Ready" /\ begin_attempt(j, start_event(Kind[j]))
                                 /\ driver'[q].pc = "worker" /\ driver'[q].job = j
  <1>1. driver[q].pc = "begin" /\ driver[q] \in DriverRecord /\ driver[q].selected \subseteq Jobs
    BY DriverFacts DEF run_one, At, QueueInv
  <1>2. ASSUME NEW j \in driver[q].selected, NEW n,
               Goto(q, [driver[q] EXCEPT !.pc = "worker", !.job = j, !.attempt = n])
        PROVE  driver'[q].pc = "worker" /\ driver'[q].job = j
    <2>1. driver'[q] = [driver[q] EXCEPT !.pc = "worker", !.job = j, !.attempt = n]
      BY <1>2, GoesTo
    <2> QED
      BY <1>1, <2>1 DEF DriverRecord
  <1>3. ASSUME ~Error(q)
        PROVE  \E j \in driver[q].selected :
                  /\ state[j] = "Ready" /\ begin_attempt(j, start_event(Kind[j]))
                  /\ Goto(q, [driver[q] EXCEPT !.pc = "worker", !.job = j,
                                               !.attempt = attempt_count[j] + 1])
    BY <1>3 DEF run_one, Try
  <1> QED
    BY <1>1, <1>2, <1>3

-----------------------------------------------------------------------------
(* The plan is complete before anything starts *)

\* A driver that has persisted the plan does not go back to it.
LEMMA NeverPlansAgain ==
    ASSUME QueueInv, NEW q \in Queues, DriverStep(q) \/ abort(q),
           driver[q].pc \notin {"insert", "edges"}
    PROVE  driver'[q].pc \notin {"insert", "edges"}
  <1>1. driver[q] \in DriverRecord /\ QueueTypeOK
    BY DriverFacts DEF QueueInv
  <1>2. CASE Error(q) \/ EndedByEnvironment(q)
    <2>1. driver'[q] = Local("idle")
      BY <1>2, GoesTo DEF Error, EndedByEnvironment
    <2> QED
      BY <2>1 DEF Local
  <1>3. CASE NextJob(q)
    <2>1. PICK local \in DriverRecord : Goto(q, local) /\ local.pc \in {"round", "begin"}
      BY <1>1, <1>3, NextJobFacts
    <2> QED
      BY <2>1, GoesTo
  <1>4. ASSUME NEW pc \in Running, Goto(q, [driver[q] EXCEPT !.pc = pc])
        PROVE  driver'[q].pc \notin {"insert", "edges"}
    <2>1. driver'[q] = [driver[q] EXCEPT !.pc = pc]
      BY <1>4, GoesTo
    <2>2. driver'[q].pc = pc
      BY <1>1, <2>1 DEF DriverRecord
    <2> QED
      BY <2>2 DEF Running
  <1>5. {"worker", "verify", "accepted", "publish", "commit"} \subseteq Running
    BY DEF Running
  <1>6. CASE begin_round(q) \/ decide(q)
    BY <1>6, RoundGoes, DecideGoes
  <1>7. CASE run_one(q)
    BY <1>2, <1>7, BeginGoes
  <1>8. CASE worker_succeeded(q) \/ verifier_accepts(q) \/ publish(q)
    BY <1>4, <1>5, <1>8 DEF worker_succeeded, verifier_accepts, publish
  <1>9. CASE worker_failed(q) \/ finish_success(q) \/ commit(q)
    BY <1>2, <1>3, <1>4, <1>5, <1>9 DEF worker_failed, finish_success, commit, Try
  <1>10. CASE launch_error(q) \/ verifier_rejects(q) \/ abort(q)
    BY <1>2, <1>10 DEF launch_error, verifier_rejects, abort
  <1> QED
    BY <1>6, <1>7, <1>8, <1>9, <1>10 DEF DriverStep, ensure_job, ensure_edge, At

\* With one driver, every step keeps the plan complete or untouched.
LEMMA FreshStep ==
    ASSUME OneDriver, FreshInv, [QueueNext]_vars
    PROVE  FreshInv'
  <1>1. QueueInv /\ QueueInv' /\ TypeOK /\ TypeOK'
    <2>1. PlanSafe /\ QueueInv
      BY DEF PlanSafe, FreshInv
    <2> QED
      BY <2>1, QueueInvInductive DEF QueueInv, DbInv
  <1>2. CASE UNCHANGED vars
    BY <1>1, <1>2 DEF FreshInv, PlanFresh, InsertInv, vars, dbVars, queueVars
  <1>3. ASSUME NEW q \in Queues, start(q) \/ DriverStep(q) \/ abort(q)
        PROVE  PlanFresh' /\ InsertInv'
    <2>1. \A r \in Queues : r = q
      BY DEF OneDriver
    <2>2. CASE ensure_job(q)
      <3>1. PICK j \in driver[q].todo :
              /\ driver[q].pc = "insert" /\ j \in Jobs
              /\ \A i \in Jobs :
                    state'[i] = IF i = j /\ state[j] = "absent" THEN "Pending" ELSE state[i]
              /\ \/ driver'[q].pc = "insert" /\ driver'[q].todo = driver[q].todo \ {j}
                 \/ driver'[q].pc \in {"edges", "round"} /\ driver[q].todo \ {j} = {}
        BY <1>1, <2>2, EnsureJobGoes
      <3>2. \A i \in Jobs : state[i] = "absent" => i \in driver[q].todo
        BY <3>1 DEF FreshInv, InsertInv
      <3>3. InsertInv'
        BY <2>1, <3>1, <3>2 DEF InsertInv
      <3>4. CASE \A i \in Jobs : state[i] \in {"absent", "Pending"}
        BY <3>1, <3>3, <3>4 DEF PlanFresh
      <3>5. CASE ~(\A i \in Jobs : state[i] \in {"absent", "Pending"})
        <4>1. /\ \A i \in Jobs : state[i] # "absent"
              /\ driver[q].created = {} /\ driver[q].edges = {}
          BY <3>5 DEF FreshInv, PlanFresh
        <4>2. driver'[q].created = {} /\ driver'[q].edges = {}
          <5> PICK k \in driver[q].todo :
                LET created == driver[q].created \cup (IF state[k] = "absent" THEN {k} ELSE {})
                    todo == driver[q].todo \ {k}
                    edges == {e \in Edges : e[2] \in created}
                IN  Goto(q, IF todo # {}
                            THEN [driver[q] EXCEPT !.todo = todo, !.created = created]
                            ELSE IF edges # {}
                            THEN [Local("edges") EXCEPT !.edges = edges]
                            ELSE Local("round"))
            BY <2>2 DEF ensure_job
          <5> DEFINE todo == driver[q].todo \ {k}
                     more == [driver[q] EXCEPT !.todo = todo, !.created = {}]
          <5>1. k \in Jobs /\ driver[q] \in DriverRecord
            BY <1>1, DriverFacts DEF QueueInv
          <5>2. driver[q].created \cup (IF state[k] = "absent" THEN {k} ELSE {}) = {}
            BY <4>1, <5>1
          <5>3. {e \in Edges : e[2] \in {}} = {}
            OBVIOUS
          <5>4. driver'[q] = IF todo # {} THEN more ELSE Local("round")
            BY <1>1, <5>2, <5>3, GoesTo
          <5>5. more.created = {} /\ more.edges = driver[q].edges
            BY <5>1 DEF DriverRecord
          <5>6. Local("round").created = {} /\ Local("round").edges = {}
            BY DEF Local
          <5> HIDE DEF more
          <5> QED
            BY <4>1, <5>4, <5>5, <5>6
        <4>3. \A i \in Jobs : state'[i] # "absent"
          BY <3>1, <4>1
        <4> QED
          BY <2>1, <3>3, <4>2, <4>3 DEF PlanFresh
      <3> QED
        BY <3>3, <3>4, <3>5
    <2>3. CASE ensure_edge(q)
      <3>1. /\ driver[q].pc = "edges" /\ driver[q].edges # {} /\ state' = state
        BY <1>1, <2>3, EnsureEdgeGoes
      <3>2. \A i \in Jobs : state[i] # "absent" /\ state[i] \in {"absent", "Pending"}
        BY <3>1 DEF FreshInv, PlanFresh, InsertInv
      <3> QED
        BY <3>1, <3>2 DEF PlanFresh, InsertInv
    <2>4. CASE ~ensure_job(q) /\ ~ensure_edge(q)
      <3>1. \A i \in Jobs : state[i] = "absent" <=> state'[i] = "absent"
        <4>1. \A i \in Jobs : state[i] = "absent" => state'[i] = "absent"
          BY <1>1, <1>3, <2>4, DriverOperations, AbsentStays
        <4>2. DbInv /\ (DbNext \/ UNCHANGED dbVars)
          BY <1>1, <1>3, QueueInvInductive DEF PlanSafe, QueueInv, QueueNext
        <4> QED
          BY <4>1, <4>2, CountsGrow
      <3>2. driver'[q].created = {} /\ driver'[q].edges = {}
        <4>1. CASE start(q)
          BY <1>1, <4>1, StartGoes
        <4>2. CASE ~start(q)
          <5>1. CASE driver[q].pc \in {"insert", "edges"}
            <6>1. abort(q)
              BY <1>3, <2>4, <4>2, <5>1
                 DEF DriverStep, At, begin_round, decide, run_one, worker_succeeded, worker_failed,
                     launch_error, verifier_accepts, verifier_rejects, finish_success, publish,
                     commit
            <6>2. driver'[q] = Local("idle")
              BY <1>1, <6>1, GoesTo DEF abort, EndedByEnvironment
            <6> QED
              BY <6>2 DEF Local
          <5>2. CASE driver[q].pc \notin {"insert", "edges"}
            <6>1. driver'[q].pc \notin {"insert", "edges"}
              BY <1>1, <1>3, <2>4, <4>2, <5>2, NeverPlansAgain
            <6> QED
              BY <1>1, <6>1 DEF QueueInv, PlanningInv
          <5> QED
            BY <5>1, <5>2
        <4> QED
          BY <4>1, <4>2
      <3>3. CASE \A i \in Jobs : state[i] # "absent"
        BY <2>1, <3>1, <3>2, <3>3 DEF PlanFresh, InsertInv
      <3>4. ASSUME NEW i \in Jobs, state[i] = "absent"
            PROVE  PlanFresh' /\ InsertInv'
        <4>1. driver[q].pc \in {"idle", "insert"} /\ \A j \in Jobs : state[j] \in {"absent", "Pending"}
          BY <3>4 DEF FreshInv, PlanFresh, InsertInv
        <4>2. start(q) \/ abort(q)
          BY <1>3, <2>4, <4>1
             DEF DriverStep, At, begin_round, decide, run_one, worker_succeeded, worker_failed,
                 launch_error, verifier_accepts, verifier_rejects, finish_success, publish, commit
        <4>3. CASE start(q)
          <5>1. /\ state' = SetState(state, Interruptible, "Requeued")
                /\ driver'[q].pc = "insert" /\ driver'[q].todo = Jobs
            BY <1>1, <4>3, StartGoes
          <5>2. Interruptible = {}
            BY <4>1 DEF Interruptible, ActiveStates
          <5>3. \A j \in Jobs : state'[j] = state[j]
            BY <5>1, <5>2 DEF SetState
          <5> QED
            BY <2>1, <4>1, <5>1, <5>3 DEF PlanFresh, InsertInv
        <4>4. CASE abort(q)
          <5>1. driver'[q] = Local("idle") /\ state' = state
            BY <1>1, <4>4, GoesTo DEF abort, EndedByEnvironment, dbVars
          <5>2. driver'[q].pc = "idle"
            BY <5>1 DEF Local
          <5> QED
            BY <2>1, <4>1, <5>1, <5>2 DEF PlanFresh, InsertInv
        <4> QED
          BY <4>2, <4>3, <4>4
      <3> QED
        BY <3>3, <3>4
    <2> QED
      BY <2>2, <2>3, <2>4
  <1> QED
    BY <1>1, <1>2, <1>3 DEF QueueNext, FreshInv

-----------------------------------------------------------------------------
(* A return leaves nothing behind *)

\* In an acyclic plan whose failures have reached every job below them,
\* refresh_readiness only unlocks.
LEMMA RefreshUnlocks ==
    ASSUME Acyclic, DbInv, dependencies \subseteq Edges, FailuresBlock, refresh_readiness
    PROVE  /\ \A i \in Jobs : state'[i] = IF i \in Unlocked THEN "Ready" ELSE state[i]
           /\ UNCHANGED <<terminal_failure, dependencies, attempt_count>>
  <1>1. PICK B \in SUBSET Waiting :
            /\ BlockedInPass(B)
            /\ state' = SetState(SetState(state, Unlocked, "Ready"), B, "Blocked")
    BY DEF refresh_readiness
  <1>2. B = {}
    <2> SUFFICES ASSUME B # {}
                 PROVE  FALSE
      OBVIOUS
    <2>1. B \in SUBSET Jobs
      BY DEF Waiting
    <2>2. PICK j \in B : \A p \in B : <<p, j>> \notin Edges
      BY <2>1 DEF Acyclic
    <2>3. PICK p \in Predecessors(j) :
              terminal_failure[p] \/ state[p] \in {"VerificationFailed", "Blocked"} \/ p \in B
      BY <1>1, <2>2 DEF BlockedInPass
    <2>4. p \in Jobs /\ j \in Jobs /\ <<p, j>> \in dependencies /\ state[j] # "Blocked"
      BY <2>1, <2>2, <2>3, WaitingFacts DEF Predecessors
    <2>5. terminal_failure[p]
      BY <2>2, <2>3, <2>4 DEF FailuresBlock, DbInv, TerminalConsistent
    <2> QED
      BY <2>4, <2>5 DEF FailuresBlock
  <1> QED
    BY <1>1, <1>2 DEF SetState, refresh_readiness

\* A step that blocks nobody keeps the failures propagated.
LEMMA FailuresKept ==
    ASSUME FailuresBlock, UNCHANGED <<terminal_failure, dependencies>>,
           \A i \in Jobs : state'[i] = "Blocked" <=> state[i] = "Blocked"
    PROVE  FailuresBlock'
  BY DEF FailuresBlock

\* When nothing is in flight and nothing becomes Ready, every job is final: a
\* waiting job would have a predecessor that waits too, without end.
LEMMA NothingReadyIsSettled ==
    ASSUME Acyclic, DbInv, DbInv', dependencies \subseteq Edges, FailuresBlock, refresh_readiness,
           Ready' = {},
           \A j \in Jobs : state[j] \notin {"absent", "Interrupted"} \cup Finishing \cup ActiveStates
    PROVE  \A j \in Jobs : Final(j)'
  <1>1. /\ \A i \in Jobs : state'[i] = IF i \in Unlocked THEN "Ready" ELSE state[i]
        /\ UNCHANGED terminal_failure
    BY RefreshUnlocks
  <1>2. \A i \in Jobs : state'[i] = state[i] /\ state[i] # "Ready" /\ i \notin Unlocked
    BY <1>1 DEF Ready
  <1>3. \A i \in Jobs : \/ state[i] \in {"Pending", "Requeued"}
                        \/ state[i] = "Verified" \/ terminal_failure[i]
    <2>1. \A i \in Jobs : state[i] \in JobStates \cup {"absent"}
      BY DEF DbInv, TypeOK
    <2> QED
      BY <1>2, <2>1
         DEF JobStates, Finishing, ActiveStates, DbInv, TerminalConsistent, FailuresBlock
  <1>4. Waiting = {}
    <2> SUFFICES ASSUME Waiting # {}
                 PROVE  FALSE
      OBVIOUS
    <2>1. PICK j \in Waiting : \A p \in Waiting : <<p, j>> \notin Edges
      BY DEF Acyclic, Waiting
    <2>2. j \in Jobs /\ state[j] \in {"Pending", "Requeued"}
      BY WaitingFacts DEF Waiting
    <2>3. PICK p \in Predecessors(j) : state[p] # "Verified"
      BY <1>2, <2>2 DEF Unlocked, required_predecessors_verified
    <2>4. p \in Jobs /\ <<p, j>> \in dependencies
      BY <2>3 DEF Predecessors
    <2>5. ~terminal_failure[p]
      BY <2>2, <2>4 DEF FailuresBlock
    <2>6. p \in Waiting
      BY <1>3, <2>3, <2>4, <2>5, WaitingFacts
    <2> QED
      BY <2>1, <2>4, <2>6
  <1> QED
    BY <1>1, <1>2, <1>3, <1>4, WaitingFacts DEF Final

\* The parts of the invariant that the steps below keep, for the only driver.
SettledBy(q) ==
    /\ dependencies \subseteq Edges
    /\ FailuresBlock
    /\ \A j \in Jobs : InFlight(q, j)
    /\ CandidatesReady(q)
    /\ driver[q].pc = "returned" => \A j \in Jobs : Final(j)

\* A driver between two attempts has nothing in flight.
LEMMA NothingInFlight ==
    ASSUME NEW q \in Queues, \A j \in Jobs : InFlight(q, j),
           driver[q].pc \notin Running \cup {"idle"}
    PROVE  \A j \in Jobs : state[j] \notin {"Interrupted"} \cup Finishing \cup ActiveStates
  <1>1. driver[q].pc \notin {"publish", "commit"}
    BY DEF Running
  <1> QED
    BY <1>1 DEF InFlight

\* A run starts, or persists its plan.
LEMMA PlanningSettles ==
    ASSUME QueueInv, FreshInv, NEW q \in Queues, SettledBy(q),
           start(q) \/ ensure_job(q) \/ ensure_edge(q)
    PROVE  SettledBy(q)'
  <1>1. CASE start(q)
    <2>1. /\ driver[q].pc \in {"idle", "returned"} /\ driver'[q].pc = "insert"
          /\ state' = SetState(state, Interruptible, "Requeued")
          /\ UNCHANGED <<terminal_failure, dependencies>>
      BY <1>1, StartGoes
    <2>2. \A j \in Jobs : state[j] \in ActiveStates <=> j \in Interruptible
      BY DEF Interruptible, QueueInv, DbInv, AttemptDiscipline
    <2>3. \A j \in Jobs : state'[j] = IF state[j] \in ActiveStates THEN "Requeued" ELSE state[j]
      BY <2>1, <2>2 DEF SetState
    <2>4. FailuresBlock'
      <3>1. \A j \in Jobs : state'[j] = "Blocked" <=> state[j] = "Blocked"
        BY <2>3 DEF ActiveStates
      <3> QED
        BY <2>1, <3>1, FailuresKept DEF SettledBy
    <2>5. \A j \in Jobs : InFlight(q, j)'
      BY <2>1, <2>3 DEF SettledBy, InFlight, ActiveStates, Finishing
    <2> QED
      BY <2>1, <2>4, <2>5 DEF SettledBy, CandidatesReady
  <1>2. CASE ensure_job(q)
    <2>1. PICK k \in driver[q].todo :
            /\ driver[q].pc = "insert" /\ driver'[q].pc \in {"insert", "edges", "round"}
            /\ \A i \in Jobs :
                  state'[i] = IF i = k /\ state[k] = "absent" THEN "Pending" ELSE state[i]
            /\ UNCHANGED <<terminal_failure, dependencies>>
      BY <1>2, EnsureJobGoes
    <2>2. FailuresBlock'
      BY <2>1, FailuresKept DEF SettledBy
    <2>3. \A j \in Jobs : state[j] \notin {"Interrupted"} \cup Finishing \cup ActiveStates
      BY <2>1, NothingInFlight DEF SettledBy, Running
    <2>4. \A j \in Jobs : InFlight(q, j)'
      BY <2>1, <2>3 DEF InFlight, ActiveStates, Finishing
    <2> QED
      BY <2>1, <2>2, <2>4 DEF SettledBy, CandidatesReady
  <1>3. CASE ensure_edge(q)
    <2>1. /\ driver[q].pc = "edges" /\ driver[q].edges # {}
          /\ driver'[q].pc \in {"edges", "round"}
          /\ UNCHANGED <<state, terminal_failure>> /\ dependencies' \subseteq dependencies \cup Edges
      BY <1>3, EnsureEdgeGoes
    <2>2. \A j \in Jobs : state[j] \in {"absent", "Pending"}
      BY <2>1 DEF FreshInv, PlanFresh
    <2>3. \A j \in Jobs : ~terminal_failure[j]
      BY <2>2 DEF QueueInv, DbInv, TerminalConsistent
    <2>4. FailuresBlock'
      BY <2>1, <2>2, <2>3 DEF FailuresBlock
    <2>5. \A j \in Jobs : InFlight(q, j)'
      BY <2>1, <2>2 DEF InFlight, ActiveStates, Finishing
    <2> QED
      BY <2>1, <2>4, <2>5 DEF SettledBy, CandidatesReady
  <1> QED
    BY <1>1, <1>2, <1>3

\* The head of a round returns only when every job is final.
LEMMA RoundSettles ==
    ASSUME Acyclic, QueueInv, QueueInv', FreshInv, NEW q \in Queues, SettledBy(q), begin_round(q)
    PROVE  SettledBy(q)'
  <1>1. /\ driver[q].pc = "round"
        /\ \A j \in Jobs : state[j] \notin {"Interrupted"} \cup Finishing \cup ActiveStates
    BY RoundGoes, NothingInFlight DEF SettledBy, Running
  <1>2. \A j \in Jobs : state[j] # "absent"
    BY <1>1 DEF FreshInv, InsertInv
  <1>3. CASE driver'[q].pc = "idle" /\ UNCHANGED dbVars
    <2>1. UNCHANGED <<state, terminal_failure, dependencies>>
      BY <1>3 DEF dbVars
    <2>2. FailuresBlock'
      BY <2>1, FailuresKept DEF SettledBy
    <2>3. \A j \in Jobs : InFlight(q, j)'
      BY <1>1, <2>1 DEF InFlight
    <2> QED
      BY <1>3, <2>1, <2>2, <2>3 DEF SettledBy, CandidatesReady
  <1>4. CASE refresh_readiness
    <2>1. /\ \A i \in Jobs : state'[i] = IF i \in Unlocked THEN "Ready" ELSE state[i]
          /\ UNCHANGED <<terminal_failure, dependencies>>
      BY <1>4, RefreshUnlocks DEF SettledBy, QueueInv
    <2>2. FailuresBlock'
      <3>1. \A i \in Unlocked : state[i] # "Blocked"
        BY WaitingFacts DEF Unlocked
      <3> QED
        BY <2>1, <3>1, FailuresKept DEF SettledBy
    <2>3. \A j \in Jobs : InFlight(q, j)'
      BY <1>1, <2>1 DEF InFlight, ActiveStates, Finishing
    <2>4. CASE driver'[q].pc = "returned" /\ Ready' = {}
      <3>1. \A j \in Jobs : Final(j)'
        BY <1>1, <1>2, <1>4, <2>4, NothingReadyIsSettled DEF SettledBy, QueueInv
      <3> QED
        BY <2>1, <2>2, <2>3, <2>4, <3>1 DEF SettledBy, CandidatesReady
    <2>5. CASE driver'[q].pc = "decide" /\ Ready' # {} /\ driver'[q].todo = Ready'
      BY <2>1, <2>2, <2>3, <2>5 DEF SettledBy, CandidatesReady
    <2>6. CASE driver'[q].pc = "idle"
      BY <2>1, <2>2, <2>3, <2>6 DEF SettledBy, CandidatesReady
    <2> QED
      BY <1>4, <2>4, <2>5, <2>6, RoundGoes
  <1> QED
    BY <1>3, <1>4, RoundGoes

\* The scheduler selects at least one of the candidates, each of which fits.
LEMMA DecisionSettles ==
    ASSUME Undisturbed, QueueInv, QueueInv', NEW q \in Queues, SettledBy(q), decide(q)
    PROVE  SettledBy(q)'
  <1>1. /\ driver[q].pc = "decide" /\ refresh_readiness
        /\ \E S \in Packings({j \in driver[q].todo \cap Ready' : required_predecessors_verified(j)'}) :
              driver'[q].pc = IF S = {} THEN "returned" ELSE "begin"
    BY DecideGoes DEF Undisturbed
  <1>2. /\ \A i \in Jobs : state'[i] = IF i \in Unlocked THEN "Ready" ELSE state[i]
        /\ UNCHANGED <<terminal_failure, dependencies>>
    BY <1>1, RefreshUnlocks DEF SettledBy, QueueInv, Undisturbed
  <1>3. FailuresBlock'
    <2>1. \A i \in Unlocked : state[i] # "Blocked"
      BY WaitingFacts DEF Unlocked
    <2> QED
      BY <1>2, <2>1, FailuresKept DEF SettledBy
  <1>4. \A j \in Jobs : state[j] \notin {"Interrupted"} \cup Finishing \cup ActiveStates
    BY <1>1, NothingInFlight DEF SettledBy, Running
  <1>5. \A j \in Jobs : InFlight(q, j)'
    BY <1>2, <1>4 DEF InFlight, ActiveStates, Finishing
  <1>6. driver'[q].pc = "begin"
    <2> DEFINE eligible == {j \in driver[q].todo \cap Ready' : required_predecessors_verified(j)'}
    <2>1. driver[q].todo # {} /\ driver[q].todo \subseteq Ready /\ driver[q].todo \subseteq Jobs
      BY <1>1, DriverFacts DEF SettledBy, CandidatesReady, QueueInv
    <2>2. \A j \in driver[q].todo : state'[j] = "Ready"
      BY <1>2, <2>1 DEF Ready
    <2>3. \A j \in driver[q].todo : j \in Ready' /\ required_predecessors_verified(j)'
      BY <2>1, <2>2 DEF Ready, QueueInv, DbInv, PredecessorsVerified
    <2>4. PICK j \in Jobs : j \in eligible
      BY <2>1, <2>3
    <2> HIDE DEF eligible
    <2>5. ASSUME NEW S \in Packings(eligible)
          PROVE  S # {}
      <3>1. S = {} => ~Fits({} \cup {j})
        BY <2>4, <2>5 DEF Packings
      <3>2. {} \cup {j} = {j}
        OBVIOUS
      <3> QED
        BY <2>4, <3>1, <3>2 DEF Undisturbed
    <2> QED
      BY <1>1, <2>5 DEF eligible
  <1> QED
    BY <1>2, <1>3, <1>5, <1>6 DEF SettledBy, CandidatesReady

\* A step that leaves the database alone, within an attempt, or that ends a run
\* whose driver has no output to commit.
LEMMA QuietSettles ==
    ASSUME QueueInv, NEW q \in Queues, SettledBy(q), UNCHANGED dbVars,
           \/ /\ driver[q].pc \in Running /\ driver'[q].pc \in Running
              /\ driver[q].pc \in {"publish", "commit"} => driver'[q].pc \in {"publish", "commit"}
              /\ driver'[q].job = driver[q].job
           \/ driver[q].pc \notin {"publish", "commit"} /\ driver'[q].pc = "idle"
    PROVE  SettledBy(q)'
  <1>1. UNCHANGED <<state, terminal_failure, dependencies>>
    BY DEF dbVars
  <1>2. FailuresBlock'
    BY <1>1, FailuresKept DEF SettledBy
  <1>3. \A j \in Jobs : InFlight(q, j)'
    BY <1>1 DEF SettledBy, InFlight, Running
  <1>4. driver'[q].pc \notin {"decide", "returned"}
    BY DEF Running
  <1> QED
    BY <1>1, <1>2, <1>3, <1>4 DEF SettledBy, CandidatesReady

\* A driver begins an attempt.
LEMMA BeginSettles ==
    ASSUME QueueInv, NEW q \in Queues, SettledBy(q), run_one(q)
    PROVE  SettledBy(q)'
  <1>1. driver[q].pc = "begin"
    BY BeginGoes
  <1>2. CASE Error(q)
    <2>1. driver'[q] = Local("idle") /\ UNCHANGED dbVars
      BY <1>2, GoesTo DEF Error
    <2>2. driver'[q].pc = "idle"
      BY <2>1 DEF Local
    <2> QED
      BY <1>1, <2>1, <2>2, QuietSettles
  <1>3. ASSUME NEW j \in Jobs, state[j] = "Ready", begin_attempt(j, start_event(Kind[j])),
               driver'[q].pc = "worker", driver'[q].job = j
        PROVE  SettledBy(q)'
    <2>1. target(start_event(Kind[j])) \in ActiveStates
      BY KindAssumption, StartFacts
    <2>2. /\ UNCHANGED <<terminal_failure, dependencies>>
          /\ state' = [state EXCEPT ![j] = target(start_event(Kind[j]))]
      BY <1>3 DEF begin_attempt
    <2>3. \A i \in Jobs : state'[i] = IF i = j THEN target(start_event(Kind[j])) ELSE state[i]
      BY <2>2 DEF QueueInv, DbInv, TypeOK
    <2>4. FailuresBlock'
      <3>1. \A i \in Jobs : state'[i] = "Blocked" <=> state[i] = "Blocked"
        BY <1>3, <2>1, <2>3 DEF ActiveStates
      <3> QED
        BY <2>2, <3>1, FailuresKept DEF SettledBy
    <2>5. \A i \in Jobs : state[i] \notin {"Interrupted"} \cup Finishing \cup ActiveStates
      BY <1>1, NothingInFlight DEF SettledBy, Running
    <2>6. \A i \in Jobs : InFlight(q, i)'
      BY <1>3, <2>1, <2>3, <2>5 DEF InFlight, ActiveStates, Finishing, Running
    <2> QED
      BY <1>3, <2>2, <2>4, <2>6 DEF SettledBy, CandidatesReady
  <1> QED
    BY <1>2, <1>3, BeginGoes

\* The attempt of the current job is over: the job has left the states of a job
\* in flight, and the driver goes on.
LEMMA AttemptOver ==
    ASSUME QueueInv, NEW q \in Queues, SettledBy(q), driver[q].pc \in Running, NextJob(q),
           dependencies' = dependencies, FailuresBlock',
           \A i \in Jobs : state'[i] # state[i] \/ i = driver[q].job =>
                              state'[i] \in {"Requeued", "ExecutionFailed", "Blocked", "Verified"}
    PROVE  SettledBy(q)'
  <1>1. driver'[q].pc \in {"round", "begin"}
    <2>1. PICK local \in DriverRecord : Goto(q, local) /\ local.pc \in {"round", "begin"}
      BY NextJobFacts DEF QueueInv
    <2> QED
      BY <2>1, GoesTo
  <1>2. driver[q].pc # "idle"
    BY DEF Running
  <1>3. \A i \in Jobs : InFlight(q, i)'
    BY <1>2 DEF SettledBy, InFlight, ActiveStates, Finishing
  <1> QED
    BY <1>1, <1>3 DEF SettledBy, CandidatesReady

\* The worker has failed: its job is requeued, or fails and takes what waits
\* below it along.
LEMMA FailureSettles ==
    ASSUME QueueInv, NEW q \in Queues, SettledBy(q), driver[q].pc = "worker",
           driver[q].job \in Jobs, NEW n, execution_failed(driver[q].job, n), NextJob(q)
    PROVE  SettledBy(q)'
  <1> DEFINE j == driver[q].job
  <1>1. /\ j \in Jobs /\ state[j] \in ActiveStates /\ dependencies' = dependencies
        /\ driver[q].pc \in Running
    BY EventFacts DEF execution_failed, Running
  <1>2. CASE Requeue(j, "ExecutionFailed")
    <2>1. \A i \in Jobs : state'[i] = IF i = j THEN "Requeued" ELSE state[i]
      BY <1>1, <1>2 DEF Requeue, QueueInv, DbInv, TypeOK
    <2>2. UNCHANGED terminal_failure
      BY <1>2 DEF Requeue
    <2>3. FailuresBlock'
      <3>1. \A i \in Jobs : state'[i] = "Blocked" <=> state[i] = "Blocked"
        BY <1>1, <2>1 DEF ActiveStates
      <3> QED
        BY <1>1, <2>2, <3>1, FailuresKept DEF SettledBy
    <2> QED
      BY <1>1, <2>1, <2>3, AttemptOver
  <1>3. CASE FailTerminally(j, "ExecutionFailed")
    <2> DEFINE below == block_descendants(j)
    <2>1. /\ state' = SetState(SetState(state, {j}, "ExecutionFailed"), below, "Blocked")
          /\ terminal_failure' = SetState(terminal_failure, {j} \cup below, TRUE)
      BY <1>3, EventFacts, Zenon DEF FailTerminally
    <2>2. below \subseteq Waiting /\ j \notin below
      BY <1>1, WaitingFacts DEF block_descendants, ActiveStates
    <2> HIDE DEF below
    <2>3. \A i \in Jobs : state'[i] = IF i \in below THEN "Blocked"
                                      ELSE IF i = j THEN "ExecutionFailed" ELSE state[i]
      BY <2>1 DEF SetState
    <2>4. \A i \in Jobs : terminal_failure'[i] = (IF i \in {j} \cup below THEN TRUE
                                                  ELSE terminal_failure[i])
      BY <2>1 DEF SetState
    <2>5. PropagatesFailure
      BY <1>1, <1>3, FailTerminallyPropagates DEF QueueInv
    <2>6. FailuresBlock'
      <3>1. ASSUME NEW i \in Jobs, state'[i] = "Blocked"
            PROVE  terminal_failure'[i]
        BY <1>1, <2>3, <2>4, <3>1 DEF SettledBy, FailuresBlock
      <3>2. ASSUME NEW p \in Jobs, NEW s \in Jobs, <<p, s>> \in dependencies', terminal_failure'[p]
            PROVE  state'[s] = "Blocked"
        <4>1. CASE ~terminal_failure[p]
          BY <1>1, <2>5, <3>2, <4>1 DEF PropagatesFailure
        <4>2. CASE terminal_failure[p]
          <5>1. state[s] = "Blocked"
            BY <1>1, <3>2, <4>2 DEF SettledBy, FailuresBlock
          <5> QED
            BY <1>1, <2>3, <5>1 DEF ActiveStates
        <4> QED
          BY <4>1, <4>2
      <3> QED
        BY <3>1, <3>2 DEF FailuresBlock
    <2>7. \A i \in Jobs : state'[i] # state[i] \/ i = j =>
                              state'[i] \in {"Requeued", "ExecutionFailed", "Blocked", "Verified"}
      BY <2>3
    <2> QED
      BY <1>1, <2>6, <2>7, AttemptOver
  <1> QED
    BY <1>2, <1>3 DEF execution_failed

\* The verdict is recorded.
LEMMA VerdictSettles ==
    ASSUME QueueInv, NEW q \in Queues, SettledBy(q), driver[q].pc \in Running,
           driver[q].job \in Jobs, NEW n, RecordVerified(driver[q].job, n), NextJob(q)
    PROVE  SettledBy(q)'
  <1> DEFINE j == driver[q].job
  <1>1. /\ j \in Jobs /\ state[j] \in AwaitingVerdict /\ state' = SetState(state, {j}, "Verified")
        /\ UNCHANGED <<terminal_failure, dependencies>>
    BY EventFacts DEF RecordVerified, ApplyEvent
  <1>2. \A i \in Jobs : state'[i] = IF i = j THEN "Verified" ELSE state[i]
    BY <1>1 DEF SetState
  <1>3. FailuresBlock'
    <2>1. \A i \in Jobs : state'[i] = "Blocked" <=> state[i] = "Blocked"
      BY <1>1, <1>2 DEF AwaitingVerdict
    <2> QED
      BY <1>1, <2>1, FailuresKept DEF SettledBy
  <1> QED
    BY <1>1, <1>2, <1>3, AttemptOver

\* The completion event of an output that is to be published.
LEMMA CompletionSettles ==
    ASSUME QueueInv, NEW q \in Queues, SettledBy(q), driver[q].pc = "accepted",
           driver[q].job \in Jobs, Kind[driver[q].job] \in {"Witness", "Prepare", "LeafProof"}, NEW n,
           apply_attempt_event(driver[q].job, n, completion_event(Kind[driver[q].job])),
           driver'[q].pc = "publish", driver'[q].job = driver[q].job
    PROVE  SettledBy(q)'
  <1> DEFINE j == driver[q].job
             v == target(completion_event(Kind[j]))
  <1>1. v \in Finishing
    <2>1. <<Kind[j], v>> \in Finished
      BY CompletionTargets
    <2> HIDE DEF v
    <2> QED
      BY <2>1 DEF Finished, Finishing
  <1>2. state[j] \in ActiveStates
    BY CompletionFacts DEF apply_attempt_event, ApplyEvent
  <1>3. /\ j \in Jobs /\ state' = SetState(state, {j}, v)
        /\ UNCHANGED <<terminal_failure, dependencies>>
    BY DEF apply_attempt_event, ApplyEvent
  <1> HIDE DEF v
  <1>4. \A i \in Jobs : state'[i] = IF i = j THEN v ELSE state[i]
    BY <1>3 DEF SetState
  <1>5. FailuresBlock'
    <2>1. \A i \in Jobs : state'[i] = "Blocked" <=> state[i] = "Blocked"
      BY <1>1, <1>2, <1>4 DEF ActiveStates, Finishing
    <2> QED
      BY <1>3, <2>1, FailuresKept DEF SettledBy
  <1>6. \A i \in Jobs : InFlight(q, i)'
    BY <1>1, <1>4 DEF SettledBy, InFlight, ActiveStates, Finishing
  <1> QED
    BY <1>3, <1>5, <1>6 DEF SettledBy, CandidatesReady

\* A return leaves nothing behind: the inductive step.
LEMMA SettleStep ==
    ASSUME Undisturbed, SettleInv, [QueueNext]_vars
    PROVE  SettleInv'
  <1>1. /\ OneDriver /\ Acyclic /\ BudgetInv /\ FreshInv /\ QueueInv
        /\ BudgetInv' /\ FreshInv' /\ QueueInv'
    <2>1. OneDriver /\ Acyclic /\ BudgetInv /\ FreshInv /\ QueueInv
      BY DEF Undisturbed, SettleInv, FreshInv
    <2> QED
      BY <2>1, BudgetInvStep, FreshStep DEF FreshInv
  <1>2. CASE UNCHANGED vars
    <2>1. UNCHANGED <<state, terminal_failure, dependencies, driver>>
      BY <1>2 DEF vars, dbVars, queueVars
    <2> QED
      BY <1>1, <2>1 DEF SettleInv, FailuresBlock, InFlight, CandidatesReady, Ready, Final
  <1>3. ASSUME NEW q \in Queues, start(q) \/ DriverStep(q) \/ abort(q)
        PROVE  SettledBy(q)'
    <2>1. SettledBy(q) /\ driver[q] \in DriverRecord
      BY <1>1, DriverFacts DEF SettleInv, SettledBy, QueueInv
    <2>2. ASSUME driver[q].pc \in Running
          PROVE  driver[q].job \in Jobs
      BY <1>1, <2>2, HolderFacts
    <2>3. ASSUME Error(q) \/ EndedByEnvironment(q), driver[q].pc \notin {"publish", "commit"}
          PROVE  SettledBy(q)'
      <3>1. driver'[q] = Local("idle") /\ UNCHANGED dbVars
        BY <1>1, <2>3, GoesTo DEF Error, EndedByEnvironment, dbVars
      <3>2. driver'[q].pc = "idle"
        BY <3>1 DEF Local
      <3> QED
        BY <1>1, <2>1, <2>3, <3>1, <3>2, QuietSettles
    <2>4. ASSUME NEW pc, Goto(q, [driver[q] EXCEPT !.pc = pc])
          PROVE  driver'[q].pc = pc /\ driver'[q].job = driver[q].job
      <3>1. driver'[q] = [driver[q] EXCEPT !.pc = pc]
        BY <1>1, <2>4, GoesTo
      <3> QED
        BY <2>1, <3>1 DEF DriverRecord
    <2>5. CASE start(q) \/ ensure_job(q) \/ ensure_edge(q)
      BY <1>1, <2>1, <2>5, PlanningSettles
    <2>6. CASE begin_round(q)
      BY <1>1, <2>1, <2>6, RoundSettles
    <2>7. CASE decide(q)
      BY <1>1, <2>1, <2>7, DecisionSettles
    <2>8. CASE run_one(q)
      BY <1>1, <2>1, <2>8, BeginSettles
    <2>9. CASE worker_succeeded(q) \/ verifier_accepts(q) \/ publish(q)
      <3>1. /\ UNCHANGED dbVars
            /\ driver[q].pc \in {"worker", "verify", "publish"}
            /\ driver'[q].pc \in {"verify", "accepted", "commit"}
            /\ driver[q].pc = "publish" => driver'[q].pc = "commit"
            /\ driver'[q].job = driver[q].job
        BY <2>4, <2>9 DEF worker_succeeded, verifier_accepts, publish, At, dbVars
      <3>2. driver[q].pc \in Running /\ driver'[q].pc \in Running
        BY <3>1 DEF Running
      <3> QED
        BY <1>1, <2>1, <3>1, <3>2, QuietSettles
    <2>10. CASE worker_failed(q)
      <3>1. driver[q].pc = "worker" /\ driver[q].pc \in Running
        BY <2>10 DEF worker_failed, At, Running
      <3>2. \/ Error(q)
            \/ execution_failed(driver[q].job, driver[q].attempt) /\ NextJob(q)
        BY <2>10 DEF worker_failed, Try
      <3> QED
        BY <1>1, <2>1, <2>2, <2>3, <3>1, <3>2, FailureSettles
    <2>11. CASE launch_error(q) \/ verifier_rejects(q)
      BY <2>3, <2>11 DEF launch_error, verifier_rejects, At
    <2>12. CASE abort(q)
      BY <2>3, <2>12 DEF abort, Undisturbed
    <2>13. CASE finish_success(q)
      <3>1. driver[q].pc = "accepted" /\ driver[q].pc \in Running /\ "publish" \in Running
        BY <2>13 DEF finish_success, At, Running
      <3>2. CASE Error(q)
        BY <2>3, <3>1, <3>2
      <3>3. CASE complete_verification(driver[q].job, driver[q].attempt) /\ NextJob(q)
        BY <1>1, <2>1, <2>2, <3>1, <3>3, VerdictSettles DEF complete_verification
      <3>4. CASE /\ Kind[driver[q].job] \in {"Witness", "Prepare", "LeafProof"}
                 /\ apply_attempt_event(driver[q].job, driver[q].attempt,
                                        completion_event(Kind[driver[q].job]))
                 /\ Goto(q, [driver[q] EXCEPT !.pc = "publish"])
        BY <1>1, <2>1, <2>2, <2>4, <3>1, <3>4, CompletionSettles
      <3>5. CASE Goto(q, [driver[q] EXCEPT !.pc = "publish"]) /\ UNCHANGED dbVars
        <4>1. driver'[q].pc = "publish" /\ driver'[q].job = driver[q].job
          BY <2>4, <3>5
        <4> QED
          BY <1>1, <2>1, <3>1, <3>5, <4>1, QuietSettles
      <3> QED
        BY <2>13, <3>2, <3>3, <3>4, <3>5 DEF finish_success, Try, dbVars
    <2>14. CASE commit(q)
      <3>1. driver[q].pc = "commit" /\ driver[q].pc \in Running
        BY <2>14 DEF commit, At, Running
      <3>2. require_verification_source(driver[q].job, driver[q].attempt)
        BY <1>1, <3>1, HeldIsAccepted
      <3>3. RecordVerified(driver[q].job, driver[q].attempt) /\ NextJob(q)
        BY <2>14, <3>2 DEF commit, Try, commit_verified_artifact, commit_verified_key
      <3> QED
        BY <1>1, <2>1, <2>2, <3>1, <3>3, VerdictSettles
    <2> QED
      BY <1>3, <2>5, <2>6, <2>7, <2>8, <2>9, <2>10, <2>11, <2>12, <2>13, <2>14 DEF DriverStep
  <1>4. ASSUME NEW q \in Queues, SettledBy(q)'
        PROVE  SettleInv'
    <2>1. \A r \in Queues : r = q
      BY <1>1 DEF OneDriver
    <2> QED
      BY <1>1, <1>4, <2>1 DEF SettleInv, SettledBy
  <1> QED
    BY <1>2, <1>3, <1>4 DEF QueueNext

\* The invariants hold before the first run.
LEMMA SettleInit ==
    ASSUME QueueInit
    PROVE  /\ OneDriver => FreshInv
           /\ OneDriver => SettleInv
  <1> SUFFICES ASSUME OneDriver
               PROVE  FreshInv /\ SettleInv
    OBVIOUS
  <1>1. QueueInv
    BY QueueInvInductive DEF PlanSafe
  <1>2. \A q \in Queues : driver[q].pc = "idle"
    BY DEF QueueInit, Local
  <1>3. \A j \in Jobs : state[j] \in {"absent", "Pending"} /\ ~terminal_failure[j]
    BY DEF QueueInit, DbInitWith
  <1>4. FreshInv
    BY <1>1, <1>2, <1>3 DEF FreshInv, PlanFresh, InsertInv
  <1>5. \A q \in Queues : driver[q].pc \notin Running
    BY <1>2 DEF Running
  <1>6. BudgetInv
    BY <1>1, <1>5 DEF BudgetInv, BudgetOf, QueueInit, DbInitWith, ExecutionRetryLimit
  <1>7. FailuresBlock
    BY <1>3 DEF FailuresBlock
  <1>8. \A q \in Queues, j \in Jobs : InFlight(q, j)
    BY <1>3 DEF InFlight, ActiveStates, Finishing
  <1>9. dependencies \subseteq Edges
    BY DEF QueueInit, DbInitWith
  <1> QED
    BY <1>2, <1>4, <1>6, <1>7, <1>8, <1>9 DEF SettleInv, CandidatesReady

\* run_queue returns normally only when each job of the plan is Verified,
\* blocked, or has failed for good, whatever the plan, the kinds and the
\* capacity, however its workers fail, and wherever earlier runs were ended
\* outside the publication of an output.
THEOREM ReturnsAreSettled ==
    ASSUME Undisturbed
    PROVE  QueueSpec => []ReturnsSettled
  <1>1. QueueInit => SettleInv
    BY SettleInit DEF Undisturbed
  <1>2. SettleInv /\ [QueueNext]_vars => SettleInv'
    BY SettleStep
  <1>3. SettleInv => ReturnsSettled
    BY DEF SettleInv, ReturnsSettled, Settled, At
  <1> QED
    BY <1>1, <1>2, <1>3, PTL DEF QueueSpec

-----------------------------------------------------------------------------
(* What status and verify say *)

\* As long as a job of the plan is missing, none has got beyond Pending.
NothingEarly ==
    \A i \in Jobs : state[i] = "absent" => \A j \in Jobs : state[j] \in {"absent", "Pending"}

\* No job is seen Verified before the whole plan is in the database, for one
\* driver, or for any number of drivers of a planned run.
LEMMA PlanComesFirst ==
    ASSUME PlanSafe
    PROVE  QueueSpec => [](QueueInv /\ NothingEarly)
  <1>1. CASE OneDriver
    <2>1. QueueInit => FreshInv
      BY <1>1, SettleInit
    <2>2. FreshInv /\ [QueueNext]_vars => FreshInv'
      BY <1>1, FreshStep
    <2>3. FreshInv => QueueInv /\ NothingEarly
      BY DEF FreshInv, PlanFresh, NothingEarly
    <2> QED
      BY <2>1, <2>2, <2>3, PTL DEF QueueSpec
  <1>2. CASE Planned
    <2>1. QueueInv => QueueInv /\ NothingEarly
      BY <1>2 DEF QueueInv, PlannedInv, NothingEarly
    <2> QED
      BY <2>1, QueueInvariant, PTL
  <1> QED
    BY <1>1, <1>2 DEF PlanSafe

\* Looking at a run changes nothing of it.
LEMMA LookingIsHarmless == StatusSpec => QueueSpec
  <1>1. StatusInit => QueueInit
    BY DEF StatusInit
  <1>2. [StatusNext]_statusVars => [QueueNext]_vars
    BY DEF StatusNext, status, verify, statusVars
  <1> QED
    BY <1>1, <1>2, PTL DEF StatusSpec, QueueSpec

Answers == [state : {"none", "failed", "verified", "blocked", "running"}, failures : SUBSET Jobs]

\* An answer of status or verify replaces the last one of its kind.
LEMMA AnswersChange ==
    ASSUME shown \in Answers, [StatusNext]_statusVars
    PROVE  /\ shown' \in Answers
           /\ \/ shown' = shown
              \/ UNCHANGED vars /\ shown'.state = overall_state /\ shown'.failures = shown.failures
              \/ UNCHANGED vars /\ shown'.failures = verify_run /\ shown'.state = shown.state
  <1>1. overall_state \in {"none", "failed", "verified", "blocked", "running"}
    BY DEF overall_state
  <1>2. verify_run \in SUBSET Jobs
    BY DEF verify_run, Records
  <1>3. ASSUME NEW s \in {"none", "failed", "verified", "blocked", "running"},
               shown' = [shown EXCEPT !.state = s]
        PROVE  shown' \in Answers /\ shown'.state = s /\ shown'.failures = shown.failures
    BY <1>3 DEF Answers
  <1>4. ASSUME NEW F \in SUBSET Jobs, shown' = [shown EXCEPT !.failures = F]
        PROVE  shown' \in Answers /\ shown'.failures = F /\ shown'.state = shown.state
    BY <1>4 DEF Answers
  <1> QED
    BY <1>1, <1>2, <1>3, <1>4 DEF StatusNext, status, verify, statusVars

\* A Verified job stays Verified.
LEMMA VerifiedStays ==
    ASSUME PlanSafe, QueueInv, [QueueNext]_vars, NEW j \in Jobs, state[j] = "Verified"
    PROVE  state'[j] = "Verified"
  <1>1. DbInv /\ (DbNext \/ UNCHANGED dbVars)
    BY QueueInvInductive DEF QueueInv
  <1>2. CASE DbNext
    <2>1. Moves(j) /\ Final(j) /\ TypeOK /\ TerminalConsistent
      BY <1>1, <1>2, StepMoves DEF DbInv, Final
    <2>2. Stays(j)
      BY <2>1, FinalStays
    <2> QED
      BY <2>2 DEF Stays
  <1>3. CASE UNCHANGED dbVars
    BY <1>3 DEF dbVars
  <1> QED
    BY <1>1, <1>2, <1>3

\* Once status has answered "verified", every job of the plan is Verified and
\* stays so, also when the answer was given while queues ran and died: status
\* never mistakes a part of the plan for the whole.
THEOREM ShownIsFinal ==
    ASSUME PlanSafe
    PROVE  StatusSpec => []ShownVerifiedIsFinal
  <1> DEFINE Early == QueueInv /\ NothingEarly
             Inv == shown \in Answers /\ ShownVerifiedIsFinal
  <1>1. StatusSpec => []Early
    BY LookingIsHarmless, PlanComesFirst, PTL
  <1>2. StatusInit => Inv
    BY DEF StatusInit, Answers, ShownVerifiedIsFinal
  <1>3. ASSUME Early, Inv, [StatusNext]_statusVars
        PROVE  Inv'
    <2>1. [QueueNext]_vars
      BY <1>3 DEF StatusNext, status, verify, statusVars
    <2>2. shown' \in Answers
      BY <1>3, AnswersChange
    <2>3. CASE shown'.state = shown.state
      <3>1. ASSUME NEW j \in Jobs, shown.state = "verified"
            PROVE  state'[j] = "Verified"
        BY <1>3, <2>1, <3>1, VerifiedStays DEF ShownVerifiedIsFinal
      <3> QED
        BY <2>2, <2>3, <3>1 DEF ShownVerifiedIsFinal
    <2>4. CASE UNCHANGED vars /\ shown'.state = overall_state
      <3>1. state' = state
        BY <2>4 DEF vars, dbVars
      <3>2. ASSUME overall_state = "verified"
            PROVE  \A j \in Jobs : state[j] = "Verified"
        <4>1. Records # {} /\ \A j \in Records : state[j] = "Verified"
          BY <3>2 DEF overall_state
        <4>2. \A j \in Jobs : state[j] # "absent"
          BY <1>3, <4>1 DEF NothingEarly, Records
        <4> QED
          BY <4>1, <4>2 DEF Records
      <3> QED
        BY <2>2, <2>4, <3>1, <3>2 DEF ShownVerifiedIsFinal
    <2> QED
      BY <1>3, <2>3, <2>4, AnswersChange
  <1> HIDE DEF Early
  <1> QED
    BY <1>1, <1>2, <1>3, PTL DEF StatusSpec

\* The plan publishes a proof artifact for each of its jobs: verify looks for
\* an object behind a LeafVerification job, which has none, and for a key
\* behind a Prepare job, whose plan may bind it to a proof.
PublishesArtifacts == \A j \in Jobs : Kind[j] \in {"Witness", "LeafProof", "NativeAggregate"}

\* The only keys a driver commits are the ones of Prepare jobs.
LEMMA KeysOfPrepareJobs ==
    ASSUME PublishesArtifacts, QueueInv, [QueueNext]_vars
    PROVE  \A j \in Jobs : key_artifacts'[j] = key_artifacts[j]
  <1>1. CASE UNCHANGED vars
    BY <1>1 DEF vars, dbVars
  <1>2. ASSUME NEW q \in Queues, start(q) \/ DriverStep(q) \/ abort(q)
        PROVE  UNCHANGED key_artifacts
    <2>1. CASE start(q) \/ begin_round(q) \/ decide(q) \/ ensure_job(q) \/ ensure_edge(q)
      BY <2>1 DEF start, begin_round, decide, ensure_job, ensure_edge, Error, recover_interrupted,
                  refresh_readiness, insert_job, add_dependency, evidenceVars, dbVars
    <2>2. CASE run_one(q) \/ worker_failed(q)
      BY <2>2 DEF run_one, worker_failed, Try, Error, begin_attempt, execution_failed, evidenceVars,
                  dbVars
    <2>3. CASE finish_success(q)
      BY <2>3 DEF finish_success, Try, Error, complete_verification, apply_attempt_event,
                  evidenceVars, dbVars
    <2>4. CASE commit(q)
      <3>1. driver[q].pc \in Running
        BY <2>4 DEF commit, At, Running
      <3>2. Kind[driver[q].job] # "Prepare"
        BY <3>1, HolderFacts DEF PublishesArtifacts
      <3> QED
        BY <2>4, <3>2 DEF commit, Try, Error, commit_verified_artifact, commit_verified_key, dbVars
    <2>5. CASE worker_succeeded(q) \/ launch_error(q) \/ verifier_accepts(q) \/ verifier_rejects(q)
                  \/ publish(q) \/ abort(q)
      BY <2>5 DEF worker_succeeded, launch_error, verifier_accepts, verifier_rejects, publish, abort,
                  EndedByEnvironment, dbVars
    <2> QED
      BY <1>2, <2>1, <2>2, <2>3, <2>4, <2>5 DEF DriverStep
  <1> QED
    BY <1>1, <1>2 DEF QueueNext

\* verify finds the published object of every Verified job, at whatever moment
\* it looks, whatever the drivers are doing and wherever they were killed.
THEOREM VerifyStaysClean ==
    ASSUME PlanSafe, PublishesArtifacts
    PROVE  StatusSpec => []VerifyIsClean
  <1> DEFINE NoKeys == \A j \in Jobs : key_artifacts[j] = 0
             Inv == NoKeys /\ shown \in Answers /\ VerifyIsClean
  <1>1. StatusSpec => []QueueInv
    BY LookingIsHarmless, QueueInvariant, PTL
  <1>2. StatusInit => Inv
    BY DEF StatusInit, QueueInit, DbInitWith, Answers, VerifyIsClean
  <1>3. ASSUME QueueInv, Inv, [StatusNext]_statusVars
        PROVE  Inv'
    <2>1. [QueueNext]_vars
      BY <1>3 DEF StatusNext, status, verify, statusVars
    <2>2. NoKeys'
      BY <1>3, <2>1, KeysOfPrepareJobs
    <2>3. verify_run = {}
      <3> SUFFICES ASSUME NEW j \in Jobs, state[j] = "Verified"
                   PROVE  Reopens(IF Kind[j] = "Prepare" THEN key_artifacts ELSE artifacts, j)
        BY DEF verify_run, Records
      <3>1. Kind[j] \notin {"Prepare", "LeafVerification"}
        BY DEF PublishesArtifacts
      <3>2. /\ artifacts[j] + key_artifacts[j] = attempt_count[j] /\ key_artifacts[j] = 0
            /\ artifacts[j] \in Nat /\ attempt_count[j] \in Nat
        BY <1>3, <3>1, MaxAttemptsAssumption DEF QueueInv, DbInv, VerifiedByLatestAttempt, TypeOK
      <3>3. artifacts[j] = attempt_count[j]
        BY <3>2
      <3>4. attempt_count[j] # 0
        BY <1>3 DEF QueueInv, DbInv, NeverStartedWhilePending
      <3>5. <<j, attempt_count[j]>> \in objects
        BY <1>3, <3>1 DEF QueueInv, EvidenceInv
      <3> QED
        BY <3>1, <3>3, <3>4, <3>5 DEF Reopens
    <2> QED
      BY <1>3, <2>2, <2>3, AnswersChange DEF VerifyIsClean
  <1> QED
    BY <1>1, <1>2, <1>3, PTL DEF StatusSpec

\* After run_queue has returned, status says how the run ended, and never that
\* work is in flight: a run that is not verified shows a job that failed for good.
THEOREM ReturnedIsShown ==
    ASSUME Undisturbed, Jobs # {}
    PROVE  QueueSpec => []ReturnedIsNotRunning
  <1>1. QueueInit => SettleInv
    BY SettleInit DEF Undisturbed
  <1>2. SettleInv /\ [QueueNext]_vars => SettleInv'
    BY SettleStep
  <1>3. ASSUME SettleInv
        PROVE  ReturnedIsNotRunning
    <2> SUFFICES ASSUME NEW q \in Queues, driver[q].pc = "returned"
                 PROVE  overall_state # "running"
      BY DEF ReturnedIsNotRunning, At
    <2>1. \A j \in Jobs : Final(j) /\ (state[j] = "Blocked" => terminal_failure[j])
      BY <1>3 DEF SettleInv, FailuresBlock
    <2>2. \A j \in Jobs : terminal_failure[j] => state[j] # "absent"
      BY <1>3 DEF SettleInv, FreshInv, QueueInv, DbInv, TerminalConsistent
    <2>3. Records = Jobs
      BY <2>1, <2>2 DEF Records, Final
    <2> QED
      BY <2>1, <2>3 DEF overall_state, Final
  <1> QED
    BY <1>1, <1>2, <1>3, PTL DEF QueueSpec

\* What status and verify say of a run is so, at whatever moment they look, for
\* every acyclic plan of proof jobs that one process drives.
THEOREM StatusStaysTruthful ==
    ASSUME Undisturbed, PublishesArtifacts, Jobs # {}
    PROVE  StatusSpec => []StatusTruthful
  <1>1. PlanSafe
    BY DEF Undisturbed, PlanSafe
  <1>2. StatusSpec => []ShownVerifiedIsFinal
    BY <1>1, ShownIsFinal
  <1>3. StatusSpec => []VerifyIsClean
    BY <1>1, VerifyStaysClean
  <1>4. StatusSpec => []ReturnedIsNotRunning
    BY ReturnedIsShown, LookingIsHarmless, PTL
  <1> QED
    BY <1>2, <1>3, <1>4, PTL DEF StatusTruthful
=============================================================================
