----------------------------- MODULE QueueProofs -----------------------------
(***************************************************************************)
(* Proofs about Queue, for every plan, capacity and number of rounds,      *)
(* whatever fails and wherever a run is ended: what several drivers of one *)
(* database keep, and what only a single driver does.                      *)
(***************************************************************************)
EXTENDS Queue, RunDbProofs

\* The program points where a driver holds an attempt that it has begun.
Running == {"worker", "verify", "accepted", "publish", "commit"}
Held(q) == <<driver[q].job, driver[q].attempt>>

\* A driver that persists the plan adds edges only to jobs that no run has
\* looked at yet: it has created them, and they are still Pending.
PlanningInv ==
    \A q \in Queues :
        /\ \A j \in driver[q].created : state[j] = "Pending"
        /\ \A e \in driver[q].edges : state[e[2]] = "Pending"
        /\ driver[q].pc \notin {"insert", "edges"} =>
              driver[q].created = {} /\ driver[q].edges = {}

\* A planned run has all its jobs and edges from the start.
PlannedInv ==
    Planned =>
        /\ \A j \in Jobs : state[j] # "absent"
        /\ dependencies = Edges
        /\ \A q \in Queues : driver[q].created = {} /\ driver[q].edges = {}

\* No two drivers hold the same attempt, and none holds one that was rejected.
AttemptsHeld ==
    /\ \A q \in Queues : driver[q].pc \in Running =>
          /\ driver[q].job \in Jobs
          /\ driver[q].attempt \in 1..attempt_count[driver[q].job]
          /\ Held(q) \notin rejected
          /\ driver[q].pc \in {"accepted", "publish", "commit"} => Held(q) \in accepted
          /\ driver[q].pc = "commit" => Held(q) \in objects
    /\ \A q, r \in Queues :
          driver[q].pc \in Running /\ driver[r].pc \in Running /\ Held(q) = Held(r) => q = r
    /\ \A j \in Jobs, n \in AttemptNumbers : <<j, n>> \in rejected => n <= attempt_count[j]

\* What a Verified job rests on is settled: nobody can still reject it.
EvidenceInv ==
    \A j \in Jobs : state[j] = "Verified" =>
        /\ <<j, attempt_count[j]>> \in accepted \ rejected
        /\ Kind[j] # "LeafVerification" => <<j, attempt_count[j]>> \in objects
        /\ \A q \in Queues : driver[q].pc \in Running => Held(q) # <<j, attempt_count[j]>>

QueueInv ==
    DbInv /\ QueueTypeOK /\ PlanningInv /\ PlannedInv /\ AttemptsHeld /\ EvidenceInv

\* Either the plan is persisted before the first run, or one process persists it.
\* Two processes that do it at once may add an edge to a job that runs already.
PlanSafe == Planned \/ OneDriver

-----------------------------------------------------------------------------
(* The drivers' local state *)

DriverRecord ==
    [pc : ProgramPoints, todo : SUBSET Jobs, edges : SUBSET Edges, created : SUBSET Jobs,
     rounds : 0..MaxRounds, selected : SUBSET Jobs, job : Jobs \cup {0},
     attempt : 0..MaxAttempts]

\* What a driver's local state is at a new program point.
LEMMA LocalFacts ==
    ASSUME NEW pc \in ProgramPoints
    PROVE  /\ Local(pc) \in DriverRecord
           /\ Local(pc).pc = pc /\ Local(pc).edges = {} /\ Local(pc).created = {}
  <1>1. 0 \in 0..MaxRounds /\ 0 \in 0..MaxAttempts
    BY QueueBoundsAssumption, MaxAttemptsAssumption
  <1> QED
    BY <1>1 DEF Local, DriverRecord

\* The fields of a driver have their types.
LEMMA DriverFacts ==
    ASSUME QueueTypeOK, NEW q \in Queues
    PROVE  /\ driver \in [Queues -> DriverRecord]
           /\ driver[q] \in DriverRecord
           /\ driver[q].pc \in ProgramPoints /\ driver[q].todo \subseteq Jobs
           /\ driver[q].edges \subseteq Edges /\ driver[q].created \subseteq Jobs
           /\ driver[q].rounds \in 0..MaxRounds /\ driver[q].selected \subseteq Jobs
           /\ driver[q].job \in Jobs \cup {0} /\ driver[q].attempt \in 0..MaxAttempts
  <1>1. driver \in [Queues -> DriverRecord]
    BY DEF QueueTypeOK, DriverRecord
  <1>2. driver[q] \in DriverRecord
    BY <1>1
  <1> QED
    BY <1>1, <1>2 DEF DriverRecord

\* A step of one driver leaves the others where they are.
LEMMA GotoFacts ==
    ASSUME QueueTypeOK, NEW q \in Queues, NEW local \in DriverRecord, Goto(q, local)
    PROVE  /\ driver' \in [Queues -> DriverRecord]
           /\ driver'[q] = local
           /\ \A r \in Queues : r # q => driver'[r] = driver[r]
  BY DriverFacts DEF Goto

\* What a driver does to its own fields on the way.
LEMMA FieldFacts ==
    ASSUME NEW d \in DriverRecord, NEW pc \in ProgramPoints
    PROVE  /\ [d EXCEPT !.pc = pc] \in DriverRecord
           /\ [d EXCEPT !.pc = pc].pc = pc
           /\ [d EXCEPT !.pc = pc].job = d.job /\ [d EXCEPT !.pc = pc].attempt = d.attempt
           /\ [d EXCEPT !.pc = pc].created = d.created /\ [d EXCEPT !.pc = pc].edges = d.edges
  BY DEF DriverRecord

\* A driver that goes on with another round, candidates or selection.
LEMMA GoingOn ==
    ASSUME NEW pc \in ProgramPoints, NEW rounds \in 0..MaxRounds, NEW S \in SUBSET Jobs
    PROVE  /\ [Local(pc) EXCEPT !.rounds = rounds, !.selected = S] \in DriverRecord
           /\ [Local(pc) EXCEPT !.rounds = rounds, !.selected = S].pc = pc
           /\ [Local(pc) EXCEPT !.rounds = rounds, !.selected = S].created = {}
           /\ [Local(pc) EXCEPT !.rounds = rounds, !.selected = S].edges = {}
           /\ [Local(pc) EXCEPT !.rounds = rounds, !.todo = S] \in DriverRecord
           /\ [Local(pc) EXCEPT !.rounds = rounds, !.todo = S].pc = pc
           /\ [Local(pc) EXCEPT !.rounds = rounds, !.todo = S].created = {}
           /\ [Local(pc) EXCEPT !.rounds = rounds, !.todo = S].edges = {}
  <1>1. ASSUME NEW d \in DriverRecord
        PROVE  /\ [d EXCEPT !.rounds = rounds, !.selected = S] \in DriverRecord
               /\ [d EXCEPT !.rounds = rounds, !.selected = S].pc = d.pc
               /\ [d EXCEPT !.rounds = rounds, !.selected = S].created = d.created
               /\ [d EXCEPT !.rounds = rounds, !.selected = S].edges = d.edges
               /\ [d EXCEPT !.rounds = rounds, !.todo = S] \in DriverRecord
               /\ [d EXCEPT !.rounds = rounds, !.todo = S].pc = d.pc
               /\ [d EXCEPT !.rounds = rounds, !.todo = S].created = d.created
               /\ [d EXCEPT !.rounds = rounds, !.todo = S].edges = d.edges
    BY DEF DriverRecord
  <1> QED
    BY <1>1, LocalFacts

-----------------------------------------------------------------------------
(* What the steps of the database do for the drivers *)

\* No operation of the database takes an attempt back or removes a job.
LEMMA CountsGrow ==
    ASSUME DbInv, DbNext \/ UNCHANGED dbVars
    PROVE  /\ \A j \in Jobs : /\ attempt_count[j] \in Nat /\ attempt_count'[j] \in Nat
                              /\ attempt_count'[j] >= attempt_count[j]
                              /\ attempt_count'[j] <= MaxAttempts
           /\ \A j \in Jobs : state[j] # "absent" => state'[j] # "absent"
  <1>1. DbInv'
    BY DbInvInductive
  <1>2. \A j \in Jobs : attempt_count[j] \in 0..MaxAttempts /\ attempt_count'[j] \in 0..MaxAttempts
    BY <1>1 DEF DbInv, TypeOK
  <1>3. CASE DbNext
    <2> SUFFICES ASSUME NEW j \in Jobs
                 PROVE  /\ attempt_count'[j] >= attempt_count[j]
                        /\ state[j] # "absent" => state'[j] # "absent"
      BY <1>2, MaxAttemptsAssumption
    <2>1. Moves(j)
      BY <1>3, StepMoves DEF DbInv
    <2> QED
      BY <1>2, <2>1, MaxAttemptsAssumption
         DEF Moves, Stays, Enters, Unlocks, Blocks, Starts, Ends, Fails, Verifies, KeepsCounters,
             ActiveStates
  <1>4. CASE UNCHANGED dbVars
    BY <1>2, <1>4, MaxAttemptsAssumption DEF dbVars
  <1> QED
    BY <1>3, <1>4

\* Without a verdict no job becomes Verified, and a Verified job starts nothing.
LEMMA WithoutVerdict ==
    ASSUME DbInv, DbInv', NEW j \in Jobs, verification_records'[j] = verification_records[j],
           state'[j] = "Verified"
    PROVE  state[j] = "Verified" /\ attempt_count'[j] = attempt_count[j]
  <1>1. verification_records'[j] = <<attempt_count'[j]>>
    BY DEF DbInv, VerifiedByLatestAttempt
  <1>2. verification_records[j] =
            IF state[j] = "Verified" THEN <<attempt_count[j]>> ELSE << >>
    BY DEF DbInv, VerifiedByLatestAttempt
  <1>3. << >> # <<attempt_count'[j]>>
    OBVIOUS
  <1>4. state[j] = "Verified" /\ <<attempt_count'[j]>> = <<attempt_count[j]>>
    BY <1>1, <1>2, <1>3
  <1>5. <<attempt_count'[j]>>[1] = attempt_count'[j] /\ <<attempt_count[j]>>[1] = attempt_count[j]
    OBVIOUS
  <1> QED
    BY <1>4, <1>5, Zenon

\* A driver that begins, accepts, rejects and publishes nothing leaves every
\* attempt that is held, and all evidence, as they are.
LEMMA HoldersKeep ==
    ASSUME QueueInv, DbNext \/ UNCHANGED dbVars,
           UNCHANGED <<verification_records, objects, accepted, rejected>>,
           \A r \in Queues : driver'[r].pc \in Running =>
              /\ driver[r].pc \in Running
              /\ driver'[r].job = driver[r].job /\ driver'[r].attempt = driver[r].attempt
              /\ driver'[r].pc \in {"accepted", "publish", "commit"} =>
                    driver[r].pc \in {"accepted", "publish", "commit"}
              /\ driver'[r].pc = "commit" => driver[r].pc = "commit"
    PROVE  AttemptsHeld' /\ EvidenceInv'
  <1>1. DbInv /\ DbInv'
    BY DbInvInductive DEF QueueInv
  <1>2. \A j \in Jobs : /\ attempt_count[j] \in Nat /\ attempt_count'[j] \in Nat
                        /\ attempt_count'[j] >= attempt_count[j]
    BY <1>1, CountsGrow
  <1>3. \A r \in Queues : driver'[r].pc \in Running => Held(r)' = Held(r)
    BY DEF Held
  <1>4. AttemptsHeld'
    <2>1. \A j \in Jobs, n \in AttemptNumbers : <<j, n>> \in rejected => n <= attempt_count'[j]
      BY <1>2, MaxAttemptsAssumption DEF QueueInv, AttemptsHeld, AttemptNumbers
    <2>2. ASSUME NEW q \in Queues, driver'[q].pc \in Running
          PROVE  /\ driver'[q].job \in Jobs
                 /\ driver'[q].attempt \in 1..attempt_count'[driver'[q].job]
                 /\ Held(q)' \notin rejected'
                 /\ driver'[q].pc \in {"accepted", "publish", "commit"} => Held(q)' \in accepted'
                 /\ driver'[q].pc = "commit" => Held(q)' \in objects'
      <3>1. /\ driver[q].pc \in Running /\ driver[q].job \in Jobs
            /\ driver[q].attempt \in 1..attempt_count[driver[q].job]
            /\ driver'[q].job = driver[q].job /\ driver'[q].attempt = driver[q].attempt
        BY <2>2 DEF QueueInv, AttemptsHeld
      <3>2. driver'[q].attempt \in 1..attempt_count'[driver'[q].job]
        BY <1>2, <3>1
      <3> QED
        BY <1>3, <2>2, <3>1, <3>2 DEF QueueInv, AttemptsHeld
    <2>3. \A q, r \in Queues : driver'[q].pc \in Running /\ driver'[r].pc \in Running
                                  /\ Held(q)' = Held(r)' => q = r
      BY <1>3 DEF QueueInv, AttemptsHeld
    <2> QED
      BY <2>1, <2>2, <2>3 DEF AttemptsHeld
  <1>5. EvidenceInv'
    <2> SUFFICES ASSUME NEW j \in Jobs, state'[j] = "Verified"
                 PROVE  /\ <<j, attempt_count'[j]>> \in accepted \ rejected
                        /\ Kind[j] # "LeafVerification" => <<j, attempt_count'[j]>> \in objects
                        /\ \A q \in Queues : driver'[q].pc \in Running =>
                                                Held(q)' # <<j, attempt_count'[j]>>
      BY DEF EvidenceInv
    <2>1. state[j] = "Verified" /\ attempt_count'[j] = attempt_count[j]
      BY <1>1, WithoutVerdict
    <2> QED
      BY <1>3, <2>1 DEF QueueInv, EvidenceInv
  <1> QED
    BY <1>4, <1>5

\* A driver that is not persisting the plan disturbs nobody who is.
LEMMA PlannersKeep ==
    ASSUME PlanSafe, QueueInv, DbNext \/ UNCHANGED dbVars, dependencies' = dependencies,
           NEW q \in Queues, driver'[q].created = {}, driver'[q].edges = {},
           \A r \in Queues : r # q => driver'[r] = driver[r]
    PROVE  PlanningInv' /\ PlannedInv'
  <1>1. \A j \in Jobs : state[j] # "absent" => state'[j] # "absent"
    BY CountsGrow DEF QueueInv
  <1>2. PlannedInv'
    BY <1>1 DEF QueueInv, PlannedInv
  <1>3. \A r \in Queues : driver'[r].created = {} /\ driver'[r].edges = {}
    <2> SUFFICES ASSUME NEW r \in Queues, r # q
                 PROVE  driver[r].created = {} /\ driver[r].edges = {}
      OBVIOUS
    <2> QED
      BY DEF PlanSafe, OneDriver, QueueInv, PlannedInv
  <1> QED
    BY <1>2, <1>3 DEF PlanningInv

\* A step of one driver that begins, decides and publishes nothing.
LEMMA QuietStep ==
    ASSUME PlanSafe, QueueInv, NEW q \in Queues, NEW local \in DriverRecord, Goto(q, local),
           DbNext \/ UNCHANGED dbVars, dependencies' = dependencies,
           UNCHANGED <<verification_records, objects, accepted, rejected>>,
           aborts' \in 0..MaxAborts, local.created = {}, local.edges = {},
           local.pc \in Running =>
              /\ driver[q].pc \in Running
              /\ local.job = driver[q].job /\ local.attempt = driver[q].attempt
              /\ local.pc \in {"accepted", "publish", "commit"} =>
                    driver[q].pc \in {"accepted", "publish", "commit"}
              /\ local.pc = "commit" => driver[q].pc = "commit"
    PROVE  QueueInv'
  <1>1. /\ driver' \in [Queues -> DriverRecord] /\ driver'[q] = local
        /\ \A r \in Queues : r # q => driver'[r] = driver[r]
    BY GotoFacts DEF QueueInv
  <1>2. QueueTypeOK'
    BY <1>1 DEF QueueInv, QueueTypeOK, DriverRecord
  <1>3. DbInv'
    BY DbInvInductive DEF QueueInv
  <1>4. PlanningInv' /\ PlannedInv'
    BY <1>1, PlannersKeep
  <1>5. \A r \in Queues : driver'[r].pc \in Running =>
              /\ driver[r].pc \in Running
              /\ driver'[r].job = driver[r].job /\ driver'[r].attempt = driver[r].attempt
              /\ driver'[r].pc \in {"accepted", "publish", "commit"} =>
                    driver[r].pc \in {"accepted", "publish", "commit"}
              /\ driver'[r].pc = "commit" => driver[r].pc = "commit"
    BY <1>1
  <1>6. AttemptsHeld' /\ EvidenceInv'
    BY <1>5, HoldersKeep
  <1> QED
    BY <1>2, <1>3, <1>4, <1>6 DEF QueueInv

\* A step that ends a run leaves the database and the evidence as they are.
LEMMA EndStep ==
    ASSUME PlanSafe, QueueInv, NEW q \in Queues, Goto(q, Local("idle")),
           UNCHANGED <<dbVars, objects, accepted, rejected>>, aborts' \in 0..MaxAborts
    PROVE  QueueInv'
  <1>1. "idle" \in ProgramPoints /\ "idle" \notin Running
    BY DEF ProgramPoints, Running
  <1>2. UNCHANGED dbVars /\ UNCHANGED <<verification_records, objects, accepted, rejected>>
        /\ dependencies' = dependencies
    BY DEF dbVars
  <1> DEFINE local == Local("idle")
  <1>3. local \in DriverRecord /\ local.pc = "idle" /\ local.created = {} /\ local.edges = {}
    BY <1>1, LocalFacts
  <1>4. Goto(q, local)
    OBVIOUS
  <1> HIDE DEF local
  <1> QED
    BY <1>1, <1>2, <1>3, <1>4, QuietStep

\* A run that returns an error, or that the environment ends.
LEMMA EndingsKeep ==
    ASSUME PlanSafe, QueueInv, NEW q \in Queues,
           Error(q) \/ (EndedByEnvironment(q) /\ UNCHANGED rejected)
    PROVE  UNCHANGED dbVars /\ QueueInv'
  <1>1. aborts \in 0..MaxAborts
    BY DEF QueueInv, QueueTypeOK
  <1>2. /\ Goto(q, Local("idle")) /\ UNCHANGED <<dbVars, objects, accepted, rejected>>
        /\ aborts' \in 0..MaxAborts
    BY <1>1, QueueBoundsAssumption DEF Error, EndedByEnvironment
  <1> QED
    BY <1>2, EndStep

\* Where a driver goes when the attempt of its current job is over.
LEMMA NextJobFacts ==
    ASSUME QueueTypeOK, NEW q \in Queues, NextJob(q)
    PROVE  \E local \in DriverRecord :
              /\ Goto(q, local) /\ local.pc \in {"round", "begin"}
              /\ local.created = {} /\ local.edges = {}
  <1> DEFINE rest == driver[q].selected \ {driver[q].job}
             pc == IF rest = {} THEN "round" ELSE "begin"
             local == [Local(pc) EXCEPT !.rounds = driver[q].rounds, !.selected = rest]
  <1>1. Goto(q, local)
    BY DEF NextJob
  <1>2. pc \in ProgramPoints /\ pc \in {"round", "begin"}
    BY DEF ProgramPoints
  <1>3. rest \in SUBSET Jobs /\ driver[q].rounds \in 0..MaxRounds
    BY DriverFacts
  <1> HIDE DEF pc, rest
  <1>4. /\ local \in DriverRecord /\ local.pc = pc /\ local.created = {} /\ local.edges = {}
    BY <1>2, <1>3, GoingOn
  <1> HIDE DEF local
  <1> QED
    BY <1>1, <1>2, <1>4

-----------------------------------------------------------------------------
(* What the steps of a driver do *)

\* A run starts by requeueing what earlier runs have left open.
LEMMA StartKeeps ==
    ASSUME PlanSafe, QueueInv, NEW q \in Queues, start(q)
    PROVE  DbNext /\ QueueInv'
  <1> DEFINE local == [Local("insert") EXCEPT !.todo = Jobs]
  <1>1. DbNext /\ Goto(q, local) /\ UNCHANGED <<objects, accepted, rejected, aborts>>
    BY DEF start, DbNext
  <1>2. /\ local \in DriverRecord /\ local.pc = "insert"
        /\ local.created = {} /\ local.edges = {}
    BY QueueBoundsAssumption, MaxAttemptsAssumption DEF Local, DriverRecord, ProgramPoints
  <1>3. dependencies' = dependencies /\ UNCHANGED verification_records
    BY DEF start, recover_interrupted, evidenceVars
  <1>4. aborts' \in 0..MaxAborts /\ "insert" \notin Running
    BY <1>1 DEF QueueInv, QueueTypeOK, Running
  <1> HIDE DEF local
  <1> QED
    BY <1>1, <1>2, <1>3, <1>4, QuietStep

\* A step that refreshes readiness and goes on, or returns.
LEMMA RefreshKeeps ==
    ASSUME PlanSafe, QueueInv, NEW q \in Queues, refresh_readiness \/ UNCHANGED dbVars,
           NEW local \in DriverRecord, Goto(q, local), local.pc \notin Running,
           local.created = {}, local.edges = {}, UNCHANGED <<objects, accepted, rejected, aborts>>
    PROVE  (DbNext \/ UNCHANGED dbVars) /\ QueueInv'
  <1>1. DbNext \/ UNCHANGED dbVars
    BY DEF DbNext
  <1>2. dependencies' = dependencies /\ UNCHANGED verification_records
    BY DEF refresh_readiness, evidenceVars, dbVars
  <1>3. aborts' \in 0..MaxAborts
    BY DEF QueueInv, QueueTypeOK
  <1> QED
    BY <1>1, <1>2, <1>3, QuietStep

\* The head of a round.
LEMMA BeginRoundKeeps ==
    ASSUME PlanSafe, QueueInv, NEW q \in Queues, begin_round(q)
    PROVE  (DbNext \/ UNCHANGED dbVars) /\ QueueInv'
  <1>1. CASE Error(q)
    BY <1>1, EndingsKeep
  <1>2. CASE /\ driver[q].rounds < MaxRounds
             /\ refresh_readiness
             /\ Goto(q, IF Ready' = {}
                        THEN Local("returned")
                        ELSE [Local("decide") EXCEPT !.rounds = driver[q].rounds + 1,
                                                     !.todo = Ready'])
             /\ UNCHANGED <<objects, accepted, rejected, aborts>>
    <2> DEFINE going == [Local("decide") EXCEPT !.rounds = driver[q].rounds + 1, !.todo = Ready']
               local == IF Ready' = {} THEN Local("returned") ELSE going
    <2>1. driver[q].rounds + 1 \in 0..MaxRounds
      BY <1>2, DriverFacts, QueueBoundsAssumption DEF QueueInv
    <2>2. Ready' \in SUBSET Jobs
      BY DEF Ready
    <2>4. "returned" \in ProgramPoints /\ "decide" \in ProgramPoints
      BY DEF ProgramPoints
    <2>3. going \in DriverRecord /\ going.pc = "decide" /\ going.created = {} /\ going.edges = {}
      BY <2>1, <2>2, <2>4, GoingOn
    <2> HIDE DEF going
    <2>5. /\ local \in DriverRecord /\ local.pc \in {"returned", "decide"}
          /\ local.created = {} /\ local.edges = {}
      BY <2>3, <2>4, LocalFacts
    <2>6. local.pc \notin Running
      BY <2>5 DEF Running
    <2>7. Goto(q, local)
      BY <1>2 DEF going
    <2> HIDE DEF local
    <2> QED
      BY <1>2, <2>5, <2>6, <2>7, RefreshKeeps
  <1> QED
    BY <1>1, <1>2 DEF begin_round

\* The decision of the scheduler.
LEMMA DecideKeeps ==
    ASSUME PlanSafe, QueueInv, NEW q \in Queues, decide(q)
    PROVE  (DbNext \/ UNCHANGED dbVars) /\ QueueInv'
  <1>1. UNCHANGED <<objects, accepted, rejected, aborts>>
    BY DEF decide
  <1>2. /\ "returned" \in ProgramPoints \ Running /\ "begin" \in ProgramPoints \ Running
    BY DEF ProgramPoints, Running
  <1>3. ASSUME NEW rounds \in 0..MaxRounds, NEW S \in SUBSET Jobs
        PROVE  LET d == [Local("begin") EXCEPT !.rounds = rounds, !.selected = S]
               IN  d \in DriverRecord /\ d.pc = "begin" /\ d.created = {} /\ d.edges = {}
    <2> DEFINE pc == "begin"
    <2>1. pc \in ProgramPoints
      BY <1>2
    <2> SUFFICES LET d == [Local(pc) EXCEPT !.rounds = rounds, !.selected = S]
                 IN  d \in DriverRecord /\ d.pc = pc /\ d.created = {} /\ d.edges = {}
      OBVIOUS
    <2> HIDE DEF pc
    <2> QED
      BY <2>1, GoingOn
  <1>4. CASE Goto(q, Local("returned")) /\ UNCHANGED dbVars
    <2> DEFINE local == Local("returned")
    <2>1. local \in DriverRecord /\ local.pc = "returned" /\ local.created = {} /\ local.edges = {}
      BY <1>2, LocalFacts
    <2>2. Goto(q, local)
      BY <1>4
    <2> HIDE DEF local
    <2> QED
      BY <1>1, <1>2, <1>4, <2>1, <2>2, RefreshKeeps
  <1>5. CASE /\ refresh_readiness
             /\ \E S \in Packings({j \in driver[q].todo \cap Ready' :
                                        required_predecessors_verified(j)'}) :
                    Goto(q, IF S = {}
                            THEN Local("returned")
                            ELSE [Local("begin") EXCEPT !.rounds = driver[q].rounds,
                                                        !.selected = S])
    <2> PICK S \in Packings({j \in driver[q].todo \cap Ready' :
                                        required_predecessors_verified(j)'}) :
                Goto(q, IF S = {}
                        THEN Local("returned")
                        ELSE [Local("begin") EXCEPT !.rounds = driver[q].rounds, !.selected = S])
      BY <1>5
    <2> DEFINE going == [Local("begin") EXCEPT !.rounds = driver[q].rounds, !.selected = S]
               local == IF S = {} THEN Local("returned") ELSE going
    <2>1. S \subseteq driver[q].todo
      BY DEF Packings
    <2>2. S \in SUBSET Jobs /\ driver[q].rounds \in 0..MaxRounds
      BY <2>1, DriverFacts DEF QueueInv
    <2>3. going \in DriverRecord /\ going.pc = "begin" /\ going.created = {} /\ going.edges = {}
      BY <2>2, <1>3
    <2>4. Goto(q, local)
      OBVIOUS
    <2> HIDE DEF going
    <2>5. /\ local \in DriverRecord /\ local.pc \in {"returned", "begin"}
          /\ local.created = {} /\ local.edges = {}
      BY <1>2, <2>3, LocalFacts
    <2> HIDE DEF local
    <2> QED
      BY <1>1, <1>2, <1>5, <2>4, <2>5, RefreshKeeps
  <1> QED
    BY <1>4, <1>5 DEF decide

\* The kinds of the jobs, and the attempt a verdict is recorded for.
LEMMA SourceIsLatest ==
    ASSUME DbInv, NEW j \in Jobs, NEW n, require_verification_source(j, n)
    PROVE  n = attempt_count[j]
  <1>1. CASE state[j] = "Verifying" /\ require_unique_open_attempt(j, n)
    <2>1. OpenAttempts(j) = {attempt_count[j]}
      BY <1>1 DEF DbInv, AttemptDiscipline, ActiveStates
    <2> QED
      BY <1>1, <2>1 DEF require_unique_open_attempt
  <1> QED
    BY <1>1 DEF require_verification_source

\* A driver persists one job of the plan.  A planned run has them all; otherwise
\* there is no other driver, and the job it creates is Pending.
LEMMA EnsureJobKeeps ==
    ASSUME PlanSafe, QueueInv, NEW q \in Queues, ensure_job(q)
    PROVE  (DbNext \/ UNCHANGED dbVars) /\ QueueInv'
  <1> PICK j \in driver[q].todo :
        LET created == driver[q].created \cup (IF state[j] = "absent" THEN {j} ELSE {})
            todo == driver[q].todo \ {j}
            edges == {e \in Edges : e[2] \in created}
        IN  /\ IF state[j] = "absent" THEN insert_job(j) ELSE UNCHANGED dbVars
            /\ Goto(q, IF todo # {}
                       THEN [driver[q] EXCEPT !.todo = todo, !.created = created]
                       ELSE IF edges # {}
                       THEN [Local("edges") EXCEPT !.edges = edges]
                       ELSE Local("round"))
    BY DEF ensure_job
  <1> DEFINE created == driver[q].created \cup (IF state[j] = "absent" THEN {j} ELSE {})
             todo == driver[q].todo \ {j}
             edges == {e \in Edges : e[2] \in created}
             more == [driver[q] EXCEPT !.todo = todo, !.created = created]
             linking == [Local("edges") EXCEPT !.edges = edges]
             local == IF todo # {} THEN more ELSE IF edges # {} THEN linking ELSE Local("round")
  <1>1. /\ driver[q].pc = "insert" /\ UNCHANGED <<objects, accepted, rejected, aborts>>
        /\ Goto(q, local)
        /\ IF state[j] = "absent" THEN insert_job(j) ELSE UNCHANGED dbVars
    BY DEF ensure_job, At
  <1>2. /\ driver[q] \in DriverRecord /\ j \in Jobs /\ driver[q].todo \subseteq Jobs
        /\ driver[q].created \subseteq Jobs /\ driver[q].edges \subseteq Edges
        /\ DbInv /\ QueueTypeOK /\ TypeOK
    BY DriverFacts DEF QueueInv, DbInv
  <1>3. /\ DbNext \/ UNCHANGED dbVars
        /\ UNCHANGED <<dependencies, verification_records, attempt_count>>
        /\ \A i \in Jobs : state'[i] = IF i = j /\ state[j] = "absent" THEN "Pending" ELSE state[i]
    BY <1>1, <1>2 DEF DbNext, insert_job, evidenceVars, dbVars, TypeOK
  <1>4. created \in SUBSET Jobs /\ todo \in SUBSET Jobs /\ edges \in SUBSET Edges
    BY <1>2
  <1>5. \A i \in created : state'[i] = "Pending"
    BY <1>2, <1>3, <1>4 DEF QueueInv, PlanningInv
  <1>6. \A e \in edges : state'[e[2]] = "Pending"
    BY <1>5
  <1>7. Planned => created = {} /\ edges = {}
    BY <1>2 DEF QueueInv, PlannedInv
  <1>8. "edges" \in ProgramPoints \ Running /\ "round" \in ProgramPoints \ Running
        /\ "insert" \notin Running
    BY DEF ProgramPoints, Running
  <1> HIDE DEF created, todo, edges
  <1>9. /\ more \in DriverRecord /\ more.pc = "insert"
        /\ more.created = created /\ more.edges = driver[q].edges
    <2>1. ASSUME NEW d \in DriverRecord
          PROVE  /\ [d EXCEPT !.todo = todo, !.created = created] \in DriverRecord
                 /\ [d EXCEPT !.todo = todo, !.created = created].pc = d.pc
                 /\ [d EXCEPT !.todo = todo, !.created = created].created = created
                 /\ [d EXCEPT !.todo = todo, !.created = created].edges = d.edges
      BY <1>4 DEF DriverRecord
    <2> QED
      BY <1>1, <1>2, <2>1, Zenon
  <1>10. /\ linking \in DriverRecord /\ linking.pc = "edges"
         /\ linking.created = {} /\ linking.edges = edges
    <2>1. ASSUME NEW d \in DriverRecord
          PROVE  /\ [d EXCEPT !.edges = edges] \in DriverRecord
                 /\ [d EXCEPT !.edges = edges].pc = d.pc
                 /\ [d EXCEPT !.edges = edges].created = d.created
                 /\ [d EXCEPT !.edges = edges].edges = edges
      BY <1>4 DEF DriverRecord
    <2>2. Local("edges") \in DriverRecord /\ Local("edges").pc = "edges" /\ Local("edges").created = {}
      BY <1>8, LocalFacts
    <2> QED
      BY <2>1, <2>2, Zenon
  <1>11. /\ Local("round") \in DriverRecord /\ Local("round").pc = "round"
         /\ Local("round").created = {} /\ Local("round").edges = {}
    BY <1>8, LocalFacts
  <1> HIDE DEF more, linking
  <1>12. /\ local \in DriverRecord /\ local.pc \in {"insert", "edges", "round"}
         /\ local.created \in {{}, created} /\ local.edges \in {{}, edges, driver[q].edges}
         /\ local.pc = "round" => local.created = {} /\ local.edges = {}
    BY <1>9, <1>10, <1>11
  <1> HIDE DEF local
  <1>13. /\ driver' \in [Queues -> DriverRecord] /\ driver'[q] = local
         /\ \A r \in Queues : r # q => driver'[r] = driver[r]
    BY <1>1, <1>2, <1>12, GotoFacts
  <1>14. QueueTypeOK'
    BY <1>1, <1>13 DEF QueueInv, QueueTypeOK, DriverRecord
  <1>15. local.pc \notin Running
    BY <1>8, <1>12
  <1>16. \A r \in Queues : driver'[r].pc \in Running => r # q
    BY <1>13, <1>15
  <1>17. AttemptsHeld' /\ EvidenceInv'
    BY <1>1, <1>3, <1>13, <1>16, HoldersKeep
  <1>18. \A e \in driver[q].edges : state'[e[2]] = "Pending"
    <2> SUFFICES ASSUME NEW e \in driver[q].edges
                 PROVE  state'[e[2]] = "Pending"
      OBVIOUS
    <2>1. state[e[2]] = "Pending" /\ e[2] \in Jobs
      BY <1>2, EdgesAssumption DEF QueueInv, PlanningInv
    <2> QED
      BY <1>3, <2>1
  <1>19. PlanningInv'
    <2>1. CASE Planned
      <3>1. \A r \in Queues : driver'[r].created = {} /\ driver'[r].edges = {}
        BY <1>7, <1>12, <1>13, <2>1 DEF QueueInv, PlannedInv
      <3> QED
        BY <3>1 DEF PlanningInv
    <2>2. CASE OneDriver
      <3>1. \A r \in Queues : r = q
        BY <2>2 DEF OneDriver
      <3>2. /\ \A i \in local.created : state'[i] = "Pending"
            /\ \A e \in local.edges : state'[e[2]] = "Pending"
            /\ local.pc \notin {"insert", "edges"} => local.created = {} /\ local.edges = {}
        BY <1>5, <1>6, <1>12, <1>18
      <3> QED
        BY <1>13, <3>1, <3>2 DEF PlanningInv
    <2> QED
      BY <2>1, <2>2 DEF PlanSafe
  <1>20. PlannedInv'
    BY <1>3, <1>7, <1>12, <1>13 DEF QueueInv, PlannedInv
  <1>21. DbInv'
    BY <1>2, <1>3, DbInvInductive
  <1> QED
    BY <1>3, <1>14, <1>17, <1>19, <1>20, <1>21 DEF QueueInv

\* A driver persists one edge, into a job that it has created and that is
\* still Pending.
LEMMA EnsureEdgeKeeps ==
    ASSUME PlanSafe, QueueInv, NEW q \in Queues, ensure_edge(q)
    PROVE  DbNext /\ QueueInv'
  <1> PICK e \in driver[q].edges :
        LET edges == driver[q].edges \ {e}
        IN  /\ add_dependency(e[1], e[2])
            /\ Goto(q, IF edges # {} THEN [driver[q] EXCEPT !.edges = edges]
                       ELSE Local("round"))
    BY DEF ensure_edge
  <1> DEFINE edges == driver[q].edges \ {e}
             more == [driver[q] EXCEPT !.edges = edges]
             local == IF edges # {} THEN more ELSE Local("round")
  <1>1. /\ driver[q].pc = "edges" /\ UNCHANGED <<objects, accepted, rejected, aborts>>
        /\ Goto(q, local) /\ add_dependency(e[1], e[2])
    BY DEF ensure_edge, At
  <1>2. /\ driver[q] \in DriverRecord /\ driver[q].edges \subseteq Edges
        /\ DbInv /\ QueueTypeOK
    BY DriverFacts DEF QueueInv
  <1>3. e \in Edges /\ state[e[2]] = "Pending"
    BY <1>2 DEF QueueInv, PlanningInv
  <1>4. DbNext
    BY <1>1, <1>3 DEF DbNext
  <1>5. UNCHANGED <<state, verification_records>>
    BY <1>1 DEF add_dependency, jobVars, evidenceVars
  <1>6. edges \in SUBSET Edges /\ edges \subseteq driver[q].edges
    BY <1>2
  <1>7. "round" \in ProgramPoints \ Running /\ "edges" \notin Running
    BY DEF ProgramPoints, Running
  <1> HIDE DEF edges
  <1>8. /\ more \in DriverRecord /\ more.pc = "edges"
        /\ more.created = driver[q].created /\ more.edges = edges
    BY <1>1, <1>2, <1>6 DEF DriverRecord
  <1>9. /\ Local("round") \in DriverRecord /\ Local("round").pc = "round"
        /\ Local("round").created = {} /\ Local("round").edges = {}
    BY <1>7, LocalFacts
  <1> HIDE DEF more
  <1>10. /\ local \in DriverRecord /\ local.pc \in {"edges", "round"}
         /\ local.created \subseteq driver[q].created /\ local.edges \subseteq driver[q].edges
         /\ local.pc = "round" => local.created = {} /\ local.edges = {}
    BY <1>6, <1>8, <1>9
  <1> HIDE DEF local
  <1>11. /\ driver' \in [Queues -> DriverRecord] /\ driver'[q] = local
         /\ \A r \in Queues : r # q => driver'[r] = driver[r]
    BY <1>1, <1>2, <1>10, GotoFacts
  <1>12. QueueTypeOK'
    BY <1>1, <1>11 DEF QueueInv, QueueTypeOK, DriverRecord
  <1>13. local.pc \notin Running
    BY <1>7, <1>10
  <1>14. \A r \in Queues : driver'[r].pc \in Running => r # q
    BY <1>11, <1>13
  <1>15. AttemptsHeld' /\ EvidenceInv'
    BY <1>1, <1>4, <1>5, <1>11, <1>14, HoldersKeep
  <1>16. PlanningInv'
    BY <1>5, <1>10, <1>11 DEF QueueInv, PlanningInv
  <1>17. PlannedInv'
    BY DEF QueueInv, PlannedInv
  <1> QED
    BY <1>2, <1>4, <1>12, <1>15, <1>16, <1>17, DbInvInductive DEF QueueInv

\* What a driver holds.
LEMMA HolderFacts ==
    ASSUME QueueInv, NEW q \in Queues, driver[q].pc \in Running
    PROVE  /\ driver[q].job \in Jobs /\ driver[q].attempt \in AttemptNumbers
           /\ driver[q].attempt <= attempt_count[driver[q].job]
           /\ attempt_count[driver[q].job] \in 0..MaxAttempts
           /\ driver[q].created = {} /\ driver[q].edges = {}
  <1>1. driver[q].job \in Jobs /\ driver[q].attempt \in 1..attempt_count[driver[q].job]
    BY DEF QueueInv, AttemptsHeld
  <1>2. attempt_count[driver[q].job] \in 0..MaxAttempts
    BY <1>1 DEF QueueInv, DbInv, TypeOK
  <1>3. driver[q].pc \notin {"insert", "edges"}
    BY DEF Running
  <1>4. driver[q].created = {} /\ driver[q].edges = {}
    BY <1>3 DEF QueueInv, PlanningInv
  <1> QED
    BY <1>1, <1>2, <1>4, MaxAttemptsAssumption DEF AttemptNumbers

\* An attempt is begun: its number is new, so nobody holds it and nobody has
\* rejected it.
LEMMA RunOneKeeps ==
    ASSUME PlanSafe, QueueInv, NEW q \in Queues, run_one(q)
    PROVE  (DbNext \/ UNCHANGED dbVars) /\ QueueInv'
  <1>1. CASE Error(q)
    BY <1>1, EndingsKeep
  <1>2. ASSUME NEW j \in driver[q].selected,
               state[j] = "Ready" /\ attempt_count[j] < MaxAttempts,
               begin_attempt(j, start_event(Kind[j])),
               Goto(q, [driver[q] EXCEPT !.pc = "worker", !.job = j,
                                         !.attempt = attempt_count[j] + 1]),
               UNCHANGED <<objects, accepted, rejected, aborts>>
        PROVE  DbNext /\ QueueInv'
    <2> DEFINE n == attempt_count[j] + 1
               local == [driver[q] EXCEPT !.pc = "worker", !.job = j, !.attempt = n]
    <2>1. /\ driver[q] \in DriverRecord /\ j \in Jobs /\ DbInv /\ QueueTypeOK /\ TypeOK
          /\ attempt_count[j] \in 0..MaxAttempts
      BY DriverFacts DEF QueueInv, DbInv, TypeOK
    <2>2. n \in AttemptNumbers /\ n \in 0..MaxAttempts /\ n \in Nat /\ n > attempt_count[j]
      BY <1>2, <2>1, MaxAttemptsAssumption DEF AttemptNumbers
    <2>3. Kind[j] \in JobKinds
      BY <2>1, KindAssumption
    <2>4. start_event(Kind[j]) \in StartEvents /\ target(start_event(Kind[j])) \in ActiveStates
      BY <2>3, StartFacts
    <2>5. DbNext
      BY <1>2, <2>1, <2>4 DEF DbNext
    <2>6. /\ UNCHANGED <<dependencies, verification_records>>
          /\ state'[j] \in ActiveStates
          /\ attempt_count'[j] = n
          /\ \A i \in Jobs : i # j => attempt_count'[i] = attempt_count[i]
      BY <1>2, <2>1, <2>4 DEF begin_attempt, evidenceVars, TypeOK
    <2>7. DbInv'
      BY <2>1, <2>5, DbInvInductive
    <2>8. driver[q].created = {} /\ driver[q].edges = {}
      BY DEF QueueInv, PlanningInv, run_one, At
    <2> HIDE DEF n
    <2>9. /\ local \in DriverRecord /\ local.pc = "worker" /\ local.job = j /\ local.attempt = n
          /\ local.created = {} /\ local.edges = {}
      <3>1. ASSUME NEW d \in DriverRecord, d.created = {}, d.edges = {}
            PROVE  LET e == [d EXCEPT !.pc = "worker", !.job = j, !.attempt = n]
                   IN  /\ e \in DriverRecord /\ e.pc = "worker" /\ e.job = j /\ e.attempt = n
                       /\ e.created = {} /\ e.edges = {}
        BY <2>1, <2>2, <3>1 DEF DriverRecord, ProgramPoints
      <3> QED
        BY <2>1, <2>8, <3>1, Zenon
    <2>10. Goto(q, local)
      BY <1>2 DEF n
    <2> HIDE DEF local
    <2>11. /\ driver' \in [Queues -> DriverRecord] /\ driver'[q] = local
           /\ \A r \in Queues : r # q => driver'[r] = driver[r]
      BY <2>1, <2>9, <2>10, GotoFacts
    <2>12. QueueTypeOK'
      BY <1>2, <2>11 DEF QueueInv, QueueTypeOK, DriverRecord
    <2>13. PlanningInv' /\ PlannedInv'
      BY <2>5, <2>6, <2>9, <2>11, PlannersKeep
    <2>14. Held(q)' = <<j, n>> /\ \A r \in Queues : r # q => Held(r)' = Held(r)
      BY <2>9, <2>11 DEF Held
    <2>15. <<j, n>> \notin rejected
      BY <2>1, <2>2 DEF QueueInv, AttemptsHeld
    <2>16. \A i \in Jobs : /\ attempt_count[i] \in Nat /\ attempt_count'[i] \in Nat
                           /\ attempt_count'[i] >= attempt_count[i]
      BY <2>1, <2>5, CountsGrow
    <2>17. \A r \in Queues : driver[r].pc \in Running => Held(r) # <<j, n>>
      <3> SUFFICES ASSUME NEW r \in Queues, driver[r].pc \in Running, Held(r) = <<j, n>>
                   PROVE  FALSE
        OBVIOUS
      <3>1. driver[r].job = j /\ driver[r].attempt = n
        BY DEF Held
      <3> QED
        BY <2>2, <2>16, <3>1 DEF QueueInv, AttemptsHeld
    <2>18. AttemptsHeld'
      <3>1. ASSUME NEW r \in Queues, driver'[r].pc \in Running
            PROVE  /\ driver'[r].job \in Jobs
                   /\ driver'[r].attempt \in 1..attempt_count'[driver'[r].job]
                   /\ Held(r)' \notin rejected
                   /\ driver'[r].pc \in {"accepted", "publish", "commit"} => Held(r)' \in accepted
                   /\ driver'[r].pc = "commit" => Held(r)' \in objects
        <4>1. CASE r = q
          BY <2>1, <2>2, <2>6, <2>9, <2>11, <2>14, <2>15, <4>1 DEF AttemptNumbers
        <4>2. CASE r # q
          <5>1. /\ driver'[r] = driver[r] /\ driver[r].job \in Jobs
                /\ driver[r].attempt \in 1..attempt_count[driver[r].job]
            BY <2>11, <3>1, <4>2 DEF QueueInv, AttemptsHeld
          <5>2. driver'[r].attempt \in 1..attempt_count'[driver'[r].job]
            BY <2>16, <5>1
          <5> QED
            BY <2>14, <3>1, <4>2, <5>1, <5>2 DEF QueueInv, AttemptsHeld
        <4> QED
          BY <4>1, <4>2
      <3>2. \A r, t \in Queues : driver'[r].pc \in Running /\ driver'[t].pc \in Running
                                    /\ Held(r)' = Held(t)' => r = t
        BY <2>11, <2>14, <2>17 DEF QueueInv, AttemptsHeld
      <3>3. \A i \in Jobs, m \in AttemptNumbers : <<i, m>> \in rejected => m <= attempt_count'[i]
        BY <2>16 DEF QueueInv, AttemptsHeld, AttemptNumbers
      <3> QED
        BY <1>2, <3>1, <3>2, <3>3 DEF AttemptsHeld
    <2>19. EvidenceInv'
      <3> SUFFICES ASSUME NEW i \in Jobs, state'[i] = "Verified"
                   PROVE  /\ <<i, attempt_count'[i]>> \in accepted \ rejected
                          /\ Kind[i] # "LeafVerification" => <<i, attempt_count'[i]>> \in objects
                          /\ \A r \in Queues : driver'[r].pc \in Running =>
                                                  Held(r)' # <<i, attempt_count'[i]>>
        BY <1>2 DEF EvidenceInv
      <3>1. state[i] = "Verified" /\ attempt_count'[i] = attempt_count[i] /\ i # j
        BY <2>1, <2>6, <2>7, WithoutVerdict DEF ActiveStates
      <3>2. Held(q)' # <<i, attempt_count[i]>>
        BY <2>14, <3>1
      <3> QED
        BY <2>11, <2>14, <3>1, <3>2 DEF QueueInv, EvidenceInv
    <2> QED
      BY <2>5, <2>7, <2>12, <2>13, <2>18, <2>19 DEF QueueInv
  <1> QED
    BY <1>1, <1>2 DEF run_one, Try

\* A worker that fails is charged for the attempt its driver holds, if that is
\* still the open one.
LEMMA WorkerKeeps ==
    ASSUME PlanSafe, QueueInv, NEW q \in Queues,
           worker_succeeded(q) \/ worker_failed(q) \/ launch_error(q)
    PROVE  (DbNext \/ UNCHANGED dbVars) /\ QueueInv'
  <1> DEFINE j == driver[q].job
             n == driver[q].attempt
  <1>1. driver[q].pc = "worker" /\ driver[q].pc \in Running
    BY DEF worker_succeeded, worker_failed, launch_error, At, Running
  <1>2. /\ j \in Jobs /\ n \in AttemptNumbers /\ driver[q].created = {} /\ driver[q].edges = {}
        /\ driver[q] \in DriverRecord /\ QueueTypeOK /\ aborts \in 0..MaxAborts
    BY <1>1, HolderFacts, DriverFacts DEF QueueInv, QueueTypeOK
  <1>3. CASE worker_succeeded(q)
    <2> DEFINE local == [driver[q] EXCEPT !.pc = "verify"]
    <2>1. "verify" \in ProgramPoints
      BY DEF ProgramPoints
    <2>2. /\ local \in DriverRecord /\ local.pc = "verify" /\ local.job = j /\ local.attempt = n
          /\ local.created = {} /\ local.edges = {}
      BY <1>2, <2>1, FieldFacts
    <2>3. /\ Goto(q, local) /\ UNCHANGED dbVars /\ UNCHANGED <<objects, accepted, rejected, aborts>>
      BY <1>3 DEF worker_succeeded
    <2>4. dependencies' = dependencies /\ UNCHANGED verification_records
      BY <2>3 DEF dbVars
    <2> HIDE DEF local
    <2> QED
      BY <1>1, <1>2, <2>2, <2>3, <2>4, QuietStep
  <1>4. CASE worker_failed(q)
    <2>1. CASE Error(q)
      BY <2>1, EndingsKeep
    <2>2. CASE execution_failed(j, n) /\ NextJob(q) /\ UNCHANGED <<objects, accepted, rejected, aborts>>
      <3>1. DbNext
        BY <1>2, <2>2 DEF DbNext, AttemptStep
      <3>2. dependencies' = dependencies /\ UNCHANGED verification_records
        BY <2>2 DEF execution_failed, evidenceVars
      <3>3. PICK local \in DriverRecord :
                /\ Goto(q, local) /\ local.pc \in {"round", "begin"}
                /\ local.created = {} /\ local.edges = {}
        BY <1>2, <2>2, NextJobFacts
      <3>4. local.pc \notin Running
        BY <3>3 DEF Running
      <3> QED
        BY <1>2, <2>2, <3>1, <3>2, <3>3, <3>4, QuietStep
    <2> QED
      BY <1>4, <2>1, <2>2 DEF worker_failed, Try
  <1>5. CASE launch_error(q)
    BY <1>5, EndingsKeep DEF launch_error
  <1> QED
    BY <1>3, <1>4, <1>5

\* A driver that holds an attempt adds to the evidence: an acceptance, or a
\* publication.
LEMMA EvidenceGrows ==
    ASSUME PlanSafe, QueueInv, NEW q \in Queues, driver[q].pc \in Running,
           NEW pc \in {"accepted", "commit"}, Goto(q, [driver[q] EXCEPT !.pc = pc]),
           UNCHANGED <<dbVars, rejected, aborts>>,
           accepted' = IF pc = "accepted" THEN accepted \cup {Held(q)} ELSE accepted,
           objects' = IF pc = "commit" THEN objects \cup {Held(q)} ELSE objects,
           pc = "commit" => driver[q].pc = "publish"
    PROVE  QueueInv'
  <1> DEFINE local == [driver[q] EXCEPT !.pc = pc]
             j == driver[q].job
             n == driver[q].attempt
  <1>1. pc \in ProgramPoints /\ pc \in Running
    BY DEF ProgramPoints, Running
  <1>2. /\ j \in Jobs /\ n \in AttemptNumbers /\ driver[q].created = {} /\ driver[q].edges = {}
        /\ driver[q] \in DriverRecord /\ QueueTypeOK /\ aborts \in 0..MaxAborts
        /\ objects \cup accepted \cup rejected \subseteq Jobs \X AttemptNumbers
    BY HolderFacts, DriverFacts DEF QueueInv, QueueTypeOK
  <1>3. /\ local \in DriverRecord /\ local.pc = pc /\ local.job = j /\ local.attempt = n
        /\ local.created = {} /\ local.edges = {}
    BY <1>1, <1>2, FieldFacts
  <1>4. Goto(q, local)
    OBVIOUS
  <1> HIDE DEF local
  <1>5. /\ driver' \in [Queues -> DriverRecord] /\ driver'[q] = local
        /\ \A r \in Queues : r # q => driver'[r] = driver[r]
    BY <1>2, <1>3, <1>4, GotoFacts
  <1>6. Held(q) \in Jobs \X AttemptNumbers
    BY <1>2 DEF Held
  <1>7. QueueTypeOK'
    <2>1. objects' \cup accepted' \cup rejected' \subseteq Jobs \X AttemptNumbers
      BY <1>2, <1>6
    <2> QED
      BY <1>2, <1>5, <2>1 DEF QueueTypeOK, DriverRecord
  <1>8. PlanningInv' /\ PlannedInv'
    BY <1>3, <1>5, PlannersKeep DEF dbVars
  <1>9. \A r \in Queues : Held(r)' = Held(r) /\ driver'[r].job = driver[r].job
                             /\ driver'[r].attempt = driver[r].attempt
                             /\ (driver'[r].pc \in Running <=> driver[r].pc \in Running)
    BY <1>1, <1>3, <1>5 DEF Held
  <1>10. accepted \subseteq accepted' /\ objects \subseteq objects'
    OBVIOUS
  <1>11. UNCHANGED <<state, attempt_count>>
    BY DEF dbVars
  <1>12. ASSUME NEW r \in Queues, driver'[r].pc \in Running
         PROVE  /\ driver'[r].pc \in {"accepted", "publish", "commit"} => Held(r)' \in accepted'
                /\ driver'[r].pc = "commit" => Held(r)' \in objects'
    BY <1>3, <1>5, <1>9, <1>10, <1>12 DEF QueueInv, AttemptsHeld
  <1>13. AttemptsHeld'
    BY <1>9, <1>11, <1>12 DEF QueueInv, AttemptsHeld
  <1>14. EvidenceInv'
    BY <1>9, <1>10, <1>11 DEF QueueInv, EvidenceInv
  <1>15. DbInv'
    BY DbInvInductive DEF QueueInv
  <1> QED
    BY <1>7, <1>8, <1>13, <1>14, <1>15 DEF QueueInv

\* A rejected attempt is nobody else's, and no job is Verified by it.
LEMMA RejectionKeeps ==
    ASSUME PlanSafe, QueueInv, NEW q \in Queues, verifier_rejects(q)
    PROVE  UNCHANGED dbVars /\ QueueInv'
  <1> DEFINE j == driver[q].job
             n == driver[q].attempt
             local == Local("idle")
  <1>1. /\ driver[q].pc = "verify" /\ driver[q].pc \in Running /\ Goto(q, local)
        /\ UNCHANGED dbVars /\ UNCHANGED <<objects, accepted>>
        /\ rejected' = rejected \cup {Held(q)} /\ aborts < MaxAborts /\ aborts' = aborts + 1
    BY DEF verifier_rejects, At, Running, EndedByEnvironment, Held
  <1>2. /\ j \in Jobs /\ n \in AttemptNumbers /\ n <= attempt_count[j]
        /\ QueueTypeOK /\ aborts \in 0..MaxAborts
        /\ objects \cup accepted \cup rejected \subseteq Jobs \X AttemptNumbers
    BY <1>1, HolderFacts DEF QueueInv, QueueTypeOK
  <1>3. "idle" \in ProgramPoints /\ "idle" \notin Running
    BY DEF ProgramPoints, Running
  <1>4. local \in DriverRecord /\ local.pc = "idle" /\ local.created = {} /\ local.edges = {}
    BY <1>3, LocalFacts
  <1> HIDE DEF local
  <1>5. /\ driver' \in [Queues -> DriverRecord] /\ driver'[q] = local
        /\ \A r \in Queues : r # q => driver'[r] = driver[r]
    BY <1>1, <1>2, <1>4, GotoFacts
  <1>6. Held(q) \in Jobs \X AttemptNumbers
    BY <1>2 DEF Held
  <1>7. QueueTypeOK'
    <2>1. objects' \cup accepted' \cup rejected' \subseteq Jobs \X AttemptNumbers
      BY <1>1, <1>2, <1>6
    <2>2. aborts' \in 0..MaxAborts
      BY <1>1, <1>2, QueueBoundsAssumption
    <2> QED
      BY <1>5, <2>1, <2>2 DEF QueueTypeOK, DriverRecord
  <1>8. PlanningInv' /\ PlannedInv'
    BY <1>1, <1>4, <1>5, PlannersKeep DEF dbVars
  <1>9. \A r \in Queues : driver'[r].pc \in Running =>
            /\ r # q /\ driver'[r] = driver[r] /\ Held(r)' = Held(r) /\ Held(r) # Held(q)
    BY <1>1, <1>3, <1>4, <1>5 DEF Held, QueueInv, AttemptsHeld
  <1>10. UNCHANGED <<state, attempt_count>>
    BY <1>1 DEF dbVars
  <1>11. \A i \in Jobs, m \in AttemptNumbers : <<i, m>> \in rejected' => m <= attempt_count'[i]
    <2> SUFFICES ASSUME NEW i \in Jobs, NEW m \in AttemptNumbers, <<i, m>> \in rejected'
                 PROVE  m <= attempt_count[i]
      BY <1>10
    <2>1. CASE <<i, m>> \in rejected
      BY <2>1 DEF QueueInv, AttemptsHeld
    <2>2. CASE <<i, m>> = Held(q)
      <3>1. i = j /\ m = n
        BY <2>2 DEF Held
      <3> QED
        BY <1>2, <3>1
    <2> QED
      BY <1>1, <2>1, <2>2
  <1>12. \A r, t \in Queues : driver'[r].pc \in Running /\ driver'[t].pc \in Running
                                /\ Held(r)' = Held(t)' => r = t
    BY <1>9 DEF QueueInv, AttemptsHeld
  <1>13. \A r \in Queues : driver'[r].pc \in Running =>
            /\ driver'[r].job \in Jobs
            /\ driver'[r].attempt \in 1..attempt_count'[driver'[r].job]
            /\ Held(r)' \notin rejected'
            /\ driver'[r].pc \in {"accepted", "publish", "commit"} => Held(r)' \in accepted'
            /\ driver'[r].pc = "commit" => Held(r)' \in objects'
    BY <1>1, <1>9, <1>10 DEF QueueInv, AttemptsHeld
  <1>14. AttemptsHeld'
    BY <1>11, <1>12, <1>13 DEF AttemptsHeld
  <1>15. EvidenceInv'
    <2> SUFFICES ASSUME NEW i \in Jobs, state[i] = "Verified"
                 PROVE  /\ <<i, attempt_count[i]>> \in accepted \ rejected'
                        /\ Kind[i] # "LeafVerification" => <<i, attempt_count[i]>> \in objects
                        /\ \A r \in Queues : driver'[r].pc \in Running =>
                                                Held(r)' # <<i, attempt_count[i]>>
      BY <1>1, <1>10 DEF EvidenceInv
    <2>1. Held(q) # <<i, attempt_count[i]>>
      BY <1>1 DEF QueueInv, EvidenceInv
    <2> QED
      BY <1>1, <1>9, <2>1 DEF QueueInv, EvidenceInv
  <1>16. DbInv'
    BY <1>1, DbInvInductive DEF QueueInv
  <1> QED
    BY <1>1, <1>7, <1>8, <1>14, <1>15, <1>16 DEF QueueInv

\* A verdict is recorded for the latest attempt, which its driver holds, has
\* seen accepted and, unless it only verifies, has published; no other driver
\* holds it, so nobody can reject it later.
LEMMA VerdictKeeps ==
    ASSUME PlanSafe, QueueInv, NEW q \in Queues, driver[q].pc \in {"accepted", "commit"},
           Kind[driver[q].job] # "LeafVerification" => driver[q].pc = "commit",
           RecordVerified(driver[q].job, driver[q].attempt), DbNext, NextJob(q),
           UNCHANGED <<objects, accepted, rejected, aborts>>
    PROVE  QueueInv'
  <1> DEFINE j == driver[q].job
             n == driver[q].attempt
  <1>1. driver[q].pc \in Running
    BY DEF Running
  <1>2. /\ j \in Jobs /\ n \in AttemptNumbers /\ QueueTypeOK /\ DbInv /\ TypeOK
    BY <1>1, HolderFacts DEF QueueInv, DbInv
  <1>3. n = attempt_count[j]
    BY <1>2, SourceIsLatest DEF RecordVerified
  <1>4. UNCHANGED <<attempt_count, dependencies>>
    BY DEF RecordVerified
  <1>5. \A i \in Jobs : i # j => verification_records'[i] = verification_records[i]
    BY <1>2 DEF RecordVerified, TypeOK
  <1>6. PICK local \in DriverRecord :
            /\ Goto(q, local) /\ local.pc \in {"round", "begin"}
            /\ local.created = {} /\ local.edges = {}
    BY <1>2, NextJobFacts
  <1>7. local.pc \notin Running
    BY <1>6 DEF Running
  <1>8. /\ driver' \in [Queues -> DriverRecord] /\ driver'[q] = local
        /\ \A r \in Queues : r # q => driver'[r] = driver[r]
    BY <1>2, <1>6, GotoFacts
  <1>9. QueueTypeOK'
    BY <1>8 DEF QueueInv, QueueTypeOK, DriverRecord
  <1>10. PlanningInv' /\ PlannedInv'
    BY <1>4, <1>6, <1>8, PlannersKeep
  <1>11. DbInv'
    BY <1>2, DbInvInductive
  <1>12. \A r \in Queues : driver'[r].pc \in Running =>
            r # q /\ driver'[r] = driver[r] /\ Held(r)' = Held(r)
    BY <1>7, <1>8 DEF Held
  <1>13. AttemptsHeld'
    BY <1>4, <1>12 DEF QueueInv, AttemptsHeld
  <1>14. EvidenceInv'
    <2> SUFFICES ASSUME NEW i \in Jobs, state'[i] = "Verified"
                 PROVE  /\ <<i, attempt_count[i]>> \in accepted \ rejected
                        /\ Kind[i] # "LeafVerification" => <<i, attempt_count[i]>> \in objects
                        /\ \A r \in Queues : driver'[r].pc \in Running =>
                                                Held(r)' # <<i, attempt_count[i]>>
      BY <1>4 DEF EvidenceInv
    <2>1. CASE i = j
      <3>1. <<i, attempt_count[i]>> = Held(q)
        BY <1>3, <2>1 DEF Held
      <3>2. /\ Held(q) \in accepted \ rejected
            /\ Kind[i] # "LeafVerification" => Held(q) \in objects
        BY <1>1, <2>1 DEF QueueInv, AttemptsHeld
      <3>3. \A r \in Queues : driver'[r].pc \in Running => Held(r)' # Held(q)
        BY <1>1, <1>12 DEF QueueInv, AttemptsHeld
      <3> QED
        BY <3>1, <3>2, <3>3
    <2>2. CASE i # j
      <3>1. state[i] = "Verified"
        BY <1>2, <1>5, <1>11, <2>2, WithoutVerdict
      <3> QED
        BY <1>12, <3>1 DEF QueueInv, EvidenceInv
    <2> QED
      BY <2>1, <2>2
  <1> QED
    BY <1>9, <1>10, <1>11, <1>13, <1>14 DEF QueueInv

\* After the verifier has accepted: the completion event, or the verdict at once
\* for a job that only verifies.
LEMMA FinishKeeps ==
    ASSUME PlanSafe, QueueInv, NEW q \in Queues, finish_success(q)
    PROVE  (DbNext \/ UNCHANGED dbVars) /\ QueueInv'
  <1> DEFINE j == driver[q].job
             n == driver[q].attempt
             local == [driver[q] EXCEPT !.pc = "publish"]
  <1>1. driver[q].pc = "accepted" /\ driver[q].pc \in Running
    BY DEF finish_success, At, Running
  <1>2. /\ j \in Jobs /\ n \in AttemptNumbers /\ driver[q].created = {} /\ driver[q].edges = {}
        /\ driver[q] \in DriverRecord /\ QueueTypeOK /\ aborts \in 0..MaxAborts
    BY <1>1, HolderFacts, DriverFacts DEF QueueInv, QueueTypeOK
  <1>3. "publish" \in ProgramPoints
    BY DEF ProgramPoints
  <1>4. /\ local \in DriverRecord /\ local.pc = "publish" /\ local.job = j /\ local.attempt = n
        /\ local.created = {} /\ local.edges = {}
    BY <1>2, <1>3, FieldFacts
  <1>5. CASE Error(q)
    BY <1>5, EndingsKeep
  <1>6. CASE /\ Kind[j] = "LeafVerification"
             /\ complete_verification(j, n) /\ NextJob(q)
             /\ UNCHANGED <<objects, accepted, rejected, aborts>>
    <2>1. DbNext /\ RecordVerified(j, n)
      BY <1>2, <1>6 DEF DbNext, AttemptStep, complete_verification
    <2> QED
      BY <1>1, <1>6, <2>1, VerdictKeeps
  <1>7. CASE /\ Kind[j] \in {"Witness", "Prepare", "LeafProof"}
             /\ apply_attempt_event(j, n, completion_event(Kind[j]))
             /\ Goto(q, local) /\ UNCHANGED <<objects, accepted, rejected, aborts>>
    <2>1. DbNext
      BY <1>2, <1>7 DEF DbNext, AttemptStep, apply_attempt_event
    <2>2. dependencies' = dependencies /\ UNCHANGED verification_records
      BY <1>7 DEF apply_attempt_event, evidenceVars
    <2> HIDE DEF local
    <2> QED
      BY <1>1, <1>2, <1>4, <1>7, <2>1, <2>2, QuietStep
  <1>8. CASE /\ Goto(q, local) /\ UNCHANGED <<dbVars, objects, accepted, rejected, aborts>>
    <2>1. UNCHANGED dbVars /\ dependencies' = dependencies /\ UNCHANGED verification_records
      BY <1>8 DEF dbVars
    <2> HIDE DEF local
    <2> QED
      BY <1>1, <1>2, <1>4, <1>8, <2>1, QuietStep
  <1> QED
    BY <1>5, <1>6, <1>7, <1>8 DEF finish_success, Try

\* The commit of the verified state, of the latest attempt only.
LEMMA CommitKeeps ==
    ASSUME PlanSafe, QueueInv, NEW q \in Queues, commit(q)
    PROVE  (DbNext \/ UNCHANGED dbVars) /\ QueueInv'
  <1> DEFINE j == driver[q].job
             n == driver[q].attempt
  <1>1. driver[q].pc = "commit" /\ driver[q].pc \in Running
    BY DEF commit, At, Running
  <1>2. j \in Jobs /\ n \in AttemptNumbers
    BY <1>1, HolderFacts
  <1>3. CASE Error(q)
    BY <1>3, EndingsKeep
  <1>4. CASE /\ commit_verified_artifact(j, n) \/ commit_verified_key(j, n)
             /\ NextJob(q) /\ UNCHANGED <<objects, accepted, rejected, aborts>>
    <2>1. DbNext /\ RecordVerified(j, n)
      BY <1>2, <1>4 DEF DbNext, AttemptStep, commit_verified_artifact, commit_verified_key
    <2> QED
      BY <1>1, <1>4, <2>1, VerdictKeeps
  <1> QED
    BY <1>3, <1>4 DEF commit, Try

-----------------------------------------------------------------------------
(* The inductive invariant *)

\* QueueInv holds initially, every step of a driver is a step of the database
\* or leaves it alone, and every step keeps QueueInv.
LEMMA QueueInvInductive ==
    ASSUME PlanSafe
    PROVE  /\ QueueInit => QueueInv
           /\ QueueInv /\ [QueueNext]_vars => QueueInv' /\ (DbNext \/ UNCHANGED dbVars)
  <1>1. ASSUME QueueInit
        PROVE  QueueInv
    <2>1. DbInv
      <3> DEFINE initial == IF Planned THEN "Pending" ELSE "absent"
                 edges == IF Planned THEN Edges ELSE {}
      <3>1. initial \in {"absent", "Pending"} /\ edges \in SUBSET (Jobs \X Jobs)
        BY EdgesAssumption
      <3>2. DbInitWith(initial, edges)
        BY <1>1 DEF QueueInit
      <3>3. initial = "absent" => edges = {}
        OBVIOUS
      <3> HIDE DEF initial, edges
      <3> QED
        BY <3>1, <3>2, <3>3, DbInvWithoutAttempts
    <2>2. "idle" \in ProgramPoints /\ "idle" \notin Running
      BY DEF ProgramPoints, Running
    <2>3. \A q \in Queues : /\ driver[q] \in DriverRecord /\ driver[q].pc = "idle"
                            /\ driver[q].created = {} /\ driver[q].edges = {}
      BY <1>1, <2>2, LocalFacts DEF QueueInit
    <2>4. driver \in [Queues -> DriverRecord]
      BY <1>1, <2>2, LocalFacts DEF QueueInit
    <2>5. QueueTypeOK
      BY <1>1, <2>4, QueueBoundsAssumption DEF QueueInit, QueueTypeOK, DriverRecord
    <2>6. PlanningInv
      BY <2>3 DEF PlanningInv
    <2>7. PlannedInv
      BY <1>1, <2>3 DEF PlannedInv, QueueInit, DbInitWith
    <2>8. AttemptsHeld
      BY <1>1, <2>2, <2>3 DEF AttemptsHeld, QueueInit
    <2>9. EvidenceInv
      BY <1>1 DEF EvidenceInv, QueueInit, DbInitWith
    <2> QED
      BY <2>1, <2>5, <2>6, <2>7, <2>8, <2>9 DEF QueueInv
  <1>2. ASSUME QueueInv, UNCHANGED vars
        PROVE  QueueInv' /\ UNCHANGED dbVars
    <2>1. UNCHANGED dbVars /\ UNCHANGED queueVars
      BY <1>2 DEF vars
    <2>2. DbInv'
      BY <1>2, <2>1, DbInvInductive DEF QueueInv
    <2>3. UNCHANGED <<state, attempt_count, dependencies>>
      BY <2>1 DEF dbVars
    <2> QED
      BY <1>2, <2>1, <2>2, <2>3
         DEF QueueInv, queueVars, QueueTypeOK, PlanningInv, PlannedInv, AttemptsHeld, EvidenceInv,
             Held
  <1>3. ASSUME QueueInv, NEW q \in Queues, start(q) \/ DriverStep(q) \/ abort(q)
        PROVE  QueueInv' /\ (DbNext \/ UNCHANGED dbVars)
    <2>1. CASE start(q)
      BY <1>3, <2>1, StartKeeps
    <2>2. CASE abort(q)
      BY <1>3, <2>2, EndingsKeep DEF abort
    <2>3. CASE ensure_job(q) \/ ensure_edge(q)
      BY <1>3, <2>3, EnsureJobKeeps, EnsureEdgeKeeps
    <2>4. CASE begin_round(q) \/ decide(q) \/ run_one(q)
      BY <1>3, <2>4, BeginRoundKeeps, DecideKeeps, RunOneKeeps
    <2>5. CASE worker_succeeded(q) \/ worker_failed(q) \/ launch_error(q)
      BY <1>3, <2>5, WorkerKeeps
    <2>6. CASE verifier_accepts(q)
      <3>1. /\ driver[q].pc = "verify" /\ driver[q].pc \in Running
            /\ Goto(q, [driver[q] EXCEPT !.pc = "accepted"])
            /\ accepted' = accepted \cup {Held(q)}
            /\ UNCHANGED <<dbVars, rejected, aborts>> /\ objects' = objects
        BY <2>6 DEF verifier_accepts, At, Held, Running
      <3> QED
        BY <1>3, <3>1, EvidenceGrows
    <2>7. CASE verifier_rejects(q)
      BY <1>3, <2>7, RejectionKeeps
    <2>8. CASE finish_success(q) \/ commit(q)
      BY <1>3, <2>8, FinishKeeps, CommitKeeps
    <2>9. CASE publish(q)
      <3>1. /\ driver[q].pc = "publish" /\ driver[q].pc \in Running
            /\ Goto(q, [driver[q] EXCEPT !.pc = "commit"])
            /\ objects' = objects \cup {Held(q)}
            /\ UNCHANGED <<dbVars, rejected, aborts>> /\ accepted' = accepted
        BY <2>9 DEF publish, At, Held, Running
      <3> QED
        BY <1>3, <3>1, EvidenceGrows
    <2> QED
      BY <1>3, <2>1, <2>2, <2>3, <2>4, <2>5, <2>6, <2>7, <2>8, <2>9 DEF DriverStep
  <1> QED
    BY <1>1, <1>2, <1>3 DEF QueueNext

-----------------------------------------------------------------------------
(* Theorems about any number of drivers *)

\* The drivers' local state, the database and the evidence agree in every
\* reachable state: the inductive invariant.
THEOREM QueueInvariant ==
    ASSUME PlanSafe
    PROVE  QueueSpec => []QueueInv
  <1>1. QueueInit => QueueInv
    BY QueueInvInductive
  <1>2. QueueInv /\ [QueueNext]_vars => QueueInv'
    BY QueueInvInductive
  <1> QED
    BY <1>1, <1>2, PTL DEF QueueSpec

\* However many processes run run_queue on a planned database, and wherever
\* they are killed, each of their steps is an operation of the run database, used
\* as RunDb's general client uses it, or leaves the database alone: what is
\* proved of RunDb holds of the queue.
THEOREM DriversAreClients ==
    ASSUME PlanSafe
    PROVE  QueueSpec => DriversUseTheDb
  <1>1. QueueInv /\ [QueueNext]_vars => [DbNext]_dbVars
    BY QueueInvInductive
  <1>2. QueueSpec => []QueueInv
    BY QueueInvariant
  <1> QED
    BY <1>1, <1>2, PTL DEF QueueSpec, DriversUseTheDb

\* Seen from the database, a run of the queue executes the graph it persisted:
\* crashes, takeovers by another driver and reruns are invisible.
THEOREM QueueExecutesTheGraph ==
    ASSUME PlanSafe
    PROVE  QueueSpec => ImplementsDagExecution
  <1>1. QueueInit => Execution!DagInit
    <2> DEFINE initial == IF Planned THEN "Pending" ELSE "absent"
               edges == IF Planned THEN Edges ELSE {}
    <2>1. initial \in {"absent", "Pending"} /\ edges \in SUBSET (Jobs \X Jobs)
      BY EdgesAssumption
    <2>2. QueueInit => DbInitWith(initial, edges)
      BY DEF QueueInit
    <2>3. initial = "absent" => edges = {}
      OBVIOUS
    <2> HIDE DEF initial, edges
    <2> QED
      BY <2>1, <2>2, <2>3, InitImplements
  <1>2. QueueInv /\ [QueueNext]_vars => [Execution!DagNext]_<<JobPhase, dependencies>>
    <2> SUFFICES ASSUME QueueInv, [QueueNext]_vars
                 PROVE  [Execution!DagNext]_<<JobPhase, dependencies>>
      OBVIOUS
    <2>1. DbInv /\ [DbNext]_dbVars
      BY QueueInvInductive DEF QueueInv
    <2> QED
      BY <2>1, StepImplements
  <1> QED
    BY <1>1, <1>2, QueueInvariant, PTL
       DEF QueueSpec, ImplementsDagExecution, Execution!DagSpec, JobPhase

\* A job that any driver has brought to Verified rests on a verdict on its
\* latest attempt that nobody has contradicted or can still contradict, and on
\* its published output; a driver that was overtaken changes nothing of that.
THEOREM EvidenceIsBehind ==
    ASSUME PlanSafe
    PROVE  QueueSpec => [](QueueTypeOK /\ EvidenceBehindVerified /\ AttemptDiscipline
                                /\ VerifiedByLatestAttempt)
  <1>1. ASSUME QueueInv
        PROVE  EvidenceBehindVerified
    <2> SUFFICES ASSUME NEW j \in Jobs, state[j] = "Verified"
                 PROVE  /\ <<j, verification_records[j][1]>> \in accepted \ rejected
                        /\ Kind[j] # "LeafVerification" =>
                              <<j, verification_records[j][1]>> \in objects
      BY DEF EvidenceBehindVerified
    <2>1. verification_records[j] = <<attempt_count[j]>>
      BY <1>1 DEF QueueInv, DbInv, VerifiedByLatestAttempt
    <2>2. <<attempt_count[j]>>[1] = attempt_count[j]
      OBVIOUS
    <2>3. verification_records[j][1] = attempt_count[j]
      BY <2>1, <2>2, Zenon
    <2> QED
      BY <1>1, <2>3 DEF QueueInv, EvidenceInv
  <1>2. QueueInv => QueueTypeOK /\ EvidenceBehindVerified /\ AttemptDiscipline
                        /\ VerifiedByLatestAttempt
    BY <1>1 DEF QueueInv, DbInv
  <1> QED
    BY <1>2, QueueInvariant, PTL

-----------------------------------------------------------------------------
(* The plan *)

\* Nothing ends a run while it persists the plan, or the plan is persisted.
PlanPersisted == Planned \/ (OneDriver /\ AbortAt \cap {"insert", "edges"} = {})

\* An edge of the plan is in the database, or its successor is not, or the
\* driver that has created the successor has yet to add the edge.
EdgesOnTheWay ==
    \A e \in Edges :
        \/ e \in dependencies
        \/ state[e[2]] = "absent"
        \/ \E q \in Queues : \/ driver[q].pc = "insert" /\ e[2] \in driver[q].created
                             \/ driver[q].pc = "edges" /\ e \in driver[q].edges

PlanInv == QueueInv /\ EdgesOnTheWay

\* No operation on an attempt, and no refresh or recovery, creates a job.
LEMMA AbsentStays ==
    ASSUME TypeOK, NEW i \in Jobs, state[i] = "absent", NEW j, NEW n,
           \/ refresh_readiness
           \/ recover_interrupted
           \/ state[j] = "Ready" /\ begin_attempt(j, start_event(Kind[j]))
           \/ execution_failed(j, n)
           \/ apply_attempt_event(j, n, completion_event(Kind[j]))
           \/ RecordVerified(j, n)
           \/ UNCHANGED dbVars
    PROVE  state'[i] = "absent" /\ dependencies' = dependencies
  <1>1. i \notin Waiting /\ i \notin Unlocked /\ i \notin Interruptible
    BY WaitingFacts DEF Unlocked, Interruptible, ActiveStates
  <1>2. CASE refresh_readiness
    BY <1>1, <1>2 DEF refresh_readiness, SetState
  <1>3. CASE recover_interrupted
    BY <1>1, <1>3 DEF recover_interrupted, SetState
  <1>4. CASE state[j] = "Ready" /\ begin_attempt(j, start_event(Kind[j]))
    BY <1>4 DEF begin_attempt, TypeOK
  <1>5. CASE execution_failed(j, n)
    <2>1. i # j
      BY <1>5, EventFacts DEF execution_failed, ActiveStates
    <2>2. CASE Requeue(j, "ExecutionFailed")
      BY <1>5, <2>1, <2>2 DEF Requeue, execution_failed, TypeOK
    <2>3. CASE FailTerminally(j, "ExecutionFailed")
      <3>1. i \notin block_descendants(j)
        BY <1>1 DEF block_descendants
      <3> QED
        BY <1>5, <2>1, <2>3, <3>1 DEF FailTerminally, SetState, execution_failed
    <2> QED
      BY <1>5, <2>2, <2>3 DEF execution_failed
  <1>6. CASE apply_attempt_event(j, n, completion_event(Kind[j]))
    <2>1. i # j
      BY <1>6, CompletionFacts DEF apply_attempt_event, ApplyEvent, ActiveStates
    <2> QED
      BY <1>6, <2>1 DEF apply_attempt_event, ApplyEvent, SetState
  <1>7. CASE RecordVerified(j, n)
    <2>1. i # j
      BY <1>7, EventFacts DEF RecordVerified, ApplyEvent, AwaitingVerdict
    <2> QED
      BY <1>7, <2>1 DEF RecordVerified, ApplyEvent, SetState
  <1>8. CASE UNCHANGED dbVars
    BY <1>8 DEF dbVars
  <1> QED
    BY <1>2, <1>3, <1>4, <1>5, <1>6, <1>7, <1>8

\* Which operation of the database a step of a driver uses once the plan is
\* persisted.
LEMMA DriverOperations ==
    ASSUME NEW q \in Queues, start(q) \/ DriverStep(q) \/ abort(q), ~ensure_job(q), ~ensure_edge(q)
    PROVE  \E j, n :
              \/ refresh_readiness
              \/ recover_interrupted
              \/ state[j] = "Ready" /\ begin_attempt(j, start_event(Kind[j]))
              \/ execution_failed(j, n)
              \/ apply_attempt_event(j, n, completion_event(Kind[j]))
              \/ RecordVerified(j, n)
              \/ UNCHANGED dbVars
  <1>1. CASE start(q) \/ begin_round(q) \/ decide(q)
    BY <1>1 DEF start, begin_round, decide, Error
  <1>2. CASE run_one(q)
    BY <1>2 DEF run_one, Try, Error
  <1>3. CASE worker_failed(q)
    BY <1>3 DEF worker_failed, Try, Error
  <1>4. CASE finish_success(q)
    BY <1>4 DEF finish_success, Try, Error, complete_verification
  <1>5. CASE commit(q)
    BY <1>5 DEF commit, Try, Error, commit_verified_artifact, commit_verified_key
  <1>6. CASE worker_succeeded(q) \/ launch_error(q) \/ verifier_accepts(q) \/ verifier_rejects(q)
                \/ publish(q) \/ abort(q)
    BY <1>6 DEF worker_succeeded, launch_error, verifier_accepts, verifier_rejects, publish, abort,
                EndedByEnvironment
  <1> QED
    BY <1>1, <1>2, <1>3, <1>4, <1>5, <1>6 DEF DriverStep

\* No edge of the plan is lost on the way to the database.
LEMMA EdgesStep ==
    ASSUME PlanPersisted, PlanInv, [QueueNext]_vars
    PROVE  PlanInv'
  <1>1. PlanSafe
    BY DEF PlanPersisted, PlanSafe
  <1>2. QueueInv /\ QueueInv' /\ TypeOK /\ QueueTypeOK
    BY <1>1, QueueInvInductive DEF PlanInv, QueueInv, DbInv
  <1>3. CASE Planned
    BY <1>2, <1>3 DEF PlanInv, QueueInv, PlannedInv, EdgesOnTheWay
  <1>4. CASE UNCHANGED vars
    BY <1>2, <1>4 DEF PlanInv, EdgesOnTheWay, vars, dbVars, queueVars
  <1>5. ASSUME OneDriver, AbortAt \cap {"insert", "edges"} = {}, NEW q \in Queues,
               start(q) \/ DriverStep(q) \/ abort(q)
        PROVE  EdgesOnTheWay'
    <2>1. \A r \in Queues : r = q
      BY <1>5 DEF OneDriver
    <2>2. CASE ensure_job(q)
      <3> PICK j \in driver[q].todo :
            LET created == driver[q].created \cup (IF state[j] = "absent" THEN {j} ELSE {})
                todo == driver[q].todo \ {j}
                edges == {e \in Edges : e[2] \in created}
            IN  /\ IF state[j] = "absent" THEN insert_job(j) ELSE UNCHANGED dbVars
                /\ Goto(q, IF todo # {}
                           THEN [driver[q] EXCEPT !.todo = todo, !.created = created]
                           ELSE IF edges # {}
                           THEN [Local("edges") EXCEPT !.edges = edges]
                           ELSE Local("round"))
        BY <2>2 DEF ensure_job
      <3> DEFINE created == driver[q].created \cup (IF state[j] = "absent" THEN {j} ELSE {})
                 todo == driver[q].todo \ {j}
                 edges == {e \in Edges : e[2] \in created}
                 more == [driver[q] EXCEPT !.todo = todo, !.created = created]
                 linking == [Local("edges") EXCEPT !.edges = edges]
      <3>1. /\ driver[q].pc = "insert" /\ driver[q] \in DriverRecord
            /\ driver \in [Queues -> DriverRecord]
            /\ driver' = [driver EXCEPT ![q] =
                    IF todo # {} THEN more ELSE IF edges # {} THEN linking ELSE Local("round")]
        BY <1>2, <2>2, DriverFacts DEF ensure_job, At, Goto
      <3>2. \A i \in Jobs : state'[i] = "absent" \/ i \in created \/ state[i] # "absent"
        BY <1>2 DEF insert_job, TypeOK, dbVars
      <3>3. dependencies' = dependencies
        BY DEF insert_job, dbVars
      <3>4. \A e \in edges : e \in Edges /\ e[2] \in created
        OBVIOUS
      <3>5. \A e \in Edges : e[2] \in created => e \in edges
        OBVIOUS
      <3>6. driver[q].created \subseteq created
        OBVIOUS
      <3> HIDE DEF created, todo, edges
      <3>7. more.pc = "insert" /\ more.created = created
        BY <3>1 DEF DriverRecord
      <3>8. linking.pc = "edges" /\ linking.edges = edges
        BY DEF Local
      <3> HIDE DEF more, linking
      <3>9. \/ todo # {} /\ driver'[q].pc = "insert" /\ driver'[q].created = created
            \/ edges # {} /\ driver'[q].pc = "edges" /\ driver'[q].edges = edges
            \/ edges = {}
        BY <3>1, <3>7, <3>8
      <3> SUFFICES ASSUME NEW e \in Edges
                   PROVE  \/ e \in dependencies'
                          \/ state'[e[2]] = "absent"
                          \/ driver'[q].pc = "insert" /\ e[2] \in driver'[q].created
                          \/ driver'[q].pc = "edges" /\ e \in driver'[q].edges
        BY DEF EdgesOnTheWay
      <3>10. e[2] \in Jobs
        BY EdgesAssumption
      <3>11. \/ e \in dependencies \/ state[e[2]] = "absent" \/ e[2] \in driver[q].created
        BY <2>1, <3>1 DEF PlanInv, EdgesOnTheWay
      <3> QED
        BY <3>2, <3>3, <3>5, <3>6, <3>9, <3>10, <3>11
    <2>3. CASE ensure_edge(q)
      <3> PICK a \in driver[q].edges :
            LET edges == driver[q].edges \ {a}
            IN  /\ add_dependency(a[1], a[2])
                /\ Goto(q, IF edges # {} THEN [driver[q] EXCEPT !.edges = edges]
                           ELSE Local("round"))
        BY <2>3 DEF ensure_edge
      <3> DEFINE edges == driver[q].edges \ {a}
                 more == [driver[q] EXCEPT !.edges = edges]
      <3>1. /\ driver[q].pc = "edges" /\ driver[q] \in DriverRecord
            /\ driver[q].edges \subseteq Edges /\ driver \in [Queues -> DriverRecord]
            /\ driver' = [driver EXCEPT ![q] = IF edges # {} THEN more ELSE Local("round")]
        BY <1>2, <2>3, DriverFacts DEF ensure_edge, At, Goto
      <3>2. a \in dependencies' /\ dependencies \subseteq dependencies' /\ state' = state
        <4>1. a = <<a[1], a[2]>>
          BY <3>1, EdgesAssumption
        <4> QED
          BY <4>1 DEF add_dependency, jobVars
      <3> HIDE DEF edges
      <3>3. more.pc = "edges" /\ more.edges = edges
        BY <3>1 DEF DriverRecord
      <3> HIDE DEF more
      <3>4. edges # {} => driver'[q].pc = "edges" /\ driver'[q].edges = edges
        BY <3>1, <3>3
      <3> SUFFICES ASSUME NEW e \in Edges
                   PROVE  \/ e \in dependencies'
                          \/ state'[e[2]] = "absent"
                          \/ driver'[q].pc = "edges" /\ e \in driver'[q].edges
        BY DEF EdgesOnTheWay
      <3>5. \/ e \in dependencies \/ state[e[2]] = "absent" \/ e \in driver[q].edges
        BY <2>1, <3>1 DEF PlanInv, EdgesOnTheWay
      <3> QED
        BY <3>2, <3>4, <3>5 DEF edges
    <2>4. CASE ~ensure_job(q) /\ ~ensure_edge(q)
      <3>1. driver[q].pc \notin {"insert", "edges"}
        BY <1>5, <2>4 DEF start, abort, DriverStep, At, begin_round, decide, run_one, worker_succeeded,
                     worker_failed, launch_error, verifier_accepts, verifier_rejects,
                     finish_success, publish, commit
      <3> SUFFICES ASSUME NEW e \in Edges
                   PROVE  e \in dependencies' \/ state'[e[2]] = "absent"
        BY DEF EdgesOnTheWay
      <3>2. e \in dependencies \/ state[e[2]] = "absent"
        BY <2>1, <3>1 DEF PlanInv, EdgesOnTheWay
      <3>3. e[2] \in Jobs
        BY EdgesAssumption
      <3>4. state[e[2]] = "absent" => state'[e[2]] = "absent"
        BY <1>2, <1>5, <2>4, <3>3, DriverOperations, AbsentStays
      <3>5. dependencies' = dependencies
        BY <1>2, <1>5, <2>4, DriverOperations DEF refresh_readiness, recover_interrupted,
              begin_attempt, execution_failed, apply_attempt_event, RecordVerified, dbVars
      <3> QED
        BY <3>2, <3>4, <3>5
    <2> QED
      BY <2>2, <2>3, <2>4
  <1> QED
    BY <1>2, <1>3, <1>4, <1>5 DEF PlanPersisted, QueueNext, PlanInv

\* No job is started, however many drivers there are, unless every predecessor
\* that the plan names is Verified, provided that no driver is ended while it
\* persists the plan: a run killed there leaves a job without its edges.
THEOREM PlanIsRespected ==
    ASSUME PlanPersisted
    PROVE  QueueSpec => []PlanRespected
  <1>1. ASSUME QueueInit
        PROVE  PlanInv
    <2>1. QueueInv
      BY <1>1, QueueInvInductive DEF PlanPersisted, PlanSafe
    <2>2. EdgesOnTheWay
      BY <1>1, EdgesAssumption DEF QueueInit, DbInitWith, EdgesOnTheWay
    <2> QED
      BY <2>1, <2>2 DEF PlanInv
  <1>2. ASSUME PlanInv
        PROVE  PlanRespected
    <2> SUFFICES ASSUME NEW e \in Edges, attempt_count[e[2]] > 0
                 PROVE  state[e[1]] = "Verified"
      BY DEF PlanRespected
    <2>1. e[1] \in Jobs /\ e[2] \in Jobs /\ e = <<e[1], e[2]>>
      BY EdgesAssumption
    <2>2. attempt_count[e[2]] \in Nat
      BY <1>2, <2>1, MaxAttemptsAssumption DEF PlanInv, QueueInv, DbInv, TypeOK
    <2>3. state[e[2]] \notin {"absent", "Pending"}
      BY <1>2, <2>1, <2>2 DEF PlanInv, QueueInv, DbInv, NeverStartedWhilePending
    <2>4. e \in dependencies
      BY <1>2, <2>3 DEF PlanInv, EdgesOnTheWay, QueueInv, PlanningInv
    <2>5. required_predecessors_verified(e[2])
      BY <1>2, <2>1 DEF PlanInv, QueueInv, DbInv, PredecessorsVerified
    <2> QED
      BY <2>1, <2>4, <2>5 DEF required_predecessors_verified, Predecessors
  <1>3. PlanInv /\ [QueueNext]_vars => PlanInv'
    BY EdgesStep
  <1> QED
    BY <1>1, <1>2, <1>3, PTL DEF QueueSpec

-----------------------------------------------------------------------------
(* The retry budget of a single driver *)

Unfinished == {"absent", "Pending", "Ready", "Requeued", "Blocked"} \cup ActiveStates

HeldJob(j) == \E q \in Queues : driver[q].pc \in Running /\ driver[q].job = j

\* Each attempt but the one in flight has been charged to the job, or to an
\* ending of the driver by its environment.
BudgetOf(j) ==
    /\ attempt_count[j] <= execution_retries[j] + aborts + 1
    /\ execution_retries[j] <= ExecutionRetryLimit
    /\ state[j] \in Unfinished /\ ~HeldJob(j) => attempt_count[j] <= execution_retries[j] + aborts

\* The attempt that the driver holds is the job's latest, and is where the
\* driver believes it is: no operation on it can be refused.
HeldIsCurrent(q) ==
    LET j == driver[q].job
        n == driver[q].attempt
    IN  /\ n = attempt_count[j]
        /\ driver[q].pc \in {"worker", "verify", "accepted"} =>
              state[j] = target(start_event(Kind[j]))
        /\ driver[q].pc \in {"publish", "commit"} => require_verification_source(j, n)

BudgetInv ==
    /\ QueueInv
    /\ \A j \in Jobs : BudgetOf(j)
    /\ \A q \in Queues : driver[q].pc \in Running => HeldIsCurrent(q)

\* A step that begins no attempt keeps the budget of a job, unless the driver
\* lets go of its attempt for free.
LEMMA BudgetStep ==
    ASSUME QueueInv, QueueInv', DbNext \/ UNCHANGED dbVars, UNCHANGED attempt_count,
           aborts' \in {aborts, aborts + 1}, NEW j \in Jobs, BudgetOf(j),
           HeldJob(j) => \/ HeldJob(j)'
                         \/ state'[j] \notin Unfinished
                         \/ execution_retries'[j] = execution_retries[j] + 1
                         \/ aborts' = aborts + 1
    PROVE  BudgetOf(j)'
  <1>1. /\ attempt_count[j] \in Nat /\ execution_retries[j] \in Nat
        /\ execution_retries'[j] \in Nat /\ aborts \in Nat /\ aborts' \in Nat /\ aborts' >= aborts
    BY MaxAttemptsAssumption, QueueBoundsAssumption DEF QueueInv, QueueTypeOK, DbInv, TypeOK
  <1>2. /\ execution_retries'[j] >= execution_retries[j]
        /\ execution_retries'[j] <= ExecutionRetryLimit
        /\ state'[j] \in Unfinished => state[j] \in Unfinished
    <2>1. execution_retries[j] <= ExecutionRetryLimit /\ ExecutionRetryLimit \in Nat
      BY DEF BudgetOf, ExecutionRetryLimit
    <2>2. CASE UNCHANGED dbVars
      BY <1>1, <2>1, <2>2 DEF dbVars
    <2>3. CASE DbNext
      <3>1. Moves(j)
        BY <2>3, StepMoves DEF QueueInv, DbInv
      <3>2. ~Starts(j)
        BY <1>1 DEF Starts
      <3>3. CASE Stays(j) \/ Enters(j) \/ Unlocks(j) \/ Blocks(j)
        BY <1>1, <2>1, <3>3
           DEF Stays, Enters, Unlocks, Blocks, KeepsCounters, KeepsRetries, Unfinished
      <3>4. CASE Ends(j)
        BY <1>1, <2>1, <3>4 DEF Ends, Charges, Unfinished
      <3>5. CASE Fails(j) \/ Verifies(j)
        BY <1>1, <2>1, <3>5
           DEF Fails, Verifies, KeepsCounters, KeepsRetries, Unfinished, ActiveStates
      <3> QED
        BY <3>1, <3>2, <3>3, <3>4, <3>5 DEF Moves
    <2> QED
      BY <2>2, <2>3
  <1>3. attempt_count'[j] <= execution_retries'[j] + aborts' + 1
    BY <1>1, <1>2 DEF BudgetOf
  <1>4. ASSUME state'[j] \in Unfinished, ~HeldJob(j)'
        PROVE  attempt_count'[j] <= execution_retries'[j] + aborts'
    BY <1>1, <1>2, <1>4 DEF BudgetOf
  <1> QED
    BY <1>2, <1>3, <1>4 DEF BudgetOf

\* What a single driver holds is open, or finished and waiting for its verdict.
LEMMA HeldIsAccepted ==
    ASSUME BudgetInv, NEW q \in Queues, driver[q].pc \in Running
    PROVE  LET j == driver[q].job
               n == driver[q].attempt
           IN  /\ driver[q].pc \in {"worker", "verify", "accepted"} =>
                     require_unique_open_attempt(j, n)
               /\ driver[q].pc = "accepted"
                     /\ Kind[j] \in {"LeafVerification", "NativeAggregate"} =>
                     require_verification_source(j, n)
               /\ driver[q].pc \in {"publish", "commit"} => require_verification_source(j, n)
  <1> DEFINE j == driver[q].job
             n == driver[q].attempt
  <1>1. j \in Jobs /\ HeldIsCurrent(q) /\ Kind[j] \in JobKinds
    BY HolderFacts, KindAssumption DEF BudgetInv
  <1>2. target(start_event(Kind[j])) \in ActiveStates
    BY <1>1, StartFacts
  <1>3. ASSUME driver[q].pc \in {"worker", "verify", "accepted"}
        PROVE  require_unique_open_attempt(j, n)
    <2>1. state[j] \in ActiveStates /\ n = attempt_count[j]
      BY <1>1, <1>2, <1>3 DEF HeldIsCurrent
    <2> QED
      BY <1>1, <2>1 DEF BudgetInv, QueueInv, DbInv, AttemptDiscipline, require_unique_open_attempt
  <1>4. ASSUME driver[q].pc = "accepted", Kind[j] \in {"LeafVerification", "NativeAggregate"}
        PROVE  require_verification_source(j, n)
    <2>1. start_event(Kind[j]) = "StartVerification"
      BY <1>4, Zenon DEF start_event
    <2>2. state[j] = "Verifying"
      BY <1>1, <1>4, <2>1, EventFacts DEF HeldIsCurrent
    <2> QED
      BY <1>3, <1>4, <2>2 DEF require_verification_source
  <1> QED
    BY <1>1, <1>3, <1>4 DEF HeldIsCurrent

\* The state a completion event leaves a job in is the one its kind waits in.
LEMMA CompletionTargets ==
    ASSUME NEW k \in {"Witness", "Prepare", "LeafProof"}
    PROVE  <<k, target(completion_event(k))>> \in Finished
  <1>1. /\ completion_event("Witness") = "WitnessCompleted"
        /\ completion_event("Prepare") = "PreparationCompleted"
        /\ completion_event("LeafProof") = "ProofProduced"
    BY Zenon DEF completion_event
  <1> QED
    BY <1>1, EventFacts DEF Finished

\* Before its attempt and after it a driver is at none of the points where it
\* holds one.
LEMMA PointsOutside ==
    ASSUME QueueInv, NEW q \in Queues,
           \/ start(q) \/ ensure_job(q) \/ ensure_edge(q) \/ begin_round(q) \/ decide(q)
           \/ Error(q) \/ EndedByEnvironment(q) \/ NextJob(q)
    PROVE  driver'[q].pc \notin Running
  <1>1. /\ driver \in [Queues -> DriverRecord] /\ driver[q] \in DriverRecord /\ QueueTypeOK
        /\ driver[q].rounds \in 0..MaxRounds
    BY DriverFacts DEF QueueInv
  <1>2. ASSUME NEW local, Goto(q, local)
        PROVE  driver'[q] = local
    BY <1>1, <1>2 DEF Goto
  <1>3. \A pc \in ProgramPoints : Local(pc).pc = pc
    BY LocalFacts
  <1>4. {"idle", "insert", "edges", "round", "decide", "begin", "returned"} \subseteq
            ProgramPoints \ Running
    BY DEF ProgramPoints, Running
  <1>5. CASE Error(q) \/ EndedByEnvironment(q)
    BY <1>2, <1>3, <1>4, <1>5 DEF Error, EndedByEnvironment
  <1>6. CASE start(q)
    <2>1. [Local("insert") EXCEPT !.todo = Jobs].pc = "insert"
      BY DEF Local
    <2> QED
      BY <1>2, <1>4, <1>6, <2>1 DEF start
  <1>7. CASE ensure_job(q)
    <2> PICK j \in driver[q].todo :
          LET created == driver[q].created \cup (IF state[j] = "absent" THEN {j} ELSE {})
              todo == driver[q].todo \ {j}
              edges == {e \in Edges : e[2] \in created}
          IN  Goto(q, IF todo # {}
                      THEN [driver[q] EXCEPT !.todo = todo, !.created = created]
                      ELSE IF edges # {}
                      THEN [Local("edges") EXCEPT !.edges = edges]
                      ELSE Local("round"))
      BY <1>7 DEF ensure_job
    <2> DEFINE created == driver[q].created \cup (IF state[j] = "absent" THEN {j} ELSE {})
               todo == driver[q].todo \ {j}
               edges == {e \in Edges : e[2] \in created}
               more == [driver[q] EXCEPT !.todo = todo, !.created = created]
               linking == [Local("edges") EXCEPT !.edges = edges]
    <2>1. driver'[q] = IF todo # {} THEN more ELSE IF edges # {} THEN linking ELSE Local("round")
      BY <1>2
    <2>2. driver[q].pc = "insert"
      BY <1>7 DEF ensure_job, At
    <2> HIDE DEF created, todo, edges
    <2>3. more.pc = "insert"
      BY <1>1, <2>2 DEF DriverRecord
    <2>4. linking.pc = "edges"
      BY DEF Local
    <2> HIDE DEF more, linking
    <2> QED
      BY <1>3, <1>4, <2>1, <2>3, <2>4
  <1>8. CASE ensure_edge(q)
    <2> PICK a \in driver[q].edges :
            LET edges == driver[q].edges \ {a}
            IN  Goto(q, IF edges # {} THEN [driver[q] EXCEPT !.edges = edges] ELSE Local("round"))
      BY <1>8 DEF ensure_edge
    <2> DEFINE edges == driver[q].edges \ {a}
               more == [driver[q] EXCEPT !.edges = edges]
    <2>1. driver'[q] = IF edges # {} THEN more ELSE Local("round")
      BY <1>2
    <2>2. driver[q].pc = "edges"
      BY <1>8 DEF ensure_edge, At
    <2> HIDE DEF edges
    <2>3. more.pc = "edges"
      BY <1>1, <2>2 DEF DriverRecord
    <2> HIDE DEF more
    <2> QED
      BY <1>3, <1>4, <2>1, <2>3
  <1>9. CASE begin_round(q)
    <2> DEFINE going == [Local("decide") EXCEPT !.rounds = driver[q].rounds + 1, !.todo = Ready']
    <2>1. Error(q) \/ Goto(q, IF Ready' = {} THEN Local("returned") ELSE going)
      BY <1>9 DEF begin_round
    <2>2. going.pc = "decide"
      BY DEF Local
    <2> HIDE DEF going
    <2> QED
      BY <1>2, <1>3, <1>4, <1>5, <2>1, <2>2
  <1>10. CASE decide(q)
    <2>1. \/ Goto(q, Local("returned"))
          \/ \E S : Goto(q, IF S = {} THEN Local("returned")
                            ELSE [Local("begin") EXCEPT !.rounds = driver[q].rounds,
                                                        !.selected = S])
      BY <1>10 DEF decide
    <2>2. ASSUME NEW S
          PROVE  [Local("begin") EXCEPT !.rounds = driver[q].rounds, !.selected = S].pc = "begin"
      BY DEF Local
    <2>3. ASSUME NEW S, Goto(q, IF S = {} THEN Local("returned")
                                ELSE [Local("begin") EXCEPT !.rounds = driver[q].rounds,
                                                            !.selected = S])
          PROVE  driver'[q].pc \notin Running
      <3> DEFINE going == [Local("begin") EXCEPT !.rounds = driver[q].rounds, !.selected = S]
      <3>1. driver'[q] = IF S = {} THEN Local("returned") ELSE going
        BY <1>2, <2>3
      <3>2. going.pc = "begin"
        BY <2>2
      <3> HIDE DEF going
      <3> QED
        BY <1>3, <1>4, <3>1, <3>2
    <2> QED
      BY <1>2, <1>3, <1>4, <2>1, <2>3
  <1>11. CASE NextJob(q)
    <2>1. PICK local \in DriverRecord : Goto(q, local) /\ local.pc \in {"round", "begin"}
      BY <1>1, <1>11, NextJobFacts
    <2> QED
      BY <1>2, <1>4, <2>1
  <1> QED
    BY <1>5, <1>6, <1>7, <1>8, <1>9, <1>10, <1>11

\* A step that ends outside an attempt keeps the budget when the attempt that
\* the driver held, if any, was charged or is settled.
LEMMA BudgetOutside ==
    ASSUME OneDriver, BudgetInv, QueueInv', DbNext \/ UNCHANGED dbVars, UNCHANGED attempt_count,
           aborts' \in {aborts, aborts + 1}, NEW q \in Queues, driver'[q].pc \notin Running,
           driver[q].pc \in Running =>
              \/ state'[driver[q].job] \notin Unfinished
              \/ execution_retries'[driver[q].job] = execution_retries[driver[q].job] + 1
              \/ aborts' = aborts + 1
    PROVE  BudgetInv'
  <1>1. \A r \in Queues : r = q
    BY DEF OneDriver
  <1>2. ASSUME NEW j \in Jobs
        PROVE  BudgetOf(j)'
    <2>1. HeldJob(j) => driver[q].pc \in Running /\ driver[q].job = j
      BY <1>1 DEF HeldJob
    <2>2. BudgetOf(j) /\ QueueInv
      BY DEF BudgetInv
    <2>3. HeldJob(j) => \/ state'[j] \notin Unfinished
                        \/ execution_retries'[j] = execution_retries[j] + 1
                        \/ aborts' = aborts + 1
      BY <2>1
    <2> QED
      BY <2>2, <2>3, BudgetStep
  <1> QED
    BY <1>1, <1>2 DEF BudgetInv

\* A step within an attempt keeps the budget and what the driver believes.
LEMMA BudgetWithin ==
    ASSUME OneDriver, BudgetInv, QueueInv', DbNext \/ UNCHANGED dbVars, UNCHANGED attempt_count,
           UNCHANGED aborts, NEW q \in Queues, driver[q].pc \in Running,
           NEW pc \in Running, Goto(q, [driver[q] EXCEPT !.pc = pc]),
           NEW j, NEW n, driver[q].job = j, driver[q].attempt = n,
           pc \in {"worker", "verify", "accepted"} => state'[j] = target(start_event(Kind[j])),
           pc \in {"publish", "commit"} => require_verification_source(j, n)'
    PROVE  BudgetInv'
  <1>1. \A r \in Queues : r = q
    BY DEF OneDriver
  <1>2. /\ driver \in [Queues -> DriverRecord] /\ driver[q] \in DriverRecord /\ QueueInv
        /\ pc \in ProgramPoints
    BY DriverFacts DEF BudgetInv, QueueInv, Running, ProgramPoints
  <1>3. driver'[q] = [driver[q] EXCEPT !.pc = pc]
    BY <1>2 DEF Goto
  <1>4. driver'[q].pc = pc /\ driver'[q].job = j /\ driver'[q].attempt = n
    BY <1>2, <1>3 DEF DriverRecord
  <1>5. HeldIsCurrent(q)'
    <2>1. n = attempt_count[j]
      BY DEF BudgetInv, HeldIsCurrent
    <2> QED
      BY <1>4, <2>1 DEF HeldIsCurrent, require_verification_source, require_unique_open_attempt,
            OpenAttempts
  <1>6. ASSUME NEW i \in Jobs
        PROVE  BudgetOf(i)'
    <2>1. HeldJob(i) => HeldJob(i)'
      BY <1>1, <1>4 DEF HeldJob
    <2> QED
      BY <1>2, <2>1, BudgetStep DEF BudgetInv
  <1> QED
    BY <1>1, <1>5, <1>6 DEF BudgetInv

\* A single driver begins only attempts it has the budget for.
LEMMA BudgetBegins ==
    ASSUME OneDriver, BudgetInv, QueueInv', NEW q \in Queues, driver[q].pc = "begin",
           NEW j \in Jobs, state[j] = "Ready", begin_attempt(j, start_event(Kind[j])),
           Goto(q, [driver[q] EXCEPT !.pc = "worker", !.job = j,
                                     !.attempt = attempt_count[j] + 1]),
           UNCHANGED aborts
    PROVE  BudgetInv'
  <1>1. \A r \in Queues : r = q
    BY DEF OneDriver
  <1>2. /\ driver \in [Queues -> DriverRecord] /\ driver[q] \in DriverRecord /\ QueueInv /\ TypeOK
        /\ driver[q].pc \notin Running
    BY DriverFacts DEF BudgetInv, QueueInv, Running, DbInv
  <1>3. driver'[q].pc = "worker" /\ driver'[q].job = j /\ driver'[q].attempt = attempt_count[j] + 1
    <2>1. ASSUME NEW d \in DriverRecord, NEW n
          PROVE  LET e == [d EXCEPT !.pc = "worker", !.job = j, !.attempt = n]
                 IN  e.pc = "worker" /\ e.job = j /\ e.attempt = n
      BY DEF DriverRecord
    <2>2. driver'[q] = [driver[q] EXCEPT !.pc = "worker", !.job = j,
                                         !.attempt = attempt_count[j] + 1]
      BY <1>2 DEF Goto
    <2> QED
      BY <1>2, <2>1, <2>2
  <1>4. /\ state' = [state EXCEPT ![j] = target(start_event(Kind[j]))]
        /\ attempt_count' = [attempt_count EXCEPT ![j] = attempt_count[j] + 1]
        /\ UNCHANGED execution_retries
    BY DEF begin_attempt
  <1>5. HeldIsCurrent(q)'
    BY <1>2, <1>3, <1>4 DEF HeldIsCurrent, TypeOK
  <1>6. ASSUME NEW i \in Jobs
        PROVE  BudgetOf(i)'
    <2>1. /\ BudgetOf(i) /\ ~HeldJob(i) /\ attempt_count[i] \in Nat /\ execution_retries[i] \in Nat
          /\ aborts \in Nat
      BY <1>1, <1>2, MaxAttemptsAssumption, QueueBoundsAssumption
         DEF BudgetInv, HeldJob, TypeOK, QueueInv, QueueTypeOK
    <2>2. CASE i = j
      <3>1. HeldJob(i)'
        BY <1>3, <2>2 DEF HeldJob, Running
      <3>2. attempt_count[i] <= execution_retries[i] + aborts
        BY <2>1, <2>2 DEF BudgetOf, Unfinished
      <3>3. attempt_count'[i] = attempt_count[i] + 1
        BY <1>2, <1>4, <2>2 DEF TypeOK
      <3> QED
        BY <1>4, <2>1, <3>1, <3>2, <3>3 DEF BudgetOf
    <2>3. CASE i # j
      <3>1. attempt_count'[i] = attempt_count[i] /\ state'[i] = state[i]
        BY <1>2, <1>4, <2>3 DEF TypeOK
      <3> QED
        BY <1>4, <2>1, <3>1 DEF BudgetOf
    <2> QED
      BY <2>2, <2>3
  <1> QED
    BY <1>1, <1>5, <1>6 DEF BudgetInv

\* Under a single driver every step keeps the budget: no operation on the
\* attempt it holds is refused, so it lets go of an attempt only when that is
\* charged, settled, or ended by the environment.
LEMMA BudgetInvStep ==
    ASSUME OneDriver, BudgetInv, [QueueNext]_vars
    PROVE  BudgetInv'
  <1>1. QueueInv /\ QueueInv' /\ (DbNext \/ UNCHANGED dbVars) /\ TypeOK
    <2>1. PlanSafe /\ QueueInv /\ TypeOK
      BY DEF PlanSafe, BudgetInv, QueueInv, DbInv
    <2> QED
      BY <2>1, QueueInvInductive
  <1>2. CASE UNCHANGED vars
    <2>1. UNCHANGED dbVars /\ UNCHANGED queueVars
      BY <1>2 DEF vars
    <2>2. UNCHANGED <<state, attempt_count, execution_retries, attempts, driver, aborts>>
      BY <2>1 DEF dbVars, queueVars
    <2> QED
      BY <1>1, <2>2 DEF BudgetInv, BudgetOf, HeldJob, HeldIsCurrent, require_verification_source,
                        require_unique_open_attempt, OpenAttempts
  <1>3. ASSUME NEW q \in Queues, start(q) \/ DriverStep(q) \/ abort(q)
        PROVE  BudgetInv'
    <2>0. \E i, m : i = driver[q].job /\ m = driver[q].attempt
      OBVIOUS
    <2> PICK j, n : j = driver[q].job /\ n = driver[q].attempt
      BY <2>0
    <2>1. ASSUME driver[q].pc \in Running
          PROVE  j \in Jobs /\ n \in AttemptNumbers /\ HeldIsCurrent(q)
      BY <1>1, <2>1, HolderFacts DEF BudgetInv
    <2>2. CASE start(q) \/ ensure_job(q) \/ ensure_edge(q) \/ begin_round(q) \/ decide(q)
      <3>1. driver[q].pc \notin Running
        BY <2>2 DEF start, ensure_job, ensure_edge, begin_round, decide, At, Running
      <3>2. UNCHANGED <<attempt_count, aborts>>
        BY <2>2 DEF start, ensure_job, ensure_edge, begin_round, decide, Error, recover_interrupted,
                    insert_job, add_dependency, refresh_readiness, dbVars, jobVars
      <3>3. driver'[q].pc \notin Running
        BY <1>1, <2>2, PointsOutside
      <3> QED
        BY <1>1, <3>1, <3>2, <3>3, BudgetOutside
    <2>3. CASE EndedByEnvironment(q)
      <3>1. aborts' = aborts + 1 /\ UNCHANGED attempt_count
        BY <2>3 DEF EndedByEnvironment, dbVars
      <3>2. driver'[q].pc \notin Running
        BY <1>1, <2>3, PointsOutside
      <3> QED
        BY <1>1, <3>1, <3>2, BudgetOutside
    <2>4. CASE run_one(q)
      <3>1. driver[q].pc = "begin" /\ driver[q].pc \notin Running
        BY <2>4 DEF run_one, At, Running
      <3>2. CASE Error(q)
        <4>1. UNCHANGED <<aborts, attempt_count>>
          BY <3>2 DEF Error, dbVars
        <4>2. driver'[q].pc \notin Running
          BY <1>1, <3>2, PointsOutside
        <4> QED
          BY <1>1, <3>1, <4>1, <4>2, BudgetOutside
      <3>3. ASSUME NEW i \in driver[q].selected, state[i] = "Ready",
                   begin_attempt(i, start_event(Kind[i])),
                   Goto(q, [driver[q] EXCEPT !.pc = "worker", !.job = i,
                                             !.attempt = attempt_count[i] + 1]),
                   UNCHANGED aborts
            PROVE  BudgetInv'
        <4>1. i \in Jobs
          BY <1>1, DriverFacts DEF QueueInv
        <4> QED
          BY <1>1, <3>1, <3>3, <4>1, BudgetBegins
      <3> QED
        BY <2>4, <3>2, <3>3 DEF run_one, Try
    <2>5. CASE worker_succeeded(q)
      <3>1. /\ driver[q].pc = "worker" /\ driver[q].pc \in Running /\ "verify" \in Running
            /\ Goto(q, [driver[q] EXCEPT !.pc = "verify"]) /\ UNCHANGED aborts
            /\ UNCHANGED attempt_count /\ state' = state
        BY <2>5 DEF worker_succeeded, At, Running, dbVars
      <3>2. state'[j] = target(start_event(Kind[j]))
        BY <2>1, <3>1 DEF HeldIsCurrent
      <3> QED
        BY <1>1, <3>1, <3>2, BudgetWithin
    <2>6. CASE verifier_accepts(q)
      <3>1. /\ driver[q].pc = "verify" /\ driver[q].pc \in Running /\ "accepted" \in Running
            /\ Goto(q, [driver[q] EXCEPT !.pc = "accepted"]) /\ UNCHANGED aborts
            /\ UNCHANGED attempt_count /\ state' = state
        BY <2>6 DEF verifier_accepts, At, Running, dbVars
      <3>2. state'[j] = target(start_event(Kind[j]))
        BY <2>1, <3>1 DEF HeldIsCurrent
      <3> QED
        BY <1>1, <3>1, <3>2, BudgetWithin
    <2>7. CASE publish(q)
      <3>1. /\ driver[q].pc = "publish" /\ driver[q].pc \in Running /\ "commit" \in Running
            /\ Goto(q, [driver[q] EXCEPT !.pc = "commit"]) /\ UNCHANGED aborts
            /\ UNCHANGED <<attempt_count, state, attempts>>
        BY <2>7 DEF publish, At, Running, dbVars
      <3>2. require_verification_source(j, n)
        BY <2>1, <3>1 DEF HeldIsCurrent
      <3>3. require_verification_source(j, n)'
        BY <3>1, <3>2 DEF require_verification_source, require_unique_open_attempt, OpenAttempts
      <3> QED
        BY <1>1, <3>1, <3>3, BudgetWithin
    <2>8. CASE worker_failed(q)
      <3>1. driver[q].pc = "worker" /\ driver[q].pc \in Running
        BY <2>8 DEF worker_failed, At, Running
      <3>2. require_unique_open_attempt(j, n)
        BY <3>1, HeldIsAccepted
      <3>3. execution_failed(j, n) /\ NextJob(q) /\ UNCHANGED <<objects, accepted, rejected, aborts>>
        BY <2>8, <3>2 DEF worker_failed, Try
      <3>4. UNCHANGED <<attempt_count, aborts>>
        BY <3>3 DEF execution_failed
      <3>5. driver'[q].pc \notin Running
        BY <1>1, <3>3, PointsOutside
      <3>6. state'[j] \notin Unfinished \/ execution_retries'[j] = execution_retries[j] + 1
        <4>1. CASE execution_retries' = [execution_retries EXCEPT ![j] = @ + 1]
          BY <1>1, <2>1, <3>1, <4>1 DEF TypeOK
        <4>2. CASE FailTerminally(j, "ExecutionFailed")
          <5>1. j \notin block_descendants(j)
            BY <3>3, EventFacts, WaitingFacts DEF block_descendants, execution_failed, ActiveStates
          <5>2. state'[j] = "ExecutionFailed"
            BY <2>1, <3>1, <4>2, <5>1, EventFacts DEF FailTerminally, SetState
          <5> QED
            BY <5>2 DEF Unfinished, ActiveStates
        <4> QED
          BY <3>3, <4>1, <4>2 DEF execution_failed
      <3> QED
        BY <1>1, <3>4, <3>5, <3>6, BudgetOutside
    <2>9. ASSUME RecordVerified(j, n), NextJob(q), UNCHANGED aborts, driver[q].pc \in Running
          PROVE  BudgetInv'
      <3>1. UNCHANGED attempt_count /\ state'[j] = "Verified"
        BY <2>1, <2>9, EventFacts DEF RecordVerified, ApplyEvent, SetState
      <3>2. state'[j] \notin Unfinished
        BY <3>1 DEF Unfinished, ActiveStates
      <3>3. driver'[q].pc \notin Running
        BY <1>1, <2>9, PointsOutside
      <3> QED
        BY <1>1, <2>9, <3>1, <3>2, <3>3, BudgetOutside
    <2>10. CASE finish_success(q)
      <3>1. driver[q].pc = "accepted" /\ driver[q].pc \in Running /\ "publish" \in Running
        BY <2>10 DEF finish_success, At, Running
      <3>2. require_unique_open_attempt(j, n)
        BY <3>1, HeldIsAccepted
      <3>3. CASE Kind[j] = "LeafVerification"
        <4>1. require_verification_source(j, n)
          BY <3>1, <3>3, HeldIsAccepted
        <4>2. complete_verification(j, n) /\ NextJob(q) /\ UNCHANGED aborts
          BY <2>10, <3>3, <4>1 DEF finish_success, Try
        <4> QED
          BY <2>9, <3>1, <4>2 DEF complete_verification
      <3>4. CASE Kind[j] \in {"Witness", "Prepare", "LeafProof"}
        <4>1. /\ apply_attempt_event(j, n, completion_event(Kind[j]))
              /\ Goto(q, [driver[q] EXCEPT !.pc = "publish"]) /\ UNCHANGED aborts
          BY <2>10, <3>2, <3>4 DEF finish_success, Try
        <4>2. UNCHANGED attempt_count
          BY <4>1 DEF apply_attempt_event
        <4> DEFINE v == target(completion_event(Kind[j]))
        <4>3. <<Kind[j], v>> \in Finished
          BY <3>4, CompletionTargets
        <4>4. state' = SetState(state, {j}, v) /\ attempts' = CloseOpen(attempts, {j}, v)
          BY <4>1 DEF apply_attempt_event, ApplyEvent
        <4>5. v \in JobStates
          BY <4>3 DEF Finished, JobStates
        <4> HIDE DEF v
        <4>6. state'[j] = v
          BY <2>1, <3>1, <4>4 DEF SetState
        <4>7. n \in AttemptNumbers /\ j \in Jobs /\ attempts[j][n].open /\ n = attempt_count[j]
          BY <2>1, <3>1, <3>2 DEF require_unique_open_attempt, OpenAttempts, HeldIsCurrent
        <4>8. attempts'[j][n] = [state |-> v, open |-> FALSE]
          <5>1. CloseOpen(attempts, {j}, v)[j][n] =
                    IF attempts[j][n].open THEN [state |-> v, open |-> FALSE] ELSE attempts[j][n]
            BY <4>7 DEF CloseOpen
          <5> QED
            BY <4>4, <4>7, <5>1
        <4>9. require_verification_source(j, n)'
          BY <4>2, <4>3, <4>6, <4>7, <4>8 DEF require_verification_source
        <4> QED
          BY <1>1, <3>1, <4>1, <4>2, <4>9, BudgetWithin
      <3>5. CASE Kind[j] = "NativeAggregate"
        <4>1. /\ Goto(q, [driver[q] EXCEPT !.pc = "publish"]) /\ UNCHANGED aborts
              /\ UNCHANGED dbVars
          BY <2>10, <3>5 DEF finish_success
        <4>2. UNCHANGED <<attempt_count, state, attempts>>
          BY <4>1 DEF dbVars
        <4>3. require_verification_source(j, n)
          BY <3>1, <3>5, HeldIsAccepted
        <4>4. require_verification_source(j, n)'
          BY <4>2, <4>3 DEF require_verification_source, require_unique_open_attempt, OpenAttempts
        <4> QED
          BY <1>1, <3>1, <4>1, <4>2, <4>4, BudgetWithin
      <3> QED
        BY <2>10, <3>3, <3>4, <3>5 DEF finish_success
    <2>11. CASE commit(q)
      <3>1. driver[q].pc = "commit" /\ driver[q].pc \in Running
        BY <2>11 DEF commit, At, Running
      <3>2. require_verification_source(j, n)
        BY <3>1, HeldIsAccepted
      <3>3. RecordVerified(j, n) /\ NextJob(q) /\ UNCHANGED aborts
        BY <2>11, <3>2 DEF commit, Try, commit_verified_artifact, commit_verified_key
      <3> QED
        BY <2>9, <3>1, <3>3
    <2> QED
      BY <1>3, <2>2, <2>3, <2>4, <2>5, <2>6, <2>7, <2>8, <2>10, <2>11
         DEF DriverStep, abort, launch_error, verifier_rejects
  <1> QED
    BY <1>2, <1>3 DEF QueueNext

\* With one driver, a job is attempted once, again for each retry that was
\* charged to it, and again for each time the environment ended a run: no
\* operation on a held attempt is ever refused, so none is lost for free.
THEOREM RetriesAreBounded == QueueSpec => []RetryBudget
  <1>1. CASE OneDriver
    <2>1. ASSUME QueueInit
          PROVE  BudgetInv
      <3>1. QueueInv
        BY <1>1, <2>1, QueueInvInductive DEF PlanSafe
      <3>2. \A j \in Jobs : BudgetOf(j)
        BY <2>1 DEF QueueInit, DbInitWith, BudgetOf, ExecutionRetryLimit
      <3>3. "idle" \in ProgramPoints /\ "idle" \notin Running
        BY DEF ProgramPoints, Running
      <3>4. \A q \in Queues : driver[q].pc \notin Running
        BY <2>1, <3>3, LocalFacts DEF QueueInit
      <3> QED
        BY <3>1, <3>2, <3>4 DEF BudgetInv
    <2>2. BudgetInv /\ [QueueNext]_vars => BudgetInv'
      BY <1>1, BudgetInvStep
    <2>3. ASSUME BudgetInv
          PROVE  RetryBudget
      <3> SUFFICES ASSUME NEW j \in Jobs
                   PROVE  attempt_count[j] <= 1 + ExecutionRetryLimit + aborts
        BY DEF RetryBudget
      <3>1. attempt_count[j] \in Nat /\ execution_retries[j] \in Nat /\ aborts \in Nat
        BY <2>3, MaxAttemptsAssumption, QueueBoundsAssumption
           DEF BudgetInv, QueueInv, DbInv, TypeOK, QueueTypeOK
      <3> QED
        BY <2>3, <3>1 DEF BudgetInv, BudgetOf, ExecutionRetryLimit
    <2> QED
      BY <2>1, <2>2, <2>3, PTL DEF QueueSpec
  <1>2. CASE ~OneDriver
    <2>1. RetryBudget
      BY <1>2 DEF RetryBudget
    <2> QED
      BY <2>1, PTL
  <1> QED
    BY <1>1, <1>2

\* run_queue keeps to the plan and to the retry limits and leaves no job
\* Verified without its evidence, whatever the plan, the kinds and the capacity,
\* for any number of drivers of a planned run and wherever they are killed; an
\* unplanned run needs a single driver that is not ended while it plans.
THEOREM QueueStaysSafe ==
    ASSUME PlanPersisted
    PROVE  QueueSpec => []QueueSafe
  <1>1. PlanSafe
    BY DEF PlanPersisted, PlanSafe
  <1>2. QueueSpec => [](QueueTypeOK /\ EvidenceBehindVerified /\ AttemptDiscipline
                            /\ VerifiedByLatestAttempt)
    BY <1>1, EvidenceIsBehind
  <1>3. QueueSpec => []PlanRespected
    BY PlanIsRespected
  <1>4. QueueSpec => []RetryBudget
    BY RetriesAreBounded
  <1> QED
    BY <1>2, <1>3, <1>4, PTL DEF QueueSafe
=============================================================================
