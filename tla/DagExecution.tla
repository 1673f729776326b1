---------------------------- MODULE DagExecution ----------------------------
(***************************************************************************)
(* What the run database promises of the execution of a graph of jobs,     *)
(* without attempts, retries, crashes and recoveries: a job is released    *)
(* once, when everything it needs is verified, and then ends once; a       *)
(* failure blocks at once everything that waits below it, and nothing else *)
(* is ever blocked.  Module RunDb implements it.                           *)
(***************************************************************************)
CONSTANT Jobs

VARIABLES
    phase,   \* per job: absent, waiting, released, verified, failed or blocked
    needs    \* <<p, s>>: job s needs job p

Needs(s) == {p \in Jobs : <<p, s>> \in needs}
WaitingJobs == {j \in Jobs : phase[j] = "waiting"}
Satisfied == {j \in WaitingJobs : \A p \in Needs(j) : phase[p] = "verified"}
Move(S, next) == [j \in Jobs |-> IF j \in S THEN next ELSE phase[j]]

\* Some of the jobs may have been planned before.
DagInit ==
    /\ phase \in [Jobs -> {"absent", "waiting"}]
    /\ needs \subseteq WaitingJobs \X WaitingJobs

Enter(j) == phase[j] = "absent" /\ phase' = Move({j}, "waiting") /\ UNCHANGED needs

\* A job that has been released gets no further needs.
Need(p, s) ==
    /\ phase[p] # "absent" /\ phase[s] = "waiting" /\ p # s
    /\ needs' = needs \cup {<<p, s>>}
    /\ UNCHANGED phase

Verify(j) == phase[j] = "released" /\ phase' = Move({j}, "verified") /\ UNCHANGED needs

\* The jobs that wait below j: the least set of waiting jobs that contains
\* whatever needs j or one of its own members.
Closed(j, S) == \A s \in WaitingJobs : Needs(s) \cap (S \cup {j}) # {} => s \in S
Below(j) == {s \in WaitingJobs : \A S \in SUBSET WaitingJobs : Closed(j, S) => s \in S}

Fail(j) ==
    /\ phase[j] = "released"
    /\ phase' = [i \in Jobs |-> IF i = j THEN "failed"
                                ELSE IF i \in Below(j) THEN "blocked" ELSE phase[i]]
    /\ UNCHANGED needs

\* Every chain of causes inside B starts at a job that has ended badly: jobs
\* that wait for each other in a circle give each other no cause.
Caused(B) ==
    \A S \in SUBSET B : S # {} =>
        \E s \in S : \E p \in Needs(s) : phase[p] \in {"failed", "blocked"} \/ p \in B \ S

\* Every waiting job whose needs are verified is released, and jobs that wait
\* for something that has ended badly may be blocked.
Sweep(B) ==
    /\ B \subseteq WaitingJobs \ Satisfied
    /\ Caused(B)
    /\ phase' = [j \in Jobs |-> IF j \in Satisfied THEN "released"
                                ELSE IF j \in B THEN "blocked" ELSE phase[j]]
    /\ UNCHANGED needs

DagNext ==
    \/ \E j \in Jobs : Enter(j) \/ Verify(j) \/ Fail(j)
    \/ \E p, s \in Jobs : Need(p, s)
    \/ \E B \in SUBSET Jobs : Sweep(B)

DagSpec == DagInit /\ [][DagNext]_<<phase, needs>>
=============================================================================
