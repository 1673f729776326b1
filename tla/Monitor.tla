------------------------------- MODULE Monitor -------------------------------
(***************************************************************************)
(* The memory monitor of zkie-runtime (src/monitor.rs): samples of the     *)
(* workers' process trees, the admission policy, and the termination of    *)
(* the newest attempt, beside worker processes that grow, shrink, exit and *)
(* may ignore SIGTERM.                                                     *)
(*                                                                         *)
(* The process table is any map of pids to parent pids: a snapshot read    *)
(* entry by entry while processes come and go may even contain a cycle.    *)
(***************************************************************************)
EXTENDS Integers, SequencesExt

CONSTANTS
    Pids,           \* process identifiers
    Attempts,       \* the attempts; an attempt's worker has the attempt's number as its pid
    Sizes,          \* the resident sizes of a process
    Admission,      \* MemoryLimits.admission_bytes
    HardLimit,      \* MemoryLimits.hard_limit_bytes
    BreachSamples,  \* HARD_BREACH_SAMPLES
    GracePolls      \* TERMINATION_GRACE_POLLS

ASSUME LimitsValid == Admission \in Nat \ {0} /\ HardLimit \in Nat /\ HardLimit > Admission
ASSUME PidsAssumption == IsFiniteSet(Pids) /\ Attempts \subseteq Pids /\ Pids \subseteq Nat \ {0}
ASSUME MonitorAssumption ==
    /\ Sizes \subseteq Nat /\ Sizes # {}
    /\ BreachSamples \in Nat \ {0} /\ GracePolls \in Nat

VARIABLES
    parent,    \* the parent pid of each process, 0 for none of Pids
    rss,       \* the resident bytes of each process, 0 once it is gone
    alive,     \* the processes that are there
    running,   \* the attempts the scheduler believes are running
    breaches,  \* AdmissionPolicy.consecutive_hard_breaches
    action,    \* the last MemoryAction
    pc,        \* "idle", "scan", or the signal just sent: "term", "kill"
    scan,      \* the local variables of descendant_resident_bytes
    target,    \* the attempt that is being terminated, 0 for none
    polls,     \* calls of is_alive since the signal
    outcome,   \* the last TerminationOutcome
    window     \* history: the last samples since one within the limit, or since a termination

processVars == <<parent, rss, alive>>
policyVars == <<breaches, action, window>>
terminationVars == <<target, polls, outcome>>
monitorVars == <<processVars, running, policyVars, pc, scan, terminationVars>>

NoScan == [stack |-> <<>>, seen |-> {}, total |-> 0, table |-> [p \in Pids |-> 0]]

MonitorInit ==
    /\ parent \in [Pids -> Pids \cup {0}]
    /\ rss = [p \in Pids |-> Min(Sizes)]
    /\ alive = Pids
    /\ running = Attempts
    /\ breaches = 0
    /\ action = "Admit"
    /\ pc = "idle"
    /\ scan = NoScan
    /\ target = 0
    /\ polls = 0
    /\ outcome = "none"
    /\ window = <<>>

-----------------------------------------------------------------------------
(* The processes *)

resize(p) ==
    /\ p \in alive
    /\ pc = "idle"
    /\ \E n \in Sizes \ {rss[p]} : rss' = [rss EXCEPT ![p] = n]
    /\ UNCHANGED <<parent, alive, running, policyVars, pc, scan, terminationVars>>

\* A process ends by itself, or by a signal: SIGTERM may be ignored.
exit(p) ==
    /\ p \in alive
    /\ alive' = alive \ {p}
    /\ rss' = [rss EXCEPT ![p] = 0]
    /\ UNCHANGED <<parent, running, policyVars, pc, scan, terminationVars>>

-----------------------------------------------------------------------------
(* ProcessTreeMonitor::sample *)

Children(pid) == {p \in Pids : parent[p] = pid}

\* The snapshot, and the roots on the stack.
sample ==
    /\ pc = "idle"
    /\ running # {}
    /\ \E stack \in SetToSeqs(running) :
        scan' = [stack |-> stack, seen |-> {}, total |-> 0, table |-> rss]
    /\ pc' = "scan"
    /\ UNCHANGED <<processVars, running, policyVars, terminationVars>>

\* One turn of the loop of descendant_resident_bytes.
descendant_resident_bytes ==
    LET pid == scan.stack[Len(scan.stack)]
        rest == Front(scan.stack)
    IN  /\ pc = "scan" /\ scan.stack # <<>>
        /\ IF pid \in scan.seen
           THEN scan' = [scan EXCEPT !.stack = rest]
           ELSE \E children \in SetToSeqs(Children(pid)) :
                scan' = [scan EXCEPT !.stack = rest \o children, !.seen = @ \cup {pid},
                                     !.total = @ + scan.table[pid]]
        /\ UNCHANGED <<processVars, running, policyVars, pc, terminationVars>>

\* Variant for testing TerminationJustified: a sample within the limit does not
\* reset the count.
ObserveWithoutReset(n) ==
    IF n > HardLimit
    THEN IF breaches + 1 >= BreachSamples
         THEN breaches' = 0 /\ action' = "TerminateNewest"
         ELSE breaches' = breaches + 1 /\ action' = "FreezeAdmission"
    ELSE /\ UNCHANGED breaches
         /\ action' = IF n > Admission THEN "FreezeAdmission" ELSE "Admit"

\* Variant for testing OverloadRelieved: the count starts again after every freeze.
ObserveForgetful(n) ==
    /\ breaches' = 0
    /\ action' = IF n > Admission THEN "FreezeAdmission" ELSE "Admit"

observe(n) ==
    IF n > HardLimit
    THEN IF breaches + 1 >= BreachSamples
         THEN breaches' = 0 /\ action' = "TerminateNewest"
         ELSE breaches' = breaches + 1 /\ action' = "FreezeAdmission"
    ELSE /\ breaches' = 0
         /\ action' = IF n > Admission THEN "FreezeAdmission" ELSE "Admit"

\* Attempts are numbered in the order of their start.
newest_attempt(attempts) == Max(attempts)

-----------------------------------------------------------------------------
(* terminate_attempt *)

Signal(attempt, name) == target' = attempt /\ pc' = name /\ polls' = 0

\* The scan is over: the policy decides, and the caller acts on TerminateNewest.
conclude ==
    /\ pc = "scan" /\ scan.stack = <<>>
    /\ observe(scan.total)
    /\ window' = IF scan.total <= HardLimit THEN <<>>
                 ELSE Append(IF Len(window) = BreachSamples THEN Tail(window) ELSE window, scan.total)
    /\ IF action' = "TerminateNewest" /\ running # {}
       THEN Signal(newest_attempt(running), "term")
       ELSE pc' = "idle" /\ UNCHANGED <<target, polls>>
    /\ scan' = NoScan
    /\ UNCHANGED <<processVars, running, outcome>>

Report(result) ==
    /\ outcome' = result
    /\ running' = running \ {target}
    /\ target' = 0
    /\ pc' = "idle"
    /\ polls' = 0
    /\ window' = <<>>
    /\ UNCHANGED <<processVars, breaches, action, scan>>

\* wait_for_exit: one look, then up to GracePolls more.
wait_for_exit ==
    /\ pc \in {"term", "kill"}
    /\ \/ /\ target \notin alive
          /\ Report(IF pc = "term" THEN "ExitedAfterTerminate" ELSE "ForcedKill")
       \/ /\ target \in alive /\ polls < GracePolls
          /\ polls' = polls + 1
          /\ UNCHANGED <<processVars, running, policyVars, pc, scan, target, outcome>>
       \/ /\ target \in alive /\ polls = GracePolls /\ pc = "term"
          /\ Signal(target, "kill")
          /\ UNCHANGED <<processVars, running, policyVars, scan, outcome>>
       \/ /\ target \in alive /\ polls = GracePolls /\ pc = "kill"
          /\ Report("DidNotExit")

\* The scheduler notices that a worker is gone.
reap(a) ==
    /\ pc = "idle" /\ a \in running /\ a \notin alive
    /\ running' = running \ {a}
    /\ UNCHANGED <<processVars, policyVars, pc, scan, terminationVars>>

-----------------------------------------------------------------------------
MonitorStep == sample \/ descendant_resident_bytes \/ conclude \/ wait_for_exit

MonitorNext ==
    \/ \E p \in Pids : resize(p) \/ exit(p)
    \/ MonitorStep
    \/ \E a \in Attempts : reap(a)

MonitorSpec == MonitorInit /\ [][MonitorNext]_monitorVars

\* The caller samples again and again.  No process has to exit.
MonitorFairness == WF_monitorVars(MonitorStep)

MonitorFairSpec == MonitorSpec /\ MonitorFairness

-----------------------------------------------------------------------------
(* Properties *)

MonitorTypeOK ==
    /\ parent \in [Pids -> Pids \cup {0}]
    /\ alive \subseteq Pids /\ running \subseteq Attempts
    /\ breaches \in 0..(BreachSamples - 1)
    /\ action \in {"Admit", "FreezeAdmission", "TerminateNewest"}
    /\ pc \in {"idle", "scan", "term", "kill"}
    /\ target \in Attempts \cup {0}
    /\ polls \in 0..GracePolls
    /\ outcome \in {"none", "ExitedAfterTerminate", "ForcedKill", "DidNotExit"}

\* The running workers and their descendants: the least set of pids that has
\* the workers and with each pid its children in the snapshot.
Closed(S) == running \subseteq S /\ \A p \in S : Children(p) \subseteq S
Descendants == {p \in Pids : \A S \in SUBSET Pids : Closed(S) => p \in S}

\* The sample is the memory of the running workers and all their descendants,
\* each pid once, in whatever order the stack is worked off and although the
\* snapshot may have a cycle.
CountedOnce ==
    (pc = "scan" /\ scan.stack = <<>>) =>
        scan.total = MapThenSumSet(LAMBDA p : scan.table[p], Descendants)

\* The scan of a snapshot ends, cycles or not.
ScanEnds == (pc = "scan") ~> (pc # "scan")

\* A worker is signalled only after the required number of samples in a row
\* above the hard limit, counted afresh after every sample within it and after
\* every termination, and only the newest running attempt is.
TerminationJustified ==
    pc \in {"term", "kill"} =>
        /\ Len(window) = BreachSamples
        /\ \A i \in DOMAIN window : window[i] > HardLimit
        /\ \A a \in running : a <= target

\* What terminate_attempt reports is so: an attempt reported as exited has no
\* process any more.
ReportTruthful ==
    [][outcome' # outcome /\ outcome' # "DidNotExit" => target \notin alive']_monitorVars

\* Memory that stays above the hard limit costs the newest attempt its life:
\* the monitor cannot freeze admission for ever and do nothing.
Overload == MapThenSumSet(LAMBDA p : rss[p], Descendants) > HardLimit
OverloadRelieved == []<>(~Overload \/ pc \in {"term", "kill"})

\* A sample is the workers' memory, and only samples justify a termination.
SamplesSound == MonitorTypeOK /\ CountedOnce /\ TerminationJustified

\* The monitor comes to an answer, answers overload, and reports what it did.
MonitorResponds == ScanEnds /\ OverloadRelieved /\ ReportTruthful
=============================================================================
