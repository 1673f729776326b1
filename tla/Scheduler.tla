------------------------------ MODULE Scheduler ------------------------------
(***************************************************************************)
(* The resource-aware scheduler of zkie-runtime (src/scheduler.rs), the    *)
(* resource arithmetic it rests on (zkie-types, src/resource.rs) and the   *)
(* calibrated reservation (src/estimate.rs).                               *)
(*                                                                         *)
(* The scheduler is called again and again while jobs become ready, run    *)
(* and finish.  Time is kept as the age of a ready job, which counts up to *)
(* the aging threshold, and the order of ready_since and id is the order   *)
(* of the places of the ready jobs: the code compares nothing else.        *)
(***************************************************************************)
EXTENDS Integers, FiniteSetsExt, Functions

CONSTANTS
    Jobs,       \* job identifiers, integers ordered as the code orders them
    Static,     \* the static ResourceRequest of each job
    Host,       \* what the machine has: the caller offers the part that is free
    Capacity,   \* SchedulerConfig.capacity
    Aging,      \* SchedulerConfig.aging_seconds
    Scale,      \* SCALE of fit_score, small
    MaxRam,     \* u64::MAX of a RAM amount, small
    Peaks       \* the peaks a finished attempt may report

VARIABLES
    place,      \* the places of the Ready jobs by (ready_since, job_id)
    age,        \* seconds since a job became ready, up to Aging
    reserved,    \* the reserved request of each running job
    peak,       \* the largest observed peak of a job, -1 for none
    decision    \* the last SchedulerDecision

schedVars == <<place, age, reserved, peak, decision>>

waiting == DOMAIN place
Running == DOMAIN reserved

Resources == [cpu : Nat, ram : Nat, gpu : Nat, vram : Nat]

-----------------------------------------------------------------------------
(* resource.rs *)

validate_gpu_resources(r) == (r.gpu = 0) <=> (r.vram = 0)
validate_request(r) == r.cpu # 0 /\ validate_gpu_resources(r)

ASSUME JobsAssumption == IsFiniteSet(Jobs) /\ Jobs \subseteq Nat \ {0} /\ Peaks \subseteq Nat
ASSUME RequestsValid == Static \in [Jobs -> Resources] /\ \A j \in Jobs : validate_request(Static[j])
ASSUME CapacityValid ==
    /\ Capacity \in Resources /\ Host \in Resources
    /\ validate_gpu_resources(Capacity) /\ validate_gpu_resources(Host)
ASSUME AgingAssumption == Aging \in Nat /\ Scale \in Nat

\* Variant for testing NeverOvercommitted: the GPUs are not compared.
FitsWithoutGpus(c, r) == c.cpu >= r.cpu /\ c.ram >= r.ram /\ c.vram >= r.vram

fits(c, r) == c.cpu >= r.cpu /\ c.ram >= r.ram /\ c.gpu >= r.gpu /\ c.vram >= r.vram

checked_reserve(c, r) ==
    [cpu |-> c.cpu - r.cpu, ram |-> c.ram - r.ram, gpu |-> c.gpu - r.gpu,
     vram |-> IF c.gpu - r.gpu # 0 THEN c.vram ELSE 0]

-----------------------------------------------------------------------------
(* estimate.rs *)

\* The RAM of the largest observed peak and 15 percent, rounded up.
CalibratedRam(p) == (p * 115 + 99) \div 100
calibrated_reservation(j) ==
    [Static[j] EXCEPT !.ram = IF peak[j] = -1 THEN @ ELSE IF CalibratedRam(peak[j]) > @ THEN CalibratedRam(peak[j]) ELSE @]

\* EstimateError::Overflow: the amount has no representation.
Representable(j) == peak[j] = -1 \/ CalibratedRam(peak[j]) <= MaxRam

-----------------------------------------------------------------------------
(* scheduler.rs *)

normalized_leftover(leftover, capacity) ==
    IF capacity = 0 THEN 0 ELSE (leftover * Scale) \div capacity

fit_score(r, c) ==
    normalized_leftover(c.ram - r.ram, c.ram) + normalized_leftover(c.cpu - r.cpu, c.cpu)
      + (IF c.gpu = 0 THEN 0
         ELSE normalized_leftover(c.gpu - r.gpu, c.gpu)
                + (IF r.gpu = 0 THEN 0 ELSE normalized_leftover(c.vram - r.vram, c.vram)))

\* compare_fit: the least score, then the first place.
BestFit(eligible, c) ==
    CHOOSE j \in eligible :
        /\ fits(c, calibrated_reservation(j))
        /\ \A k \in eligible : fits(c, calibrated_reservation(k)) =>
            LET sj == fit_score(calibrated_reservation(j), c)
                sk == fit_score(calibrated_reservation(k), c)
            IN  sj < sk \/ (sj = sk /\ place[j] <= place[k])

\* A turn of the loop of decide, and the loop: candidates by best fit until none fits.
Packings ==
    [eligible : SUBSET Jobs, selected : SUBSET Jobs, remaining : [cpu : Int, ram : Int, gpu : Int, vram : Int]]
pack_turn[d \in Packings] ==
    IF \E j \in d.eligible : fits(d.remaining, calibrated_reservation(j))
    THEN LET best == BestFit(d.eligible, d.remaining)
         IN  [eligible |-> d.eligible \ {best}, selected |-> d.selected \cup {best},
              remaining |-> checked_reserve(d.remaining, calibrated_reservation(best))]
    ELSE d

pack(eligible, available, selected) ==
    LET after[n \in 0..Cardinality(eligible)] ==
            IF n = 0 THEN [eligible |-> eligible, selected |-> selected, remaining |-> available]
            ELSE pack_turn[after[n - 1]]
        end == after[Cardinality(eligible)]
    IN  [selected |-> end.selected, remaining |-> end.remaining, reserved_for |-> 0]

\* What is offered, limited to the configured capacity.
Least(a, b) == IF a <= b THEN a ELSE b
Available(offer) ==
    LET gpu == Least(offer.gpu, Capacity.gpu)
    IN  [cpu |-> Least(offer.cpu, Capacity.cpu), ram |-> Least(offer.ram, Capacity.ram),
         gpu |-> gpu, vram |-> IF gpu = 0 THEN 0 ELSE Least(offer.vram, Capacity.vram)]

\* The first candidate that waits long enough and could ever be run.
IsAged(j) == age[j] >= Aging /\ fits(Capacity, calibrated_reservation(j))
FirstAged == CHOOSE j \in waiting : IsAged(j) /\ \A k \in waiting : IsAged(k) => place[j] <= place[k]

\* Variant for testing NoStarvation: best fit alone.
DecideByFit(available) == pack(waiting, available, {})

\* An aged job is taken first; while it does not fit nothing else is selected.
Decide(available) ==
    LET request == calibrated_reservation(FirstAged)
    IN  IF \A j \in waiting : ~IsAged(j) THEN pack(waiting, available, {})
        ELSE IF ~fits(available, request)
        THEN [selected |-> {}, remaining |-> available, reserved_for |-> FirstAged]
        ELSE pack(waiting \ {FirstAged}, checked_reserve(available, request), {FirstAged})

-----------------------------------------------------------------------------
Total(S, field) == FoldFunctionOnSet(+, 0, [j \in Running |-> reserved[j][field]], S)

\* The free part of the machine, as the caller keeps account of it.
Free ==
    LET gpu == Host.gpu - Total(Running, "gpu")
    IN  [cpu |-> Host.cpu - Total(Running, "cpu"), ram |-> Host.ram - Total(Running, "ram"),
         gpu |-> gpu, vram |-> IF gpu = 0 THEN 0 ELSE Host.vram]

SchedInit ==
    /\ place = <<>>
    /\ age = [j \in Jobs |-> 0]
    /\ reserved = <<>>
    /\ peak = [j \in Jobs |-> -1]
    /\ decision = [selected |-> {}, remaining |-> Host, reserved_for |-> 0]

\* A job becomes Ready, now: behind the older ones, by id among its equals.
become_ready(j) ==
    /\ j \notin waiting \cup Running
    /\ Representable(j)
    /\ LET ahead == {k \in waiting : age[k] > 0 \/ k < j}
       IN  place' = [k \in waiting \cup {j} |->
                        IF k = j THEN Cardinality(ahead) + 1
                        ELSE IF k \in ahead THEN place[k] ELSE place[k] + 1]
    /\ UNCHANGED <<age, reserved, peak, decision>>

\* A second passes.
tick ==
    /\ \E j \in waiting : age[j] < Aging
    /\ age' = [j \in Jobs |-> IF j \in waiting THEN Least(age[j] + 1, Aging) ELSE age[j]]
    /\ UNCHANGED <<place, reserved, peak, decision>>

\* The selected jobs are started with what was reserved for them.
decide ==
    /\ waiting # {}
    /\ \E d \in {Decide(Available(Free))} :
           /\ decision' = d
           /\ place' = [j \in waiting \ d.selected |-> Cardinality({k \in waiting \ d.selected : place[k] <= place[j]})]
           /\ reserved' = [j \in Running \cup d.selected |->
                            IF j \in Running THEN reserved[j] ELSE calibrated_reservation(j)]
           /\ age' = [j \in Jobs |-> IF j \in d.selected THEN 0 ELSE age[j]]
    /\ UNCHANGED peak

\* decide_with_memory while the monitor does not admit: nothing is selected.
decide_frozen ==
    /\ waiting # {}
    /\ decision' = [selected |-> {}, remaining |-> Free, reserved_for |-> 0]
    /\ UNCHANGED <<place, age, reserved, peak>>

\* An attempt ends and its peak is recorded.
finish(j) ==
    /\ j \in Running
    /\ reserved' = [k \in Running \ {j} |-> reserved[k]]
    /\ \E p \in Peaks : peak' = [peak EXCEPT ![j] = Max({@, p})]
    /\ UNCHANGED <<place, age, decision>>

SchedNext ==
    \/ \E j \in Jobs : become_ready(j)
    \/ tick
    \/ decide
    \/ decide_frozen
    \/ \E j \in Jobs : finish(j)

SchedSpec == SchedInit /\ [][SchedNext]_schedVars

\* The loop that calls the scheduler does not stop, memory is admitted again
\* and again, workers end and time passes.
SchedFairness ==
    /\ SF_schedVars(decide)
    /\ WF_schedVars(tick)
    /\ \A j \in Jobs : WF_schedVars(finish(j))

SchedFairSpec == SchedSpec /\ SchedFairness

-----------------------------------------------------------------------------
(* Properties *)

SchedTypeOK ==
    /\ waiting \subseteq Jobs /\ waiting \cap Running = {}
    /\ \A j \in waiting : place[j] \in Nat
    /\ age \in [Jobs -> 0..Aging]
    /\ Running \subseteq Jobs
    /\ peak \in [Jobs -> Peaks \cup {-1}]
    /\ decision.remaining \in Resources

\* Whatever sequence of decisions started them, the running jobs together never
\* have more than the machine has, nor a device memory no device has; one
\* decision never hands out more than the configured capacity.
NeverOvercommitted ==
    /\ \A field \in {"cpu", "ram", "gpu"} : Total(Running, field) <= Host[field]
    /\ \A j \in Running : reserved[j].vram <= Host.vram
    /\ \A field \in {"cpu", "ram", "gpu"} :
        Total(decision.selected \cap Running, field) <= Capacity[field]

\* What a decision leaves is again a valid capacity: devices and device memory
\* vanish together, so that the next request is compared with what is there.
RemainingValid == validate_gpu_resources(decision.remaining)

\* A decision that reserves for nobody leaves out only what no longer fits, and
\* one that reserves for an aged job selects nothing and has a job that the
\* machine can run but not now.
DecisionComplete ==
    [][decision' # decision /\ decide =>
        IF decision'.reserved_for = 0
        THEN \A j \in waiting' : ~fits(decision'.remaining, calibrated_reservation(j))
        ELSE /\ decision'.selected = {}
             /\ decision'.reserved_for \in waiting
             /\ Running # {} \/ ~fits(Host, calibrated_reservation(decision'.reserved_for))]_schedVars

\* A running job holds at least the memory any earlier attempt of it has used.
ReservationCoversPeak == \A j \in Running : reserved[j].ram >= peak[j]

\* A job the configuration can run is not starved by younger ones that fit
\* better, although they keep arriving.
NoStarvation ==
    \A j \in Jobs :
        (j \in waiting /\ fits(Available(Host), calibrated_reservation(j)))
            ~> (j \in Running)

\* decide over any sequence of arrivals and completions: reservations stay
\* within the machine, are valid, and cover what was observed.
ReservationsSound == SchedTypeOK /\ NeverOvercommitted /\ RemainingValid /\ ReservationCoversPeak

\* decide leaves out only what does not fit, and keeps nobody waiting for ever.
DecisionsFair == DecisionComplete /\ NoStarvation
=============================================================================
