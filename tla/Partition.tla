----------------------------- MODULE Partition -----------------------------
(***************************************************************************)
(* The partition planner (zkie-compiler src/dag/partition.rs), and linking *)
(* the proofs of the shards it makes (src/dag/linker.rs, src/dag/          *)
(* prover.rs).                                                             *)
(*                                                                         *)
(* A shard grows instruction by instruction while what it costs fits the   *)
(* request, and is then cut at the best hint inside it.  The cost of a     *)
(* shard is given by a cost model, which need not be monotonic.            *)
(***************************************************************************)
EXTENDS Dag, Functions

CONSTANTS
    Programs,    \* the programs
    Costs,       \* instruction costs [ram, k]
    ShardCosts,  \* cost models: functions from ranges <<start, end>> to [ram, k]
    HintSets,    \* boundary hints: functions from boundaries to priorities
    Target,      \* target_shard_ram_bytes
    MaxK,        \* max_k
    Values       \* the values of registers

\* Programs are lists of instructions, and a hint lies between two of them.
ASSUME PartitionAssumption ==
    /\ \A p \in Programs : p \in Seq(ToSet(p))
    /\ \A h \in HintSets : DOMAIN h \subseteq Nat

VARIABLES
    program, costs, cost_model, hints,
    start, end,  \* the shard under construction
    ranges,      \* the shards so far
    plan_dag,    \* the result of build_dag
    witness,     \* what each shard was proved with, by register
    plan         \* "growing", "planned", "refused", "linked", "unlinked"

request == <<program, costs, cost_model, hints>>
planVars == <<program, costs, cost_model, hints, start, end, ranges, plan_dag, witness, plan>>

NoDag == [ok |-> FALSE, shards |-> <<>>, edges |-> {}]

\* What the instructions [s, e) need together, or what the cost model asks for
\* them as a shard, is more than was requested.
exceeds(instruction_costs, model, s, e) ==
    \/ FoldSet(LAMBDA i, sum : sum + instruction_costs[i + 1].ram, 0, s..(e - 1)) > Target
    \/ \E i \in s..(e - 1) : instruction_costs[i + 1].k > MaxK
    \/ model[<<s, e>>].ram > Target
    \/ model[<<s, e>>].k > MaxK
range_exceeds(s, e) == exceeds(costs, cost_model, s, e)

\* Variant for testing PlanningEnds: the hint the last shard was cut at counts again.
best_hint_again ==
    LET inside == {b \in DOMAIN hints : b >= start /\ b <= end}
    IN  {b \in inside : \A c \in inside : hints[b] > hints[c] \/ (hints[b] = hints[c] /\ b >= c)}

\* The hint inside the shard with the highest priority, the later on a tie.
best_hint ==
    LET inside == {b \in DOMAIN hints : b > start /\ b <= end}
    IN  {b \in inside : \A c \in inside : hints[b] > hints[c] \/ (hints[b] = hints[c] /\ b >= c)}

Refused ==
    \/ ~OnlyPrior(program)
    \/ \E b \in DOMAIN hints : b >= Len(program)

PlanInit ==
    /\ program \in Programs
    /\ costs \in [1..Len(program) -> Costs]
    /\ cost_model \in ShardCosts
    /\ hints \in HintSets
    /\ start = 0 /\ end = 0
    /\ ranges = <<>>
    /\ plan_dag = NoDag
    /\ witness = <<>>
    /\ plan = IF Refused THEN "refused" ELSE "growing"

\* The first instruction must fit alone.
begin_shard ==
    /\ plan = "growing" /\ end = start /\ start < Len(program)
    /\ IF range_exceeds(start, start + 1)
       THEN plan' = "refused" /\ UNCHANGED end
       ELSE end' = start + 1 /\ UNCHANGED plan
    /\ UNCHANGED <<request, start, ranges, plan_dag, witness>>

CanGrow == end < Len(program) /\ ~range_exceeds(start, end + 1)

grow_shard ==
    /\ plan = "growing" /\ end > start /\ CanGrow
    /\ end' = end + 1
    /\ UNCHANGED <<request, start, ranges, plan_dag, witness, plan>>

\* Variant for testing EveryInstructionOnce: growing resumes where it stopped,
\* not where the shard was cut.
close_shard_resume ==
    /\ plan = "growing" /\ end > start /\ ~CanGrow
    /\ LET hinted == end < Len(program) /\ best_hint # {}
           cut == IF hinted THEN CHOOSE b \in best_hint : TRUE ELSE end
       IN  ranges' = Append(ranges, [start |-> start, end |-> cut])
    /\ start' = end /\ UNCHANGED end
    /\ UNCHANGED <<request, plan_dag, witness, plan>>

close_shard ==
    /\ plan = "growing" /\ end > start /\ ~CanGrow
    /\ LET hinted == end < Len(program) /\ best_hint # {}
           cut == IF hinted THEN CHOOSE b \in best_hint : TRUE ELSE end
       IN  IF cut <= start
           THEN plan' = "refused" /\ UNCHANGED <<start, end, ranges>>
           ELSE /\ ranges' = Append(ranges, [start |-> start, end |-> cut])
                /\ start' = cut /\ end' = cut
                /\ UNCHANGED plan
    /\ UNCHANGED <<request, plan_dag, witness>>

validate_dag(d) ==
    /\ FoldFunction(+, 0, [s \in DOMAIN d.shards |-> d.shards[s].range.end - d.shards[s].range.start]) = Len(program)
    /\ \A e \in d.edges : e.producer < e.consumer /\ e.consumer <= Len(d.shards)

finish_plan ==
    /\ plan = "growing" /\ start = Len(program)
    /\ \E d \in {build_dag(program, ranges)} :
        /\ plan_dag' = d
        /\ plan' = IF d.ok /\ validate_dag(d) THEN "planned" ELSE "refused"
    /\ UNCHANGED <<request, start, end, ranges, witness>>

-----------------------------------------------------------------------------
(* Proofs of shards *)

Boundary(s) == ToSet(plan_dag.shards[s].inputs) \cup ToSet(plan_dag.shards[s].outputs)

\* The shards are proved independently, each with a witness of its own.
prove ==
    /\ plan = "planned" /\ Len(witness) < Len(plan_dag.shards)
    /\ \E w \in [Boundary(Len(witness) + 1) -> Values] : witness' = Append(witness, w)
    /\ UNCHANGED <<request, start, end, ranges, plan_dag, plan>>

\* Variant for testing LinkedMeansConsistent: only hand-offs are compared.
EdgesMatchHandoffs ==
    \A e \in plan_dag.edges : e.kind = "Sequential" => witness[e.producer][e.register] = witness[e.consumer][e.register]

\* Commitments are equal when the values are.
EdgesMatch == \A e \in plan_dag.edges : witness[e.producer][e.register] = witness[e.consumer][e.register]

link ==
    /\ plan = "planned" /\ Len(witness) = Len(plan_dag.shards)
    /\ plan' = IF EdgesMatch THEN "linked" ELSE "unlinked"
    /\ UNCHANGED <<request, start, end, ranges, plan_dag, witness>>

PlanNext == begin_shard \/ grow_shard \/ close_shard \/ finish_plan \/ prove \/ link

PlanSpec == PlanInit /\ [][PlanNext]_planVars /\ WF_planVars(PlanNext)

-----------------------------------------------------------------------------
(* Properties *)

Planned == plan \in {"planned", "linked", "unlinked"}

\* The shards cover what was planned so far without gap or overlap, and none
\* is empty, although growing overshoots what a hint then cuts off.
EveryInstructionOnce ==
    /\ \A i \in Indices(program) :
        Cardinality({s \in DOMAIN ranges : InRange(ranges[s], i)}) = IF i < start THEN 1 ELSE 0
    /\ \A s \in DOMAIN ranges : ranges[s].start < ranges[s].end
    /\ Planned => start = Len(program)

\* Every shard of a plan fits the request, also when a hint cut it short of
\* what was accepted and a shorter shard may cost more.
ShardsFit ==
    \A s \in DOMAIN ranges : ~range_exceeds(ranges[s].start, ranges[s].end)

\* The DAG's edges are exactly the uses of a register in another shard than
\* its producer's, and every shard has each register at most once on a side.
EdgesExact ==
    Planned =>
        /\ {<<e.producer, e.consumer, e.register>> : e \in plan_dag.edges} =
               {<<shard_of(ranges, u[1]), shard_of(ranges, u[2]), Virtual(u[1])>> :
                   u \in {v \in Indices(program) \X Indices(program) :
                       v[1] \in Reads(program, v[2]) /\ shard_of(ranges, v[1]) # shard_of(ranges, v[2])}}
        /\ \A s \in DOMAIN plan_dag.shards :
               IsInjective(plan_dag.shards[s].inputs) /\ IsInjective(plan_dag.shards[s].outputs)

\* Linked proofs are about one run of the program: no register has two values,
\* in whichever shards it occurs.
LinkedMeansConsistent ==
    plan = "linked" =>
        \A s, t \in DOMAIN witness : \A r \in Boundary(s) \cap Boundary(t) : witness[s][r] = witness[t][r]

\* Planning ends: a plan is refused only for a reason of the request, or
\* because an instruction does not fit a shard of its own.
PlanningEnds ==
    <>(Planned \/ (plan = "refused" /\ (Refused \/ (start < Len(program) /\ range_exceeds(start, start + 1)))))

\* plan_partition: the shards are a partition of the program that fits the
\* request, and the DAG has exactly the edges between them.
PlanSound == EveryInstructionOnce /\ ShardsFit /\ EdgesExact
=============================================================================
