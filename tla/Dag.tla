-------------------------------- MODULE Dag --------------------------------
(***************************************************************************)
(* Shards and the edges between them (zkie-compiler src/dag/model.rs).     *)
(*                                                                         *)
(* A register is <<"graph", name>>, <<"weight", name>> or <<"virtual",     *)
(* index>>.  A program is a sequence of instructions with their inputs; as *)
(* in the code, instruction 0 is the first and Virtual(i) is the result of *)
(* instruction i.  A spec is a range [start, end) of instructions.         *)
(***************************************************************************)
EXTENDS Integers, SequencesExt, FiniteSetsExt

Virtual(i) == <<"virtual", i>>
IsVirtual(register) == register[1] = "virtual"
InstructionAt(program, i) == program[i + 1]
Indices(program) == 0..(Len(program) - 1)
\* The instructions whose results an instruction reads.
Reads(program, i) ==
    {r[2] : r \in {r \in ToSet(InstructionAt(program, i).inputs) : IsVirtual(r)}}

InRange(range, i) == range.start <= i /\ i < range.end
shard_of(specs, i) == CHOOSE s \in DOMAIN specs : InRange(specs[s], i)

Contiguous(program, specs) ==
    /\ specs # <<>>
    /\ \A s \in DOMAIN specs : specs[s].start = IF s = 1 THEN 0 ELSE specs[s - 1].end
    /\ specs[Len(specs)].end = Len(program)

\* validate_virtual_references: no instruction reads itself or a later one.
OnlyPrior(program) == \A i \in Indices(program) : \A p \in Reads(program, i) : p < i

\* The registers that the instructions of a range read, in reading order.
UsesIn(program, range) ==
    FlattenSeq([j \in 1..(range.end - range.start) |-> InstructionAt(program, range.start + j - 1).inputs])

\* A set as a list, from what comes before each of its elements: the k-th has k - 1 before it.
Ordered(before) ==
    [k \in 1..Cardinality(DOMAIN before) |-> CHOOSE x \in DOMAIN before : Cardinality(before[x]) = k - 1]

\* The wanted ones among some uses, each at its first use.
FirstUses(uses, wanted) ==
    LET first == {p \in DOMAIN uses : uses[p] \in wanted /\ \A q \in 1..(p - 1) : uses[q] # uses[p]}
        positions == Ordered([p \in first |-> {q \in first : q < p}])
    IN  [p \in DOMAIN positions |-> uses[positions[p]]]

\* The registers a range reads that are neither weights nor its own results.
boundary_register_order(program, range) ==
    LET uses == UsesIn(program, range)
    IN  FirstUses(uses, {r \in ToSet(uses) : r[1] # "weight" /\ ~(IsVirtual(r) /\ InRange(range, r[2]))})
weight_order(program, range) ==
    LET uses == UsesIn(program, range)
    IN  FirstUses(uses, {r \in ToSet(uses) : r[1] = "weight"})

consumers_of(program, specs, p) ==
    {shard_of(specs, i) : i \in {i \in Indices(program) : p \in Reads(program, i)}}
        \ {shard_of(specs, p)}

Kind(specs, p, consumers) ==
    IF consumers = {shard_of(specs, p) + 1} THEN "Sequential" ELSE "Broadcast"

Edges(program, specs) ==
    UNION {LET consumers == consumers_of(program, specs, p)
           IN  {[producer |-> shard_of(specs, p), consumer |-> c, register |-> Virtual(p),
                 kind |-> Kind(specs, p, consumers)] : c \in consumers} : p \in Indices(program)}

\* The shards, with their inputs and outputs in the order of the producers.
ByIndex(registers) == Ordered([r \in registers |-> {q \in registers : q[2] < r[2]}])
Shards(program, specs) ==
    [s \in DOMAIN specs |->
        [range |-> specs[s],
         inputs |-> ByIndex({e.register : e \in {e \in Edges(program, specs) : e.consumer = s}}),
         outputs |-> ByIndex({e.register : e \in {e \in Edges(program, specs) : e.producer = s}})]]

build_dag(program, specs) ==
    IF Contiguous(program, specs) /\ OnlyPrior(program)
    THEN [ok |-> TRUE, shards |-> Shards(program, specs), edges |-> Edges(program, specs)]
    ELSE [ok |-> FALSE, shards |-> <<>>, edges |-> {}]
=============================================================================
