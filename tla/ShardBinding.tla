---------------------------- MODULE ShardBinding ----------------------------
(***************************************************************************)
(* Binding the shards of a plan to local programs (zkie-compiler           *)
(* src/shard_binding.rs, src/circuit_binding.rs), and handing them to the  *)
(* prover (zkie-prover src/halo2_cpu.rs new_with_boundary_commitments).    *)
(*                                                                         *)
(* Shards are bound and run one after the other: a shard gets the results  *)
(* of the ones before it.  A tensor is its length and a term that says how *)
(* it was computed.  Names of graph inputs are numbers, in their order.    *)
(***************************************************************************)
EXTENDS Dag

CONSTANTS
    BindSetups, \* [program, lens, weights, graph_inputs, graph_outputs, values, specs, layout, plan]
    Unbound

\* A register is its kind and its number or its name; a plan has shards, none of them empty.
RegisterIn(r) == r = <<r[1], r[2]>> /\ r[1] \in {"graph", "weight", "virtual"} /\ (r[1] # "weight" => r[2] \in Nat)
ASSUME BindingAssumption ==
    \A b \in BindSetups :
        /\ b.program \in Seq(ToSet(b.program)) /\ b.graph_inputs \in Seq(ToSet(b.graph_inputs))
        /\ \A j \in DOMAIN b.program :
            b.program[j].inputs \in Seq(ToSet(b.program[j].inputs)) /\ \A r \in ToSet(b.program[j].inputs) : RegisterIn(r)
        /\ \A name \in DOMAIN b.graph_outputs : RegisterIn(b.graph_outputs[name])
        /\ b.specs \in Seq([start : Nat, end : Nat]) /\ b.specs # <<>> /\ \A s \in DOMAIN b.specs : b.specs[s].start < b.specs[s].end

VARIABLES
    binding,   \* never changes
    bound,   \* the BoundShardProgram of each shard, or Unbound
    results, \* the results of the shards that have run: from virtual registers to tensors
    built    \* the shards the prover has accepted

bindVars == <<binding, bound, results, built>>

TermTensor(term, len) == [term |-> term, len |-> len]
BoundShards == DOMAIN binding.specs
dag == build_dag(binding.program, binding.specs)
PositionIn(sequence, element) == CHOOSE p \in DOMAIN sequence : sequence[p] = element
Mapped(sequence, Op(_)) == [p \in DOMAIN sequence |-> Op(sequence[p])]

-----------------------------------------------------------------------------
(* Binding *)

\* register_key: graph inputs by name, then virtual registers by index.
register_key(r) == <<IF r[1] = "graph" THEN 0 ELSE 1, r[2]>>
Before(r1, r2) ==
    LET k1 == register_key(r1)  k2 == register_key(r2) IN k1[1] < k2[1] \/ (k1[1] = k2[1] /\ k1[2] < k2[2])
Sorted(registers) == Ordered([r \in registers |-> {q \in registers : Before(q, r)}])

\* BoundaryLayout::new, of a sequence of BoundaryTensorSpec::flat.
BoundaryLayout(specs) ==
    /\ \A p \in DOMAIN specs : specs[p].count > 0 /\ specs[p].register[1] # "weight"
    /\ \A p, q \in DOMAIN specs : specs[p].register = specs[q].register => p = q
Declared(register) == {p \in DOMAIN binding.layout : binding.layout[p].register = register}
element_count(register) == binding.layout[PositionIn(Mapped(binding.layout, LAMBDA spec : spec.register), register)].count

\* What has to fit before a shard is looked at: no forward reference, and the plan is of
\* this program and layout, with the edges build_dag finds again.
PlanFits ==
    /\ OnlyPrior(binding.program)
    /\ binding.plan.program = binding.program /\ binding.plan.layout = binding.layout
    /\ dag.ok /\ binding.plan.edges = dag.edges

\* Variant for testing DescriptorsLink: the edges of the register, whoever reads it.
descriptor_all_readers(s, register, producer_side, names) ==
    [register |-> register, count |-> element_count(register),
     edge_ids |-> {e \in dag.edges : e.register = register}, graph_output_names |-> names]

\* descriptor: the edges of one register on one side.
descriptor(s, register, producer_side, names) ==
    [register |-> register, count |-> element_count(register),
     edge_ids |-> {e \in dag.edges : e.register = register /\ s = (IF producer_side THEN e.producer ELSE e.consumer)},
     graph_output_names |-> names]

External(s) == Sorted(ToSet(boundary_register_order(binding.program, binding.specs[s])))
WeightsOf(s) == weight_order(binding.program, binding.specs[s])

\* Variant for testing BoundComputesProgram: inputs are numbered by first use, their values are not.
local_register_first_use(s, r) ==
    CASE r[1] = "weight" -> <<"weight", PositionIn(WeightsOf(s), r) - 1>>
      [] IsVirtual(r) /\ InRange(binding.specs[s], r[2]) -> <<"virtual", r[2] - binding.specs[s].start>>
      [] OTHER -> <<"input", PositionIn(boundary_register_order(binding.program, binding.specs[s]), r) - 1>>

\* A register as the local program names it, counted from 0.
local_register(s, r) ==
    CASE r[1] = "weight" -> <<"weight", PositionIn(WeightsOf(s), r) - 1>>
      [] IsVirtual(r) /\ InRange(binding.specs[s], r[2]) -> <<"virtual", r[2] - binding.specs[s].start>>
      [] OTHER -> <<"input", PositionIn(External(s), r) - 1>>

LocalInstructions(s) ==
    [j \in 1..(binding.specs[s].end - binding.specs[s].start) |->
        LET i == binding.specs[s].start + j - 1
        IN  [op |-> i, inputs |-> Mapped(InstructionAt(binding.program, i).inputs, LAMBDA r : local_register(s, r))]]

ValueOf(register, incoming) ==
    IF register[1] = "graph" THEN binding.values[register[2]] ELSE incoming[register]

OutputNames(register) == {name \in DOMAIN binding.graph_outputs : binding.graph_outputs[name] = register}

\* What others read, and the graph's outputs in the range.
Outputs(s) ==
    Sorted(ToSet(dag.shards[s].outputs)
           \cup {r \in {binding.graph_outputs[name] : name \in DOMAIN binding.graph_outputs} : InRange(binding.specs[s], r[2])})

\* What bind_shard_program asks of the values it is given.
InputsFit(s, incoming) ==
    /\ DOMAIN incoming = ToSet(dag.shards[s].inputs)
    /\ \A r \in ToSet(External(s)) :
        /\ Declared(r) # {}
        /\ r[1] = "graph" => r[2] \in DOMAIN binding.values
        /\ ValueOf(r, incoming).len = element_count(r)

OutputsFit(s) ==
    /\ \A name \in DOMAIN binding.graph_outputs :
        IsVirtual(binding.graph_outputs[name]) /\ binding.graph_outputs[name][2] < Len(binding.program)
    /\ \A r \in ToSet(Outputs(s)) : Declared(r) # {}

BoundShardProgram(s, incoming) ==
    [instructions |-> LocalInstructions(s),
     input_values |-> Mapped(External(s), LAMBDA r : ValueOf(r, incoming)),
     weight_values |-> Mapped(WeightsOf(s), LAMBDA r : binding.weights[r[2]]),
     input_boundaries |-> Mapped(External(s), LAMBDA r : descriptor(s, r, FALSE, {})),
     output_boundaries |-> Mapped(Outputs(s), LAMBDA r : descriptor(s, r, TRUE, OutputNames(r)))]

-----------------------------------------------------------------------------
(* Running and building *)

Step(i, operands) == TermTensor(<<i, Mapped(operands, LAMBDA t : t.term)>>, binding.lens[i + 1])

\* The results of a list of instructions.  An operand is given, or an earlier result.
Given(tensor) == <<"given", tensor>>
Earlier(k) == <<"earlier", k>>
Evaluated(calls) ==
    LET done[j \in DOMAIN calls] ==
        Step(calls[j].op, Mapped(calls[j].operands, LAMBDA o : IF o[1] = "given" THEN o[2] ELSE done[o[2] + 1]))
    IN  done

\* What the assembler computes from a local program, in order.
Computed(instructions, inputs, weights) ==
    Evaluated([j \in DOMAIN instructions |->
        [op |-> instructions[j].op,
         operands |-> Mapped(instructions[j].inputs, LAMBDA r :
            CASE r[1] = "input" -> Given(inputs[r[2] + 1])
              [] r[1] = "weight" -> Given(weights[r[2] + 1])
              [] OTHER -> Earlier(r[2]))]])

\* to_assembler_program: the whole program, its graph inputs in the order they are listed.
resolve_register(r) ==
    CASE r[1] = "graph" -> <<"input", PositionIn(binding.graph_inputs, r[2]) - 1>>
      [] r[1] = "weight" -> <<"weight", PositionIn(weight_order(binding.program, [start |-> 0, end |-> Len(binding.program)]), r) - 1>>
      [] OTHER -> r
Resolvable ==
    /\ \A p \in DOMAIN binding.graph_inputs : binding.graph_inputs[p] \in DOMAIN binding.values
    /\ \A i \in Indices(binding.program) : \A r \in ToSet(InstructionAt(binding.program, i).inputs) :
        r[1] = "graph" => \E p \in DOMAIN binding.graph_inputs : binding.graph_inputs[p] = r[2]

to_assembler_program ==
    [instructions |-> [j \in DOMAIN binding.program |->
        [op |-> j - 1, inputs |-> Mapped(binding.program[j].inputs, resolve_register)]],
     input_values |-> Mapped(binding.graph_inputs, LAMBDA name : binding.values[name]),
     weight_values |-> Mapped(weight_order(binding.program, [start |-> 0, end |-> Len(binding.program)]),
                              LAMBDA r : binding.weights[r[2]])]

\* validate_assembler_template of a witness backend for the shard: by first use.
template_register(s, r) ==
    LET order == boundary_register_order(binding.program, binding.specs[s])
    IN  CASE r[1] = "weight" -> <<"weight", PositionIn(WeightsOf(s), r) - 1>>
          [] IsVirtual(r) /\ InRange(binding.specs[s], r[2]) -> <<"virtual", r[2] - binding.specs[s].start>>
          [] OTHER -> <<"input", PositionIn(order, r) - 1>>

ShardTemplateAccepted(s) ==
    \A j \in DOMAIN bound[s].instructions :
        bound[s].instructions[j].inputs =
            Mapped(InstructionAt(binding.program, bound[s].instructions[j].op).inputs, LAMBDA r : template_register(s, r))

\* The lengths the witness backend was configured with are those of the layout.
LengthsAccepted(s) ==
    LET order == boundary_register_order(binding.program, binding.specs[s])
    IN  \A p \in DOMAIN order : bound[s].input_values[p].len = element_count(order[p])

LocalOutputs(s) == Mapped(bound[s].output_boundaries, LAMBDA d : d.register[2] - binding.specs[s].start)

\* AssemblerCircuit::new_with_boundary_commitments.
CircuitAccepted(s) ==
    /\ Len(bound[s].input_boundaries) = Len(bound[s].input_values)
    /\ \A p \in DOMAIN bound[s].input_values : bound[s].input_boundaries[p].count = bound[s].input_values[p].len
    /\ \A p \in 1..(Len(LocalOutputs(s)) - 1) : LocalOutputs(s)[p] < LocalOutputs(s)[p + 1]

-----------------------------------------------------------------------------
BindInit ==
    /\ binding \in BindSetups
    /\ bound = [s \in BoundShards |-> Unbound] /\ results = <<>> /\ built = {}

bind_shard_program(s, incoming) ==
    /\ bound[s] = Unbound /\ BoundaryLayout(binding.layout) /\ PlanFits /\ InputsFit(s, incoming) /\ OutputsFit(s)
    /\ bound' = [bound EXCEPT ![s] = BoundShardProgram(s, incoming)]
    /\ UNCHANGED <<binding, results, built>>

\* The witness generator runs the shard; its results can be handed on.
run(s) ==
    /\ bound[s] # Unbound /\ Virtual(binding.specs[s].start) \notin DOMAIN results
    /\ LET own == Computed(bound[s].instructions, bound[s].input_values, bound[s].weight_values)
           registers == {Virtual(i) : i \in {i \in Indices(binding.program) : InRange(binding.specs[s], i)}}
       IN  results' = [r \in DOMAIN results \cup registers |->
                        IF r \in registers THEN own[r[2] - binding.specs[s].start + 1] ELSE results[r]]
    /\ UNCHANGED <<binding, bound, built>>

new_with_boundary_commitments(s) ==
    /\ bound[s] # Unbound /\ s \notin built
    /\ ShardTemplateAccepted(s) /\ LengthsAccepted(s) /\ CircuitAccepted(s)
    /\ built' = built \cup {s}
    /\ UNCHANGED <<binding, bound, results>>

BindNext ==
    \E s \in BoundShards :
        \/ \E given \in SUBSET DOMAIN results : bind_shard_program(s, [r \in given |-> results[r]])
        \/ run(s)
        \/ new_with_boundary_commitments(s)

BindSpec == BindInit /\ [][BindNext]_bindVars

-----------------------------------------------------------------------------
(* Properties *)

\* What the program computes, instruction by instruction.
ProgramResults ==
    Evaluated([j \in DOMAIN binding.program |->
        [op |-> j - 1,
         operands |-> Mapped(binding.program[j].inputs, LAMBDA r :
            CASE r[1] = "graph" -> Given(binding.values[r[2]])
              [] r[1] = "weight" -> Given(binding.weights[r[2]])
              [] OTHER -> Earlier(r[2]))]])

\* bind_shard_program: the shards, run one after the other on each other's
\* results, compute what the program computes.
BoundComputesProgram == \A r \in DOMAIN results : results[r] = ProgramResults[r[2] + 1]

\* to_assembler_program computes the same, whatever the order of the graph inputs.
WholeAgrees ==
    OnlyPrior(binding.program) /\ Resolvable =>
        LET whole == to_assembler_program
        IN  Computed(whole.instructions, whole.input_values, whole.weight_values) = ProgramResults

\* The descriptors of one side that claim an edge.
Claiming(side, edge) ==
    UNION {{[shard |-> s, register |-> bound[s][side][p].register, count |-> bound[s][side][p].count] :
                p \in {p \in DOMAIN bound[s][side] : edge \in bound[s][side][p].edge_ids}} :
           s \in {s \in BoundShards : bound[s] # Unbound}}

\* descriptor: an aggregate closes an edge by comparing what its two ends claim.
\* No shard but the producer and the consumer claims an edge; once they are
\* bound they do, for the same register and the same number of elements.
DescriptorsLink ==
    \A edge \in dag.edges :
        /\ \A c \in Claiming("output_boundaries", edge) : c.shard = edge.producer
        /\ \A c \in Claiming("input_boundaries", edge) : c.shard = edge.consumer
        /\ bound[edge.producer] # Unbound /\ bound[edge.consumer] # Unbound =>
            \E p \in DOMAIN binding.layout :
                LET spec == binding.layout[p]
                IN  /\ spec.register = edge.register /\ spec.count > 0
                    /\ Claiming("output_boundaries", edge) = {[shard |-> edge.producer, register |-> edge.register, count |-> spec.count]}
                    /\ Claiming("input_boundaries", edge) = {[shard |-> edge.consumer, register |-> edge.register, count |-> spec.count]}

\* The graph's outputs are claimed once each, by the shard that computes them.
OutputsNamedOnce ==
    (\A s \in BoundShards : bound[s] # Unbound) =>
        \A name \in DOMAIN binding.graph_outputs :
            LET naming(s) == {p \in DOMAIN bound[s].output_boundaries : name \in bound[s].output_boundaries[p].graph_output_names}
            IN  \E s \in BoundShards :
                    /\ \E p \in DOMAIN bound[s].output_boundaries :
                        naming(s) = {p} /\ bound[s].output_boundaries[p].register = binding.graph_outputs[name]
                    /\ \A t \in BoundShards \ {s} : naming(t) = {}

\* leaf_statement pairs descriptors with the values of the witness program by
\* position: where the prover was built, both list the same registers.
BuiltStatementFits ==
    \A s \in built :
        /\ Mapped(bound[s].input_boundaries, LAMBDA d : d.register) = boundary_register_order(binding.program, binding.specs[s])
        /\ Mapped(bound[s].output_boundaries, LAMBDA d : d.register)
             = ByIndex(ToSet(dag.shards[s].outputs)
                       \cup {r \in {binding.graph_outputs[n] : n \in DOMAIN binding.graph_outputs} : InRange(binding.specs[s], r[2])})

\* The local programs, and the whole one, compute what was compiled.
BindingSound == BoundComputesProgram /\ WholeAgrees

\* The leaves' boundaries fit together and fit the values that fill them.
BoundariesLink == DescriptorsLink /\ OutputsNamedOnce /\ BuiltStatementFits

\* "Map every external graph input and incoming cross-shard virtual value to a
\* stable local input index sorted by canonical register ID": the prover reads a
\* bound shard with that numbering, so it accepts each one.
BoundTemplateAccepted ==
    \A s \in BoundShards : bound[s] # Unbound => ShardTemplateAccepted(s) /\ LengthsAccepted(s) /\ CircuitAccepted(s)
=============================================================================
