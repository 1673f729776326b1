------------------------------ MODULE Witness ------------------------------
(***************************************************************************)
(* The CPU witness generator (zkie-prover src/witness_cpu.rs).  For every  *)
(* shard of a program a backend is configured; it executes the shard on    *)
(* the boundary inputs it is given and writes an artifact, which is later  *)
(* loaded, checked by executing it again, and relocated into the program   *)
(* of the shard's circuit.                                                 *)
(*                                                                         *)
(* Bytes of a file are counted in tensors and values; a digest is what it  *)
(* digests.  Dimensions are small: the overflow of usize is left out.      *)
(***************************************************************************)
EXTENDS Isa, Dag

CONSTANTS
    WitnessSetups,      \* programs with their weights, tables, shards, limits and input values
    None

\* A register is its kind and its number or its name.  What a caller declares of a shard is well
\* formed, true or not; the shards cover the program.
IsRegister(r) == r = <<r[1], r[2]>> /\ r[1] \in {"graph", "weight", "virtual"} /\ (IsVirtual(r) => r[2] \in Nat)
ASSUME WitnessAssumption ==
    \A s \in WitnessSetups :
        /\ s.program \in Seq(ToSet(s.program)) /\ \A r \in s.graph_outputs : IsRegister(r)
        /\ \A j \in DOMAIN s.program :
            s.program[j].inputs \in Seq(ToSet(s.program[j].inputs)) /\ \A r \in ToSet(s.program[j].inputs) : IsRegister(r)
        /\ \A i \in Indices(s.program) : \E t \in DOMAIN s.shards : InRange(s.shards[t].range, i)
        /\ \A t \in DOMAIN s.shards :
            /\ \A shard \in s.declared[t] :
                /\ shard.range \in [start : Nat, end : Nat] /\ shard.outputs \in Seq(ToSet(shard.outputs))
                /\ \A r \in ToSet(shard.inputs) \cup ToSet(shard.outputs) : IsRegister(r)
            /\ \A shapes \in s.manifests[t] : \A r \in DOMAIN shapes : shapes[r] \in Nat

VARIABLES
    setup,      \* the program that is run; never changes
    backends,   \* the configured backend of each shard, or None
    artifacts,  \* the artifact of each shard: its file and what was recorded of it, or None
    loaded,     \* the artifact as load_artifact returned it, or None
    assembled,  \* what load_assembler_program_and_public_values returned, or None
    templates,  \* the template that validate_assembler_template accepted, or None
    errors      \* the kinds of error generate returned

witnessVars == <<setup, backends, artifacts, loaded, assembled, templates, errors>>

ShardIds == DOMAIN setup.shards
RangeOf(shard) == shard.range.start..(shard.range.end - 1)
InOrder(shard) == [j \in 1..(shard.range.end - shard.range.start) |-> shard.range.start + j - 1]
NamesOf(kind, registers) == {r[2] : r \in {r \in registers : r[1] = kind}}
Lengths(tensors) == MapThenSumSet(LAMBDA r : Len(tensors[r]), DOMAIN tensors)
TensorsWithin(tensors, per_tensor) == \A r \in DOMAIN tensors : Len(tensors[r]) <= per_tensor
Exceeds(count, limit) == ~(count <= limit)

-----------------------------------------------------------------------------
(* Configuration *)

\* CpuWitnessLimits::new.
LimitsConsistent(limits) ==
    /\ \A l \in DOMAIN limits : limits[l] > 0
    /\ limits.values_per_tensor <= limits.total_input_values
    /\ limits.values_per_tensor <= limits.total_artifact_values

validate_run_identity(run) == run.flavor = "halo2-kzg-bn256-shplonk-v1" /\ run.visibility = "PublicModel"

\* with_limits: the range and the boundary registers as declared.
BoundaryDeclared(program, shard) ==
    /\ shard.range.start <= shard.range.end /\ shard.range.end <= Len(program)
    /\ IsInjective(shard.inputs) /\ IsInjective(shard.outputs)
    /\ \A r \in ToSet(shard.inputs) : IsVirtual(r) /\ r[2] < shard.range.start
    /\ \A r \in ToSet(shard.outputs) : IsVirtual(r) /\ InRange(shard.range, r[2])

ShardReads(program, shard) ==
    UNION {ToSet(InstructionAt(program, i).inputs) : i \in RangeOf(shard)}
RequiredGraphInputs(program, shard) == NamesOf("graph", ShardReads(program, shard))
RequiredVirtuals(program, shard) ==
    {i \in NamesOf("virtual", ShardReads(program, shard)) : i < shard.range.start}
RequiredOutputs(shard) == NamesOf("virtual", ToSet(shard.outputs))

NoForwards(program, shard) ==
    \A i \in RangeOf(shard) : \A v \in Reads(program, i) : v < shard.range.start \/ v < i

DomainKeys(program, shard) ==
    {<<i.dim, i.epsilon_milli>> : i \in {i \in {InstructionAt(program, j).instruction : j \in RangeOf(shard)} :
                                            i.op = "RmsNorm"}}

\* The operands and batch dimensions of the shard's instructions.
OperandReferences(program, shard) ==
    MapThenSumSet(LAMBDA j : LET c == InstructionAt(program, j)
                             IN  Len(c.inputs) + IF c.instruction.op = "DotGeneral"
                                                 THEN Len(c.instruction.batch_dims) ELSE 0, RangeOf(shard))

DimensionsFit(i, limits) ==
    CASE i.op = "DotGeneral" -> {i.m, i.n, i.k} \subseteq Nat \ {0} /\ i.m * i.n <= limits.values_per_tensor
      [] i.op = "RmsNorm" -> i.dim # 0 /\ i.dim <= limits.values_per_tensor
      [] OTHER -> TRUE

\* program.weight_as_i18.
WeightKnown(weights, name) == name \in DOMAIN weights /\ \A p \in DOMAIN weights[name] : weights[name][p] \in I18

\* materialize_domain: a domain is the points and values that build_domain gives.
DomainUsable(domain, limits) ==
    /\ domain # <<>> /\ Len(domain) <= limits.domain_points
    /\ \A p \in DOMAIN domain : domain[p].point > 0 /\ domain[p].value \in I18
    /\ \A p, q \in DOMAIN domain : domain[p].point = domain[q].point => domain[p].value = domain[q].value
materialize_domain(domain) ==
    [x \in {domain[p].point : p \in DOMAIN domain} |->
        domain[CHOOSE p \in DOMAIN domain : domain[p].point = x].value]

RecordCount(inputs, virtuals, outputs) == inputs + virtuals + outputs

\* What analyze_program refuses, for the domains the caller configured.
AnalysisPasses(s, shard, domains) ==
    LET p == s.program
        limits == s.limits
        names == NamesOf("weight", ShardReads(p, shard))
        inputs == Cardinality(names) + Cardinality(RequiredGraphInputs(p, shard)) + Cardinality(RequiredVirtuals(p, shard))
    IN  /\ Cardinality(RangeOf(shard)) <= limits.instruction_count
        /\ OperandReferences(p, shard) <= limits.operand_references
        /\ \A j \in RangeOf(shard) : DimensionsFit(InstructionAt(p, j).instruction, limits)
        /\ RequiredGraphInputs(p, shard) \subseteq s.graph_inputs
        /\ \A n \in names : WeightKnown(s.weights, n) /\ Len(s.weights[n]) <= limits.values_per_tensor
        /\ NoForwards(p, shard)
        /\ RequiredVirtuals(p, shard) = NamesOf("virtual", ToSet(shard.inputs))
        /\ RecordCount(inputs, Cardinality(RangeOf(shard)), Len(shard.outputs)) <= limits.tensor_count
        /\ MapThenSumSet(LAMBDA n : Len(s.weights[n]), names) <= limits.total_artifact_values
        /\ DOMAIN domains = DomainKeys(p, shard)
        /\ MapThenSumSet(LAMBDA key : Len(domains[key]), DOMAIN domains) <= limits.domain_points
        /\ \A key \in DOMAIN domains : DomainUsable(domains[key], limits)

RequiredRegisters(program, shard) ==
    {<<"graph", n>> : n \in RequiredGraphInputs(program, shard)}
        \cup {Virtual(i) : i \in RequiredVirtuals(program, shard)}

\* BoundaryShapeManifest: new and validate_for.
ManifestPasses(shapes, required, limits) ==
    /\ \A r \in DOMAIN shapes : shapes[r] # 0 /\ shapes[r] <= limits.values_per_tensor
    /\ DOMAIN shapes = required
    /\ Cardinality(required) <= limits.tensor_count
    /\ MapThenSumSet(LAMBDA r : shapes[r], required) <= limits.total_input_values

\* The external registers in the order of their first use, without the weights.
derive_circuit_digest(s, shard, domains, shapes) ==
    LET order == boundary_register_order(s.program, shard.range)
    IN  [range |-> shard.range, inputs |-> shard.inputs, outputs |-> shard.outputs,
         shapes |-> [p \in DOMAIN order |-> <<order[p], shapes[order[p]]>>],
         instructions |-> [j \in DOMAIN InOrder(shard) |-> InstructionAt(s.program, InOrder(shard)[j])],
         weights |-> [n \in NamesOf("weight", ShardReads(s.program, shard)) |-> s.weights[n]],
         domains |-> domains]

Backend(s, shard, domains, shapes) ==
    LET p == s.program
        names == NamesOf("weight", ShardReads(p, shard))
    IN  [shard |-> shard, shapes |-> shapes, domains |-> domains,
         tables |-> [key \in DOMAIN domains |-> materialize_domain(domains[key])],
         weights |-> [n \in names |-> s.weights[n]],
         records |-> RecordCount(Cardinality(names) + Cardinality(RequiredRegisters(p, shard)),
                                 Cardinality(RangeOf(shard)), Len(shard.outputs)),
         digest |-> derive_circuit_digest(s, shard, domains, shapes)]

with_limits(s, shard, domains, shapes) ==
    /\ LimitsConsistent(s.limits)
    /\ validate_run_identity(s.run)
    /\ BoundaryDeclared(s.program, shard)
    /\ AnalysisPasses(s, shard, domains)
    /\ ManifestPasses(shapes, RequiredRegisters(s.program, shard), s.limits)

-----------------------------------------------------------------------------
(* Execution *)

\* validate_supplied_inputs: supplied is a function from registers to tensors.
SuppliedError(b, supplied) ==
    IF DOMAIN b.shapes \ DOMAIN supplied # {} THEN "MissingInput"
    ELSE IF DOMAIN supplied # DOMAIN b.shapes THEN "InvalidJob"
    ELSE IF \E r \in DOMAIN b.shapes : Len(supplied[r]) # b.shapes[r] THEN "InvalidJob"
    ELSE IF \/ Exceeds(Cardinality(DOMAIN supplied), setup.limits.tensor_count)
            \/ ~TensorsWithin(supplied, setup.limits.values_per_tensor)
            \/ Exceeds(Lengths(supplied), setup.limits.total_input_values)
    THEN "Resource" ELSE "none"

resolve_external(b, supplied, r, i) ==
    CASE r[1] = "graph" -> IF r \in DOMAIN supplied THEN Tensor(supplied[r]) ELSE Error("MissingRegister")
      [] r[1] = "weight" -> IF r[2] \in DOMAIN b.weights THEN Tensor(b.weights[r[2]]) ELSE Error("MissingRegister")
      [] OTHER -> IF r[2] >= i THEN Error("ForwardRegister")
                  ELSE IF r[2] < b.shard.range.start /\ r \in ToSet(b.shard.inputs) /\ r \in DOMAIN supplied
                  THEN Tensor(supplied[r]) ELSE Error("MissingRegister")

Merged(new, old) == [k \in DOMAIN new \cup DOMAIN old |-> IF k \in DOMAIN new THEN new[k] ELSE old[k]]
With(function, key, value) == [k \in DOMAIN function \cup {key} |-> IF k = key THEN value ELSE function[k]]
Empty == [k \in {} |-> <<>>]

\* One round of execute's loop once its operands are resolved: the limits, then the registers.
Produced(state, i, values, result) ==
    LET error == IF result.err # "none" THEN result.err
                 ELSE IF \/ Exceeds(Len(result.values), setup.limits.values_per_tensor)
                         \/ Exceeds(Lengths(state.virtuals) + Len(result.values), setup.limits.total_artifact_values)
                 THEN "Resource" ELSE "none"
    IN  IF error # "none" THEN [state EXCEPT !.err = error]
        ELSE [err |-> "none", registers |-> With(Merged(values, state.registers), Virtual(i), result.values),
              inputs |-> Merged(values, state.inputs), virtuals |-> With(state.virtuals, i, result.values)]

\* The instruction is executed on its operands, of which the fresh ones were resolved just now.
Applied(b, state, i, resolved) ==
    LET inputs == InstructionAt(setup.program, i).inputs
        failed == {resolved[r].err : r \in DOMAIN resolved} \ {"none"}
        operand(r) == IF r \in DOMAIN resolved THEN resolved[r].values ELSE state.registers[r]
    IN  IF failed # {} THEN [state EXCEPT !.err = CHOOSE e \in failed : TRUE]
        ELSE Produced(state, i, [r \in DOMAIN resolved |-> resolved[r].values],
                      execute_instruction(InstructionAt(setup.program, i).instruction,
                                          [o \in DOMAIN inputs |-> operand(inputs[o])], b.tables))

ExecuteNext(b, supplied, state, i) ==
    LET fresh == ToSet(InstructionAt(setup.program, i).inputs) \ DOMAIN state.registers
    IN  IF state.err # "none" THEN state
        ELSE Applied(b, state, i, [r \in fresh |-> resolve_external(b, supplied, r, i)])

ArtifactError(b, values, records) ==
    IF Exceeds(values, setup.limits.total_artifact_values) \/ Exceeds(records, setup.limits.tensor_count)
    THEN "Resource"
    ELSE IF records # b.records THEN "CoverageChanged" ELSE "none"

\* What execute returns of its final registers.
Summary(b, final, outputs) ==
    LET values == Lengths(final.inputs) + Lengths(final.virtuals) + Lengths(outputs)
        records == RecordCount(Cardinality(DOMAIN final.inputs), Cardinality(DOMAIN final.virtuals), Len(b.shard.outputs))
        error == IF final.err # "none" THEN final.err ELSE ArtifactError(b, values, records)
    IN  IF error # "none" THEN [err |-> error, inputs |-> Empty, virtuals |-> Empty, outputs |-> Empty]
        ELSE [err |-> "none", inputs |-> final.inputs, virtuals |-> final.virtuals, outputs |-> outputs]

\* The states of the loop: before it, and after each of the shard's instructions.
LoopStates(b, supplied) ==
    LET state[j \in 0..Len(InOrder(b.shard))] ==
            IF j = 0
            THEN [err |-> SuppliedError(b, supplied), registers |-> Empty, inputs |-> Empty, virtuals |-> Empty]
            ELSE ExecuteNext(b, supplied, state[j - 1], InOrder(b.shard)[j])
    IN  state

execute(b, supplied) ==
    LET summary(final) == Summary(b, final, [i \in RequiredOutputs(b.shard) |-> final.virtuals[i]])
    IN  summary(LoopStates(b, supplied)[Len(InOrder(b.shard))])

-----------------------------------------------------------------------------
(* The artifact's file *)

Records(tensors, keys) == [p \in DOMAIN keys |-> [key |-> keys[p], values |-> tensors[keys[p]]]]
SortKey(r) == CASE r[1] = "graph" -> 0 [] r[1] = "weight" -> 1 [] OTHER -> 2
SortedRegisters(registers) ==
    LET of(kind) == SetToSeq({r \in registers : SortKey(r) = kind})
    IN  of(0) \o of(1) \o of(2)
SortedIndices(indices) == Ordered([i \in indices |-> {j \in indices : j < i}])

to_json(b, run) ==
    [run |-> setup.run, shard |-> b.shard, circuit_digest |-> b.digest,
     inputs |-> Records(run.inputs, SortedRegisters(DOMAIN run.inputs)),
     virtuals |-> Records(run.virtuals, SortedIndices(DOMAIN run.virtuals)),
     outputs |-> Records(run.outputs, SortedIndices(DOMAIN run.outputs))]

RecordsLen(records) == FoldLeft(LAMBDA n, record : n + 1 + Len(record.values), 0, records)
EncodedLen(wire) == RecordsLen(wire.inputs) + RecordsLen(wire.virtuals) + RecordsLen(wire.outputs)

\* into_i18_indexed, and the same for the inputs: a key may appear once.
Distinct(records) == \A p, q \in DOMAIN records : records[p].key = records[q].key => p = q
AsTensors(records) ==
    [key \in {records[p].key : p \in DOMAIN records} |->
        records[CHOOSE p \in DOMAIN records : records[p].key = key].values]

ExpectedInputs(b) == DOMAIN b.shapes \cup {<<"weight", n>> : n \in DOMAIN b.weights}

\* Variant for testing AcceptedIsExecution and ShardsComputeProgram: the values are not computed again.
decode_without_execution(b, wire) ==
    Distinct(wire.inputs) /\ Distinct(wire.virtuals) /\ Distinct(wire.outputs)
        /\ LET inputs == AsTensors(wire.inputs)
               virtuals == AsTensors(wire.virtuals)
               outputs == AsTensors(wire.outputs)
           IN  /\ DOMAIN inputs = ExpectedInputs(b) /\ DOMAIN virtuals = RangeOf(b.shard)
               /\ DOMAIN outputs = RequiredOutputs(b.shard)
               /\ \A i \in DOMAIN outputs : outputs[i] = virtuals[i]

decode_artifact_wire(b, wire) ==
    /\ wire.run = setup.run /\ wire.shard = b.shard /\ wire.circuit_digest = b.digest
    /\ Distinct(wire.inputs) /\ Distinct(wire.virtuals) /\ Distinct(wire.outputs)
    /\ LET inputs == AsTensors(wire.inputs)
           virtuals == AsTensors(wire.virtuals)
           outputs == AsTensors(wire.outputs)
           records == RecordCount(Len(wire.inputs), Len(wire.virtuals), Len(wire.outputs))
       IN  /\ records <= setup.limits.tensor_count /\ records = b.records
           /\ \A n \in 1..3 : TensorsWithin(<<inputs, virtuals, outputs>>[n], setup.limits.values_per_tensor)
           /\ Lengths(inputs) + Lengths(virtuals) + Lengths(outputs) <= setup.limits.total_artifact_values
           /\ DOMAIN inputs = ExpectedInputs(b) /\ DOMAIN virtuals = RangeOf(b.shard)
           /\ DOMAIN outputs = RequiredOutputs(b.shard)
           /\ \A i \in DOMAIN outputs : outputs[i] = virtuals[i]
           /\ execute(b, [r \in DOMAIN inputs \cap DOMAIN b.shapes |-> inputs[r]]) =
                  [err |-> "none", inputs |-> inputs, virtuals |-> virtuals, outputs |-> outputs]

\* load_artifact: the record of the artifact, the size of the file, its digest and its contents.
Loads(b, artifact) ==
    /\ artifact.recorded.shard = b.shard /\ artifact.recorded.circuit_digest = b.digest
    /\ EncodedLen(artifact.file) <= setup.limits.artifact_bytes
    /\ artifact.file = artifact.recorded.file_digest
    /\ decode_artifact_wire(b, artifact.file)

Decoded(wire) ==
    [inputs |-> AsTensors(wire.inputs), virtuals |-> AsTensors(wire.virtuals), outputs |-> AsTensors(wire.outputs)]

-----------------------------------------------------------------------------
(* Relocation *)

\* The external registers numbered by first use, inputs and weights apart.
ExternalOrder(b) == boundary_register_order(setup.program, b.shard.range)
WeightOrder(b) == weight_order(setup.program, b.shard.range)
Position(sequence, element) == CHOOSE p \in DOMAIN sequence : sequence[p] = element

\* A RegisterRef, counted from 0.
relocate_register(b, r) ==
    CASE IsVirtual(r) /\ r[2] >= b.shard.range.start -> <<"virtual", r[2] - b.shard.range.start>>
      [] r[1] = "weight" -> <<"weight", Position(WeightOrder(b), r) - 1>>
      [] OTHER -> <<"input", Position(ExternalOrder(b), r) - 1>>

RelocatedInstructions(b) ==
    [j \in DOMAIN InOrder(b.shard) |->
        LET compiled == InstructionAt(setup.program, InOrder(b.shard)[j])
        IN  [instruction |-> compiled.instruction,
             inputs |-> [o \in DOMAIN compiled.inputs |-> relocate_register(b, compiled.inputs[o])]]]

public_output_globals(b) ==
    RequiredOutputs(b.shard) \cup {i \in NamesOf("virtual", setup.graph_outputs) : InRange(b.shard.range, i)}

\* Variant for testing RelocationKeepsMeaning: the public values begin with the weights.
AssembledWeightsFirst(b, artifact) ==
    LET inputs == [p \in DOMAIN ExternalOrder(b) |-> artifact.inputs[ExternalOrder(b)[p]]]
        weights == [p \in DOMAIN WeightOrder(b) |-> artifact.inputs[WeightOrder(b)[p]]]
        outputs == SortedIndices(public_output_globals(b))
    IN  [program |-> [instructions |-> RelocatedInstructions(b), input_values |-> inputs, weight_values |-> weights],
         public_values |-> FlattenSeq(weights) \o FlattenSeq(inputs)
                           \o FlattenSeq([p \in DOMAIN outputs |-> artifact.virtuals[outputs[p]]])]

\* load_assembler_program_and_public_values, for a loaded artifact.
Assembled(b, artifact) ==
    LET inputs == [p \in DOMAIN ExternalOrder(b) |-> artifact.inputs[ExternalOrder(b)[p]]]
        weights == [p \in DOMAIN WeightOrder(b) |-> artifact.inputs[WeightOrder(b)[p]]]
        outputs == SortedIndices(public_output_globals(b))
    IN  [program |-> [instructions |-> RelocatedInstructions(b), input_values |-> inputs, weight_values |-> weights],
         public_values |-> FlattenSeq(inputs) \o FlattenSeq(weights)
                           \o FlattenSeq([p \in DOMAIN outputs |-> artifact.virtuals[outputs[p]]])]

\* validate_assembler_template; the template may hold any boundary values.
TemplateAccepted(b, template, domains) ==
    /\ Len(template.input_values) >= Len(ExternalOrder(b))
    /\ \A p \in DOMAIN ExternalOrder(b) : Len(template.input_values[p]) = b.shapes[ExternalOrder(b)[p]]
    /\ template = [instructions |-> RelocatedInstructions(b),
                   input_values |-> SubSeq(template.input_values, 1, Len(ExternalOrder(b))),
                   weight_values |-> [p \in DOMAIN WeightOrder(b) |-> b.weights[WeightOrder(b)[p][2]]]]
    /\ domains = b.domains

-----------------------------------------------------------------------------
(* The steps *)

Configured == {s \in ShardIds : backends[s] # None}
shard_of_register(i) == CHOOSE s \in ShardIds : InRange(setup.shards[s].range, i)

WitnessInit ==
    /\ setup \in WitnessSetups
    /\ backends = [s \in ShardIds |-> None] /\ artifacts = [s \in ShardIds |-> None]
    /\ loaded = [s \in ShardIds |-> None] /\ assembled = [s \in ShardIds |-> None]
    /\ templates = [s \in ShardIds |-> None] /\ errors = {}

\* A caller configures a backend with what it declares of the shard.
configure(s) ==
    /\ backends[s] = None
    /\ \E shard \in setup.declared[s], domains \in setup.domain_sets[s], shapes \in setup.manifests[s] :
        backends' = IF with_limits(setup, shard, domains, shapes)
                    THEN [backends EXCEPT ![s] = Backend(setup, shard, domains, shapes)] ELSE backends
    /\ UNCHANGED <<setup, artifacts, loaded, assembled, templates, errors>>

\* The boundary values: graph inputs, and outputs of the artifacts of earlier shards.
Available(s) ==
    LET b == backends[s]
        produced(r) == loaded[shard_of_register(r[2])] # None
                       /\ r[2] \in DOMAIN loaded[shard_of_register(r[2])].outputs
    IN  \A r \in DOMAIN b.shapes : IsVirtual(r) => produced(r)
BoundaryValues(s) ==
    [r \in DOMAIN backends[s].shapes |->
        IF IsVirtual(r) THEN loaded[shard_of_register(r[2])].outputs[r[2]] ELSE setup.values[r[2]]]
\* A caller may also miss an input, add one, or supply one that is too long.
Supplies(s) ==
    LET right == BoundaryValues(s)
    IN  {right, With(right, <<"graph", "stray">>, <<0>>)}
        \cup {[q \in DOMAIN right \ {r} |-> right[q]] : r \in DOMAIN right}
        \cup {[right EXCEPT ![r] = Append(@, 0)] : r \in DOMAIN right}

validate_job(s, job) == backends[job].digest = backends[s].digest

\* WitnessBackend::generate: the job names a circuit, its input file holds the supplied values.
generate(s) ==
    /\ backends[s] # None /\ artifacts[s] = None /\ Available(s)
    /\ \E supplied \in Supplies(s), job \in Configured, b \in {backends[s]} :
        \E run \in {execute(b, supplied)} : \E wire \in {to_json(b, run)} :
        LET error == IF ~validate_job(s, job) THEN "InvalidJob"
                     ELSE IF Exceeds(Cardinality(DOMAIN supplied) + Lengths(supplied), setup.limits.input_bytes) THEN "Resource"
                     ELSE IF run.err # "none" THEN run.err
                     ELSE IF Exceeds(EncodedLen(wire), setup.limits.artifact_bytes) THEN "Resource" ELSE "none"
        IN  IF error = "none"
            THEN /\ artifacts' = [artifacts EXCEPT ![s] =
                        [file |-> wire, genuine |-> TRUE,
                         recorded |-> [shard |-> b.shard, circuit_digest |-> b.digest, file_digest |-> wire]]]
                 /\ UNCHANGED errors
            ELSE /\ errors' = errors \cup {error}
                 /\ UNCHANGED artifacts
    /\ UNCHANGED <<setup, backends, loaded, assembled, templates>>

\* One record of the file is changed, dropped or repeated.
AlteredRecords(records) ==
    {[records EXCEPT ![p].values[1] = @ + 1] : p \in DOMAIN records}
        \cup {Append(records, records[p]) : p \in DOMAIN records}
        \cup {SubSeq(records, 1, Len(records) - 1)}
AlteredFiles(wire) ==
    {[wire EXCEPT !.inputs = r] : r \in AlteredRecords(wire.inputs)}
        \cup {[wire EXCEPT !.virtuals = r] : r \in AlteredRecords(wire.virtuals)}
        \cup {[wire EXCEPT !.outputs = r] : r \in {r \in AlteredRecords(wire.outputs) : wire.outputs # <<>>}}
\* The file is replaced by an altered one, with or without a record of its digest.
alter_file(s) ==
    /\ artifacts[s] # None /\ loaded[s] = None /\ artifacts[s].genuine
    /\ \E file \in AlteredFiles(artifacts[s].file), recorded \in BOOLEAN :
        artifacts' = [artifacts EXCEPT ![s].file = file, ![s].genuine = FALSE,
                                       ![s].recorded.file_digest = IF recorded THEN file ELSE @]
    /\ UNCHANGED <<setup, backends, loaded, assembled, templates, errors>>

load_artifact(s) ==
    /\ artifacts[s] # None /\ loaded[s] = None
    /\ loaded' = IF Loads(backends[s], artifacts[s])
                 THEN [loaded EXCEPT ![s] = Decoded(artifacts[s].file)] ELSE loaded
    /\ UNCHANGED <<setup, backends, artifacts, assembled, templates, errors>>

load_assembler_program_and_public_values(s) ==
    /\ artifacts[s] # None /\ loaded[s] # None /\ assembled[s] = None
    /\ Loads(backends[s], artifacts[s])
    /\ assembled' = [assembled EXCEPT ![s] = Assembled(backends[s], Decoded(artifacts[s].file))]
    /\ UNCHANGED <<setup, backends, artifacts, loaded, templates, errors>>

\* Templates with other values, a changed weight, an input too many, or one of another length.
Templates(b) ==
    LET zeros == [p \in DOMAIN ExternalOrder(b) |-> [i \in 1..b.shapes[ExternalOrder(b)[p]] |-> 0]]
        right == [instructions |-> RelocatedInstructions(b), input_values |-> zeros,
                  weight_values |-> [p \in DOMAIN WeightOrder(b) |-> b.weights[WeightOrder(b)[p][2]]]]
    IN  {right, [right EXCEPT !.input_values = Append(@, <<0>>)]}
        \cup {[right EXCEPT !.input_values[p] = Append(@, 0)] : p \in DOMAIN zeros}
        \cup {[right EXCEPT !.weight_values[p][1] = @ + 1] : p \in DOMAIN WeightOrder(b)}
validate_assembler_template(s) ==
    /\ backends[s] # None /\ templates[s] = None
    /\ \E template \in Templates(backends[s]), domains \in setup.domain_sets[s] :
        templates' = IF TemplateAccepted(backends[s], template, domains)
                     THEN [templates EXCEPT ![s] = template] ELSE templates
    /\ UNCHANGED <<setup, backends, artifacts, loaded, assembled, errors>>

WitnessNext == \E s \in ShardIds :
    \/ configure(s)
    \/ generate(s)
    \/ alter_file(s)
    \/ load_artifact(s)
    \/ load_assembler_program_and_public_values(s)
    \/ validate_assembler_template(s)

WitnessSpec == WitnessInit /\ [][WitnessNext]_witnessVars

-----------------------------------------------------------------------------
(* Properties *)

\* The whole program on the input values, without shards.
AllTables == [key \in DomainKeys(setup.program, [range |-> [start |-> 0, end |-> Len(setup.program)]]) |->
                materialize_domain(setup.domains[key])]
Whole[i \in Indices(setup.program)] ==
    LET compiled == InstructionAt(setup.program, i)
        value(r) == CASE r[1] = "graph" -> setup.values[r[2]]
                      [] r[1] = "weight" -> setup.weights[r[2]]
                      [] OTHER -> IF r[2] < i THEN Whole[r[2]] ELSE <<>>
    IN  execute_instruction(compiled.instruction, [o \in DOMAIN compiled.inputs |-> value(compiled.inputs[o])],
                            AllTables).values

\* The boundary values of the accepted artifacts agree: with the graph's inputs
\* and with the outputs of the artifacts that produce them.  Their backends were
\* configured with the program's domains.
Linked ==
    \A s \in ShardIds : loaded[s] # None =>
        /\ \A key \in DOMAIN backends[s].domains : backends[s].domains[key] = setup.domains[key]
        /\ \A r \in DOMAIN loaded[s].inputs :
            CASE r[1] = "graph" -> loaded[s].inputs[r] = setup.values[r[2]]
              [] r[1] = "weight" -> TRUE
              [] OTHER -> LET producer == loaded[shard_of_register(r[2])]
                          IN  producer # None /\ r[2] \in DOMAIN producer.outputs
                              /\ loaded[s].inputs[r] = producer.outputs[r[2]]

\* execute and the shard boundaries: when the accepted artifacts are linked,
\* every virtual register has the value it has when the whole program is
\* executed on the graph's inputs.
ShardsComputeProgram ==
    Linked => \A s \in ShardIds : loaded[s] # None =>
        \A i \in DOMAIN loaded[s].virtuals : loaded[s].virtuals[i] = Whole[i]

\* load_artifact: whatever the file holds, an artifact is accepted only if each
\* of its virtual registers is the result of its instruction on the artifact's
\* own registers, the weights are the program's and nothing is missing.
AcceptedIsExecution ==
    \A s \in ShardIds : loaded[s] # None =>
        LET b == backends[s]
            a == loaded[s]
            value(r) == IF IsVirtual(r) /\ r[2] \in DOMAIN a.virtuals THEN a.virtuals[r[2]] ELSE a.inputs[r]
        IN  /\ DOMAIN a.virtuals = RangeOf(b.shard)
            /\ \A r \in DOMAIN a.inputs : r[1] = "weight" => a.inputs[r] = setup.weights[r[2]]
            /\ \A i \in RangeOf(b.shard) :
                LET compiled == InstructionAt(setup.program, i)
                IN  Tensor(a.virtuals[i]) = execute_instruction(compiled.instruction,
                        [o \in DOMAIN compiled.inputs |-> value(compiled.inputs[o])], b.tables)
            /\ \A i \in DOMAIN a.outputs : a.outputs[i] = a.virtuals[i]

\* generate and load_artifact apply limits of their own: what generate has
\* written within its limits, load_artifact accepts.
GeneratedLoads ==
    \A s \in ShardIds : artifacts[s] # None /\ artifacts[s].genuine => Loads(backends[s], artifacts[s])

\* analyze_program: a backend that was configured never fails during execution
\* for a register or a domain that is missing, or for its record count.
NoLateRegisterError ==
    errors \cap {"MissingRegister", "ForwardRegister", "NoDomain", "CoverageChanged"} = {}

\* The circuit's public instances (AssemblerCircuit::synthesize): the cells of
\* the inputs, of the weights and of the selected outputs.
RelocatedRun(b, program) ==
    LET virtual[j \in DOMAIN program.instructions] ==
            LET instruction == program.instructions[j]
                value(r) == CASE r[1] = "input" -> program.input_values[r[2] + 1]
                              [] r[1] = "weight" -> program.weight_values[r[2] + 1]
                              [] OTHER -> virtual[r[2] + 1]
            IN  execute_instruction(instruction.instruction,
                    [o \in DOMAIN instruction.inputs |-> value(instruction.inputs[o])], b.tables).values
    IN  virtual
PublicInstances(b, program) ==
    LET indices == SortedIndices({i - b.shard.range.start : i \in public_output_globals(b)})
    IN  FlattenSeq(program.input_values) \o FlattenSeq(program.weight_values)
            \o FlattenSeq([p \in DOMAIN indices |-> RelocatedRun(b, program)[indices[p] + 1]])

\* load_assembler_program_and_public_values: the relocated program computes the
\* artifact's virtual registers, and the public values are the instances that
\* a circuit of this program has, in its order.
RelocationKeepsMeaning ==
    \A s \in ShardIds : assembled[s] # None =>
        LET b == backends[s]
            program == assembled[s].program
        IN  /\ \A j \in DOMAIN program.instructions :
                    RelocatedRun(b, program)[j] = loaded[s].virtuals[b.shard.range.start + j - 1]
            /\ assembled[s].public_values = PublicInstances(b, program)

\* validate_assembler_template: keys made from an accepted template fit every
\* program that is assembled later: the same instructions, weights and shapes.
TemplateFits ==
    \A s \in ShardIds : templates[s] # None /\ assembled[s] # None =>
        LET program == assembled[s].program
        IN  /\ program.instructions = templates[s].instructions
            /\ program.weight_values = templates[s].weight_values
            /\ DOMAIN program.input_values = DOMAIN templates[s].input_values
            /\ \A p \in DOMAIN program.input_values :
                    Len(program.input_values[p]) = Len(templates[s].input_values[p])

\* The witness backend: what it writes it accepts, and what it accepts is an
\* execution of the shard that fits those of the other shards.
ArtifactsSound == AcceptedIsExecution /\ ShardsComputeProgram /\ GeneratedLoads /\ NoLateRegisterError

\* What the prover is given means what the artifact means.
RelocationFaithful == RelocationKeepsMeaning /\ TemplateFits
=============================================================================
