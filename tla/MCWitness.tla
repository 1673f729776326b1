----------------------------- MODULE MCWitness -----------------------------
(* Numbers of 6 bits with scale 4; programs of two and three instructions in *)
(* one and two shards, among them a forward reference, an instruction the    *)
(* generator does not support, a weight that is missing and batch dimensions. *)
EXTENDS Witness

Graph(n) == <<"graph", n>>
Weight(n) == <<"weight", n>>
Eltwise(op, a, b) == [instruction |-> [op |-> op], inputs |-> <<a, b>>]
Dot(m, n, k, ta, tb, a, b) ==
    [instruction |-> [op |-> "DotGeneral", m |-> m, n |-> n, k |-> k, batch_dims |-> <<>>,
                      trans_a |-> ta, trans_b |-> tb], inputs |-> <<a, b>>]
Norm(dim, a, b) == [instruction |-> [op |-> "RmsNorm", dim |-> dim, epsilon_milli |-> 500], inputs |-> <<a, b>>]

Linear == << Dot(1, 2, 2, FALSE, TRUE, Graph("x"), Weight("w")), Eltwise("Add", Virtual(0), Weight("b")),
             Eltwise("Mul", Virtual(1), Virtual(0)) >>
Normed == << Eltwise("Mul", Graph("x"), Weight("b")), Norm(2, Virtual(0), Weight("g")),
             Eltwise("Add", Virtual(1), Graph("x")) >>
Column == << Dot(2, 1, 2, TRUE, FALSE, Weight("w"), Graph("x")), Dot(1, 1, 2, FALSE, FALSE, Graph("x"), Virtual(0)) >>
Forward == << Eltwise("Add", Graph("x"), Weight("b")), Eltwise("Add", Virtual(2), Weight("b")),
              Eltwise("Add", Virtual(0), Weight("b")) >>
Unsupported == << Eltwise("Relu", Graph("x"), Graph("x")), Eltwise("Add", Virtual(0), Virtual(0)) >>
Unknown == << Eltwise("Add", Graph("x"), Weight("missing")), Eltwise("Add", Virtual(0), Weight("huge")) >>
Batched == << [Dot(1, 2, 2, FALSE, TRUE, Graph("x"), Weight("w")) EXCEPT !.instruction.batch_dims = <<2>>] >>

Weights == [w |-> <<4, -2, 3, 5>>, b |-> <<2>>, g |-> <<4, -3>>, huge |-> <<64>>]
Table == << [point |-> 3, value |-> 5], [point |-> 4, value |-> 4], [point |-> 7, value |-> 3] >>
Key == <<2, 500>>
Lens(program) == [r \in {Graph("x")} \cup {Virtual(i) : i \in Indices(program)} |->
                    IF program = Column /\ r = Virtual(1) THEN 1 ELSE 2]

Plenty == [input_bytes |-> 20, artifact_bytes |-> 60, values_per_tensor |-> 8, total_input_values |-> 20,
           total_artifact_values |-> 40, tensor_count |-> 12, domain_points |-> 6, instruction_count |-> 4,
           operand_references |-> 8]
Run == [flavor |-> "halo2-kzg-bn256-shplonk-v1", visibility |-> "PublicModel"]
Cut(ends) == [s \in DOMAIN ends |-> [start |-> IF s = 1 THEN 0 ELSE ends[s - 1], end |-> ends[s]]]

\* What a caller may declare of a shard: the truth, or one deviation.
DeclaredOf(shard) ==
    {shard, [shard EXCEPT !.inputs = Append(@, Virtual(0))], [shard EXCEPT !.outputs = Append(@, Virtual(shard.range.end - 1))]}
        \cup IF shard.inputs = <<>> THEN {} ELSE {[shard EXCEPT !.inputs = Tail(@)]}
ManifestsOf(program, shard) ==
    LET right == [r \in RequiredRegisters(program, shard) |-> Lens(program)[r]]
    IN  {right} \cup {[right EXCEPT ![r] = @ + 1] : r \in DOMAIN right}
        \cup {[q \in DOMAIN right \ {r} |-> right[q]] : r \in DOMAIN right}

Setup(program, ends, limits, x) ==
    LET shards == Shards(program, Cut(ends))
        all == [key \in {Key} |-> Table]
        keys(s) == DomainKeys(program, shards[s])
    IN  [program |-> program, weights |-> Weights, graph_inputs |-> {"x"},
         graph_outputs |-> {Virtual(0), Virtual(Len(program) - 1)},
         shards |-> shards, declared |-> [s \in DOMAIN ends |-> DeclaredOf(shards[s])],
         domains |-> all, domain_sets |-> [s \in DOMAIN ends |-> {all, [key \in keys(s) |-> Table]}],
         manifests |-> [s \in DOMAIN ends |-> ManifestsOf(program, shards[s])],
         limits |-> limits, run |-> Run, values |-> [x |-> x, stray |-> <<0>>]]

\* Each limit in turn at every value around what the program needs.
Tight(program, ends) ==
    {Setup(program, ends, [Plenty EXCEPT ![l] = n], <<6, -3>>) :
        l \in {"input_bytes", "values_per_tensor", "total_input_values", "tensor_count", "domain_points",
               "instruction_count", "operand_references"}, n \in 2..6}
    \cup {Setup(program, ends, [Plenty EXCEPT ![l] = n], <<6, -3>>) :
        l \in {"artifact_bytes", "total_artifact_values", "tensor_count"}, n \in 8..18}

MCWitnessSetups ==
    {Setup(Linear, e, Plenty, x) : e \in {<<1, 3>>, <<2, 3>>}, x \in {<<6, -3>>, <<31, -32>>}}
    \cup {Setup(Normed, e, Plenty, x) : e \in {<<1, 3>>, <<3>>}, x \in {<<6, -3>>, <<2, 5>>, <<0, 1>>}}
    \cup {Setup(Column, <<1, 2>>, Plenty, <<6, -3>>)}
    \cup {Setup(p, <<1, Len(p)>>, Plenty, <<6, -3>>) : p \in {Unsupported, Unknown}}
    \cup {Setup(Batched, <<1>>, Plenty, <<6, -3>>)}
    \cup {Setup(Forward, <<3>>, Plenty, <<6, -3>>)}
    \cup Tight(Linear, <<3>>) \cup Tight(Normed, <<3>>)
=============================================================================
