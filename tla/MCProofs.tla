------------------------------- MODULE MCProofs -------------------------------
(***************************************************************************)
(* From a shard's keys to the manifest of a run: the preparation of keys,  *)
(* proving and verifying a shard, and aggregation.  A behaviour is one of  *)
(* a single stage, on instances of its own, while the others stay idle.    *)
(***************************************************************************)
EXTENDS KeyPreparation, ProofBackend, Aggregation, TLC

CONSTANTS p1, p2
VARIABLE part

Symmetry == Permutations(Srs)

-----------------------------------------------------------------------------
(* Keys: development backends of one circuit, of two circuits, of two k, and *)
(* a development backend beside a production one.  Keys are generated at     *)
(* most twice in the life of a process.                                      *)

Backend(circuit, production) ==
    [circuit |-> circuit, k |-> 3, production |-> production, shape |-> circuit, schema |-> "leaf"]
Pair(a, b) == (p1 :> a) @@ (p2 :> b)
MCConfigs ==
    {Pair(Backend("a", FALSE), Backend("a", FALSE)), Pair(Backend("a", FALSE), Backend("b", FALSE)),
     Pair(Backend("a", FALSE), Backend("a", TRUE)),
     Pair(Backend("a", FALSE), [Backend("a", FALSE) EXCEPT !.k = 4])}
-----------------------------------------------------------------------------
(* Proofs: two backends that are configured alike, or differ in one thing. *)

MCresult(inputs, weights) == <<"result", inputs, weights>>

Shard(id, circuit) == [id |-> id, circuit |-> circuit]
Base(schema) ==
    [run |-> [id |-> 1, plan |-> 1, schema |-> schema], shard |-> Shard(1, "c"), circuit |-> "c", k |-> 8,
     production |-> FALSE, shape |-> "s", schema |-> schema, inputs |-> "in", outputs |-> "out", weights |-> "w"]
WithKeys(b, drawn) == b @@ [keys |-> {KeyOf(b, s) : s \in drawn}]
Others(schema) ==
    LET b == Base(schema)
    IN  {b, [b EXCEPT !.run.id = 2], [b EXCEPT !.run.plan = 2], [b EXCEPT !.shard = Shard(2, "c")],
         [b EXCEPT !.shard = Shard(1, "d"), !.circuit = "d"], [b EXCEPT !.k = 9], [b EXCEPT !.production = TRUE],
         [b EXCEPT !.shape = "t", !.inputs = "in2"],
         [b EXCEPT !.shard = Shard(1, "d"), !.circuit = "d", !.weights = "v",
                   !.shape = IF schema = "leaf" THEN "t" ELSE @]}

MCBackends ==
    {[p \in Provers |-> IF p = p1 THEN WithKeys(Base(schema), {"srs"}) ELSE WithKeys(b, drawn)] :
        <<schema, b, drawn>> \in UNION {{<<schema, b, drawn>> : b \in Others(schema), drawn \in {{"srs"}, {"srs", "srs2"}}} :
                                            schema \in {"leaf", "public"}}}

\* Two artifacts with the same values, one with others, and one of each other shard.
MCWitnesses ==
    {[digest |-> 1, shard |-> Shard(1, "c"), circuit |-> "c", inputs |-> "x"],
     [digest |-> 2, shard |-> Shard(1, "c"), circuit |-> "c", inputs |-> "x"],
     [digest |-> 3, shard |-> Shard(1, "c"), circuit |-> "c", inputs |-> "y"],
     [digest |-> 4, shard |-> Shard(2, "c"), circuit |-> "c", inputs |-> "x"],
     [digest |-> 5, shard |-> Shard(1, "d"), circuit |-> "d", inputs |-> "x"]}

-----------------------------------------------------------------------------
(* Aggregation: three shards; 0 feeds 1 and 2 with one register, 1 feeds 2;  *)
(* 0 and 1 read the same graph input, 1 and 2 each have a graph output.      *)

E(id, p, c, r) == [id |-> id, producer |-> p, consumer |-> c, register |-> r]
MCEdges == {E("a", 0, 1, "v0"), E("b", 0, 2, "v0"), E("c", 1, 2, "v1")}

C(register, edges, outputs, graph_input, commitment) ==
    [register |-> register, edges |-> edges, outputs |-> outputs, graph_input |-> graph_input,
     commitment |-> commitment]
In(n) == C("in", {}, {}, TRUE, n)

Inputs ==
    << <<In(1)>>, <<In(1), C("v0", {"a"}, {}, FALSE, 2)>>,
       <<C("v0", {"b"}, {}, FALSE, 2), C("v1", {"c"}, {}, FALSE, 3)>> >>
Outputs ==
    << <<C("v0", {"a", "b"}, {}, FALSE, 2)>>, <<C("v1", {"c"}, {"y"}, FALSE, 3)>>,
       <<C("v2", {}, {"z"}, FALSE, 4)>> >>
MCExpected ==
    [s \in 0..2 |-> [inputs |-> [i \in DOMAIN PublicOf(Inputs[s + 1], "input") |->
                                    Descriptor(PublicOf(Inputs[s + 1], "input")[i])],
                     outputs |-> [i \in DOMAIN PublicOf(Outputs[s + 1], "output") |->
                                    Descriptor(PublicOf(Outputs[s + 1], "output")[i])]]]

P(shard, ins, outs, id, honest) ==
    [shard |-> shard, id |-> id, identity |-> TRUE, honest |-> honest,
     statement |-> [shard |-> shard, identity |-> TRUE, inputs |-> ins, outputs |-> outs]]
Honest(s) == P(s, Inputs[s + 1], Outputs[s + 1], 1, TRUE)

\* One thing wrong with a proof: a commitment, a claim too few, a claim too
\* many, an edge taken for another, another output, or another identity.
Wrong(s) ==
    LET ins == Inputs[s + 1]
        outs == Outputs[s + 1]
        bend(list, i) == [list EXCEPT ![i].commitment = 9]
    IN  {P(s, bend(ins, i), outs, 2, FALSE) : i \in DOMAIN ins}
          \cup {P(s, ins, bend(outs, 1), 2, FALSE), P(s, Tail(ins), outs, 2, FALSE),
                P(s, ins, <<>>, 2, FALSE), P(s, Append(ins, ins[Len(ins)]), outs, 2, FALSE),
                P(s, ins, [outs EXCEPT ![1].edges = {"c"}], 2, FALSE),
                P(s, ins, Append(outs, C("v9", {}, {"x"}, FALSE, 5)), 2, FALSE),
                [Honest(s) EXCEPT !.identity = FALSE, !.honest = FALSE],
                [Honest(s) EXCEPT !.statement.identity = FALSE, !.honest = FALSE]}

\* Another honest proof of the same statement.
Again(s) == [Honest(s) EXCEPT !.id = 3]
Some(s) == {Honest(s), Again(s)} \cup Wrong(s)

ProofLists ==
    {<<p, q, r>> : p \in Some(0), q \in Some(1), r \in Some(2)}
      \cup {<<Honest(0), Honest(1)>>, <<Honest(0), Honest(0), Honest(2)>>,
            <<Honest(1), Honest(0), Honest(2)>>}
MCVerifierProofs ==
    {<<p, q, r>> : p \in {Honest(0), Again(0)}, q \in {Honest(1), Again(1)}, r \in {Honest(2), Again(2)}}

\* Plans of up to 12 leaves, for which no proofs are at hand; and three leaves with proofs.
MCRequests ==
    {[leaf_count |-> n, fan_in |-> f, proofs |-> <<>>] : n \in 0..12, f \in {1, 2, 3, 4, 5, 16, 17}}
      \cup {[leaf_count |-> 3, fan_in |-> f, proofs |-> list] : f \in {2, 3}, list \in ProofLists}

-----------------------------------------------------------------------------
KeyIdle == config = Pair(Backend("a", FALSE), Backend("a", FALSE)) /\ KeyInit
ProofIdle == backends = (CHOOSE b \in Backends : TRUE) /\ ProofInit
AggregationIdle == leaf_count = 0 /\ fan_in = 1 /\ proofs = <<>> /\ AggregationInit

Init ==
    \/ part = "keys" /\ ProofIdle /\ AggregationIdle /\ KeyInit
    \/ part \in {"prove", "verify"} /\ KeyIdle /\ AggregationIdle /\ ProofInit
    \/ part = "aggregate" /\ KeyIdle /\ ProofIdle /\ AggregationInit

Next ==
    /\ UNCHANGED part
    /\ \/ part = "keys" /\ KeyNext /\ UNCHANGED <<proofVars, aggregationVars>>
       \/ part = "prove" /\ ProveNext /\ UNCHANGED <<keyVars, aggregationVars>>
       \/ part = "verify" /\ VerifyNext /\ UNCHANGED <<keyVars, aggregationVars>>
       \/ part = "aggregate" /\ AggregationNext /\ UNCHANGED <<keyVars, proofVars>>

Spec == Init /\ [][Next]_<<part, keyVars, proofVars, aggregationVars>>
=============================================================================
