--------------------------- MODULE MCShardBinding ---------------------------
(* Programs of two to four instructions in one to three shards: three with    *)
(* plans and layouts that fit or are off by one thing, and all of three       *)
(* instructions over two inputs, a weight and the results before them.        *)
EXTENDS ShardBinding

Result(i) == Virtual(i)
Input(n) == <<"graph", n>>
WeightNamed(n) == <<"weight", n>>
Slice(s, e) == [start |-> s, end |-> e]

Calls(inputs) == [j \in DOMAIN inputs |-> [inputs |-> inputs[j]]]
\* In the order of the keys; and not: a later input first, a result before an input.
BoundPrograms ==
    {Calls(<<<<Input(1), WeightNamed("a")>>, <<Result(0), WeightNamed("a")>>, <<Result(0), Result(1)>>>>),
     Calls(<<<<Input(1), WeightNamed("a")>>, <<Result(0), WeightNamed("b")>>, <<Result(1), Result(0)>>, <<Result(2), Input(2), Result(1)>>>>),
     Calls(<<<<Input(2), Input(1)>>, <<Result(0), Input(1), WeightNamed("b")>>>>)}
SpecsOf(n) ==
    {<<Slice(0, n)>>} \cup {<<Slice(0, c), Slice(c, n)>> : c \in 1..(n - 1)}
    \cup {<<Slice(0, 1), Slice(1, 2), Slice(2, n)>> : m \in {m \in {n} : m > 2}}

ResultLens(n) == [i \in 1..n |-> 1 + (i % 2)]
FlatSpec(r, count) == [register |-> r, count |-> count]
Layout(n) == <<FlatSpec(Input(1), 1), FlatSpec(Input(2), 2)>> \o [i \in 1..n |-> FlatSpec(Result(i - 1), ResultLens(n)[i])]
Right(program, specs) ==
    LET n == Len(program)
    IN  [program |-> program, lens |-> ResultLens(n), weights |-> [w \in {"a", "b"} |-> TermTensor(w, 1)],
         graph_inputs |-> <<2, 1>>, graph_outputs |-> [name \in {"y", "z"} |-> IF name = "y" THEN Result(n - 1) ELSE Result(0)],
         values |-> <<TermTensor("x1", 1), TermTensor("x2", 2)>>, specs |-> specs, layout |-> Layout(n),
         plan |-> [program |-> program, edges |-> build_dag(program, specs).edges, layout |-> Layout(n)]]
Relaid(s, layout) == [s EXCEPT !.layout = layout, !.plan.layout = layout]
Altered(s) ==
    {s, [s EXCEPT !.layout = Tail(@)], [s EXCEPT !.plan.program = Tail(@)],
     [s EXCEPT !.plan.edges = {e \in @ : e.consumer = 2}], [s EXCEPT !.values = <<@[1]>>],
     [s EXCEPT !.graph_outputs["z"] = Input(1)], Relaid(s, Append(s.layout, s.layout[1])),
     Relaid(s, [s.layout EXCEPT ![3].count = @ + 1]), Relaid(s, [s.layout EXCEPT ![1].count = 2]),
     Relaid(s, Tail(s.layout))}
Pairs(registers) == {<<a, b>> : a, b \in registers}
AllPrograms ==
    {Calls(<<first, second, third>>) : first \in {<<Input(1), WeightNamed("a")>>, <<Input(2), Input(1)>>},
        second \in Pairs({Input(1), Input(2), WeightNamed("a"), Result(0)}), third \in Pairs({Input(1), WeightNamed("b"), Result(0), Result(1)})}
MCBindSetups ==
    UNION {UNION {Altered(Right(program, specs)) : specs \in SpecsOf(Len(program))} : program \in BoundPrograms}
    \cup {Right(program, specs) : program \in AllPrograms, specs \in SpecsOf(3)}
=============================================================================
