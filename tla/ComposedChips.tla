---------------------------- MODULE ComposedChips ----------------------------
(***************************************************************************)
(* The chips of zkie-core that are composed of gadgets (src/chips/softmax, *)
(* layer_norm, rms_norm): every gadget witnesses copies of its operands,   *)
(* and constrain_equal ties each copy to the cell that produced the value. *)
(*                                                                         *)
(* A chip is the list of its rows: the gadget, the cells its operands are  *)
(* linked to and the cell of its result.  Rows are satisfied one by one    *)
(* with any values their gates admit (module Gadgets shows which); an      *)
(* operand without a link may hold anything.  Some gadgets work on shifted *)
(* values: the bridges between the representations are rows too.           *)
(***************************************************************************)
EXTENDS FixedPoint, SequencesExt, Functions

CONSTANTS
    Chips,     \* the chips
    Width,         \* their number of inputs
    Inputs,    \* the values inputs are taken from
    Weights,   \* the values weights are taken from
    Epsilon,   \* epsilon, raw
    EpsilonCells, \* the values the epsilon operand may hold
    Exp,       \* exp_lookup's table: a function
    Rsqrt      \* rsqrt_chip's table: a function

VARIABLES
    chip,  \* the chip
    next,  \* the row to satisfy next
    cell   \* the cells so far, by name

chipVars == <<chip, next, cell>>

WordCells == 0..(2^W - 1)
Is == 1..Width
Each(name) == [i \in Is |-> <<name, i>>]
One(name) == <<name, 0>>
Row(op, operands, result) == [op |-> op, operands |-> operands, result |-> result]
\* One row for every input.
RowsOf(op, operands(_), name) == [i \in Is |-> Row(op, operands(i), <<name, i>>)]
Free == One("free")

-----------------------------------------------------------------------------
(* The rows of the chips *)

\* Variant for testing OutputsFollowInputs: a link is forgotten.
DivideRowsUnlinked == RowsOf("div", LAMBDA i : <<<<"exp", i>>, Free>>, "out")

ExpRows == RowsOf("exp", LAMBDA i : <<<<"x", i>>>>, "exp")
ExpSumRow == << Row("sum", Each("exp"), One("sum")) >>
DivideRows == RowsOf("div", LAMBDA i : <<<<"exp", i>>, One("sum")>>, "out")

MeanRows == << Row("mean", Each("x"), One("mean")), Row("negate", <<One("mean")>>, One("neg_mean")) >>
DiffRows ==
    RowsOf("shift", LAMBDA i : <<<<"x", i>>>>, "x_shifted")
    \o RowsOf("add", LAMBDA i : <<<<"x_shifted", i>>, One("neg_mean")>>, "diff")
SquareRows ==
    RowsOf("unshift", LAMBDA i : <<<<"diff", i>>>>, "diff_unshifted")
    \o RowsOf("mul", LAMBDA i : <<<<"diff_unshifted", i>>, <<"diff_unshifted", i>>>>, "square")
\* The mean of the squares, of both norms.
SquareMeanRows(name) ==
    RowsOf("unshift", LAMBDA i : <<<<"square", i>>>>, "square_unshifted")
    \o << Row("mean", Each("square_unshifted"), One(name)) >>
VarianceRows == SquareMeanRows("variance")
\* rsqrt of a mean plus epsilon.
RsqrtRows(mean) ==
    << Row("epsilon", <<>>, One("epsilon")),
       Row("add", <<One(mean), One("epsilon")>>, One("vpe")),
       Row("unshift", <<One("vpe")>>, One("vpe_unshifted")),
       Row("rsqrt", <<One("vpe_unshifted")>>, One("rsqrt")) >>
ScaleRows == RowsOf("mul", LAMBDA i : <<<<"diff_unshifted", i>>, One("rsqrt")>>, "out")

RmsSquareRows == RowsOf("mul", LAMBDA i : <<<<"x", i>>, <<"x", i>>>>, "square")
RmsMeanRows == SquareMeanRows("mean_sq")
RmsRsqrtRows == RsqrtRows("mean_sq")
RmsScaleRows == RowsOf("mul", LAMBDA i : <<<<"x", i>>, One("rsqrt")>>, "normed")
RmsWeightRows ==
    RowsOf("unshift", LAMBDA i : <<<<"normed", i>>>>, "normed_unshifted")
    \o RowsOf("mul", LAMBDA i : <<<<"normed_unshifted", i>>, <<"weight", i>>>>, "out")

SoftmaxRows == ExpRows \o ExpSumRow \o DivideRows
LayerNormRows == MeanRows \o DiffRows \o SquareRows \o VarianceRows \o RsqrtRows("variance") \o ScaleRows
RmsNormRows == RmsSquareRows \o RmsMeanRows \o RmsRsqrtRows \o RmsScaleRows \o RmsWeightRows

ChipRows == CASE chip = "softmax" -> SoftmaxRows
              [] chip = "layer_norm" -> LayerNormRows
              [] chip = "rms_norm" -> RmsNormRows

-----------------------------------------------------------------------------
(* The gadgets of a row: the results its gates admit for its operands *)

Total(v) == FoldFunction(+, 0, v)
Ok(result) == {v \in {result} : v.ok}
Shifted(result) == {v.q + SIGNED_SHIFT : v \in Ok(result)}

\* The table, and the padding row.
Lookup(table, v) ==
    IF v \in DOMAIN table THEN {table[v]} ELSE IF v = -SIGNED_SHIFT THEN {0} ELSE {}

\* "layer norm mean negation bridge", on shifted values.
Negate(m) == {2 * SIGNED_SHIFT - m}

\* assign_add_row and assign_mul_row, whose operands are range checked.
AddRow(v) == IF {v[1], v[2]} \subseteq WordCells THEN {v[1] + v[2] - SIGNED_SHIFT} \cap WordCells ELSE {}
MulRow(v) == IF {v[1], v[2]} \subseteq I18 THEN Shifted(requantize_mul(v[1], v[2])) ELSE {}
Shift(u) == {u + SIGNED_SHIFT}
Unshift(s) == {s - SIGNED_SHIFT}

Results(op, v) ==
    CASE op = "exp" -> Lookup(Exp, v[1])
      [] op = "rsqrt" -> Lookup(Rsqrt, v[1])
      [] op = "sum" -> {Total(v)} \cap I18
      [] op = "mean" -> IF Total(v) \in I18 THEN Shifted(requantize_mul(Total(v), Reciprocal(Width))) ELSE {}
      [] op = "div" -> Shifted(div_quotient_remainder(v[1], v[2]))
      [] op = "mul" -> MulRow(v)
      [] op = "add" -> AddRow(v)
      [] op = "negate" -> Negate(v[1])
      [] op = "shift" -> Shift(v[1])
      [] op = "unshift" -> Unshift(v[1])
      [] op = "epsilon" -> {e + SIGNED_SHIFT : e \in EpsilonCells}

\* The values an operand's copy may hold.
Copies(name) == IF name = Free THEN I18 \cup WordCells ELSE {cell[name]}
OperandTuples(row) ==
    {v \in [DOMAIN row.operands -> UNION {Copies(row.operands[i]) : i \in DOMAIN row.operands}] :
        \A i \in DOMAIN row.operands : v[i] \in Copies(row.operands[i])}

ChipInit ==
    /\ chip \in Chips
    /\ next = 1
    /\ \E x \in [Is -> Inputs], w \in [Is -> Weights] :
        /\ chip # "rms_norm" => \A i, j \in Is : w[i] = w[j]
        /\ cell = [n \in Range(Each("x")) \cup Range(Each("weight")) |->
                        IF n[1] = "x" THEN x[n[2]] ELSE w[n[2]]]

\* The next row is satisfied.
assign_row ==
    /\ next <= Len(ChipRows)
    /\ LET row == ChipRows[next]
       IN  \E v \in OperandTuples(row) : \E r \in Results(row.op, v) :
               cell' = [n \in DOMAIN cell \cup {row.result} |-> IF n = row.result THEN r ELSE cell[n]]
    /\ next' = next + 1
    /\ UNCHANGED chip

ChipNext == assign_row

ChipSpec == ChipInit /\ [][ChipNext]_chipVars

-----------------------------------------------------------------------------
(* What assign computes on the host and returns; Failed where it panics or *)
(* returns an error                                                        *)

X == [i \in Is |-> cell[<<"x", i>>]]
Weight == [i \in Is |-> cell[<<"weight", i>>]]
Every(v) == \A i \in Is : v[i].ok
Raw(v) == [i \in Is |-> v[i].q]

HostSum(v) ==
    IF \A n \in Is : Total([i \in 1..n |-> v[i]]) \in I18 THEN [ok |-> TRUE, q |-> Total(v), r |-> 0] ELSE Failed
HostMean(v) == IF HostSum(v).ok THEN requantize_mul(HostSum(v).q, Reciprocal(Width)) ELSE Failed
HostLookup(table, v) == IF v \in DOMAIN table THEN [ok |-> TRUE, q |-> table[v], r |-> 0] ELSE Failed
AllFailed == [i \in Is |-> Failed]

HostSoftmax ==
    LET exps == [i \in Is |-> HostLookup(Exp, X[i])]
        sum == HostSum(Raw(exps))
    IN  IF Every(exps) /\ sum.ok THEN [i \in Is |-> div_quotient_remainder(exps[i].q, sum.q)]
        ELSE AllFailed

\* rsqrt of a mean plus epsilon.
HostRsqrt(mean, epsilon) ==
    LET vpe == checked_add(mean.q, epsilon)
    IN  IF mean.ok /\ vpe.ok THEN HostLookup(Rsqrt, vpe.q) ELSE Failed

HostLayerNorm(epsilon) ==
    LET mean == HostMean(X)
        diffs == [i \in Is |-> checked_add(X[i], -mean.q)]
        squares == [i \in Is |-> requantize_mul(diffs[i].q, diffs[i].q)]
        rsqrt == HostRsqrt(HostMean(Raw(squares)), epsilon)
    IN  IF mean.ok /\ -mean.q \in I18 /\ Every(diffs) /\ Every(squares) /\ rsqrt.ok
        THEN [i \in Is |-> requantize_mul(diffs[i].q, rsqrt.q)] ELSE AllFailed

HostRmsNorm(epsilon) ==
    LET squares == [i \in Is |-> requantize_mul(X[i], X[i])]
        rsqrt == HostRsqrt(HostMean(Raw(squares)), epsilon)
        normed == [i \in Is |-> requantize_mul(X[i], rsqrt.q)]
    IN  IF Every(squares) /\ rsqrt.ok /\ Every(normed)
        THEN [i \in Is |-> requantize_mul(normed[i].q, Weight[i])] ELSE AllFailed

Host(epsilon) == CASE chip = "softmax" -> HostSoftmax
                   [] chip = "layer_norm" -> HostLayerNorm(epsilon)
                   [] chip = "rms_norm" -> HostRmsNorm(epsilon)

-----------------------------------------------------------------------------
(* Properties *)

EpsilonCell == IF One("epsilon") \in DOMAIN cell THEN cell[One("epsilon")] - SIGNED_SHIFT ELSE Epsilon

\* The chips' soundness: once all rows are satisfied, the output cells are the
\* outputs that assign returns for the values in the input cells and in the
\* epsilon operand, which no link ties to the constant.  (On the padding row
\* of a table, and where only a partial sum overflows, the host refuses.)
OutputsFollowInputs ==
    next > Len(ChipRows) =>
        LET host == Host(EpsilonCell)
        IN  Every(host) => \A i \in Is : cell[<<"out", i>>] = host[i].q + SIGNED_SHIFT

\* The chips' completeness: while assign succeeds on the host, the rows can be
\* satisfied to the end.
HostCompletes ==
    next <= Len(ChipRows) /\ EpsilonCell = Epsilon /\ Every(Host(Epsilon)) =>
        LET row == ChipRows[next]
        IN  \E v \in OperandTuples(row) : Results(row.op, v) # {}

\* Softmax, LayerNorm and RmsNorm are sound and complete, row by row.
ChipsFaithful == OutputsFollowInputs /\ HostCompletes
=============================================================================
