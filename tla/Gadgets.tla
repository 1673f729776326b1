------------------------------- MODULE Gadgets -------------------------------
(***************************************************************************)
(* The gadgets every chip of zkie-core is composed of (src/chips): range   *)
(* checks by bits and by looked up limbs, addition, multiplication with    *)
(* rescaling, division, sums, means, dot products and table lookups.       *)
(*                                                                         *)
(* A cell holds an element of the field; what a proof shows is that the    *)
(* cells satisfy the gates.  For every gadget and input cells, the model   *)
(* either assigns the cells as the code's assign does, or lets them take   *)
(* any values that satisfy the gates.  The field is smaller than bn256's   *)
(* but as much larger than the products as they need.                      *)
(***************************************************************************)
EXTENDS FixedPoint, Sequences, Functions, TLC

CONSTANTS
    P,              \* the order of the field
    RemainderBits,  \* REMAINDER_BITS
    LimbBits,       \* LIMB_BITS; W is a multiple of it
    K,              \* the length of sums, means and dot products
    Table,          \* a function's table: the values at the points of its domain
    InputCells      \* per gadget, the field elements its input cells may hold

VARIABLES
    gadget,  \* the gadget under test
    inputs,  \* its input cells, unshifted
    acc,     \* the running cells of a sum or dot product, row by row
    cells,   \* the other cells
    status   \* "start", "assigned", "refused" or "witnessed"

gadgetVars == <<gadget, inputs, acc, cells, status>>

Fr == 0..(P - 1)
i64_to_fr(v) == v % P
Signed(c) == IF 2 * c > P THEN c - P ELSE c
Zero(expr) == expr % P = 0

-----------------------------------------------------------------------------
(* Range checks *)

Weighted(digits, base) == FoldFunction(+, 0, [i \in DOMAIN digits |-> digits[i] * base^i])

\* RangeCheckChip: the values that n boolean cells sum up to.
RangeCheck(n) ==
    LET bits == {b \in Fr : Zero(b * (1 - b))}
    IN  {Weighted(d, 2) % P : d \in [0..(n - 1) -> bits]}

\* LookupRangeCheckChip: the same by limbs of the table.
LookupRangeCheck(n) ==
    {Weighted(d, 2^LimbBits) % P : d \in [0..(n \div LimbBits - 1) -> 0..(2^LimbBits - 1)]}

Word == RangeCheck(W)
OperandWord == LookupRangeCheck(W)
Remainder == RangeCheck(RemainderBits)
DivisorMinusOne == RangeCheck(W - 1)

-----------------------------------------------------------------------------
(* Gates.  The output cells c and q hold the shifted value. *)

shifted(v) == (v + SIGNED_SHIFT) % P

AddGates(in, w) ==
    /\ shifted(in[1]) \in Word /\ shifted(in[2]) \in Word
    /\ Zero(shifted(in[1]) + shifted(in[2]) - w.q - SIGNED_SHIFT)

\* "mul operand shift", "dot product operand shift": the shifted copy is checked.
OperandShift(cell) == \E s \in OperandWord : Zero(s - cell - SIGNED_SHIFT)

\* Variant for testing Sound: the remainder is only bounded by its bits.
SlackGateUnused(w, bound) == TRUE

SlackGate(w, bound) == Zero(w.slack + w.r - (bound - 1))
RescaleGate(product, w) == Zero(product - (w.q - SIGNED_SHIFT) * SCALE - w.r)

MulGates(in, w) ==
    /\ OperandShift(in[1]) /\ OperandShift(in[2])
    /\ RescaleGate(in[1] * in[2], w) /\ SlackGate(w, SCALE)

DivGates(in, w) ==
    /\ Zero(in[1] * SCALE - (w.q - SIGNED_SHIFT) * in[2] - w.r)
    /\ SlackGate(w, in[2])
    /\ Zero(w.dm1 - in[2] + 1)

SumGates(w) == Zero(w.q - acc[K] - SIGNED_SHIFT)
MeanGates(w) ==
    /\ Zero(w.sum_shift - acc[K] - SIGNED_SHIFT)
    /\ RescaleGate(acc[K] * i64_to_fr(Reciprocal(K)), w) /\ SlackGate(w, SCALE)
DotGates(in, w) ==
    /\ \A i \in 1..(2 * K) : OperandShift(in[i])
    /\ RescaleGate(acc[K], w) /\ SlackGate(w, SCALE)

\* The table has the padding row that rows without the selector collapse to.
PadInput == -SIGNED_SHIFT
LookupRows == {<<i64_to_fr(x), i64_to_fr(Table[x])>> : x \in DOMAIN Table} \cup {<<i64_to_fr(PadInput), 0>>}
LookupGate(in, w) == <<in[1], i64_to_fr(w.q - SIGNED_SHIFT)>> \in LookupRows

\* "accumulation start" and "step", "base case" and "running total".
Term(row) == IF gadget = "dot" THEN inputs[row] * inputs[K + row] ELSE inputs[row]
RowGate(cur, row) == Zero(cur - (IF row = 1 THEN 0 ELSE acc[row - 1]) - Term(row))

\* The cells of a gadget, each with the values its range check leaves.
Rescaled == [q : Word, r : Remainder, slack : Remainder]
Candidates ==
    CASE gadget = "add" -> [q : Word]
      [] gadget = "mul" -> Rescaled
      [] gadget = "dot" -> Rescaled
      [] gadget = "div" -> [q : Word, r : Word, slack : Word, dm1 : DivisorMinusOne]
      [] gadget = "sum" -> [q : Word]
      [] gadget = "mean" -> [q : Word, r : Remainder, slack : Remainder, sum_shift : Word]
      [] gadget = "lookup" -> [q : {shifted(r[2]) : r \in LookupRows}]

Gates(w) ==
    CASE gadget = "add" -> AddGates(inputs, w)
      [] gadget = "mul" -> MulGates(inputs, w)
      [] gadget = "div" -> DivGates(inputs, w)
      [] gadget = "sum" -> SumGates(w)
      [] gadget = "mean" -> MeanGates(w)
      [] gadget = "dot" -> DotGates(inputs, w)
      [] gadget = "lookup" -> LookupGate(inputs, w)

-----------------------------------------------------------------------------
(* assign *)

Running == {"sum", "mean", "dot"}
Rows == IF gadget \in Running THEN K ELSE 0
Values == [i \in DOMAIN inputs |-> Signed(inputs[i])]
RawTerm(row) == IF gadget = "dot" THEN Values[row] * Values[K + row] ELSE Values[row]
PartialSum(n) == FoldFunction(+, 0, [row \in 1..n |-> RawTerm(row)])

\* The host's results; sums are checked at every row, products at the end.
AddResult == checked_add(Values[1], Values[2])
MulResult == requantize_mul(Values[1], Values[2])
DivResult == div_quotient_remainder(Values[1], Values[2])
DotResult == requantize_raw(PartialSum(K))
SumResult == IF \E n \in 1..K : PartialSum(n) \notin I18 THEN Failed
             ELSE [ok |-> TRUE, q |-> PartialSum(K), r |-> 0]
MeanResult == IF SumResult.ok THEN requantize_mul(PartialSum(K), Reciprocal(K)) ELSE Failed
LookupResult == IF Values[1] \in DOMAIN Table
                THEN [ok |-> TRUE, q |-> Table[Values[1]], r |-> 0] ELSE Failed

Computed ==
    CASE gadget = "add" -> AddResult
      [] gadget = "mul" -> MulResult
      [] gadget = "div" -> DivResult
      [] gadget = "dot" -> DotResult
      [] gadget = "sum" -> SumResult
      [] gadget = "mean" -> MeanResult
      [] gadget = "lookup" -> LookupResult

\* The cells the host witnesses for its result.
slack(v, bound) == i64_to_fr(bound - 1 - v.r)
RescaledCells(v) == [q |-> shifted(v.q), r |-> i64_to_fr(v.r), slack |-> slack(v, SCALE)]
DivCells(v) == [q |-> shifted(v.q), r |-> i64_to_fr(v.r), slack |-> slack(v, Values[2]),
                dm1 |-> i64_to_fr(Values[2] - 1)]
Witnessed(v) ==
    CASE gadget \in {"mul", "dot"} -> RescaledCells(v)
      [] gadget = "mean" -> RescaledCells(v) @@ [sum_shift |-> shifted(PartialSum(K))]
      [] gadget = "div" -> DivCells(v)
      [] OTHER -> [q |-> shifted(v.q)]

Arity(g) == CASE g \in {"add", "mul", "div"} -> 2
              [] g \in {"sum", "mean"} -> K
              [] g = "dot" -> 2 * K
              [] g = "lookup" -> 1

GadgetInit ==
    /\ gadget \in DOMAIN InputCells
    /\ inputs \in [1..Arity(gadget) -> {i64_to_fr(v) : v \in InputCells[gadget]}]
    /\ acc = <<>>
    /\ cells = [q |-> 0]
    /\ status = "start"

\* The inputs of assign are I18 values.
assign ==
    /\ status = "start" /\ acc = <<>>
    /\ \A i \in DOMAIN inputs : Values[i] \in I18
    /\ IF Computed.ok
       THEN /\ acc' = [row \in 1..Rows |-> i64_to_fr(PartialSum(row))]
            /\ cells' = Witnessed(Computed)
            /\ status' = "assigned"
       ELSE status' = "refused" /\ UNCHANGED <<acc, cells>>
    /\ UNCHANGED <<gadget, inputs>>

\* A row of a sum or dot product that satisfies its gate.
row_step ==
    /\ status = "start" /\ Len(acc) < Rows
    /\ \E cur \in Fr : RowGate(cur, Len(acc) + 1) /\ acc' = Append(acc, cur)
    /\ UNCHANGED <<gadget, inputs, cells, status>>

\* Any other cells that satisfy the gates.
satisfy ==
    /\ status = "start" /\ Len(acc) = Rows
    /\ \E w \in Candidates : Gates(w) /\ cells' = w
    /\ status' = "witnessed"
    /\ UNCHANGED <<gadget, inputs, acc>>

GadgetNext == assign \/ row_step \/ satisfy

GadgetSpec == GadgetInit /\ [][GadgetNext]_gadgetVars

-----------------------------------------------------------------------------
(* Properties *)

InRange == \A i \in DOMAIN inputs : Values[i] \in I18

\* What a gadget is to compute; a sum need not stay in range on the way.
Reference ==
    CASE gadget = "sum" -> IF PartialSum(K) \in I18 THEN {PartialSum(K)} ELSE {}
      [] gadget = "mean" -> IF PartialSum(K) \in I18
                            THEN {v.q : v \in {v \in {requantize_mul(PartialSum(K), Reciprocal(K))} : v.ok}}
                            ELSE {}
      [] gadget = "lookup" /\ Values[1] = PadInput -> {0}
      [] OTHER -> {v.q : v \in {v \in {Computed} : v.ok}}

\* Completeness: what assign witnesses satisfies every gate and range check.
Complete ==
    status = "assigned" =>
        /\ cells \in Candidates /\ Gates(cells)
        /\ \A row \in 1..Rows : RowGate(acc[row], row)

\* Soundness: on operands that are numbers, cells that satisfy the gates hold
\* the one result the fixed point arithmetic has; if it has none, by overflow
\* or because the divisor is not positive, no cells satisfy them.
Sound ==
    status = "witnessed" /\ InRange => {Signed(i64_to_fr(cells.q - SIGNED_SHIFT))} = Reference

\* Addition, multiplication and dot product bound their operands themselves:
\* no field element outside the range of I18 gets through.
OperandsBounded ==
    status = "witnessed" /\ gadget \in {"add", "mul", "dot"} => InRange

\* The gates of the gadgets admit the right result and nothing else.
GatesSound == Sound /\ OperandsBounded
=============================================================================
