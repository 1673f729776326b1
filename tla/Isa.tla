-------------------------------- MODULE Isa --------------------------------
(***************************************************************************)
(* What an instruction of zkie-core's isa.rs computes on tensors, as the   *)
(* witness generator of zkie-prover (src/witness_cpu.rs) executes it.      *)
(*                                                                         *)
(* A tensor is a sequence of raw fixed point values.  A result is          *)
(* [err, values]; err is "none", or the kind of the BackendError.          *)
(***************************************************************************)
EXTENDS FixedPoint, Sequences

WideRange == (0 - 2^(2 * W - 1))..(2^(2 * W - 1) - 1)     \* i128

Tensor(values) == [err |-> "none", values |-> values]
Error(kind) == [err |-> kind, values |-> <<>>]

\* collect() of the cells of an output: the values, or the overflow of one of them.
Collected(cells) ==
    IF \A i \in DOMAIN cells : cells[i].ok
    THEN Tensor([i \in DOMAIN cells |-> cells[i].q])
    ELSE Error("ArithmeticOverflow")

\* The sum of a sequence, added up in its order and within i128.
WideSum(terms) ==
    LET partial[j \in 0..Len(terms)] == IF j = 0 THEN 0 ELSE partial[j - 1] + terms[j]
    IN  [ok |-> \A j \in 0..Len(terms) : partial[j] \in WideRange, q |-> partial[Len(terms)], r |-> 0]

dot_general(operands, i) ==
    LET rows == i.m
        columns == i.n
        a(row, inner) == operands[1][1 + IF i.trans_a THEN inner * rows + row ELSE row * i.k + inner]
        b(inner, column) == operands[2][1 + IF i.trans_b THEN column * i.k + inner ELSE inner * columns + column]
        terms(row, column) == [inner \in 1..i.k |-> a(row, inner - 1) * b(inner - 1, column)]
        cell(position) ==
            LET sum == WideSum(terms(position \div columns, position % columns))
            IN  IF sum.ok THEN requantize_raw(sum.q) ELSE Failed
    IN  IF i.batch_dims # <<>> THEN Error("UnsupportedInstruction")
        ELSE IF Len(operands) # 2 THEN Error("ShapeMismatch")
        ELSE IF Len(operands[1]) # rows * i.k \/ Len(operands[2]) # i.k * columns
        THEN Error("ShapeMismatch")
        ELSE Collected([p \in 1..(rows * columns) |-> cell(p - 1)])

\* The operand of a broadcast at a position, counted from 1.
Broadcast(tensor, position) == tensor[((position - 1) % Len(tensor)) + 1]
MaxLen(a, b) == IF Len(a) >= Len(b) THEN Len(a) ELSE Len(b)

eltwise(operands, add) ==
    LET a == operands[1]
        b == operands[2]
        length == MaxLen(a, b)
    IN  IF Len(operands) # 2 THEN Error("ShapeMismatch")
        ELSE IF Len(a) = 0 \/ Len(b) = 0 THEN Error("ShapeMismatch")
        ELSE IF length % Len(a) # 0 \/ length % Len(b) # 0 THEN Error("ShapeMismatch")
        ELSE Collected([p \in 1..length |->
                IF add THEN checked_add(Broadcast(a, p), Broadcast(b, p))
                       ELSE requantize_mul(Broadcast(a, p), Broadcast(b, p))])

\* The checked sum of raw values: every partial sum stays an I18.
CheckedSum(values) ==
    LET partial[j \in 0..Len(values)] == IF j = 0 THEN 0 ELSE partial[j - 1] + values[j]
    IN  IF \A j \in 0..Len(values) : partial[j] \in I18
        THEN [ok |-> TRUE, q |-> partial[Len(values)], r |-> 0] ELSE Failed

Epsilon(epsilon_milli) == (2 * epsilon_milli * SCALE + 1000) \div 2000

\* A requantized product of operands that may already have failed.
Times(a, b) == IF a.ok /\ b.ok THEN requantize_mul(a.q, b.q) ELSE Failed
Plus(a, b) == IF a.ok /\ b.ok THEN checked_add(a.q, b.q) ELSE Failed
Exactly(v) == [ok |-> TRUE, q |-> v, r |-> 0]

\* The variance plus epsilon, which is looked up.
LookedUp(x, i) ==
    LET squares == [p \in DOMAIN x |-> requantize_mul(x[p], x[p])]
        sum == IF \A p \in DOMAIN x : squares[p].ok
               THEN CheckedSum([p \in DOMAIN x |-> squares[p].q]) ELSE Failed
    IN  Plus(Times(sum, Exactly(Reciprocal(i.dim))), Exactly(Epsilon(i.epsilon_milli)))

\* tables: the lookup table of each <<dim, epsilon>>, a function from the looked up to the result.
rms_norm(operands, i, tables) ==
    LET x == operands[1]
        weight == operands[2]
        key == <<i.dim, i.epsilon_milli>>
        entry == LookedUp(x, i)
        cell(p, rsqrt) == Times(requantize_mul(x[p], rsqrt), Exactly(weight[p]))
    IN  IF Len(operands) # 2 THEN Error("ShapeMismatch")
        ELSE IF i.dim = 0 \/ Len(x) # i.dim \/ Len(weight) # i.dim THEN Error("ShapeMismatch")
        ELSE IF ~entry.ok THEN Error("ArithmeticOverflow")
        ELSE IF key \notin DOMAIN tables THEN Error("NoDomain")
        ELSE IF entry.q \notin DOMAIN tables[key] THEN Error("NotInDomain")
        ELSE Collected([p \in 1..i.dim |-> cell(p, tables[key][entry.q])])

execute_instruction(i, operands, tables) ==
    CASE i.op = "DotGeneral" -> dot_general(operands, i)
      [] i.op = "Add" -> eltwise(operands, TRUE)
      [] i.op = "Mul" -> eltwise(operands, FALSE)
      [] i.op = "RmsNorm" -> rms_norm(operands, i, tables)
      [] OTHER -> Error("UnsupportedInstruction")
=============================================================================
