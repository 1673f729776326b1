----------------------------- MODULE FixedPoint -----------------------------
(***************************************************************************)
(* The fixed point numbers of zkie-core (src/fixed_point.rs, src/          *)
(* field_convert.rs): W bits wide where the code has 64, with SCALE where  *)
(* the code has 10^18.  A result is [ok, q, r]; ok is FALSE for the typed  *)
(* overflow error.                                                         *)
(***************************************************************************)
EXTENDS Integers

CONSTANTS
    W,      \* the width of I18 (64)
    SCALE   \* SCALE_18

ASSUME FixedPointAssumption == W \in Nat \ {0} /\ SCALE \in Nat \ {0}

SIGNED_SHIFT == 2^(W - 1)
I18 == (0 - SIGNED_SHIFT)..(SIGNED_SHIFT - 1)

Failed == [ok |-> FALSE, q |-> 0, r |-> 0]

\* Variant for testing Complete: the quotient is truncated towards zero, as / does.
requantize_truncating(x) ==
    LET q == IF x < 0 THEN -((-x) \div SCALE) ELSE x \div SCALE
    IN  IF q \in I18 THEN [ok |-> TRUE, q |-> q, r |-> x - q * SCALE] ELSE Failed

requantize_raw(x) ==
    IF x \div SCALE \in I18 THEN [ok |-> TRUE, q |-> x \div SCALE, r |-> x % SCALE] ELSE Failed
requantize_mul(a, b) == requantize_raw(a * b)

div_quotient_remainder(n, d) ==
    IF d > 0 /\ (n * SCALE) \div d \in I18
    THEN [ok |-> TRUE, q |-> (n * SCALE) \div d, r |-> (n * SCALE) % d]
    ELSE Failed

\* checked_add of raw values.
checked_add(a, b) == IF a + b \in I18 THEN [ok |-> TRUE, q |-> a + b, r |-> 0] ELSE Failed

\* I18::from_f64(1 / k): rounded to the nearest.
Reciprocal(k) == (2 * SCALE + k) \div (2 * k)
=============================================================================
