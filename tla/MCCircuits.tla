------------------------------ MODULE MCCircuits ------------------------------
(***************************************************************************)
(* The gadgets and the chips composed of them, on numbers of 4 bits with   *)
(* scale 5.  A behaviour is the assignment of one gadget or of one chip.   *)
(***************************************************************************)
EXTENDS Gadgets, ComposedChips

VARIABLE part

\* Input cells of gadgets: every number and the first ones outside for two
\* operands, the edges for the dot product.
Around == -10..9
AtEdges == {-9, -8, -3, 0, 1, 7, 8}
MCInputCells ==
    [g \in {"add", "mul", "div", "sum", "mean", "dot", "lookup"} |->
        IF g = "dot" THEN AtEdges ELSE Around]
MCTable == [x \in {-2, 0, 1, 3} |-> IF x < 0 THEN 1 ELSE x + 2]

\* The tables of chips have gaps, as the quantised domains have.
MCExp == [x \in {-8, -2, 0, 1, 3, 7} |-> IF x < 0 THEN 1 ELSE x \div 2 + 2]
MCRsqrt == [v \in {1, 2, 3, 4, 5, 7} |-> 8 - v]
MCWeights == {-5, 2, 7}
MCInputs == {-8, -5, -3, -2, 0, 1, 3, 5, 7}

GadgetIdle == GadgetInit /\ gadget = "lookup" /\ inputs[1] = 0
ChipIdle == ChipInit /\ chip = "softmax" /\ \A n \in DOMAIN cell : cell[n] = IF n[1] = "x" THEN 0 ELSE 2

Init ==
    \/ part = "gadget" /\ ChipIdle /\ GadgetInit
    \/ part = "chip" /\ GadgetIdle /\ ChipInit

Next ==
    /\ UNCHANGED part
    /\ \/ part = "gadget" /\ GadgetNext /\ UNCHANGED chipVars
       \/ part = "chip" /\ ChipNext /\ UNCHANGED gadgetVars

Spec == Init /\ [][Next]_<<part, gadgetVars, chipVars>>
=============================================================================
