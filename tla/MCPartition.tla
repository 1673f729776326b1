----------------------------- MODULE MCPartition -----------------------------
(* Programs of up to four instructions: a chain, a value read by two later   *)
(* instructions and skipping one, and one with a forward reference.          *)
EXTENDS Partition

Reading(reads) == [i \in DOMAIN reads |-> [inputs |-> [j \in DOMAIN reads[i] |-> Virtual(reads[i][j])]]]
MCPrograms ==
    {Reading(<<<<>>, <<0>>, <<1>>>>), Reading(<<<<>>, <<0>>, <<0, 0>>, <<2, 1>>>>), Reading(<<<<>>, <<2>>, <<>>>>)}
MCCosts == {[ram |-> 1, k |-> 1], [ram |-> 2, k |-> 1], [ram |-> 9, k |-> 1], [ram |-> 1, k |-> 7]}
AllRanges == {<<s, e>> \in (0..3) \X (1..4) : s < e}
\* By length, the same plus overhead, and one where a pair costs most.
MCShardCosts ==
    {[r \in AllRanges |-> [ram |-> r[2] - r[1], k |-> 1]],
     [r \in AllRanges |-> [ram |-> 2 * (r[2] - r[1]) - 1, k |-> r[2] - r[1]]],
     [r \in AllRanges |-> [ram |-> IF r[2] - r[1] = 2 /\ r[1] > 0 THEN 9 ELSE 1, k |-> 2]]}
MCHintSets == UNION {[B -> 1..2] : B \in {{}, {1}, {2}, {1, 2}, {2, 3}}}
=============================================================================
