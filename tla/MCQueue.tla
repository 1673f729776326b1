------------------------------- MODULE MCQueue -------------------------------
(* Instances of Queue for TLC. *)
EXTENDS Queue

\* The plan of the repository's end-to-end test, with two shards: both feed an
\* aggregate, whose id sorts before theirs.
BroadcastKinds == [j \in 1..3 |-> IF j = 1 THEN "NativeAggregate" ELSE "LeafProof"]
BroadcastEdges == {<<2, 1>>, <<3, 1>>}
UnitRequest == [j \in Jobs |-> 1]

\* A key, a proof made with it, and the verification of the proof.
ChainKinds == <<"Prepare", "LeafProof", "LeafVerification">>
ChainEdges == {<<1, 2>>, <<2, 3>>}

\* A witness and the aggregate over it.
PairEdges == {<<1, 2>>}
PairKinds == [j \in 1..2 |-> IF j = 1 THEN "Witness" ELSE "NativeAggregate"]

\* Everywhere but where the plan is being persisted, and where an output that
\* has been declared complete is being published.
SafeAborts == ProgramPoints \ {"idle", "returned", "insert", "edges", "publish", "commit"}
=============================================================================
