------------------------------- MODULE MCRunDb -------------------------------
(* Two pairs of jobs, of which a behaviour uses one: a witness, whose output  *)
(* is published after its attempt, under an aggregate, which is verified      *)
(* inside its attempt; and a key under a verification, which has no output.   *)
EXTENDS RunDb

PairKinds == <<"NativeAggregate", "Witness", "LeafVerification", "Prepare">>
\* The predecessor has the larger id, so one pass of refresh_readiness meets
\* the successor first.
PairEdges == {<<2, 1>>, <<4, 3>>}

OnePair ==
    \/ state'[1] = "absent" /\ state'[2] = "absent"
    \/ state'[3] = "absent" /\ state'[4] = "absent"

PairNext == DbNext /\ OnePair
PairSpec == DbInit /\ [][PairNext]_dbVars
=============================================================================
