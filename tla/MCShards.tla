------------------------------- MODULE MCShards -------------------------------
(***************************************************************************)
(* The way of a program into shards: planning, binding the shards to local *)
(* programs, and generating their witnesses.  A behaviour is one of a      *)
(* single stage, on instances of its own, while the others stay idle.      *)
(***************************************************************************)
EXTENDS MCPartition, MCShardBinding, MCWitness

VARIABLE part

\* A planner that has refused its program.
PlanIdle ==
    /\ program = Reading(<<<<>>, <<2>>, <<>>>>)
    /\ costs = [i \in 1..3 |-> [ram |-> 1, k |-> 1]]
    /\ cost_model = [r \in AllRanges |-> [ram |-> r[2] - r[1], k |-> 1]]
    /\ hints = <<>>
    /\ start = 0 /\ end = 0 /\ ranges = <<>> /\ plan_dag = NoDag /\ witness = <<>>
    /\ plan = "refused"
BindIdle == binding = (CHOOSE s \in BindSetups : TRUE) /\ BindInit
WitnessIdle == setup = Setup(Batched, <<1>>, Plenty, <<6, -3>>) /\ WitnessInit

Init ==
    \/ part = "plan" /\ BindIdle /\ WitnessIdle /\ PlanInit
    \/ part = "bind" /\ PlanIdle /\ WitnessIdle /\ BindInit
    \/ part = "witness" /\ PlanIdle /\ BindIdle /\ WitnessInit

Next ==
    /\ UNCHANGED part
    /\ \/ part = "plan" /\ PlanNext /\ UNCHANGED <<bindVars, witnessVars>>
       \/ part = "bind" /\ BindNext /\ UNCHANGED <<planVars, witnessVars>>
       \/ part = "witness" /\ WitnessNext /\ UNCHANGED <<planVars, bindVars>>

\* The idle planner is at its end, so fairness asks nothing of it.
Spec == Init /\ [][Next]_<<part, planVars, bindVars, witnessVars>> /\ WF_planVars(PlanNext)
=============================================================================
