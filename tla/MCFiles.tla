-------------------------------- MODULE MCFiles --------------------------------
(***************************************************************************)
(* The parts of the runtime that meet in files: the content store, the     *)
(* files of witness artifacts, the messages between launcher and worker,   *)
(* and the command line that starts them.  They share no state, so a       *)
(* behaviour is one of a single part while the others stay as they began.  *)
(***************************************************************************)
EXTENDS ContentStore, WitnessFile, WorkerProtocol, Cli

VARIABLE part

\* Two publishers of one object (a retry, or two processes) in a new store
\* with a link somebody left in staging; and two publishers of an object each
\* in an old store that may lose its power.
Kills ==
    [want |-> [p \in Publishers |-> "x"], foreign |-> {<<"link", "foreign">>}, fresh |-> TRUE,
     late_writers |-> TRUE, losses |-> 0, decays |-> 1]
Power ==
    [want |-> [p \in Publishers |-> IF p = "q" THEN "y" ELSE "x"], foreign |-> {}, fresh |-> FALSE,
     late_writers |-> TRUE, losses |-> 1, decays |-> 0]
MCStoreSetups == {Kills, Power}

\* Job fields that come back from the wire as they were sent; the names with
\* '=' and the values with a blank at the end, which do not, are left out.
PlainFields ==
    {{}, {<<<<"a">>, <<"b", Equals, "c", Blank, "d">>>>, <<<<"b">>, <<"a">>>>}}
AnyPlacements == {<<TRUE, 1, <<>>>>, <<TRUE, 2, <<0, 1>>>>, <<FALSE, 1, <<>>>>, <<TRUE, 1, <<0, 0>>>>}
PeakDigits == {<<"1", "2">>, <<"1">>}

\* Amounts up to 7 GiB of 4 bytes in 4-bit integers.
MCArguments ==
    ({"budget", "hard"} \X {-1, 1, 2, 3, 5}) \cup ({"device"} \X {-1, 0, 1})
        \cup ({"cores"} \X {0, 2}) \cup ({"fan_in"} \X {1, 2, 16, 17})
        \cup {<<"best_effort", 0>>, <<"unknown", 0>>}
MCDefaults ==
    [budget |-> 4, hard |-> 8, cores |-> 1, fan_in |-> 4, devices |-> <<>>, best_effort |-> FALSE]

StoreIdle == setup = Kills /\ StoreInit
CliIdle == outcome = "parsing" /\ CliInit

Init ==
    \/ part = "store" /\ StoreInit /\ LinkInit /\ WorkerInit /\ CliIdle
    \/ part = "link" /\ LinkInit /\ StoreIdle /\ WorkerInit /\ CliIdle
    \/ part = "worker" /\ WorkerInit /\ StoreIdle /\ LinkInit /\ CliIdle
    \/ part = "cli" /\ CliInit /\ StoreIdle /\ LinkInit /\ WorkerInit

Next ==
    /\ UNCHANGED part
    /\ \/ part = "store" /\ StoreNext /\ UNCHANGED <<linkVars, workerVars, cliVars>>
       \/ part = "link" /\ LinkNext /\ UNCHANGED <<storeVars, workerVars, cliVars>>
       \/ part = "worker" /\ WorkerNext /\ UNCHANGED <<storeVars, linkVars, cliVars>>
       \/ part = "cli" /\ CliNext /\ UNCHANGED <<storeVars, linkVars, workerVars>>

Spec == Init /\ [][Next]_<<part, storeVars, linkVars, workerVars, cliVars>>
=============================================================================
