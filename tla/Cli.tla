--------------------------------- MODULE Cli ---------------------------------
(***************************************************************************)
(* The command line of zkie (src/cli.rs): parse_args takes the arguments   *)
(* one by one, a repeated flag replaces or extends what came before, and   *)
(* the configuration is validated once, at the end.                        *)
(***************************************************************************)
EXTENDS Integers, SequencesExt

CONSTANTS
    Arguments,   \* the arguments an operator may type: <<flag, value>>, value -1 if it is missing
    MaxArgs,     \* bound on their number
    Gib,         \* GIB, small
    MaxU64,      \* u64::MAX, small
    Defaults     \* RunConfig::defaults()

Amounts == {"budget", "hard", "cores", "fan_in"}
ASSUME ArgumentsAssumption ==
    \A a \in Arguments : a[1] \in Amounts \cup {"device", "best_effort", "unknown"} /\ a[2] \in Nat \cup {-1}
ASSUME AmountsAssumption == Gib \in Nat /\ MaxU64 \in Nat
ASSUME DefaultsAssumption ==
    Defaults \in [budget : Nat, hard : Nat, cores : Nat, fan_in : Nat, devices : {<<>>}, best_effort : BOOLEAN]

VARIABLES
    argv,    \* the arguments read so far
    config,  \* RunConfig
    outcome  \* "parsing", "accepted" or the CliError

cliVars == <<argv, config, outcome>>

Commands == {"plan", "prepare", "prove-queue", "status", "verify", "worker"}

CliInit ==
    /\ argv = <<>>
    /\ config = Defaults
    /\ \E command \in Commands \cup {"unknown", "missing"} :
        outcome = CASE command \in Commands -> "parsing"
                    [] command = "unknown" -> "UnknownCommand"
                    [] command = "missing" -> "MissingCommand"

\* checked_mul: -1 for a number of bytes that has no representation.
parse_gib(n) == IF n * Gib <= MaxU64 THEN n * Gib ELSE -1

\* Every integer flag, with the value the configuration gets.
Integer(flag, n) == IF flag \in {"budget", "hard"} THEN parse_gib(n) ELSE n

\* Variant for testing LastWins: a flag that is there already is left alone.
SetFirst(flag, n) ==
    config' = IF \E i \in DOMAIN argv : argv[i][1] = flag THEN config
              ELSE IF flag = "device" THEN [config EXCEPT !.devices = Append(@, n)]
              ELSE [config EXCEPT ![flag] = n]

set_flag(flag, n) ==
    config' = IF flag = "device" THEN [config EXCEPT !.devices = Append(@, n)]
              ELSE [config EXCEPT ![flag] = n]

\* One turn of the loop of parse_args.
argument ==
    /\ outcome = "parsing"
    /\ Len(argv) < MaxArgs
    /\ \E a \in Arguments :
        /\ argv' = Append(argv, a)
        /\ \/ /\ a[1] = "unknown"
              /\ outcome' = "UnknownArgument" /\ UNCHANGED config
           \/ /\ a[1] = "best_effort"
              /\ config' = [config EXCEPT !.best_effort = TRUE] /\ UNCHANGED outcome
           \/ /\ a[1] \notin {"unknown", "best_effort"} /\ a[2] = -1
              /\ outcome' = "MissingValue" /\ UNCHANGED config
           \/ /\ a[1] \notin {"unknown", "best_effort"} /\ a[2] # -1
              /\ IF Integer(a[1], a[2]) = -1
                 THEN outcome' = "InvalidInteger" /\ UNCHANGED config
                 ELSE set_flag(a[1], Integer(a[1], a[2])) /\ UNCHANGED outcome

validate_config ==
    IF config.budget = 0 \/ config.hard <= config.budget THEN "HardLimitNotAboveAdmission"
    ELSE IF config.cores = 0 THEN "ZeroCpuBudget"
    ELSE IF config.fan_in \notin 2..16 THEN "InvalidFanIn"
    ELSE IF ~IsInjective(config.devices) THEN "DuplicateCudaDevice"
    ELSE "accepted"

end_of_arguments ==
    /\ outcome = "parsing"
    /\ outcome' = validate_config
    /\ UNCHANGED <<argv, config>>

CliNext == argument \/ end_of_arguments

CliSpec == CliInit /\ [][CliNext]_cliVars

-----------------------------------------------------------------------------
(* Properties *)

Given(flag) == {i \in DOMAIN argv : argv[i][1] = flag}
Effective(flag) ==
    IF Given(flag) = {} THEN Defaults[flag] ELSE Integer(flag, argv[Max(Given(flag))][2])

\* However the flags are ordered and repeated, an accepted command line means:
\* the last value of each flag, the default where there is none, and all the
\* devices in their order.
LastWins ==
    outcome = "accepted" =>
        /\ \A flag \in Amounts : config[flag] = Effective(flag)
        /\ Len(config.devices) = Cardinality(Given("device"))
        /\ \A i \in Given("device") :
            config.devices[Cardinality({k \in Given("device") : k <= i})] = argv[i][2]

\* An accepted configuration passes the checks of the components it is given to:
\* the memory limits, a scheduler with a core, the fan-in of an aggregation plan
\* and a worker's device list.
AcceptedIsUsable ==
    outcome = "accepted" =>
        /\ 0 < config.budget /\ config.budget < config.hard
        /\ config.cores > 0 /\ config.fan_in \in 2..16 /\ IsInjective(config.devices)

\* parse_args: an accepted command line gives the configuration it asks for, and
\* one the rest of the runtime can use.
ConfigAsAsked == LastWins /\ AcceptedIsUsable
=============================================================================
