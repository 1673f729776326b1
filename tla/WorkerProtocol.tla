--------------------------- MODULE WorkerProtocol ---------------------------
(***************************************************************************)
(* The worker protocol of zkie-runtime: the messages of src/worker.rs, the *)
(* launcher, and the worker command of src/bin/zkie.rs.                    *)
(*                                                                         *)
(* A message is a sequence of lines <<key, value>>; a value is a sequence  *)
(* of characters, or one token where the code only compares.  The spec is  *)
(* in the attempt's own directory; the result path is the caller's choice  *)
(* and here all attempts share one.  An old worker, in a process group of  *)
(* its own, may outlive its launcher.                                      *)
(***************************************************************************)
EXTENDS Integers, SequencesExt

CONSTANTS
    Attempts,    \* 1..n: the attempts of one job, in the order they are launched
    JobFields,   \* the field maps of a job: sets of <<key, value>>, keys and values character sequences
    Placements,  \* <<absolute, threads, devices>>: the rest of a spec
    Peaks,       \* measurements of a worker, as digit sequences
    Backend,     \* FALSE: no proving backend is registered, as in this repository
    MayDie       \* TRUE: worker and launcher may be killed

VARIABLES
    launcher,    \* [pc, attempt]: the launch in progress
    spec_file,   \* worker-spec.txt of each attempt
    result_file, \* the file at result_path
    worker,      \* per attempt [pc, spec, result, status]
    launched,    \* history: the specs written so far
    produced,    \* history: the results workers have finished writing
    returned     \* per attempt, what launch returned

workerVars == <<launcher, spec_file, result_file, worker, launched, produced, returned>>

-----------------------------------------------------------------------------
(* Messages *)

\* The two characters the code treats in a way of their own.
Blank == "blank"
Equals == "equals"

Token(x) == <<x>>
Line(key, value) == <<key, value>>
LinesOf(text, key) == {i \in DOMAIN text : text[i][1] = key}
LastValue(text, key) == text[Max(LinesOf(text, key))][2]
Nth(lines, k) == CHOOSE i \in lines : Cardinality({m \in lines : m <= i}) = k
Malformed == [ok |-> FALSE]

validate_token(key) == key # <<>> /\ Blank \notin Range(key)
validate_value(value) == value = <<>> \/ Head(value) # Blank

\* The fields of a job are a map with valid names and values, and paths and
\* measurements are texts.
ASSUME AttemptsAssumption == Attempts \subseteq Nat \ {0}
ASSUME FieldsAssumption ==
    \A fields \in JobFields :
        /\ IsFiniteSet(fields)
        /\ \A f \in fields :
            /\ f = <<f[1], f[2]>> /\ f[1] \in Seq(Range(f[1])) /\ f[2] \in Seq(Range(f[2]))
            /\ validate_token(f[1]) /\ validate_value(f[2])
            /\ \A g \in fields : f[1] = g[1] => f = g
ASSUME PlacementsAssumption == \A placement \in Placements : placement[3] \in Seq(Range(placement[3]))
ASSUME PeaksAssumption == \A peak \in Peaks : peak # <<>> /\ peak \in Seq(Range(peak))

\* split_once('='): what is before and after the first one.
FirstEquals(s) == Min({i \in DOMAIN s : s[i] = Equals})
FieldOf(s) == <<SubSeq(s, 1, FirstEquals(s) - 1), SubSeq(s, FirstEquals(s) + 1, Len(s))>>

\* trim_end of split_pair.
trim_end(s) ==
    SubSeq(s, 1, Max({0} \cup {i \in DOMAIN s : s[i] # Blank}))

split_field(s) == FieldOf(s)

Validate(spec) ==
    /\ spec.version = 1
    /\ spec.absolute
    /\ spec.threads # 0
    /\ IsInjective(spec.devices)

encode_spec(spec) ==
    <<Line("zkie-worker-spec", Token(spec.version)), Line("attempt_id", Token(spec.attempt))>>
      \o [i \in 1..Cardinality(spec.fields) |->
            LET field == SetToSeq(spec.fields)[i]
            IN  Line("job_field", field[1] \o <<Equals>> \o field[2])]
      \o <<Line("output_dir", Token(spec.absolute)), Line("rayon_threads", Token(spec.threads))>>
      \o [i \in DOMAIN spec.devices |-> Line("cuda_device", Token(spec.devices[i]))]

SpecKeys == {"attempt_id", "job_field", "output_dir", "rayon_threads", "cuda_device"}

\* WorkerJob::new: a later field of the same name replaces an earlier one.
WorkerJob(fields) ==
    {fields[i] : i \in {i \in DOMAIN fields :
        \A k \in DOMAIN fields : k > i => fields[k][1] # fields[i][1]}}

decode_spec(text) ==
    LET fields == [i \in LinesOf(text, "job_field") |-> split_field(trim_end(text[i][2]))]
        cuda == LinesOf(text, "cuda_device")
        spec == [version |-> text[1][2][1],
                 attempt |-> LastValue(text, "attempt_id")[1],
                 fields |-> WorkerJob(fields),
                 absolute |-> LastValue(text, "output_dir")[1],
                 threads |-> LastValue(text, "rayon_threads")[1],
                 devices |-> [k \in 1..Cardinality(cuda) |-> text[Nth(cuda, k)][2][1]]]
    IN  IF /\ text # <<>> /\ text[1][1] = "zkie-worker-spec" /\ text[1][2] = Token(1)
           /\ \A i \in 2..Len(text) : text[i][1] \in SpecKeys
           /\ \A key \in {"attempt_id", "output_dir", "rayon_threads"} : LinesOf(text, key) # {}
           /\ \A i \in DOMAIN fields : Equals \in Range(text[i][2])
           /\ \A i \in DOMAIN fields : validate_token(fields[i][1]) /\ validate_value(fields[i][2])
           /\ Validate(spec)
        THEN [ok |-> TRUE, spec |-> spec]
        ELSE Malformed

\* A result: the attempt of the spec it answers, the outcome and the peak.
encode_result(result) ==
    <<Line("zkie-worker-result", Token(1)), Line("attempt_id", Token(result.attempt)),
      Line("status", Token(result.status)), Line("peak_resident_bytes", result.peak)>>

ResultKeys == {"attempt_id", "status", "peak_resident_bytes"}

decode_result(text) ==
    IF /\ text # <<>> /\ text[1] = Line("zkie-worker-result", Token(1))
       /\ \A i \in 2..Len(text) : text[i][1] \in ResultKeys
       /\ \A key \in ResultKeys : LinesOf(text, key) # {} /\ LastValue(text, key) # <<>>
       /\ LastValue(text, "status")[1] \in {"succeeded", "failed"}
    THEN [ok |-> TRUE,
          result |-> [attempt |-> LastValue(text, "attempt_id")[1],
                      status |-> LastValue(text, "status")[1],
                      peak |-> LastValue(text, "peak_resident_bytes")]]
    ELSE Malformed

\* Variant for testing OwnResult: the attempt is not compared.
VerifyAnyAttempt(result, spec) == TRUE

\* verify_against: run, job and attempt; one run and one job here.
verify_against(result, spec) == result.attempt = spec.attempt

\* What a write that is not atomic can leave: a prefix of the text.
Truncations(text) ==
    {<<>>} \cup UNION {
        {Append(SubSeq(text, 1, n - 1), Line(text[n][1], SubSeq(text[n][2], 1, k)))
            : k \in 0..Len(text[n][2])} : n \in 1..Len(text)}

-----------------------------------------------------------------------------
NoSpec == [attempt |-> 0]
NoResult == [attempt |-> 0]

WorkerInit ==
    /\ launcher = [pc |-> "idle", attempt |-> 0]
    /\ spec_file = [a \in Attempts |-> <<>>]
    /\ result_file = <<>>
    /\ worker = [a \in Attempts |-> [pc |-> "none", spec |-> NoSpec, result |-> NoResult]]
    /\ launched = {}
    /\ produced = {}
    /\ returned = [a \in Attempts |-> NoResult]

\* worker_spec: threads and devices from the reserved resources.
worker_spec(attempt, fields, placement) ==
    [version |-> 1, attempt |-> attempt, fields |-> fields,
     absolute |-> placement[1], threads |-> placement[2], devices |-> placement[3]]

\* The launcher up to the spawn; a spec that does not validate is an error.
launch ==
    /\ launcher.pc = "idle"
    /\ launcher.attempt + 1 \in Attempts
    /\ LET a == launcher.attempt + 1 IN
       \E fields \in JobFields, placement \in Placements :
        LET spec == worker_spec(a, fields, placement)
        IN  IF Validate(spec)
            THEN /\ spec_file' = [spec_file EXCEPT ![a] = encode_spec(spec)]
                 /\ launched' = launched \cup {spec}
                 /\ worker' = [worker EXCEPT ![a].pc = "read"]
                 /\ launcher' = [pc |-> "wait", attempt |-> a]
            ELSE /\ launcher' = [launcher EXCEPT !.attempt = a]
                 /\ UNCHANGED <<spec_file, launched, worker>>
    /\ UNCHANGED <<result_file, produced, returned>>

-----------------------------------------------------------------------------
(* The worker process *)

worker_reads(a) ==
    /\ worker[a].pc = "read"
    /\ worker' = [worker EXCEPT ![a] =
            IF decode_spec(spec_file[a]).ok
            THEN [@ EXCEPT !.pc = "run", !.spec = decode_spec(spec_file[a]).spec]
            ELSE [@ EXCEPT !.pc = "exit 1"]]
    /\ UNCHANGED <<launcher, spec_file, result_file, launched, produced, returned>>

\* The job itself; without a registered backend the worker reports a failure.
worker_runs(a) ==
    /\ worker[a].pc = "run"
    /\ \E status \in (IF Backend THEN {"succeeded", "failed"} ELSE {"failed"}), peak \in Peaks :
        worker' = [worker EXCEPT ![a].pc = "write",
                                 ![a].result = [attempt |-> worker[a].spec.attempt,
                                                status |-> status, peak |-> peak]]
    /\ UNCHANGED <<launcher, spec_file, result_file, launched, produced, returned>>

\* fs::write truncates the file and fills it.
worker_truncates(a) ==
    /\ worker[a].pc = "write"
    /\ result_file' \in Truncations(encode_result(worker[a].result))
    /\ worker' = [worker EXCEPT ![a].pc = "fill"]
    /\ UNCHANGED <<launcher, spec_file, launched, produced, returned>>

\* The worker exits with an error when its result is a failure.
worker_writes(a) ==
    /\ worker[a].pc = "fill"
    /\ result_file' = encode_result(worker[a].result)
    /\ produced' = produced \cup {worker[a].result}
    /\ worker' = [worker EXCEPT ![a].pc =
                    IF worker[a].result.status = "succeeded" THEN "exit 0" ELSE "exit 1"]
    /\ UNCHANGED <<launcher, spec_file, launched, returned>>

worker_killed(a) ==
    /\ MayDie
    /\ worker[a].pc \in {"read", "run", "write", "fill"}
    /\ worker' = [worker EXCEPT ![a].pc = "exit 1"]
    /\ UNCHANGED <<launcher, spec_file, result_file, launched, produced, returned>>

-----------------------------------------------------------------------------
SpecOf(a) == CHOOSE spec \in launched : spec.attempt = a
LaunchError == [attempt |-> -1]

\* The worker has exited: its status, then its result.
launch_returns ==
    LET a == launcher.attempt
        decoded == decode_result(result_file)
    IN  /\ launcher.pc = "wait"
        /\ worker[a].pc \in {"exit 0", "exit 1"}
        /\ launcher' = [launcher EXCEPT !.pc = "idle"]
        /\ returned' = [returned EXCEPT ![a] =
                IF /\ worker[a].pc = "exit 0"
                   /\ decoded.ok
                   /\ verify_against(decoded.result, SpecOf(a))
                THEN decoded.result
                ELSE LaunchError]
        /\ UNCHANGED <<spec_file, result_file, worker, launched, produced>>

\* The scheduler dies; the worker goes on, and the next attempt is launched.
launcher_dies ==
    /\ MayDie
    /\ launcher.pc = "wait"
    /\ launcher' = [launcher EXCEPT !.pc = "idle"]
    /\ UNCHANGED <<spec_file, result_file, worker, launched, produced, returned>>

WorkerNext ==
    \/ launch
    \/ \E a \in Attempts : worker_reads(a) \/ worker_runs(a) \/ worker_truncates(a)
                            \/ worker_writes(a) \/ worker_killed(a)
    \/ launch_returns
    \/ launcher_dies

ProtocolSpec == WorkerInit /\ [][WorkerNext]_workerVars

-----------------------------------------------------------------------------
(* Properties *)

\* A worker works on a spec exactly as a launcher wrote it: what encode accepts,
\* decode gives back.
SpecReceived ==
    \A a \in Attempts : worker[a].spec \in launched \cup {NoSpec}

\* launch returns a result only if a worker produced it in full for this very
\* attempt, although an earlier worker may still write to the same file.
OwnResult ==
    \A a \in Attempts :
        returned[a] \in produced => returned[a].attempt = a

\* A result that is returned was written by a worker that ended well, in full:
\* no number in it is a truncated one.
CompleteResult ==
    \A a \in Attempts : returned[a] \notin {NoResult, LaunchError} => returned[a] \in produced

\* Launcher and worker understand each other: the worker gets the spec that was
\* sent, and launch returns what a worker of this very attempt wrote, in full.
MessagesKept == SpecReceived /\ OwnResult /\ CompleteResult
=============================================================================
