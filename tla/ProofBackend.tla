---------------------------- MODULE ProofBackend ----------------------------
(***************************************************************************)
(* Proving and verifying one shard (zkie-prover src/halo2_cpu.rs prove,    *)
(* verify_cryptographically; src/backend.rs verify_proof).  Backends in    *)
(* several processes prove jobs, perhaps to one output path, and check     *)
(* proofs that come back from a disk or from another process.              *)
(*                                                                         *)
(* A digest is what it digests.  The proof system is external: bytes that  *)
(* verify were made for the key's circuit, for these instances and for     *)
(* this manifest, from values that satisfy the circuit.  The circuit fixes *)
(* the descriptors and the weights of a leaf; the leaf prefix is free.     *)
(***************************************************************************)
EXTENDS Naturals, Sequences

CONSTANTS
    Provers,
    Backends,     \* functions from Provers to backends
    Witnesses,   \* WitnessArtifacts: [digest, shard, circuit, inputs]
    Paths,
    result(_, _),\* what a circuit computes from inputs and weights
    Absent

\* derive_circuit_digest covers the weights, whatever the schema; the keys of a
\* backend are halo2 keys.
ASSUME BackendsAssumption ==
    \A bs \in Backends : \A p \in Provers :
        /\ bs[p].schema \in {"leaf", "public"}
        /\ \A key \in bs[p].keys : key.flavor = "halo2"
        /\ \A q \in Provers : bs[p].circuit = bs[q].circuit => bs[p].weights = bs[q].weights

VARIABLES
    backends,   \* the backend of each prover: [run, shard, circuit, k, production, shape, schema,
              \*   inputs, outputs, weights, keys]; never changes
    files,    \* the file at each path: [bytes, synced, named], or Absent
    stage,       \* where prove is: "idle", "proving", "linking", "syncing", "removing", "reading"
    call,     \* the job and the path of the call: [job, path, temp], or Absent
    returned, \* the UnverifiedProofs prove returned: [by, job, proof]
    checked   \* the last accepted check: [by, job, claim, bytes], or Absent

proofVars == <<backends, files, stage, call, returned, checked>>

-----------------------------------------------------------------------------
(* Statements *)

\* A key: the package, here the circuit it was made for and its SRS.
KeyOf(b, srs) == [flavor |-> "halo2", circuit |-> b.circuit, shape |-> b.shape, k |-> b.k, srs |-> srs]

commit_boundary_native(descriptor, values) == <<descriptor, values>>
BoundaryClaim(descriptor, values) == [descriptor |-> descriptor, commitment |-> commit_boundary_native(descriptor, values)]

\* What LeafStatement says of the run, the shard and the key.
instance_prefix(b, key) ==
    [shard |-> b.shard, circuit |-> b.circuit, plan |-> b.run.plan, flavor |-> "halo2", key |-> key]

leaf_statement(b, key, inputs) ==
    [schema |-> "leaf", prefix |-> instance_prefix(b, key),
     input_claims |-> BoundaryClaim(b.inputs, inputs),
     output_claims |-> BoundaryClaim(b.outputs, result(inputs, b.weights)),
     weights |-> b.weights]

\* The values of inputs, weights and public outputs, with the shape they are for.
encode_public_statement(b, inputs) ==
    [schema |-> "public", shape |-> b.shape, values |-> <<inputs, b.weights, result(inputs, b.weights)>>]

statement_for_key(b, witness, key) ==
    IF b.schema = "leaf" THEN leaf_statement(b, key, witness.inputs)
                         ELSE encode_public_statement(b, witness.inputs)

\* The public instances of a statement.
instances(statement) ==
    IF statement.schema = "leaf"
    THEN <<statement.prefix, statement.input_claims, statement.output_claims, statement.weights>>
    ELSE statement.values

\* AssemblerCircuit::synthesize: what the circuit of a backend exposes when it runs on inputs.
circuit_instances(b, prefix, inputs) ==
    IF b.schema = "leaf"
    THEN <<prefix, BoundaryClaim(b.inputs, inputs), BoundaryClaim(b.outputs, result(inputs, b.weights)), b.weights>>
    ELSE <<inputs, b.weights, result(inputs, b.weights)>>

ProofManifest(b, job) ==
    [flavor |-> "halo2", backend |-> "cpu", circuit |-> b.circuit, key |-> job.key, run |-> job.run,
     shard |-> job.shard, witness |-> job.witness.digest, k |-> b.k, srs |-> job.key.srs,
     production |-> b.production, shape |-> b.shape, schema |-> b.schema]

\* create_proof over a transcript to which bind_manifest gave the manifest's digest.
create_proof(key, exposed, manifest) ==
    [vk |-> key, instances |-> exposed, manifest |-> manifest, trailing |-> FALSE]

UnverifiedProof(b, job, path, bytes, statement, manifest) ==
    [path |-> path, proof_digest |-> bytes, statement |-> statement, circuit |-> b.circuit, key |-> job.key,
     flavor |-> "halo2", backend |-> "cpu", shard |-> job.shard, manifest |-> manifest, run |-> job.run]

\* ProofJob::new.
ProofJob(job) == job.witness.shard = job.shard /\ job.witness.circuit = job.shard.circuit /\ job.key.circuit = job.shard.circuit

\* validate_common, and what prove asks of the witness and the key.
Provable(b, job) ==
    /\ job.run = b.run /\ job.shard = b.shard /\ job.shard.circuit = b.circuit /\ job.run.schema = b.schema
    /\ job.witness.shard = job.shard /\ job.witness.circuit = b.circuit
    /\ job.key \in b.keys

-----------------------------------------------------------------------------
(* prove *)

ProofInit ==
    /\ backends \in Backends
    /\ files = [path \in Paths |-> Absent] /\ stage = [p \in Provers |-> "idle"] /\ call = [p \in Provers |-> Absent]
    /\ returned = {} /\ checked = Absent

Goto(p, label) == stage' = [stage EXCEPT ![p] = label]
\* prove ends with an error; the temporary file is removed.
FailProve(p) == Goto(p, "idle") /\ call' = [call EXCEPT ![p] = Absent] /\ UNCHANGED <<backends, files, returned, checked>>

\* The checks, then a temporary file beside a path that is free now.
create_temp_sibling(p, job, path) ==
    /\ stage[p] = "idle" /\ ProofJob(job) /\ Provable(backends[p], job) /\ files[path] = Absent
    /\ Goto(p, "proving") /\ call' = [call EXCEPT ![p] = [job |-> job, path |-> path, temp |-> Absent]]
    /\ UNCHANGED <<backends, files, returned, checked>>

\* create_proof into the temporary file, and its sync.
prove(p) ==
    /\ stage[p] = "proving"
    /\ \/ /\ LET b == backends[p]  job == call[p].job
                 exposed == circuit_instances(b, instance_prefix(b, job.key), job.witness.inputs)
             IN  call' = [call EXCEPT ![p].temp =
                     [bytes |-> create_proof(job.key, exposed, ProofManifest(b, job)), synced |-> TRUE, named |-> FALSE]]
          /\ Goto(p, "linking") /\ UNCHANGED <<backends, files, returned, checked>>
       \/ FailProve(p)

\* Variant for testing ReturnedMatchesFile: the proof replaces what is at the path.
rename_over(p) ==
    /\ stage[p] = "linking"
    /\ files' = [files EXCEPT ![call[p].path] = call[p].temp]
    /\ Goto(p, "syncing") /\ UNCHANGED <<backends, call, returned, checked>>

\* Publish without clobber.
hard_link(p) ==
    /\ stage[p] = "linking"
    /\ \/ /\ files[call[p].path] = Absent
          /\ files' = [files EXCEPT ![call[p].path] = call[p].temp]
          /\ Goto(p, "syncing") /\ UNCHANGED <<backends, call, returned, checked>>
       \/ FailProve(p)

SyncedNames == [path \in Paths |-> IF files[path] = Absent THEN Absent ELSE [files[path] EXCEPT !.named = TRUE]]

\* A failing sync leaves the proof at the path.
sync_parent_dir(p) ==
    /\ stage[p] = "syncing"
    /\ \/ /\ files' = SyncedNames /\ Goto(p, "removing") /\ UNCHANGED <<backends, call, returned, checked>>
       \/ FailProve(p)

\* The temporary file is removed and the directory synced again.
remove_temp(p) ==
    /\ stage[p] = "removing"
    /\ \/ /\ files' = SyncedNames /\ Goto(p, "reading") /\ UNCHANGED <<backends, call, returned, checked>>
       \/ FailProve(p)

\* The proof is read back for its digest.
read_bounded(p) ==
    /\ stage[p] = "reading"
    /\ \/ /\ files[call[p].path] # Absent
          /\ LET b == backends[p]  job == call[p].job
                 proof == UnverifiedProof(b, job, call[p].path, files[call[p].path].bytes,
                                          statement_for_key(b, job.witness, job.key), ProofManifest(b, job))
             IN  returned' = returned \cup {[by |-> p, job |-> job, proof |-> proof]}
          /\ Goto(p, "idle") /\ call' = [call EXCEPT ![p] = Absent] /\ UNCHANGED <<backends, files, checked>>
       \/ FailProve(p)

killed(p) ==
    /\ stage[p] # "idle" /\ Goto(p, "idle") /\ call' = [call EXCEPT ![p] = Absent]
    /\ UNCHANGED <<backends, files, returned, checked>>

\* Names that were not synced may be lost, and bytes that were not synced are.
power_lost ==
    /\ \E kept \in SUBSET Paths :
        files' = [path \in Paths |->
            IF files[path] = Absent \/ (path \notin kept /\ ~files[path].named) THEN Absent
            ELSE IF files[path].synced THEN [files[path] EXCEPT !.named = TRUE]
                 ELSE [files[path] EXCEPT !.bytes.trailing = TRUE]]
    /\ stage' = [p \in Provers |-> "idle"] /\ call' = [p \in Provers |-> Absent]
    /\ UNCHANGED <<backends, returned, checked>>

-----------------------------------------------------------------------------
(* verify *)

\* VerificationExpectation::from_proof_job: the statement is the caller's own,
\* the digests of the proof and of its manifest are those of the claim.
VerificationExpectation(b, job, claim) ==
    [proof_digest |-> claim.proof_digest, manifest |-> claim.manifest, run |-> job.run,
     statement |-> statement_for_key(b, job.witness, job.key), circuit |-> job.shard.circuit, key |-> job.key,
     flavor |-> "halo2", backend |-> "cpu", shard |-> job.shard]

ClaimFits(expectation, claim) == \A field \in DOMAIN expectation : expectation[field] = claim[field]

\* CryptoVerificationRequest::new.
RequestValid(claim, bytes, key) ==
    bytes = claim.proof_digest /\ claim.flavor = key.flavor /\ claim.circuit = key.circuit /\ claim.key = key

ManifestTrusted(b, manifest, key, witness_digest) ==
    /\ manifest.flavor = "halo2" /\ manifest.backend = "cpu" /\ manifest.circuit = b.circuit /\ manifest.key = key
    /\ manifest.run = b.run /\ manifest.shard = b.shard /\ manifest.k = b.k /\ manifest.production = b.production
    /\ manifest.shape = b.shape /\ manifest.schema = b.schema /\ manifest.witness = witness_digest

\* Variant for testing AcceptedIsProved: the statement's prefix is taken from the statement.
StatementTrusted_prefix(b, statement, key) ==
    /\ statement.schema = b.schema
    /\ IF b.schema = "leaf"
       THEN /\ statement.input_claims.descriptor = b.inputs /\ statement.output_claims.descriptor = b.outputs
            /\ statement.weights = b.weights
       ELSE statement.shape = b.shape

\* The statement is decoded and compared with what the backend was built with.
StatementTrusted(b, statement, key) ==
    /\ statement.schema = b.schema
    /\ IF b.schema = "leaf"
       THEN /\ statement.input_claims.descriptor = b.inputs /\ statement.output_claims.descriptor = b.outputs
            /\ statement.weights = b.weights
            /\ statement.prefix = instance_prefix(b, key)
       ELSE statement.shape = b.shape

\* halo2's verify_proof, and that it consumed every byte.
Halo2Verifies(bytes, key, exposed, manifest) ==
    bytes.vk = key /\ bytes.instances = exposed /\ bytes.manifest = manifest /\ ~bytes.trailing

verify_cryptographically(b, claim, bytes, key, witness_digest) ==
    /\ RequestValid(claim, bytes, key)
    /\ claim.flavor = "halo2" /\ claim.backend = "cpu" /\ claim.circuit = b.circuit /\ claim.shard = b.shard /\ claim.run = b.run
    /\ ManifestTrusted(b, claim.manifest, key, witness_digest)
    /\ key \in b.keys /\ claim.manifest.srs = key.srs
    /\ StatementTrusted(b, claim.statement, key)
    /\ Halo2Verifies(bytes, key, instances(claim.statement), claim.manifest)

\* backend.rs verify_proof.
Accepted(b, job, claim, bytes) ==
    /\ ClaimFits(VerificationExpectation(b, job, claim), claim)
    /\ verify_cryptographically(b, claim, bytes, job.key, job.witness.digest)
verify_proof(p, job, claim, bytes) ==
    /\ ProofJob(job) /\ Accepted(backends[p], job, claim, bytes)
    /\ checked' = [by |-> p, job |-> job, claim |-> claim, bytes |-> bytes]
    /\ UNCHANGED <<backends, files, stage, call, returned>>

\* Halo2KzgCpuBackend::verify: the witness digest is the manifest's own.
SelfAccepted(b, claim, bytes) ==
    verify_cryptographically(b, claim, bytes, claim.key, claim.manifest.witness)
verify(p, claim, bytes) ==
    /\ SelfAccepted(backends[p], claim, bytes)
    /\ checked' = [by |-> p, job |-> Absent, claim |-> claim, bytes |-> bytes]
    /\ UNCHANGED <<backends, files, stage, call, returned>>

-----------------------------------------------------------------------------
\* Jobs that some backend can prove, for whichever of them.
Jobs == {job \in [run : {backends[q].run : q \in Provers}, shard : {backends[q].shard : q \in Provers},
                  witness : Witnesses, key : UNION {backends[q].keys : q \in Provers}] :
            \E q \in Provers : Provable(backends[q], job)}

\* Proofs that do not come from prove, or not whole: made by the circuit of
\* some backend from a job's values, with a prefix and a manifest of another.
MadeBytes(q, job, prefix, manifest, trailing) ==
    [create_proof(job.key, circuit_instances(backends[q], prefix, job.witness.inputs), manifest) EXCEPT !.trailing = trailing]
MadeClaim(q, job, bytes, prefix, manifest) ==
    LET statement == statement_for_key(backends[q], job.witness, job.key)
    IN  UnverifiedProof(backends[q], job, Absent, bytes,
            IF statement.schema = "leaf" THEN [statement EXCEPT !.prefix = prefix] ELSE statement, manifest)

ProveNext ==
    \/ \E p \in Provers :
        \/ \E job \in Jobs, path \in Paths : create_temp_sibling(p, job, path)
        \/ prove(p) \/ hard_link(p) \/ sync_parent_dir(p) \/ remove_temp(p) \/ read_bounded(p) \/ killed(p)
    \/ power_lost

\* One check, which changes nothing.
VerifyNext ==
    /\ checked = Absent
    /\ \E p, q, of \in Provers, job, bound, named \in Jobs, trailing \in BOOLEAN :
        \E prefix \in {instance_prefix(backends[of], job.key)},
           bound_manifest \in {ProofManifest(backends[q], bound)}, manifest \in {ProofManifest(backends[q], named)} :
        \E bytes \in {MadeBytes(q, job, prefix, bound_manifest, trailing)} :
        \E claim \in {MadeClaim(q, job, bytes, prefix, manifest)} :
            \/ \E expected \in Jobs : verify_proof(p, expected, claim, bytes)
            \/ verify(p, claim, bytes)

ProveSpec == ProofInit /\ [][ProveNext]_proofVars
VerifySpec == ProofInit /\ [][VerifyNext]_proofVars

-----------------------------------------------------------------------------
(* Properties *)

\* verify_proof: an accepted proof was made with the job's key, of the job's
\* values, for this very witness and run, and nothing follows it.
VerifiedIsTheJob ==
    checked # Absent /\ checked.job # Absent =>
        LET b == backends[checked.by]  job == checked.job
        IN  checked.bytes = create_proof(job.key,
                circuit_instances(b, instance_prefix(b, job.key), job.witness.inputs), ProofManifest(b, job))

\* verify: what a backend accepts without a job is a statement of its own
\* run, shard and key that some execution satisfies, with a true manifest.
AcceptedIsProved ==
    checked # Absent =>
        LET b == backends[checked.by]
        IN  /\ \E w \in Witnesses : checked.claim.statement = statement_for_key(b, w, checked.claim.key)
            /\ checked.bytes.manifest = checked.claim.manifest
            /\ checked.claim.manifest.run = b.run /\ checked.claim.manifest.shard = b.shard

\* What prove returns is accepted by every backend that is configured alike
\* and has the key, with the job and without it.
HonestProofAccepted ==
    \A r \in returned, q \in Provers :
        backends[q] = backends[r.by] =>
            Accepted(backends[q], r.job, r.proof, r.proof.proof_digest) /\ SelfAccepted(backends[q], r.proof, r.proof.proof_digest)

\* The proof at a path that prove returned stays, whoever else proves to the
\* path, and after a loss of power.
ReturnedMatchesFile ==
    \A r \in returned : files[r.proof.path] # Absent /\ files[r.proof.path].bytes = r.proof.proof_digest

\* What verify_proof and verify accept has been proved, of what is asked.
AcceptedMeansProved == VerifiedIsTheJob /\ AcceptedIsProved

\* What prove returns is on the disk, stays there and verifies.
ReturnedIsGood == HonestProofAccepted /\ ReturnedMatchesFile
=============================================================================
