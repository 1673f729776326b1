--------------------------- MODULE KeyPreparation ---------------------------
(***************************************************************************)
(* How backends get their proving keys (zkie-prover src/halo2_cpu.rs       *)
(* prepare).  Each backend lives in a process of its own and keeps its SRS *)
(* and its cache in memory; all share one KeyMaterialStore, in which keys  *)
(* of other origins may lie and whose entries may be damaged.              *)
(*                                                                         *)
(* prepare_lock serialises prepare within a process; the calls of the      *)
(* store are the points where processes interleave.  A digest is what it   *)
(* digests; the toxic randomness of an SRS is a value of Srs.              *)
(***************************************************************************)
EXTENDS Naturals, FiniteSets

CONSTANTS
    Processes,
    Configs,   \* functions from Processes to what their backends are built with
    Srs,       \* what development backends may draw
    Ceremony,  \* the SRS of production backends
    None

ASSUME ConfigsAssumption ==
    \A c \in Configs :
        c \in [Processes -> [circuit : STRING, k : Nat, production : BOOLEAN, shape : STRING, schema : STRING]]
ASSUME SrsAssumption == None \notin Srs /\ Ceremony # None

VARIABLES
    config,    \* never changes
    srs,       \* SrsState.digest of each backend, or None
    cache,     \* the cache's keys: [identity, k, srs, production]
    store,     \* the store: a set of [identity, package], one for each identity
    pc,        \* "idle", "storing" or "reading"
    generated, \* the package that is being stored, or None
    keygens,   \* keygen_invocations
    disturbed, \* the processes that met a failure of the store or a damaged entry
    answers    \* what prepare returned since the process started: [identity, production]

keyVars == <<config, srs, cache, store, pc, generated, keygens, disturbed, answers>>

expected_metadata(p, digest) ==
    [circuit |-> config[p].circuit, k |-> config[p].k, srs |-> digest, production |-> config[p].production,
     shape |-> config[p].shape, schema |-> config[p].schema]
ProvingKey(digest, circuit) == [srs |-> digest, circuit |-> circuit]
encode_key_package(metadata, params, pk) ==
    [metadata |-> metadata, params |-> params, k |-> metadata.k, pk |-> pk, trailing |-> FALSE]
KeyIdentity(circuit, package) == [circuit |-> circuit, key_digest |-> package]

Stored(identity) == {e.package : e \in {e \in store : e.identity = identity}}
cache_key(p, identity, digest) ==
    [identity |-> identity, k |-> config[p].k, srs |-> digest, production |-> config[p].production]
Cached(p, identity) ==
    \E key \in cache[p] : key.identity = identity /\ key.k = config[p].k /\ key.production = config[p].production

\* decode_key_package: the framing, the metadata once more, the SRS and its k.
decode_key_package(package, metadata) ==
    /\ package.metadata = metadata
    /\ package.params = metadata.srs
    /\ ~package.trailing
    /\ package.k = metadata.k

\* Variant for testing CacheMatchesBackend and SoleKey: an SRS other than the backend's is let in.
InstallableAnySrs(p, identity, package) ==
    /\ package = identity.key_digest
    /\ package.metadata = expected_metadata(p, package.metadata.srs)
    /\ decode_key_package(package, expected_metadata(p, package.metadata.srs))

\* What install_authoritative_package requires of the bytes it was given.
Installable(p, identity, package) ==
    /\ package = identity.key_digest
    /\ package.metadata = expected_metadata(p, package.metadata.srs)
    /\ srs[p] \in {None, package.metadata.srs}
    /\ decode_key_package(package, expected_metadata(p, package.metadata.srs))

\* install_authoritative_package; an error changes nothing.
install_authoritative_package(p, identity, package, production) ==
    IF Installable(p, identity, package)
    THEN /\ srs' = [srs EXCEPT ![p] = IF @ = None THEN package.metadata.srs ELSE @]
         /\ cache' = [cache EXCEPT ![p] = @ \cup {cache_key(p, identity, package.metadata.srs)}]
         /\ answers' = [answers EXCEPT ![p] = @ \cup {[identity |-> identity, production |-> production]}]
         /\ UNCHANGED disturbed
    ELSE /\ disturbed' = disturbed \cup {p}
         /\ UNCHANGED <<srs, cache, answers>>

-----------------------------------------------------------------------------
KeyInit ==
    /\ config \in Configs
    /\ srs = [p \in Processes |-> IF config[p].production THEN Ceremony ELSE None]
    /\ cache = [p \in Processes |-> {}] /\ store = {}
    /\ pc = [p \in Processes |-> "idle"] /\ generated = [p \in Processes |-> None]
    /\ keygens = [p \in Processes |-> 0] /\ disturbed = {} /\ answers = [p \in Processes |-> {}]

\* What prepare refuses before it takes the lock.
Accepts(p, identity, production) ==
    /\ production => config[p].production
    /\ config[p].production => identity # None

\* prepare with a key's identity: from the cache, or else from the store.
prepare_identity(p, identity, production) ==
    /\ pc[p] = "idle" /\ Accepts(p, identity, production) /\ identity.circuit = config[p].circuit
    /\ \/ /\ Cached(p, identity)
          /\ answers' = [answers EXCEPT ![p] = @ \cup {[identity |-> identity, production |-> production]}]
          /\ UNCHANGED <<srs, cache, disturbed>>
       \/ /\ ~Cached(p, identity)
          /\ \E package \in Stored(identity) : install_authoritative_package(p, identity, package, production)
    /\ UNCHANGED <<config, store, pc, generated, keygens>>

Reusable(p) ==
    {key \in cache[p] : srs[p] # None /\ key.srs = srs[p] /\ key.k = config[p].k /\ key.production = config[p].production}

\* prepare without an identity: a key of the backend's SRS is used again.
prepare_reuse(p) ==
    /\ pc[p] = "idle" /\ Accepts(p, None, FALSE)
    /\ \E key \in Reusable(p) :
        answers' = [answers EXCEPT ![p] = @ \cup {[identity |-> key.identity, production |-> FALSE]}]
    /\ UNCHANGED <<config, srs, cache, store, pc, generated, keygens, disturbed>>

\* A drawn SRS is new.
Undrawn == Srs \ ({srs[q] : q \in Processes} \cup {e.package.params : e \in store})

\* Otherwise the SRS is drawn, unless there is one, and the keys are generated.
prepare_generate(p) ==
    /\ pc[p] = "idle" /\ Accepts(p, None, FALSE) /\ Reusable(p) = {} /\ keygens[p] < 2
    /\ \E digest \in IF srs[p] = None THEN Undrawn ELSE {srs[p]} :
        /\ srs' = [srs EXCEPT ![p] = digest]
        /\ generated' = [generated EXCEPT ![p] =
                encode_key_package(expected_metadata(p, digest), digest, ProvingKey(digest, config[p].circuit))]
    /\ keygens' = [keygens EXCEPT ![p] = @ + 1] /\ pc' = [pc EXCEPT ![p] = "storing"]
    /\ UNCHANGED <<config, cache, store, disturbed, answers>>

GeneratedIdentity(p) == KeyIdentity(config[p].circuit, generated[p])

\* store.write_if_absent: inserted, already there, in conflict, or failed.
write_if_absent(p) ==
    /\ pc[p] = "storing"
    /\ \/ /\ Stored(GeneratedIdentity(p)) \subseteq {generated[p]}
          /\ store' = store \cup {[identity |-> GeneratedIdentity(p), package |-> generated[p]]}
          /\ pc' = [pc EXCEPT ![p] = "reading"] /\ UNCHANGED <<generated, disturbed>>
       \/ /\ pc' = [pc EXCEPT ![p] = "idle"] /\ generated' = [generated EXCEPT ![p] = None]
          /\ disturbed' = disturbed \cup {p} /\ UNCHANGED store
    /\ UNCHANGED <<config, srs, cache, keygens, answers>>

\* What the store holds now is authoritative.
read_authoritative(p) ==
    /\ pc[p] = "reading"
    /\ \E package \in Stored(GeneratedIdentity(p)) :
        install_authoritative_package(p, GeneratedIdentity(p), package, FALSE)
    /\ pc' = [pc EXCEPT ![p] = "idle"] /\ generated' = [generated EXCEPT ![p] = None]
    /\ UNCHANGED <<config, store, keygens>>

\* The process ends; its next backend reads the production SRS again.
restart(p) ==
    /\ srs' = [srs EXCEPT ![p] = IF config[p].production THEN Ceremony ELSE None]
    /\ cache' = [cache EXCEPT ![p] = {}] /\ answers' = [answers EXCEPT ![p] = {}]
    /\ pc' = [pc EXCEPT ![p] = "idle"] /\ generated' = [generated EXCEPT ![p] = None]
    /\ keygens' = [keygens EXCEPT ![p] = 0] /\ disturbed' = disturbed \ {p}
    /\ UNCHANGED <<config, store>>

\* Packages that others made: for a production setup, another k, circuit, shape or
\* schema, with parameters that are not their SRS, with the proving key of another
\* circuit (pk_read does not tell), or with bytes left over.
Foreign(p) ==
    LET of(digest) == encode_key_package(expected_metadata(p, digest), digest, ProvingKey(digest, config[p].circuit))
        right == of(Ceremony)
    IN  {right, [right EXCEPT !.metadata.production = ~@], [right EXCEPT !.metadata.k = @ + 1],
         [right EXCEPT !.metadata.circuit = "other"], [right EXCEPT !.metadata.shape = "other"],
         [right EXCEPT !.metadata.schema = "other"], [right EXCEPT !.trailing = TRUE],
         [right EXCEPT !.k = @ + 1], [right EXCEPT !.pk.circuit = "other"]}
        \cup {[of(d) EXCEPT !.params = Ceremony] : d \in Srs} \cup {[right EXCEPT !.params = d] : d \in Srs}
foreign_write ==
    /\ ~\E e \in store : e.package = e.identity.key_digest /\ \E p \in Processes : e.package \in Foreign(p)
    /\ \E p \in Processes : \E package \in Foreign(p) :
        store' = store \cup {[identity |-> KeyIdentity(config[p].circuit, package), package |-> package]}
    /\ UNCHANGED <<config, srs, cache, pc, generated, keygens, disturbed, answers>>

\* An entry of the store is damaged; at most one at a time.
damage ==
    /\ \A e \in store : e.package = e.identity.key_digest
    /\ \E e \in store : store' = (store \ {e}) \cup {[e EXCEPT !.package.trailing = ~@]}
    /\ UNCHANGED <<config, srs, cache, pc, generated, keygens, disturbed, answers>>

KeyNext ==
    \/ \E p \in Processes :
        \/ \E identity \in {e.identity : e \in store} \cup {key.identity : key \in cache[p]}, production \in BOOLEAN :
                prepare_identity(p, identity, production)
        \/ prepare_reuse(p) \/ prepare_generate(p) \/ write_if_absent(p) \/ read_authoritative(p) \/ restart(p)
    \/ foreign_write
    \/ damage

KeySpec == KeyInit /\ [][KeyNext]_keyVars

-----------------------------------------------------------------------------
(* Properties *)

\* install_authoritative_package: whatever lies in the store, all keys in a
\* backend's cache are whole, made for its circuit, k, shape and schema, and
\* from the one SRS the backend uses.
CacheMatchesBackend ==
    \A p \in Processes : \A key \in cache[p] :
        LET package == key.identity.key_digest
        IN  /\ package.metadata = expected_metadata(p, srs[p]) /\ key.srs = srs[p]
            /\ package.params = srs[p] /\ package.k = config[p].k /\ ~package.trailing

\* "development-generated SRS metadata is permanently marked non-production":
\* a job that asks for production keys gets keys of the ceremony's SRS.
ProductionKeys ==
    \A p \in Processes : \A a \in answers[p] :
        a.production => a.identity.key_digest.params = Ceremony /\ a.identity.key_digest.metadata.production

\* prepare's answer can be used: prove finds the key in the cache.
AnswersUsable == \A p \in Processes : \A a \in answers[p] : Cached(p, a.identity)

\* Without a failure of the store, keys are generated once in a process.
KeygenOnce == \A p \in Processes : p \notin disturbed => keygens[p] <= 1

\* statement_for takes the only prepared key: a development backend never
\* holds two keys that keygen made, so only a foreign one makes it ambiguous.
SoleKey ==
    \A p \in Processes : Cardinality({key \in cache[p] :
        key.identity.key_digest.pk = ProvingKey(key.srs, config[p].circuit)}) <= 1

\* prepare, whatever lies in the store and however calls interleave and fail:
\* a backend holds, and answers with, keys it can prove with, and no others.
KeysFit == CacheMatchesBackend /\ ProductionKeys /\ AnswersUsable /\ KeygenOnce /\ SoleKey
=============================================================================
