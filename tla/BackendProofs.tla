---------------------------- MODULE BackendProofs ----------------------------
(***************************************************************************)
(* Proofs about the proving backends: the preparation of keys by any       *)
(* number of processes over one key store, and proving and verifying a     *)
(* shard by any number of backends.                                        *)
(***************************************************************************)
EXTENDS KeyPreparation, ProofBackend, FiniteSetTheorems, TLAPS

-----------------------------------------------------------------------------
(* Keys *)


Texts == STRING \cup {"other"}
SrsValues == Srs \cup {Ceremony}
Metadata ==
    [circuit : Texts, k : Nat, srs : SrsValues, production : BOOLEAN, shape : Texts,
     schema : Texts]
Packages ==
    [metadata : Metadata, params : SrsValues, k : Nat, pk : [srs : SrsValues, circuit : Texts],
     trailing : BOOLEAN]
Identities == [circuit : Texts, key_digest : Packages]
CacheKeys == [identity : Identities, k : Nat, srs : SrsValues, production : BOOLEAN]
Entries == [identity : Identities, package : Packages]
Answers == [identity : Identities, production : BOOLEAN]

KeyTypes ==
    /\ config \in Configs
    /\ srs \in [Processes -> SrsValues \cup {None}]
    /\ cache \in [Processes -> SUBSET CacheKeys]
    /\ store \in SUBSET Entries
    /\ pc \in [Processes -> {"idle", "storing", "reading"}]
    /\ generated \in [Processes -> Packages \cup {None}]
    /\ \A p \in Processes : pc[p] # "idle" => generated[p] \in Packages
    /\ keygens \in [Processes -> Nat]
    /\ disturbed \in SUBSET Processes
    /\ answers \in [Processes -> SUBSET Answers]

\* Everything in a backend's cache is its own: its circuit, its k, its one SRS.
CacheFits(p) ==
    /\ cache[p] # {} => srs[p] # None
    /\ \A key \in cache[p] :
        LET package == key.identity.key_digest
        IN  /\ key = cache_key(p, key.identity, srs[p])
            /\ key.identity.circuit = config[p].circuit
            /\ package.metadata = expected_metadata(p, srs[p])
            /\ package.params = srs[p] /\ package.k = config[p].k /\ ~package.trailing

\* A production backend never uses another SRS than the ceremony's.
ProductionFits(p) == config[p].production => srs[p] = Ceremony

AnswersFit(p) ==
    \A a \in answers[p] : Cached(p, a.identity) /\ (a.production => config[p].production)

\* Undisturbed, a process that has generated keys has them, or is storing them.
KeygenFits(p) ==
    p \notin disturbed =>
        keygens[p] <= 1 /\ (keygens[p] = 1 /\ pc[p] = "idle" => cache[p] # {})

ProcessFits(p) == CacheFits(p) /\ ProductionFits(p) /\ AnswersFit(p) /\ KeygenFits(p)

KeyInv == KeyTypes /\ \A p \in Processes : ProcessFits(p)

-----------------------------------------------------------------------------
(* The operators the steps are built from *)

\* What a backend is built with.
LEMMA ConfigFacts ==
    ASSUME config \in Configs, NEW p \in Processes
    PROVE  /\ config[p].circuit \in STRING /\ config[p].k \in Nat
           /\ config[p].production \in BOOLEAN
           /\ config[p].shape \in STRING /\ config[p].schema \in STRING
  <1>1. config[p] \in [circuit : STRING, k : Nat, production : BOOLEAN, shape : STRING,
                       schema : STRING]
    BY ConfigsAssumption
  <1> QED
    BY <1>1

\* What a backend generates, and what it expects of a package.
LEMMA PackageFacts ==
    ASSUME config \in Configs, NEW p \in Processes, NEW digest \in SrsValues
    PROVE  /\ expected_metadata(p, digest) \in Metadata
           /\ encode_key_package(expected_metadata(p, digest), digest,
                                 ProvingKey(digest, config[p].circuit)) \in Packages
           /\ expected_metadata(p, digest).srs = digest
  BY ConfigFacts DEF expected_metadata, Metadata, encode_key_package, ProvingKey, Packages, Texts

\* The packages that others make are packages.
LEMMA ForeignFacts ==
    ASSUME config \in Configs, NEW p \in Processes
    PROVE  Foreign(p) \in SUBSET Packages
  <1> DEFINE of(digest) == encode_key_package(expected_metadata(p, digest), digest,
                                              ProvingKey(digest, config[p].circuit))
             right == of(Ceremony)
  <1>1. \A d \in SrsValues : of(d) \in Packages
    BY PackageFacts
  <1>2. Ceremony \in SrsValues /\ Srs \subseteq SrsValues
    BY DEF SrsValues
  <1>3. ASSUME NEW m \in Metadata
        PROVE  /\ [m EXCEPT !.production = ~m.production] \in Metadata
               /\ [m EXCEPT !.k = m.k + 1] \in Metadata
               /\ [m EXCEPT !.circuit = "other"] \in Metadata
               /\ [m EXCEPT !.shape = "other"] \in Metadata
               /\ [m EXCEPT !.schema = "other"] \in Metadata
    <2>1. m.k + 1 \in Nat
      BY DEF Metadata
    <2>6. m.production \in BOOLEAN
      BY DEF Metadata
    <2>7. "other" \in Texts
      BY DEF Texts
    <2>2. \A v \in BOOLEAN : [m EXCEPT !.production = v] \in Metadata
      BY DEF Metadata
    <2>3. \A v \in Nat : [m EXCEPT !.k = v] \in Metadata
      BY DEF Metadata
    <2>4. \A v \in Texts : /\ [m EXCEPT !.circuit = v] \in Metadata
                            /\ [m EXCEPT !.shape = v] \in Metadata
                            /\ [m EXCEPT !.schema = v] \in Metadata
      BY DEF Metadata
    <2>5. (~m.production) \in BOOLEAN
      OBVIOUS
    <2>8. [m EXCEPT !.production = ~m.production] \in Metadata
      BY <2>2, <2>5, Zenon
    <2>9. [m EXCEPT !.k = m.k + 1] \in Metadata
      BY <2>1, <2>3, Zenon
    <2> QED
      BY <2>4, <2>7, <2>8, <2>9, Zenon
  <1>4. ASSUME NEW r \in Packages
        PROVE  /\ [r EXCEPT !.metadata.production = ~@] \in Packages
               /\ [r EXCEPT !.metadata.k = @ + 1] \in Packages
               /\ [r EXCEPT !.metadata.circuit = "other"] \in Packages
               /\ [r EXCEPT !.metadata.shape = "other"] \in Packages
               /\ [r EXCEPT !.metadata.schema = "other"] \in Packages
    <2>1. r.metadata \in Metadata
      BY DEF Packages
    <2>2. ASSUME NEW m \in Metadata
          PROVE  [r EXCEPT !.metadata = m] \in Packages
      BY DEF Packages
    <2> QED
      BY <1>3, <2>1, <2>2, Zenon
  <1>5. ASSUME NEW r \in Packages
        PROVE  /\ [r EXCEPT !.trailing = TRUE] \in Packages /\ [r EXCEPT !.k = @ + 1] \in Packages
               /\ [r EXCEPT !.pk.circuit = "other"] \in Packages
               /\ \A d \in SrsValues : [r EXCEPT !.params = d] \in Packages
    <2>1. r.k + 1 \in Nat
      BY DEF Packages
    <2>6. [r.pk EXCEPT !.circuit = "other"] \in [srs : SrsValues, circuit : Texts]
      <3>1. r.pk \in [srs : SrsValues, circuit : Texts]
        BY DEF Packages
      <3>2. ASSUME NEW key \in [srs : SrsValues, circuit : Texts]
            PROVE  [key EXCEPT !.circuit = "other"] \in [srs : SrsValues, circuit : Texts]
        BY DEF Texts
      <3> QED
        BY <3>1, <3>2
    <2>2. \A v \in Nat : [r EXCEPT !.k = v] \in Packages
      BY DEF Packages
    <2>3. \A v \in [srs : SrsValues, circuit : Texts] : [r EXCEPT !.pk = v] \in Packages
      BY DEF Packages
    <2>4. [r EXCEPT !.trailing = TRUE] \in Packages
      BY DEF Packages
    <2>5. \A d \in SrsValues : [r EXCEPT !.params = d] \in Packages
      BY DEF Packages
    <2>7. [r EXCEPT !.k = @ + 1] \in Packages
      BY <2>1, <2>2, Zenon
    <2>8. [r EXCEPT !.pk.circuit = "other"] \in Packages
      BY <2>3, <2>6, Zenon
    <2> QED
      BY <2>4, <2>5, <2>7, <2>8, Zenon
  <1>6. right \in Packages
    BY <1>1, <1>2
  <1>7. Foreign(p) =
            {right, [right EXCEPT !.metadata.production = ~@], [right EXCEPT !.metadata.k = @ + 1],
             [right EXCEPT !.metadata.circuit = "other"], [right EXCEPT !.metadata.shape = "other"],
             [right EXCEPT !.metadata.schema = "other"], [right EXCEPT !.trailing = TRUE],
             [right EXCEPT !.k = @ + 1], [right EXCEPT !.pk.circuit = "other"]}
            \cup {[of(d) EXCEPT !.params = Ceremony] : d \in Srs}
            \cup {[right EXCEPT !.params = d] : d \in Srs}
    BY Zenon DEF Foreign
  <1> HIDE DEF of, right
  <1>8. /\ [right EXCEPT !.metadata.production = ~@] \in Packages
        /\ [right EXCEPT !.metadata.k = @ + 1] \in Packages
        /\ [right EXCEPT !.metadata.circuit = "other"] \in Packages
        /\ [right EXCEPT !.metadata.shape = "other"] \in Packages
        /\ [right EXCEPT !.metadata.schema = "other"] \in Packages
    BY <1>4, <1>6, Zenon
  <1>9. /\ [right EXCEPT !.trailing = TRUE] \in Packages /\ [right EXCEPT !.k = @ + 1] \in Packages
        /\ [right EXCEPT !.pk.circuit = "other"] \in Packages
        /\ \A d \in Srs : [right EXCEPT !.params = d] \in Packages
    BY <1>2, <1>5, <1>6, Zenon
  <1>10. \A d \in Srs : [of(d) EXCEPT !.params = Ceremony] \in Packages
    BY <1>1, <1>2, <1>5, Zenon
  <1> QED
    BY <1>6, <1>7, <1>8, <1>9, <1>10, Zenon

\* A process that a step does not concern.
LEMMA SameProcess ==
    ASSUME NEW p \in Processes, ProcessFits(p), config' = config, srs'[p] = srs[p],
           cache'[p] = cache[p], pc'[p] = pc[p], keygens'[p] = keygens[p],
           answers'[p] = answers[p], p \in disturbed => p \in disturbed'
    PROVE  ProcessFits(p)'
  BY DEF ProcessFits, CacheFits, ProductionFits, AnswersFit, KeygenFits, cache_key,
         expected_metadata, Cached

\* install_authoritative_package, whatever the bytes are: the backend still
\* fits, and no other is touched.
LEMMA InstallKeeps ==
    ASSUME KeyInv, NEW p \in Processes, NEW identity \in Identities, NEW package \in Packages,
           NEW production \in BOOLEAN, production => config[p].production,
           identity.circuit = config[p].circuit, config' = config, keygens' = keygens,
           install_authoritative_package(p, identity, package, production)
    PROVE  /\ srs' \in [Processes -> SrsValues \cup {None}]
           /\ cache' \in [Processes -> SUBSET CacheKeys]
           /\ disturbed' \in SUBSET Processes
           /\ answers' \in [Processes -> SUBSET Answers]
           /\ ProcessFits(p)'
           /\ \A q \in Processes \ {p} :
                /\ srs'[q] = srs[q] /\ cache'[q] = cache[q] /\ answers'[q] = answers[q]
                /\ q \in disturbed => q \in disturbed'
  <1> USE DEF KeyInv, KeyTypes
  <1>1. CASE ~Installable(p, identity, package)
    <2>1. disturbed' = disturbed \cup {p} /\ UNCHANGED <<srs, cache, answers>>
      BY <1>1 DEF install_authoritative_package
    <2>2. ProcessFits(p)'
      BY <2>1 DEF ProcessFits, CacheFits, ProductionFits, AnswersFit, KeygenFits, cache_key,
                  expected_metadata, Cached
    <2> QED
      BY <2>1, <2>2
  <1>2. CASE Installable(p, identity, package)
    <2> DEFINE d == package.metadata.srs
               key == cache_key(p, identity, d)
    <2>1. /\ srs' = [srs EXCEPT ![p] = IF @ = None THEN d ELSE @]
          /\ cache' = [cache EXCEPT ![p] = @ \cup {key}]
          /\ answers' = [answers EXCEPT ![p] =
                @ \cup {[identity |-> identity, production |-> production]}]
          /\ disturbed' = disturbed
      BY <1>2 DEF install_authoritative_package
    <2>2. d \in SrsValues /\ d # None
      BY SrsAssumption DEF Packages, Metadata, SrsValues
    <2>3. /\ key \in CacheKeys /\ key.identity = identity /\ key.k = config[p].k /\ key.srs = d
          /\ key.production = config[p].production
      BY ConfigFacts, <2>2 DEF cache_key, CacheKeys
    <2>4. /\ package = identity.key_digest /\ package.metadata = expected_metadata(p, d)
          /\ package.params = d /\ ~package.trailing /\ package.k = config[p].k
          /\ srs[p] \in {None, d}
      BY <1>2 DEF Installable, decode_key_package, expected_metadata
    <2> HIDE DEF d, key
    <2>5. srs'[p] = d /\ cache'[p] = cache[p] \cup {key}
      BY <2>1, <2>4
    <2>6. /\ srs' \in [Processes -> SrsValues \cup {None}]
          /\ cache' \in [Processes -> SUBSET CacheKeys]
          /\ answers' \in [Processes -> SUBSET Answers]
      BY <2>1, <2>2, <2>3 DEF Answers
    <2>7. CacheFits(p)'
      <3>1. \A old \in cache[p] : srs[p] = d
        BY <2>4 DEF ProcessFits, CacheFits
      <3>2. ASSUME NEW k \in cache[p]
            PROVE  /\ k = cache_key(p, k.identity, d) /\ k.identity.circuit = config[p].circuit
                   /\ k.identity.key_digest.metadata = expected_metadata(p, d)
                   /\ k.identity.key_digest.params = d /\ k.identity.key_digest.k = config[p].k
                   /\ ~k.identity.key_digest.trailing
        BY <3>1 DEF ProcessFits, CacheFits
      <3>3. key = cache_key(p, key.identity, d)
        BY <2>3 DEF key
      <3>4. /\ \A i : cache_key(p, i, d)' = cache_key(p, i, d)
            /\ expected_metadata(p, d)' = expected_metadata(p, d)
        BY DEF cache_key, expected_metadata
      <3>5. ASSUME NEW k \in cache'[p]
            PROVE  /\ k = cache_key(p, k.identity, d) /\ k.identity.circuit = config[p].circuit
                   /\ k.identity.key_digest.metadata = expected_metadata(p, d)
                   /\ k.identity.key_digest.params = d /\ k.identity.key_digest.k = config[p].k
                   /\ ~k.identity.key_digest.trailing
        <4>1. CASE k = key
          BY <2>3, <2>4, <3>3, <4>1
        <4>2. CASE k \in cache[p]
          BY <3>2, <4>2
        <4> QED
          BY <2>5, <4>1, <4>2
      <3> QED
        BY <2>2, <2>5, <3>5 DEF CacheFits, cache_key, expected_metadata
    <2>8. ProductionFits(p)'
      BY <2>4, <2>5, SrsAssumption DEF ProcessFits, ProductionFits
    <2>9. AnswersFit(p)'
      <3>1. \A i : Cached(p, i) => Cached(p, i)'
        BY <2>5 DEF Cached
      <3>2. Cached(p, identity)'
        BY <2>3, <2>5 DEF Cached
      <3>3. answers'[p] = answers[p] \cup {[identity |-> identity, production |-> production]}
        BY <2>1
      <3> QED
        BY <3>1, <3>2, <3>3 DEF ProcessFits, AnswersFit
    <2>10. KeygenFits(p)'
      BY <2>1, <2>5 DEF ProcessFits, KeygenFits
    <2> QED
      BY <2>1, <2>6, <2>7, <2>8, <2>9, <2>10 DEF ProcessFits
  <1> QED
    BY <1>1, <1>2

-----------------------------------------------------------------------------
(* The steps *)

\* prepare with an identity: from the cache, or from the store.
LEMMA IdentityStep ==
    ASSUME KeyInv, NEW p \in Processes, NEW identity \in Identities, NEW production \in BOOLEAN,
           prepare_identity(p, identity, production)
    PROVE  KeyInv'
  <1> USE DEF KeyInv, KeyTypes
  <1>1. /\ UNCHANGED <<config, store, pc, generated, keygens>>
        /\ production => config[p].production
        /\ identity.circuit = config[p].circuit
    BY DEF prepare_identity, Accepts
  <1>2. CASE Cached(p, identity)
    <2>1. /\ answers' = [answers EXCEPT ![p] =
                @ \cup {[identity |-> identity, production |-> production]}]
          /\ UNCHANGED <<srs, cache, disturbed>>
      BY <1>2 DEF prepare_identity
    <2>2. answers' \in [Processes -> SUBSET Answers]
      BY <2>1 DEF Answers
    <2>3. \A q \in Processes \ {p} : ProcessFits(q)'
      BY <1>1, <2>1, SameProcess
    <2>4. AnswersFit(p)'
      BY <1>1, <1>2, <2>1 DEF ProcessFits, AnswersFit, Cached
    <2>5. CacheFits(p)' /\ ProductionFits(p)' /\ KeygenFits(p)'
      BY <1>1, <2>1 DEF ProcessFits, CacheFits, ProductionFits, KeygenFits, cache_key,
                        expected_metadata
    <2> QED
      BY <1>1, <2>1, <2>2, <2>3, <2>4, <2>5 DEF ProcessFits
  <1>3. CASE ~Cached(p, identity)
    <2>1. PICK package \in Stored(identity) :
                install_authoritative_package(p, identity, package, production)
      BY <1>3 DEF prepare_identity
    <2>2. package \in Packages
      BY DEF Stored, Entries
    <2>3. /\ srs' \in [Processes -> SrsValues \cup {None}]
          /\ cache' \in [Processes -> SUBSET CacheKeys]
          /\ disturbed' \in SUBSET Processes
          /\ answers' \in [Processes -> SUBSET Answers]
          /\ ProcessFits(p)'
          /\ \A q \in Processes \ {p} :
                /\ srs'[q] = srs[q] /\ cache'[q] = cache[q] /\ answers'[q] = answers[q]
                /\ q \in disturbed => q \in disturbed'
      <3> HIDE DEF KeyInv, KeyTypes
      <3> QED
        BY <1>1, <2>1, <2>2, InstallKeeps
    <2>4. \A q \in Processes \ {p} : ProcessFits(q)'
      BY <1>1, <2>3, SameProcess
    <2> QED
      BY <1>1, <2>3, <2>4
  <1> QED
    BY <1>2, <1>3

\* prepare without an identity, where a key of the backend's SRS is cached.
LEMMA ReuseStep ==
    ASSUME KeyInv, NEW p \in Processes, prepare_reuse(p)
    PROVE  KeyInv'
  <1> USE DEF KeyInv, KeyTypes
  <1>1. PICK key \in Reusable(p) :
            answers' = [answers EXCEPT ![p] = @ \cup {[identity |-> key.identity, production |-> FALSE]}]
    BY DEF prepare_reuse
  <1>2. UNCHANGED <<config, srs, cache, store, pc, generated, keygens, disturbed>>
    BY DEF prepare_reuse
  <1>3. key \in cache[p] /\ key.k = config[p].k /\ key.production = config[p].production
    BY DEF Reusable
  <1>4. Cached(p, key.identity)
    BY <1>3 DEF Cached
  <1>5. answers' \in [Processes -> SUBSET Answers]
    <2>1. key.identity \in Identities
      BY <1>3 DEF CacheKeys
    <2>2. [identity |-> key.identity, production |-> FALSE] \in Answers
      BY <2>1 DEF Answers
    <2> QED
      BY <1>1, <2>2
  <1>6. \A q \in Processes \ {p} : ProcessFits(q)'
    BY <1>1, <1>2, SameProcess
  <1>7. AnswersFit(p)'
    BY <1>1, <1>2, <1>4 DEF ProcessFits, AnswersFit, Cached
  <1>8. CacheFits(p)' /\ ProductionFits(p)' /\ KeygenFits(p)'
    BY <1>2 DEF ProcessFits, CacheFits, ProductionFits, KeygenFits, cache_key, expected_metadata
  <1> QED
    BY <1>2, <1>5, <1>6, <1>7, <1>8 DEF ProcessFits

\* prepare that generates: the backend is not a production one, and where it
\* was undisturbed it has not generated before.
LEMMA GenerateStep ==
    ASSUME KeyInv, NEW p \in Processes, prepare_generate(p)
    PROVE  KeyInv'
  <1> USE DEF KeyInv, KeyTypes
  <1>1. PICK digest \in IF srs[p] = None THEN Undrawn ELSE {srs[p]} :
            /\ srs' = [srs EXCEPT ![p] = digest]
            /\ generated' = [generated EXCEPT ![p] = encode_key_package(
                    expected_metadata(p, digest), digest, ProvingKey(digest, config[p].circuit))]
    BY DEF prepare_generate
  <1>2. /\ pc[p] = "idle" /\ ~config[p].production /\ Reusable(p) = {}
        /\ keygens' = [keygens EXCEPT ![p] = @ + 1] /\ pc' = [pc EXCEPT ![p] = "storing"]
        /\ UNCHANGED <<config, cache, store, disturbed, answers>>
    BY DEF prepare_generate, Accepts
  <1>3. digest \in SrsValues
    BY DEF Undrawn, SrsValues
  <1>4. encode_key_package(expected_metadata(p, digest), digest,
                           ProvingKey(digest, config[p].circuit)) \in Packages
    BY <1>3, PackageFacts
  <1>5. KeyTypes'
    <2>1. /\ srs' \in [Processes -> SrsValues \cup {None}]
          /\ generated' \in [Processes -> Packages \cup {None}]
          /\ keygens' \in [Processes -> Nat]
          /\ pc' \in [Processes -> {"idle", "storing", "reading"}]
      BY <1>1, <1>2, <1>3, <1>4
    <2>2. ASSUME NEW q \in Processes, pc'[q] # "idle"
          PROVE  generated'[q] \in Packages
      BY <1>1, <1>2, <1>4, <2>2
    <2> QED
      BY <1>2, <2>1, <2>2
  <1>6. cache[p] = {}
    BY <1>2 DEF ProcessFits, CacheFits, Reusable, cache_key
  <1>7. \A q \in Processes \ {p} : ProcessFits(q)'
    BY <1>1, <1>2, SameProcess
  <1>8. CacheFits(p)' /\ ProductionFits(p)'
    BY <1>2, <1>6 DEF CacheFits, ProductionFits
  <1>9. AnswersFit(p)'
    BY <1>2 DEF ProcessFits, AnswersFit, Cached
  <1>10. KeygenFits(p)'
    BY <1>2, <1>6 DEF ProcessFits, KeygenFits
  <1> QED
    BY <1>5, <1>7, <1>8, <1>9, <1>10 DEF ProcessFits

\* The identity of the package that a process is storing or reading.
LEMMA GeneratedFacts ==
    ASSUME KeyTypes, NEW p \in Processes, pc[p] # "idle"
    PROVE  GeneratedIdentity(p) \in Identities /\ GeneratedIdentity(p).circuit = config[p].circuit
  BY ConfigFacts DEF KeyTypes, GeneratedIdentity, KeyIdentity, Identities, Texts

\* The generated package goes into the store, or the store fails.
LEMMA WriteStep ==
    ASSUME KeyInv, NEW p \in Processes, write_if_absent(p)
    PROVE  KeyInv'
  <1> USE DEF KeyInv, KeyTypes
  <1>1. pc[p] = "storing" /\ UNCHANGED <<config, srs, cache, keygens, answers>>
    BY DEF write_if_absent
  <1>2. CASE /\ store' = store \cup {[identity |-> GeneratedIdentity(p), package |-> generated[p]]}
             /\ pc' = [pc EXCEPT ![p] = "reading"] /\ UNCHANGED <<generated, disturbed>>
    <2>1. store' \in SUBSET Entries
      BY <1>1, <1>2, GeneratedFacts DEF Entries
    <2>2. \A q \in Processes \ {p} : ProcessFits(q)'
      BY <1>1, <1>2, SameProcess
    <2>3. ProcessFits(p)'
      BY <1>1, <1>2 DEF ProcessFits, CacheFits, ProductionFits, AnswersFit, KeygenFits, cache_key,
                        expected_metadata, Cached
    <2> QED
      BY <1>1, <1>2, <2>1, <2>2, <2>3
  <1>3. CASE /\ pc' = [pc EXCEPT ![p] = "idle"] /\ generated' = [generated EXCEPT ![p] = None]
             /\ disturbed' = disturbed \cup {p} /\ UNCHANGED store
    <2>1. \A q \in Processes \ {p} : ProcessFits(q)'
      BY <1>1, <1>3, SameProcess
    <2>2. ProcessFits(p)'
      BY <1>1, <1>3 DEF ProcessFits, CacheFits, ProductionFits, AnswersFit, KeygenFits, cache_key,
                        expected_metadata, Cached
    <2>3. \A q \in Processes : pc'[q] # "idle" => generated'[q] \in Packages
      BY <1>3
    <2> QED
      BY <1>1, <1>3, <2>1, <2>2, <2>3
  <1> QED
    BY <1>2, <1>3 DEF write_if_absent

\* What the store holds under the generated identity is installed.
LEMMA ReadStep ==
    ASSUME KeyInv, NEW p \in Processes, read_authoritative(p)
    PROVE  KeyInv'
  <1>1. /\ pc[p] = "reading" /\ pc' = [pc EXCEPT ![p] = "idle"]
        /\ generated' = [generated EXCEPT ![p] = None] /\ UNCHANGED <<config, store, keygens>>
    BY DEF read_authoritative
  <1>2. PICK package \in Stored(GeneratedIdentity(p)) :
            install_authoritative_package(p, GeneratedIdentity(p), package, FALSE)
    BY DEF read_authoritative
  <1>3. package \in Packages
    BY DEF Stored, Entries, KeyInv, KeyTypes
  <1>4. PICK identity \in Identities :
            identity = GeneratedIdentity(p) /\ identity.circuit = config[p].circuit
    BY <1>1, GeneratedFacts DEF KeyInv
  <1>5. install_authoritative_package(p, identity, package, FALSE)
    BY <1>2, <1>4
  <1>6. /\ srs' \in [Processes -> SrsValues \cup {None}]
        /\ cache' \in [Processes -> SUBSET CacheKeys]
        /\ disturbed' \in SUBSET Processes
        /\ answers' \in [Processes -> SUBSET Answers]
        /\ ProcessFits(p)'
        /\ \A q \in Processes \ {p} :
                /\ srs'[q] = srs[q] /\ cache'[q] = cache[q] /\ answers'[q] = answers[q]
                /\ q \in disturbed => q \in disturbed'
    BY <1>1, <1>3, <1>4, <1>5, InstallKeeps
  <1> USE DEF KeyInv, KeyTypes
  <1>7. \A q \in Processes \ {p} : ProcessFits(q)'
    BY <1>1, <1>6, SameProcess
  <1>8. \A q \in Processes : pc'[q] # "idle" => generated'[q] \in Packages
    BY <1>1
  <1> QED
    BY <1>1, <1>6, <1>7, <1>8

\* A process ends and starts again with nothing but its configuration.
LEMMA RestartStep ==
    ASSUME KeyInv, NEW p \in Processes, restart(p)
    PROVE  KeyInv'
  <1> USE DEF KeyInv, KeyTypes, restart
  <1>1. \A q \in Processes \ {p} : ProcessFits(q)'
    BY SameProcess
  <1>2. ProcessFits(p)'
    BY DEF ProcessFits, CacheFits, ProductionFits, AnswersFit, KeygenFits
  <1>3. srs' \in [Processes -> SrsValues \cup {None}]
    BY DEF SrsValues
  <1>4. \A q \in Processes : pc'[q] # "idle" => generated'[q] \in Packages
    OBVIOUS
  <1> QED
    BY <1>1, <1>2, <1>3, <1>4

\* Others write to the store, and its entries are damaged: no backend notices.
LEMMA StoreStep ==
    ASSUME KeyInv, foreign_write \/ damage
    PROVE  KeyInv'
  <1> USE DEF KeyInv, KeyTypes
  <1>1. UNCHANGED <<config, srs, cache, pc, generated, keygens, disturbed, answers>>
    BY DEF foreign_write, damage
  <1>2. ASSUME foreign_write PROVE store' \in SUBSET Entries
    <2>1. PICK p \in Processes : \E package \in Foreign(p) :
            store' = store \cup {[identity |-> KeyIdentity(config[p].circuit, package), package |-> package]}
      BY <1>2 DEF foreign_write
    <2>2. PICK package \in Foreign(p) :
            store' = store \cup {[identity |-> KeyIdentity(config[p].circuit, package), package |-> package]}
      BY <2>1
    <2>3. package \in Packages
      BY ForeignFacts
    <2>4. KeyIdentity(config[p].circuit, package) \in Identities
      BY <2>3, ConfigFacts DEF KeyIdentity, Identities, Texts
    <2> QED
      BY <2>2, <2>3, <2>4 DEF Entries
  <1>3. ASSUME damage PROVE store' \in SUBSET Entries
    <2>1. PICK e \in store : store' = (store \ {e}) \cup {[e EXCEPT !.package.trailing = ~@]}
      BY <1>3 DEF damage
    <2>2. e \in Entries /\ e.package \in Packages
      BY DEF Entries
    <2>3. ASSUME NEW r \in Packages
          PROVE  [r EXCEPT !.trailing = ~@] \in Packages
      <3>1. (~r.trailing) \in BOOLEAN
        OBVIOUS
      <3>2. \A v \in BOOLEAN : [r EXCEPT !.trailing = v] \in Packages
        BY DEF Packages
      <3> QED
        BY <3>1, <3>2, Zenon
    <2>4. ASSUME NEW r \in Packages
          PROVE  [e EXCEPT !.package = r] \in Entries
      BY <2>2 DEF Entries
    <2>5. [e EXCEPT !.package.trailing = ~@] \in Entries
      BY <2>2, <2>3, <2>4, Zenon
    <2> QED
      BY <2>1, <2>5
  <1>4. store' \in SUBSET Entries
    BY <1>2, <1>3
  <1>5. \A p \in Processes : ProcessFits(p)'
    BY <1>1, SameProcess
  <1> QED
    BY <1>1, <1>4, <1>5

-----------------------------------------------------------------------------
(* The theorem *)

\* The invariant on which the theorem rests.
LEMMA KeyInvariant == KeySpec => []KeyInv
  <1>1. KeyInit => KeyInv
    <2> SUFFICES ASSUME KeyInit PROVE KeyInv
      OBVIOUS
    <2>1. KeyTypes
      BY DEF KeyInit, KeyTypes, SrsValues
    <2>2. \A p \in Processes : ProcessFits(p)
      BY DEF KeyInit, ProcessFits, CacheFits, ProductionFits, AnswersFit, KeygenFits
    <2> QED
      BY <2>1, <2>2 DEF KeyInv
  <1>2. KeyInv /\ [KeyNext]_keyVars => KeyInv'
    <2> SUFFICES ASSUME KeyInv, [KeyNext]_keyVars PROVE KeyInv'
      OBVIOUS
    <2>1. ASSUME NEW p \in Processes,
                 NEW identity \in {e.identity : e \in store} \cup {key.identity : key \in cache[p]},
                 NEW production \in BOOLEAN, prepare_identity(p, identity, production)
          PROVE  KeyInv'
      <3>1. identity \in Identities
        BY DEF KeyInv, KeyTypes, Entries, CacheKeys
      <3> QED
        BY <2>1, <3>1, IdentityStep
    <2>2. ASSUME NEW p \in Processes, \/ prepare_reuse(p) \/ prepare_generate(p)
                                      \/ write_if_absent(p) \/ read_authoritative(p) \/ restart(p)
          PROVE  KeyInv'
      BY <2>2, ReuseStep, GenerateStep, WriteStep, ReadStep, RestartStep
    <2>3. CASE UNCHANGED keyVars
      <3>1. \A p \in Processes : ProcessFits(p)'
        BY <2>3, SameProcess DEF keyVars, KeyInv
      <3> QED
        BY <2>3, <3>1 DEF keyVars, KeyInv, KeyTypes
    <2> QED
      BY <2>1, <2>2, <2>3, StoreStep DEF KeyNext
  <1> QED
    BY <1>1, <1>2, PTL DEF KeySpec

\* Keys that keygen made are told apart by their SRS alone, so that the one SRS
\* of a backend leaves it one of them: statement_for finds no second.
LEMMA GeneratedKeysAreOne ==
    ASSUME KeyInv, NEW p \in Processes
    PROVE  Cardinality({key \in cache[p] :
                key.identity.key_digest.pk = ProvingKey(key.srs, config[p].circuit)}) <= 1
  <1> DEFINE Own == {key \in cache[p] :
                        key.identity.key_digest.pk = ProvingKey(key.srs, config[p].circuit)}
  <1> SUFFICES Cardinality(Own) <= 1
    OBVIOUS
  <1>1. ASSUME NEW a \in Own, NEW b \in Own
        PROVE  a = b
    <2>1. /\ a \in CacheKeys /\ b \in CacheKeys /\ CacheFits(p)
      BY DEF KeyInv, KeyTypes, ProcessFits
    <2>2. a.srs = srs[p] /\ b.srs = srs[p]
      BY <2>1 DEF CacheFits, cache_key
    <2>3. /\ a.identity \in Identities /\ b.identity \in Identities
          /\ a.identity.key_digest \in Packages /\ b.identity.key_digest \in Packages
      BY <2>1 DEF CacheKeys, Identities
    <2>4. /\ a.identity.key_digest.metadata = b.identity.key_digest.metadata
          /\ a.identity.key_digest.params = b.identity.key_digest.params
          /\ a.identity.key_digest.k = b.identity.key_digest.k
          /\ a.identity.key_digest.pk = b.identity.key_digest.pk
          /\ ~a.identity.key_digest.trailing /\ ~b.identity.key_digest.trailing
          /\ a.identity.circuit = b.identity.circuit
      BY <2>1, <2>2 DEF CacheFits
    <2>5. \A x, y \in Packages :
            /\ x.metadata = y.metadata /\ x.params = y.params /\ x.k = y.k /\ x.pk = y.pk
            /\ x.trailing = y.trailing
            => x = y
      BY DEF Packages
    <2>6. a.identity.key_digest.trailing = b.identity.key_digest.trailing
      BY <2>3, <2>4 DEF Packages
    <2>7. a.identity.key_digest = b.identity.key_digest
      BY <2>3, <2>4, <2>5, <2>6
    <2>8. a.identity = b.identity
      BY <2>3, <2>4, <2>7 DEF Identities
    <2> QED
      BY <2>1, <2>2, <2>8 DEF CacheFits
  <1> HIDE DEF Own
  <1>2. CASE Own = {}
    BY <1>2, FS_EmptySet
  <1>3. CASE Own # {}
    <2>1. PICK a : a \in Own
      BY <1>3
    <2>2. Own = {a}
      BY <1>1, <2>1
    <2>3. Cardinality({a}) = 1
      BY FS_Singleton
    <2> QED
      BY <2>2, <2>3
  <1> QED
    BY <1>2, <1>3

\* Whatever others put into the store of keys, whatever is damaged there, and
\* however the calls of prepare interleave, fail and are cut off: a backend
\* holds whole keys of its own configuration and SRS, answers a job that asks
\* for production keys with keys of the ceremony, can prove with every key it
\* has answered with, generates once unless the store disturbs it, and holds
\* at most one key that keygen made.
THEOREM KeysAlwaysFit == KeySpec => []KeysFit
  <1>1. KeyInv => KeysFit
    <2> SUFFICES ASSUME KeyInv PROVE KeysFit
      OBVIOUS
    <2> USE DEF KeyInv, ProcessFits
    <2>1. CacheMatchesBackend
      BY DEF CacheMatchesBackend, CacheFits, cache_key
    <2>2. ProductionKeys
      <3> SUFFICES ASSUME NEW p \in Processes, NEW a \in answers[p], a.production
                   PROVE  /\ a.identity.key_digest.params = Ceremony
                          /\ a.identity.key_digest.metadata.production
        BY DEF ProductionKeys
      <3>1. config[p].production /\ srs[p] = Ceremony
        BY DEF AnswersFit, ProductionFits
      <3>2. PICK key \in cache[p] : key.identity = a.identity
        BY DEF AnswersFit, Cached
      <3>3. key.identity.key_digest.params = Ceremony
        BY <3>1 DEF CacheFits
      <3>4. key.identity.key_digest.metadata = expected_metadata(p, srs[p])
        BY DEF CacheFits
      <3> QED
        BY <3>1, <3>2, <3>3, <3>4 DEF expected_metadata
    <2>3. AnswersUsable
      BY DEF AnswersUsable, AnswersFit
    <2>4. KeygenOnce
      BY DEF KeygenOnce, KeygenFits
    <2>5. SoleKey
      <3> HIDE DEF KeyInv, ProcessFits
      <3> QED
        BY GeneratedKeysAreOne, Zenon DEF SoleKey
    <2> QED
      BY <2>1, <2>2, <2>3, <2>4, <2>5 DEF KeysFit
  <1> QED
    BY <1>1, KeyInvariant, PTL

-----------------------------------------------------------------------------
(* Proofs: backends prove to any paths through failures, kills and losses of *)
(* power, and check what they get, whoever made it.                          *)


\* The proof of a job by a backend.
Made(b, job) ==
    create_proof(job.key, circuit_instances(b, instance_prefix(b, job.key), job.witness.inputs),
                 ProofManifest(b, job))

\* What prove returns when the proof is at the path.
Result(b, job, path) ==
    UnverifiedProof(b, job, path, Made(b, job), statement_for_key(b, job.witness, job.key),
                    ProofManifest(b, job))

Valid(b, job) == ProofJob(job) /\ Provable(b, job)

-----------------------------------------------------------------------------
(* Statements and proofs *)

\* The instances a verifier takes from the statement are those the circuit
\* exposes: AssemblerCircuit::synthesize and statement_for_key agree.
LEMMA InstancesAgree ==
    ASSUME NEW b, NEW witness, NEW key
    PROVE  instances(statement_for_key(b, witness, key)) =
                circuit_instances(b, instance_prefix(b, key), witness.inputs)
  <1>1. CASE b.schema = "leaf"
    BY <1>1 DEF instances, statement_for_key, circuit_instances, leaf_statement
  <1>2. CASE b.schema # "leaf"
    BY <1>2 DEF instances, statement_for_key, circuit_instances, encode_public_statement
  <1> QED
    BY <1>1, <1>2

\* A backend trusts its own statement.
LEMMA OwnStatementTrusted ==
    ASSUME NEW b, NEW witness, NEW key, b.schema \in {"leaf", "public"}
    PROVE  StatementTrusted(b, statement_for_key(b, witness, key), key)
  <1>1. CASE b.schema = "leaf"
    BY <1>1 DEF StatementTrusted, statement_for_key, leaf_statement, BoundaryClaim
  <1>2. CASE b.schema = "public"
    BY <1>2 DEF StatementTrusted, statement_for_key, encode_public_statement
  <1> QED
    BY <1>1, <1>2

\* What prove returns for a job verifies, with the job and without it.
LEMMA ResultVerifies ==
    ASSUME NEW b, NEW job, NEW path, Valid(b, job), b.schema \in {"leaf", "public"},
           \A key \in b.keys : key.flavor = "halo2"
    PROVE  /\ Accepted(b, job, Result(b, job, path), Made(b, job))
           /\ SelfAccepted(b, Result(b, job, path), Made(b, job))
  <1> DEFINE key == job.key
             statement == statement_for_key(b, job.witness, key)
             manifest == ProofManifest(b, job)
             bytes == Made(b, job)
             claim == Result(b, job, path)
  <1>1. /\ claim.path = path /\ claim.proof_digest = bytes /\ claim.statement = statement
        /\ claim.circuit = b.circuit /\ claim.key = key /\ claim.flavor = "halo2"
        /\ claim.backend = "cpu" /\ claim.shard = job.shard /\ claim.manifest = manifest
        /\ claim.run = job.run
    BY DEF Result, UnverifiedProof
  <1>2. /\ job.run = b.run /\ job.shard = b.shard /\ job.shard.circuit = b.circuit
        /\ key \in b.keys /\ key.circuit = b.circuit /\ key.flavor = "halo2"
    BY DEF Valid, ProofJob, Provable
  <1>3. /\ ManifestTrusted(b, manifest, key, job.witness.digest)
        /\ manifest.srs = key.srs /\ manifest.witness = job.witness.digest
    BY <1>2 DEF ManifestTrusted, ProofManifest
  <1>4. StatementTrusted(b, statement, key)
    BY OwnStatementTrusted
  <1>5. Halo2Verifies(bytes, key, instances(statement), manifest)
    <2>1. instances(statement) = circuit_instances(b, instance_prefix(b, key), job.witness.inputs)
      BY InstancesAgree
    <2> QED
      BY <2>1 DEF Halo2Verifies, Made, create_proof
  <1> HIDE DEF key, statement, manifest, bytes, claim
  <1>6. verify_cryptographically(b, claim, bytes, key, job.witness.digest)
    BY <1>1, <1>2, <1>3, <1>4, <1>5 DEF verify_cryptographically, RequestValid
  <1>7. ClaimFits(VerificationExpectation(b, job, claim), claim)
    BY <1>1, <1>2 DEF ClaimFits, VerificationExpectation, statement, key
  <1>8. Accepted(b, job, claim, bytes)
    BY <1>6, <1>7 DEF Accepted, key
  <1>9. SelfAccepted(b, claim, bytes)
    BY <1>1, <1>3, <1>6 DEF SelfAccepted
  <1> QED
    BY <1>8, <1>9 DEF claim, bytes

\* A proof that verify_proof accepts for a job is the proof of that job: the
\* instances come from the caller's own statement, the manifest's fields from
\* the backend, the job and its witness.
LEMMA AcceptedIsMade ==
    ASSUME NEW b, NEW job, NEW claim, NEW vk, NEW exposed, NEW bound, NEW trailing \in BOOLEAN,
           NEW c, NEW named, claim.manifest = ProofManifest(c, named),
           Accepted(b, job, claim,
                [vk |-> vk, instances |-> exposed, manifest |-> bound, trailing |-> trailing])
    PROVE  [vk |-> vk, instances |-> exposed, manifest |-> bound, trailing |-> trailing] = Made(b, job)
  <1> DEFINE bytes == [vk |-> vk, instances |-> exposed, manifest |-> bound, trailing |-> trailing]
  <1>1. verify_cryptographically(b, claim, bytes, job.key, job.witness.digest)
    BY DEF Accepted
  <1>2. /\ claim.statement = statement_for_key(b, job.witness, job.key)
        /\ claim.run = job.run /\ claim.shard = job.shard
    BY DEF Accepted, ClaimFits, VerificationExpectation
  <1>3. /\ claim.run = b.run /\ claim.shard = b.shard
        /\ ManifestTrusted(b, claim.manifest, job.key, job.witness.digest)
        /\ claim.manifest.srs = job.key.srs
        /\ Halo2Verifies(bytes, job.key, instances(claim.statement), claim.manifest)
    BY <1>1 DEF verify_cryptographically
  <1>4. claim.manifest = ProofManifest(b, job)
    BY <1>2, <1>3 DEF ManifestTrusted, ProofManifest
  <1>5. /\ vk = job.key /\ exposed = instances(claim.statement) /\ bound = claim.manifest /\ ~trailing
    BY <1>3 DEF Halo2Verifies
  <1>6. exposed = circuit_instances(b, instance_prefix(b, job.key), job.witness.inputs)
    BY <1>2, <1>5, InstancesAgree
  <1> QED
    BY <1>4, <1>5, <1>6 DEF Made, create_proof

\* The statement of a witness under a prefix that somebody chose.
Prefixed(c, witness, key, prefix) ==
    LET s == statement_for_key(c, witness, key)
    IN  IF s.schema = "leaf" THEN [s EXCEPT !.prefix = prefix] ELSE s

\* A statement that a backend trusts, of a backend with the same weights, is
\* a statement of its own.
LEMMA TrustedIsOwn ==
    ASSUME NEW b, NEW c, NEW witness, NEW key, NEW prefix, NEW statement,
           c.schema \in {"leaf", "public"}, c.weights = b.weights,
           statement = Prefixed(c, witness, key, prefix),
           StatementTrusted(b, statement, key)
    PROVE  statement = statement_for_key(b, witness, key)
  <1>1. CASE c.schema = "leaf"
    <2>1. statement = [schema |-> "leaf", prefix |-> prefix,
                       input_claims |-> BoundaryClaim(c.inputs, witness.inputs),
                       output_claims |-> BoundaryClaim(c.outputs, result(witness.inputs, c.weights)),
                       weights |-> c.weights]
      BY <1>1 DEF Prefixed, statement_for_key, leaf_statement
    <2>2. b.schema = "leaf"
      BY <2>1 DEF StatementTrusted
    <2>3. prefix = instance_prefix(b, key) /\ c.inputs = b.inputs /\ c.outputs = b.outputs
      BY <2>1, <2>2 DEF StatementTrusted, BoundaryClaim
    <2> QED
      BY <2>1, <2>2, <2>3 DEF statement_for_key, leaf_statement
  <1>2. CASE c.schema = "public"
    <2>1. statement = encode_public_statement(c, witness.inputs)
      BY <1>2 DEF Prefixed, statement_for_key, encode_public_statement
    <2>2. b.schema = "public" /\ c.shape = b.shape
      BY <2>1 DEF StatementTrusted, encode_public_statement
    <2> QED
      BY <2>1, <2>2 DEF statement_for_key, encode_public_statement
  <1> QED
    BY <1>1, <1>2

-----------------------------------------------------------------------------
(* Verifying *)

VerifyInv == backends \in Backends /\ AcceptedMeansProved

\* One accepted check, with a job or without.
LEMMA CheckStep ==
    ASSUME VerifyInv, VerifyNext
    PROVE  VerifyInv'
  <1>1. PICK p, q, of \in Provers, job, bound, named \in Jobs, trailing \in BOOLEAN :
            LET prefix == instance_prefix(backends[of], job.key)
                bound_manifest == ProofManifest(backends[q], bound)
                manifest == ProofManifest(backends[q], named)
                bytes == MadeBytes(q, job, prefix, bound_manifest, trailing)
                claim == MadeClaim(q, job, bytes, prefix, manifest)
            IN  \/ \E expected \in Jobs : verify_proof(p, expected, claim, bytes)
                \/ verify(p, claim, bytes)
    BY DEF VerifyNext
  <1> DEFINE b == backends[p]
             c == backends[q]
             prefix == instance_prefix(backends[of], job.key)
             bound_manifest == ProofManifest(c, bound)
             manifest == ProofManifest(c, named)
             bytes == MadeBytes(q, job, prefix, bound_manifest, trailing)
             claim == MadeClaim(q, job, bytes, prefix, manifest)
             exposed == circuit_instances(c, prefix, job.witness.inputs)
  <1>2. \/ \E expected \in Jobs : verify_proof(p, expected, claim, bytes)
        \/ verify(p, claim, bytes)
    BY <1>1
  <1>3. bytes = [vk |-> job.key, instances |-> exposed, manifest |-> bound_manifest,
                 trailing |-> trailing]
    BY DEF MadeBytes, create_proof
  <1>4. /\ claim.manifest = manifest /\ claim.key = job.key /\ claim.circuit = c.circuit
        /\ claim.statement = Prefixed(c, job.witness, job.key, prefix)
    BY DEF MadeClaim, UnverifiedProof, Prefixed
  <1>5. job.witness \in Witnesses
    BY DEF Jobs
  <1>6. /\ b.schema \in {"leaf", "public"} /\ c.schema \in {"leaf", "public"}
        /\ b.circuit = c.circuit => c.weights = b.weights
    BY BackendsAssumption DEF VerifyInv
  <1> HIDE DEF b, c, prefix, bound_manifest, manifest, bytes, claim, exposed
  <1>7. ASSUME NEW key, NEW digest, verify_cryptographically(b, claim, bytes, key, digest)
        PROVE  /\ \E w \in Witnesses : claim.statement = statement_for_key(b, w, claim.key)
               /\ bytes.manifest = claim.manifest
               /\ claim.manifest.run = b.run /\ claim.manifest.shard = b.shard
    <2>1. /\ claim.key = key /\ claim.circuit = b.circuit
          /\ ManifestTrusted(b, claim.manifest, key, digest)
          /\ StatementTrusted(b, claim.statement, key)
          /\ bytes.manifest = claim.manifest
      BY <1>7 DEF verify_cryptographically, RequestValid, Halo2Verifies
    <2>2. claim.statement = statement_for_key(b, job.witness, claim.key)
      <3>1. c.weights = b.weights /\ job.key = key /\ StatementTrusted(b, claim.statement, job.key)
        BY <1>4, <1>6, <2>1
      <3>2. claim.statement = statement_for_key(b, job.witness, job.key)
        BY <1>4, <1>6, <3>1, TrustedIsOwn
      <3> QED
        BY <1>4, <3>2
    <2> QED
      BY <1>5, <2>1, <2>2 DEF ManifestTrusted
  <1>8. ASSUME NEW expected \in Jobs, verify_proof(p, expected, claim, bytes)
        PROVE  VerifyInv'
    <2>1. /\ Accepted(b, expected, claim, bytes) /\ backends' = backends
          /\ checked' = [by |-> p, job |-> expected, claim |-> claim, bytes |-> bytes]
      BY <1>8 DEF verify_proof, b
    <2>2. bytes = Made(b, expected)
      BY <1>3, <1>4, <2>1, AcceptedIsMade DEF manifest
    <2>3. VerifiedIsTheJob'
      BY <2>1, <2>2 DEF VerifiedIsTheJob, Made, b
    <2>4. AcceptedIsProved'
      BY <1>7, <2>1 DEF AcceptedIsProved, Accepted, b
    <2> QED
      BY <2>1, <2>3, <2>4 DEF VerifyInv, AcceptedMeansProved
  <1>9. ASSUME verify(p, claim, bytes)
        PROVE  VerifyInv'
    <2>1. /\ SelfAccepted(b, claim, bytes) /\ backends' = backends
          /\ checked' = [by |-> p, job |-> Absent, claim |-> claim, bytes |-> bytes]
      BY <1>9 DEF verify, b
    <2>2. VerifiedIsTheJob'
      BY <2>1 DEF VerifiedIsTheJob
    <2>3. AcceptedIsProved'
      BY <1>7, <2>1 DEF AcceptedIsProved, SelfAccepted, b
    <2> QED
      BY <2>1, <2>2, <2>3 DEF VerifyInv, AcceptedMeansProved
  <1> QED
    BY <1>2, <1>8, <1>9

\* Whatever proof, statement and manifest a backend is shown, of whichever
\* backend, artifact, run or attempt: what verify_proof accepts is the proof
\* of the caller's job, and what verify accepts is a statement of the
\* backend's own run, shard and key that some execution satisfies.
THEOREM AcceptedIsAlwaysProved == VerifySpec => []AcceptedMeansProved
  <1>1. ProofInit => VerifyInv
    BY DEF ProofInit, VerifyInv, AcceptedMeansProved, VerifiedIsTheJob, AcceptedIsProved
  <1>2. VerifyInv /\ [VerifyNext]_proofVars => VerifyInv'
    <2>1. ASSUME VerifyInv, UNCHANGED proofVars PROVE VerifyInv'
      BY <2>1 DEF VerifyInv, AcceptedMeansProved, VerifiedIsTheJob, AcceptedIsProved, proofVars
    <2> QED
      BY <2>1, CheckStep
  <1>3. VerifyInv => AcceptedMeansProved
    BY DEF VerifyInv
  <1> QED
    BY <1>1, <1>2, <1>3, PTL DEF VerifySpec

-----------------------------------------------------------------------------
(* Proving *)

FileOf(bytes, named) == [bytes |-> bytes, synced |-> TRUE, named |-> named]
AbsentIsNoFile == \A bytes, named : FileOf(bytes, named) # Absent

\* At a path there is a whole proof, of whichever job, whose bytes are synced.
FilesWhole ==
    /\ DOMAIN files = Paths
    /\ \A path \in Paths :
        files[path] = Absent \/ \E bytes : \E named \in BOOLEAN : files[path] = FileOf(bytes, named)

HasFile(path, bytes) == \E named \in BOOLEAN : files[path] = FileOf(bytes, named)

\* A call that prove has accepted, what it has made, and what it has published.
CallFits(p) ==
    LET bytes == Made(backends[p], call[p].job)
    IN  stage[p] # "idle" =>
        /\ DOMAIN call[p] = {"job", "path", "temp"}
        /\ Valid(backends[p], call[p].job) /\ call[p].path \in Paths
        /\ stage[p] # "proving" => call[p].temp = FileOf(bytes, FALSE)
        /\ stage[p] \in {"syncing", "removing", "reading"} => HasFile(call[p].path, bytes)
        /\ stage[p] \in {"removing", "reading"} => files[call[p].path] = FileOf(bytes, TRUE)

ReturnedFits(r) ==
    /\ r.by \in Provers /\ Valid(backends[r.by], r.job) /\ r.proof.path \in Paths
    /\ r.proof = Result(backends[r.by], r.job, r.proof.path)
    /\ files[r.proof.path] = FileOf(Made(backends[r.by], r.job), TRUE)

ProveInv ==
    /\ backends \in Backends
    /\ FilesWhole
    /\ DOMAIN stage = Provers /\ DOMAIN call = Provers
    /\ \A p \in Provers : CallFits(p)
    /\ \A r \in returned : ReturnedFits(r)

\* No step replaces a proof or takes the name of a synced one.
FilesKept ==
    \A path \in Paths : \A bytes :
        /\ HasFile(path, bytes) => HasFile(path, bytes)'
        /\ files[path] = FileOf(bytes, TRUE) => files'[path] = FileOf(bytes, TRUE)

\* A call that a step does not concern keeps what it has.
LEMMA SameCall ==
    ASSUME NEW p \in Provers, CallFits(p), FilesKept, backends' = backends,
           stage'[p] = stage[p], call'[p] = call[p]
    PROVE  CallFits(p)'
  <1> DEFINE bytes == Made(backends[p], call[p].job)
  <1>1. CASE stage[p] = "idle"
    BY <1>1 DEF CallFits
  <1>2. CASE stage[p] # "idle"
    <2>1. Made(backends[p], call[p].job)' = bytes /\ Valid(backends[p], call[p].job)' = Valid(backends[p], call[p].job)
      BY Zenon DEF Made, Valid, create_proof, circuit_instances, instance_prefix, ProofManifest, ProofJob, Provable
    <2> QED
      BY <1>2, <2>1 DEF CallFits, FilesKept
  <1> QED
    BY <1>1, <1>2

\* A process that is idle has no call to keep.
LEMMA IdleCall ==
    ASSUME NEW p \in Provers, stage'[p] = "idle"
    PROVE  CallFits(p)'
  BY DEF CallFits

\* What was returned stays where it is.
LEMMA SameReturned ==
    ASSUME NEW r, ReturnedFits(r), FilesKept, backends' = backends
    PROVE  ReturnedFits(r)'
  BY DEF ReturnedFits, FilesKept

\* Where files do not change, every file is kept.
LEMMA NoFileChange == files' = files => FilesKept
  BY DEF FilesKept, HasFile

\* prove ends with an error, or its process is killed.
LEMMA GiveUpStep ==
    ASSUME ProveInv, NEW p \in Provers, FailProve(p) \/ killed(p)
    PROVE  ProveInv'
  <1>1. /\ stage' = [stage EXCEPT ![p] = "idle"] /\ call' = [call EXCEPT ![p] = Absent]
        /\ UNCHANGED <<backends, files, returned>>
    BY DEF FailProve, killed, Goto
  <1>2. FilesKept
    BY <1>1, NoFileChange
  <1>3. \A q \in Provers : CallFits(q)'
    <2>1. CallFits(p)'
      BY <1>1, IdleCall DEF ProveInv
    <2>2. \A q \in Provers \ {p} : CallFits(q)'
      BY <1>1, <1>2, SameCall DEF ProveInv
    <2> QED
      BY <2>1, <2>2
  <1>4. \A r \in returned' : ReturnedFits(r)'
    BY <1>1, <1>2, SameReturned DEF ProveInv
  <1> QED
    BY <1>1, <1>3, <1>4 DEF ProveInv, FilesWhole

\* A call is accepted: the job is one that this backend can prove.
LEMMA CreateStep ==
    ASSUME ProveInv, NEW p \in Provers, NEW job \in Jobs, NEW path \in Paths,
           create_temp_sibling(p, job, path)
    PROVE  ProveInv'
  <1>1. /\ stage' = [stage EXCEPT ![p] = "proving"]
        /\ call' = [call EXCEPT ![p] = [job |-> job, path |-> path, temp |-> Absent]]
        /\ UNCHANGED <<backends, files, returned>> /\ Valid(backends[p], job)
    BY DEF create_temp_sibling, Goto, Valid
  <1>2. FilesKept
    BY <1>1, NoFileChange
  <1>3. CallFits(p)'
    BY <1>1 DEF ProveInv, CallFits
  <1>4. \A q \in Provers \ {p} : CallFits(q)'
    BY <1>1, <1>2, SameCall DEF ProveInv
  <1>5. \A r \in returned' : ReturnedFits(r)'
    BY <1>1, <1>2, SameReturned DEF ProveInv
  <1> QED
    BY <1>1, <1>3, <1>4, <1>5 DEF ProveInv, FilesWhole

\* create_proof: the temporary file holds the proof of the call's job.
LEMMA MakeStep ==
    ASSUME ProveInv, NEW p \in Provers, prove(p)
    PROVE  ProveInv'
  <1>1. CASE FailProve(p)
    BY <1>1, GiveUpStep
  <1>2. CASE ~FailProve(p)
    <2>1. /\ call' = [call EXCEPT ![p].temp = FileOf(Made(backends[p], call[p].job), FALSE)]
          /\ stage[p] = "proving" /\ stage' = [stage EXCEPT ![p] = "linking"]
          /\ UNCHANGED <<backends, files, returned>>
      BY <1>2 DEF prove, Goto, FileOf, Made
    <2>2. FilesKept
      BY <2>1, NoFileChange
    <2>3. CallFits(p)'
      <3>1. /\ DOMAIN call[p] = {"job", "path", "temp"}
            /\ Valid(backends[p], call[p].job) /\ call[p].path \in Paths
        BY <2>1 DEF ProveInv, CallFits
      <3>2. /\ call'[p].job = call[p].job /\ call'[p].path = call[p].path
            /\ call'[p].temp = FileOf(Made(backends[p], call[p].job), FALSE)
            /\ DOMAIN call'[p] = {"job", "path", "temp"}
        BY <2>1, <3>1 DEF ProveInv
      <3>3. stage'[p] = "linking"
        BY <2>1 DEF ProveInv
      <3> QED
        BY <2>1, <3>1, <3>2, <3>3 DEF CallFits
    <2>4. \A q \in Provers \ {p} : CallFits(q)'
      BY <2>1, <2>2, SameCall DEF ProveInv
    <2>5. \A r \in returned' : ReturnedFits(r)'
      BY <2>1, <2>2, SameReturned DEF ProveInv
    <2> QED
      BY <2>1, <2>3, <2>4, <2>5 DEF ProveInv, FilesWhole
  <1> QED
    BY <1>1, <1>2

\* Publication without clobber: the path was free.
LEMMA LinkStep ==
    ASSUME AbsentIsNoFile, ProveInv, NEW p \in Provers, hard_link(p)
    PROVE  ProveInv'
  <1>1. CASE FailProve(p)
    BY <1>1, GiveUpStep
  <1>2. CASE ~FailProve(p)
    <2> DEFINE path == call[p].path
               bytes == Made(backends[p], call[p].job)
    <2>1. /\ stage[p] = "linking" /\ files[path] = Absent
          /\ files' = [files EXCEPT ![path] = call[p].temp]
          /\ stage' = [stage EXCEPT ![p] = "syncing"]
          /\ UNCHANGED <<backends, call, returned>>
      BY <1>2 DEF hard_link, Goto
    <2>2. path \in Paths /\ call[p].temp = FileOf(bytes, FALSE)
      BY <2>1 DEF ProveInv, CallFits
    <2>3. files' = [files EXCEPT ![path] = FileOf(bytes, FALSE)]
      BY <2>1, <2>2
    <2>4. FilesKept
      <3> SUFFICES ASSUME NEW other \in Paths, NEW b,
                          \/ HasFile(other, b) \/ files[other] = FileOf(b, TRUE)
                   PROVE  files'[other] = files[other]
        BY DEF FilesKept, HasFile
      <3>1. files[other] # Absent
        BY DEF HasFile, AbsentIsNoFile
      <3> QED
        BY <2>1, <2>3, <3>1 DEF ProveInv, FilesWhole
    <2>5. FilesWhole'
      BY <2>2, <2>3 DEF ProveInv, FilesWhole
    <2>6. CallFits(p)'
      <3>1. files'[path] = FileOf(bytes, FALSE) /\ stage'[p] = "syncing"
        BY <2>1, <2>2, <2>3 DEF ProveInv, FilesWhole
      <3>2. HasFile(path, bytes)'
        BY <2>1, <3>1 DEF HasFile
      <3> QED
        BY <2>1, <3>1, <3>2 DEF ProveInv, CallFits
    <2>7. \A q \in Provers \ {p} : CallFits(q)'
      BY <2>1, <2>4, SameCall DEF ProveInv
    <2>8. \A r \in returned' : ReturnedFits(r)'
      BY <2>1, <2>4, SameReturned DEF ProveInv
    <2> QED
      BY <2>1, <2>5, <2>6, <2>7, <2>8 DEF ProveInv
  <1> QED
    BY <1>1, <1>2

\* A file whose name is synced.
LEMMA NamedFile ==
    ASSUME NEW bytes, NEW named \in BOOLEAN, NEW f, f = FileOf(bytes, named)
    PROVE  /\ [f EXCEPT !.named = TRUE] = FileOf(bytes, TRUE)
           /\ f.bytes = bytes /\ f.synced /\ f.named = named
  <1>1. f \in [bytes : {bytes}, synced : {TRUE}, named : BOOLEAN]
    BY DEF FileOf
  <1>2. [f EXCEPT !.named = TRUE] \in [bytes : {bytes}, synced : {TRUE}, named : {TRUE}]
    BY <1>1
  <1>3. ASSUME NEW g \in [bytes : {bytes}, synced : {TRUE}, named : {TRUE}]
        PROVE  g = FileOf(bytes, TRUE)
    <2>1. \A x, y \in [bytes : {bytes}, synced : BOOLEAN, named : BOOLEAN] :
            x.synced = y.synced /\ x.named = y.named => x = y
      OBVIOUS
    <2>2. /\ FileOf(bytes, TRUE) \in [bytes : {bytes}, synced : BOOLEAN, named : BOOLEAN]
          /\ FileOf(bytes, TRUE).synced = TRUE /\ FileOf(bytes, TRUE).named = TRUE
      BY DEF FileOf
    <2>3. /\ g \in [bytes : {bytes}, synced : BOOLEAN, named : BOOLEAN]
          /\ g.synced = TRUE /\ g.named = TRUE
      OBVIOUS
    <2> QED
      BY <2>1, <2>2, <2>3, Zenon
  <1>4. [f EXCEPT !.named = TRUE] = FileOf(bytes, TRUE)
    BY <1>2, <1>3, Zenon
  <1>5. f.bytes = bytes
    BY DEF FileOf
  <1>6. f.synced /\ f.named = named
    BY Zenon DEF FileOf
  <1> QED
    BY <1>4, <1>5, <1>6, Zenon

\* Syncing the directory gives every file in it its name for good.
LEMMA SyncKeeps ==
    ASSUME AbsentIsNoFile, FilesWhole, files' = SyncedNames
    PROVE  /\ FilesWhole' /\ FilesKept
           /\ \A path \in Paths : \A bytes : HasFile(path, bytes) => files'[path] = FileOf(bytes, TRUE)
  <1>1. ASSUME NEW path \in Paths, NEW bytes, NEW named \in BOOLEAN,
               files[path] = FileOf(bytes, named)
        PROVE  files'[path] = FileOf(bytes, TRUE)
    <2>1. files[path] # Absent
      BY <1>1 DEF AbsentIsNoFile
    <2>2. files'[path] = [files[path] EXCEPT !.named = TRUE]
      BY <2>1 DEF SyncedNames
    <2>3. [files[path] EXCEPT !.named = TRUE] = FileOf(bytes, TRUE)
      BY <1>1, NamedFile, Zenon
    <2> QED
      BY <2>2, <2>3, Zenon
  <1>2. \A path \in Paths : files[path] = Absent => files'[path] = Absent
    BY DEF SyncedNames
  <1>3. DOMAIN files' = Paths
    BY DEF SyncedNames
  <1>4. FilesWhole'
    BY <1>1, <1>2, <1>3 DEF FilesWhole
  <1>5. \A path \in Paths : \A bytes : HasFile(path, bytes) => files'[path] = FileOf(bytes, TRUE)
    BY <1>1 DEF HasFile
  <1>6. FilesKept
    <2> SUFFICES ASSUME NEW path \in Paths, NEW bytes
                 PROVE  /\ HasFile(path, bytes) => HasFile(path, bytes)'
                        /\ files[path] = FileOf(bytes, TRUE) => files'[path] = FileOf(bytes, TRUE)
      BY DEF FilesKept
    <2> QED
      BY <1>1, <1>5 DEF HasFile
  <1> QED
    BY <1>4, <1>5, <1>6

\* The parent directory is synced after the link, and again after the
\* temporary name is removed.
LEMMA SyncStep ==
    ASSUME AbsentIsNoFile, ProveInv, NEW p \in Provers, sync_parent_dir(p) \/ remove_temp(p)
    PROVE  ProveInv'
  <1>1. CASE FailProve(p)
    BY <1>1, GiveUpStep
  <1>2. CASE ~FailProve(p)
    <2> DEFINE path == call[p].path
               bytes == Made(backends[p], call[p].job)
    <2>1. /\ stage[p] \in {"syncing", "removing"} /\ files' = SyncedNames
          /\ \/ stage' = [stage EXCEPT ![p] = "removing"]
             \/ stage' = [stage EXCEPT ![p] = "reading"]
          /\ UNCHANGED <<backends, call, returned>>
      BY <1>2 DEF sync_parent_dir, remove_temp, Goto
    <2>2. /\ FilesWhole' /\ FilesKept
          /\ \A q \in Paths : \A b : HasFile(q, b) => files'[q] = FileOf(b, TRUE)
      BY <2>1, SyncKeeps DEF ProveInv
    <2>3. CallFits(p)'
      <3>1. /\ path \in Paths /\ HasFile(path, bytes) /\ Valid(backends[p], call[p].job)
            /\ call[p].temp = FileOf(bytes, FALSE) /\ DOMAIN call[p] = {"job", "path", "temp"}
        BY <2>1 DEF ProveInv, CallFits
      <3>2. files'[path] = FileOf(bytes, TRUE)
        BY <2>2, <3>1
      <3>3. HasFile(path, bytes)'
        BY <2>1, <3>2 DEF HasFile
      <3> QED
        BY <2>1, <3>1, <3>2, <3>3 DEF CallFits
    <2>4. \A q \in Provers \ {p} : CallFits(q)'
      BY <2>1, <2>2, SameCall DEF ProveInv
    <2>5. \A r \in returned' : ReturnedFits(r)'
      BY <2>1, <2>2, SameReturned DEF ProveInv
    <2> QED
      BY <2>1, <2>2, <2>3, <2>4, <2>5 DEF ProveInv
  <1> QED
    BY <1>1, <1>2

\* The digest is read back from the path, which holds the call's own proof.
LEMMA ReadBackStep ==
    ASSUME ProveInv, NEW p \in Provers, read_bounded(p)
    PROVE  ProveInv'
  <1>1. CASE FailProve(p)
    BY <1>1, GiveUpStep
  <1>2. CASE ~FailProve(p)
    <2> DEFINE b == backends[p]
               job == call[p].job
               path == call[p].path
               answer(bytes) == UnverifiedProof(b, job, path, bytes,
                    statement_for_key(b, job.witness, job.key), ProofManifest(b, job))
    <2>1. /\ stage[p] = "reading"
          /\ returned' = returned \cup {[by |-> p, job |-> job, proof |-> answer(files[path].bytes)]}
          /\ stage' = [stage EXCEPT ![p] = "idle"] /\ call' = [call EXCEPT ![p] = Absent]
          /\ UNCHANGED <<backends, files>>
      BY <1>2 DEF read_bounded, Goto
    <2>2. Valid(b, job) /\ path \in Paths /\ files[path] = FileOf(Made(b, job), TRUE)
      BY <2>1 DEF ProveInv, CallFits
    <2>3. files[path].bytes = Made(b, job)
      BY <2>2 DEF FileOf
    <2>4. answer(files[path].bytes) = Result(b, job, path)
      BY <2>3 DEF Result
    <2>5. Result(b, job, path).path = path
      BY DEF Result, UnverifiedProof
    <2>6. FilesKept
      BY <2>1, NoFileChange
    <2>7. ASSUME NEW r \in returned'
          PROVE  ReturnedFits(r)'
      <3>1. CASE r \in returned
        BY <2>1, <2>6, <3>1, SameReturned DEF ProveInv
      <3>2. CASE r = [by |-> p, job |-> job, proof |-> answer(files[path].bytes)]
        <4>1. r = [by |-> p, job |-> job, proof |-> Result(b, job, path)]
          BY <2>4, <3>2
        <4>2. /\ r.by = p /\ r.job = job /\ r.proof = Result(b, job, path) /\ r.proof.path = path
          BY <2>5, <4>1
        <4>3. ReturnedFits(r)
          BY <2>2, <4>2 DEF ReturnedFits
        <4> QED
          BY <2>1, <2>6, <4>3, SameReturned
      <3> QED
        BY <2>1, <3>1, <3>2
    <2>8. CallFits(p)'
      BY <2>1, IdleCall DEF ProveInv
    <2>9. \A q \in Provers \ {p} : CallFits(q)'
      BY <2>1, <2>6, SameCall DEF ProveInv
    <2> QED
      BY <2>1, <2>7, <2>8, <2>9 DEF ProveInv, FilesWhole
  <1> QED
    BY <1>1, <1>2

\* A loss of power ends every call; it takes names that were not synced, and
\* no bytes, since the bytes were synced before they had a name.
LEMMA PowerStep ==
    ASSUME AbsentIsNoFile, ProveInv, power_lost
    PROVE  ProveInv'
  <1>1. PICK kept \in SUBSET Paths :
            files' = [path \in Paths |->
                IF files[path] = Absent \/ (path \notin kept /\ ~files[path].named) THEN Absent
                ELSE IF files[path].synced THEN [files[path] EXCEPT !.named = TRUE]
                     ELSE [files[path] EXCEPT !.bytes.trailing = TRUE]]
    BY DEF power_lost
  <1>2. /\ stage' = [p \in Provers |-> "idle"] /\ call' = [p \in Provers |-> Absent]
        /\ UNCHANGED <<backends, returned>>
    BY DEF power_lost
  <1>3. ASSUME NEW path \in Paths, NEW bytes, NEW named \in BOOLEAN,
               files[path] = FileOf(bytes, named)
        PROVE  /\ files'[path] = Absent \/ files'[path] = FileOf(bytes, TRUE)
               /\ named => files'[path] = FileOf(bytes, TRUE)
    <2>1. files[path].synced
      BY <1>3, NamedFile, Zenon
    <2>5. files[path].named = named
      BY <1>3 DEF FileOf
    <2>4. files[path] # Absent
      BY <1>3 DEF AbsentIsNoFile
    <2>2. [files[path] EXCEPT !.named = TRUE] = FileOf(bytes, TRUE)
      BY <1>3, NamedFile, Zenon
    <2>3. files'[path] = IF path \notin kept /\ ~named THEN Absent ELSE [files[path] EXCEPT !.named = TRUE]
      BY <1>1, <2>1, <2>4, <2>5
    <2> QED
      BY <2>2, <2>3
  <1>4. \A path \in Paths : files[path] = Absent => files'[path] = Absent
    BY <1>1
  <1>5. FilesWhole'
    <2>1. DOMAIN files' = Paths
      BY <1>1
    <2> QED
      BY <1>3, <1>4, <2>1 DEF ProveInv, FilesWhole
  <1>6. \A p \in Provers : CallFits(p)'
    BY <1>2, IdleCall
  <1>7. ASSUME NEW r \in returned'
        PROVE  ReturnedFits(r)'
    <2>1. ReturnedFits(r)
      BY <1>2 DEF ProveInv
    <2>2. files'[r.proof.path] = FileOf(Made(backends[r.by], r.job), TRUE)
      BY <1>3, <2>1 DEF ReturnedFits
    <2> QED
      BY <1>2, <2>1, <2>2 DEF ReturnedFits
  <1>8. DOMAIN stage' = Provers /\ DOMAIN call' = Provers
    BY <1>2
  <1> QED
    BY <1>2, <1>5, <1>6, <1>7, <1>8 DEF ProveInv

\* Whoever else proves to the same path, wherever a call fails or its process
\* is killed, and however often power is lost: what prove has returned is at
\* its path, whole and for good, and every backend that is configured alike
\* accepts it, with the job and without it.
THEOREM ReturnedStaysGood ==
    ASSUME AbsentIsNoFile
    PROVE  ProveSpec => []ReturnedIsGood
  <1>1. ProofInit => ProveInv
    BY DEF ProofInit, ProveInv, FilesWhole, CallFits
  <1>2. ProveInv /\ [ProveNext]_proofVars => ProveInv'
    <2> SUFFICES ASSUME ProveInv, [ProveNext]_proofVars PROVE ProveInv'
      OBVIOUS
    <2>1. ASSUME NEW p \in Provers, NEW job \in Jobs, NEW path \in Paths,
                 create_temp_sibling(p, job, path)
          PROVE  ProveInv'
      BY <2>1, CreateStep
    <2>2. ASSUME NEW p \in Provers,
                 \/ prove(p) \/ hard_link(p) \/ sync_parent_dir(p) \/ remove_temp(p)
                 \/ read_bounded(p) \/ killed(p)
          PROVE  ProveInv'
      BY <2>2, MakeStep, LinkStep, SyncStep, ReadBackStep, GiveUpStep
    <2>3. CASE UNCHANGED proofVars
      <3>1. FilesKept
        BY <2>3, NoFileChange DEF proofVars
      <3>2. \A p \in Provers : CallFits(p)'
        BY <2>3, <3>1, SameCall DEF proofVars, ProveInv
      <3>3. \A r \in returned' : ReturnedFits(r)'
        BY <2>3, <3>1, SameReturned DEF proofVars, ProveInv
      <3> QED
        BY <2>3, <3>2, <3>3 DEF proofVars, ProveInv, FilesWhole
    <2> QED
      BY <2>1, <2>2, <2>3, PowerStep DEF ProveNext
  <1>3. ProveInv => ReturnedIsGood
    <2> SUFFICES ASSUME ProveInv PROVE ReturnedIsGood
      OBVIOUS
    <2>1. ASSUME NEW r \in returned
          PROVE  /\ ReturnedFits(r)
                 /\ r.proof.proof_digest = Made(backends[r.by], r.job)
      <3>1. ReturnedFits(r)
        BY DEF ProveInv
      <3>2. \A b, job, path : Result(b, job, path).proof_digest = Made(b, job)
        BY DEF Result, UnverifiedProof
      <3> QED
        BY <3>1, <3>2 DEF ReturnedFits
    <2>2. HonestProofAccepted
      <3> SUFFICES ASSUME NEW r \in returned, NEW q \in Provers, backends[q] = backends[r.by]
                   PROVE  /\ Accepted(backends[q], r.job, r.proof, r.proof.proof_digest)
                          /\ SelfAccepted(backends[q], r.proof, r.proof.proof_digest)
        BY DEF HonestProofAccepted
      <3>1. /\ backends[q].schema \in {"leaf", "public"}
            /\ \A key \in backends[q].keys : key.flavor = "halo2"
        BY BackendsAssumption DEF ProveInv
      <3>2. /\ Valid(backends[q], r.job) /\ r.proof = Result(backends[q], r.job, r.proof.path)
            /\ r.proof.proof_digest = Made(backends[q], r.job)
        BY <2>1 DEF ReturnedFits
      <3> QED
        BY <3>1, <3>2, ResultVerifies
    <2>3. ReturnedMatchesFile
      <3>1. \A bytes : FileOf(bytes, TRUE).bytes = bytes
        BY DEF FileOf
      <3> QED
        BY <2>1, <3>1 DEF ReturnedMatchesFile, ReturnedFits, AbsentIsNoFile
    <2> QED
      BY <2>2, <2>3 DEF ReturnedIsGood
  <1> QED
    BY <1>1, <1>2, <1>3, PTL DEF ProveSpec
=============================================================================
