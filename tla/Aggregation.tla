----------------------------- MODULE Aggregation -----------------------------
(***************************************************************************)
(* Native aggregation of zkie-prover (src/aggregation.rs): the plan of the *)
(* aggregation tree, the admission of verified leaf proofs, the merge of   *)
(* claims node by node, and the manifest over the root claim; then the     *)
(* same again by whoever verifies the manifest with proofs of their own.   *)
(*                                                                         *)
(* A digest is the value it is the digest of.  Identities that are only    *)
(* compared for equality are two-valued: the expected one or another.      *)
(***************************************************************************)
EXTENDS Integers, SequencesExt

CONSTANTS
    Requests,      \* what may be asked for: [leaf_count, fan_in, proofs]
    MinFanIn,      \* MIN_FAN_IN
    MaxFanIn,      \* MAX_FAN_IN
    Edges,         \* the edges of the shard DAG: [id, producer, consumer, register]
    Expected,      \* LeafExpectationSet: per shard, the public descriptors [inputs, outputs]
    VerifierProofs,\* the lists of proofs that who verifies a manifest may hold
    MaxPublic      \* MAX_PUBLIC_BOUNDARY_DECLARATIONS

VARIABLES
    leaf_count, fan_in,  \* the request
    current, levels,     \* plan_aggregation: the nodes without parent, the levels so far
    proofs,              \* the proofs handed in
    claims,              \* the claims not merged yet, by id
    outcome,             \* "plan", "admit", "merge", an error, or "manifest"
    manifest,            \* the manifest this round has built
    wire,                \* the manifest of the first round, as it was sent
    built_from,          \* the proofs the sent manifest was built from (history)
    verdict              \* of verify_native_manifest: "none", "accepted" or "rejected"

\* Every proof that someone may hand in: the prover's and those of the verifier.
HandedIn ==
    (UNION {Range(r.proofs) : r \in Requests}) \cup (UNION {Range(list) : list \in VerifierProofs})

\* The plan's shards are numbered from 0, and proofs come in lists.
ASSUME RequestsAssumption ==
    /\ \A r \in Requests : r.leaf_count \in Nat /\ r.proofs \in Seq(Range(r.proofs))
    /\ \A list \in VerifierProofs : list \in Seq(Range(list))

\* A node has two children at least.
ASSUME LimitsAssumption == {MinFanIn, MaxFanIn, MaxPublic} \subseteq Nat /\ MinFanIn >= 2

\* An edge of the shard DAG goes forward, and its id is its own.
ASSUME EdgesAssumption ==
    \A e \in Edges : /\ e.producer \in Nat /\ e.consumer \in Nat /\ e.producer < e.consumer
                      /\ \A f \in Edges : e.id = f.id => e = f

\* with_public_io: no register is declared twice by the expectations of a leaf.
ASSUME ExpectedAssumption ==
    \A s \in DOMAIN Expected : \A i, k \in DOMAIN Expected[s].inputs :
        Expected[s].inputs[i].register = Expected[s].inputs[k].register => i = k

\* A statement has lists of claims with commitments, 0 stands for none; and the
\* bytes of a proof, with what it is a proof of, are all there is to it.
ASSUME ProofsAssumption ==
    /\ \A p \in HandedIn : \A list \in {p.statement.inputs, p.statement.outputs} :
           list \in Seq(Range(list)) /\ \A c \in Range(list) : c.commitment \in Nat \ {0}
    /\ \A p, q \in HandedIn :
           <<p.shard, p.id, p.statement>> = <<q.shard, q.id, q.statement>> /\ (p.identity <=> q.identity) => p = q

request == <<leaf_count, fan_in>>
aggregationVars == <<request, current, levels, proofs, claims, outcome, manifest, wire, built_from, verdict>>

Leaf(shard) == <<"leaf", shard, 0>>
Node(level, index) == <<"node", level, index>>
NoClaims == [id \in {} |-> 0]
Shards == 0..(leaf_count - 1)

\* plan_aggregation refuses a fan-in out of its range, a partition without shards
\* and an edge to a shard that is not there.
FirstStep(leaves, size) ==
    IF size \notin MinFanIn..MaxFanIn THEN "InvalidFanIn"
    ELSE IF leaves = 0 \/ \E e \in Edges : e.consumer >= leaves THEN "InvalidPartition" ELSE "plan"

AggregationInit ==
    /\ \E r \in Requests : leaf_count = r.leaf_count /\ fan_in = r.fan_in /\ proofs = r.proofs
    /\ current = [i \in 1..leaf_count |-> Leaf(i - 1)]
    /\ levels = <<>>
    /\ claims = NoClaims
    /\ outcome = FirstStep(leaf_count, fan_in)
    /\ manifest = {}
    /\ wire = {}
    /\ built_from = <<>>
    /\ verdict = "none"

Fail(error) == outcome' = error /\ UNCHANGED <<request, current, levels, proofs, claims,
                                              manifest, wire, built_from, verdict>>

-----------------------------------------------------------------------------
(* plan_aggregation *)

Chunk(s, size, i) == SubSeq(s, (i - 1) * size + 1, Min({i * size, Len(s)}))
ChunkCount(s, size) == (Len(s) + size - 1) \div size

\* Variant for testing PlanIsATree: a last child without siblings is left out.
PlanLevelDropping ==
    LET chunks == [i \in 1..ChunkCount(current, fan_in) |-> Chunk(current, fan_in, i)]
        grouped == SelectSeq(chunks, LAMBDA c : Len(c) > 1)
        level == [i \in DOMAIN grouped |-> [id |-> Node(Len(levels), i - 1), children |-> grouped[i]]]
    IN  /\ outcome = "plan" /\ Len(current) > 1
        /\ levels' = Append(levels, level)
        /\ current' = [i \in DOMAIN level |-> level[i].id]
        /\ UNCHANGED <<request, proofs, claims, outcome, manifest, wire, built_from, verdict>>

\* One turn of the loop: the nodes without parent in groups of fan_in, in order;
\* a group of one moves up as it is.
plan_level ==
    LET chunks == [i \in 1..ChunkCount(current, fan_in) |-> Chunk(current, fan_in, i)]
        grouped == {i \in DOMAIN chunks : Len(chunks[i]) > 1}
        index(i) == Cardinality({k \in grouped : k < i})
        id(i) == IF i \in grouped THEN Node(Len(levels), index(i)) ELSE chunks[i][1]
        group(n) == CHOOSE i \in grouped : index(i) = n
        level == [n \in 1..Cardinality(grouped) |-> [id |-> id(group(n - 1)), children |-> chunks[group(n - 1)]]]
    IN  /\ outcome = "plan" /\ Len(current) > 1
        /\ levels' = Append(levels, level)
        /\ current' = [i \in DOMAIN chunks |-> id(i)]
        /\ UNCHANGED <<request, proofs, claims, outcome, manifest, wire, built_from, verdict>>

\* The plan is complete; build_native_manifest counts the proofs.
plan_done ==
    /\ outcome = "plan" /\ Len(current) = 1
    /\ Fail(IF Len(proofs) = leaf_count THEN "admit" ELSE "MissingLeaf")

Root == current[1]
Nodes == FlattenSeq(levels)

-----------------------------------------------------------------------------
(* admit_verified_leaf *)

Incident(shard) == {e \in Edges : e.producer = shard \/ e.consumer = shard}
EndpointOf(e, role) == IF role = "output" THEN e.producer ELSE e.consumer
EdgeIds == {e.id : e \in Edges}
Edge(id) == CHOOSE e \in Edges : e.id = id

\* Descriptors: [register, edges, outputs, graph_input]; claims add the commitment.
is_public_graph_input(c) == c.graph_input /\ c.edges = {} /\ c.outputs = {}
IsPublic(c, role) == IF role = "output" THEN c.outputs # {} ELSE is_public_graph_input(c)
Descriptor(c) == [register |-> c.register, edges |-> c.edges, outputs |-> c.outputs,
                  graph_input |-> c.graph_input]
PublicOf(list, role) == SelectSeq(list, LAMBDA c : IsPublic(c, role))
descriptors_match(list, expected) == [i \in DOMAIN list |-> Descriptor(list[i])] = expected

\* The commitment a list of claims gives an edge, 0 for none.
Slot(list, id) ==
    LET hits == {i \in DOMAIN list : id \in list[i].edges}
    IN  IF hits = {} THEN 0 ELSE list[Min(hits)].commitment

\* What is wrong with the claims of one role.
ClaimsError(shard, list, role) ==
    IF \E i \in DOMAIN list : list[i].edges = {} /\ ~IsPublic(list[i], role) THEN "ExtraBoundary"
    ELSE IF \E i \in DOMAIN list : ~(list[i].edges \subseteq EdgeIds) THEN "ExtraBoundary"
    ELSE IF \E i \in DOMAIN list : \E id \in list[i].edges :
                EndpointOf(Edge(id), role) # shard \/ Edge(id).register # list[i].register
    THEN "EndpointMismatch"
    ELSE IF \E i, k \in DOMAIN list : i # k /\ list[i].edges \cap list[k].edges # {}
    THEN "ExtraBoundary"
    ELSE "none"

\* The checks of admit_verified_leaf_indexed, in their order.
LeafError(proof) ==
    LET shard == proof.shard
        st == proof.statement
    IN  IF shard \notin DOMAIN Expected \/ ~proof.identity \/ st.shard # shard \/ ~st.identity THEN "LeafIdentityMismatch"
        ELSE IF ~descriptors_match(PublicOf(st.inputs, "input"), Expected[shard].inputs)
                \/ ~descriptors_match(PublicOf(st.outputs, "output"), Expected[shard].outputs)
        THEN "LeafIdentityMismatch"
        ELSE IF ClaimsError(shard, st.inputs, "input") # "none"
        THEN ClaimsError(shard, st.inputs, "input")
        ELSE IF ClaimsError(shard, st.outputs, "output") # "none"
        THEN ClaimsError(shard, st.outputs, "output")
        ELSE IF \E e \in Incident(shard) :
                    (IF e.producer = shard THEN Slot(st.outputs, e.id) ELSE Slot(st.inputs, e.id)) = 0
        THEN "MissingBoundary"
        ELSE "none"

Binding(c) == [descriptor |-> Descriptor(c), commitment |-> c.commitment]

LeafClaim(proof) ==
    LET st == proof.statement
    IN  [covered |-> {proof.shard},
         frontier |-> [id \in UNION {c.edges : c \in Range(st.inputs) \cup Range(st.outputs)} |->
                        [producer |-> Slot(st.outputs, id), consumer |-> Slot(st.inputs, id)]],
         closed |-> {},
         public_inputs |-> {Binding(c) : c \in Range(PublicOf(st.inputs, "input"))},
         public_outputs |-> {Binding(c) : c \in Range(PublicOf(st.outputs, "output"))},
         leaves |-> {[shard |-> proof.shard, proof |-> proof.id, statement |-> st]}]

\* The proofs in the order of their shards.
admit_leaf ==
    LET i == Cardinality(DOMAIN claims) + 1
        proof == proofs[i]
    IN  /\ outcome = "admit" /\ i <= leaf_count
        /\ IF proof.shard # i - 1 THEN Fail("ChildOrderMismatch")
           ELSE IF LeafError(proof) # "none" THEN Fail(LeafError(proof))
           ELSE /\ claims' = [id \in DOMAIN claims \cup {Leaf(proof.shard)} |->
                                IF id = Leaf(proof.shard) THEN LeafClaim(proof) ELSE claims[id]]
                /\ outcome' = IF i = leaf_count THEN "merge" ELSE "admit"
                /\ UNCHANGED <<request, current, levels, proofs, manifest, wire, built_from, verdict>>

-----------------------------------------------------------------------------
(* merge_verified_claims *)

Children(node) == [i \in DOMAIN node.children |-> claims[node.children[i]]]
UnionOf(children, field) == UNION {children[i][field] : i \in DOMAIN children}

\* The endpoint that some child has for an edge, 0 for none.
Endpoint(children, id, side) ==
    Max({0} \cup {children[i].frontier[id][side] :
                    i \in {i \in DOMAIN children : id \in DOMAIN children[i].frontier}})
Frontier(children) ==
    [id \in UNION {DOMAIN children[i].frontier : i \in DOMAIN children} |->
        [producer |-> Endpoint(children, id, "producer"),
         consumer |-> Endpoint(children, id, "consumer")]]
Closing(children) ==
    {id \in DOMAIN Frontier(children) :
        {Edge(id).producer, Edge(id).consumer} \subseteq UnionOf(children, "covered")}

Clash(children, field) ==
    \E i, k \in DOMAIN children : i # k /\ children[i][field] \cap children[k][field] # {}

\* merge_public_inputs: one binding per register.
InputsClash(children) ==
    \E b, c \in UnionOf(children, "public_inputs") :
        b # c /\ b.descriptor.register = c.descriptor.register
\* merge_public_outputs: no name twice.
OutputsClash(children) ==
    \E i, k \in DOMAIN children : i # k /\
        \E b \in children[i].public_outputs, c \in children[k].public_outputs :
            b.descriptor.outputs \cap c.descriptor.outputs # {}

\* Variant for testing EdgesAgree: the values at the two ends are not compared.
MergeErrorAnyEdges(children) ==
    IF Clash(children, "covered") THEN "OverlappingShard"
    ELSE IF InputsClash(children) THEN "BoundaryCommitmentMismatch"
    ELSE IF OutputsClash(children) THEN "DuplicateEdgeClosure"
    ELSE "none"

\* The checks of merge_verified_claims_indexed.
MergeError(children) ==
    LET frontier == Frontier(children)
    IN  IF Clash(children, "covered") THEN "OverlappingShard"
        ELSE IF Clash(children, "closed") THEN "DuplicateEdgeClosure"
        ELSE IF \E id \in DOMAIN frontier : \E side \in {"producer", "consumer"} :
                    Cardinality({i \in DOMAIN children : id \in DOMAIN children[i].frontier
                                    /\ children[i].frontier[id][side] # 0}) > 1
        THEN "ExtraBoundary"
        ELSE IF InputsClash(children) THEN "BoundaryCommitmentMismatch"
        ELSE IF OutputsClash(children) THEN "DuplicateEdgeClosure"
        ELSE IF Cardinality(UnionOf(children, "public_inputs"))
                  + Cardinality(UnionOf(children, "public_outputs")) > MaxPublic
        THEN "ResourceLimit"
        ELSE IF Closing(children) \cap UnionOf(children, "closed") # {} THEN "DuplicateEdgeClosure"
        ELSE IF \E id \in Closing(children) : 0 \in {frontier[id].producer, frontier[id].consumer}
        THEN "MissingBoundary"
        ELSE IF \E id \in Closing(children) : frontier[id].producer # frontier[id].consumer
        THEN "BoundaryCommitmentMismatch"
        ELSE "none"

\* Variant for testing FrontierExact: a closed edge stays in the frontier.
MergedClaimOpen(children) ==
    [covered |-> UnionOf(children, "covered"), frontier |-> Frontier(children),
     closed |-> UnionOf(children, "closed") \cup Closing(children),
     public_inputs |-> UnionOf(children, "public_inputs"),
     public_outputs |-> UnionOf(children, "public_outputs"), leaves |-> UnionOf(children, "leaves")]

MergedClaim(children) ==
    [covered |-> UnionOf(children, "covered"),
     frontier |-> [id \in DOMAIN Frontier(children) \ Closing(children) |-> Frontier(children)[id]],
     closed |-> UnionOf(children, "closed") \cup Closing(children),
     public_inputs |-> UnionOf(children, "public_inputs"),
     public_outputs |-> UnionOf(children, "public_outputs"),
     leaves |-> UnionOf(children, "leaves")]

\* The nodes whose children have their claims.
Pending == {i \in DOMAIN Nodes : Range(Nodes[i].children) \subseteq DOMAIN claims}

\* The nodes in the order of the plan.
merge_node ==
    \E turn \in Pending :
        LET node == Nodes[turn]
            children == Children(node)
        IN  /\ outcome = "merge" /\ \A i \in Pending : turn <= i
            /\ IF MergeError(children) # "none" THEN Fail(MergeError(children))
               ELSE /\ claims' = [id \in (DOMAIN claims \ Range(node.children)) \cup {node.id} |->
                                    IF id = node.id THEN MergedClaim(children) ELSE claims[id]]
                    /\ UNCHANGED <<request, current, levels, proofs, outcome, manifest, wire, built_from, verdict>>

-----------------------------------------------------------------------------
(* finalize_native_manifest and verify_native_manifest *)

\* Variant for testing ManifestBindsProofs: the leaves are not digested.
DigestWithoutLeaves(claim) == [claim EXCEPT !.leaves = {}]

claim_digest(claim) == claim

Manifest(root) ==
    [root_claim_digest |-> claim_digest(root), leaf_count |-> Cardinality(root.leaves),
     public_inputs |-> root.public_inputs, public_outputs |-> root.public_outputs]

finalize_native_manifest ==
    LET root == claims[Root]
    IN  /\ outcome = "merge" /\ Pending = {}
        /\ IF DOMAIN claims # {Root} THEN Fail("AggregationIdentityMismatch")
           ELSE IF ~(Shards \subseteq root.covered) THEN Fail("MissingLeaf")
           ELSE IF ~(EdgeIds \subseteq root.closed) \/ DOMAIN root.frontier # {}
           THEN Fail("OpenInternalEdge")
           ELSE IF Cardinality(root.leaves) # leaf_count THEN Fail("AggregationIdentityMismatch")
           ELSE /\ outcome' = "manifest"
                /\ manifest' = {Manifest(root)}
                /\ verdict' = IF wire = {} THEN "none"
                              ELSE IF wire = {Manifest(root)} THEN "accepted" ELSE "rejected"
                /\ UNCHANGED <<request, current, levels, proofs, claims, wire, built_from>>

\* The manifest is sent; the verifier rebuilds it from proofs of its own.
send_manifest ==
    /\ wire = {} /\ outcome = "manifest"
    /\ wire' = manifest
    /\ built_from' = proofs
    /\ proofs' \in VerifierProofs
    /\ claims' = NoClaims
    /\ manifest' = {}
    /\ outcome' = IF Len(proofs') = leaf_count THEN "admit" ELSE "MissingLeaf"
    /\ UNCHANGED <<request, current, levels, verdict>>

AggregationNext == plan_level \/ plan_done \/ admit_leaf \/ merge_node
          \/ finalize_native_manifest \/ send_manifest

AggregationSpec == AggregationInit /\ [][AggregationNext]_aggregationVars

-----------------------------------------------------------------------------
(* Properties *)

Working == {"plan", "admit", "merge"}

\* The leaves and the nodes of the plan.
PlanIds == {Leaf(s) : s \in Shards} \cup {n.id : n \in Range(Nodes)}
ChildrenOf(id) == Range((CHOOSE n \in Range(Nodes) : n.id = id).children)

\* The shards below a node of the plan.
Below[id \in PlanIds] == IF id[1] = "leaf" THEN {id[2]} ELSE UNION {Below[c] : c \in ChildrenOf(id)}

\* For every number of leaves and every fan-in the plan is a tree over all the
\* leaves in order: each leaf and each node but the root is the child of exactly
\* one node, a node has between two and fan_in children, and the claim of a node
\* covers the leaves below it.
PlanIsATree ==
    outcome \notin {"plan", "InvalidFanIn", "InvalidPartition"} =>
        /\ Below[Root] = Shards
        /\ \A i \in DOMAIN Nodes : Len(Nodes[i].children) \in 2..fan_in
        /\ \A i, k \in DOMAIN Nodes : \A p \in DOMAIN Nodes[i].children, q \in DOMAIN Nodes[k].children :
                Nodes[i].children[p] = Nodes[k].children[q] => i = k /\ p = q
        /\ UNION {Range(Nodes[i].children) : i \in DOMAIN Nodes} = PlanIds \ {Root}
        /\ \A id \in DOMAIN claims : claims[id].covered = Below[id]

\* What the proof of a shard commits to.
Statement(shard) == proofs[shard + 1].statement

\* A claim's frontier has exactly the edges that cross the border of the shards
\* it covers, each with the commitment of the proof on the inner side and none on
\* the other; its closed edges are exactly those inside.
FrontierExact ==
    \A id \in DOMAIN claims :
        LET c == claims[id]
        IN  /\ DOMAIN c.frontier = {e.id : e \in {e \in Edges : e.producer \in c.covered <=> e.consumer \notin c.covered}}
            /\ c.closed = {e.id : e \in {e \in Edges : e.producer \in c.covered /\ e.consumer \in c.covered}}
            /\ \A e \in Edges : e.id \in DOMAIN c.frontier =>
                c.frontier[e.id] =
                    [producer |-> IF e.producer \in c.covered THEN Slot(Statement(e.producer).outputs, e.id) ELSE 0,
                     consumer |-> IF e.consumer \in c.covered THEN Slot(Statement(e.consumer).inputs, e.id) ELSE 0]

\* A manifest exists only if, for every edge of the DAG, the proof of its
\* producer and the proof of its consumer commit to the same value.
EdgesAgree ==
    outcome = "manifest" =>
        \A e \in Edges : /\ Slot(Statement(e.producer).outputs, e.id) # 0
                         /\ Slot(Statement(e.producer).outputs, e.id)
                                = Slot(Statement(e.consumer).inputs, e.id)

\* ... only if all the shards that read a graph input read the same value ...
InputsAgree ==
    outcome = "manifest" =>
        \A s, t \in Shards :
            \A c \in Range(PublicOf(Statement(s).inputs, "input")),
               d \in Range(PublicOf(Statement(t).inputs, "input")) :
                c.register = d.register => c.commitment = d.commitment

\* ... and its public outputs are those the expectations declare, all of them
\* and nothing else.
PublicIsComplete ==
    \A m \in manifest :
        {b.descriptor : b \in m.public_outputs} =
            UNION {Range(Expected[s].outputs) : s \in Shards}

\* A manifest is accepted only with the very proofs it was built from.
ManifestBindsProofs ==
    verdict = "accepted" => proofs = built_from

\* What honest stands for: the proofs are of one run of the program, each with what
\* its leaf is expected to declare, and what they declare fits in a manifest.
HonestProofs == {p \in HandedIn : p.honest}
PublicInputs(p) == {Binding(c) : c \in Range(PublicOf(p.statement.inputs, "input"))}
PublicOutputs(p) == {Binding(c) : c \in Range(PublicOf(p.statement.outputs, "output"))}
ASSUME HonestAssumption ==
    /\ \A p \in HonestProofs : LeafError(p) = "none"
    /\ \A p, q \in HonestProofs :
        /\ \A e \in Edges : e.producer = p.shard /\ e.consumer = q.shard =>
                Slot(p.statement.outputs, e.id) = Slot(q.statement.inputs, e.id)
        /\ \A b \in PublicInputs(p), c \in PublicInputs(q) :
                b.descriptor.register = c.descriptor.register => b = c
        /\ p.shard # q.shard => \A b \in PublicOutputs(p), c \in PublicOutputs(q) :
                b.descriptor.outputs \cap c.descriptor.outputs = {}
    /\ LET inputs == UNION {PublicInputs(p) : p \in HonestProofs}
           outputs == UNION {PublicOutputs(p) : p \in HonestProofs}
       IN  IsFiniteSet(inputs) /\ IsFiniteSet(outputs) /\ Cardinality(inputs) + Cardinality(outputs) <= MaxPublic

\* Proofs that fit together get their manifest.
HonestAccepted ==
    (\A i \in DOMAIN proofs : proofs[i].honest /\ proofs[i].shard = i - 1) /\ Len(proofs) = leaf_count /\ leaf_count > 0
        => outcome \in Working \cup {"manifest", "InvalidFanIn", "InvalidPartition"}

\* A manifest is given to proofs that fit together, and to no others.
ManifestExact == EdgesAgree /\ InputsAgree /\ PublicIsComplete /\ HonestAccepted
=============================================================================
