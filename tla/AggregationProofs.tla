-------------------------- MODULE AggregationProofs --------------------------
(***************************************************************************)
(* Theorems about native aggregation, for every number of leaves, fan-in,  *)
(* shard DAG and list of proofs: the plan is a tree over all the leaves;   *)
(* what the claim of a node says is what the proofs below it say, so a     *)
(* manifest is built only from proofs that agree with each other, and is   *)
(* accepted only with those it was built from; and the proofs of one run   *)
(* of the program always get their manifest.                               *)
(***************************************************************************)
EXTENDS Aggregation, FiniteSetTheorems, WellFoundedInduction, TLAPS

-----------------------------------------------------------------------------
(* What is true of a claim over a list of proofs                             *)

StatementOf(list, s) == list[s + 1].statement
ProducerSays(list, e) == Slot(StatementOf(list, e.producer).outputs, e.id)
ConsumerSays(list, e) == Slot(StatementOf(list, e.consumer).inputs, e.id)

Admitted(list, s) ==
    /\ s \in 0..(Len(list) - 1)
    /\ list[s + 1] \in HandedIn
    /\ list[s + 1].shard = s
    /\ LeafError(list[s + 1]) = "none"

Bound(list, s) == [shard |-> list[s + 1].shard, proof |-> list[s + 1].id, statement |-> list[s + 1].statement]
InputsOf(list, s) == {Binding(x) : x \in Range(PublicOf(StatementOf(list, s).inputs, "input"))}
OutputsOf(list, s) == {Binding(x) : x \in Range(PublicOf(StatementOf(list, s).outputs, "output"))}

CoverTrue(list, c) ==
    /\ \A s \in c.covered : Admitted(list, s)
    /\ c.leaves = {Bound(list, s) : s \in c.covered}

Crossing(c) == {e \in Edges : e.producer \in c.covered <=> e.consumer \notin c.covered}
Inner(c) == {e \in Edges : e.producer \in c.covered /\ e.consumer \in c.covered}

FrontierTrue(list, c) ==
    /\ DOMAIN c.frontier = {e.id : e \in Crossing(c)}
    /\ c.closed = {e.id : e \in Inner(c)}
    /\ \A e \in Edges : e.id \in DOMAIN c.frontier =>
        c.frontier[e.id] = [producer |-> IF e.producer \in c.covered THEN ProducerSays(list, e) ELSE 0,
                            consumer |-> IF e.consumer \in c.covered THEN ConsumerSays(list, e) ELSE 0]

\* The two ends of a closed edge commit to one value.
ClosedAgree(list, c) ==
    \A e \in Edges : e.id \in c.closed =>
        ProducerSays(list, e) # 0 /\ ProducerSays(list, e) = ConsumerSays(list, e)

PublicTrue(list, c) ==
    /\ c.public_inputs = UNION {InputsOf(list, s) : s \in c.covered}
    /\ c.public_outputs = UNION {OutputsOf(list, s) : s \in c.covered}
    /\ \A b, d \in c.public_inputs : b.descriptor.register = d.descriptor.register => b = d

TrueClaim(list, c) ==
    CoverTrue(list, c) /\ FrontierTrue(list, c) /\ ClosedAgree(list, c) /\ PublicTrue(list, c)

-----------------------------------------------------------------------------
(* Edges and slots *)

\* DagIndex::edge finds the edge of an id.
LEMMA EdgeOfId ==
    /\ \A e \in Edges : e.id \in EdgeIds /\ Edge(e.id) = e
    /\ \A id \in EdgeIds : Edge(id) \in Edges /\ Edge(id).id = id
  <1>1. ASSUME NEW e \in Edges PROVE e.id \in EdgeIds /\ Edge(e.id) = e
    BY EdgesAssumption DEF EdgeIds, Edge
  <1>2. ASSUME NEW id \in EdgeIds PROVE Edge(id) \in Edges /\ Edge(id).id = id
    <2>1. PICK e \in Edges : e.id = id
      BY DEF EdgeIds
    <2> QED
      BY <1>1, <2>1
  <1> QED
    BY <1>1, <1>2

\* What the checks of admit_verified_leaf establish about the claims of a role.
LEMMA CheckedClaims ==
    ASSUME NEW shard, NEW list, NEW role, ClaimsError(shard, list, role) = "none"
    PROVE  /\ \A i \in DOMAIN list : \A id \in list[i].edges :
                id \in EdgeIds /\ EndpointOf(Edge(id), role) = shard
           /\ \A i, k \in DOMAIN list : i # k => list[i].edges \cap list[k].edges = {}
  BY DEF ClaimsError

\* The slot of an edge in a checked list is the commitment of the claim that
\* names it, and none if no claim does.
LEMMA SlotFacts ==
    ASSUME NEW list, list \in Seq(Range(list)),
           \A c \in Range(list) : c.commitment \in Nat \ {0},
           \A i, k \in DOMAIN list : i # k => list[i].edges \cap list[k].edges = {},
           NEW id
    PROVE  /\ Slot(list, id) \in Nat
           /\ Slot(list, id) # 0 <=> \E i \in DOMAIN list : id \in list[i].edges
  <1> DEFINE hits == {i \in DOMAIN list : id \in list[i].edges}
  <1>1. CASE hits = {}
    BY <1>1 DEF Slot
  <1>2. CASE hits # {}
    <2>1. PICK i \in hits : TRUE
      BY <1>2
    <2>2. hits = {i}
      BY <2>1
    <2>3. i \in Nat
      BY <2>1
    <2>4. Min(hits) = i
      <3>1. \E x \in hits : \A y \in hits : x =< y
        BY <2>2, <2>3
      <3>2. Min(hits) \in hits
        BY <3>1 DEF Min
      <3> QED
        BY <3>2, <2>2
    <2>5. Slot(list, id) = list[i].commitment
      BY <1>2, <2>4 DEF Slot
    <2>6. list[i] \in Range(list)
      BY <2>1 DEF Range
    <2> QED
      BY <2>1, <2>5, <2>6
  <1> QED
    BY <1>1, <1>2

-----------------------------------------------------------------------------
(* The claim of a leaf *)

\* What admit_verified_leaf has established when it admits a proof.
LEMMA CheckedLeaf ==
    ASSUME NEW p, LeafError(p) = "none"
    PROVE  /\ p.identity /\ p.shard \in DOMAIN Expected
           /\ descriptors_match(PublicOf(p.statement.inputs, "input"), Expected[p.shard].inputs)
           /\ descriptors_match(PublicOf(p.statement.outputs, "output"), Expected[p.shard].outputs)
           /\ ClaimsError(p.shard, p.statement.inputs, "input") = "none"
           /\ ClaimsError(p.shard, p.statement.outputs, "output") = "none"
           /\ \A e \in Incident(p.shard) :
                /\ e.producer = p.shard => Slot(p.statement.outputs, e.id) # 0
                /\ e.producer # p.shard => Slot(p.statement.inputs, e.id) # 0
  BY DEF LeafError

\* The slots of an admitted statement: numbers, filled exactly where a claim
\* names the edge, and only on the side on which the shard is.
LEMMA AdmittedSlots ==
    ASSUME NEW list, NEW s, Admitted(list, s), NEW e \in Edges
    PROVE  LET st == StatementOf(list, s)
           IN  /\ Slot(st.outputs, e.id) \in Nat /\ Slot(st.inputs, e.id) \in Nat
               /\ Slot(st.outputs, e.id) # 0 <=> e.producer = s
               /\ Slot(st.inputs, e.id) # 0 <=> e.consumer = s
               /\ Slot(st.outputs, e.id) # 0 <=> \E c \in Range(st.outputs) : e.id \in c.edges
               /\ Slot(st.inputs, e.id) # 0 <=> \E c \in Range(st.inputs) : e.id \in c.edges
  <1> DEFINE p == list[s + 1]
             st == StatementOf(list, s)
  <1>1. p \in HandedIn /\ p.shard = s /\ LeafError(p) = "none" /\ st = p.statement
    BY DEF Admitted, StatementOf
  <1>2. \A l \in {st.inputs, st.outputs} :
            l \in Seq(Range(l)) /\ \A c \in Range(l) : c.commitment \in Nat \ {0}
    BY <1>1, ProofsAssumption
  <1>3. /\ ClaimsError(s, st.inputs, "input") = "none"
        /\ ClaimsError(s, st.outputs, "output") = "none"
        /\ \A f \in Incident(s) : /\ f.producer = s => Slot(st.outputs, f.id) # 0
                                  /\ f.producer # s => Slot(st.inputs, f.id) # 0
    BY <1>1, CheckedLeaf
  <1>4. /\ Slot(st.outputs, e.id) \in Nat
        /\ Slot(st.outputs, e.id) # 0 <=> \E i \in DOMAIN st.outputs : e.id \in st.outputs[i].edges
    BY <1>2, <1>3, CheckedClaims, SlotFacts
  <1>5. /\ Slot(st.inputs, e.id) \in Nat
        /\ Slot(st.inputs, e.id) # 0 <=> \E i \in DOMAIN st.inputs : e.id \in st.inputs[i].edges
    BY <1>2, <1>3, CheckedClaims, SlotFacts
  <1>6. Slot(st.outputs, e.id) # 0 => e.producer = s
    BY <1>3, <1>4, CheckedClaims, EdgeOfId DEF EndpointOf
  <1>7. Slot(st.inputs, e.id) # 0 => e.consumer = s
    <2>1. ASSUME NEW i \in DOMAIN st.inputs, e.id \in st.inputs[i].edges PROVE e.consumer = s
      BY <2>1, <1>3, CheckedClaims, EdgeOfId DEF EndpointOf
    <2> QED
      BY <2>1, <1>5
  <1>8. e.producer = s => Slot(st.outputs, e.id) # 0
    BY <1>3 DEF Incident
  <1>9. e.consumer = s => Slot(st.inputs, e.id) # 0
    BY <1>3, EdgesAssumption DEF Incident
  <1>10. /\ (\E c \in Range(st.outputs) : e.id \in c.edges) <=> \E i \in DOMAIN st.outputs : e.id \in st.outputs[i].edges
         /\ (\E c \in Range(st.inputs) : e.id \in c.edges) <=> \E i \in DOMAIN st.inputs : e.id \in st.inputs[i].edges
    BY DEF Range
  <1> QED
    BY <1>4, <1>5, <1>6, <1>7, <1>8, <1>9, <1>10

\* The edges a statement names are edges of the DAG.
LEMMA AdmittedEdges ==
    ASSUME NEW list, NEW s, Admitted(list, s),
           NEW c \in Range(StatementOf(list, s).inputs) \cup Range(StatementOf(list, s).outputs), NEW id \in c.edges
    PROVE  id \in EdgeIds
  <1> DEFINE p == list[s + 1]
  <1>1. LeafError(p) = "none"
    BY DEF Admitted
  <1>2. /\ ClaimsError(p.shard, p.statement.inputs, "input") = "none"
        /\ ClaimsError(p.shard, p.statement.outputs, "output") = "none"
    BY <1>1, CheckedLeaf
  <1> QED
    BY <1>2, CheckedClaims DEF StatementOf, Range

\* The claim admit_verified_leaf makes of a proof is true.
LEMMA LeafIsTrue ==
    ASSUME NEW list, NEW s, Admitted(list, s)
    PROVE  TrueClaim(list, LeafClaim(list[s + 1])) /\ LeafClaim(list[s + 1]).covered = {s}
  <1> DEFINE p == list[s + 1]
             st == StatementOf(list, s)
             c == LeafClaim(p)
  <1>1. p.shard = s /\ st = p.statement /\ LeafError(p) = "none" /\ s \in Nat
    BY DEF Admitted, StatementOf
  <1>2. /\ c.covered = {s}
        /\ c.frontier = [id \in UNION {x.edges : x \in Range(st.inputs) \cup Range(st.outputs)} |->
                            [producer |-> Slot(st.outputs, id), consumer |-> Slot(st.inputs, id)]]
        /\ c.closed = {}
        /\ c.public_inputs = InputsOf(list, s)
        /\ c.public_outputs = OutputsOf(list, s)
        /\ c.leaves = {Bound(list, s)}
    BY <1>1 DEF LeafClaim, InputsOf, OutputsOf, Bound
  <1> HIDE DEF c, p, st
  <1>3. CoverTrue(list, c)
    BY <1>2 DEF CoverTrue
  <1>4. FrontierTrue(list, c)
    <2>1. DOMAIN c.frontier \subseteq EdgeIds
      BY <1>2, AdmittedEdges DEF st
    <2>2. \A e \in Edges : e.id \in DOMAIN c.frontier <=> e.producer = s \/ e.consumer = s
      <3>1. \A e \in Edges : e.id \in DOMAIN c.frontier <=>
                \/ \E x \in Range(st.outputs) : e.id \in x.edges
                \/ \E x \in Range(st.inputs) : e.id \in x.edges
        BY <1>2
      <3> QED
        BY <3>1, AdmittedSlots DEF st
    <2>3. \A e \in Edges : e \in Crossing(c) <=> e.producer = s \/ e.consumer = s
      BY <1>2, EdgesAssumption DEF Crossing
    <2>4. DOMAIN c.frontier = {e.id : e \in Crossing(c)}
      <3>1. ASSUME NEW id \in DOMAIN c.frontier PROVE id \in {e.id : e \in Crossing(c)}
        <4>1. Edge(id) \in Edges /\ Edge(id).id = id
          BY <2>1, EdgeOfId
        <4> QED
          BY <4>1, <2>2, <2>3
      <3>2. ASSUME NEW e \in Crossing(c) PROVE e.id \in DOMAIN c.frontier
        BY <2>2, <2>3 DEF Crossing
      <3> QED
        BY <3>1, <3>2
    <2>5. Inner(c) = {}
      BY <1>2, EdgesAssumption DEF Inner
    <2>6. c.closed = {e.id : e \in Inner(c)}
      BY <1>2, <2>5
    <2>7. ASSUME NEW e \in Edges, e.id \in DOMAIN c.frontier
          PROVE  c.frontier[e.id] = [producer |-> IF e.producer \in c.covered THEN ProducerSays(list, e) ELSE 0,
                                     consumer |-> IF e.consumer \in c.covered THEN ConsumerSays(list, e) ELSE 0]
      <3>1. c.frontier[e.id] = [producer |-> Slot(st.outputs, e.id), consumer |-> Slot(st.inputs, e.id)]
        BY <1>2, <2>7
      <3>2. /\ e.producer # s => Slot(st.outputs, e.id) = 0
            /\ e.consumer # s => Slot(st.inputs, e.id) = 0
        BY AdmittedSlots DEF st
      <3> QED
        BY <1>2, <3>1, <3>2 DEF ProducerSays, ConsumerSays, st
    <2> QED
      BY <2>4, <2>6, <2>7 DEF FrontierTrue
  <1>5. ClosedAgree(list, c)
    BY <1>2 DEF ClosedAgree
  <1>6. PublicTrue(list, c)
    <2>1. UNION {InputsOf(list, t) : t \in c.covered} = InputsOf(list, s)
      BY <1>2
    <2>2. UNION {OutputsOf(list, t) : t \in c.covered} = OutputsOf(list, s)
      BY <1>2
    <2>3. ASSUME NEW b \in InputsOf(list, s), NEW d \in InputsOf(list, s), b.descriptor.register = d.descriptor.register
          PROVE  b = d
      <3> DEFINE l == PublicOf(st.inputs, "input")
                 declared == Expected[s].inputs
      <3>1. [k \in DOMAIN l |-> Descriptor(l[k])] = declared
        BY <1>1, CheckedLeaf DEF descriptors_match, p
      <3>2. PICK i \in DOMAIN l : b = Binding(l[i])
        BY DEF InputsOf, Range, st
      <3>3. PICK k \in DOMAIN l : d = Binding(l[k])
        BY DEF InputsOf, Range, st
      <3>4. b.descriptor = declared[i] /\ d.descriptor = declared[k] /\ i \in DOMAIN declared /\ k \in DOMAIN declared
        BY <3>1, <3>2, <3>3 DEF Binding
      <3>5. i = k
        BY <3>4, <2>3, <1>1, CheckedLeaf, ExpectedAssumption
      <3> QED
        BY <3>2, <3>3, <3>5
    <2> QED
      BY <1>2, <2>1, <2>2, <2>3 DEF PublicTrue
  <1> QED
    BY <1>2, <1>3, <1>4, <1>5, <1>6 DEF TrueClaim, c, p

-----------------------------------------------------------------------------
(* The claim of a node *)

\* What merge_verified_claims has established when it merges.
LEMMA CheckedMerge ==
    ASSUME NEW children, MergeError(children) = "none"
    PROVE  /\ ~Clash(children, "covered")
           /\ ~InputsClash(children)
           /\ \A id \in Closing(children) : /\ Frontier(children)[id].producer # 0
                                            /\ Frontier(children)[id].producer = Frontier(children)[id].consumer
  BY DEF MergeError

\* The larger of nothing and one commitment.
LEMMA MaxOfOne ==
    ASSUME NEW v \in Nat, NEW S, 0 \in S, S \subseteq {0, v}
    PROVE  Max(S) = IF v \in S THEN v ELSE 0
  <1>1. CASE v \in S
    <2>1. \E x \in S : \A y \in S : x >= y
      BY <1>1
    <2>2. Max(S) \in S /\ \A y \in S : Max(S) >= y
      BY <2>1 DEF Max
    <2>3. Max(S) \in {0, v} /\ Max(S) >= v
      BY <1>1, <2>2
    <2>4. Max(S) = v
      BY <2>3
    <2> QED
      BY <1>1, <2>4
  <1>2. CASE v \notin S
    <2>1. S = {0}
      BY <1>2
    <2>2. \E x \in S : \A y \in S : x >= y
      BY <2>1
    <2>3. Max(S) \in S
      BY <2>2 DEF Max
    <2> QED
      BY <1>2, <2>1, <2>3
  <1> QED
    BY <1>1, <1>2

\* The frontiers of the children put together: the edges that cross the border
\* of a child, each with what the proofs inside say.
LEMMA JoinedFrontier ==
    ASSUME NEW list, NEW children, \A i \in DOMAIN children : TrueClaim(list, children[i]),
           ~Clash(children, "covered")
    PROVE  LET covered == UnionOf(children, "covered")
           IN  /\ DOMAIN Frontier(children) = UNION {{e.id : e \in Crossing(children[i])} : i \in DOMAIN children}
               /\ \A e \in Edges : e.id \in DOMAIN Frontier(children) =>
                    Frontier(children)[e.id] =
                        [producer |-> IF e.producer \in covered THEN ProducerSays(list, e) ELSE 0,
                         consumer |-> IF e.consumer \in covered THEN ConsumerSays(list, e) ELSE 0]
  <1> DEFINE covered == UnionOf(children, "covered")
             F(i) == children[i].frontier
  <1>1. \A i \in DOMAIN children :
            /\ DOMAIN F(i) = {e.id : e \in Crossing(children[i])}
            /\ \A e \in Edges : e.id \in DOMAIN F(i) =>
                F(i)[e.id] = [producer |-> IF e.producer \in children[i].covered THEN ProducerSays(list, e) ELSE 0,
                              consumer |-> IF e.consumer \in children[i].covered THEN ConsumerSays(list, e) ELSE 0]
    BY DEF TrueClaim, FrontierTrue
  <1>2. DOMAIN Frontier(children) = UNION {DOMAIN F(i) : i \in DOMAIN children}
    BY DEF Frontier
  <1>3. DOMAIN Frontier(children) = UNION {{e.id : e \in Crossing(children[i])} : i \in DOMAIN children}
    BY <1>1, <1>2
  <1>4. ASSUME NEW e \in Edges, e.id \in DOMAIN Frontier(children)
        PROVE  Frontier(children)[e.id] =
                   [producer |-> IF e.producer \in covered THEN ProducerSays(list, e) ELSE 0,
                    consumer |-> IF e.consumer \in covered THEN ConsumerSays(list, e) ELSE 0]
    <2> DEFINE having == {i \in DOMAIN children : e.id \in DOMAIN F(i)}
               producers == {0} \cup {F(i)[e.id]["producer"] : i \in having}
               consumers == {0} \cup {F(i)[e.id]["consumer"] : i \in having}
    <2>1. Frontier(children)[e.id] = [producer |-> Max(producers), consumer |-> Max(consumers)]
      BY <1>4 DEF Frontier, Endpoint
    <2>2. \A i \in having :
            /\ F(i)[e.id]["producer"] = IF e.producer \in children[i].covered THEN ProducerSays(list, e) ELSE 0
            /\ F(i)[e.id]["consumer"] = IF e.consumer \in children[i].covered THEN ConsumerSays(list, e) ELSE 0
      <3> SUFFICES ASSUME NEW i \in having
                   PROVE  /\ F(i)[e.id]["producer"] = IF e.producer \in children[i].covered THEN ProducerSays(list, e) ELSE 0
                          /\ F(i)[e.id]["consumer"] = IF e.consumer \in children[i].covered THEN ConsumerSays(list, e) ELSE 0
        OBVIOUS
      <3> DEFINE a == IF e.producer \in children[i].covered THEN ProducerSays(list, e) ELSE 0
                 b == IF e.consumer \in children[i].covered THEN ConsumerSays(list, e) ELSE 0
      <3>1. F(i)[e.id] = [producer |-> a, consumer |-> b]
        BY <1>1
      <3> HIDE DEF a, b, F
      <3>2. F(i)[e.id]["producer"] = a /\ F(i)[e.id]["consumer"] = b
        BY <3>1
      <3> QED
        BY <3>2 DEF a, b
    <2>3. \A i \in DOMAIN children : \A s \in children[i].covered : Admitted(list, s)
      BY DEF TrueClaim, CoverTrue
    <2>4. \A s \in covered : \E i \in DOMAIN children : s \in children[i].covered
      BY DEF UnionOf
    <2>5. \A i \in DOMAIN children : children[i].covered \subseteq covered
      BY DEF UnionOf
    <2>6. \A i \in DOMAIN children : (e.producer \in children[i].covered <=> e.consumer \notin children[i].covered) <=> i \in having
      <3>1. ASSUME NEW i \in DOMAIN children, i \in having
            PROVE  e.producer \in children[i].covered <=> e.consumer \notin children[i].covered
        <4>1. PICK f \in Crossing(children[i]) : f.id = e.id
          BY <1>1, <3>1
        <4>2. f = e
          BY <4>1, EdgesAssumption DEF Crossing
        <4> QED
          BY <4>1, <4>2 DEF Crossing
      <3>2. ASSUME NEW i \in DOMAIN children, e.producer \in children[i].covered <=> e.consumer \notin children[i].covered
            PROVE  i \in having
        BY <1>1, <3>2 DEF Crossing
      <3> QED
        BY <3>1, <3>2
    <2>7. PICK j \in having : TRUE
      BY <1>2, <1>4
    <2>8. \A i, k \in DOMAIN children : i # k => children[i].covered \cap children[k].covered = {}
      <3>1. ~(\E i, k \in DOMAIN children : i # k /\ children[i]["covered"] \cap children[k]["covered"] # {})
        BY DEF Clash
      <3> QED
        BY <3>1
    <2>9. Max(producers) = IF e.producer \in covered THEN ProducerSays(list, e) ELSE 0
      <3>1. CASE e.producer \in covered
        <4>1. Admitted(list, e.producer)
          BY <3>1, <2>3, <2>4
        <4>2. ProducerSays(list, e) \in Nat /\ ProducerSays(list, e) # 0
          BY <4>1, AdmittedSlots DEF ProducerSays
        <4>3. producers \subseteq {0, ProducerSays(list, e)}
          BY <2>2
        <4>4. PICK i \in DOMAIN children : e.producer \in children[i].covered
          BY <2>4, <3>1
        <4>5. i \in having
          BY <2>6, <2>7, <2>8, <4>4
        <4>6. ProducerSays(list, e) \in producers
          BY <2>2, <4>4, <4>5
        <4> QED
          BY <3>1, <4>2, <4>3, <4>6, MaxOfOne
      <3>2. CASE e.producer \notin covered
        <4>1. producers = {0}
          BY <2>2, <2>5, <3>2
        <4> QED
          BY <3>2, <4>1, MaxOfOne
      <3> QED
        BY <3>1, <3>2
    <2>10. Max(consumers) = IF e.consumer \in covered THEN ConsumerSays(list, e) ELSE 0
      <3>1. CASE e.consumer \in covered
        <4>1. Admitted(list, e.consumer)
          BY <3>1, <2>3, <2>4
        <4>2. ConsumerSays(list, e) \in Nat /\ ConsumerSays(list, e) # 0
          BY <4>1, AdmittedSlots DEF ConsumerSays
        <4>3. consumers \subseteq {0, ConsumerSays(list, e)}
          BY <2>2
        <4>4. PICK i \in DOMAIN children : e.consumer \in children[i].covered
          BY <2>4, <3>1
        <4>5. i \in having
          BY <2>6, <2>7, <2>8, <4>4
        <4>6. ConsumerSays(list, e) \in consumers
          BY <2>2, <4>4, <4>5
        <4> QED
          BY <3>1, <4>2, <4>3, <4>6, MaxOfOne
      <3>2. CASE e.consumer \notin covered
        <4>1. consumers = {0}
          BY <2>2, <2>5, <3>2
        <4> QED
          BY <3>2, <4>1, MaxOfOne
      <3> QED
        BY <3>1, <3>2
    <2> QED
      BY <2>1, <2>9, <2>10
  <1> QED
    BY <1>3, <1>4

\* The claim merge_verified_claims makes of true claims is true.
LEMMA MergeIsTrue ==
    ASSUME NEW list, NEW children, \A i \in DOMAIN children : TrueClaim(list, children[i]),
           MergeError(children) = "none"
    PROVE  TrueClaim(list, MergedClaim(children))
  <1> DEFINE c == MergedClaim(children)
             joined == Frontier(children)
  <1>1. /\ c.covered = UnionOf(children, "covered")
        /\ c.frontier = [id \in DOMAIN joined \ Closing(children) |-> joined[id]]
        /\ c.closed = UnionOf(children, "closed") \cup Closing(children)
        /\ c.public_inputs = UnionOf(children, "public_inputs")
        /\ c.public_outputs = UnionOf(children, "public_outputs")
        /\ c.leaves = UnionOf(children, "leaves")
    BY DEF MergedClaim
  <1> HIDE DEF c
  <1>2. /\ c.covered = UNION {children[i].covered : i \in DOMAIN children}
        /\ UnionOf(children, "closed") = UNION {children[i].closed : i \in DOMAIN children}
        /\ c.public_inputs = UNION {children[i].public_inputs : i \in DOMAIN children}
        /\ c.public_outputs = UNION {children[i].public_outputs : i \in DOMAIN children}
        /\ c.leaves = UNION {children[i].leaves : i \in DOMAIN children}
    BY <1>1 DEF UnionOf
  <1>3. /\ DOMAIN joined = UNION {{e.id : e \in Crossing(children[i])} : i \in DOMAIN children}
        /\ \A e \in Edges : e.id \in DOMAIN joined =>
             joined[e.id] = [producer |-> IF e.producer \in c.covered THEN ProducerSays(list, e) ELSE 0,
                             consumer |-> IF e.consumer \in c.covered THEN ConsumerSays(list, e) ELSE 0]
    <2>1. ~Clash(children, "covered")
      BY CheckedMerge
    <2>2. /\ DOMAIN joined = UNION {{e.id : e \in Crossing(children[i])} : i \in DOMAIN children}
          /\ \A e \in Edges : e.id \in DOMAIN joined =>
               joined[e.id] = [producer |-> IF e.producer \in UnionOf(children, "covered") THEN ProducerSays(list, e) ELSE 0,
                               consumer |-> IF e.consumer \in UnionOf(children, "covered") THEN ConsumerSays(list, e) ELSE 0]
      BY <2>1, JoinedFrontier
    <2> HIDE DEF joined
    <2> QED
      BY <1>1, <2>2
  <1> HIDE DEF joined
  <1>4. /\ Closing(children) \subseteq DOMAIN joined
        /\ \A e \in Edges : e.id \in DOMAIN joined =>
             (e.id \in Closing(children) <=> e.producer \in c.covered /\ e.consumer \in c.covered)
    BY <1>1, EdgeOfId DEF Closing, joined
  <1>5. \A e \in Edges : e.id \in DOMAIN joined <=> \E i \in DOMAIN children : e \in Crossing(children[i])
    <2>1. ASSUME NEW e \in Edges, e.id \in DOMAIN joined PROVE \E i \in DOMAIN children : e \in Crossing(children[i])
      <3>1. PICK i \in DOMAIN children : \E f \in Crossing(children[i]) : f.id = e.id
        BY <1>3, <2>1
      <3>2. PICK f \in Crossing(children[i]) : f.id = e.id
        BY <3>1
      <3>3. f = e
        BY <3>2, EdgesAssumption DEF Crossing
      <3> QED
        BY <3>2, <3>3
    <2> QED
      BY <1>3, <2>1
  <1>6. CoverTrue(list, c)
    <2>1. \A i \in DOMAIN children : /\ \A s \in children[i].covered : Admitted(list, s)
                                     /\ children[i].leaves = {Bound(list, s) : s \in children[i].covered}
      BY DEF TrueClaim, CoverTrue
    <2>2. c.leaves = {Bound(list, s) : s \in c.covered}
      BY <1>2, <2>1
    <2> QED
      BY <1>2, <2>1, <2>2 DEF CoverTrue
  <1>7. \A i \in DOMAIN children : children[i].closed = {e.id : e \in Inner(children[i])}
    BY DEF TrueClaim, FrontierTrue
  <1>8. \A e \in Crossing(c) : e.id \in DOMAIN joined /\ e.id \notin Closing(children)
    <2> SUFFICES ASSUME NEW e \in Crossing(c) PROVE e.id \in DOMAIN joined /\ e.id \notin Closing(children)
      OBVIOUS
    <2>1. e \in Edges /\ (e.producer \in c.covered <=> e.consumer \notin c.covered)
      BY DEF Crossing
    <2>2. \E i \in DOMAIN children : e \in Crossing(children[i])
      BY <1>2, <2>1 DEF Crossing
    <2> QED
      BY <1>4, <1>5, <2>1, <2>2
  <1>9. \A e \in Inner(c) : e.id \in c.closed
    <2> SUFFICES ASSUME NEW e \in Inner(c) PROVE e.id \in c.closed
      OBVIOUS
    <2>1. e \in Edges /\ e.producer \in c.covered /\ e.consumer \in c.covered
      BY DEF Inner
    <2>2. PICK i \in DOMAIN children : e.producer \in children[i].covered
      BY <1>2, <2>1
    <2>3. CASE e.consumer \in children[i].covered
      <3>1. e \in Inner(children[i])
        BY <2>1, <2>2, <2>3 DEF Inner
      <3> QED
        BY <1>1, <1>2, <1>7, <3>1
    <2>4. CASE e.consumer \notin children[i].covered
      <3>1. e \in Crossing(children[i])
        BY <2>1, <2>2, <2>4 DEF Crossing
      <3> QED
        BY <1>1, <1>4, <1>5, <2>1, <3>1
    <2> QED
      BY <2>3, <2>4
  <1>10. FrontierTrue(list, c)
    <2>1. DOMAIN c.frontier = DOMAIN joined \ Closing(children)
      BY <1>1
    <2>2. ASSUME NEW id \in DOMAIN c.frontier PROVE id \in {e.id : e \in Crossing(c)}
      <3>1. PICK e \in Edges : e.id = id
        BY <1>3, <2>1 DEF Crossing
      <3>2. PICK i \in DOMAIN children : e \in Crossing(children[i])
        BY <1>5, <2>1, <3>1
      <3>3. e \in Crossing(c)
        BY <1>2, <1>4, <2>1, <3>1, <3>2 DEF Crossing
      <3> QED
        BY <3>1, <3>3
    <2>3. DOMAIN c.frontier = {e.id : e \in Crossing(c)}
      BY <1>8, <2>1, <2>2
    <2>4. ASSUME NEW id \in c.closed PROVE id \in {e.id : e \in Inner(c)}
      <3>1. CASE id \in Closing(children)
        <4>1. PICK e \in Edges : e.id = id
          BY <1>3, <1>4, <3>1 DEF Crossing
        <4> QED
          BY <1>4, <3>1, <4>1 DEF Inner
      <3>2. CASE id \in UnionOf(children, "closed")
        <4>1. PICK i \in DOMAIN children : id \in children[i].closed
          BY <1>2, <3>2
        <4>2. PICK e \in Inner(children[i]) : e.id = id
          BY <1>7, <4>1
        <4>3. e \in Inner(c)
          BY <1>2, <4>2 DEF Inner
        <4> QED
          BY <4>2, <4>3
      <3> QED
        BY <1>1, <3>1, <3>2
    <2>5. c.closed = {e.id : e \in Inner(c)}
      BY <1>9, <2>4
    <2>6. \A e \in Edges : e.id \in DOMAIN c.frontier => c.frontier[e.id] = joined[e.id] /\ e.id \in DOMAIN joined
      BY <1>1
    <2> QED
      BY <1>3, <2>3, <2>5, <2>6 DEF FrontierTrue
  <1>11. ClosedAgree(list, c)
    <2> SUFFICES ASSUME NEW e \in Edges, e.id \in c.closed
                 PROVE  ProducerSays(list, e) # 0 /\ ProducerSays(list, e) = ConsumerSays(list, e)
      BY DEF ClosedAgree
    <2>1. CASE e.id \in Closing(children)
      <3>1. joined[e.id].producer # 0 /\ joined[e.id].producer = joined[e.id].consumer
        BY <2>1, CheckedMerge DEF joined
      <3>2. joined[e.id] = [producer |-> ProducerSays(list, e), consumer |-> ConsumerSays(list, e)]
        BY <1>3, <1>4, <2>1
      <3> QED
        BY <3>1, <3>2
    <2>2. CASE e.id \in UnionOf(children, "closed")
      <3>1. PICK i \in DOMAIN children : e.id \in children[i].closed
        BY <1>2, <2>2
      <3> QED
        BY <3>1 DEF TrueClaim, ClosedAgree
    <2> QED
      BY <1>1, <2>1, <2>2
  <1>12. PublicTrue(list, c)
    <2>1. \A i \in DOMAIN children :
            /\ children[i].public_inputs = UNION {InputsOf(list, s) : s \in children[i].covered}
            /\ children[i].public_outputs = UNION {OutputsOf(list, s) : s \in children[i].covered}
      BY DEF TrueClaim, PublicTrue
    <2>2. c.public_inputs = UNION {InputsOf(list, s) : s \in c.covered}
      BY <1>2, <2>1
    <2>3. c.public_outputs = UNION {OutputsOf(list, s) : s \in c.covered}
      BY <1>2, <2>1
    <2>4. \A b, d \in c.public_inputs : b.descriptor.register = d.descriptor.register => b = d
      BY <1>1, CheckedMerge DEF InputsClash
    <2> QED
      BY <2>2, <2>3, <2>4 DEF PublicTrue
  <1> QED
    BY <1>6, <1>10, <1>11, <1>12 DEF TrueClaim, c

-----------------------------------------------------------------------------
(* The invariant *)

\* Every claim there is, of a leaf or of a node, is true of the proofs at hand.
ClaimsInv ==
    /\ leaf_count \in Nat
    /\ proofs \in Seq(Range(proofs)) /\ Range(proofs) \subseteq HandedIn
    /\ outcome \in {"admit", "merge", "manifest"} => Len(proofs) = leaf_count
    /\ IsFiniteSet(DOMAIN claims)
    /\ \A id \in DOMAIN claims : TrueClaim(proofs, claims[id])

\* A claim over all the shards that leaves no edge open.
WholeClaim(list, c) ==
    /\ TrueClaim(list, c)
    /\ c.covered = Shards
    /\ EdgeIds \subseteq c.closed
    /\ Len(list) = leaf_count /\ list \in Seq(Range(list))

\* A manifest is made of a true claim over all the proofs, also the one that was sent.
ManifestInv ==
    /\ outcome # "manifest" => manifest = {}
    /\ outcome = "manifest" => \E c : WholeClaim(proofs, c) /\ manifest = {Manifest(c)}
    /\ wire # {} => \E c : WholeClaim(built_from, c) /\ wire = {Manifest(c)}
    /\ verdict = "accepted" => wire # {} /\ outcome = "manifest" /\ proofs = built_from

AggregationInv == ClaimsInv /\ ManifestInv

\* An error is not mistaken for a stage.
LEMMA ErrorsAreErrors ==
    /\ \A p : LeafError(p) \notin {"admit", "merge", "manifest"}
    /\ \A children : MergeError(children) \notin {"admit", "merge", "manifest"}
  <1>1. \A shard, list, role : ClaimsError(shard, list, role) \notin {"admit", "merge", "manifest"}
    BY DEF ClaimsError
  <1>2. ASSUME NEW p PROVE LeafError(p) \notin {"admit", "merge", "manifest"}
    BY <1>1 DEF LeafError
  <1>3. ASSUME NEW children PROVE MergeError(children) \notin {"admit", "merge", "manifest"}
    BY DEF MergeError
  <1> QED
    BY <1>2, <1>3

\* A run begins with a list of proofs and no claim.
LEMMA AggregationStarts == AggregationInit => AggregationInv
  <1> SUFFICES ASSUME AggregationInit PROVE AggregationInv
    OBVIOUS
  <1>1. PICK r \in Requests : leaf_count = r.leaf_count /\ fan_in = r.fan_in /\ proofs = r.proofs
    BY DEF AggregationInit
  <1>2. leaf_count \in Nat /\ proofs \in Seq(Range(proofs)) /\ Range(proofs) \subseteq HandedIn
    BY <1>1, RequestsAssumption DEF HandedIn
  <1>3. DOMAIN claims = {}
    BY DEF AggregationInit, NoClaims
  <1>4. outcome \notin {"admit", "merge", "manifest"}
    BY DEF AggregationInit, FirstStep
  <1>5. manifest = {} /\ wire = {} /\ verdict = "none"
    BY DEF AggregationInit
  <1> QED
    BY <1>2, <1>3, <1>4, <1>5, FS_EmptySet DEF AggregationInv, ClaimsInv, ManifestInv

\* A step that ends in an error, or that leaves the claims, the proofs and the
\* manifests as they are.
LEMMA KeepsInvariant ==
    ASSUME AggregationInv,
           UNCHANGED <<leaf_count, proofs, claims, manifest, wire, built_from, verdict>>,
           outcome # "manifest",
           \/ outcome' \notin {"admit", "merge", "manifest"}
           \/ outcome' # "manifest" /\ Len(proofs) = leaf_count
    PROVE  AggregationInv'
  <1>1. ClaimsInv'
    BY DEF AggregationInv, ClaimsInv
  <1>2. ManifestInv'
    BY DEF AggregationInv, ManifestInv, WholeClaim, Shards
  <1> QED
    BY <1>1, <1>2 DEF AggregationInv

\* admit_leaf: the claim of the next proof is true.
LEMMA AdmitKeepsInvariant ==
    ASSUME AggregationInv, admit_leaf
    PROVE  AggregationInv'
  <1> DEFINE i == Cardinality(DOMAIN claims) + 1
             proof == proofs[i]
  <1>1. outcome = "admit" /\ i <= leaf_count
    BY DEF admit_leaf
  <1>2. i \in 1..leaf_count /\ Len(proofs) = leaf_count
    BY <1>1, FS_CardinalityType DEF AggregationInv, ClaimsInv
  <1>3. CASE proof.shard # i - 1 \/ LeafError(proof) # "none"
    <2>1. \/ Fail("ChildOrderMismatch")
          \/ Fail(LeafError(proof))
      BY <1>3 DEF admit_leaf
    <2>2. UNCHANGED <<leaf_count, proofs, claims, manifest, wire, built_from, verdict>>
      BY <2>1 DEF Fail, request
    <2>3. outcome' \notin {"admit", "merge", "manifest"}
      BY <2>1, ErrorsAreErrors DEF Fail
    <2> QED
      BY <1>1, <2>2, <2>3, KeepsInvariant
  <1>4. CASE proof.shard = i - 1 /\ LeafError(proof) = "none"
    <2>1. /\ claims' = [id \in DOMAIN claims \cup {Leaf(proof.shard)} |->
                          IF id = Leaf(proof.shard) THEN LeafClaim(proof) ELSE claims[id]]
          /\ outcome' \in {"merge", "admit"}
          /\ UNCHANGED <<leaf_count, proofs, manifest, wire, built_from, verdict>>
      BY <1>4 DEF admit_leaf, request
    <2>2. Admitted(proofs, i - 1)
      <3>1. proof \in HandedIn
        BY <1>2 DEF AggregationInv, ClaimsInv, Range
      <3>2. i - 1 \in 0..(Len(proofs) - 1) /\ (i - 1) + 1 = i
        BY <1>2
      <3> HIDE DEF i
      <3> QED
        BY <1>4, <3>1, <3>2 DEF Admitted
    <2>3. TrueClaim(proofs, LeafClaim(proof))
      <3>1. (i - 1) + 1 = i
        BY <1>2
      <3> HIDE DEF i
      <3> QED
        BY <2>2, <3>1, LeafIsTrue
    <2>4. \A id \in DOMAIN claims' : TrueClaim(proofs, claims'[id])
      BY <2>1, <2>3 DEF AggregationInv, ClaimsInv
    <2>5. IsFiniteSet(DOMAIN claims')
      <3>1. DOMAIN claims' = DOMAIN claims \cup {Leaf(proof.shard)}
        BY <2>1
      <3> QED
        BY <3>1, FS_AddElement DEF AggregationInv, ClaimsInv
    <2>6. ClaimsInv'
      BY <1>2, <2>1, <2>4, <2>5 DEF AggregationInv, ClaimsInv
    <2>7. ManifestInv'
      BY <1>1, <2>1 DEF AggregationInv, ManifestInv, WholeClaim, Shards
    <2> QED
      BY <2>6, <2>7 DEF AggregationInv
  <1> QED
    BY <1>3, <1>4

\* merge_node: the claim of the next node is true.
LEMMA MergeKeepsInvariant ==
    ASSUME AggregationInv, merge_node
    PROVE  AggregationInv'
  <1>1. PICK turn \in Pending :
            LET node == Nodes[turn]
                children == Children(node)
            IN  /\ outcome = "merge"
                /\ IF MergeError(children) # "none" THEN Fail(MergeError(children))
                   ELSE /\ claims' = [id \in (DOMAIN claims \ Range(node.children)) \cup {node.id} |->
                                        IF id = node.id THEN MergedClaim(children) ELSE claims[id]]
                        /\ UNCHANGED <<request, current, levels, proofs, outcome, manifest, wire, built_from, verdict>>
    BY DEF merge_node
  <1> DEFINE node == Nodes[turn]
             children == Children(node)
  <1>2. outcome = "merge" /\ Len(proofs) = leaf_count
    BY <1>1 DEF AggregationInv, ClaimsInv
  <1>3. CASE MergeError(children) # "none"
    <2>1. Fail(MergeError(children))
      BY <1>1, <1>3
    <2>2. UNCHANGED <<leaf_count, proofs, claims, manifest, wire, built_from, verdict>>
      BY <2>1 DEF Fail, request
    <2>3. outcome' \notin {"admit", "merge", "manifest"}
      BY <2>1, ErrorsAreErrors DEF Fail
    <2> QED
      BY <1>2, <2>2, <2>3, KeepsInvariant
  <1>4. CASE MergeError(children) = "none"
    <2>1. /\ claims' = [id \in (DOMAIN claims \ Range(node.children)) \cup {node.id} |->
                          IF id = node.id THEN MergedClaim(children) ELSE claims[id]]
          /\ UNCHANGED <<leaf_count, proofs, outcome, manifest, wire, built_from, verdict>>
      BY <1>1, <1>4 DEF request
    <2>2. \A i \in DOMAIN children : TrueClaim(proofs, children[i])
      <3>1. Range(node.children) \subseteq DOMAIN claims
        BY DEF Pending
      <3>2. \A i \in DOMAIN node.children : node.children[i] \in DOMAIN claims
        BY <3>1 DEF Range
      <3> QED
        BY <3>2 DEF Children, AggregationInv, ClaimsInv
    <2>3. TrueClaim(proofs, MergedClaim(children))
      BY <1>4, <2>2, MergeIsTrue
    <2>4. \A id \in DOMAIN claims' : TrueClaim(proofs, claims'[id])
      BY <2>1, <2>3 DEF AggregationInv, ClaimsInv
    <2>5. IsFiniteSet(DOMAIN claims')
      <3>1. DOMAIN claims' = (DOMAIN claims \ Range(node.children)) \cup {node.id}
        BY <2>1
      <3>2. IsFiniteSet(DOMAIN claims \ Range(node.children))
        BY FS_Subset DEF AggregationInv, ClaimsInv
      <3> QED
        BY <3>1, <3>2, FS_AddElement
    <2>6. ClaimsInv'
      BY <1>2, <2>1, <2>4, <2>5 DEF AggregationInv, ClaimsInv
    <2>7. ManifestInv'
      BY <1>2, <2>1 DEF AggregationInv, ManifestInv, WholeClaim, Shards
    <2> QED
      BY <2>6, <2>7 DEF AggregationInv
  <1> QED
    BY <1>3, <1>4

\* Two true claims over all the shards, of which one was made from each list, are
\* the same claim only if the lists are the same.
LEMMA LeavesBindProofs ==
    ASSUME leaf_count \in Nat, NEW l1, NEW l2, NEW c, WholeClaim(l1, c), WholeClaim(l2, c)
    PROVE  l1 = l2
  <1>1. ASSUME NEW s \in Shards PROVE l1[s + 1] = l2[s + 1]
    <2>1. Admitted(l1, s) /\ Admitted(l2, s)
      BY DEF WholeClaim, TrueClaim, CoverTrue
    <2>2. PICK t \in Shards : Bound(l1, s) = Bound(l2, t)
      <3>1. Bound(l1, s) \in c.leaves
        BY DEF WholeClaim, TrueClaim, CoverTrue
      <3> QED
        BY <3>1 DEF WholeClaim, TrueClaim, CoverTrue
    <2>3. Admitted(l2, t)
      BY DEF WholeClaim, TrueClaim, CoverTrue
    <2>4. /\ l1[s + 1].shard = l2[t + 1].shard
          /\ l1[s + 1].id = l2[t + 1].id
          /\ l1[s + 1].statement = l2[t + 1].statement
      BY <2>2 DEF Bound
    <2>5. t = s
      BY <2>1, <2>3, <2>4 DEF Admitted
    <2>6. l1[s + 1].identity /\ l2[s + 1].identity
      BY <2>1, CheckedLeaf DEF Admitted
    <2>7. l1[s + 1] \in HandedIn /\ l2[s + 1] \in HandedIn
      BY <2>1 DEF Admitted
    <2> QED
      BY <2>4, <2>5, <2>6, <2>7, ProofsAssumption
  <1>2. Len(l1) = leaf_count /\ Len(l2) = leaf_count /\ l1 \in Seq(Range(l1)) /\ l2 \in Seq(Range(l2))
    BY DEF WholeClaim
  <1>3. \A i \in 1..leaf_count : l1[i] = l2[i]
    <2> SUFFICES ASSUME NEW i \in 1..leaf_count PROVE l1[i] = l2[i]
      OBVIOUS
    <2>1. i - 1 \in Shards /\ (i - 1) + 1 = i
      BY DEF Shards
    <2> QED
      BY <1>1, <2>1
  <1> QED
    BY <1>2, <1>3

\* finalize_native_manifest: the manifest is made of the claim of the root, and
\* compared with the one that was sent.
LEMMA FinalizeKeepsInvariant ==
    ASSUME AggregationInv, finalize_native_manifest
    PROVE  AggregationInv'
  <1> DEFINE root == claims[Root]
  <1>1. outcome = "merge" /\ Len(proofs) = leaf_count /\ leaf_count \in Nat
    BY DEF finalize_native_manifest, AggregationInv, ClaimsInv
  <1>2. CASE outcome' # "manifest"
    <2>1. \E error \in {"AggregationIdentityMismatch", "MissingLeaf", "OpenInternalEdge"} : Fail(error)
      BY <1>2 DEF finalize_native_manifest
    <2>2. UNCHANGED <<leaf_count, proofs, claims, manifest, wire, built_from, verdict>>
      BY <2>1 DEF Fail, request
    <2>3. outcome' \notin {"admit", "merge", "manifest"}
      BY <2>1 DEF Fail
    <2> QED
      BY <1>1, <2>2, <2>3, KeepsInvariant
  <1>3. CASE outcome' = "manifest"
    <2>1. /\ DOMAIN claims = {Root}
          /\ Shards \subseteq root.covered
          /\ EdgeIds \subseteq root.closed
          /\ manifest' = {Manifest(root)}
          /\ verdict' = IF wire = {} THEN "none" ELSE IF wire = {Manifest(root)} THEN "accepted" ELSE "rejected"
          /\ UNCHANGED <<leaf_count, proofs, claims, wire, built_from>>
      BY <1>3 DEF finalize_native_manifest, Fail, request
    <2>2. TrueClaim(proofs, root)
      BY <2>1 DEF AggregationInv, ClaimsInv
    <2>3. root.covered = Shards
      BY <1>1, <2>1, <2>2 DEF TrueClaim, CoverTrue, Admitted, Shards
    <2>4. WholeClaim(proofs, root)
      BY <1>1, <2>1, <2>2, <2>3 DEF WholeClaim, AggregationInv, ClaimsInv
    <2>5. verdict' = "accepted" => wire # {} /\ proofs = built_from
      <3> SUFFICES ASSUME verdict' = "accepted" PROVE wire # {} /\ proofs = built_from
        OBVIOUS
      <3>1. wire # {} /\ wire = {Manifest(root)}
        BY <2>1
      <3>2. PICK c : WholeClaim(built_from, c) /\ wire = {Manifest(c)}
        BY <3>1 DEF AggregationInv, ManifestInv
      <3>3. Manifest(root) = Manifest(c)
        BY <3>1, <3>2
      <3>4. root = c
        BY <3>3 DEF Manifest, claim_digest
      <3> QED
        BY <1>1, <2>4, <3>1, <3>2, <3>4, LeavesBindProofs
    <2>6. ClaimsInv'
      BY <1>1, <2>1 DEF AggregationInv, ClaimsInv
    <2>7. ManifestInv'
      <3>1. \E c : WholeClaim(proofs, c)' /\ manifest' = {Manifest(c)}
        BY <2>1, <2>4 DEF WholeClaim, Shards
      <3>2. wire' # {} => \E c : WholeClaim(built_from, c)' /\ wire' = {Manifest(c)}
        BY <2>1 DEF AggregationInv, ManifestInv, WholeClaim, Shards
      <3> QED
        BY <1>3, <2>1, <2>5, <3>1, <3>2 DEF ManifestInv
    <2> QED
      BY <2>6, <2>7 DEF AggregationInv
  <1> QED
    BY <1>2, <1>3

\* send_manifest: what is sent is remembered with its proofs, and the verifier
\* begins anew with proofs of its own.
LEMMA SendKeepsInvariant ==
    ASSUME AggregationInv, send_manifest
    PROVE  AggregationInv'
  <1>1. /\ wire = {} /\ outcome = "manifest"
        /\ wire' = manifest /\ built_from' = proofs
        /\ proofs' \in VerifierProofs
        /\ claims' = NoClaims /\ manifest' = {}
        /\ outcome' = IF Len(proofs') = leaf_count THEN "admit" ELSE "MissingLeaf"
        /\ UNCHANGED <<leaf_count, verdict>>
    BY DEF send_manifest, request
  <1>2. DOMAIN claims' = {}
    BY <1>1 DEF NoClaims
  <1>3. proofs' \in Seq(Range(proofs')) /\ Range(proofs') \subseteq HandedIn
    <2>1. PICK own \in VerifierProofs : proofs' = own
      BY <1>1
    <2>2. own \in Seq(Range(own))
      BY RequestsAssumption
    <2>3. Range(own) \subseteq HandedIn
      BY DEF HandedIn
    <2> QED
      BY <2>1, <2>2, <2>3 DEF Range
  <1>4. ClaimsInv'
    BY <1>1, <1>2, <1>3, FS_EmptySet DEF AggregationInv, ClaimsInv
  <1>5. verdict' # "accepted" /\ outcome' # "manifest"
    BY <1>1 DEF AggregationInv, ManifestInv
  <1>6. \E c : WholeClaim(built_from, c)' /\ wire' = {Manifest(c)}
    BY <1>1 DEF AggregationInv, ManifestInv, WholeClaim, Shards
  <1> QED
    BY <1>1, <1>4, <1>5, <1>6 DEF AggregationInv, ManifestInv

\* Every step keeps the invariant.
LEMMA AggregationKeepsInvariant ==
    ASSUME AggregationInv, [AggregationNext]_aggregationVars
    PROVE  AggregationInv'
  <1>1. CASE plan_level
    <2>1. UNCHANGED <<leaf_count, proofs, claims, outcome, manifest, wire, built_from, verdict>> /\ outcome = "plan"
      BY <1>1 DEF plan_level, request
    <2> QED
      BY <2>1, KeepsInvariant
  <1>2. CASE plan_done
    <2>1. /\ UNCHANGED <<leaf_count, proofs, claims, manifest, wire, built_from, verdict>>
          /\ outcome = "plan"
          /\ outcome' = IF Len(proofs) = leaf_count THEN "admit" ELSE "MissingLeaf"
      BY <1>2 DEF plan_done, Fail, request
    <2> QED
      BY <2>1, KeepsInvariant
  <1>3. CASE admit_leaf
    BY <1>3, AdmitKeepsInvariant
  <1>4. CASE merge_node
    BY <1>4, MergeKeepsInvariant
  <1>5. CASE finalize_native_manifest
    BY <1>5, FinalizeKeepsInvariant
  <1>6. CASE send_manifest
    BY <1>6, SendKeepsInvariant
  <1>7. CASE UNCHANGED aggregationVars
    BY <1>7 DEF aggregationVars, request, AggregationInv, ClaimsInv, ManifestInv, WholeClaim, Shards
  <1> QED
    BY <1>1, <1>2, <1>3, <1>4, <1>5, <1>6, <1>7 DEF AggregationNext

-----------------------------------------------------------------------------
(* Theorems *)

\* In every run of build_native_manifest and verify_native_manifest, whatever
\* the plan of the tree, a claim is true of the proofs it was merged from.
THEOREM AggregationInvariant == AggregationSpec => []AggregationInv
  BY AggregationStarts, AggregationKeepsInvariant, PTL DEF AggregationSpec

\* A claim's frontier and its closed edges are exactly those of the shards it
\* covers, and its commitments those of the proofs.
THEOREM FrontiersStayExact == AggregationSpec => []FrontierExact
  <1>1. ASSUME AggregationInv PROVE FrontierExact
    <2>1. \A id \in DOMAIN claims : FrontierTrue(proofs, claims[id])
      BY <1>1 DEF AggregationInv, ClaimsInv, TrueClaim
    <2> QED
      BY <2>1 DEF FrontierTrue, Crossing, Inner, FrontierExact, ProducerSays, ConsumerSays, StatementOf, Statement
  <1> QED
    BY <1>1, AggregationInvariant, PTL

\* A manifest is accepted only with the very proofs it was built from.
THEOREM AcceptedManifestBinds == AggregationSpec => []ManifestBindsProofs
  <1>1. AggregationInv => ManifestBindsProofs
    BY DEF AggregationInv, ManifestInv, ManifestBindsProofs
  <1> QED
    BY <1>1, AggregationInvariant, PTL

\* What the invariant says of the proofs when there is a manifest.
LEMMA ManifestFacts ==
    ASSUME AggregationInv
    PROVE  EdgesAgree /\ InputsAgree /\ PublicIsComplete
  <1>1. CASE outcome # "manifest"
    BY <1>1 DEF AggregationInv, ManifestInv, EdgesAgree, InputsAgree, PublicIsComplete
  <1>2. CASE outcome = "manifest"
    <2>1. PICK c : WholeClaim(proofs, c) /\ manifest = {Manifest(c)}
      BY <1>2 DEF AggregationInv, ManifestInv
    <2>2. EdgesAgree
      <3> SUFFICES ASSUME NEW e \in Edges
                   PROVE  /\ Slot(Statement(e.producer).outputs, e.id) # 0
                          /\ Slot(Statement(e.producer).outputs, e.id) = Slot(Statement(e.consumer).inputs, e.id)
        BY DEF EdgesAgree
      <3>1. e.id \in c.closed
        BY <2>1, EdgeOfId DEF WholeClaim
      <3> QED
        BY <2>1, <3>1 DEF WholeClaim, TrueClaim, ClosedAgree, ProducerSays, ConsumerSays, StatementOf, Statement
    <2>3. InputsAgree
      <3> SUFFICES ASSUME NEW s \in Shards, NEW t \in Shards,
                          NEW x \in Range(PublicOf(Statement(s).inputs, "input")),
                          NEW y \in Range(PublicOf(Statement(t).inputs, "input")),
                          x.register = y.register
                   PROVE  x.commitment = y.commitment
        BY DEF InputsAgree
      <3>1. Binding(x) \in InputsOf(proofs, s) /\ Binding(y) \in InputsOf(proofs, t)
        BY DEF InputsOf, StatementOf, Statement
      <3>2. c.public_inputs = UNION {InputsOf(proofs, u) : u \in Shards}
        BY <2>1 DEF WholeClaim, TrueClaim, PublicTrue
      <3>3. Binding(x) \in c.public_inputs /\ Binding(y) \in c.public_inputs
        BY <3>1, <3>2
      <3>4. Binding(x).descriptor.register = x.register /\ Binding(y).descriptor.register = y.register
        BY DEF Binding, Descriptor
      <3>5. Binding(x) = Binding(y)
        BY <2>1, <3>3, <3>4 DEF WholeClaim, TrueClaim, PublicTrue
      <3>6. Binding(x).commitment = x.commitment /\ Binding(y).commitment = y.commitment
        BY DEF Binding
      <3> QED
        BY <3>5, <3>6
    <2>4. PublicIsComplete
      <3>1. c.public_outputs = UNION {OutputsOf(proofs, s) : s \in Shards}
        BY <2>1 DEF WholeClaim, TrueClaim, PublicTrue
      <3>2. ASSUME NEW s \in Shards
            PROVE  {b.descriptor : b \in OutputsOf(proofs, s)} = Range(Expected[s].outputs)
        <4> DEFINE l == PublicOf(StatementOf(proofs, s).outputs, "output")
        <4>1. Admitted(proofs, s)
          BY <2>1 DEF WholeClaim, TrueClaim, CoverTrue
        <4>2. [k \in DOMAIN l |-> Descriptor(l[k])] = Expected[s].outputs
          BY <4>1, CheckedLeaf DEF Admitted, descriptors_match, StatementOf
        <4>3. {b.descriptor : b \in OutputsOf(proofs, s)} = {Descriptor(x) : x \in Range(l)}
          <5>1. \A x : Binding(x).descriptor = Descriptor(x)
            BY DEF Binding
          <5> QED
            BY <5>1 DEF OutputsOf
        <4> HIDE DEF l
        <4>4. Range(Expected[s].outputs) = {Descriptor(l[k]) : k \in DOMAIN l}
          BY <4>2 DEF Range
        <4> QED
          BY <4>3, <4>4 DEF Range
      <3>3. {b.descriptor : b \in c.public_outputs} = UNION {{b.descriptor : b \in OutputsOf(proofs, s)} : s \in Shards}
        BY <3>1
      <3>4. UNION {{b.descriptor : b \in OutputsOf(proofs, s)} : s \in Shards} = UNION {Range(Expected[s].outputs) : s \in Shards}
        BY <3>2
      <3>5. \A m \in manifest : m.public_outputs = c.public_outputs
        BY <2>1 DEF Manifest
      <3> QED
        BY <3>3, <3>4, <3>5 DEF PublicIsComplete
    <2> QED
      BY <2>2, <2>3, <2>4
  <1> QED
    BY <1>1, <1>2

\* Proofs get a manifest only if, for every edge of the DAG, producer and
\* consumer commit to one value; if all the readers of a graph input read one
\* value; and the manifest has exactly the declared public outputs.
THEOREM ManifestIsTruthful == AggregationSpec => [](EdgesAgree /\ InputsAgree /\ PublicIsComplete)
  BY ManifestFacts, AggregationInvariant, PTL

-----------------------------------------------------------------------------
(* Numbers, and the groups a list is cut into *)

\* A set that has 0 and with every number its successor has all numbers.
LEMMA NumbersInSet ==
    ASSUME NEW S, 0 \in S, \A n \in Nat : n \in S => n + 1 \in S
    PROVE  Nat \subseteq S
  <1> DEFINE T == Nat \ S
  <1> SUFFICES ASSUME T # {} PROVE FALSE
    OBVIOUS
  <1>1. \E x \in T : \A y \in T : ~(<<y, x>> \in OpToRel(<, Nat))
    BY NatLessThanWellFounded, WFMin
  <1>2. PICK x \in T : \A y \in T : ~(<<y, x>> \in OpToRel(<, Nat))
    BY <1>1
  <1>3. \A y \in Nat : y < x => <<y, x>> \in OpToRel(<, Nat)
    BY DEF OpToRel
  <1>4. \A y \in T : ~(y < x)
    BY <1>2, <1>3
  <1>5. x \in Nat /\ x # 0
    OBVIOUS
  <1>6. x - 1 \in Nat /\ x - 1 < x /\ (x - 1) + 1 = x
    BY <1>5
  <1>7. x - 1 \in S
    BY <1>4, <1>6
  <1> QED
    BY <1>6, <1>7


\* Division by a positive number.
LEMMA Division ==
    ASSUME NEW x \in Nat, NEW f \in Nat, f > 0
    PROVE  x \div f \in Nat /\ (x \div f) * f <= x /\ x < (x \div f) * f + f
  OBVIOUS

\* Multiples grow.
LEMMA Multiples ==
    ASSUME NEW i \in Nat, NEW k \in Nat, NEW f \in Nat, i < k
    PROVE  i * f + f <= k * f /\ i * f \in Nat /\ k * f \in Nat
  OBVIOUS

\* The smaller of two numbers.
LEMMA MinOfTwo ==
    ASSUME NEW a \in Nat, NEW b \in Nat
    PROVE  Min({a, b}) = IF a <= b THEN a ELSE b
  <1> DEFINE S == {a, b}
  <1>1. \E x \in S : \A y \in S : x =< y
    OBVIOUS
  <1>2. Min(S) \in S /\ \A y \in S : Min(S) =< y
    BY <1>1 DEF Min
  <1> QED
    BY <1>2

\* The place of the p-th element of the i-th group of f.
PlaceIn(f, i, p) == (i - 1) * f + p

\* Two places in groups of f are the same place only in the same group.
LEMMA PlacesDiffer ==
    ASSUME NEW f \in Nat, NEW i \in Nat, NEW k \in Nat, i >= 1, k >= 1, NEW p \in 1..f, NEW q \in 1..f,
           PlaceIn(f, i, p) = PlaceIn(f, k, q)
    PROVE  i = k /\ p = q
  <1> USE DEF PlaceIn
  <1>1. CASE i < k
    <2>1. i - 1 \in Nat /\ k - 1 \in Nat /\ i - 1 < k - 1
      BY <1>1
    <2>2. (i - 1) * f + f <= (k - 1) * f /\ (i - 1) * f \in Nat /\ (k - 1) * f \in Nat
      BY <2>1, Multiples
    <2> QED
      BY <2>2
  <1>2. CASE k < i
    <2>1. i - 1 \in Nat /\ k - 1 \in Nat /\ k - 1 < i - 1
      BY <1>2
    <2>2. (k - 1) * f + f <= (i - 1) * f /\ (i - 1) * f \in Nat /\ (k - 1) * f \in Nat
      BY <2>1, Multiples
    <2> QED
      BY <2>2
  <1>3. CASE i = k
    <2>1. i - 1 \in Nat
      OBVIOUS
    <2>2. (i - 1) * f \in Nat
      BY <2>1
    <2> QED
      BY <1>3, <2>2
  <1> QED
    BY <1>1, <1>2, <1>3

\* The number of groups of f that n elements make.
LEMMA ChunkNumber ==
    ASSUME NEW n \in Nat, NEW f \in Nat, f >= 2, n >= 1, NEW c, c = (n + f - 1) \div f
    PROVE  /\ c \in Nat /\ c >= 1 /\ (c - 1) * f < n /\ n <= c * f /\ (c - 1) * f \in Nat /\ c * f \in Nat
           /\ n > 1 => c < n
           /\ \A i \in 1..(c - 1) : i * f < n /\ i * f \in Nat /\ i * f = (i - 1) * f + f
  <1>1. c \in Nat /\ c * f <= n + f - 1 /\ n + f - 1 < c * f + f
    <2>1. n + f - 1 \in Nat /\ f > 0
      OBVIOUS
    <2> QED
      BY <2>1, Division
  <1>2. c >= 1
    <2>1. ASSUME c = 0 PROVE FALSE
      BY <1>1, <2>1
    <2> QED
      BY <1>1, <2>1
  <1>3. c - 1 \in Nat /\ c - 1 < c
    BY <1>1, <1>2
  <1>4. c * f = (c - 1) * f + f /\ (c - 1) * f \in Nat /\ c * f \in Nat
    BY <1>1, <1>3
  <1>5. (c - 1) * f < n /\ n <= c * f
    BY <1>1, <1>4
  <1>6. n > 1 => c < n
    <2>1. 2 * (c - 1) <= (c - 1) * f
      BY <1>3
    <2>2. 2 * (c - 1) <= n - 1
      BY <1>3, <1>4, <1>5, <2>1
    <2> QED
      BY <1>1, <2>2
  <1>7. ASSUME NEW i \in 1..(c - 1) PROVE i * f < n /\ i * f \in Nat /\ i * f = (i - 1) * f + f
    <2>1. i \in Nat /\ i <= c - 1 /\ i - 1 \in Nat
      BY <1>1
    <2>2. i * f \in Nat /\ i * f = (i - 1) * f + f
      BY <2>1
    <2>3. i * f <= (c - 1) * f
      <3>1. CASE i = c - 1
        BY <3>1, <2>2
      <3>2. CASE i < c - 1
        <4>1. i * f + f <= (c - 1) * f
          BY <1>3, <2>1, <3>2, Multiples
        <4> QED
          BY <1>4, <2>2, <4>1
      <3> QED
        BY <1>1, <2>1, <3>1, <3>2
    <2> QED
      BY <1>4, <1>5, <2>2, <2>3
  <1> QED
    BY <1>1, <1>2, <1>4, <1>5, <1>6, <1>7

\* chunks: a list in groups of f; all are full but perhaps the last.
LEMMA ChunkFacts ==
    ASSUME NEW S, NEW s \in Seq(S), NEW f \in Nat, f >= 2, Len(s) >= 1
    PROVE  /\ ChunkCount(s, f) \in Nat /\ ChunkCount(s, f) >= 1
           /\ Len(s) > 1 => ChunkCount(s, f) < Len(s)
           /\ \A i \in 1..ChunkCount(s, f) :
                /\ Chunk(s, f, i) \in Seq(S)
                /\ Len(Chunk(s, f, i)) \in 1..f
                /\ i < ChunkCount(s, f) => Len(Chunk(s, f, i)) = f
                /\ \A p \in 1..Len(Chunk(s, f, i)) :
                    PlaceIn(f, i, p) \in 1..Len(s) /\ Chunk(s, f, i)[p] = s[PlaceIn(f, i, p)]
           /\ \A x \in 1..Len(s) : \E i \in 1..ChunkCount(s, f) : \E p \in 1..Len(Chunk(s, f, i)) : PlaceIn(f, i, p) = x
  <1> DEFINE n == Len(s)
             c == ChunkCount(s, f)
  <1>1. n \in Nat /\ n >= 1 /\ c = (n + f - 1) \div f
    BY DEF ChunkCount
  <1> HIDE DEF n, c
  <1>2. /\ c \in Nat /\ c >= 1 /\ (c - 1) * f < n /\ n <= c * f /\ (c - 1) * f \in Nat /\ c * f \in Nat
        /\ n > 1 => c < n
        /\ \A i \in 1..(c - 1) : i * f < n /\ i * f \in Nat /\ i * f = (i - 1) * f + f
    BY <1>1, ChunkNumber
  <1>3. ASSUME NEW i \in 1..c
        PROVE  LET end == IF i < c THEN i * f ELSE n
               IN  /\ Chunk(s, f, i) = SubSeq(s, (i - 1) * f + 1, end)
                   /\ (i - 1) * f \in Nat /\ end \in (i - 1) * f + 1..n /\ end - (i - 1) * f \in 1..f
                   /\ i < c => end - (i - 1) * f = f
    <2> DEFINE end == IF i < c THEN i * f ELSE n
    <2>1. i \in Nat /\ i * f \in Nat
      BY <1>2
    <2>2. Min({i * f, n}) = end
      <3>1. CASE i < c
        <4>1. i \in 1..(c - 1)
          BY <1>2, <3>1
        <4> QED
          BY <1>1, <1>2, <2>1, <3>1, <4>1, MinOfTwo
      <3>2. CASE ~(i < c)
        <4>1. i = c
          BY <1>2, <3>2
        <4> QED
          BY <1>1, <1>2, <2>1, <4>1, MinOfTwo
      <3> QED
        BY <3>1, <3>2
    <2>3. Chunk(s, f, i) = SubSeq(s, (i - 1) * f + 1, end)
      BY <2>2 DEF Chunk, n
    <2>4. CASE i < c
      <3>1. i \in 1..(c - 1)
        BY <1>2, <2>4
      <3>2. i * f < n /\ i * f = (i - 1) * f + f
        BY <1>2, <3>1
      <3>3. (i - 1) * f \in Nat
        <4>1. i - 1 \in Nat
          BY <2>1
        <4> QED
          BY <4>1
      <3> QED
        BY <1>1, <2>1, <2>3, <2>4, <3>2, <3>3
    <2>5. CASE ~(i < c)
      <3>1. i = c /\ end = n
        BY <1>2, <2>5
      <3>2. c * f = (c - 1) * f + f
        BY <1>2
      <3>3. n - (c - 1) * f \in 1..f /\ n \in (c - 1) * f + 1..n
        BY <1>1, <1>2, <3>2
      <3> HIDE DEF end
      <3> QED
        BY <1>2, <2>3, <2>5, <3>1, <3>3
    <2> QED
      BY <2>4, <2>5
  <1>4. ASSUME NEW i \in 1..c
        PROVE  /\ Chunk(s, f, i) \in Seq(S)
               /\ Len(Chunk(s, f, i)) \in 1..f
               /\ i < c => Len(Chunk(s, f, i)) = f
               /\ ~(i < c) => Len(Chunk(s, f, i)) = n - (i - 1) * f
               /\ \A p \in 1..Len(Chunk(s, f, i)) :
                    (i - 1) * f + p \in 1..n /\ Chunk(s, f, i)[p] = s[(i - 1) * f + p]
    <2> DEFINE end == IF i < c THEN i * f ELSE n
               a == (i - 1) * f
    <2>1. /\ Chunk(s, f, i) = SubSeq(s, a + 1, end)
          /\ a \in Nat /\ end \in a + 1..n /\ end - a \in 1..f
          /\ i < c => end - a = f
          /\ ~(i < c) => end = n
      BY <1>3
    <2> HIDE DEF end, a
    <2>2. SubSeq(s, a + 1, end) \in Seq(S) /\ Len(SubSeq(s, a + 1, end)) = end - a
      BY <1>1, <2>1 DEF n
    <2>3. ASSUME NEW p \in 1..(end - a) PROVE a + p \in 1..n /\ SubSeq(s, a + 1, end)[p] = s[a + p]
      <3>1. a + p \in 1..n
        BY <1>1, <2>1
      <3>2. SubSeq(s, a + 1, end)[p] = s[(a + 1) + p - 1] /\ (a + 1) + p - 1 = a + p
        BY <1>1, <2>1 DEF n
      <3> QED
        BY <3>1, <3>2
    <2> QED
      BY <2>1, <2>2, <2>3 DEF a
  <1>5. ASSUME NEW x \in 1..n
        PROVE  \E i \in 1..c : \E p \in 1..Len(Chunk(s, f, i)) : (i - 1) * f + p = x
    <2> DEFINE q == (x - 1) \div f
               p == x - q * f
    <2>1. x \in Nat /\ x - 1 \in Nat /\ f > 0
      BY <1>1
    <2>2. q \in Nat /\ q * f <= x - 1 /\ x - 1 < q * f + f /\ q * f \in Nat
      BY <2>1, Division
    <2> HIDE DEF q
    <2>3. p \in 1..f /\ q * f + p = x
      BY <2>1, <2>2
    <2>4. q + 1 \in 1..c
      <3>1. ASSUME q >= c PROVE FALSE
        <4>1. c * f <= q * f
          <5>1. CASE c = q
            BY <1>2, <2>2, <5>1
          <5>2. CASE c < q
            <6>1. c * f + f <= q * f
              BY <1>2, <2>2, <5>2, Multiples
            <6> QED
              BY <1>2, <2>2, <6>1
          <5> QED
            BY <1>2, <2>2, <3>1, <5>1, <5>2
        <4> QED
          BY <1>1, <1>2, <2>1, <2>2, <4>1
      <3> QED
        BY <1>2, <2>2, <3>1
    <2>5. p \in 1..Len(Chunk(s, f, q + 1))
      <3>1. (q + 1) - 1 = q
        BY <2>2
      <3>2. CASE q + 1 < c
        BY <1>4, <2>3, <2>4, <3>2
      <3>3. CASE ~(q + 1 < c)
        <4>1. Len(Chunk(s, f, q + 1)) = n - q * f
          BY <1>4, <2>4, <3>1, <3>3
        <4> QED
          BY <1>1, <2>1, <2>2, <2>3, <4>1
      <3> QED
        BY <3>2, <3>3
    <2>6. ((q + 1) - 1) * f + p = x
      <3>1. (q + 1) - 1 = q
        BY <2>2
      <3> QED
        BY <2>3, <3>1
    <2> QED
      BY <2>4, <2>5, <2>6
  <1> QED
    BY <1>1, <1>2, <1>4, <1>5 DEF n, c, PlaceIn

\* The groups of more than one: all of them but perhaps the last.
LEMMA GroupFacts ==
    ASSUME NEW S, NEW s \in Seq(S), NEW f \in Nat, f >= 2, Len(s) > 1
    PROVE  \E m \in Nat :
             /\ m >= 1 /\ m <= ChunkCount(s, f) /\ ChunkCount(s, f) <= m + 1
             /\ ChunkCount(s, f) \in Nat /\ ChunkCount(s, f) < Len(s)
             /\ {i \in 1..ChunkCount(s, f) : Len(Chunk(s, f, i)) > 1} = 1..m
             /\ \A n \in 1..m : Len(Chunk(s, f, n)) \in 2..f
             /\ ChunkCount(s, f) # m => Len(Chunk(s, f, m + 1)) = 1
  <1> DEFINE c == ChunkCount(s, f)
             size(i) == Len(Chunk(s, f, i))
             m == IF size(c) = 1 THEN c - 1 ELSE c
  <1>1. Len(s) \in Nat /\ Len(s) >= 1
    OBVIOUS
  <1>2. c \in Nat /\ c >= 1 /\ c < Len(s)
    BY <1>1, ChunkFacts
  <1>3. \A i \in 1..c : size(i) \in 1..f /\ (i < c => size(i) = f)
    BY <1>1, ChunkFacts
  <1>4. \A x \in 1..Len(s) : \E i \in 1..c : \E p \in 1..size(i) : PlaceIn(f, i, p) = x
    BY <1>1, ChunkFacts
  <1> HIDE DEF c, size
  <1>5. m \in Nat /\ m >= 1 /\ m <= c /\ c <= m + 1
    <2>1. ASSUME c = 1, size(c) = 1 PROVE FALSE
      <3>1. 2 \in 1..Len(s)
        BY <1>1
      <3>2. PICK i \in 1..c : \E p \in 1..size(i) : PlaceIn(f, i, p) = 2
        BY <1>4, <3>1
      <3>3. i \in 1..1
        BY <2>1
      <3>4. i = 1
        BY <3>3
      <3>5. PICK p \in 1..1 : PlaceIn(f, 1, p) = 2
        BY <2>1, <3>2, <3>4
      <3>6. p = 1 /\ (1 - 1) * f = 0
        BY <3>5
      <3> QED
        BY <3>5, <3>6 DEF PlaceIn
    <2> QED
      BY <1>2, <2>1
  <1>6. ASSUME NEW i \in 1..c PROVE size(i) > 1 <=> i \in 1..m
    <2>0. \A l \in 1..f : l # 1 => l > 1
      OBVIOUS
    <2>1. CASE i < c
      <3>1. size(i) = f /\ i \in 1..m
        BY <1>2, <1>3, <2>1
      <3> QED
        BY <3>1
    <2>2. CASE ~(i < c)
      <3>1. i = c
        BY <1>2, <2>2
      <3>2. CASE size(c) = 1
        BY <1>2, <3>1, <3>2
      <3>3. CASE size(c) # 1
        <4>1. size(c) > 1 /\ m = c
          BY <1>3, <2>0, <3>1, <3>3
        <4> QED
          BY <1>2, <3>1, <4>1
      <3> QED
        BY <3>2, <3>3
    <2> QED
      BY <2>1, <2>2
  <1>7. c # m => size(m + 1) = 1
    BY <1>2
  <1> HIDE DEF m
  <1>8. 1..m \subseteq 1..c
    BY <1>2, <1>5
  <1>9. {i \in 1..c : size(i) > 1} = 1..m
    BY <1>6, <1>8
  <1>10. \A n \in 1..m : size(n) \in 2..f
    BY <1>3, <1>6, <1>8
  <1> QED
    BY <1>2, <1>5, <1>7, <1>9, <1>10 DEF c, size

\* A level in groups: m nodes over the first chunks; a last chunk of one moves up.
GroupNode(m, n) == [id |-> Node(Len(levels), n - 1), children |-> Chunk(current, fan_in, n)]
MovesUp(m, i) == IF i <= m THEN Node(Len(levels), i - 1) ELSE Chunk(current, fan_in, i)[1]

\* What one turn of plan_aggregation's loop makes of the nodes without parent; it
\* has at least one group, and fewer nodes without parent are left.
LEMMA LevelFacts ==
    ASSUME NEW S, current \in Seq(S), fan_in \in Nat, fan_in >= 2, plan_level
    PROVE  \E m \in Nat :
             /\ m >= 1 /\ m <= ChunkCount(current, fan_in) /\ ChunkCount(current, fan_in) <= m + 1
             /\ ChunkCount(current, fan_in) < Len(current)
             /\ \A n \in 1..m : Len(Chunk(current, fan_in, n)) \in 2..fan_in
             /\ ChunkCount(current, fan_in) # m => Len(Chunk(current, fan_in, m + 1)) = 1
             /\ levels' = Append(levels, [n \in 1..m |-> GroupNode(m, n)])
             /\ current' = [i \in 1..ChunkCount(current, fan_in) |-> MovesUp(m, i)]
  <1> DEFINE c == ChunkCount(current, fan_in)
             chunk(i) == Chunk(current, fan_in, i)
             chunks == [i \in 1..c |-> chunk(i)]
             grouped == {i \in DOMAIN chunks : Len(chunks[i]) > 1}
             index(i) == Cardinality({k \in grouped : k < i})
             id(i) == IF i \in grouped THEN Node(Len(levels), index(i)) ELSE chunks[i][1]
             group(n) == CHOOSE i \in grouped : index(i) = n
             level == [n \in 1..Cardinality(grouped) |-> [id |-> id(group(n - 1)), children |-> chunks[group(n - 1)]]]
  <1>1. /\ Len(current) > 1 /\ levels' = Append(levels, level)
        /\ current' = [i \in DOMAIN chunks |-> id(i)]
    BY DEF plan_level
  <1> DEFINE size(i) == Len(chunk(i))
  <1>2. PICK m \in Nat :
             /\ m >= 1 /\ m <= c /\ c <= m + 1 /\ c \in Nat /\ c < Len(current)
             /\ {i \in 1..c : size(i) > 1} = 1..m
             /\ \A n \in 1..m : size(n) \in 2..fan_in
             /\ c # m => size(m + 1) = 1
    BY <1>1, GroupFacts
  <1>3. 1..m \subseteq 1..c
    BY <1>2
  <1> HIDE DEF c, chunk
  <1>4. grouped = 1..m /\ DOMAIN chunks = 1..c /\ \A i \in 1..c : chunks[i] = chunk(i)
    <2>1. DOMAIN chunks = 1..c /\ \A i \in 1..c : chunks[i] = chunk(i)
      OBVIOUS
    <2>2. grouped = {i \in 1..c : size(i) > 1}
      BY <2>1
    <2> QED
      BY <1>2, <2>1, <2>2
  <1> HIDE DEF chunks, grouped
  <1>5. \A i \in 1..m : index(i) = i - 1
    <2> SUFFICES ASSUME NEW i \in 1..m PROVE Cardinality({k \in grouped : k < i}) = i - 1
      OBVIOUS
    <2>1. {k \in grouped : k < i} = 1..(i - 1) /\ i - 1 \in Nat
      BY <1>3, <1>4
    <2>2. Cardinality(1..(i - 1)) = i - 1
      BY <2>1, FS_Interval
    <2> QED
      BY <2>1, <2>2
  <1>6. Cardinality(grouped) = m
    BY <1>3, <1>4, FS_Interval
  <1> HIDE DEF index
  <1>7. ASSUME NEW n \in 1..m PROVE group(n - 1) = n
    <2>1. n \in grouped /\ index(n) = n - 1
      BY <1>4, <1>5
    <2>2. group(n - 1) \in grouped /\ index(group(n - 1)) = n - 1
      BY <2>1
    <2> HIDE DEF group
    <2> QED
      BY <1>3, <1>4, <1>5, <2>2
  <1>8. ASSUME NEW i \in 1..c PROVE id(i) = MovesUp(m, i)
    <2>1. CASE i \in 1..m
      BY <1>3, <1>4, <1>5, <2>1 DEF MovesUp
    <2>2. CASE i \notin 1..m
      <3>1. ~(i <= m)
        BY <1>2, <1>3, <2>2
      <3> QED
        BY <1>4, <2>2, <3>1 DEF MovesUp, chunk
    <2> QED
      BY <2>1, <2>2
  <1>9. ASSUME NEW n \in 1..m PROVE [id |-> id(group(n - 1)), children |-> chunks[group(n - 1)]] = GroupNode(m, n)
    <2>1. n \in 1..c /\ n <= m
      BY <1>2, <1>3
    <2>2. id(n) = Node(Len(levels), n - 1)
      BY <1>8, <2>1 DEF MovesUp
    <2> HIDE DEF id, group
    <2> QED
      BY <1>4, <1>7, <2>1, <2>2 DEF GroupNode, chunk
  <1>10. level = [n \in 1..m |-> GroupNode(m, n)]
    <2> DEFINE entry(n) == [id |-> id(group(n - 1)), children |-> chunks[group(n - 1)]]
    <2>1. level = [n \in 1..m |-> entry(n)]
      BY <1>6
    <2>2. \A n \in 1..m : entry(n) = GroupNode(m, n)
      BY <1>9
    <2> HIDE DEF entry, level
    <2> QED
      BY <2>1, <2>2
  <1>11. current' = [i \in 1..c |-> MovesUp(m, i)]
    <2> HIDE DEF id
    <2> QED
      BY <1>1, <1>4, <1>8
  <1> HIDE DEF level
  <1> QED
    BY <1>2, <1>1, <1>10, <1>11 DEF c, chunk

\* FlattenSeq puts one list after the other.
LEMMA FlattenValue ==
    ASSUME NEW seqs, NEW n \in Nat, Len(seqs) = n, n # 0, seqs # <<>>
    PROVE  \E f : /\ FlattenSeq(seqs) = f[n]
                  /\ \A i \in 1..n : f[i] = IF i = 1 THEN seqs[i] ELSE f[i - 1] \o seqs[i]
  <1> DEFINE fixed(f, m) == f = [i \in 1..m |-> IF i = 1 THEN seqs[i] ELSE f[i - 1] \o seqs[i]]
             good == {m \in Nat : \E f : fixed(f, m)}
             flatten == CHOOSE f : fixed(f, Len(seqs))
  <1>1. FlattenSeq(seqs) = flatten[Len(seqs)]
    BY Zenon DEF FlattenSeq
  <1>2. 0 \in good
    <2> DEFINE f == [i \in 1..0 |-> 0]
    <2>1. fixed(f, 0)
      OBVIOUS
    <2> QED
      BY <2>1
  <1>3. ASSUME NEW m \in Nat, m \in good PROVE m + 1 \in good
    <2>1. PICK f : f = [i \in 1..m |-> IF i = 1 THEN seqs[i] ELSE f[i - 1] \o seqs[i]]
      BY <1>3
    <2> DEFINE last == IF m + 1 = 1 THEN seqs[m + 1] ELSE f[m] \o seqs[m + 1]
               g == [i \in 1..(m + 1) |-> IF i = m + 1 THEN last ELSE f[i]]
               h == [i \in 1..(m + 1) |-> IF i = 1 THEN seqs[i] ELSE g[i - 1] \o seqs[i]]
    <2>2. \A i \in 1..m : i # 1 => i - 1 \in 1..m /\ g[i - 1] = f[i - 1]
      OBVIOUS
    <2>3. m # 0 => m \in 1..m /\ g[m] = f[m]
      OBVIOUS
    <2>4. ASSUME NEW i \in 1..(m + 1) PROVE g[i] = h[i]
      <3>1. CASE i = m + 1
        <4>1. h[i] = IF i = 1 THEN seqs[i] ELSE g[i - 1] \o seqs[i]
          OBVIOUS
        <4>2. g[i] = last
          BY <3>1
        <4>3. (m + 1) - 1 = m /\ (m + 1 # 1 => m # 0)
          OBVIOUS
        <4> HIDE DEF g, h
        <4> QED
          BY <2>3, <3>1, <4>1, <4>2, <4>3
      <3>2. CASE i # m + 1
        <4>1. i \in 1..m /\ g[i] = f[i]
          BY <3>2
        <4>2. f[i] = IF i = 1 THEN seqs[i] ELSE f[i - 1] \o seqs[i]
          BY <2>1, <4>1
        <4>3. h[i] = IF i = 1 THEN seqs[i] ELSE g[i - 1] \o seqs[i]
          OBVIOUS
        <4> HIDE DEF g, h
        <4> QED
          BY <2>2, <4>1, <4>2, <4>3
      <3> QED
        BY <3>1, <3>2
    <2>5. g = h
      <3>1. DOMAIN g = 1..(m + 1) /\ DOMAIN h = 1..(m + 1) /\ g = [i \in 1..(m + 1) |-> g[i]] /\ h = [i \in 1..(m + 1) |-> h[i]]
        OBVIOUS
      <3> HIDE DEF g, h
      <3> QED
        BY <2>4, <3>1
    <2>6. fixed(g, m + 1)
      <3> HIDE DEF g
      <3> QED
        BY <2>5
    <2> HIDE DEF g, fixed
    <2> QED
      BY <2>6
  <1> HIDE DEF good
  <1>4. Len(seqs) \in good
    BY <1>2, <1>3, NumbersInSet
  <1>5. \E f : fixed(f, Len(seqs))
    BY <1>4 DEF good
  <1>6. fixed(flatten, Len(seqs))
    <2> HIDE DEF fixed
    <2> QED
      BY <1>5
  <1>7. \A i \in 1..Len(seqs) : flatten[i] = IF i = 1 THEN seqs[i] ELSE flatten[i - 1] \o seqs[i]
    <2> HIDE DEF flatten
    <2> QED
      BY <1>6
  <1> HIDE DEF flatten
  <1> QED
    BY <1>1, <1>7

\* One more list.
LEMMA FlattenAppend ==
    ASSUME NEW T, NEW seqs \in Seq(Seq(T)), NEW l \in Seq(T)
    PROVE  FlattenSeq(Append(seqs, l)) = FlattenSeq(seqs) \o l
  <1> DEFINE n == Len(seqs)
             more == Append(seqs, l)
  <1>1. n \in Nat /\ Len(more) = n + 1 /\ more # <<>> /\ more[n + 1] = l /\ \A i \in 1..n : more[i] = seqs[i]
    <2>1. n \in Nat /\ Len(more) = n + 1 /\ more[n + 1] = l
      OBVIOUS
    <2>2. \A i \in 1..n : more[i] = seqs[i]
      OBVIOUS
    <2>3. more # <<>>
      <3>1. Len(<<>>) = 0 /\ n + 1 # 0
        BY <2>1
      <3> HIDE DEF more
      <3> QED
        BY <2>1, <3>1
    <2> QED
      BY <2>1, <2>2, <2>3
  <1> HIDE DEF more
  <1>2. PICK g : /\ FlattenSeq(more) = g[n + 1]
                 /\ \A i \in 1..(n + 1) : g[i] = IF i = 1 THEN more[i] ELSE g[i - 1] \o more[i]
    <2>1. n + 1 \in Nat /\ n + 1 # 0
      BY <1>1
    <2> QED
      BY <1>1, <2>1, FlattenValue
  <1>3. CASE n = 0
    <2>1. seqs = <<>> /\ FlattenSeq(seqs) = <<>>
      BY <1>3 DEF FlattenSeq
    <2>2. 1 \in 1..(n + 1) /\ g[1] = l
      BY <1>1, <1>2, <1>3
    <2>3. <<>> \o l = l
      OBVIOUS
    <2> QED
      BY <1>2, <1>3, <2>1, <2>2, <2>3 DEF more
  <1>4. CASE n # 0
    <2>1. seqs # <<>>
      BY <1>4
    <2>2. PICK f : /\ FlattenSeq(seqs) = f[n]
                   /\ \A i \in 1..n : f[i] = IF i = 1 THEN seqs[i] ELSE f[i - 1] \o seqs[i]
      BY <1>1, <1>4, <2>1, FlattenValue
    <2> DEFINE same == {m \in Nat : m + 1 \in 1..n => f[m + 1] = g[m + 1]}
    <2>3. 0 \in same
      <3>1. 0 + 1 = 1 /\ 1 \in 1..n /\ 1 \in 1..(n + 1)
        BY <1>1, <1>4
      <3> QED
        BY <1>1, <1>2, <2>2, <3>1
    <2>4. ASSUME NEW m \in Nat, m \in same PROVE m + 1 \in same
      <3> SUFFICES ASSUME m + 1 + 1 \in 1..n PROVE f[m + 1 + 1] = g[m + 1 + 1]
        OBVIOUS
      <3>1. m + 1 \in 1..n /\ m + 1 + 1 \in 1..(n + 1) /\ m + 1 + 1 # 1 /\ (m + 1 + 1) - 1 = m + 1
        BY <1>1
      <3>2. f[m + 1] = g[m + 1]
        BY <2>4, <3>1
      <3>3. f[m + 1 + 1] = f[m + 1] \o seqs[m + 1 + 1]
        BY <2>2, <3>1
      <3>4. g[m + 1 + 1] = g[m + 1] \o more[m + 1 + 1]
        BY <1>2, <3>1
      <3> QED
        BY <1>1, <3>2, <3>3, <3>4
    <2> HIDE DEF same
    <2>5. n - 1 \in same
      <3>1. n - 1 \in Nat
        BY <1>1, <1>4
      <3> QED
        BY <2>3, <2>4, <3>1, NumbersInSet
    <2>6. f[n] = g[n]
      <3>1. (n - 1) + 1 = n /\ n \in 1..n
        BY <1>1, <1>4
      <3> QED
        BY <2>5, <3>1 DEF same
    <2>7. g[n + 1] = g[n] \o l
      <3>1. n + 1 \in 1..(n + 1) /\ n + 1 # 1 /\ (n + 1) - 1 = n
        BY <1>1, <1>4
      <3> QED
        BY <1>1, <1>2, <3>1
    <2> QED
      BY <1>2, <2>2, <2>6, <2>7 DEF more
  <1> QED
    BY <1>3, <1>4

-----------------------------------------------------------------------------
(* The plan is a tree while it grows *)

\* The names of leaves and nodes, and the nodes of a plan.
Ids == {Leaf(s) : s \in Nat} \cup {Node(l, i) : l \in Nat, i \in Nat}
PlanNode == [id : Ids, children : Seq(Ids)]

\* The nodes so far: each with an id of its level, over leaves and earlier nodes.
NodeShape(i) ==
    /\ Len(Nodes[i].children) \in 2..fan_in
    /\ \E l \in 0..(Len(levels) - 1), n \in Nat : Nodes[i].id = Node(l, n)
    /\ \A k \in DOMAIN Nodes : Nodes[k].id = Nodes[i].id => k = i
    /\ \A p \in DOMAIN Nodes[i].children :
        \/ \E s \in Shards : Nodes[i].children[p] = Leaf(s)
        \/ \E k \in 1..(i - 1) : Nodes[i].children[p] = Nodes[k].id
OneParent ==
    \A i, k \in DOMAIN Nodes : \A p \in DOMAIN Nodes[i].children, q \in DOMAIN Nodes[k].children :
        Nodes[i].children[p] = Nodes[k].children[q] => i = k /\ p = q
\* The nodes without parent, and those with one, are all.
Orphans ==
    /\ \A i, k \in DOMAIN current : current[i] = current[k] => i = k
    /\ \A i \in DOMAIN Nodes : \A p \in DOMAIN Nodes[i].children : \A x \in DOMAIN current :
        Nodes[i].children[p] # current[x]
    /\ \A x \in DOMAIN current : current[x] \in PlanIds
    /\ \A id \in PlanIds : \/ \E x \in DOMAIN current : id = current[x]
                           \/ \E i \in DOMAIN Nodes : \E p \in DOMAIN Nodes[i].children : id = Nodes[i].children[p]
Tree ==
    /\ leaf_count \in Nat /\ leaf_count >= 1 /\ fan_in \in Nat /\ fan_in >= 2
    /\ current \in Seq(Ids) /\ Len(current) >= 1
    /\ levels \in Seq(Seq(PlanNode)) /\ Nodes \in Seq(PlanNode)
    /\ \A i \in DOMAIN Nodes : NodeShape(i)
    /\ OneParent
    /\ Orphans

\* The ids tell leaves and nodes apart.
LEMMA IdFacts ==
    /\ \A s, t : Leaf(s) = Leaf(t) => s = t
    /\ \A s, l, i : Leaf(s) # Node(l, i)
    /\ \A l, i, k, j : Node(l, i) = Node(k, j) => l = k /\ i = j
    /\ \A s : Leaf(s)[1] = "leaf" /\ Leaf(s)[2] = s
    /\ \A l, i : Node(l, i)[1] = "node"
  BY DEF Leaf, Node

\* Being an id of the plan.
LEMMA PlanIdFacts ==
    ASSUME NEW T, Nodes \in Seq(T)
    PROVE  \A id : id \in PlanIds <=> (\E s \in Shards : id = Leaf(s)) \/ (\E i \in DOMAIN Nodes : id = Nodes[i].id)
  BY DEF PlanIds, Range

\* plan_aggregation begins with the leaves.
LEMMA TreeStarts ==
    ASSUME AggregationInit, outcome \notin {"InvalidFanIn", "InvalidPartition"}
    PROVE  Tree
  <1>1. /\ leaf_count \in Nat /\ current = [i \in 1..leaf_count |-> Leaf(i - 1)] /\ levels = <<>>
        /\ outcome = FirstStep(leaf_count, fan_in)
    BY RequestsAssumption DEF AggregationInit
  <1>2. leaf_count >= 1 /\ fan_in \in MinFanIn..MaxFanIn
    BY <1>1 DEF FirstStep
  <1>3. fan_in \in Nat /\ fan_in >= 2
    BY <1>2, LimitsAssumption
  <1>4. Nodes = <<>> /\ DOMAIN Nodes = {} /\ Nodes \in Seq(PlanNode) /\ levels \in Seq(Seq(PlanNode))
    BY <1>1 DEF Nodes, FlattenSeq
  <1>5. \A i \in 1..leaf_count : current[i] = Leaf(i - 1) /\ i - 1 \in Nat /\ i - 1 \in Shards /\ Leaf(i - 1) \in Ids
    BY <1>1 DEF Ids, Shards
  <1>6. current \in Seq(Ids) /\ Len(current) = leaf_count /\ DOMAIN current = 1..leaf_count
    <2>1. current \in [1..leaf_count -> Ids]
      BY <1>1, <1>5
    <2> QED
      BY <1>1, <2>1
  <1>7. \A id : id \in PlanIds <=> \E s \in Shards : id = Leaf(s)
    BY <1>4, PlanIdFacts
  <1>8. \A s \in Shards : s + 1 \in DOMAIN current /\ current[s + 1] = Leaf(s)
    <2> SUFFICES ASSUME NEW s \in Shards PROVE s + 1 \in DOMAIN current /\ current[s + 1] = Leaf(s)
      OBVIOUS
    <2>1. s \in Nat /\ s + 1 \in 1..leaf_count /\ (s + 1) - 1 = s
      BY <1>1 DEF Shards
    <2> QED
      BY <1>5, <1>6, <2>1
  <1>9. Orphans
    <2>1. \A i, k \in DOMAIN current : current[i] = current[k] => i = k
      <3> SUFFICES ASSUME NEW i \in 1..leaf_count, NEW k \in 1..leaf_count, current[i] = current[k] PROVE i = k
        BY <1>6
      <3>1. Leaf(i - 1) = Leaf(k - 1)
        BY <1>5
      <3>2. i - 1 = k - 1
        BY <3>1, IdFacts
      <3> QED
        BY <3>2
    <2> QED
      BY <1>4, <1>5, <1>6, <1>7, <1>8, <2>1 DEF Orphans
  <1> QED
    BY <1>1, <1>2, <1>3, <1>4, <1>6, <1>9 DEF Tree, OneParent

\* Where the elements of the groups come from: each place of the list is one place
\* of one group.
LEMMA GroupElements ==
    ASSUME NEW S, NEW s \in Seq(S), NEW f \in Nat, f >= 2, Len(s) >= 1,
           \A x, y \in DOMAIN s : s[x] = s[y] => x = y
    PROVE  /\ \A i \in 1..ChunkCount(s, f) : \A p \in 1..Len(Chunk(s, f, i)) : \E x \in DOMAIN s : Chunk(s, f, i)[p] = s[x]
           /\ \A x \in DOMAIN s : \E i \in 1..ChunkCount(s, f) : \E p \in 1..Len(Chunk(s, f, i)) : s[x] = Chunk(s, f, i)[p]
           /\ \A i, k \in 1..ChunkCount(s, f) : \A p \in 1..Len(Chunk(s, f, i)), q \in 1..Len(Chunk(s, f, k)) :
                Chunk(s, f, i)[p] = Chunk(s, f, k)[q] => i = k /\ p = q
  <1> DEFINE c == ChunkCount(s, f)
             chunk(i) == Chunk(s, f, i)
  <1>0. DOMAIN s = 1..Len(s) /\ c \in Nat
    <2>1. Len(s) \in Nat /\ DOMAIN s = 1..Len(s)
      OBVIOUS
    <2>2. c \in Nat
      BY <2>1, ChunkNumber DEF ChunkCount
    <2> QED
      BY <2>1, <2>2
  <1>1. \A i \in 1..c : Len(chunk(i)) \in 1..f
    BY ChunkFacts
  <1>2. \A i \in 1..c : \A p \in 1..Len(chunk(i)) : PlaceIn(f, i, p) \in 1..Len(s) /\ chunk(i)[p] = s[PlaceIn(f, i, p)]
    BY ChunkFacts
  <1>3. \A x \in 1..Len(s) : \E i \in 1..c : \E p \in 1..Len(chunk(i)) : PlaceIn(f, i, p) = x
    BY ChunkFacts
  <1> HIDE DEF c, chunk
  <1>4. ASSUME NEW i \in 1..c, NEW k \in 1..c, NEW p \in 1..Len(chunk(i)), NEW q \in 1..Len(chunk(k)),
               chunk(i)[p] = chunk(k)[q]
        PROVE  i = k /\ p = q
    <2>1. PlaceIn(f, i, p) = PlaceIn(f, k, q)
      BY <1>0, <1>2, <1>4
    <2>2. \A l \in 1..f : 1..l \subseteq 1..f
      OBVIOUS
    <2>3. p \in 1..f /\ q \in 1..f
      BY <1>1, <2>2
    <2>4. i \in Nat /\ k \in Nat /\ i >= 1 /\ k >= 1
      BY <1>0
    <2> QED
      BY <2>1, <2>3, <2>4, PlacesDiffer
  <1>5. \A i, k \in 1..c : \A p \in 1..Len(chunk(i)), q \in 1..Len(chunk(k)) : chunk(i)[p] = chunk(k)[q] => i = k /\ p = q
    BY <1>4
  <1>6. \A i \in 1..c : \A p \in 1..Len(chunk(i)) : \E x \in DOMAIN s : chunk(i)[p] = s[x]
    BY <1>0, <1>2
  <1>7. \A x \in DOMAIN s : \E i \in 1..c : \E p \in 1..Len(chunk(i)) : s[x] = chunk(i)[p]
    <2> SUFFICES ASSUME NEW x \in 1..Len(s) PROVE \E i \in 1..c : \E p \in 1..Len(chunk(i)) : s[x] = chunk(i)[p]
      BY <1>0
    <2>1. PICK i \in 1..c : \E p \in 1..Len(chunk(i)) : PlaceIn(f, i, p) = x
      BY <1>3
    <2>2. PICK p \in 1..Len(chunk(i)) : PlaceIn(f, i, p) = x
      BY <2>1
    <2>3. chunk(i)[p] = s[x]
      BY <1>2, <2>2
    <2> QED
      BY <2>3
  <1> QED
    BY <1>5, <1>6, <1>7, Zenon DEF c, chunk

\* plan_level: one more level of the tree.
LEMMA LevelKeepsTree ==
    ASSUME Tree, plan_level
    PROVE  Tree'
  <1>1. /\ leaf_count \in Nat /\ leaf_count >= 1 /\ fan_in \in Nat /\ fan_in >= 2
        /\ current \in Seq(Ids) /\ Len(current) >= 1
        /\ levels \in Seq(Seq(PlanNode)) /\ Nodes \in Seq(PlanNode)
    BY DEF Tree
  <1> DEFINE c == ChunkCount(current, fan_in)
             chunk(i) == Chunk(current, fan_in, i)
             fresh(i) == Node(Len(levels), i - 1)
  <1>2. PICK m \in Nat :
             /\ m >= 1 /\ m <= c /\ c <= m + 1 /\ c < Len(current)
             /\ \A n \in 1..m : Len(chunk(n)) \in 2..fan_in
             /\ c # m => Len(chunk(m + 1)) = 1
             /\ levels' = Append(levels, [n \in 1..m |-> GroupNode(m, n)])
             /\ current' = [i \in 1..c |-> MovesUp(m, i)]
    BY <1>1, LevelFacts
  <1>3. c \in Nat /\ \A i \in 1..c : chunk(i) \in Seq(Ids) /\ Len(chunk(i)) \in 1..fan_in
    BY <1>1, ChunkFacts
  <1>4. UNCHANGED <<leaf_count, fan_in>> /\ UNCHANGED Shards
    BY DEF plan_level, request, Shards
  <1> DEFINE level == [n \in 1..m |-> GroupNode(m, n)]
             N == Nodes
             M == Nodes'
             n0 == Len(N)
  <1>5. Len(levels) \in Nat /\ levels' = Append(levels, level) /\ Len(levels') = Len(levels) + 1
    BY <1>1, <1>2
  <1>6. \A n \in 1..m : /\ n \in 1..c /\ level[n].id = fresh(n) /\ level[n].children = chunk(n)
                        /\ fresh(n) \in Ids /\ level[n] \in PlanNode
    <2> SUFFICES ASSUME NEW n \in 1..m
                 PROVE  /\ n \in 1..c /\ level[n].id = fresh(n) /\ level[n].children = chunk(n)
                        /\ fresh(n) \in Ids /\ level[n] \in PlanNode
      OBVIOUS
    <2>1. n \in 1..c /\ n - 1 \in Nat
      BY <1>2, <1>3
    <2>2. fresh(n) \in Ids
      BY <1>5, <2>1 DEF Ids
    <2>3. chunk(n) \in Seq(Ids)
      BY <1>3, <2>1
    <2>4. level[n] = [id |-> fresh(n), children |-> chunk(n)]
      BY DEF GroupNode
    <2> HIDE DEF level, chunk, fresh
    <2> QED
      BY <2>1, <2>2, <2>3, <2>4 DEF PlanNode
  <1>7. level \in Seq(PlanNode) /\ Len(level) = m /\ DOMAIN level = 1..m
    <2>1. level \in [1..m -> PlanNode]
      BY <1>6
    <2> QED
      BY <1>2, <2>1
  <1>8. M = N \o level /\ levels' \in Seq(Seq(PlanNode))
    <2>1. FlattenSeq(Append(levels, level)) = FlattenSeq(levels) \o level
      BY <1>1, <1>7, FlattenAppend
    <2>2. M = FlattenSeq(levels')
      BY DEF Nodes
    <2> HIDE DEF level
    <2> QED
      BY <1>1, <1>5, <1>7, <2>1, <2>2 DEF Nodes
  <1>9. /\ n0 \in Nat /\ M \in Seq(PlanNode) /\ DOMAIN N = 1..n0 /\ DOMAIN M = 1..(n0 + m)
        /\ \A i \in 1..n0 : M[i] = N[i] /\ i \in DOMAIN M
        /\ \A j \in 1..m : M[n0 + j] = level[j] /\ n0 + j \in DOMAIN M
        /\ \A i \in DOMAIN M : i \in 1..n0 \/ \E j \in 1..m : i = n0 + j
    <2> HIDE DEF level
    <2>1. /\ N \o level \in Seq(PlanNode) /\ Len(N \o level) = n0 + m /\ n0 \in Nat /\ DOMAIN N = 1..n0
          /\ DOMAIN (N \o level) = 1..(n0 + m)
          /\ \A i \in 1..n0 : (N \o level)[i] = N[i]
          /\ \A j \in 1..m : (N \o level)[n0 + j] = level[j]
          /\ \A i \in 1..(n0 + m) : i \in 1..n0 \/ \E j \in 1..m : i = n0 + j
      <3> HIDE DEF N
      <3>1. /\ N \o level \in Seq(PlanNode) /\ Len(N \o level) = Len(N) + Len(level) /\ Len(N) \in Nat
            /\ DOMAIN N = 1..Len(N) /\ DOMAIN (N \o level) = 1..(Len(N) + Len(level))
            /\ \A i \in 1..Len(N) : (N \o level)[i] = N[i]
            /\ \A j \in 1..Len(level) : (N \o level)[Len(N) + j] = level[j]
            /\ \A i \in 1..(Len(N) + Len(level)) : i \in 1..Len(N) \/ \E j \in 1..Len(level) : i = Len(N) + j
        <4>1. N \in Seq(PlanNode)
          BY <1>1 DEF N
        <4>2. /\ N \o level \in Seq(PlanNode) /\ Len(N \o level) = Len(N) + Len(level) /\ Len(N) \in Nat
              /\ DOMAIN N = 1..Len(N) /\ DOMAIN (N \o level) = 1..(Len(N) + Len(level))
          BY <1>7, <4>1
        <4>3. \A i \in 1..Len(N) : (N \o level)[i] = N[i]
          BY <1>7, <4>1
        <4>4. \A j \in 1..Len(level) : (N \o level)[Len(N) + j] = level[j]
          BY <1>7, <4>1
        <4>5. ASSUME NEW i \in 1..(Len(N) + Len(level)), i \notin 1..Len(N) PROVE \E j \in 1..Len(level) : i = Len(N) + j
          <5>1. i - Len(N) \in 1..Len(level) /\ i = Len(N) + (i - Len(N))
            BY <1>7, <4>2, <4>5
          <5> QED
            BY <5>1
        <4> QED
          BY <4>2, <4>3, <4>4, <4>5
      <3> QED
        BY <1>7, <3>1
    <2> HIDE DEF N, n0, M
    <2>2. \A i \in 1..n0 : i \in 1..(n0 + m)
      BY <2>1
    <2>3. \A j \in 1..m : n0 + j \in 1..(n0 + m)
      BY <2>1
    <2> QED
      BY <1>8, <2>1, <2>2, <2>3
  <1> HIDE DEF M
  <1>10. \A j \in 1..m : M[n0 + j].id = fresh(j) /\ M[n0 + j].children = chunk(j) /\ DOMAIN chunk(j) = 1..Len(chunk(j))
    BY <1>3, <1>6, <1>9
  <1>11. /\ \A i \in 1..c : \A p \in 1..Len(chunk(i)) : \E x \in DOMAIN current : chunk(i)[p] = current[x]
         /\ \A x \in DOMAIN current : \E i \in 1..c : \E p \in 1..Len(chunk(i)) : current[x] = chunk(i)[p]
         /\ \A i, k \in 1..c : \A p \in 1..Len(chunk(i)), q \in 1..Len(chunk(k)) : chunk(i)[p] = chunk(k)[q] => i = k /\ p = q
    BY <1>1, GroupElements DEF Tree, Orphans
  <1>12. /\ DOMAIN current' = 1..c
         /\ \A i \in 1..m : i \in 1..c /\ current'[i] = fresh(i)
         /\ \A i \in 1..c : i \notin 1..m => i = m + 1 /\ Len(chunk(i)) = 1 /\ 1 \in 1..Len(chunk(i)) /\ current'[i] = chunk(i)[1]
    <2>1. DOMAIN current' = 1..c /\ \A i \in 1..c : current'[i] = MovesUp(m, i)
      BY <1>2
    <2>2. \A i \in 1..c : i \notin 1..m => i = m + 1 /\ c # m /\ ~(i <= m)
      BY <1>2, <1>3
    <2>3. \A i \in 1..m : i \in 1..c /\ i <= m
      BY <1>2, <1>3
    <2>4. \A i \in 1..m : current'[i] = fresh(i)
      BY <2>1, <2>3 DEF MovesUp
    <2>5. ASSUME NEW i \in 1..c, i \notin 1..m PROVE i = m + 1 /\ Len(chunk(i)) = 1 /\ 1 \in 1..Len(chunk(i)) /\ current'[i] = chunk(i)[1]
      <3>1. i = m + 1 /\ c # m /\ ~(i <= m)
        BY <2>2, <2>5
      <3>2. current'[i] = chunk(i)[1]
        BY <2>1, <3>1 DEF MovesUp
      <3>3. Len(chunk(i)) = 1
        BY <1>2, <3>1
      <3> HIDE DEF chunk
      <3> QED
        BY <3>1, <3>2, <3>3
    <2> QED
      BY <2>1, <2>3, <2>4, <2>5
  <1>13. \A id : id \in PlanIds <=> (\E s \in Shards : id = Leaf(s)) \/ (\E i \in DOMAIN N : id = N[i].id)
    BY <1>1, PlanIdFacts
  <1>14. \A id : id \in PlanIds' <=> (\E s \in Shards : id = Leaf(s)) \/ (\E i \in DOMAIN M : id = M[i].id)
    BY <1>4 DEF PlanIds, Range, M
  <1>15. \A j \in 1..m : fresh(j) \notin PlanIds
    <2> SUFFICES ASSUME NEW j \in 1..m, fresh(j) \in PlanIds PROVE FALSE
      OBVIOUS
    <2>1. \A s \in Shards : fresh(j) # Leaf(s)
      BY IdFacts
    <2>2. PICK i \in DOMAIN N : fresh(j) = N[i].id
      BY <1>13, <2>1
    <2>3. PICK l \in 0..(Len(levels) - 1), n \in Nat : N[i].id = Node(l, n)
      BY <2>2 DEF Tree, NodeShape
    <2>4. l = Len(levels)
      BY <2>2, <2>3, IdFacts
    <2> QED
      BY <1>5, <2>3, <2>4
  <1>16. \A j, k \in 1..m : fresh(j) = fresh(k) => j = k
    <2> SUFFICES ASSUME NEW j \in 1..m, NEW k \in 1..m, fresh(j) = fresh(k) PROVE j = k
      OBVIOUS
    <2>1. j - 1 = k - 1
      BY IdFacts
    <2> QED
      BY <2>1
  <1>17. \A i \in DOMAIN N : \A p \in DOMAIN N[i].children : N[i].children[p] \in PlanIds
    <2> SUFFICES ASSUME NEW i \in DOMAIN N, NEW p \in DOMAIN N[i].children PROVE N[i].children[p] \in PlanIds
      OBVIOUS
    <2>1. \/ \E s \in Shards : N[i].children[p] = Leaf(s)
          \/ \E k \in 1..(i - 1) : N[i].children[p] = N[k].id
      BY DEF Tree, NodeShape
    <2>2. \A k \in 1..(i - 1) : k \in DOMAIN N
      BY <1>9
    <2> QED
      BY <1>13, <2>1, <2>2
  <1> HIDE DEF c, chunk, fresh, N, n0, level
  <1>18. \A x \in DOMAIN current : current[x] \in PlanIds
    BY DEF Tree, Orphans
  <1>19. \A i \in 1..c : \A p \in 1..Len(chunk(i)) : chunk(i)[p] \in PlanIds
    BY <1>11, <1>18
  <1>20. \A i \in 1..n0 :
                           /\ i \in DOMAIN N /\ Len(N[i].children) \in 2..fan_in
                           /\ \E l \in 0..(Len(levels) - 1), n \in Nat : N[i].id = Node(l, n)
                           /\ \A k \in DOMAIN N : N[k].id = N[i].id => k = i
                           /\ \A p \in DOMAIN N[i].children :
                                \/ \E s \in Shards : N[i].children[p] = Leaf(s)
                                \/ \E k \in 1..(i - 1) : N[i].children[p] = N[k].id
    BY <1>9 DEF Tree, NodeShape, N
  <1>21. \A i \in 1..n0 : N[i].id \in PlanIds
    BY <1>13, <1>20
  <1> DEFINE shape(i) ==
                /\ Len(M[i].children) \in 2..fan_in
                /\ \E l \in 0..(Len(levels') - 1), n \in Nat : M[i].id = Node(l, n)
                /\ \A k \in DOMAIN M : M[k].id = M[i].id => k = i
                /\ \A p \in DOMAIN M[i].children :
                    \/ \E s \in Shards : M[i].children[p] = Leaf(s)
                    \/ \E k \in 1..(i - 1) : M[i].children[p] = M[k].id
  <1>22. ASSUME NEW i \in 1..n0 PROVE shape(i)
    <2>1. M[i] = N[i]
      BY <1>9
    <2>2. \E l \in 0..(Len(levels') - 1), n \in Nat : M[i].id = Node(l, n)
      <3>1. 0..(Len(levels) - 1) \subseteq 0..(Len(levels') - 1)
        BY <1>5
      <3> QED
        <4>1. PICK l \in 0..(Len(levels) - 1), n \in Nat : N[i].id = Node(l, n)
          BY <1>20
        <4> QED
          BY <2>1, <3>1, <4>1
    <2>3. ASSUME NEW k \in DOMAIN M, M[k].id = M[i].id PROVE k = i
      <3>1. CASE k \in 1..n0
        BY <1>9, <1>20, <2>1, <2>3, <3>1
      <3>2. CASE k \notin 1..n0
        <4>1. PICK j \in 1..m : k = n0 + j
          BY <1>9, <3>2
        <4>2. M[i].id = fresh(j)
          BY <1>10, <2>3, <4>1
        <4> QED
          BY <1>15, <1>21, <2>1, <4>2
      <3> QED
        BY <3>1, <3>2
    <2>4. \A k \in 1..(i - 1) : M[k] = N[k]
      <3>1. \A k \in 1..(i - 1) : k \in 1..n0
        BY <1>9
      <3> QED
        BY <1>9, <3>1
    <2>5. Len(M[i].children) \in 2..fan_in
      BY <1>20, <2>1
    <2>6. ASSUME NEW p \in DOMAIN M[i].children
          PROVE  \/ \E s \in Shards : M[i].children[p] = Leaf(s)
                 \/ \E k \in 1..(i - 1) : M[i].children[p] = M[k].id
      <3>1. \/ \E s \in Shards : N[i].children[p] = Leaf(s)
            \/ \E k \in 1..(i - 1) : N[i].children[p] = N[k].id
        BY <1>20, <2>1
      <3> QED
        BY <2>1, <2>4, <3>1
    <2> QED
      BY <2>2, <2>3, <2>5, <2>6
  <1>23. ASSUME NEW j \in 1..m PROVE shape(n0 + j)
    <2>1. M[n0 + j].id = fresh(j) /\ M[n0 + j].children = chunk(j) /\ DOMAIN chunk(j) = 1..Len(chunk(j)) /\ j \in 1..c
      BY <1>6, <1>10
    <2>2. Len(M[n0 + j].children) \in 2..fan_in
      BY <1>2, <2>1
    <2>3. \E l \in 0..(Len(levels') - 1), n \in Nat : M[n0 + j].id = Node(l, n)
      <3>1. Len(levels) \in 0..(Len(levels') - 1) /\ j - 1 \in Nat
        BY <1>5
      <3> QED
        BY <2>1, <3>1 DEF fresh
    <2>4. ASSUME NEW k \in DOMAIN M, M[k].id = M[n0 + j].id PROVE k = n0 + j
      <3>1. CASE k \in 1..n0
        <4>1. N[k].id = fresh(j)
          BY <1>9, <2>1, <2>4, <3>1
        <4> QED
          BY <1>15, <1>21, <3>1, <4>1
      <3>2. CASE k \notin 1..n0
        <4>1. PICK h \in 1..m : k = n0 + h
          BY <1>9, <3>2
        <4>2. fresh(h) = fresh(j)
          BY <1>10, <2>1, <2>4, <4>1
        <4> QED
          BY <1>16, <4>1, <4>2
      <3> QED
        BY <3>1, <3>2
    <2>5. ASSUME NEW p \in DOMAIN M[n0 + j].children
          PROVE  \/ \E s \in Shards : M[n0 + j].children[p] = Leaf(s)
                 \/ \E k \in 1..((n0 + j) - 1) : M[n0 + j].children[p] = M[k].id
      <3>1. chunk(j)[p] \in PlanIds
        BY <1>19, <2>1
      <3>2. \A k \in DOMAIN N : k \in 1..((n0 + j) - 1) /\ M[k] = N[k]
        BY <1>9
      <3> QED
        BY <1>13, <2>1, <3>1, <3>2
    <2> QED
      BY <2>2, <2>3, <2>4, <2>5
  <1>24. \A i \in DOMAIN M : shape(i)
    <2> HIDE DEF shape
    <2> QED
      BY <1>9, <1>22, <1>23
  <1>25. \A i \in DOMAIN Nodes' : NodeShape(i)'
    BY <1>4, <1>24 DEF NodeShape, M
  <1> HIDE DEF shape
  <1>26. \A i \in 1..n0 : \A p \in DOMAIN N[i].children : \A x \in DOMAIN current : N[i].children[p] # current[x]
    BY <1>9 DEF Tree, Orphans, N
  <1>27. \A i, k \in DOMAIN N : \A p \in DOMAIN N[i].children, q \in DOMAIN N[k].children :
            N[i].children[p] = N[k].children[q] => i = k /\ p = q
    BY DEF Tree, OneParent, N
  <1>28. ASSUME NEW i \in DOMAIN M, NEW k \in DOMAIN M, NEW p \in DOMAIN M[i].children, NEW q \in DOMAIN M[k].children,
                M[i].children[p] = M[k].children[q]
         PROVE  i = k /\ p = q
    <2>1. ASSUME NEW x \in 1..n0, NEW j \in 1..m, NEW a \in DOMAIN M[x].children, NEW b \in DOMAIN M[n0 + j].children
          PROVE  M[x].children[a] # M[n0 + j].children[b]
      <3>1. M[x] = N[x] /\ M[n0 + j].children = chunk(j) /\ b \in 1..Len(chunk(j)) /\ j \in 1..c
        BY <1>6, <1>9, <1>10
      <3>2. PICK y \in DOMAIN current : chunk(j)[b] = current[y]
        BY <1>11, <3>1
      <3> QED
        BY <1>26, <3>1, <3>2
    <2>2. CASE i \in 1..n0 /\ k \in 1..n0
      BY <1>9, <1>27, <1>28, <2>2
    <2>3. CASE i \in 1..n0 /\ k \notin 1..n0
      <3>1. PICK j \in 1..m : k = n0 + j
        BY <1>9, <2>3
      <3> QED
        BY <1>28, <2>1, <2>3, <3>1
    <2>4. CASE i \notin 1..n0 /\ k \in 1..n0
      <3>1. PICK j \in 1..m : i = n0 + j
        BY <1>9, <2>4
      <3> QED
        BY <1>28, <2>1, <2>4, <3>1
    <2>5. CASE i \notin 1..n0 /\ k \notin 1..n0
      <3>1. PICK j \in 1..m : i = n0 + j
        BY <1>9, <2>5
      <3>2. PICK h \in 1..m : k = n0 + h
        BY <1>9, <2>5
      <3>3. /\ j \in 1..c /\ h \in 1..c /\ p \in 1..Len(chunk(j)) /\ q \in 1..Len(chunk(h))
            /\ chunk(j)[p] = chunk(h)[q]
        BY <1>6, <1>10, <1>28, <3>1, <3>2
      <3> QED
        BY <1>11, <3>1, <3>2, <3>3
    <2> QED
      BY <2>2, <2>3, <2>4, <2>5
  <1>29. OneParent'
    BY <1>28 DEF OneParent, M
  <1> DEFINE next == current'
  <1>30. ASSUME NEW i \in 1..c, i \notin 1..m
         PROVE  i = m + 1 /\ Len(chunk(i)) = 1 /\ 1 \in 1..Len(chunk(i)) /\ next[i] = chunk(i)[1] /\ next[i] \in PlanIds
    BY <1>12, <1>19, <1>30
  <1>31. \A i \in 1..m : i \in 1..c /\ next[i] = fresh(i)
    BY <1>12
  <1>32. DOMAIN next = 1..c
    BY <1>12
  <1> HIDE DEF next
  <1>33. ASSUME NEW i \in DOMAIN next, NEW k \in DOMAIN next, next[i] = next[k] PROVE i = k
    <2>1. CASE i \in 1..m /\ k \in 1..m
      BY <1>16, <1>31, <1>33, <2>1
    <2>2. CASE i \in 1..m /\ k \notin 1..m
      BY <1>15, <1>30, <1>31, <1>32, <1>33, <2>2
    <2>3. CASE i \notin 1..m /\ k \in 1..m
      BY <1>15, <1>30, <1>31, <1>32, <1>33, <2>3
    <2>4. CASE i \notin 1..m /\ k \notin 1..m
      BY <1>30, <1>32, <2>4
    <2> QED
      BY <2>1, <2>2, <2>3, <2>4
  <1>34. ASSUME NEW i \in DOMAIN M, NEW p \in DOMAIN M[i].children, NEW x \in DOMAIN next
         PROVE  M[i].children[p] # next[x]
    <2>1. CASE i \in 1..n0
      <3>1. M[i] = N[i] /\ N[i].children[p] \in PlanIds
        BY <1>9, <1>17, <2>1
      <3>2. CASE x \in 1..m
        BY <1>15, <1>31, <3>1, <3>2
      <3>3. CASE x \notin 1..m
        <4>1. x \in 1..c /\ 1 \in 1..Len(chunk(x)) /\ next[x] = chunk(x)[1]
          BY <1>30, <1>32, <3>3
        <4>2. PICK y \in DOMAIN current : next[x] = current[y]
          BY <1>11, <4>1
        <4> QED
          BY <1>26, <2>1, <3>1, <4>2
      <3> QED
        BY <3>2, <3>3
    <2>2. CASE i \notin 1..n0
      <3>1. PICK j \in 1..m : i = n0 + j
        BY <1>9, <2>2
      <3>2. M[i].children = chunk(j) /\ p \in 1..Len(chunk(j)) /\ j \in 1..c
        BY <1>6, <1>10, <3>1
      <3>3. CASE x \in 1..m
        BY <1>15, <1>19, <1>31, <3>2, <3>3
      <3>4. CASE x \notin 1..m
        <4>1. x \in 1..c /\ 1 \in 1..Len(chunk(x)) /\ next[x] = chunk(x)[1] /\ x # j
          BY <1>30, <1>32, <3>4
        <4> QED
          BY <1>11, <3>2, <4>1
      <3> QED
        BY <3>3, <3>4
    <2> QED
      BY <2>1, <2>2
  <1>35. ASSUME NEW x \in DOMAIN next PROVE next[x] \in PlanIds'
    <2>1. \A id \in PlanIds : id \in PlanIds'
      BY <1>9, <1>13, <1>14
    <2>2. CASE x \in 1..m
      BY <1>9, <1>10, <1>14, <1>31, <2>2
    <2>3. CASE x \notin 1..m
      BY <1>30, <1>32, <2>1, <2>3
    <2> QED
      BY <2>2, <2>3
  <1>36. ASSUME NEW id \in PlanIds'
         PROVE  \/ \E x \in DOMAIN next : id = next[x]
                \/ \E i \in DOMAIN M : \E p \in DOMAIN M[i].children : id = M[i].children[p]
    <2>1. CASE id \in PlanIds
      <3>1. \/ \E x \in DOMAIN current : id = current[x]
            \/ \E i \in DOMAIN N : \E p \in DOMAIN N[i].children : id = N[i].children[p]
        BY <2>1 DEF Tree, Orphans, N
      <3>2. ASSUME NEW x \in DOMAIN current, id = current[x]
            PROVE  \/ \E y \in DOMAIN next : id = next[y]
                   \/ \E i \in DOMAIN M : \E p \in DOMAIN M[i].children : id = M[i].children[p]
        <4>1. PICK i \in 1..c : \E p \in 1..Len(chunk(i)) : current[x] = chunk(i)[p]
          BY <1>11
        <4>2. PICK p \in 1..Len(chunk(i)) : current[x] = chunk(i)[p]
          BY <4>1
        <4>3. CASE i \in 1..m
          <5>1. n0 + i \in DOMAIN M /\ M[n0 + i].children = chunk(i) /\ p \in DOMAIN M[n0 + i].children
            BY <1>9, <1>10, <4>3
          <5> QED
            BY <3>2, <4>2, <5>1
        <4>4. CASE i \notin 1..m
          <5>1. Len(chunk(i)) = 1 /\ next[i] = chunk(i)[1]
            BY <1>30, <4>4
          <5>2. p = 1
            BY <5>1
          <5> QED
            BY <1>32, <3>2, <4>2, <5>1, <5>2
        <4> QED
          BY <4>3, <4>4
      <3>3. ASSUME NEW i \in DOMAIN N, NEW p \in DOMAIN N[i].children, id = N[i].children[p]
            PROVE  \E k \in DOMAIN M : \E q \in DOMAIN M[k].children : id = M[k].children[q]
        BY <1>9, <3>3
      <3> QED
        BY <3>1, <3>2, <3>3
    <2>2. CASE id \notin PlanIds
      <3>1. PICK i \in DOMAIN M : id = M[i].id
        BY <1>13, <1>14, <2>2
      <3>2. i \notin 1..n0
        BY <1>9, <1>21, <2>2, <3>1
      <3>3. PICK j \in 1..m : i = n0 + j
        BY <1>9, <3>2
      <3>4. id = next[j] /\ j \in DOMAIN next
        BY <1>10, <1>31, <1>32, <3>1, <3>3
      <3> QED
        BY <3>4
    <2> QED
      BY <2>1, <2>2
  <1>37. Orphans'
    BY <1>33, <1>34, <1>35, <1>36 DEF Orphans, M, next
  <1>38. current' \in Seq(Ids) /\ Len(current') = c
    <2>1. ASSUME NEW i \in 1..c PROVE next[i] \in Ids
      <3>1. CASE i \in 1..m
        BY <1>6, <1>31, <3>1
      <3>2. CASE i \notin 1..m
        <4>1. chunk(i) \in Seq(Ids) /\ 1 \in 1..Len(chunk(i)) /\ next[i] = chunk(i)[1]
          BY <1>3, <1>30, <3>2
        <4> QED
          BY <4>1
      <3> QED
        BY <3>1, <3>2
    <2>2. next \in [1..c -> Ids]
      <3>1. next = [i \in 1..c |-> next[i]]
        BY <1>2 DEF next
      <3> QED
        BY <2>1, <3>1
    <2>3. next \in Seq(Ids) /\ Len(next) = c
      BY <1>3, <2>2
    <2> QED
      BY <2>3 DEF next
  <1>39. Len(current') >= 1
    BY <1>2, <1>3, <1>38
  <1> QED
    BY <1>1, <1>4, <1>8, <1>9, <1>25, <1>29, <1>37, <1>38, <1>39 DEF Tree, M

-----------------------------------------------------------------------------
(* The shards below a node *)

\* A set of numbers that has any has a least one.
LEMMA LeastNumber ==
    ASSUME NEW S \in SUBSET Nat, S # {}
    PROVE  \E x \in S : \A y \in S : x <= y
  <1>1. \E x \in S : \A y \in S : ~(<<y, x>> \in OpToRel(<, Nat))
    BY NatLessThanWellFounded, WFMin
  <1>2. PICK x \in S : \A y \in S : ~(<<y, x>> \in OpToRel(<, Nat))
    BY <1>1
  <1>3. \A y \in Nat : y < x => <<y, x>> \in OpToRel(<, Nat)
    BY DEF OpToRel
  <1>4. \A y \in S : ~(y < x)
    BY <1>2, <1>3
  <1>5. \A y \in S : x <= y
    BY <1>4
  <1> QED
    BY <1>5

\* The children of a node.
LEMMA ChildrenFacts ==
    ASSUME Tree, NEW i \in DOMAIN Nodes
    PROVE  \A c : c \in ChildrenOf(Nodes[i].id) <=> \E p \in DOMAIN Nodes[i].children : c = Nodes[i].children[p]
  <1> DEFINE node == CHOOSE n \in Range(Nodes) : n.id = Nodes[i].id
  <1>1. Nodes[i] \in Range(Nodes)
    BY DEF Range
  <1>2. node \in Range(Nodes) /\ node.id = Nodes[i].id
    BY <1>1
  <1>3. PICK k \in DOMAIN Nodes : node = Nodes[k]
    BY <1>2 DEF Range
  <1>4. k = i
    BY <1>2, <1>3 DEF Tree, NodeShape
  <1>5. ChildrenOf(Nodes[i].id) = Range(Nodes[i].children)
    BY <1>3, <1>4 DEF ChildrenOf
  <1> QED
    BY <1>5 DEF Range

\* The shards below a leaf and below a node.
LEMMA BelowFacts ==
    ASSUME Tree
    PROVE  /\ \A s \in Shards : Below[Leaf(s)] = {s}
           /\ \A i \in DOMAIN Nodes : \A s : s \in Below[Nodes[i].id] <=>
                \E p \in DOMAIN Nodes[i].children : s \in Below[Nodes[i].children[p]]
  <1> DEFINE N == Nodes
             upto(n) == {Leaf(s) : s \in Shards} \cup {N[k].id : k \in 1..n}
             body(f, id) == IF id[1] = "leaf" THEN {id[2]} ELSE UNION {f[c] : c \in ChildrenOf(id)}
             fixed(f, S) == f = [id \in S |-> body(f, id)]
             has(n) == \E f : fixed(f, upto(n))
             good == {n \in Nat : n <= Len(N) => has(n)}
             below == CHOOSE f : fixed(f, PlanIds)
  <1>1. Len(N) \in Nat /\ DOMAIN N = 1..Len(N) /\ N \in Seq(PlanNode)
    BY DEF Tree
  <1>2. Below = below
    BY Zenon DEF Below
  <1>3. PlanIds = upto(Len(N))
    BY <1>1, PlanIdFacts
  <1>4. \A i \in DOMAIN N : N[i].id[1] # "leaf"
    BY IdFacts DEF Tree, NodeShape
  <1>5. \A s \in Shards : Leaf(s)[1] = "leaf" /\ Leaf(s)[2] = s
    BY IdFacts
  <1>6. ASSUME NEW n \in Nat, n <= Len(N), NEW k \in 1..n, NEW c \in ChildrenOf(N[k].id) PROVE c \in upto(n - 1) /\ k \in DOMAIN N
    <2>1. k \in DOMAIN N
      BY <1>1, <1>6
    <2>2. PICK p \in DOMAIN N[k].children : c = N[k].children[p]
      BY <2>1, ChildrenFacts
    <2>3. \/ \E s \in Shards : N[k].children[p] = Leaf(s)
          \/ \E j \in 1..(k - 1) : N[k].children[p] = N[j].id
      BY <2>1 DEF Tree, NodeShape
    <2>4. 1..(k - 1) \subseteq 1..(n - 1)
      BY <1>6
    <2> QED
      BY <2>1, <2>2, <2>3, <2>4
  <1>7. ASSUME NEW n \in Nat, n <= Len(N), NEW k \in 1..n, NEW j \in 1..n, N[k].id = N[j].id PROVE k = j
    <2>1. k \in DOMAIN N /\ j \in DOMAIN N
      BY <1>1, <1>7
    <2> QED
      BY <1>7, <2>1 DEF Tree, NodeShape
  <1> HIDE DEF N
  <1>8. 0 \in good
    <2> DEFINE f == [id \in upto(0) |-> {id[2]}]
    <2>1. \A id \in upto(0) : id[1] = "leaf"
      BY <1>5
    <2>2. \A id \in upto(0) : body(f, id) = {id[2]}
      BY <2>1
    <2>3. f = [id \in upto(0) |-> body(f, id)]
      <3> HIDE DEF body, upto
      <3> QED
        BY <2>2
    <2> HIDE DEF f, body, upto
    <2> QED
      BY <2>3
  <1>9. ASSUME NEW n \in Nat, n \in good PROVE n + 1 \in good
    <2> HIDE DEF has
    <2> SUFFICES ASSUME n + 1 <= Len(N) PROVE has(n + 1)
      OBVIOUS
    <2>1. n <= Len(N)
      BY <1>1
    <2>2. PICK f : fixed(f, upto(n))
      <3>1. has(n)
        BY <1>9, <2>1
      <3> QED
        BY <3>1 DEF has
    <2> DEFINE new == N[n + 1].id
               g == [id \in upto(n + 1) |-> IF id = new THEN body(f, new) ELSE f[id]]
    <2>3. upto(n + 1) = upto(n) \cup {new}
      <3>1. 1..(n + 1) = 1..n \cup {n + 1}
        OBVIOUS
      <3> QED
        BY <3>1
    <2>4. n + 1 \in 1..(n + 1) /\ n + 1 \in Nat /\ (n + 1) - 1 = n /\ n + 1 \in DOMAIN N
      BY <1>1
    <2>5. new \notin upto(n)
      <3>1. \A s \in Shards : new # Leaf(s)
        BY <1>4, <1>5, <2>4
      <3>2. ASSUME NEW k \in 1..n, N[k].id = new PROVE FALSE
        <4>1. k \in 1..(n + 1) /\ k # n + 1
          OBVIOUS
        <4> QED
          BY <1>7, <2>4, <3>2, <4>1
      <3> QED
        BY <3>1, <3>2
    <2> HIDE DEF new
    <2>6. \A id \in upto(n) : g[id] = f[id]
      <3> HIDE DEF upto, body
      <3> QED
        BY <2>3, <2>5
    <2>7. ASSUME NEW id \in upto(n + 1) PROVE body(g, id) = body(f, id)
      <3>1. CASE \E s \in Shards : id = Leaf(s)
        BY <1>5, <3>1
      <3>2. CASE ~ \E s \in Shards : id = Leaf(s)
        <4>1. PICK k \in 1..(n + 1) : id = N[k].id
          BY <3>2
        <4>2. \A c \in ChildrenOf(id) : c \in upto(n)
          BY <1>6, <2>4, <4>1
        <4>3. \A c \in ChildrenOf(id) : g[c] = f[c]
          BY <2>6, <4>2
        <4> HIDE DEF g
        <4>4. {g[c] : c \in ChildrenOf(id)} = {f[c] : c \in ChildrenOf(id)}
          BY <4>3
        <4> QED
          BY <4>4
      <3> QED
        BY <3>1, <3>2
    <2>8. ASSUME NEW id \in upto(n + 1) PROVE g[id] = body(g, id)
      <3>1. CASE id = new
        <4> HIDE DEF body, upto
        <4> QED
          BY <2>7, <3>1
      <3>2. CASE id # new
        <4> HIDE DEF body, upto, g
        <4>1. id \in upto(n)
          BY <2>3, <3>2
        <4>2. f[id] = body(f, id)
          BY <2>2, <4>1
        <4> QED
          BY <2>6, <2>7, <4>1, <4>2
      <3> QED
        BY <3>1, <3>2
    <2>9. g = [id \in upto(n + 1) |-> g[id]]
      <3> HIDE DEF body, upto
      <3> QED
        OBVIOUS
    <2> HIDE DEF g, body, upto
    <2>10. g = [id \in upto(n + 1) |-> body(g, id)]
      BY <2>8, <2>9
    <2> QED
      BY <2>10 DEF has
  <1> HIDE DEF good
  <1>10. Len(N) \in good
    BY <1>1, <1>8, <1>9, NumbersInSet
  <1>11. \E f : fixed(f, PlanIds)
    <2>1. has(Len(N))
      <3> HIDE DEF has
      <3> QED
        BY <1>1, <1>10 DEF good
    <2> HIDE DEF fixed, upto
    <2> QED
      BY <1>3, <2>1
  <1>12. fixed(below, PlanIds)
    <2> HIDE DEF fixed
    <2> QED
      BY <1>11
  <1> HIDE DEF below
  <1>13. \A id \in PlanIds : Below[id] = body(Below, id)
    <2> HIDE DEF body
    <2> QED
      BY <1>2, <1>12
  <1>14. ASSUME NEW s \in Shards PROVE Below[Leaf(s)] = {s}
    <2>1. Leaf(s) \in PlanIds
      BY <1>3
    <2> QED
      BY <1>5, <1>13, <2>1
  <1>15. ASSUME NEW i \in DOMAIN N, NEW s
         PROVE  s \in Below[N[i].id] <=> \E p \in DOMAIN N[i].children : s \in Below[N[i].children[p]]
    <2>1. N[i].id \in PlanIds
      BY <1>1, <1>3
    <2>2. Below[N[i].id] = UNION {Below[c] : c \in ChildrenOf(N[i].id)}
      BY <1>4, <1>13, <2>1
    <2>3. \A c : c \in ChildrenOf(N[i].id) <=> \E p \in DOMAIN N[i].children : c = N[i].children[p]
      BY ChildrenFacts DEF N
    <2> QED
      BY <2>2, <2>3
  <1> QED
    BY <1>14, <1>15 DEF N

\* Below the nodes without parent are all the shards.
LEMMA OrphansCover ==
    ASSUME Tree, Len(current) = 1
    PROVE  Root \in PlanIds /\ Below[Root] = Shards
  <1> DEFINE N == Nodes
  <1>1. Len(N) \in Nat /\ DOMAIN N = 1..Len(N)
    BY DEF Tree
  <1>2. DOMAIN current = {1}
    BY DEF Tree
  <1>3. Root \in PlanIds
    BY <1>2 DEF Tree, Orphans, Root
  <1>4. \A id \in PlanIds : id # Root => \E i \in DOMAIN N : \E p \in DOMAIN N[i].children : id = N[i].children[p]
    BY <1>2 DEF Tree, Orphans, Root
  <1>5. \A id : id \in PlanIds <=> (\E s \in Shards : id = Leaf(s)) \/ (\E i \in DOMAIN N : id = N[i].id)
    BY PlanIdFacts DEF Tree
  <1>6. \A s \in Shards : Below[Leaf(s)] = {s}
    BY BelowFacts
  <1>7. \A i \in DOMAIN N : \A s : s \in Below[N[i].id] <=> \E p \in DOMAIN N[i].children : s \in Below[N[i].children[p]]
    BY BelowFacts
  <1>8. \A i \in DOMAIN N : \A p \in DOMAIN N[i].children :
            \/ \E s \in Shards : N[i].children[p] = Leaf(s)
            \/ \E k \in 1..(i - 1) : k \in DOMAIN N /\ N[i].children[p] = N[k].id
    <2> SUFFICES ASSUME NEW i \in DOMAIN N, NEW p \in DOMAIN N[i].children
                 PROVE  \/ \E s \in Shards : N[i].children[p] = Leaf(s)
                        \/ \E k \in 1..(i - 1) : k \in DOMAIN N /\ N[i].children[p] = N[k].id
      OBVIOUS
    <2>1. \/ \E s \in Shards : N[i].children[p] = Leaf(s)
          \/ \E k \in 1..(i - 1) : N[i].children[p] = N[k].id
      BY DEF Tree, NodeShape
    <2>2. 1..(i - 1) \subseteq DOMAIN N
      BY <1>1
    <2> QED
      BY <2>1, <2>2
  <1>9. \A i, k \in DOMAIN N : N[i].id = N[k].id => i = k
    BY DEF Tree, NodeShape
  <1>10. \A i \in DOMAIN N : \A s \in Shards : N[i].id # Leaf(s)
    BY IdFacts DEF Tree, NodeShape
  <1> HIDE DEF N
  <1>11. ASSUME NEW i \in DOMAIN N PROVE Below[N[i].id] \subseteq Shards
    <2> DEFINE bad == {k \in DOMAIN N : ~(Below[N[k].id] \subseteq Shards)}
    <2> SUFFICES ASSUME bad # {} PROVE FALSE
      OBVIOUS
    <2>1. bad \subseteq Nat
      BY <1>1
    <2>2. PICK k \in bad : \A j \in bad : k <= j
      BY <2>1, LeastNumber
    <2>3. PICK s \in Below[N[k].id] : s \notin Shards
      BY <2>2
    <2>4. PICK p \in DOMAIN N[k].children : s \in Below[N[k].children[p]]
      BY <1>7, <2>2, <2>3
    <2>5. CASE \E t \in Shards : N[k].children[p] = Leaf(t)
      BY <1>6, <2>3, <2>4, <2>5
    <2>6. CASE \E j \in 1..(k - 1) : j \in DOMAIN N /\ N[k].children[p] = N[j].id
      <3>1. PICK j \in 1..(k - 1) : j \in DOMAIN N /\ N[k].children[p] = N[j].id
        BY <2>6
      <3>2. j \in bad
        BY <2>3, <2>4, <3>1
      <3>3. j < k
        BY <2>1, <2>2, <3>1
      <3> QED
        BY <2>1, <2>2, <3>2, <3>3
    <2> QED
      BY <1>8, <2>2, <2>4, <2>5, <2>6
  <1>12. ASSUME NEW s \in Shards PROVE s \in Below[Root]
    <2> DEFINE over == {k \in DOMAIN N : s \in Below[N[k].id]}
               far == {Len(N) - k : k \in over}
    <2>1. CASE over = {}
      <3>1. Leaf(s) \in PlanIds
        BY <1>5
      <3>2. ASSUME Leaf(s) # Root PROVE FALSE
        <4>1. PICK i \in DOMAIN N : \E p \in DOMAIN N[i].children : Leaf(s) = N[i].children[p]
          BY <1>4, <3>1, <3>2
        <4>2. i \in over
          BY <1>6, <1>7, <4>1
        <4> QED
          BY <2>1, <4>2
      <3> QED
        BY <1>6, <3>2
    <2>2. CASE over # {}
      <3>1. far \subseteq Nat /\ far # {}
        BY <1>1, <2>2
      <3>2. PICK d \in far : \A e \in far : d <= e
        BY <3>1, LeastNumber
      <3>3. PICK k \in over : d = Len(N) - k
        BY <3>2
      <3>4. \A i \in over : i <= k
        <4> SUFFICES ASSUME NEW i \in over PROVE i <= k
          OBVIOUS
        <4>1. Len(N) - k <= Len(N) - i
          BY <3>2, <3>3
        <4> QED
          BY <1>1, <4>1
      <3>5. ASSUME N[k].id # Root PROVE FALSE
        <4>1. N[k].id \in PlanIds
          BY <1>5
        <4>2. PICK i \in DOMAIN N : \E p \in DOMAIN N[i].children : N[k].id = N[i].children[p]
          BY <1>4, <3>5, <4>1
        <4>3. PICK p \in DOMAIN N[i].children : N[k].id = N[i].children[p]
          BY <4>2
        <4>4. i \in over
          BY <1>7, <4>3
        <4>5. PICK j \in 1..(i - 1) : j \in DOMAIN N /\ N[i].children[p] = N[j].id
          BY <1>8, <1>10, <4>3
        <4>6. j = k
          BY <1>9, <4>3, <4>5
        <4> QED
          BY <1>1, <3>4, <4>4, <4>5, <4>6
      <3> QED
        BY <3>3, <3>5
    <2> QED
      BY <2>1, <2>2
  <1>13. Below[Root] \subseteq Shards
    <2>1. CASE \E s \in Shards : Root = Leaf(s)
      BY <1>6, <2>1
    <2>2. CASE \E i \in DOMAIN N : Root = N[i].id
      BY <1>11, <2>2
    <2> QED
      BY <1>3, <1>5, <2>1, <2>2
  <1> QED
    BY <1>3, <1>12, <1>13

-----------------------------------------------------------------------------
(* plan_aggregation *)

Refused == {"InvalidFanIn", "InvalidPartition"}

\* The plan is a tree while it grows and afterwards; claims are made once it is done,
\* each over what is below its node.
PlanInv ==
    /\ outcome \in Refused \/ Tree
    /\ outcome \in Refused \cup {"plan"} => DOMAIN claims = {}
    /\ outcome \notin Refused \cup {"plan"} => Len(current) = 1
    /\ \A id \in DOMAIN claims : id \in PlanIds /\ claims[id].covered = Below[id]

\* An error in a proof is not one in the request.
LEMMA ErrorsAreLate ==
    /\ \A p : LeafError(p) \notin Refused \cup {"plan"}
    /\ \A children : MergeError(children) \notin Refused \cup {"plan"}
  <1>1. \A shard, list, role : ClaimsError(shard, list, role) \notin Refused \cup {"plan"}
    BY DEF ClaimsError, Refused
  <1>2. ASSUME NEW p PROVE LeafError(p) \notin Refused \cup {"plan"}
    BY <1>1 DEF LeafError, Refused
  <1>3. ASSUME NEW children PROVE MergeError(children) \notin Refused \cup {"plan"}
    BY DEF MergeError, Refused
  <1> QED
    BY <1>2, <1>3

\* The first state.
LEMMA PlanStarts ==
    ASSUME AggregationInit
    PROVE  PlanInv
  <1>1. outcome \in Refused \cup {"plan"} /\ DOMAIN claims = {}
    BY DEF AggregationInit, FirstStep, Refused, NoClaims
  <1>2. outcome \in Refused \/ Tree
    BY TreeStarts DEF Refused
  <1> QED
    BY <1>1, <1>2 DEF PlanInv

\* Without a change of the plan, the tree and what is below its nodes stay.
LEMMA PlanUnchanged ==
    ASSUME UNCHANGED <<leaf_count, fan_in, current, levels>>
    PROVE  /\ Nodes' = Nodes /\ PlanIds' = PlanIds /\ Below' = Below /\ Root' = Root /\ Shards' = Shards
           /\ Tree => Tree'
  <1>1. Nodes' = Nodes /\ Root' = Root /\ Shards' = Shards
    BY DEF Nodes, Root, Shards
  <1>2. PlanIds' = PlanIds
    BY <1>1 DEF PlanIds
  <1>3. \A id : ChildrenOf(id)' = ChildrenOf(id)
    BY <1>1 DEF ChildrenOf
  <1>4. Below' = Below
    BY <1>1, <1>2, <1>3 DEF Below, ChildrenOf
  <1>5. Tree => Tree'
    BY <1>1, <1>2 DEF Tree, NodeShape, OneParent, Orphans
  <1> QED
    BY <1>1, <1>2, <1>4, <1>5

\* The number of claims when one is missing.
LEMMA ClaimNumber ==
    ASSUME AggregationInv
    PROVE  Cardinality(DOMAIN claims) \in Nat /\ leaf_count \in Nat
  BY FS_CardinalityType DEF AggregationInv, ClaimsInv

\* Every step keeps the plan a tree and the claims over it.
LEMMA PlanStep ==
    ASSUME AggregationInv, PlanInv, [AggregationNext]_aggregationVars
    PROVE  PlanInv'
  <1>0. ASSUME UNCHANGED <<leaf_count, fan_in, current, levels>>, outcome \notin Refused,
               outcome' \notin Refused \cup {"plan"}, Len(current) = 1,
               \A id \in DOMAIN claims' : id \in PlanIds /\ claims'[id].covered = Below[id]
        PROVE  PlanInv'
    BY <1>0, PlanUnchanged DEF PlanInv
  <1>1. CASE plan_level
    <2>1. outcome = "plan" /\ UNCHANGED <<outcome, claims>>
      BY <1>1 DEF plan_level
    <2>2. Tree /\ DOMAIN claims = {}
      BY <2>1 DEF PlanInv, Refused
    <2>3. Tree'
      BY <1>1, <2>2, LevelKeepsTree
    <2> QED
      BY <2>1, <2>2, <2>3 DEF PlanInv
  <1>2. CASE plan_done
    <2>1. /\ outcome = "plan" /\ Len(current) = 1 /\ outcome' \in {"admit", "MissingLeaf"}
          /\ UNCHANGED <<leaf_count, fan_in, current, levels, claims>>
      BY <1>2 DEF plan_done, Fail, request
    <2> QED
      BY <1>0, <2>1 DEF PlanInv, Refused
  <1>3. CASE admit_leaf
    <2> DEFINE i == Cardinality(DOMAIN claims) + 1
               proof == proofs[i]
    <2>1. outcome = "admit" /\ i <= leaf_count /\ UNCHANGED <<leaf_count, fan_in, current, levels>>
      BY <1>3 DEF admit_leaf, Fail, request
    <2>2. Len(current) = 1 /\ outcome \notin Refused
      BY <2>1 DEF PlanInv, Refused
    <2>3. CASE outcome' \in {"admit", "merge"}
      <3>1. /\ proof.shard = i - 1
            /\ claims' = [id \in DOMAIN claims \cup {Leaf(proof.shard)} |->
                            IF id = Leaf(proof.shard) THEN LeafClaim(proof) ELSE claims[id]]
        BY <1>3, <2>3, ErrorsAreErrors DEF admit_leaf, Fail
      <3>2. LeafClaim(proof).covered = {proof.shard}
        BY DEF LeafClaim
      <3>3. i - 1 \in Shards
        BY <2>1, ClaimNumber DEF Shards
      <3>4. Leaf(i - 1) \in PlanIds
        BY <3>3 DEF PlanIds
      <3>5. Below[Leaf(i - 1)] = {i - 1}
        BY <2>2, <3>3, BelowFacts DEF PlanInv
      <3> HIDE DEF i, proof
      <3>6. \A id \in DOMAIN claims' : id \in PlanIds /\ claims'[id].covered = Below[id]
        BY <3>1, <3>2, <3>4, <3>5 DEF PlanInv
      <3> QED
        BY <1>0, <2>1, <2>2, <2>3, <3>6 DEF Refused
    <2>4. CASE outcome' \notin {"admit", "merge"}
      <3>1. \/ Fail("ChildOrderMismatch")
            \/ Fail(LeafError(proof))
        BY <1>3, <2>4 DEF admit_leaf
      <3>2. UNCHANGED claims /\ outcome' \notin Refused \cup {"plan"}
        BY <3>1, ErrorsAreLate DEF Fail, Refused
      <3> QED
        BY <1>0, <2>1, <2>2, <3>2 DEF PlanInv
    <2> QED
      BY <2>3, <2>4
  <1>4. CASE merge_node
    <2>1. PICK turn \in Pending :
            LET node == Nodes[turn]
                children == Children(node)
            IN  /\ outcome = "merge"
                /\ IF MergeError(children) # "none" THEN Fail(MergeError(children))
                   ELSE /\ claims' = [id \in (DOMAIN claims \ Range(node.children)) \cup {node.id} |->
                                        IF id = node.id THEN MergedClaim(children) ELSE claims[id]]
                        /\ UNCHANGED <<request, current, levels, proofs, outcome, manifest, wire, built_from, verdict>>
      BY <1>4 DEF merge_node
    <2> DEFINE node == Nodes[turn]
               children == Children(node)
    <2>2. outcome = "merge" /\ UNCHANGED <<leaf_count, fan_in, current, levels>>
      BY <2>1 DEF Fail, request
    <2>3. Len(current) = 1 /\ outcome \notin Refused /\ Tree
      BY <2>2 DEF PlanInv, Refused
    <2>4. CASE MergeError(children) # "none"
      <3>1. UNCHANGED claims /\ outcome' \notin Refused \cup {"plan"}
        BY <2>1, <2>4, ErrorsAreLate DEF Fail
      <3> QED
        BY <1>0, <2>2, <2>3, <3>1 DEF PlanInv
    <2>5. CASE MergeError(children) = "none"
      <3>1. /\ claims' = [id \in (DOMAIN claims \ Range(node.children)) \cup {node.id} |->
                            IF id = node.id THEN MergedClaim(children) ELSE claims[id]]
            /\ UNCHANGED outcome
        BY <2>1, <2>5
      <3>2. turn \in DOMAIN Nodes /\ Range(node.children) \subseteq DOMAIN claims
        BY DEF Pending
      <3>3. node.id \in PlanIds
        BY <3>2 DEF PlanIds, Range
      <3>4. \A p \in DOMAIN node.children : node.children[p] \in DOMAIN claims
        BY <3>2 DEF Range
      <3>5. DOMAIN children = DOMAIN node.children /\ \A p \in DOMAIN node.children : children[p].covered = Below[node.children[p]]
        BY <3>4 DEF Children, PlanInv
      <3>6. MergedClaim(children).covered = UNION {children[p].covered : p \in DOMAIN children}
        BY DEF MergedClaim, UnionOf
      <3>7. \A s : s \in Below[node.id] <=> \E p \in DOMAIN node.children : s \in Below[node.children[p]]
        BY <2>3, <3>2, BelowFacts
      <3> HIDE DEF node, children
      <3>8. MergedClaim(children).covered = Below[node.id]
        BY <3>5, <3>6, <3>7
      <3>9. \A id \in DOMAIN claims' : id \in PlanIds /\ claims'[id].covered = Below[id]
        BY <3>1, <3>3, <3>8 DEF PlanInv
      <3> QED
        BY <1>0, <2>2, <2>3, <3>1, <3>9 DEF Refused
    <2> QED
      BY <2>4, <2>5
  <1>5. CASE finalize_native_manifest
    <2>1. /\ outcome = "merge" /\ UNCHANGED <<leaf_count, fan_in, current, levels, claims>>
          /\ outcome' \notin Refused \cup {"plan"}
      BY <1>5 DEF finalize_native_manifest, Fail, request, Refused
    <2> QED
      BY <1>0, <2>1 DEF PlanInv, Refused
  <1>6. CASE send_manifest
    <2>1. /\ outcome = "manifest" /\ UNCHANGED <<leaf_count, fan_in, current, levels>>
          /\ outcome' \notin Refused \cup {"plan"} /\ DOMAIN claims' = {}
      BY <1>6 DEF send_manifest, request, Refused, NoClaims
    <2> QED
      BY <1>0, <2>1 DEF PlanInv, Refused
  <1>7. CASE UNCHANGED aggregationVars
    <2>1. UNCHANGED <<leaf_count, fan_in, current, levels, claims, outcome>>
      BY <1>7 DEF aggregationVars, request
    <2> QED
      BY <2>1, PlanUnchanged DEF PlanInv
  <1> QED
    BY <1>1, <1>2, <1>3, <1>4, <1>5, <1>6, <1>7 DEF AggregationNext

\* plan_aggregation, for every number of leaves and every fan-in: the plan is a
\* tree over all the leaves, and the claim of a node covers the leaves below it.
THEOREM PlanStaysATree == AggregationSpec => []PlanIsATree
  <1>1. ASSUME PlanInv PROVE PlanIsATree
    <2> SUFFICES ASSUME outcome \notin Refused \cup {"plan"} PROVE PlanIsATree
      BY DEF PlanIsATree, Refused
    <2>1. Tree /\ Len(current) = 1
      BY <1>1 DEF PlanInv
    <2>2. Below[Root] = Shards /\ Root \in PlanIds
      BY <2>1, OrphansCover
    <2>3. \A i \in DOMAIN Nodes : Len(Nodes[i].children) \in 2..fan_in
      BY <2>1 DEF Tree, NodeShape
    <2>4. OneParent
      BY <2>1 DEF Tree
    <2>5. UNION {Range(Nodes[i].children) : i \in DOMAIN Nodes} = PlanIds \ {Root}
      <3> DEFINE N == Nodes
      <3>1. DOMAIN current = {1} /\ Len(N) \in Nat /\ DOMAIN N = 1..Len(N)
        BY <2>1 DEF Tree
      <3>2. \A id \in PlanIds : id # Root => \E i \in DOMAIN N : \E p \in DOMAIN N[i].children : id = N[i].children[p]
        BY <2>1, <3>1 DEF Tree, Orphans, Root
      <3>3. \A i \in DOMAIN N : \A p \in DOMAIN N[i].children : N[i].children[p] # Root
        BY <2>1, <3>1 DEF Tree, Orphans, Root
      <3>4. ASSUME NEW i \in DOMAIN N, NEW p \in DOMAIN N[i].children PROVE N[i].children[p] \in PlanIds
        <4>1. \/ \E s \in Shards : N[i].children[p] = Leaf(s)
              \/ \E k \in 1..(i - 1) : N[i].children[p] = N[k].id
          BY <2>1 DEF Tree, NodeShape
        <4>2. 1..(i - 1) \subseteq DOMAIN N
          BY <3>1
        <4>3. \A id : id \in PlanIds <=> (\E s \in Shards : id = Leaf(s)) \/ (\E k \in DOMAIN N : id = N[k].id)
          BY <2>1, PlanIdFacts DEF Tree
        <4> QED
          BY <4>1, <4>2, <4>3
      <3> HIDE DEF N
      <3>5. UNION {Range(N[i].children) : i \in DOMAIN N} = PlanIds \ {Root}
        BY <3>2, <3>3, <3>4 DEF Range
      <3> QED
        BY <3>5 DEF N
    <2> QED
      BY <1>1, <2>2, <2>3, <2>4, <2>5 DEF PlanIsATree, PlanInv, OneParent
  <1>2. AggregationSpec => []PlanInv
    BY AggregationInvariant, PlanStarts, PlanStep, PTL DEF AggregationSpec
  <1> QED
    BY <1>1, <1>2, PTL

-----------------------------------------------------------------------------
(* Proofs that fit together get their manifest *)

\* The proofs of one run of the program, in the order of their shards.
AllHonest == \A i \in DOMAIN proofs : proofs[i].honest /\ proofs[i].shard = i - 1

\* After node d of the plan: the leaves and the nodes up to it, without those that
\* have been merged into one of these nodes.
Reached(id, d) == (\E s \in Shards : id = Leaf(s)) \/ \E k \in 1..d : id = Nodes[k].id
Merged(id, d) == \E k \in 1..d : \E p \in DOMAIN Nodes[k].children : id = Nodes[k].children[p]
CutAt(d) == \A id : id \in DOMAIN claims <=> Reached(id, d) /\ ~Merged(id, d)

\* The claims that are there: those of the first leaves, then those of a cut
\* through the tree; no two of them cover the same shard.
CutInv ==
    /\ outcome \notin Refused => \A e \in Edges : e.consumer < leaf_count
    /\ outcome = "admit" => /\ Cardinality(DOMAIN claims) < leaf_count
                            /\ DOMAIN claims = {Leaf(s) : s \in 0..(Cardinality(DOMAIN claims) - 1)}
    /\ outcome = "merge" => \E d \in 0..Len(Nodes) : CutAt(d)
    /\ \A a, b \in DOMAIN claims : a # b => claims[a].covered \cap claims[b].covered = {}

\* A set with one member at most.
LEMMA AtMostOne ==
    ASSUME NEW S, \A x, y \in S : x = y
    PROVE  ~(Cardinality(S) > 1)
  <1>1. CASE S = {}
    BY <1>1, FS_EmptySet
  <1>2. CASE S # {}
    <2>1. PICK x \in S : TRUE
      BY <1>2
    <2>2. S = {x}
      BY <2>1
    <2>3. Cardinality(S) = 1
      BY <2>2, FS_Singleton
    <2> QED
      BY <2>3
  <1> QED
    BY <1>1, <1>2

\* What honest proofs say about the shards of a claim.
LEMMA HonestShards ==
    ASSUME ClaimsInv, AllHonest, NEW s, NEW t, Admitted(proofs, s), Admitted(proofs, t)
    PROVE  /\ \A e \in Edges : e.producer = s /\ e.consumer = t => ProducerSays(proofs, e) = ConsumerSays(proofs, e)
           /\ \A b \in InputsOf(proofs, s), c \in InputsOf(proofs, t) : b.descriptor.register = c.descriptor.register => b = c
           /\ s # t => \A b \in OutputsOf(proofs, s), c \in OutputsOf(proofs, t) :
                            b.descriptor.outputs \cap c.descriptor.outputs = {}
           /\ InputsOf(proofs, s) \subseteq UNION {PublicInputs(h) : h \in HonestProofs}
           /\ OutputsOf(proofs, s) \subseteq UNION {PublicOutputs(h) : h \in HonestProofs}
  <1> DEFINE p == proofs[s + 1]
             q == proofs[t + 1]
  <1>1. s + 1 \in DOMAIN proofs /\ t + 1 \in DOMAIN proofs
    BY DEF Admitted, ClaimsInv
  <1>2. p \in HonestProofs /\ q \in HonestProofs /\ p.shard = s /\ q.shard = t
    BY <1>1 DEF Admitted, AllHonest, HonestProofs
  <1>3. /\ InputsOf(proofs, s) = PublicInputs(p) /\ InputsOf(proofs, t) = PublicInputs(q)
        /\ OutputsOf(proofs, s) = PublicOutputs(p) /\ OutputsOf(proofs, t) = PublicOutputs(q)
    BY DEF InputsOf, OutputsOf, StatementOf, PublicInputs, PublicOutputs
  <1>4. \A e \in Edges : e.producer = s /\ e.consumer = t =>
            ProducerSays(proofs, e) = Slot(p.statement.outputs, e.id) /\ ConsumerSays(proofs, e) = Slot(q.statement.inputs, e.id)
    BY DEF ProducerSays, ConsumerSays, StatementOf
  <1> HIDE DEF p, q
  <1>5. \A e \in Edges : e.producer = p.shard /\ e.consumer = q.shard => Slot(p.statement.outputs, e.id) = Slot(q.statement.inputs, e.id)
    BY <1>2, HonestAssumption
  <1>6. \A b \in PublicInputs(p), c \in PublicInputs(q) : b.descriptor.register = c.descriptor.register => b = c
    BY <1>2, HonestAssumption
  <1>7. p.shard # q.shard => \A b \in PublicOutputs(p), c \in PublicOutputs(q) : b.descriptor.outputs \cap c.descriptor.outputs = {}
    BY <1>2, HonestAssumption
  <1>8. \A e \in Edges : e.producer = s /\ e.consumer = t => ProducerSays(proofs, e) = ConsumerSays(proofs, e)
    BY <1>2, <1>4, <1>5
  <1> QED
    BY <1>2, <1>3, <1>6, <1>7, <1>8

\* Honest proofs fit in a manifest.
LEMMA HonestFits ==
    ASSUME NEW ins, NEW outs,
           ins \subseteq UNION {PublicInputs(h) : h \in HonestProofs},
           outs \subseteq UNION {PublicOutputs(h) : h \in HonestProofs}
    PROVE  ~(Cardinality(ins) + Cardinality(outs) > MaxPublic)
  <1> DEFINE I == UNION {PublicInputs(h) : h \in HonestProofs}
             O == UNION {PublicOutputs(h) : h \in HonestProofs}
  <1>1. IsFiniteSet(I) /\ IsFiniteSet(O) /\ Cardinality(I) + Cardinality(O) <= MaxPublic
    BY HonestAssumption
  <1> HIDE DEF I, O
  <1>2. IsFiniteSet(ins) /\ Cardinality(ins) <= Cardinality(I)
    BY <1>1, FS_Subset DEF I
  <1>3. IsFiniteSet(outs) /\ Cardinality(outs) <= Cardinality(O)
    BY <1>1, FS_Subset DEF O
  <1>4. Cardinality(I) \in Nat /\ Cardinality(O) \in Nat /\ Cardinality(ins) \in Nat /\ Cardinality(outs) \in Nat
    BY <1>1, <1>2, <1>3, FS_CardinalityType
  <1>5. MaxPublic \in Nat
    BY LimitsAssumption
  <1> QED
    BY <1>1, <1>2, <1>3, <1>4, <1>5

\* merge_verified_claims finds nothing wrong with true claims over different shards
\* of honest proofs.
LEMMA HonestMerge ==
    ASSUME ClaimsInv, AllHonest, NEW children, \A i \in DOMAIN children : TrueClaim(proofs, children[i]),
           ~Clash(children, "covered")
    PROVE  MergeError(children) = "none"
  <1> DEFINE C(i) == children[i].covered
             frontier == Frontier(children)
             covered == UnionOf(children, "covered")
             T == DOMAIN children
  <1>1. \A i, k \in T : \A s : s \in C(i) /\ s \in C(k) => i = k
    BY DEF Clash
  <1>2. \A i \in T : \A s \in C(i) : Admitted(proofs, s)
    BY DEF TrueClaim, CoverTrue
  <1>3. \A s : s \in covered <=> \E i \in T : s \in C(i)
    BY DEF UnionOf
  <1>4. \A i \in T : children[i].closed = {e.id : e \in Inner(children[i])}
    BY DEF TrueClaim, FrontierTrue
  <1>5. \A i \in T : DOMAIN children[i].frontier = {e.id : e \in Crossing(children[i])}
    BY DEF TrueClaim, FrontierTrue
  <1>6. \A i \in T : \A e \in Edges : e.id \in DOMAIN children[i].frontier =>
            children[i].frontier[e.id] = [producer |-> IF e.producer \in C(i) THEN ProducerSays(proofs, e) ELSE 0,
                                          consumer |-> IF e.consumer \in C(i) THEN ConsumerSays(proofs, e) ELSE 0]
    BY DEF TrueClaim, FrontierTrue
  <1>7. /\ DOMAIN frontier = UNION {{e.id : e \in Crossing(children[i])} : i \in T}
        /\ \A e \in Edges : e.id \in DOMAIN frontier =>
            frontier[e.id] = [producer |-> IF e.producer \in covered THEN ProducerSays(proofs, e) ELSE 0,
                              consumer |-> IF e.consumer \in covered THEN ConsumerSays(proofs, e) ELSE 0]
    BY JoinedFrontier
  <1>8. \A i \in T : \A e \in Edges : /\ e.id \in children[i].closed <=> e.producer \in C(i) /\ e.consumer \in C(i)
                                      /\ e.id \in DOMAIN children[i].frontier <=> (e.producer \in C(i) <=> e.consumer \notin C(i))
    <2> SUFFICES ASSUME NEW i \in T, NEW e \in Edges
                 PROVE  /\ e.id \in children[i].closed <=> e.producer \in C(i) /\ e.consumer \in C(i)
                        /\ e.id \in DOMAIN children[i].frontier <=> (e.producer \in C(i) <=> e.consumer \notin C(i))
      OBVIOUS
    <2>1. \A f \in Edges : f.id = e.id => f = e
      BY EdgesAssumption
    <2>2. e.id \in children[i].closed <=> e \in Inner(children[i])
      BY <1>4, <2>1 DEF Inner
    <2>3. e.id \in DOMAIN children[i].frontier <=> e \in Crossing(children[i])
      BY <1>5, <2>1 DEF Crossing
    <2> QED
      BY <2>2, <2>3 DEF Inner, Crossing
  <1>9. \A id \in DOMAIN frontier : \E e \in Edges : e.id = id /\ \E i \in T : (e.producer \in C(i) <=> e.consumer \notin C(i))
    BY <1>7 DEF Crossing
  <1>10. \A i \in T : \A id \in children[i].closed : \E e \in Edges : e.id = id
    BY <1>4 DEF Inner
  <1> HIDE DEF frontier, covered, T, C
  <1>11. ~Clash(children, "closed")
    <2> SUFFICES ASSUME NEW i \in T, NEW k \in T, NEW id, id \in children[i].closed, id \in children[k].closed PROVE i = k
      BY DEF Clash, T
    <2>1. PICK e \in Edges : e.id = id
      BY <1>10
    <2>2. e.producer \in C(i) /\ e.producer \in C(k)
      BY <1>8, <2>1
    <2> QED
      BY <1>1, <2>2
  <1>12. ASSUME NEW id \in DOMAIN frontier, NEW side \in {"producer", "consumer"}
         PROVE  ~(Cardinality({i \in T : id \in DOMAIN children[i].frontier /\ children[i].frontier[id][side] # 0}) > 1)
    <2> DEFINE S == {i \in T : id \in DOMAIN children[i].frontier /\ children[i].frontier[id][side] # 0}
    <2>1. PICK e \in Edges : e.id = id
      BY <1>9
    <2>2. ASSUME NEW i \in S PROVE (side = "producer" => e.producer \in C(i)) /\ (side = "consumer" => e.consumer \in C(i))
      <3>1. i \in T /\ e.id \in DOMAIN children[i].frontier /\ children[i].frontier[e.id][side] # 0
        BY <2>1
      <3>2. children[i].frontier[e.id] = [producer |-> IF e.producer \in C(i) THEN ProducerSays(proofs, e) ELSE 0,
                                          consumer |-> IF e.consumer \in C(i) THEN ConsumerSays(proofs, e) ELSE 0]
        BY <1>6, <3>1, Zenon
      <3> QED
        BY <3>1, <3>2
    <2>3. side = "producer" \/ side = "consumer"
      OBVIOUS
    <2>4. \A i, k \in S : i = k
      BY <1>1, <2>2, <2>3
    <2> HIDE DEF S
    <2>5. ~(Cardinality(S) > 1)
      BY <2>4, AtMostOne
    <2> QED
      BY <2>5 DEF S
  <1>13. \A b \in UnionOf(children, "public_inputs") : \E i \in T : \E s \in C(i) : b \in InputsOf(proofs, s)
    BY DEF UnionOf, TrueClaim, PublicTrue, C, T
  <1>14. \A i \in T : \A b \in children[i].public_outputs : \E s \in C(i) : b \in OutputsOf(proofs, s)
    BY DEF TrueClaim, PublicTrue, C, T
  <1>15. ~InputsClash(children)
    <2> SUFFICES ASSUME NEW b \in UnionOf(children, "public_inputs"), NEW c \in UnionOf(children, "public_inputs"),
                        b.descriptor.register = c.descriptor.register
                 PROVE  b = c
      BY DEF InputsClash
    <2>1. PICK i \in T : \E s \in C(i) : b \in InputsOf(proofs, s)
      BY <1>13
    <2>2. PICK s \in C(i) : b \in InputsOf(proofs, s)
      BY <2>1
    <2>3. PICK k \in T : \E t \in C(k) : c \in InputsOf(proofs, t)
      BY <1>13
    <2>4. PICK t \in C(k) : c \in InputsOf(proofs, t)
      BY <2>3
    <2>5. Admitted(proofs, s) /\ Admitted(proofs, t)
      BY <1>2
    <2> QED
      BY <2>2, <2>4, <2>5, HonestShards
  <1>16. ~OutputsClash(children)
    <2> SUFFICES ASSUME NEW i \in T, NEW k \in T, i # k,
                        NEW b \in children[i].public_outputs, NEW c \in children[k].public_outputs
                 PROVE  b.descriptor.outputs \cap c.descriptor.outputs = {}
      BY DEF OutputsClash, T
    <2>1. PICK s \in C(i) : b \in OutputsOf(proofs, s)
      BY <1>14
    <2>2. PICK t \in C(k) : c \in OutputsOf(proofs, t)
      BY <1>14
    <2>3. Admitted(proofs, s) /\ Admitted(proofs, t) /\ s # t
      BY <1>1, <1>2
    <2> QED
      BY <2>1, <2>2, <2>3, HonestShards
  <1>17. ~(Cardinality(UnionOf(children, "public_inputs")) + Cardinality(UnionOf(children, "public_outputs")) > MaxPublic)
    <2>1. UnionOf(children, "public_inputs") \subseteq UNION {PublicInputs(h) : h \in HonestProofs}
      <3> SUFFICES ASSUME NEW b \in UnionOf(children, "public_inputs") PROVE b \in UNION {PublicInputs(h) : h \in HonestProofs}
        OBVIOUS
      <3>1. PICK i \in T : \E s \in C(i) : b \in InputsOf(proofs, s)
        BY <1>13
      <3>2. PICK s \in C(i) : b \in InputsOf(proofs, s)
        BY <3>1
      <3>3. Admitted(proofs, s)
        BY <1>2
      <3>4. InputsOf(proofs, s) \subseteq UNION {PublicInputs(h) : h \in HonestProofs}
        BY <3>3, HonestShards
      <3> QED
        BY <3>2, <3>4
    <2>2. UnionOf(children, "public_outputs") \subseteq UNION {PublicOutputs(h) : h \in HonestProofs}
      <3> SUFFICES ASSUME NEW b \in UnionOf(children, "public_outputs") PROVE b \in UNION {PublicOutputs(h) : h \in HonestProofs}
        OBVIOUS
      <3>1. PICK i \in T : b \in children[i].public_outputs
        BY DEF UnionOf, T
      <3>2. PICK s \in C(i) : b \in OutputsOf(proofs, s)
        BY <1>14, <3>1
      <3>3. Admitted(proofs, s)
        BY <1>2
      <3>4. OutputsOf(proofs, s) \subseteq UNION {PublicOutputs(h) : h \in HonestProofs}
        BY <3>3, HonestShards
      <3> QED
        BY <3>2, <3>4
    <2> QED
      BY <2>1, <2>2, HonestFits
  <1>18. Closing(children) \cap UnionOf(children, "closed") = {}
    <2> SUFFICES ASSUME NEW id \in Closing(children), NEW k \in T, id \in children[k].closed PROVE FALSE
      BY DEF UnionOf, T
    <2>1. id \in DOMAIN frontier
      BY DEF Closing, frontier
    <2>2. PICK e \in Edges : e.id = id /\ \E i \in T : (e.producer \in C(i) <=> e.consumer \notin C(i))
      BY <1>9, <2>1
    <2>3. PICK i \in T : (e.producer \in C(i) <=> e.consumer \notin C(i))
      BY <2>2
    <2>4. e.producer \in C(k) /\ e.consumer \in C(k)
      BY <1>8, <2>2
    <2> QED
      BY <1>1, <2>3, <2>4
  <1>19. ASSUME NEW id \in Closing(children)
         PROVE  /\ 0 \notin {frontier[id].producer, frontier[id].consumer}
                /\ frontier[id].producer = frontier[id].consumer
    <2>1. id \in DOMAIN frontier /\ {Edge(id).producer, Edge(id).consumer} \subseteq covered
      BY DEF Closing, frontier, covered
    <2>2. PICK e \in Edges : e.id = id
      BY <1>9, <2>1
    <2>3. Edge(id) = e
      BY <2>2, EdgeOfId
    <2>4. frontier[id].producer = ProducerSays(proofs, e) /\ frontier[id].consumer = ConsumerSays(proofs, e)
      <3>1. e.producer \in covered /\ e.consumer \in covered
        BY <2>1, <2>3
      <3>2. frontier[e.id] = [producer |-> IF e.producer \in covered THEN ProducerSays(proofs, e) ELSE 0,
                              consumer |-> IF e.consumer \in covered THEN ConsumerSays(proofs, e) ELSE 0]
        BY <1>7, <2>1, <2>2, Zenon
      <3>3. frontier[id] = [producer |-> ProducerSays(proofs, e), consumer |-> ConsumerSays(proofs, e)]
        BY <2>2, <3>1, <3>2
      <3> QED
        BY <3>3
    <2>5. Admitted(proofs, e.producer) /\ Admitted(proofs, e.consumer)
      BY <1>2, <1>3, <2>1, <2>3
    <2>6. ProducerSays(proofs, e) # 0 /\ ConsumerSays(proofs, e) # 0
      BY <2>5, AdmittedSlots DEF ProducerSays, ConsumerSays
    <2>7. ProducerSays(proofs, e) = ConsumerSays(proofs, e)
      BY <2>5, HonestShards
    <2> QED
      BY <2>4, <2>6, <2>7
  <1> QED
    BY <1>11, <1>12, <1>15, <1>16, <1>17, <1>18, <1>19 DEF MergeError, frontier, T

\* The next node after a cut is the first whose children all have their claims; and
\* when there is none, the claim of the root is the only one.
LEMMA NextNode ==
    ASSUME Tree, NEW d \in 0..Len(Nodes), CutAt(d)
    PROVE  /\ \A i \in Pending : i > d
           /\ d < Len(Nodes) => d + 1 \in Pending
           /\ d = Len(Nodes) /\ Len(current) = 1 => DOMAIN claims = {Root}
  <1> DEFINE N == Nodes
  <1>1. Len(N) \in Nat /\ DOMAIN N = 1..Len(N) /\ d \in Nat
    BY DEF Tree
  <1>2. \A i \in DOMAIN N : /\ Len(N[i].children) \in 2..fan_in
                            /\ \A p \in DOMAIN N[i].children : \/ \E s \in Shards : N[i].children[p] = Leaf(s)
                                                               \/ \E k \in 1..(i - 1) : N[i].children[p] = N[k].id
    BY DEF Tree, NodeShape
  <1>3. \A i \in DOMAIN N : N[i] \in PlanNode
    BY DEF Tree
  <1>4. \A i \in DOMAIN N : N[i].children \in Seq(Ids)
    BY <1>3 DEF PlanNode
  <1>5. \A id : id \in DOMAIN claims <=> Reached(id, d) /\ ~Merged(id, d)
    BY DEF CutAt
  <1>6. \A i, k \in DOMAIN N : \A p \in DOMAIN N[i].children, q \in DOMAIN N[k].children :
            N[i].children[p] = N[k].children[q] => i = k /\ p = q
    BY DEF Tree, OneParent
  <1>7. \A i : i \in Pending <=> i \in DOMAIN N /\ \A p \in DOMAIN N[i].children : N[i].children[p] \in DOMAIN claims
    BY DEF Pending, Range
  <1>8. \A id : Merged(id, d) <=> \E k \in 1..d : \E p \in DOMAIN N[k].children : id = N[k].children[p]
    BY DEF Merged
  <1>9. \A id : Reached(id, d) <=> (\E s \in Shards : id = Leaf(s)) \/ \E k \in 1..d : id = N[k].id
    BY DEF Reached
  <1>10. d <= Len(N) /\ 1..d \subseteq DOMAIN N
    BY <1>1
  <1>11. \A id : id \in PlanIds <=> (\E s \in Shards : id = Leaf(s)) \/ (\E k \in DOMAIN N : id = N[k].id)
    BY PlanIdFacts DEF Tree
  <1> HIDE DEF N
  <1>12. ASSUME NEW i \in Pending PROVE i > d
    <2>1. i \in DOMAIN N /\ \A p \in DOMAIN N[i].children : N[i].children[p] \in DOMAIN claims
      BY <1>7
    <2>2. 1 \in DOMAIN N[i].children
      BY <1>2, <1>4, <2>1
    <2>3. i \notin 1..d
      BY <1>5, <1>8, <2>1, <2>2
    <2> QED
      BY <1>1, <2>1, <2>3
  <1>13. ASSUME d < Len(N) PROVE d + 1 \in Pending
    <2> DEFINE i == d + 1
    <2>1. i \in DOMAIN N /\ i - 1 = d /\ i \notin 1..d
      BY <1>1, <1>13
    <2>2. ASSUME NEW p \in DOMAIN N[i].children PROVE N[i].children[p] \in DOMAIN claims
      <3>1. Reached(N[i].children[p], d)
        BY <1>2, <1>9, <2>1
      <3>2. ~Merged(N[i].children[p], d)
        BY <1>6, <1>8, <1>10, <2>1
      <3> QED
        BY <1>5, <3>1, <3>2
    <2> QED
      BY <1>7, <2>1, <2>2
  <1>14. ASSUME d = Len(N), Len(current) = 1 PROVE DOMAIN claims = {Root}
    <2>1. DOMAIN current = {1} /\ Root \in PlanIds
      BY <1>14 DEF Tree, Orphans, Root
    <2>2. \A id \in PlanIds : id # Root => \E i \in DOMAIN N : \E p \in DOMAIN N[i].children : id = N[i].children[p]
      BY <2>1 DEF Tree, Orphans, Root, N
    <2>3. \A i \in DOMAIN N : \A p \in DOMAIN N[i].children : N[i].children[p] # Root
      BY <2>1 DEF Tree, Orphans, Root, N
    <2>4. \A id : Reached(id, d) <=> id \in PlanIds
      BY <1>1, <1>9, <1>11, <1>14
    <2>5. \A id : Merged(id, d) <=> \E k \in DOMAIN N : \E p \in DOMAIN N[k].children : id = N[k].children[p]
      BY <1>1, <1>8, <1>14
    <2>6. \A id : id \in DOMAIN claims <=> id = Root
      BY <1>5, <2>1, <2>2, <2>3, <2>4, <2>5
    <2> QED
      BY <2>6
  <1> QED
    BY <1>12, <1>13, <1>14 DEF N

\* A merge moves the cut over the next node.
LEMMA CutMoves ==
    ASSUME Tree, NEW d \in 0..(Len(Nodes) - 1), CutAt(d), UNCHANGED <<leaf_count, fan_in, current, levels>>,
           DOMAIN claims' = (DOMAIN claims \ Range(Nodes[d + 1].children)) \cup {Nodes[d + 1].id}
    PROVE  CutAt(d + 1)'
  <1> DEFINE N == Nodes
  <1>0. PICK i : i = d + 1
    OBVIOUS
  <1>1. Len(N) \in Nat /\ DOMAIN N = 1..Len(N) /\ d \in Nat /\ i \in DOMAIN N /\ 1..i = 1..d \cup {i} /\ 1..i \subseteq DOMAIN N
    BY <1>0 DEF Tree
  <1>2. \A k \in DOMAIN N : /\ \A j \in DOMAIN N : N[j].id = N[k].id => j = k
                            /\ \E l, n : N[k].id = Node(l, n)
                            /\ \A p \in DOMAIN N[k].children : \/ \E s \in Shards : N[k].children[p] = Leaf(s)
                                                               \/ \E j \in 1..(k - 1) : N[k].children[p] = N[j].id
    <2> SUFFICES ASSUME NEW k \in DOMAIN N
                 PROVE  /\ \A j \in DOMAIN N : N[j].id = N[k].id => j = k
                        /\ \E l, n : N[k].id = Node(l, n)
                        /\ \A p \in DOMAIN N[k].children : \/ \E s \in Shards : N[k].children[p] = Leaf(s)
                                                           \/ \E j \in 1..(k - 1) : N[k].children[p] = N[j].id
      OBVIOUS
    <2>1. NodeShape(k)
      BY DEF Tree
    <2>2. \E l, n : N[k].id = Node(l, n)
      BY <2>1 DEF NodeShape
    <2>3. \A j \in DOMAIN N : N[j].id = N[k].id => j = k
      BY <2>1 DEF NodeShape
    <2>4. \A p \in DOMAIN N[k].children : \/ \E s \in Shards : N[k].children[p] = Leaf(s)
                                         \/ \E j \in 1..(k - 1) : N[k].children[p] = N[j].id
      BY <2>1 DEF NodeShape
    <2> QED
      BY <2>2, <2>3, <2>4
  <1>3. \A id : id \in DOMAIN claims <=> Reached(id, d) /\ ~Merged(id, d)
    BY DEF CutAt
  <1>4. Nodes' = N /\ Shards' = Shards
    BY PlanUnchanged
  <1>5. \A id : /\ Merged(id, d) <=> \E k \in 1..d : \E p \in DOMAIN N[k].children : id = N[k].children[p]
                /\ Reached(id, d) <=> (\E s \in Shards : id = Leaf(s)) \/ \E k \in 1..d : id = N[k].id
    BY DEF Merged, Reached
  <1>6. \A id : /\ Merged(id, i)' <=> \E k \in 1..i : \E p \in DOMAIN N[k].children : id = N[k].children[p]
                /\ Reached(id, i)' <=> (\E s \in Shards : id = Leaf(s)) \/ \E k \in 1..i : id = N[k].id
    BY <1>4 DEF Merged, Reached
  <1>7. \A id : id \in DOMAIN claims' <=> id = N[i].id \/ (id \in DOMAIN claims /\ ~\E p \in DOMAIN N[i].children : id = N[i].children[p])
    BY <1>0 DEF Range
  <1> HIDE DEF N
  <1>8. \A id : id = N[i].id => ~Merged(id, i)'
    <2> SUFFICES ASSUME NEW k \in 1..i, NEW p \in DOMAIN N[k].children, N[i].id = N[k].children[p] PROVE FALSE
      BY <1>6
    <2>1. k \in DOMAIN N
      BY <1>1
    <2>2. CASE \E s \in Shards : N[k].children[p] = Leaf(s)
      BY <1>1, <1>2, <2>2, IdFacts
    <2>3. CASE \E j \in 1..(k - 1) : N[k].children[p] = N[j].id
      <3>1. PICK j \in 1..(k - 1) : N[k].children[p] = N[j].id
        BY <2>3
      <3>2. j \in DOMAIN N /\ j < i /\ k \in Int
        BY <1>1, <2>1, <3>1
      <3> QED
        BY <1>1, <1>2, <3>1, <3>2
    <2> QED
      BY <1>2, <2>1, <2>2, <2>3
  <1>9. \A id : Reached(id, i)' <=> Reached(id, d) \/ id = N[i].id
    BY <1>1, <1>5, <1>6
  <1>10. \A id : Merged(id, i)' <=> Merged(id, d) \/ \E p \in DOMAIN N[i].children : id = N[i].children[p]
    BY <1>1, <1>5, <1>6
  <1>11. \A id : id \in DOMAIN claims' <=> Reached(id, i)' /\ ~Merged(id, i)'
    BY <1>3, <1>7, <1>8, <1>9, <1>10
  <1> QED
    BY <1>0, <1>11 DEF CutAt

\* The first state.
LEMMA CutStarts ==
    ASSUME AggregationInit
    PROVE  CutInv /\ HonestAccepted
  <1>1. /\ outcome = FirstStep(leaf_count, fan_in) /\ DOMAIN claims = {} /\ leaf_count \in Nat
    BY RequestsAssumption DEF AggregationInit, NoClaims
  <1>2. outcome \in {"plan"} \cup Refused
    BY <1>1 DEF FirstStep, Refused
  <1>3. outcome \notin Refused => \A e \in Edges : e.consumer < leaf_count
    <2> SUFFICES ASSUME outcome \notin Refused, NEW e \in Edges PROVE e.consumer < leaf_count
      OBVIOUS
    <2>1. ~(e.consumer >= leaf_count)
      BY <1>1 DEF FirstStep, Refused
    <2>2. e.consumer \in Nat
      BY EdgesAssumption
    <2> QED
      BY <1>1, <2>1, <2>2
  <1> QED
    BY <1>1, <1>2, <1>3 DEF CutInv, HonestAccepted, Working, Refused

\* A step that changes neither the plan nor the claims, and begins or ends no stage.
LEMMA CutUnchanged ==
    ASSUME CutInv, UNCHANGED <<leaf_count, fan_in, current, levels, claims>>,
           outcome \notin Refused \/ outcome' = outcome,
           outcome' \in {"admit", "merge"} => outcome' = outcome
    PROVE  CutInv'
  <1>1. Nodes' = Nodes /\ Shards' = Shards
    BY PlanUnchanged
  <1>2. ASSUME NEW d PROVE CutAt(d) => CutAt(d)'
    BY <1>1 DEF CutAt, Reached, Merged
  <1>3. outcome' = "merge" => \E d \in 0..Len(Nodes') : CutAt(d)'
    BY <1>1, <1>2 DEF CutInv
  <1>4. outcome' \notin Refused => \A e \in Edges : e.consumer < leaf_count'
    BY DEF CutInv
  <1>5. outcome' = "admit" => /\ Cardinality(DOMAIN claims') < leaf_count'
                              /\ DOMAIN claims' = {Leaf(s) : s \in 0..(Cardinality(DOMAIN claims') - 1)}
    BY DEF CutInv
  <1>6. \A a, b \in DOMAIN claims' : a # b => claims'[a].covered \cap claims'[b].covered = {}
    BY DEF CutInv
  <1> QED
    BY <1>3, <1>4, <1>5, <1>6 DEF CutInv

\* A stage that begins without claims.
LEMMA CutBegins ==
    ASSUME CutInv, UNCHANGED <<leaf_count, fan_in, current, levels>>, outcome \notin Refused,
           Tree, DOMAIN claims' = {}, outcome' # "merge"
    PROVE  CutInv'
  <1>1. Cardinality(DOMAIN claims') = 0 /\ {Leaf(s) : s \in 0..(0 - 1)} = {}
    BY FS_EmptySet
  <1>2. leaf_count' >= 1 /\ leaf_count' \in Nat
    BY DEF Tree
  <1>3. \A e \in Edges : e.consumer < leaf_count'
    BY DEF CutInv
  <1> QED
    BY <1>1, <1>2, <1>3 DEF CutInv

\* admit_leaf: the claims of the first leaves, one more.
LEMMA CutAdmits ==
    ASSUME AggregationInv, PlanInv, CutInv, HonestAccepted, admit_leaf
    PROVE  CutInv' /\ HonestAccepted'
  <1>k. PICK k : k = Cardinality(DOMAIN claims)
    OBVIOUS
  <1>p. PICK proof : proof = proofs[k + 1]
    OBVIOUS
  <1>1. /\ outcome = "admit" /\ k + 1 <= leaf_count /\ UNCHANGED <<leaf_count, fan_in, current, levels, proofs>>
        /\ IF proof.shard # (k + 1) - 1 THEN Fail("ChildOrderMismatch")
           ELSE IF LeafError(proof) # "none" THEN Fail(LeafError(proof))
           ELSE /\ claims' = [id \in DOMAIN claims \cup {Leaf(proof.shard)} |->
                                IF id = Leaf(proof.shard) THEN LeafClaim(proof) ELSE claims[id]]
                /\ outcome' = IF k + 1 = leaf_count THEN "merge" ELSE "admit"
    BY <1>k, <1>p DEF admit_leaf, Fail, request
  <1>2. k \in Nat /\ leaf_count \in Nat /\ IsFiniteSet(DOMAIN claims) /\ k < leaf_count /\ (k + 1) - 1 = k
    BY <1>k, <1>1, ClaimNumber DEF AggregationInv, ClaimsInv
  <1>3. DOMAIN claims = {Leaf(s) : s \in 0..(k - 1)}
    BY <1>k, <1>1 DEF CutInv
  <1>4. Tree /\ Len(current) = 1
    BY <1>1 DEF PlanInv, Refused
  <1>5. CASE proof.shard = k /\ LeafError(proof) = "none"
    <2>1. /\ claims' = [id \in DOMAIN claims \cup {Leaf(k)} |-> IF id = Leaf(k) THEN LeafClaim(proof) ELSE claims[id]]
          /\ outcome' = IF k + 1 = leaf_count THEN "merge" ELSE "admit"
      BY <1>1, <1>2, <1>5
    <2>2. Leaf(k) \notin DOMAIN claims
      <3> SUFFICES ASSUME NEW s \in 0..(k - 1), Leaf(k) = Leaf(s) PROVE FALSE
        BY <1>3
      <3>1. k = s
        BY IdFacts
      <3> QED
        BY <1>2, <3>1
    <2>3. DOMAIN claims' = DOMAIN claims \cup {Leaf(k)}
      BY <2>1
    <2>4. Cardinality(DOMAIN claims') = k + 1
      BY <1>k, <1>2, <2>2, <2>3, FS_AddElement
    <2>5. DOMAIN claims' = {Leaf(s) : s \in 0..((k + 1) - 1)}
      <3>1. 0..((k + 1) - 1) = 0..(k - 1) \cup {k}
        BY <1>2
      <3> QED
        BY <1>3, <2>3, <3>1
    <2>6. LeafClaim(proof).covered = {k}
      BY <1>5 DEF LeafClaim
    <2>7. \A s \in 0..(k - 1) : claims[Leaf(s)].covered = {s}
      <3> SUFFICES ASSUME NEW s \in 0..(k - 1) PROVE claims[Leaf(s)].covered = {s}
        OBVIOUS
      <3>1. s \in Shards
        BY <1>2 DEF Shards
      <3>2. Leaf(s) \in DOMAIN claims
        BY <1>3
      <3> QED
        BY <1>4, <3>1, <3>2, BelowFacts DEF PlanInv
    <2>8. ASSUME NEW a \in DOMAIN claims', NEW b \in DOMAIN claims', a # b
          PROVE  claims'[a].covered \cap claims'[b].covered = {}
      <3>1. ASSUME NEW id \in DOMAIN claims PROVE claims'[id].covered = claims[id].covered /\ k \notin claims[id].covered
        <4>1. PICK s \in 0..(k - 1) : id = Leaf(s)
          BY <1>3
        <4>2. k \notin {s}
          BY <1>2
        <4>3. id # Leaf(k)
          BY <2>2
        <4> QED
          BY <2>1, <2>7, <4>1, <4>2, <4>3
      <3>2. claims'[Leaf(k)].covered = {k}
        BY <2>1, <2>6
      <3>3. \A x, y \in DOMAIN claims : x # y => claims[x].covered \cap claims[y].covered = {}
        BY DEF CutInv
      <3> QED
        BY <2>3, <2>8, <3>1, <3>2, <3>3
    <2>9. outcome' = "merge" => \E d \in 0..Len(Nodes') : CutAt(d)'
      <3> SUFFICES ASSUME outcome' = "merge" PROVE CutAt(0)' /\ 0 \in 0..Len(Nodes')
        OBVIOUS
      <3>1. k + 1 = leaf_count
        BY <2>1
      <3>2. Nodes' = Nodes /\ Shards' = Shards /\ Len(Nodes) \in Nat
        BY <1>1, <1>4, PlanUnchanged DEF Tree
      <3>3. DOMAIN claims' = {Leaf(s) : s \in Shards}
        BY <2>5, <3>1 DEF Shards
      <3>4. 1..0 = {}
        OBVIOUS
      <3>5. \A id : (Reached(id, 0)' <=> \E s \in Shards : id = Leaf(s)) /\ ~Merged(id, 0)'
        BY <3>2, <3>4 DEF Reached, Merged
      <3>6. CutAt(0)'
        BY <3>3, <3>5 DEF CutAt
      <3> QED
        BY <3>2, <3>6
    <2>10. outcome' = "admit" => k + 1 < leaf_count
      BY <1>1, <1>2, <2>1
    <2>11. \A e \in Edges : e.consumer < leaf_count'
      BY <1>1 DEF CutInv, Refused
    <2>12. CutInv'
      BY <1>1, <2>4, <2>5, <2>8, <2>9, <2>10, <2>11 DEF CutInv
    <2>13. HonestAccepted'
      BY <2>1 DEF HonestAccepted, Working
    <2> QED
      BY <2>12, <2>13
  <1>6. CASE ~(proof.shard = k /\ LeafError(proof) = "none")
    <2>1. Fail("ChildOrderMismatch") \/ Fail(LeafError(proof))
      BY <1>1, <1>2, <1>6
    <2>2. UNCHANGED <<claims, proofs>> /\ outcome' \notin Refused \cup {"plan", "admit", "merge"}
      BY <1>1, <1>2, <1>6, ErrorsAreErrors, ErrorsAreLate DEF Fail, Refused
    <2>3. CutInv'
      BY <1>1, <2>2, CutUnchanged DEF Refused
    <2>4. ~AllHonest
      <3> SUFFICES ASSUME AllHonest PROVE FALSE
        OBVIOUS
      <3>1. Len(proofs) = leaf_count /\ k + 1 \in DOMAIN proofs
        BY <1>1, <1>2 DEF AggregationInv, ClaimsInv
      <3>2. proof.honest /\ proof.shard = k /\ proof \in HandedIn
        BY <1>p, <1>2, <3>1 DEF AllHonest, AggregationInv, ClaimsInv, Range
      <3>3. LeafError(proof) = "none"
        BY <3>2, HonestAssumption DEF HonestProofs
      <3> QED
        BY <1>6, <3>2, <3>3
    <2>5. HonestAccepted'
      BY <1>1, <2>4 DEF HonestAccepted, AllHonest
    <2> QED
      BY <2>3, <2>5
  <1> QED
    BY <1>5, <1>6

\* merge_node: the first node whose children have their claims is the next of the
\* plan, and nothing is wrong with the claims of honest proofs.
LEMMA CutMerges ==
    ASSUME AggregationInv, PlanInv, CutInv, HonestAccepted, merge_node
    PROVE  CutInv' /\ HonestAccepted'
  <1>1. PICK turn \in Pending :
            LET node == Nodes[turn]
                children == Children(node)
            IN  /\ outcome = "merge" /\ \A i \in Pending : turn <= i
                /\ IF MergeError(children) # "none" THEN Fail(MergeError(children))
                   ELSE /\ claims' = [id \in (DOMAIN claims \ Range(node.children)) \cup {node.id} |->
                                        IF id = node.id THEN MergedClaim(children) ELSE claims[id]]
                        /\ UNCHANGED <<request, current, levels, proofs, outcome, manifest, wire, built_from, verdict>>
    BY DEF merge_node
  <1> DEFINE node == Nodes[turn]
             children == Children(node)
  <1>2. /\ outcome = "merge" /\ UNCHANGED <<leaf_count, fan_in, current, levels, proofs>>
        /\ \A i \in Pending : turn <= i
    BY <1>1 DEF Fail, request
  <1>3. Tree /\ Len(current) = 1 /\ ClaimsInv
    BY <1>2 DEF PlanInv, Refused, AggregationInv
  <1>4. Len(Nodes) \in Nat /\ DOMAIN Nodes = 1..Len(Nodes) /\ turn \in DOMAIN Nodes
    BY <1>3 DEF Tree, Pending
  <1>5. PICK d \in 0..Len(Nodes) : CutAt(d)
    BY <1>2 DEF CutInv
  <1>6. d \in Nat /\ d < Len(Nodes) /\ turn = d + 1
    <2>1. turn > d
      BY <1>3, <1>5, NextNode
    <2>2. d < Len(Nodes)
      BY <1>4, <2>1
    <2>3. d + 1 \in Pending
      BY <1>3, <1>5, <2>2, NextNode
    <2>4. turn <= d + 1
      BY <1>2, <2>3
    <2> QED
      BY <1>4, <2>1, <2>2, <2>4
  <1>7. /\ DOMAIN children = DOMAIN node.children
        /\ \A i \in DOMAIN children : node.children[i] \in DOMAIN claims /\ children[i] = claims[node.children[i]]
    BY DEF Children, Pending, Range
  <1>8. \A i, k \in DOMAIN node.children : node.children[i] = node.children[k] => i = k
    BY <1>3, <1>4 DEF Tree, OneParent
  <1>9. \A a, b \in DOMAIN claims : a # b => claims[a].covered \cap claims[b].covered = {}
    BY DEF CutInv
  <1>10. \A i \in DOMAIN children : TrueClaim(proofs, children[i])
    BY <1>3, <1>7 DEF ClaimsInv
  <1>11. ~Clash(children, "covered")
    <2> HIDE DEF node, children
    <2> SUFFICES ASSUME NEW i \in DOMAIN children, NEW k \in DOMAIN children, i # k
                 PROVE  children[i].covered \cap children[k].covered = {}
      BY DEF Clash
    <2> QED
      BY <1>7, <1>8, <1>9
  <1>12. CASE MergeError(children) # "none"
    <2>1. Fail(MergeError(children))
      BY <1>1, <1>12
    <2>2. UNCHANGED claims /\ outcome' \notin Refused \cup {"plan", "admit", "merge"}
      BY <2>1, ErrorsAreErrors, ErrorsAreLate DEF Fail
    <2>3. CutInv'
      BY <1>2, <2>2, CutUnchanged DEF Refused
    <2>4. ~AllHonest
      BY <1>3, <1>10, <1>11, <1>12, HonestMerge
    <2>5. HonestAccepted'
      BY <1>2, <2>4 DEF HonestAccepted, AllHonest
    <2> QED
      BY <2>3, <2>5
  <1>13. CASE MergeError(children) = "none"
    <2>1. /\ claims' = [id \in (DOMAIN claims \ Range(node.children)) \cup {node.id} |->
                          IF id = node.id THEN MergedClaim(children) ELSE claims[id]]
          /\ UNCHANGED outcome
      BY <1>1, <1>13
    <2>2. DOMAIN claims' = (DOMAIN claims \ Range(Nodes[d + 1].children)) \cup {Nodes[d + 1].id}
      BY <1>6, <2>1
    <2>3. d \in 0..(Len(Nodes) - 1)
      BY <1>4, <1>6
    <2>4. CutAt(d + 1)'
      BY <1>2, <1>3, <1>5, <2>2, <2>3, CutMoves
    <2>5. Nodes' = Nodes /\ d + 1 \in 0..Len(Nodes')
      BY <1>2, <1>4, <1>6, PlanUnchanged
    <2>6. MergedClaim(children).covered = UNION {children[i].covered : i \in DOMAIN children}
      BY DEF MergedClaim, UnionOf
    <2>7. ASSUME NEW id \in DOMAIN claims \ Range(node.children)
          PROVE  claims[id].covered \cap MergedClaim(children).covered = {}
      <3>1. \A i \in DOMAIN children : id # node.children[i]
        BY <1>7 DEF Range
      <3> HIDE DEF node, children
      <3>2. \A i \in DOMAIN children : claims[id].covered \cap children[i].covered = {}
        BY <1>7, <1>9, <3>1
      <3> QED
        BY <2>6, <3>2
    <2>8. \A a, b \in DOMAIN claims' : a # b => claims'[a].covered \cap claims'[b].covered = {}
      <3> HIDE DEF node, children
      <3>1. claims'[node.id].covered = MergedClaim(children).covered
        BY <2>1
      <3>2. ASSUME NEW a \in DOMAIN claims', NEW b \in DOMAIN claims', a # b
            PROVE  claims'[a].covered \cap claims'[b].covered = {}
        <4>1. CASE a = node.id
          <5>1. b \in DOMAIN claims \ Range(node.children) /\ claims'[b] = claims[b]
            BY <2>1, <3>2, <4>1
          <5> QED
            BY <2>7, <3>1, <4>1, <5>1
        <4>2. CASE b = node.id
          <5>1. a \in DOMAIN claims \ Range(node.children) /\ claims'[a] = claims[a]
            BY <2>1, <3>2, <4>2
          <5> QED
            BY <2>7, <3>1, <4>2, <5>1
        <4>3. CASE a # node.id /\ b # node.id
          <5>1. a \in DOMAIN claims /\ b \in DOMAIN claims /\ claims'[a] = claims[a] /\ claims'[b] = claims[b]
            BY <2>1, <4>3
          <5> QED
            BY <1>9, <3>2, <5>1
        <4> QED
          BY <4>1, <4>2, <4>3
      <3> QED
        BY <3>2
    <2>9. CutInv'
      <3>1. outcome' = "merge" /\ \A e \in Edges : e.consumer < leaf_count'
        BY <1>2, <2>1 DEF CutInv, Refused
      <3>2. \E x \in 0..Len(Nodes') : CutAt(x)'
        BY <2>4, <2>5
      <3> QED
        BY <2>8, <3>1, <3>2 DEF CutInv
    <2>10. HonestAccepted'
      BY <1>2, <2>1 DEF HonestAccepted, Working
    <2> QED
      BY <2>9, <2>10
  <1> QED
    BY <1>12, <1>13

\* A true claim over all the shards has a leaf for each of them.
LEMMA LeavesCounted ==
    ASSUME NEW list, NEW c, TrueClaim(list, c), c.covered = Shards, leaf_count \in Nat
    PROVE  Cardinality(c.leaves) = leaf_count
  <1> DEFINE f == [s \in Shards |-> Bound(list, s)]
  <1>1. c.leaves = {Bound(list, s) : s \in Shards}
    BY DEF TrueClaim, CoverTrue
  <1>2. \A s, t \in Shards : f[s] = f[t] => s = t
    <2> SUFFICES ASSUME NEW s \in Shards, NEW t \in Shards, Bound(list, s) = Bound(list, t) PROVE s = t
      OBVIOUS
    <2>1. list[s + 1].shard = s /\ list[t + 1].shard = t
      BY DEF TrueClaim, CoverTrue, Admitted
    <2> QED
      BY <2>1 DEF Bound
  <1>3. f \in [Shards -> c.leaves] /\ \A x \in c.leaves : \E s \in Shards : f[s] = x
    BY <1>1
  <1>4. f \in Bijection(Shards, c.leaves)
    BY <1>2, <1>3 DEF Bijection, Injection, Surjection, IsInjective
  <1>5. ExistsBijection(Shards, c.leaves)
    BY <1>4 DEF ExistsBijection
  <1>6. IsFiniteSet(Shards) /\ Cardinality(Shards) = leaf_count
    <2>1. 0 \in Int /\ leaf_count - 1 \in Int
      OBVIOUS
    <2>2. IsFiniteSet(Shards) /\ Cardinality(Shards) = IF 0 > leaf_count - 1 THEN 0 ELSE (leaf_count - 1) - 0 + 1
      BY <2>1, FS_Interval DEF Shards
    <2> QED
      BY <2>2
  <1> QED
    BY <1>5, <1>6, FS_Bijection

\* finalize_native_manifest: what is left is the claim of the root, over all the
\* shards, with no edge open.
LEMMA CutFinishes ==
    ASSUME AggregationInv, PlanInv, CutInv, HonestAccepted, finalize_native_manifest
    PROVE  outcome' = "manifest"
  <1> DEFINE root == claims[Root]
  <1>1. outcome = "merge" /\ Pending = {}
    BY DEF finalize_native_manifest
  <1>2. Tree /\ Len(current) = 1 /\ ClaimsInv /\ leaf_count \in Nat
    BY <1>1 DEF PlanInv, Refused, AggregationInv, ClaimsInv
  <1>3. PICK d \in 0..Len(Nodes) : CutAt(d)
    BY <1>1 DEF CutInv
  <1>4. Len(Nodes) \in Nat
    BY <1>2 DEF Tree
  <1>5. ~(d < Len(Nodes))
    BY <1>1, <1>2, <1>3, NextNode
  <1>6. d = Len(Nodes)
    BY <1>4, <1>5
  <1>7. DOMAIN claims = {Root}
    BY <1>2, <1>3, <1>6, NextNode
  <1>8. root.covered = Shards
    BY <1>2, <1>7, OrphansCover DEF PlanInv
  <1>9. TrueClaim(proofs, root)
    BY <1>2, <1>7 DEF ClaimsInv
  <1> HIDE DEF root
  <1>10. \A e \in Edges : e.producer \in Shards /\ e.consumer \in Shards
    <2> SUFFICES ASSUME NEW e \in Edges PROVE e.producer \in Shards /\ e.consumer \in Shards
      OBVIOUS
    <2>1. e.consumer < leaf_count
      BY <1>1 DEF CutInv, Refused
    <2> QED
      BY <1>2, <2>1, EdgesAssumption DEF Shards
  <1>11. EdgeIds \subseteq root.closed /\ DOMAIN root.frontier = {}
    <2>1. Inner(root) = Edges /\ Crossing(root) = {}
      BY <1>8, <1>10 DEF Inner, Crossing
    <2>2. root.closed = {e.id : e \in Inner(root)} /\ DOMAIN root.frontier = {e.id : e \in Crossing(root)}
      BY <1>9 DEF TrueClaim, FrontierTrue
    <2> QED
      BY <2>1, <2>2 DEF EdgeIds
  <1>12. Cardinality(root.leaves) = leaf_count
    BY <1>2, <1>8, <1>9, LeavesCounted
  <1> QED
    BY <1>7, <1>8, <1>11, <1>12 DEF finalize_native_manifest, root

\* Every step keeps the cut, and gives honest proofs no error.
LEMMA CutStep ==
    ASSUME AggregationInv, PlanInv, CutInv, HonestAccepted, [AggregationNext]_aggregationVars
    PROVE  CutInv' /\ HonestAccepted'
  <1>1. CASE plan_level
    <2>1. outcome = "plan" /\ UNCHANGED <<leaf_count, outcome, claims, proofs>>
      BY <1>1 DEF plan_level, request
    <2> QED
      BY <2>1 DEF CutInv, HonestAccepted
  <1>2. CASE plan_done
    <2>1. /\ outcome = "plan" /\ UNCHANGED <<leaf_count, fan_in, current, levels, claims, proofs>>
          /\ outcome' = IF Len(proofs) = leaf_count THEN "admit" ELSE "MissingLeaf"
      BY <1>2 DEF plan_done, Fail, request
    <2>2. Tree /\ DOMAIN claims' = {}
      BY <2>1 DEF PlanInv, Refused
    <2>3. CutInv'
      BY <2>1, <2>2, CutBegins DEF Refused
    <2> QED
      BY <2>1, <2>3 DEF HonestAccepted, Working
  <1>3. CASE admit_leaf
    BY <1>3, CutAdmits
  <1>4. CASE merge_node
    BY <1>4, CutMerges
  <1>5. CASE finalize_native_manifest
    <2>1. outcome = "merge" /\ outcome' = "manifest"
      BY <1>5, CutFinishes DEF finalize_native_manifest
    <2>2. UNCHANGED <<leaf_count, fan_in, current, levels, claims>>
      BY <1>5 DEF finalize_native_manifest, Fail, request
    <2>3. CutInv'
      BY <2>1, <2>2, CutUnchanged DEF Refused
    <2> QED
      BY <2>1, <2>3 DEF HonestAccepted
  <1>6. CASE send_manifest
    <2>1. /\ outcome = "manifest" /\ UNCHANGED <<leaf_count, fan_in, current, levels>> /\ DOMAIN claims' = {}
          /\ outcome' = IF Len(proofs') = leaf_count THEN "admit" ELSE "MissingLeaf"
      BY <1>6 DEF send_manifest, request, NoClaims
    <2>2. Tree
      BY <2>1 DEF PlanInv, Refused
    <2>3. CutInv'
      BY <2>1, <2>2, CutBegins DEF Refused
    <2> QED
      BY <2>1, <2>3 DEF HonestAccepted, Working
  <1>7. CASE UNCHANGED aggregationVars
    <2>1. UNCHANGED <<leaf_count, fan_in, current, levels, claims, outcome, proofs>>
      BY <1>7 DEF aggregationVars, request
    <2>2. CutInv'
      BY <2>1, CutUnchanged
    <2> QED
      BY <2>1, <2>2 DEF HonestAccepted
  <1> QED
    BY <1>1, <1>2, <1>3, <1>4, <1>5, <1>6, <1>7 DEF AggregationNext

\* For every plan, DAG and list of proofs: whoever holds the proofs of one run of
\* the program gets its manifest, and a manifest is given only to proofs that
\* agree on every edge and input and declare every output.
THEOREM ManifestStaysExact == AggregationSpec => []ManifestExact
  <1>1. AggregationSpec => [](AggregationInv /\ PlanInv /\ CutInv /\ HonestAccepted)
    BY AggregationStarts, AggregationKeepsInvariant, PlanStarts, PlanStep, CutStarts, CutStep, PTL DEF AggregationSpec
  <1>2. AggregationInv /\ HonestAccepted => ManifestExact
    BY ManifestFacts DEF ManifestExact
  <1> QED
    BY <1>1, <1>2, PTL
=============================================================================
