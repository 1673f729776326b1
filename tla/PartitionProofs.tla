--------------------------- MODULE PartitionProofs ---------------------------
(***************************************************************************)
(* Theorems about the partition planner and the linking of shard proofs,   *)
(* for every program, cost model, set of hints and request: a plan is a    *)
(* partition whose shards fit, its DAG has exactly the edges between them, *)
(* and proofs that link are about one run of the program.  And about the   *)
(* binding of weights to shards: the programs of the shards, each run on   *)
(* the values the earlier ones hand over, compute what the whole program   *)
(* computes, and the two shards at an edge are given the same descriptor.  *)
(* And about the witness generator: an artifact it accepts is an execution *)
(* of its shard, and the relocated program computes that artifact.         *)
(***************************************************************************)
EXTENDS Partition, ShardBinding, Witness, FiniteSetTheorems, WellFoundedInduction, TLAPS

-----------------------------------------------------------------------------
(* Registers in the order of their producers *)

\* A set that has 0 and with every number its successor has all numbers.
LEMMA NumbersInSet ==
    ASSUME NEW S, 0 \in S, \A n \in Nat : n \in S => n + 1 \in S
    PROVE  Nat \subseteq S
  <1> DEFINE T == Nat \ S
  <1> SUFFICES ASSUME T # {} PROVE FALSE
    OBVIOUS
  <1>1. \E x \in T : \A y \in T : ~(<<y, x>> \in OpToRel(<, Nat))
    BY NatLessThanWellFounded, WFMin
  <1>2. PICK x \in T : \A y \in T : ~(<<y, x>> \in OpToRel(<, Nat))
    BY <1>1
  <1>3. \A y \in Nat : y < x => <<y, x>> \in OpToRel(<, Nat)
    BY DEF OpToRel
  <1>4. \A y \in T : ~(y < x)
    BY <1>2, <1>3
  <1>5. x \in Nat /\ x # 0
    OBVIOUS
  <1>6. x - 1 \in Nat /\ x - 1 < x /\ (x - 1) + 1 = x
    BY <1>5
  <1>7. x - 1 \in S
    BY <1>4, <1>6
  <1> QED
    BY <1>6, <1>7

\* Listed by how many precede them, the elements of a finite set that is totally
\* ordered come all, each once, and in order.
LEMMA RankFacts ==
    ASSUME NEW S, IsFiniteSet(S), NEW below \in [S -> SUBSET S],
           \A x \in S : x \notin below[x],
           \A x, y \in S : x = y \/ x \in below[y] \/ y \in below[x],
           \A x, y \in S : x \in below[y] => below[x] \subseteq below[y]
    PROVE  /\ Cardinality(S) \in Nat /\ Ordered(below) \in [1..Cardinality(S) -> S]
           /\ ToSet(Ordered(below)) = S /\ IsInjective(Ordered(below))
           /\ \A i, j \in 1..Cardinality(S) : i < j => Ordered(below)[i] \in below[Ordered(below)[j]]
  <1> DEFINE n == Cardinality(S)
             list == Ordered(below)
             rank == [x \in S |-> Cardinality(below[x])]
  <1>1. n \in Nat
    BY FS_CardinalityType
  <1>2. \A x \in S : IsFiniteSet(below[x]) /\ Cardinality(below[x]) \in Nat
    BY FS_Subset, FS_CardinalityType
  <1>3. ASSUME NEW x \in S PROVE Cardinality(below[x]) \in 0..(n - 1)
    <2>1. below[x] \in SUBSET S /\ below[x] # S
      OBVIOUS
    <2>2. Cardinality(below[x]) <= Cardinality(S) /\ (Cardinality(S) = Cardinality(below[x]) => S = below[x])
      BY <2>1, FS_Subset
    <2> QED
      BY <1>1, <1>2, <2>1, <2>2
  <1>4. ASSUME NEW x \in S, NEW y \in S, x \in below[y] PROVE Cardinality(below[x]) < Cardinality(below[y])
    <2>1. below[x] \in SUBSET below[y] /\ below[x] # below[y]
      BY <1>4
    <2>2. Cardinality(below[x]) <= Cardinality(below[y]) /\ (Cardinality(below[y]) = Cardinality(below[x]) => below[y] = below[x])
      BY <1>2, <2>1, FS_Subset
    <2> QED
      BY <1>2, <2>1, <2>2
  <1>5. ASSUME NEW x \in S, NEW y \in S, Cardinality(below[x]) = Cardinality(below[y]) PROVE x = y
    BY <1>2, <1>4, <1>5
  <1>6. rank \in [S -> 0..(n - 1)]
    BY <1>3
  <1>7. rank \in Injection(S, 0..(n - 1))
    BY <1>5, <1>6 DEF Injection, IsInjective
  <1>8. IsFiniteSet(0..(n - 1)) /\ Cardinality(0..(n - 1)) = n
    <2>1. 0 \in Int /\ n - 1 \in Int
      BY <1>1
    <2>2. IsFiniteSet(0..(n - 1)) /\ Cardinality(0..(n - 1)) = IF 0 > n - 1 THEN 0 ELSE (n - 1) - 0 + 1
      BY <2>1, FS_Interval
    <2> QED
      BY <1>1, <2>2
  <1>9. rank \in Surjection(S, 0..(n - 1))
    BY <1>7, <1>8, FS_Injection
  <1>10. \A k \in 1..n : \E x \in S : Cardinality(below[x]) = k - 1
    <2> SUFFICES ASSUME NEW k \in 1..n PROVE \E x \in S : Cardinality(below[x]) = k - 1
      OBVIOUS
    <2>1. k - 1 \in 0..(n - 1)
      BY <1>1
    <2>2. PICK x \in S : rank[x] = k - 1
      BY <1>9, <2>1 DEF Surjection
    <2> QED
      BY <2>2
  <1>11. ASSUME NEW k \in 1..n PROVE list[k] \in S /\ Cardinality(below[list[k]]) = k - 1
    <2>1. list[k] = CHOOSE x \in S : Cardinality(below[x]) = k - 1
      BY DEF Ordered
    <2> QED
      BY <1>10, <2>1
  <1>12. DOMAIN list = 1..n /\ list \in [1..n -> S]
    <2>1. list = [k \in 1..n |-> list[k]]
      BY DEF Ordered
    <2> QED
      BY <1>11, <2>1
  <1>13. ASSUME NEW x \in S PROVE Cardinality(below[x]) + 1 \in 1..n /\ list[Cardinality(below[x]) + 1] = x
    <2>1. Cardinality(below[x]) + 1 \in 1..n
      BY <1>1, <1>3
    <2>2. /\ list[Cardinality(below[x]) + 1] \in S
          /\ Cardinality(below[list[Cardinality(below[x]) + 1]]) = (Cardinality(below[x]) + 1) - 1
      BY <1>11, <2>1
    <2> QED
      BY <1>2, <1>5, <2>1, <2>2
  <1> HIDE DEF list
  <1>14. ToSet(list) = S
    <2>1. \A x \in S : \E k \in DOMAIN list : list[k] = x
      BY <1>12, <1>13
    <2> QED
      BY <1>12, <2>1 DEF ToSet
  <1>15. IsInjective(list)
    <2> SUFFICES ASSUME NEW i \in 1..n, NEW j \in 1..n, list[i] = list[j] PROVE i = j
      BY <1>12 DEF IsInjective
    <2>1. i - 1 = j - 1
      BY <1>11
    <2> QED
      BY <2>1
  <1>16. ASSUME NEW i \in 1..n, NEW j \in 1..n, i < j PROVE list[i] \in below[list[j]]
    <2> DEFINE x == list[i]
               y == list[j]
    <2>1. x \in S /\ y \in S /\ Cardinality(below[x]) = i - 1 /\ Cardinality(below[y]) = j - 1
      BY <1>11
    <2> HIDE DEF x, y
    <2>2. x # y
      BY <1>16, <2>1
    <2>3. ~(y \in below[x])
      BY <1>4, <1>16, <2>1
    <2>4. x \in below[y]
      BY <2>1, <2>2, <2>3
    <2> QED
      BY <2>4 DEF x, y
  <1> QED
    BY <1>1, <1>12, <1>14, <1>15, <1>16 DEF list

RegistersBefore(n) == {Virtual(i) : i \in 0..(n - 1)}

\* There are finitely many results of the first n instructions.
LEMMA RegistersBeforeFinite ==
    ASSUME NEW n \in Nat, NEW S \in SUBSET RegistersBefore(n)
    PROVE  IsFiniteSet(S)
  <1> DEFINE T == {Virtual(i) : i \in 0..(n - 1)}
             f == [i \in 0..(n - 1) |-> Virtual(i)]
  <1>1. IsFiniteSet(0..(n - 1))
    BY FS_Interval
  <1>2. f \in Surjection(0..(n - 1), T)
    BY DEF Surjection
  <1>3. IsFiniteSet(T)
    BY <1>1, <1>2, FS_Surjection
  <1> QED
    BY <1>3, FS_Subset DEF RegistersBefore

\* The registers of a shard's side are listed completely, each once, in the order
\* of the instructions.
LEMMA ByIndexFacts ==
    ASSUME NEW n \in Nat, NEW S \in SUBSET RegistersBefore(n)
    PROVE  /\ ToSet(ByIndex(S)) = S /\ IsInjective(ByIndex(S))
           /\ Cardinality(S) \in Nat /\ ByIndex(S) \in [1..Cardinality(S) -> S]
           /\ \A i, j \in 1..Cardinality(S) : i < j => ByIndex(S)[i][2] < ByIndex(S)[j][2]
  <1> DEFINE below == [x \in S |-> {y \in S : y[2] < x[2]}]
  <1>1. IsFiniteSet(S)
    BY RegistersBeforeFinite
  <1>2. \A r \in S : r = Virtual(r[2]) /\ r[2] \in Nat
    BY DEF RegistersBefore, Virtual
  <1>3. below \in [S -> SUBSET S] /\ (\A x \in S : below[x] = {y \in S : y[2] < x[2]})
    OBVIOUS
  <1>4. \A x \in S : x \notin below[x]
    BY <1>2
  <1>5. \A x, y \in S : x = y \/ x \in below[y] \/ y \in below[x]
    BY <1>2
  <1>6. \A x, y \in S : x \in below[y] => below[x] \subseteq below[y]
    BY <1>2
  <1>7. ByIndex(S) = Ordered(below)
    BY DEF ByIndex
  <1> HIDE DEF below
  <1>8. /\ Cardinality(S) \in Nat /\ Ordered(below) \in [1..Cardinality(S) -> S]
        /\ ToSet(Ordered(below)) = S /\ IsInjective(Ordered(below))
        /\ \A i, j \in 1..Cardinality(S) : i < j => Ordered(below)[i] \in below[Ordered(below)[j]]
    BY <1>1, <1>3, <1>4, <1>5, <1>6, RankFacts
  <1> QED
    BY <1>3, <1>7, <1>8

-----------------------------------------------------------------------------
(* The DAG of a partition *)

\* An edge carries the result of an instruction from its shard to another one.
LEMMA EdgeFacts ==
    ASSUME NEW prog, NEW specs
    PROVE  /\ \A e \in Edges(prog, specs) : \E p \in Indices(prog) :
                /\ e.register = Virtual(p) /\ e.producer = shard_of(specs, p)
                /\ e.consumer \in consumers_of(prog, specs, p)
           /\ \A p \in Indices(prog) : \A c \in consumers_of(prog, specs, p) :
                \E e \in Edges(prog, specs) : /\ e.register = Virtual(p) /\ e.producer = shard_of(specs, p)
                                              /\ e.consumer = c
  <1>1. ASSUME NEW e \in Edges(prog, specs)
        PROVE  \E p \in Indices(prog) : /\ e.register = Virtual(p) /\ e.producer = shard_of(specs, p)
                                        /\ e.consumer \in consumers_of(prog, specs, p)
    <2>p. PICK p \in Indices(prog) : \E c \in consumers_of(prog, specs, p) :
            e = [producer |-> shard_of(specs, p), consumer |-> c, register |-> Virtual(p),
                 kind |-> Kind(specs, p, consumers_of(prog, specs, p))]
      BY DEF Edges
    <2>1. PICK c \in consumers_of(prog, specs, p) :
            e = [producer |-> shard_of(specs, p), consumer |-> c, register |-> Virtual(p),
                 kind |-> Kind(specs, p, consumers_of(prog, specs, p))]
      BY <2>p
    <2> QED
      BY <2>1
  <1>2. ASSUME NEW p \in Indices(prog), NEW c \in consumers_of(prog, specs, p)
        PROVE  \E e \in Edges(prog, specs) : /\ e.register = Virtual(p) /\ e.producer = shard_of(specs, p)
                                             /\ e.consumer = c
    <2> DEFINE e == [producer |-> shard_of(specs, p), consumer |-> c, register |-> Virtual(p),
                     kind |-> Kind(specs, p, consumers_of(prog, specs, p))]
    <2>1. e \in Edges(prog, specs)
      BY DEF Edges
    <2> QED
      BY <2>1
  <1> QED
    BY <1>1, <1>2

\* Two edges with one register have one producer.
LEMMA RegisterHasOneProducer ==
    ASSUME NEW prog, NEW specs, NEW e \in Edges(prog, specs), NEW f \in Edges(prog, specs), e.register = f.register
    PROVE  e.producer = f.producer
  BY EdgeFacts DEF Virtual

\* build_dag: the edges are the uses of a result in another shard.
LEMMA EdgesAreUses ==
    ASSUME NEW prog, NEW specs
    PROVE  {<<e.producer, e.consumer, e.register>> : e \in Edges(prog, specs)} =
               {<<shard_of(specs, u[1]), shard_of(specs, u[2]), Virtual(u[1])>> :
                   u \in {v \in Indices(prog) \X Indices(prog) :
                       v[1] \in Reads(prog, v[2]) /\ shard_of(specs, v[1]) # shard_of(specs, v[2])}}
  <1> DEFINE triples == {<<e.producer, e.consumer, e.register>> : e \in Edges(prog, specs)}
             uses == {v \in Indices(prog) \X Indices(prog) :
                        v[1] \in Reads(prog, v[2]) /\ shard_of(specs, v[1]) # shard_of(specs, v[2])}
             used == {<<shard_of(specs, u[1]), shard_of(specs, u[2]), Virtual(u[1])>> : u \in uses}
  <1>1. ASSUME NEW e \in Edges(prog, specs) PROVE <<e.producer, e.consumer, e.register>> \in used
    <2>1. PICK p \in Indices(prog) : /\ e.register = Virtual(p) /\ e.producer = shard_of(specs, p)
                                     /\ e.consumer \in consumers_of(prog, specs, p)
      BY EdgeFacts
    <2>2. PICK i \in Indices(prog) : p \in Reads(prog, i) /\ e.consumer = shard_of(specs, i) /\ shard_of(specs, i) # shard_of(specs, p)
      BY <2>1 DEF consumers_of
    <2>3. <<p, i>> \in uses
      BY <2>2
    <2>4. <<e.producer, e.consumer, e.register>> = <<shard_of(specs, <<p, i>>[1]), shard_of(specs, <<p, i>>[2]), Virtual(<<p, i>>[1])>>
      BY <2>1, <2>2
    <2> HIDE DEF uses
    <2> QED
      BY <2>3, <2>4
  <1>2. ASSUME NEW u \in uses PROVE <<shard_of(specs, u[1]), shard_of(specs, u[2]), Virtual(u[1])>> \in triples
    <2>1. u[1] \in Indices(prog) /\ u[2] \in Indices(prog) /\ u[1] \in Reads(prog, u[2])
          /\ shard_of(specs, u[1]) # shard_of(specs, u[2])
      OBVIOUS
    <2> HIDE DEF uses, triples
    <2>2. shard_of(specs, u[2]) \in consumers_of(prog, specs, u[1])
      BY <2>1 DEF consumers_of
    <2>e. \A p \in Indices(prog) : \A c \in consumers_of(prog, specs, p) :
            \E e \in Edges(prog, specs) : /\ e.register = Virtual(p) /\ e.producer = shard_of(specs, p)
                                          /\ e.consumer = c
      BY EdgeFacts
    <2>3. PICK e \in Edges(prog, specs) : /\ e.register = Virtual(u[1]) /\ e.producer = shard_of(specs, u[1])
                                          /\ e.consumer = shard_of(specs, u[2])
      BY <2>1, <2>2, <2>e
    <2> QED
      BY <2>3 DEF triples
  <1> QED
    BY <1>1, <1>2

\* The sides of a shard have the registers of its edges, each once.
LEMMA ShardFacts ==
    ASSUME NEW prog, Len(prog) \in Nat, NEW specs, NEW s \in DOMAIN specs
    PROVE  LET shard == Shards(prog, specs)[s]
           IN  /\ ToSet(shard.inputs) = {e.register : e \in {e \in Edges(prog, specs) : e.consumer = s}}
               /\ ToSet(shard.outputs) = {e.register : e \in {e \in Edges(prog, specs) : e.producer = s}}
               /\ IsInjective(shard.inputs) /\ IsInjective(shard.outputs)
  <1> DEFINE ins == {e.register : e \in {e \in Edges(prog, specs) : e.consumer = s}}
             outs == {e.register : e \in {e \in Edges(prog, specs) : e.producer = s}}
  <1>1. \A e \in Edges(prog, specs) : e.register \in RegistersBefore(Len(prog))
    BY EdgeFacts DEF RegistersBefore, Indices
  <1>2. ins \in SUBSET RegistersBefore(Len(prog)) /\ outs \in SUBSET RegistersBefore(Len(prog))
    BY <1>1
  <1>3. Shards(prog, specs)[s].inputs = ByIndex(ins) /\ Shards(prog, specs)[s].outputs = ByIndex(outs)
    BY DEF Shards
  <1> HIDE DEF ins, outs
  <1>4. ToSet(ByIndex(ins)) = ins /\ IsInjective(ByIndex(ins)) /\ ToSet(ByIndex(outs)) = outs /\ IsInjective(ByIndex(outs))
    BY <1>2, ByIndexFacts
  <1> QED
    BY <1>3, <1>4 DEF ins, outs

-----------------------------------------------------------------------------
(* The planner's invariant *)

PlanTypeOK ==
    /\ program \in Seq(ToSet(program))
    /\ DOMAIN hints \subseteq Nat
    /\ start \in Nat /\ end \in Nat /\ start <= end /\ end <= Len(program)
    /\ ranges \in Seq([start : Nat, end : Nat])

\* The shards so far follow each other, none is empty, and they reach to start.
Chained ==
    /\ \A s \in DOMAIN ranges : ranges[s].start < ranges[s].end /\ ranges[s].end <= start
    /\ \A s, t \in DOMAIN ranges : s < t => ranges[s].end <= ranges[t].start
    /\ \A i \in 0..(start - 1) : \E s \in DOMAIN ranges : InRange(ranges[s], i)

\* Every length that the shard under construction has had was accepted: a hint
\* may cut at any of them.
PrefixesFit == plan = "growing" => \A e \in (start + 1)..end : ~range_exceeds(start, e)

\* A plan is what build_dag made of all the shards.
DagInv ==
    Planned => /\ start = Len(program)
               /\ plan_dag = [ok |-> TRUE, shards |-> Shards(program, ranges), edges |-> Edges(program, ranges)]

LinkInv == plan = "linked" => EdgesMatch /\ Len(witness) = Len(plan_dag.shards)

WitnessInv == \E S : witness \in Seq(S)

PlanInv == PlanTypeOK /\ Chained /\ PrefixesFit /\ ShardsFit /\ DagInv /\ WitnessInv /\ LinkInv

\* Planning starts with nothing in a shard.
LEMMA PlanStarts == PlanInit => PlanInv
  <1> SUFFICES ASSUME PlanInit PROVE PlanInv
    OBVIOUS
  <1>1. program \in Seq(ToSet(program)) /\ DOMAIN hints \subseteq Nat
    BY PartitionAssumption DEF PlanInit
  <1>2. start = 0 /\ end = 0 /\ ranges = <<>> /\ witness = <<>> /\ plan \in {"refused", "growing"}
    BY DEF PlanInit
  <1>3. PlanTypeOK
    BY <1>1, <1>2 DEF PlanTypeOK
  <1>4. Chained /\ PrefixesFit /\ ShardsFit /\ DagInv /\ LinkInv
    BY <1>2 DEF Chained, PrefixesFit, ShardsFit, DagInv, LinkInv, Planned
  <1>5. WitnessInv
    BY <1>2 DEF WitnessInv, Planned
  <1> QED
    BY <1>3, <1>4, <1>5 DEF PlanInv

\* A new shard has its first instruction, which fits alone.
LEMMA BeginShard == PlanInv /\ begin_shard => PlanInv'
  <1> SUFFICES ASSUME PlanInv, begin_shard PROVE PlanInv'
    OBVIOUS
  <1>1. UNCHANGED <<program, costs, cost_model, hints, start, ranges, plan_dag, witness>>
    BY DEF begin_shard, request
  <1>2. plan = "growing" /\ end = start /\ start < Len(program) /\ start \in Nat /\ Len(program) \in Nat
    BY DEF begin_shard, PlanInv, PlanTypeOK
  <1>3. \/ plan' = "refused" /\ end' = end
        \/ end' = start + 1 /\ plan' = "growing" /\ ~range_exceeds(start, start + 1)
    BY <1>2 DEF begin_shard
  <1>4. plan' \in {"refused", "growing"}
    BY <1>3
  <1>5. PlanTypeOK'
    BY <1>1, <1>2, <1>3 DEF PlanInv, PlanTypeOK
  <1>6. PrefixesFit'
    <2> SUFFICES ASSUME plan' = "growing", NEW e \in (start' + 1)..end' PROVE ~exceeds(costs', cost_model', start', e)
      BY DEF PrefixesFit, range_exceeds
    <2>1. e = start + 1
      BY <1>1, <1>2, <1>3
    <2> QED
      BY <1>1, <1>3, <2>1 DEF range_exceeds
  <1>7. Chained' /\ ShardsFit'
    BY <1>1 DEF PlanInv, Chained, ShardsFit, range_exceeds
  <1>8. DagInv' /\ WitnessInv' /\ LinkInv'
    BY <1>1, <1>4 DEF PlanInv, DagInv, WitnessInv, LinkInv, Planned
  <1> QED
    BY <1>5, <1>6, <1>7, <1>8 DEF PlanInv

\* A shard grows only to a length that fits.
LEMMA GrowShard == PlanInv /\ grow_shard => PlanInv'
  <1> SUFFICES ASSUME PlanInv, grow_shard PROVE PlanInv'
    OBVIOUS
  <1>1. UNCHANGED <<program, costs, cost_model, hints, start, ranges, plan_dag, witness, plan>>
    BY DEF grow_shard, request
  <1>2. /\ plan = "growing" /\ end < Len(program) /\ start \in Nat /\ end \in Nat /\ start <= end
        /\ Len(program) \in Nat /\ end' = end + 1 /\ ~range_exceeds(start, end + 1)
    BY DEF grow_shard, CanGrow, PlanInv, PlanTypeOK
  <1>3. PlanTypeOK'
    BY <1>1, <1>2 DEF PlanInv, PlanTypeOK
  <1>4. PrefixesFit'
    <2> SUFFICES ASSUME NEW e \in (start' + 1)..end' PROVE ~exceeds(costs', cost_model', start', e)
      BY DEF PrefixesFit, range_exceeds
    <2>1. e = end + 1 \/ e \in (start + 1)..end
      BY <1>1, <1>2
    <2>2. ~range_exceeds(start, e)
      BY <1>2, <2>1 DEF PlanInv, PrefixesFit
    <2> QED
      BY <1>1, <2>2 DEF range_exceeds
  <1>5. Chained' /\ ShardsFit'
    BY <1>1 DEF PlanInv, Chained, ShardsFit, range_exceeds
  <1>6. DagInv' /\ WitnessInv' /\ LinkInv'
    BY <1>1, <1>2 DEF PlanInv, DagInv, WitnessInv, LinkInv, Planned
  <1> QED
    BY <1>3, <1>4, <1>5, <1>6 DEF PlanInv

\* Appending leaves a sequence's other elements alone.
LEMMA AppendFacts ==
    ASSUME NEW S, NEW seq \in Seq(S), NEW x \in S
    PROVE  /\ Append(seq, x) \in Seq(S)
           /\ DOMAIN Append(seq, x) = 1..(Len(seq) + 1) /\ DOMAIN seq = 1..Len(seq) /\ Len(seq) \in Nat
           /\ \A s \in DOMAIN seq : Append(seq, x)[s] = seq[s] /\ seq[s] \in S
           /\ Append(seq, x)[Len(seq) + 1] = x
  OBVIOUS

\* A closed shard ends at a length that was accepted, and the next one starts there.
LEMMA CloseShard == PlanInv /\ close_shard => PlanInv'
  <1> SUFFICES ASSUME PlanInv, close_shard PROVE PlanInv'
    OBVIOUS
  <1> DEFINE cut == IF end < Len(program) /\ best_hint # {} THEN CHOOSE b \in best_hint : TRUE ELSE end
             shard == [start |-> start, end |-> cut]
  <1>1. UNCHANGED <<program, costs, cost_model, hints, plan_dag, witness>>
    BY DEF close_shard, request
  <1>2. /\ plan = "growing" /\ start < end /\ start \in Nat /\ end \in Nat /\ end <= Len(program)
        /\ Len(program) \in Nat /\ ranges \in Seq([start : Nat, end : Nat])
    BY DEF close_shard, PlanInv, PlanTypeOK
  <1>3. cut \in Nat /\ start < cut /\ cut <= end
    <2>1. CASE end < Len(program) /\ best_hint # {}
      <3>1. cut \in best_hint
        BY <2>1
      <3>2. cut \in DOMAIN hints /\ cut > start /\ cut <= end
        BY <3>1 DEF best_hint
      <3> QED
        BY <3>2 DEF PlanInv, PlanTypeOK
    <2>2. CASE ~(end < Len(program) /\ best_hint # {})
      BY <1>2, <2>2
    <2> QED
      BY <2>1, <2>2
  <1>4. /\ ranges' = Append(ranges, shard) /\ start' = cut /\ end' = cut /\ plan' = plan
    <2>1. IF cut <= start
           THEN plan' = "refused" /\ UNCHANGED <<start, end, ranges>>
           ELSE /\ ranges' = Append(ranges, [start |-> start, end |-> cut])
                /\ start' = cut /\ end' = cut
                /\ UNCHANGED plan
      BY DEF close_shard
    <2> HIDE DEF cut
    <2> QED
      BY <1>2, <1>3, <2>1
  <1>5. ~range_exceeds(start, cut)
    BY <1>2, <1>3 DEF PlanInv, PrefixesFit
  <1> HIDE DEF cut
  <1>6. shard \in [start : Nat, end : Nat] /\ shard.start = start /\ shard.end = cut
    BY <1>2, <1>3
  <1> HIDE DEF shard
  <1>7. /\ ranges' \in Seq([start : Nat, end : Nat])
        /\ DOMAIN ranges' = 1..(Len(ranges) + 1) /\ DOMAIN ranges = 1..Len(ranges) /\ Len(ranges) \in Nat
        /\ \A s \in DOMAIN ranges : ranges'[s] = ranges[s] /\ ranges[s] \in [start : Nat, end : Nat]
        /\ ranges'[Len(ranges) + 1] = shard
    <2> DEFINE RangeSet == [start : Nat, end : Nat]
    <2>1. ranges \in Seq(RangeSet) /\ shard \in RangeSet
      BY <1>2, <1>6
    <2> HIDE DEF RangeSet
    <2>2. /\ Append(ranges, shard) \in Seq(RangeSet)
          /\ DOMAIN Append(ranges, shard) = 1..(Len(ranges) + 1) /\ DOMAIN ranges = 1..Len(ranges) /\ Len(ranges) \in Nat
          /\ \A s \in DOMAIN ranges : Append(ranges, shard)[s] = ranges[s] /\ ranges[s] \in RangeSet
          /\ Append(ranges, shard)[Len(ranges) + 1] = shard
      BY <2>1, AppendFacts
    <2> QED
      BY <1>4, <2>2 DEF RangeSet
  <1>8. PlanTypeOK'
    BY <1>1, <1>2, <1>3, <1>4, <1>7 DEF PlanInv, PlanTypeOK
  <1>9. Chained'
    <2>1. ASSUME NEW s \in DOMAIN ranges' PROVE ranges'[s].start < ranges'[s].end /\ ranges'[s].end <= start'
      <3>1. CASE s \in DOMAIN ranges
        BY <1>2, <1>3, <1>4, <1>7, <3>1 DEF PlanInv, Chained
      <3>2. CASE s = Len(ranges) + 1
        BY <1>2, <1>3, <1>4, <1>6, <1>7, <3>2
      <3> QED
        BY <1>7, <3>1, <3>2
    <2>2. ASSUME NEW s \in DOMAIN ranges', NEW t \in DOMAIN ranges', s < t PROVE ranges'[s].end <= ranges'[t].start
      <3>1. s \in DOMAIN ranges
        BY <1>7, <2>2
      <3>2. CASE t \in DOMAIN ranges
        BY <1>7, <2>2, <3>1, <3>2 DEF PlanInv, Chained
      <3>3. CASE t = Len(ranges) + 1
        BY <1>6, <1>7, <3>1, <3>3 DEF PlanInv, Chained
      <3> QED
        BY <1>7, <3>2, <3>3
    <2>3. ASSUME NEW i \in 0..(start' - 1) PROVE \E s \in DOMAIN ranges' : InRange(ranges'[s], i)
      <3>1. CASE i < start
        <4>0. i \in 0..(start - 1) /\ Chained
          BY <1>2, <3>1 DEF PlanInv, PlanTypeOK
        <4>1. PICK s \in DOMAIN ranges : InRange(ranges[s], i)
          BY <4>0, Zenon DEF Chained
        <4>2. s \in DOMAIN ranges' /\ InRange(ranges'[s], i)
          BY <1>7, <4>1
        <4> QED
          BY <4>2
      <3>2. CASE ~(i < start)
        <4>1. InRange(ranges'[Len(ranges) + 1], i)
          BY <1>2, <1>3, <1>4, <1>6, <1>7, <3>2 DEF InRange
        <4> QED
          BY <1>7, <4>1
      <3> QED
        BY <3>1, <3>2
    <2> QED
      BY <2>1, <2>2, <2>3 DEF Chained
  <1>10. PrefixesFit'
    BY <1>3, <1>4 DEF PrefixesFit
  <1>11. ShardsFit'
    <2> SUFFICES ASSUME NEW s \in DOMAIN ranges' PROVE ~exceeds(costs', cost_model', ranges'[s].start, ranges'[s].end)
      BY DEF ShardsFit, range_exceeds
    <2>1. ~range_exceeds(ranges'[s].start, ranges'[s].end)
      <3>1. CASE s \in DOMAIN ranges
        BY <1>7, <3>1 DEF PlanInv, ShardsFit
      <3>2. CASE s = Len(ranges) + 1
        BY <1>5, <1>6, <1>7, <3>2
      <3> QED
        BY <1>7, <3>1, <3>2
    <2> QED
      BY <1>1, <2>1 DEF range_exceeds
  <1>12. DagInv' /\ WitnessInv' /\ LinkInv'
    BY <1>1, <1>2, <1>4 DEF PlanInv, DagInv, WitnessInv, LinkInv, Planned
  <1> QED
    BY <1>8, <1>9, <1>10, <1>11, <1>12 DEF PlanInv

\* A plan is made of the shards as they are once all instructions are in one.
LEMMA FinishPlan == PlanInv /\ finish_plan => PlanInv'
  <1> SUFFICES ASSUME PlanInv, finish_plan PROVE PlanInv'
    OBVIOUS
  <1>1. UNCHANGED <<program, costs, cost_model, hints, start, end, ranges, witness>>
    BY DEF finish_plan, request
  <1>2. /\ start = Len(program) /\ plan_dag' = build_dag(program, ranges)
        /\ plan' = IF plan_dag'.ok /\ validate_dag(plan_dag') THEN "planned" ELSE "refused"
    BY DEF finish_plan
  <1>3. plan' \in {"planned", "refused"} /\ (plan' = "planned" => plan_dag'.ok)
    BY <1>2
  <1>4. plan_dag'.ok => plan_dag' = [ok |-> TRUE, shards |-> Shards(program, ranges), edges |-> Edges(program, ranges)]
    BY <1>2 DEF build_dag
  <1>5. DagInv'
    BY <1>1, <1>2, <1>3, <1>4 DEF DagInv, Planned
  <1>6. PlanTypeOK' /\ Chained' /\ ShardsFit'
    BY <1>1 DEF PlanInv, PlanTypeOK, Chained, ShardsFit, range_exceeds
  <1>7. PrefixesFit' /\ LinkInv'
    BY <1>3 DEF PrefixesFit, LinkInv
  <1>8. WitnessInv'
    BY <1>1, <1>3 DEF PlanInv, WitnessInv
  <1> QED
    BY <1>5, <1>6, <1>7, <1>8 DEF PlanInv

\* A shard is proved without touching the plan.
LEMMA ProveShard == PlanInv /\ prove => PlanInv'
  <1> SUFFICES ASSUME PlanInv, prove PROVE PlanInv'
    OBVIOUS
  <1>1. UNCHANGED <<program, costs, cost_model, hints, start, end, ranges, plan_dag, plan>>
    BY DEF prove, request
  <1>2. plan = "planned"
    BY DEF prove
  <1>3. PlanTypeOK' /\ Chained' /\ ShardsFit'
    BY <1>1 DEF PlanInv, PlanTypeOK, Chained, ShardsFit, range_exceeds
  <1>4. DagInv' /\ PrefixesFit' /\ LinkInv'
    BY <1>1, <1>2 DEF PlanInv, DagInv, Planned, PrefixesFit, LinkInv
  <1>5. WitnessInv'
    <2>1. PICK w : witness' = Append(witness, w)
      BY DEF prove
    <2>2. PICK S : witness \in Seq(S)
      BY DEF PlanInv, WitnessInv
    <2>3. witness \in Seq(S \cup {w}) /\ w \in S \cup {w}
      BY <2>2
    <2>4. witness' \in Seq(S \cup {w})
      BY <2>1, <2>3, AppendFacts
    <2> QED
      BY <2>4 DEF WitnessInv
  <1> QED
    BY <1>3, <1>4, <1>5 DEF PlanInv

\* Proofs link when the two ends of every edge have one value.
LEMMA LinkShards == PlanInv /\ link => PlanInv'
  <1> SUFFICES ASSUME PlanInv, link PROVE PlanInv'
    OBVIOUS
  <1>1. UNCHANGED <<program, costs, cost_model, hints, start, end, ranges, plan_dag, witness>>
    BY DEF link, request
  <1>2. /\ plan = "planned" /\ Len(witness) = Len(plan_dag.shards)
        /\ plan' = IF EdgesMatch THEN "linked" ELSE "unlinked"
    BY DEF link
  <1>3. PlanTypeOK' /\ Chained' /\ ShardsFit'
    BY <1>1 DEF PlanInv, PlanTypeOK, Chained, ShardsFit, range_exceeds
  <1>4. DagInv' /\ WitnessInv'
    BY <1>1, <1>2 DEF PlanInv, DagInv, WitnessInv, Planned
  <1>5. PrefixesFit' /\ LinkInv'
    BY <1>1, <1>2 DEF PrefixesFit, LinkInv, EdgesMatch
  <1> QED
    BY <1>3, <1>4, <1>5 DEF PlanInv

\* No step breaks the planner's invariant.
LEMMA PlanSteps == PlanInv /\ [PlanNext]_planVars => PlanInv'
  <1> SUFFICES ASSUME PlanInv, [PlanNext]_planVars PROVE PlanInv'
    OBVIOUS
  <1>1. CASE UNCHANGED planVars
    <2>1. UNCHANGED <<program, costs, cost_model, hints, start, end, ranges, plan_dag, witness, plan>>
      BY <1>1 DEF planVars
    <2>2. PlanTypeOK' /\ Chained' /\ ShardsFit' /\ PrefixesFit'
      BY <2>1 DEF PlanInv, PlanTypeOK, Chained, ShardsFit, range_exceeds, PrefixesFit
    <2>3. DagInv' /\ WitnessInv' /\ LinkInv'
      BY <2>1 DEF PlanInv, DagInv, WitnessInv, Planned, LinkInv, EdgesMatch
    <2> QED
      BY <2>2, <2>3 DEF PlanInv
  <1> QED
    BY <1>1, BeginShard, GrowShard, CloseShard, FinishPlan, ProveShard, LinkShards DEF PlanNext

\* What the planner does never breaks its invariant.
THEOREM PlanInvariant == PlanSpec => []PlanInv
  BY PlanStarts, PlanSteps, PTL DEF PlanSpec

-----------------------------------------------------------------------------
(* What a plan promises *)

\* An instruction is in one shard once it is planned, and before in none.
LEMMA PlannedOnce == PlanInv => EveryInstructionOnce
  <1> SUFFICES ASSUME PlanInv PROVE EveryInstructionOnce
    OBVIOUS
  <1>1. /\ start \in Nat /\ Len(program) \in Nat /\ DOMAIN ranges = 1..Len(ranges) /\ Len(ranges) \in Nat
        /\ \A s \in DOMAIN ranges : ranges[s].start \in Nat /\ ranges[s].end \in Nat
    <2>1. ranges \in Seq([start : Nat, end : Nat]) /\ program \in Seq(ToSet(program)) /\ start \in Nat
      BY DEF PlanInv, PlanTypeOK
    <2> DEFINE RangeSet == [start : Nat, end : Nat]
    <2>2. \A x \in RangeSet : x.start \in Nat /\ x.end \in Nat
      OBVIOUS
    <2>3. ranges \in Seq(RangeSet)
      BY <2>1
    <2> HIDE DEF RangeSet
    <2>4. /\ DOMAIN ranges = 1..Len(ranges) /\ Len(ranges) \in Nat
          /\ \A s \in DOMAIN ranges : ranges[s] \in RangeSet
      BY <2>3
    <2>5. \A s \in DOMAIN ranges : ranges[s].start \in Nat /\ ranges[s].end \in Nat
      BY <2>2, <2>4
    <2>6. Len(program) \in Nat
      BY <2>1
    <2> QED
      BY <2>1, <2>4, <2>5, <2>6
  <1>2. ASSUME NEW i \in Indices(program)
        PROVE  Cardinality({s \in DOMAIN ranges : InRange(ranges[s], i)}) = IF i < start THEN 1 ELSE 0
    <2> DEFINE having == {s \in DOMAIN ranges : InRange(ranges[s], i)}
    <2>0. i \in Nat
      BY <1>1 DEF Indices
    <2>1. CASE i < start
      <3>1. PICK s \in DOMAIN ranges : InRange(ranges[s], i)
        BY <1>1, <2>0, <2>1 DEF PlanInv, Chained
      <3>2. ASSUME NEW t \in DOMAIN ranges, InRange(ranges[t], i) PROVE t = s
        <4>1. ~(s < t)
          BY <1>1, <2>0, <3>1, <3>2 DEF PlanInv, Chained, InRange
        <4>2. ~(t < s)
          BY <1>1, <2>0, <3>1, <3>2 DEF PlanInv, Chained, InRange
        <4> QED
          BY <1>1, <4>1, <4>2
      <3>3. having = {s}
        BY <3>1, <3>2
      <3> HIDE DEF having
      <3>4. Cardinality(having) = 1
        BY <3>3, FS_Singleton
      <3> QED
        BY <2>1, <3>4 DEF having
    <2>2. CASE ~(i < start)
      <3>1. ASSUME NEW s \in DOMAIN ranges PROVE ~InRange(ranges[s], i)
        BY <1>1, <2>0, <2>2 DEF PlanInv, Chained, InRange
      <3>2. having = {}
        BY <3>1
      <3> HIDE DEF having
      <3>3. Cardinality(having) = 0
        BY <3>2, FS_EmptySet
      <3> QED
        BY <2>2, <3>3 DEF having
    <2> QED
      BY <2>1, <2>2
  <1>3. \A s \in DOMAIN ranges : ranges[s].start < ranges[s].end
    BY DEF PlanInv, Chained
  <1>4. Planned => start = Len(program)
    BY DEF PlanInv, DagInv
  <1> QED
    BY <1>2, <1>3, <1>4 DEF EveryInstructionOnce

\* The DAG of a plan has exactly the edges between its shards.
LEMMA PlannedExactly == PlanInv => EdgesExact
  <1> SUFFICES ASSUME PlanInv, Planned PROVE EdgesExact
    BY DEF EdgesExact
  <1>1. plan_dag.shards = Shards(program, ranges) /\ plan_dag.edges = Edges(program, ranges)
    BY DEF PlanInv, DagInv
  <1>2. DOMAIN plan_dag.shards = DOMAIN ranges
    BY <1>1 DEF Shards
  <1>3. Len(program) \in Nat
    BY DEF PlanInv, PlanTypeOK
  <1>4. \A s \in DOMAIN plan_dag.shards :
            IsInjective(plan_dag.shards[s].inputs) /\ IsInjective(plan_dag.shards[s].outputs)
    BY <1>1, <1>2, <1>3, ShardFacts
  <1>5. {<<e.producer, e.consumer, e.register>> : e \in plan_dag.edges} =
            {<<shard_of(ranges, u[1]), shard_of(ranges, u[2]), Virtual(u[1])>> :
                u \in {v \in Indices(program) \X Indices(program) :
                    v[1] \in Reads(program, v[2]) /\ shard_of(ranges, v[1]) # shard_of(ranges, v[2])}}
    BY <1>1, EdgesAreUses
  <1> QED
    BY <1>4, <1>5 DEF EdgesExact

\* plan_partition, for every program, cost model, set of hints and request:
\* the shards are a partition of the program, each fits although a hint cut it
\* and costs need not be monotonic, and the DAG's edges are exactly the uses of
\* a result in another shard.
THEOREM PlanStaysSound == PlanSpec => []PlanSound
  <1>1. PlanInv => PlanSound
    BY PlannedOnce, PlannedExactly DEF PlanSound, PlanInv
  <1> QED
    BY <1>1, PlanInvariant, PTL

\* A register on a side of a shard is the register of an edge of that shard.
LEMMA BoundaryFacts ==
    ASSUME PlanInv, Planned, NEW s \in DOMAIN plan_dag.shards, NEW r \in Boundary(s)
    PROVE  \E e \in Edges(program, ranges) : e.register = r /\ s \in {e.producer, e.consumer}
  <1>1. plan_dag.shards = Shards(program, ranges)
    BY DEF PlanInv, DagInv
  <1>2. s \in DOMAIN ranges /\ Len(program) \in Nat
    BY <1>1 DEF Shards, PlanInv, PlanTypeOK
  <1>3. /\ ToSet(plan_dag.shards[s].inputs) = {e.register : e \in {e \in Edges(program, ranges) : e.consumer = s}}
        /\ ToSet(plan_dag.shards[s].outputs) = {e.register : e \in {e \in Edges(program, ranges) : e.producer = s}}
    <2>1. LET shard == Shards(program, ranges)[s]
          IN  /\ ToSet(shard.inputs) = {e.register : e \in {e \in Edges(program, ranges) : e.consumer = s}}
              /\ ToSet(shard.outputs) = {e.register : e \in {e \in Edges(program, ranges) : e.producer = s}}
              /\ IsInjective(shard.inputs) /\ IsInjective(shard.outputs)
      BY <1>2, ShardFacts
    <2> QED
      BY <1>1, <2>1
  <1>4. r \in {e.register : e \in {e \in Edges(program, ranges) : e.consumer = s}}
        \/ r \in {e.register : e \in {e \in Edges(program, ranges) : e.producer = s}}
    BY <1>3 DEF Boundary
  <1> QED
    BY <1>4

\* link_proofs compares only the two ends of each edge; still no register has
\* two values in shard proofs that link, since all its edges start at the one
\* shard that produces it.
THEOREM LinkedStaysConsistent == PlanSpec => []LinkedMeansConsistent
  <1>1. PlanInv => LinkedMeansConsistent
    <2> SUFFICES ASSUME PlanInv, plan = "linked", NEW s \in DOMAIN witness, NEW t \in DOMAIN witness,
                        NEW r \in Boundary(s) \cap Boundary(t)
                 PROVE  witness[s][r] = witness[t][r]
      BY DEF LinkedMeansConsistent
    <2>1. Planned /\ EdgesMatch /\ Len(witness) = Len(plan_dag.shards)
      BY DEF Planned, PlanInv, LinkInv
    <2>2. plan_dag.shards = Shards(program, ranges) /\ plan_dag.edges = Edges(program, ranges)
      BY <2>1 DEF PlanInv, DagInv
    <2>3. DOMAIN plan_dag.shards = 1..Len(plan_dag.shards)
      <3> DEFINE shards == Shards(program, ranges)
                 all == {shards[x] : x \in DOMAIN ranges}
      <3>1. Len(ranges) \in Nat /\ DOMAIN ranges = 1..Len(ranges)
        BY DEF PlanInv, PlanTypeOK
      <3>2. DOMAIN shards = DOMAIN ranges /\ shards = [x \in DOMAIN ranges |-> shards[x]]
        BY DEF Shards
      <3> HIDE DEF shards
      <3>3. shards \in [1..Len(ranges) -> all]
        BY <3>1, <3>2
      <3> HIDE DEF all
      <3>4. shards \in Seq(all)
        BY <3>1, <3>3
      <3>5. DOMAIN shards = 1..Len(shards)
        BY <3>4
      <3> QED
        BY <2>2, <3>5 DEF shards
    <2>4. DOMAIN witness = 1..Len(witness)
      BY DEF PlanInv, WitnessInv
    <2>5. s \in DOMAIN plan_dag.shards /\ t \in DOMAIN plan_dag.shards
      BY <2>1, <2>3, <2>4
    <2>6. PICK e \in Edges(program, ranges) : e.register = r /\ s \in {e.producer, e.consumer}
      BY <2>1, <2>5, BoundaryFacts
    <2>7. PICK f \in Edges(program, ranges) : f.register = r /\ t \in {f.producer, f.consumer}
      BY <2>1, <2>5, BoundaryFacts
    <2>8. e.producer = f.producer
      BY <2>6, <2>7, RegisterHasOneProducer
    <2>9. /\ witness[e.producer][r] = witness[e.consumer][r]
          /\ witness[f.producer][r] = witness[f.consumer][r]
      BY <2>1, <2>2, <2>6, <2>7 DEF EdgesMatch
    <2> QED
      BY <2>6, <2>7, <2>8, <2>9
  <1> QED
    BY <1>1, PlanInvariant, PTL

-----------------------------------------------------------------------------
(* The lists the binder makes: flattened, and of first uses *)

\* The elements of two lists, one after the other.
LEMMA ConcatFacts ==
    ASSUME NEW S, NEW s \in Seq(S), NEW t \in Seq(S)
    PROVE  s \o t \in Seq(S) /\ ToSet(s \o t) = ToSet(s) \cup ToSet(t)
  <1>1. s \o t \in Seq(S) /\ Len(s \o t) = Len(s) + Len(t) /\ Len(s) \in Nat /\ Len(t) \in Nat
    OBVIOUS
  <1>2. DOMAIN s = 1..Len(s) /\ DOMAIN t = 1..Len(t) /\ DOMAIN (s \o t) = 1..(Len(s) + Len(t))
    BY <1>1
  <1>3. \A i \in 1..(Len(s) + Len(t)) : (s \o t)[i] = IF i <= Len(s) THEN s[i] ELSE t[i - Len(s)]
    OBVIOUS
  <1>4. ASSUME NEW x \in ToSet(s \o t) PROVE x \in ToSet(s) \cup ToSet(t)
    <2>1. PICK i \in 1..(Len(s) + Len(t)) : (s \o t)[i] = x
      BY <1>2 DEF ToSet
    <2>2. CASE i <= Len(s)
      <3>1. i \in DOMAIN s /\ s[i] = x
        BY <1>1, <1>2, <1>3, <2>1, <2>2
      <3> QED
        BY <3>1 DEF ToSet
    <2>3. CASE ~(i <= Len(s))
      <3>1. i - Len(s) \in DOMAIN t /\ t[i - Len(s)] = x
        BY <1>1, <1>2, <1>3, <2>1, <2>3
      <3> QED
        BY <3>1 DEF ToSet
    <2> QED
      BY <2>2, <2>3
  <1>5. ASSUME NEW x \in ToSet(s) PROVE x \in ToSet(s \o t)
    <2>1. PICK i \in 1..Len(s) : s[i] = x
      BY <1>2 DEF ToSet
    <2>2. i \in 1..(Len(s) + Len(t)) /\ (s \o t)[i] = x
      BY <1>1, <1>3, <2>1
    <2> QED
      BY <1>2, <2>2 DEF ToSet
  <1>6. ASSUME NEW x \in ToSet(t) PROVE x \in ToSet(s \o t)
    <2>1. PICK i \in 1..Len(t) : t[i] = x
      BY <1>2 DEF ToSet
    <2>2. Len(s) + i \in 1..(Len(s) + Len(t)) /\ (s \o t)[Len(s) + i] = x
      <3>1. Len(s) + i \in 1..(Len(s) + Len(t)) /\ ~(Len(s) + i <= Len(s)) /\ (Len(s) + i) - Len(s) = i
        BY <1>1
      <3> QED
        BY <1>3, <2>1, <3>1
    <2> QED
      BY <1>2, <2>2 DEF ToSet
  <1> QED
    BY <1>1, <1>4, <1>5, <1>6

\* A list of lists, flattened, has the elements of the lists.
LEMMA FlattenFacts ==
    ASSUME NEW S, NEW seqs \in Seq(Seq(S))
    PROVE  /\ FlattenSeq(seqs) \in Seq(S)
           /\ \A x : x \in ToSet(FlattenSeq(seqs)) <=> \E i \in DOMAIN seqs : x \in ToSet(seqs[i])
  <1>1. Len(seqs) \in Nat /\ DOMAIN seqs = 1..Len(seqs) /\ \A i \in 1..Len(seqs) : seqs[i] \in Seq(S)
    OBVIOUS
  <1>2. CASE Len(seqs) = 0
    <2>1. seqs = <<>> /\ FlattenSeq(seqs) = seqs
      BY <1>2 DEF FlattenSeq
    <2>2. <<>> \in Seq(S) /\ DOMAIN <<>> = {}
      OBVIOUS
    <2> QED
      BY <2>1, <2>2 DEF ToSet
  <1>3. CASE Len(seqs) # 0
    <2> DEFINE fixed(f, m) == f = [i \in 1..m |-> IF i = 1 THEN seqs[i] ELSE f[i - 1] \o seqs[i]]
               good == {m \in Nat : \E f : fixed(f, m)}
               flatten == CHOOSE f : fixed(f, Len(seqs))
    <2>1. FlattenSeq(seqs) = flatten[Len(seqs)]
      BY <1>3, Zenon DEF FlattenSeq
    <2>2. 0 \in good
      <3> DEFINE f == [i \in 1..0 |-> 0]
      <3>1. fixed(f, 0)
        OBVIOUS
      <3> QED
        BY <3>1
    <2>3. ASSUME NEW m \in Nat, m \in good PROVE m + 1 \in good
      <3>1. PICK f : f = [i \in 1..m |-> IF i = 1 THEN seqs[i] ELSE f[i - 1] \o seqs[i]]
        BY <2>3
      <3> DEFINE last == IF m + 1 = 1 THEN seqs[m + 1] ELSE f[m] \o seqs[m + 1]
                 g == [i \in 1..(m + 1) |-> IF i = m + 1 THEN last ELSE f[i]]
                 h == [i \in 1..(m + 1) |-> IF i = 1 THEN seqs[i] ELSE g[i - 1] \o seqs[i]]
      <3>2. \A i \in 1..m : i # 1 => i - 1 \in 1..m /\ g[i - 1] = f[i - 1]
        OBVIOUS
      <3>3. m # 0 => m \in 1..m /\ g[m] = f[m]
        OBVIOUS
      <3>4. ASSUME NEW i \in 1..(m + 1) PROVE g[i] = h[i]
        <4>1. CASE i = m + 1
          <5>1. h[i] = IF i = 1 THEN seqs[i] ELSE g[i - 1] \o seqs[i]
            OBVIOUS
          <5>2. g[i] = last
            BY <4>1
          <5>3. (m + 1) - 1 = m /\ (m + 1 # 1 => m # 0)
            OBVIOUS
          <5> HIDE DEF g, h
          <5> QED
            BY <3>3, <4>1, <5>1, <5>2, <5>3
        <4>2. CASE i # m + 1
          <5>1. i \in 1..m /\ g[i] = f[i]
            BY <4>2
          <5>2. f[i] = IF i = 1 THEN seqs[i] ELSE f[i - 1] \o seqs[i]
            BY <3>1, <5>1
          <5>3. h[i] = IF i = 1 THEN seqs[i] ELSE g[i - 1] \o seqs[i]
            OBVIOUS
          <5> HIDE DEF g, h
          <5> QED
            BY <3>2, <5>1, <5>2, <5>3
        <4> QED
          BY <4>1, <4>2
      <3>5. g = h
        <4>1. DOMAIN g = 1..(m + 1) /\ DOMAIN h = 1..(m + 1) /\ g = [i \in 1..(m + 1) |-> g[i]] /\ h = [i \in 1..(m + 1) |-> h[i]]
          OBVIOUS
        <4> HIDE DEF g, h
        <4> QED
          BY <3>4, <4>1
      <3>6. fixed(g, m + 1)
        <4> HIDE DEF g
        <4> QED
          BY <3>5
      <3> HIDE DEF g, fixed
      <3> QED
        BY <3>6
    <2> HIDE DEF good
    <2>4. Len(seqs) \in good
      BY <1>1, <2>2, <2>3, NumbersInSet
    <2>5. \E f : fixed(f, Len(seqs))
      BY <2>4 DEF good
    <2>6. fixed(flatten, Len(seqs))
      <3> HIDE DEF fixed
      <3> QED
        BY <2>5
    <2>7. \A i \in 1..Len(seqs) : flatten[i] = IF i = 1 THEN seqs[i] ELSE flatten[i - 1] \o seqs[i]
      <3> HIDE DEF flatten
      <3> QED
        BY <2>6
    <2> HIDE DEF flatten
    <2> DEFINE has(i) == /\ flatten[i] \in Seq(S)
                         /\ \A x : x \in ToSet(flatten[i]) <=> \E j \in 1..i : x \in ToSet(seqs[j])
               done == {m \in Nat : m + 1 \in 1..Len(seqs) => has(m + 1)}
    <2>8. 0 \in done
      <3>1. 0 + 1 \in 1..Len(seqs) /\ flatten[0 + 1] = seqs[0 + 1] /\ 1..(0 + 1) = {0 + 1}
        BY <1>1, <1>3, <2>7
      <3> QED
        BY <1>1, <3>1
    <2>9. ASSUME NEW m \in Nat, m \in done PROVE m + 1 \in done
      <3> SUFFICES ASSUME m + 1 + 1 \in 1..Len(seqs) PROVE has(m + 1 + 1)
        OBVIOUS
      <3>1. m + 1 \in 1..Len(seqs)
        BY <1>1
      <3>2. has(m + 1)
        BY <2>9, <3>1
      <3>3. flatten[m + 1 + 1] = flatten[m + 1] \o seqs[m + 1 + 1]
        <4>1. m + 1 + 1 # 1 /\ (m + 1 + 1) - 1 = m + 1
          OBVIOUS
        <4> QED
          BY <2>7, <4>1
      <3>4. seqs[m + 1 + 1] \in Seq(S) /\ flatten[m + 1] \in Seq(S)
        BY <1>1, <3>2
      <3>5. /\ flatten[m + 1 + 1] \in Seq(S)
            /\ ToSet(flatten[m + 1 + 1]) = ToSet(flatten[m + 1]) \cup ToSet(seqs[m + 1 + 1])
        BY <3>3, <3>4, ConcatFacts
      <3>6. 1..(m + 1 + 1) = 1..(m + 1) \cup {m + 1 + 1}
        OBVIOUS
      <3> QED
        BY <3>2, <3>5, <3>6
    <2> HIDE DEF done
    <2>10. Len(seqs) - 1 \in done
      <3>1. Len(seqs) - 1 \in Nat
        BY <1>1, <1>3
      <3> QED
        BY <2>8, <2>9, <3>1, NumbersInSet
    <2>11. has(Len(seqs))
      <3>1. (Len(seqs) - 1) + 1 = Len(seqs) /\ Len(seqs) \in 1..Len(seqs)
        BY <1>1, <1>3
      <3> QED
        BY <2>10, <3>1 DEF done
    <2> QED
      BY <1>1, <2>1, <2>11
  <1> QED
    BY <1>2, <1>3

\* A set of numbers that has any has a least one.
LEMMA LeastNumber ==
    ASSUME NEW S \in SUBSET Nat, S # {}
    PROVE  \E x \in S : \A y \in S : x <= y
  <1>1. \E x \in S : \A y \in S : ~(<<y, x>> \in OpToRel(<, Nat))
    BY NatLessThanWellFounded, WFMin
  <1>2. PICK x \in S : \A y \in S : ~(<<y, x>> \in OpToRel(<, Nat))
    BY <1>1
  <1>3. \A y \in Nat : y < x => <<y, x>> \in OpToRel(<, Nat)
    BY DEF OpToRel
  <1>4. \A y \in S : ~(y < x)
    BY <1>2, <1>3
  <1>5. \A y \in S : x <= y
    BY <1>4
  <1> QED
    BY <1>5

\* The lists of a set are lists of a larger one.
LEMMA SeqGrows ==
    ASSUME NEW S, NEW T, S \subseteq T, NEW s \in Seq(S)
    PROVE  s \in Seq(T)
  OBVIOUS

\* A compiled program is a list of instructions with lists of registers.
ProgramOK(prog) ==
    /\ prog \in Seq(ToSet(prog))
    /\ \A j \in DOMAIN prog :
        prog[j].inputs \in Seq(ToSet(prog[j].inputs)) /\ \A r \in ToSet(prog[j].inputs) : RegisterIn(r)
ListsOK(prog) == prog \in Seq(ToSet(prog)) /\ \A j \in DOMAIN prog : prog[j].inputs \in Seq(ToSet(prog[j].inputs))
RangeOK(prog, range) == range.start \in Nat /\ range.end \in Nat /\ range.start <= range.end /\ range.end <= Len(prog)

\* The registers in the range that its instructions read.
UsedIn(prog, range) == {r \in UNION {ToSet(prog[j].inputs) : j \in DOMAIN prog} :
                            \E i \in Nat : InRange(range, i) /\ r \in ToSet(InstructionAt(prog, i).inputs)}

\* UsesIn: a list of what the instructions of the range read.
LEMMA UsesLists ==
    ASSUME NEW prog, ListsOK(prog), NEW range, RangeOK(prog, range)
    PROVE  /\ Len(UsesIn(prog, range)) \in Nat
           /\ DOMAIN UsesIn(prog, range) = 1..Len(UsesIn(prog, range))
           /\ ToSet(UsesIn(prog, range)) = UsedIn(prog, range)
           /\ \A i \in Nat : InRange(range, i) => i \in Indices(prog) /\ i + 1 \in DOMAIN prog
  <1> DEFINE All == UNION {ToSet(prog[j].inputs) : j \in DOMAIN prog}
             m == range.end - range.start
             lists == [j \in 1..m |-> InstructionAt(prog, range.start + j - 1).inputs]
  <1>1. m \in Nat /\ Len(prog) \in Nat /\ DOMAIN prog = 1..Len(prog)
    BY DEF ListsOK, RangeOK
  <1>2. \A j \in DOMAIN prog : prog[j].inputs \in Seq(All)
    BY SeqGrows DEF ListsOK
  <1>3. \A i \in Nat : InRange(range, i) => i \in Indices(prog) /\ i + 1 \in DOMAIN prog
    BY <1>1 DEF RangeOK, InRange, Indices
  <1>4. \A j \in 1..m : range.start + j - 1 \in Nat /\ InRange(range, range.start + j - 1)
    <2>1. range.start \in Nat /\ range.end \in Nat
      BY DEF RangeOK
    <2>2. ASSUME NEW j \in 1..m PROVE range.start + j - 1 \in Nat /\ range.start <= range.start + j - 1 /\ range.start + j - 1 < range.end
      BY <2>1
    <2> QED
      BY <2>2 DEF InRange
  <1>5. \A i \in Nat : InRange(range, i) => (i - range.start) + 1 \in 1..m /\ range.start + ((i - range.start) + 1) - 1 = i
    BY DEF RangeOK, InRange
  <1> HIDE DEF m, All
  <1>6. lists \in Seq(Seq(All))
    <2>1. \A j \in 1..m : lists[j] \in Seq(All)
      BY <1>2, <1>3, <1>4 DEF InstructionAt
    <2> QED
      BY <1>1, <2>1
  <1>7. DOMAIN lists = 1..m /\ \A j \in 1..m : lists[j] = InstructionAt(prog, range.start + j - 1).inputs
    OBVIOUS
  <1>8. UsesIn(prog, range) = FlattenSeq(lists)
    BY DEF UsesIn, m
  <1> HIDE DEF lists
  <1>9. /\ UsesIn(prog, range) \in Seq(All)
        /\ \A x : x \in ToSet(UsesIn(prog, range)) <=> \E i \in DOMAIN lists : x \in ToSet(lists[i])
    BY <1>6, <1>8, FlattenFacts
  <1>10. ASSUME NEW x \in ToSet(UsesIn(prog, range)) PROVE x \in UsedIn(prog, range)
    <2>1. PICK j \in 1..m : x \in ToSet(lists[j])
      BY <1>7, <1>9
    <2>2. x \in ToSet(InstructionAt(prog, range.start + j - 1).inputs)
      BY <1>7, <2>1
    <2>3. (range.start + j - 1) + 1 \in DOMAIN prog
      BY <1>3, <1>4
    <2> QED
      BY <1>4, <2>2, <2>3 DEF UsedIn, InstructionAt
  <1>11. ASSUME NEW x \in UsedIn(prog, range) PROVE x \in ToSet(UsesIn(prog, range))
    <2>1. PICK i \in Nat : InRange(range, i) /\ x \in ToSet(InstructionAt(prog, i).inputs)
      BY DEF UsedIn
    <2>2. (i - range.start) + 1 \in 1..m /\ lists[(i - range.start) + 1] = InstructionAt(prog, i).inputs
      BY <1>5, <1>7, <2>1
    <2> QED
      BY <1>7, <1>9, <2>1, <2>2
  <1>12. Len(UsesIn(prog, range)) \in Nat /\ DOMAIN UsesIn(prog, range) = 1..Len(UsesIn(prog, range))
    BY <1>9
  <1> QED
    BY <1>3, <1>10, <1>11, <1>12

\* UsesIn of a program with well formed registers.
LEMMA UsesFacts ==
    ASSUME NEW prog, ProgramOK(prog), NEW range, RangeOK(prog, range)
    PROVE  /\ Len(UsesIn(prog, range)) \in Nat
           /\ DOMAIN UsesIn(prog, range) = 1..Len(UsesIn(prog, range))
           /\ ToSet(UsesIn(prog, range)) = UsedIn(prog, range)
           /\ \A i \in Nat : InRange(range, i) => i \in Indices(prog) /\ i + 1 \in DOMAIN prog
           /\ \A r \in UsedIn(prog, range) : RegisterIn(r)
  <1>1. ListsOK(prog)
    BY DEF ProgramOK, ListsOK
  <1>2. \A r \in UsedIn(prog, range) : RegisterIn(r)
    BY DEF UsedIn, ProgramOK
  <1> QED
    BY <1>1, <1>2, UsesLists

\* FirstUses: all the wanted registers, each once.
LEMMA FirstUsesFacts ==
    ASSUME NEW uses, NEW n \in Nat, DOMAIN uses = 1..n, NEW wanted \in SUBSET ToSet(uses)
    PROVE  /\ IsFiniteSet(wanted) /\ Cardinality(wanted) \in Nat
           /\ FirstUses(uses, wanted) \in [1..Cardinality(wanted) -> wanted]
           /\ ToSet(FirstUses(uses, wanted)) = wanted /\ IsInjective(FirstUses(uses, wanted))
  <1> DEFINE first == {p \in DOMAIN uses : uses[p] \in wanted /\ \A q \in 1..(p - 1) : uses[q] # uses[p]}
             before == [p \in first |-> {q \in first : q < p}]
             positions == Ordered(before)
             order == [p \in DOMAIN positions |-> uses[positions[p]]]
             m == Cardinality(first)
  <1>1. first \subseteq 1..n /\ IsFiniteSet(first)
    <2>1. IsFiniteSet(1..n)
      BY FS_Interval
    <2> QED
      BY <2>1, FS_Subset
  <1>2. FirstUses(uses, wanted) = order
    BY DEF FirstUses
  <1>3. \A p, q \in first : uses[p] = uses[q] => p = q
    <2> SUFFICES ASSUME NEW p \in first, NEW q \in first, uses[p] = uses[q] PROVE p = q
      OBVIOUS
    <2>1. p \in 1..n /\ q \in 1..n
      OBVIOUS
    <2>2. ~(p < q)
      <3> SUFFICES ASSUME p < q PROVE FALSE
        OBVIOUS
      <3>1. p \in 1..(q - 1)
        BY <2>1
      <3> QED
        BY <3>1
    <2>3. ~(q < p)
      <3> SUFFICES ASSUME q < p PROVE FALSE
        OBVIOUS
      <3>1. q \in 1..(p - 1)
        BY <2>1
      <3> QED
        BY <3>1
    <2> QED
      BY <2>1, <2>2, <2>3
  <1>4. ASSUME NEW r \in wanted PROVE \E p \in first : uses[p] = r
    <2> DEFINE at == {p \in 1..n : uses[p] = r}
    <2>1. at # {} /\ at \in SUBSET Nat
      BY DEF ToSet
    <2>2. PICK p \in at : \A q \in at : p <= q
      BY <2>1, LeastNumber
    <2>3. ASSUME NEW q \in 1..(p - 1) PROVE uses[q] # uses[p]
      <3>1. p \in 1..n /\ q \in 1..n /\ ~(p <= q)
        BY <2>2
      <3> QED
        BY <2>2, <3>1
    <2>4. p \in first
      BY <2>2, <2>3
    <2> QED
      BY <2>2, <2>4
  <1>5. \A p \in first : uses[p] \in wanted
    OBVIOUS
  <1> HIDE DEF first
  <1>6. /\ before \in [first -> SUBSET first] /\ \A x \in first : before[x] = {q \in first : q < x}
    OBVIOUS
  <1>7. \A x \in first : x \notin before[x]
    BY <1>1
  <1>8. \A x, y \in first : x = y \/ x \in before[y] \/ y \in before[x]
    BY <1>1
  <1>9. \A x, y \in first : x \in before[y] => before[x] \subseteq before[y]
    <2> HIDE DEF before
    <2> SUFFICES ASSUME NEW x \in first, NEW y \in first, NEW z \in first, x < y, z < x PROVE z < y
      BY <1>6
    <2>1. x \in Nat /\ y \in Nat /\ z \in Nat
      BY <1>1
    <2> QED
      BY <2>1
  <1> HIDE DEF before
  <1>10. /\ m \in Nat /\ positions \in [1..m -> first] /\ ToSet(positions) = first /\ IsInjective(positions)
    BY <1>1, <1>6, <1>7, <1>8, <1>9, RankFacts
  <1> HIDE DEF positions, m
  <1>11. DOMAIN positions = 1..m /\ \A p \in 1..m : positions[p] \in first
    BY <1>10
  <1>12. order \in [1..m -> wanted] /\ \A p \in 1..m : order[p] = uses[positions[p]]
    BY <1>5, <1>11
  <1> HIDE DEF order
  <1>13. \A p, q \in 1..m : order[p] = order[q] => p = q
    <2> SUFFICES ASSUME NEW p \in 1..m, NEW q \in 1..m, order[p] = order[q] PROVE p = q
      OBVIOUS
    <2>1. positions[p] = positions[q]
      BY <1>3, <1>11, <1>12
    <2> QED
      BY <1>10, <1>11, <2>1 DEF IsInjective
  <1>14. \A r \in wanted : \E p \in 1..m : order[p] = r
    <2> SUFFICES ASSUME NEW r \in wanted PROVE \E p \in 1..m : order[p] = r
      OBVIOUS
    <2>1. PICK q \in first : uses[q] = r
      BY <1>4
    <2>2. PICK p \in 1..m : positions[p] = q
      BY <1>10, <1>11 DEF ToSet
    <2> QED
      BY <1>12, <2>1, <2>2
  <1>15. DOMAIN order = 1..m
    BY <1>12
  <1>16. IsInjective(order) /\ ToSet(order) = wanted
    BY <1>12, <1>13, <1>14, <1>15 DEF IsInjective, ToSet
  <1>17. order \in Bijection(1..m, wanted)
    BY <1>12, <1>13, <1>14, <1>15 DEF Bijection, Injection, Surjection, IsInjective
  <1>18. IsFiniteSet(wanted) /\ Cardinality(wanted) = m
    <2>1. IsFiniteSet(1..m) /\ Cardinality(1..m) = m
      BY <1>10, FS_Interval
    <2> QED
      BY <1>17, <2>1, FS_Bijection DEF ExistsBijection
  <1> QED
    BY <1>2, <1>10, <1>12, <1>16, <1>18

\* Sorted: all the registers of a set, each once, in the order of their keys.
LEMMA SortedFacts ==
    ASSUME NEW S, IsFiniteSet(S), \A r \in S : RegisterIn(r) /\ r[1] # "weight"
    PROVE  /\ Cardinality(S) \in Nat /\ Sorted(S) \in [1..Cardinality(S) -> S]
           /\ ToSet(Sorted(S)) = S /\ IsInjective(Sorted(S))
  <1> DEFINE below == [r \in S |-> {q \in S : Before(q, r)}]
  <1>1. Sorted(S) = Ordered(below)
    BY DEF Sorted
  <1>2. \A r \in S : r = <<r[1], r[2]>> /\ r[1] \in {"graph", "virtual"} /\ r[2] \in Nat
    BY DEF RegisterIn
  <1>3. below \in [S -> SUBSET S] /\ \A r \in S : below[r] = {q \in S : Before(q, r)}
    OBVIOUS
  <1>4. \A q, r \in S : Before(q, r) <=> \/ q[1] = "graph" /\ r[1] = "virtual"
                                         \/ q[1] = r[1] /\ q[2] < r[2]
    BY <1>2 DEF Before, register_key
  <1> HIDE DEF below
  <1>5. \A x \in S : x \notin below[x]
    BY <1>2, <1>3, <1>4
  <1>6. \A x, y \in S : x = y \/ x \in below[y] \/ y \in below[x]
    <2> SUFFICES ASSUME NEW x \in S, NEW y \in S, x # y PROVE Before(x, y) \/ Before(y, x)
      BY <1>3
    <2>1. x[1] # y[1] \/ x[2] # y[2]
      BY <1>2
    <2> QED
      BY <1>2, <1>4, <2>1
  <1>7. \A x, y \in S : x \in below[y] => below[x] \subseteq below[y]
    <2> SUFFICES ASSUME NEW x \in S, NEW y \in S, NEW z \in S, Before(x, y), Before(z, x) PROVE Before(z, y)
      BY <1>3
    <2> QED
      BY <1>2, <1>4
  <1> QED
    BY <1>1, <1>3, <1>5, <1>6, <1>7, RankFacts

-----------------------------------------------------------------------------
(* What a shard reads from outside, and the boundaries of its shard *)

\* The place of an element of a list.
LEMMA PositionFacts ==
    ASSUME NEW f, NEW x \in ToSet(f)
    PROVE  PositionIn(f, x) \in DOMAIN f /\ f[PositionIn(f, x)] = x
  <1>1. \E p \in DOMAIN f : f[p] = x
    BY DEF ToSet
  <1> QED
    BY <1>1 DEF PositionIn

\* The registers a range reads from outside, and the weights it reads.
OutsideOf(prog, range) ==
    {r \in UsedIn(prog, range) : r[1] # "weight" /\ ~(IsVirtual(r) /\ InRange(range, r[2]))}
WeightsIn(prog, range) == {r \in UsedIn(prog, range) : r[1] = "weight"}

\* boundary_register_order and weight_order list those registers, each once.
LEMMA OrderLists ==
    ASSUME NEW prog, ListsOK(prog), NEW range, RangeOK(prog, range)
    PROVE  LET outside == OutsideOf(prog, range)
               order == boundary_register_order(prog, range)
               weights == weight_order(prog, range)
           IN  /\ IsFiniteSet(outside) /\ Cardinality(outside) \in Nat
               /\ order \in [1..Cardinality(outside) -> outside]
               /\ ToSet(order) = outside /\ IsInjective(order)
               /\ IsFiniteSet(WeightsIn(prog, range)) /\ Cardinality(WeightsIn(prog, range)) \in Nat
               /\ weights \in [1..Cardinality(WeightsIn(prog, range)) -> WeightsIn(prog, range)]
               /\ ToSet(weights) = WeightsIn(prog, range)
  <1> DEFINE uses == UsesIn(prog, range)
             n == Len(UsesIn(prog, range))
             outside == OutsideOf(prog, range)
             weights == WeightsIn(prog, range)
  <1>1. n \in Nat /\ DOMAIN uses = 1..n /\ ToSet(uses) = UsedIn(prog, range)
    BY UsesLists
  <1>2. outside \in SUBSET ToSet(uses) /\ weights \in SUBSET ToSet(uses)
    BY <1>1 DEF OutsideOf, WeightsIn
  <1>3. boundary_register_order(prog, range) = FirstUses(uses, outside)
    BY <1>1 DEF boundary_register_order, OutsideOf
  <1>4. weight_order(prog, range) = FirstUses(uses, weights)
    BY <1>1 DEF weight_order, WeightsIn
  <1> HIDE DEF uses, n, outside, weights
  <1>5. /\ IsFiniteSet(outside) /\ Cardinality(outside) \in Nat
        /\ FirstUses(uses, outside) \in [1..Cardinality(outside) -> outside]
        /\ ToSet(FirstUses(uses, outside)) = outside /\ IsInjective(FirstUses(uses, outside))
    BY <1>1, <1>2, FirstUsesFacts
  <1>6. /\ IsFiniteSet(weights) /\ Cardinality(weights) \in Nat
        /\ FirstUses(uses, weights) \in [1..Cardinality(weights) -> weights]
        /\ ToSet(FirstUses(uses, weights)) = weights
    BY <1>1, <1>2, FirstUsesFacts
  <1> QED
    BY <1>3, <1>4, <1>5, <1>6 DEF outside, weights

\* The same for a program with well formed registers.
LEMMA OrderFacts ==
    ASSUME NEW prog, ProgramOK(prog), NEW range, RangeOK(prog, range)
    PROVE  LET outside == OutsideOf(prog, range)
               order == boundary_register_order(prog, range)
               weights == weight_order(prog, range)
           IN  /\ IsFiniteSet(outside) /\ Cardinality(outside) \in Nat
               /\ order \in [1..Cardinality(outside) -> outside]
               /\ ToSet(order) = outside /\ IsInjective(order)
               /\ ToSet(weights) = WeightsIn(prog, range) /\ DOMAIN weights \subseteq Nat
  <1>1. ListsOK(prog)
    BY DEF ProgramOK, ListsOK
  <1> QED
    BY <1>1, OrderLists

\* The shards of a plan: contiguous and none empty.
SpecsOK(prog, specs) ==
    /\ specs \in Seq([start : Nat, end : Nat]) /\ Contiguous(prog, specs)
    /\ \A s \in DOMAIN specs : specs[s].start < specs[s].end

\* Shards that are contiguous and not empty follow each other and leave nothing out.
LEMMA SpecsFacts ==
    ASSUME NEW prog, ProgramOK(prog), NEW specs, SpecsOK(prog, specs)
    PROVE  /\ \A s \in DOMAIN specs : RangeOK(prog, specs[s])
           /\ \A s, t \in DOMAIN specs : s < t => specs[s].end <= specs[t].start
           /\ \A i \in Indices(prog) : \E s \in DOMAIN specs : InRange(specs[s], i)
  <1> DEFINE L == Len(specs)
  <1>1. L \in Nat /\ L # 0 /\ DOMAIN specs = 1..L /\ Len(prog) \in Nat
    BY DEF SpecsOK, Contiguous, ProgramOK
  <1>2. \A s \in 1..L : specs[s].start \in Nat /\ specs[s].end \in Nat /\ specs[s].start < specs[s].end
    <2> DEFINE RangeSet == [start : Nat, end : Nat]
    <2>0. specs \in Seq(RangeSet)
      BY DEF SpecsOK
    <2>1. \A s \in 1..L : specs[s] \in RangeSet
      <3> HIDE DEF RangeSet
      <3> QED
        BY <1>1, <2>0
    <2> QED
      BY <1>1, <2>1 DEF SpecsOK
  <1>3. specs[1].start = 0 /\ specs[L].end = Len(prog)
    BY <1>1 DEF SpecsOK, Contiguous
  <1>4. \A s \in 1..L : s # 1 => s - 1 \in 1..L /\ specs[s].start = specs[s - 1].end
    <2>1. \A s \in 1..L : specs[s].start = IF s = 1 THEN 0 ELSE specs[s - 1].end
      BY <1>1 DEF SpecsOK, Contiguous
    <2> HIDE DEF L
    <2>2. \A s \in 1..L : s # 1 => s - 1 \in 1..L
      BY <1>1
    <2> QED
      BY <2>1, <2>2
  <1> HIDE DEF L
  <1> DEFINE good == {m \in Nat : m + 1 \in 1..L =>
                        /\ \A s \in 1..m : specs[s].end <= specs[m + 1].start
                        /\ \A i \in 0..(specs[m + 1].end - 1) : \E s \in 1..(m + 1) : InRange(specs[s], i)}
  <1>5. 0 \in good
    <2>1. \A i \in 0..(specs[0 + 1].end - 1) : 0 + 1 \in 1..(0 + 1) /\ InRange(specs[0 + 1], i)
      BY <1>1, <1>2, <1>3 DEF InRange
    <2> QED
      BY <2>1
  <1>6. ASSUME NEW m \in Nat, m \in good PROVE m + 1 \in good
    <2> SUFFICES ASSUME m + 1 + 1 \in 1..L
                 PROVE  /\ \A s \in 1..(m + 1) : specs[s].end <= specs[m + 1 + 1].start
                        /\ \A i \in 0..(specs[m + 1 + 1].end - 1) : \E s \in 1..(m + 1 + 1) : InRange(specs[s], i)
      OBVIOUS
    <2>1. m + 1 \in 1..L /\ specs[m + 1 + 1].start = specs[m + 1].end
      <3>1. m + 1 + 1 # 1 /\ (m + 1 + 1) - 1 = m + 1
        OBVIOUS
      <3> QED
        BY <1>4, <3>1
    <2>2. /\ \A s \in 1..m : specs[s].end <= specs[m + 1].start
          /\ \A i \in 0..(specs[m + 1].end - 1) : \E s \in 1..(m + 1) : InRange(specs[s], i)
      BY <1>6, <2>1
    <2>3. ASSUME NEW s \in 1..(m + 1) PROVE specs[s].end <= specs[m + 1 + 1].start
      <3>1. s \in 1..L /\ (s = m + 1 \/ s \in 1..m)
        BY <1>1, <2>1
      <3>2. specs[m + 1].start < specs[m + 1].end /\ specs[m + 1].start \in Nat /\ specs[m + 1].end \in Nat /\ specs[s].end \in Nat
        BY <1>2, <2>1, <3>1
      <3>3. s \in 1..m => specs[s].end <= specs[m + 1].start
        BY <2>2
      <3> QED
        BY <2>1, <3>1, <3>2, <3>3
    <2>4. ASSUME NEW i \in 0..(specs[m + 1 + 1].end - 1) PROVE \E s \in 1..(m + 1 + 1) : InRange(specs[s], i)
      <3>1. specs[m + 1].end \in Nat /\ specs[m + 1 + 1].end \in Nat
        BY <1>2, <2>1
      <3>2. CASE i < specs[m + 1].end
        <4>1. i \in 0..(specs[m + 1].end - 1)
          BY <3>1, <3>2
        <4>2. PICK s \in 1..(m + 1) : InRange(specs[s], i)
          BY <2>2, <4>1
        <4> QED
          BY <4>2
      <3>3. CASE ~(i < specs[m + 1].end)
        <4>1. InRange(specs[m + 1 + 1], i)
          BY <2>1, <3>1, <3>3 DEF InRange
        <4> QED
          BY <4>1
      <3> QED
        BY <3>2, <3>3
    <2> QED
      BY <2>3, <2>4
  <1> HIDE DEF good
  <1>7. \A m \in Nat : m \in good
    BY <1>5, <1>6, NumbersInSet
  <1>8. ASSUME NEW s \in 1..L, NEW t \in 1..L, s < t PROVE specs[s].end <= specs[t].start
    <2>1. t - 1 \in Nat /\ (t - 1) + 1 = t /\ s \in 1..(t - 1)
      BY <1>1, <1>8
    <2>2. t - 1 \in good
      BY <1>7, <2>1
    <2> QED
      BY <2>1, <2>2 DEF good
  <1>9. ASSUME NEW s \in 1..L PROVE RangeOK(prog, specs[s])
    <2>1. L \in 1..L /\ (s = L \/ s < L)
      BY <1>1
    <2>2. specs[s].end <= Len(prog)
      BY <1>2, <1>3, <1>8, <2>1
    <2> QED
      BY <1>2, <2>2 DEF RangeOK
  <1>10. ASSUME NEW i \in Indices(prog) PROVE \E s \in 1..L : InRange(specs[s], i)
    <2>1. L - 1 \in Nat /\ (L - 1) + 1 = L /\ L \in 1..L
      BY <1>1
    <2>2. L - 1 \in good
      BY <1>7, <2>1
    <2>3. i \in 0..(specs[L].end - 1)
      BY <1>3 DEF Indices
    <2> QED
      BY <2>1, <2>2, <2>3 DEF good
  <1> QED
    BY <1>1, <1>8, <1>9, <1>10

\* Every instruction is in exactly one of those shards, which shard_of finds.
LEMMA ShardOfFacts ==
    ASSUME NEW prog, ProgramOK(prog), NEW specs, SpecsOK(prog, specs)
    PROVE  /\ \A i \in Indices(prog) : shard_of(specs, i) \in DOMAIN specs /\ InRange(specs[shard_of(specs, i)], i)
           /\ \A i \in Indices(prog) : \A s \in DOMAIN specs : InRange(specs[s], i) => s = shard_of(specs, i)
  <1>1. /\ \A s \in DOMAIN specs : RangeOK(prog, specs[s])
        /\ \A s, t \in DOMAIN specs : s < t => specs[s].end <= specs[t].start
        /\ \A i \in Indices(prog) : \E s \in DOMAIN specs : InRange(specs[s], i)
    BY SpecsFacts
  <1>2. DOMAIN specs \subseteq Nat /\ Indices(prog) \subseteq Nat
    BY DEF SpecsOK, Indices
  <1>3. \A i \in Indices(prog) : shard_of(specs, i) \in DOMAIN specs /\ InRange(specs[shard_of(specs, i)], i)
    BY <1>1 DEF shard_of
  <1>4. ASSUME NEW i \in Indices(prog), NEW s \in DOMAIN specs, NEW t \in DOMAIN specs, InRange(specs[s], i), InRange(specs[t], i)
        PROVE  s = t
    <2>1. /\ i \in Nat /\ s \in Nat /\ t \in Nat
          /\ specs[s].start <= i /\ i < specs[s].end /\ specs[t].start <= i /\ i < specs[t].end
      BY <1>2, <1>4 DEF InRange
    <2>2. /\ specs[s].start \in Nat /\ specs[s].end \in Nat /\ specs[t].start \in Nat /\ specs[t].end \in Nat
      BY <1>1 DEF RangeOK
    <2>3. ~(s < t) /\ ~(t < s)
      <3>1. s < t => specs[s].end <= specs[t].start
        BY <1>1
      <3>2. t < s => specs[t].end <= specs[s].start
        BY <1>1
      <3> QED
        BY <2>1, <2>2, <3>1, <3>2
    <2> QED
      BY <2>1, <2>3
  <1> QED
    BY <1>3, <1>4

\* What a shard reads from outside is a graph input or comes over one of its edges.
LEMMA OutsideFacts ==
    ASSUME NEW prog, ProgramOK(prog), NEW specs, SpecsOK(prog, specs), OnlyPrior(prog), NEW s \in DOMAIN specs,
           NEW r \in OutsideOf(prog, specs[s])
    PROVE  \/ r[1] = "graph"
           \/ /\ r = Virtual(r[2]) /\ r[2] \in Indices(prog)
              /\ r \in ToSet(Shards(prog, specs)[s].inputs)
  <1>1. RegisterIn(r) /\ r[1] # "weight" /\ ~(IsVirtual(r) /\ InRange(specs[s], r[2])) /\ r \in UsedIn(prog, specs[s])
    BY UsesFacts, SpecsFacts DEF OutsideOf
  <1>2. CASE r[1] = "virtual"
    <2> DEFINE p == r[2]
    <2>1. r = Virtual(p) /\ p \in Nat /\ IsVirtual(r) /\ ~InRange(specs[s], p)
      BY <1>1, <1>2 DEF RegisterIn, Virtual, IsVirtual
    <2>2. PICK i \in Nat : InRange(specs[s], i) /\ r \in ToSet(InstructionAt(prog, i).inputs)
      BY <1>1 DEF UsedIn
    <2>3. RangeOK(prog, specs[s])
      BY SpecsFacts
    <2>4. i \in Indices(prog)
      BY <2>2, <2>3, UsesFacts
    <2>5. p \in Reads(prog, i)
      BY <2>1, <2>2 DEF Reads
    <2>6. p < i
      BY <2>4, <2>5 DEF OnlyPrior
    <2>7. p \in Indices(prog)
      BY <2>1, <2>4, <2>6 DEF Indices, ProgramOK
    <2>8. s = shard_of(specs, i) /\ shard_of(specs, p) # s
      BY <2>1, <2>2, <2>4, <2>7, ShardOfFacts
    <2>9. s \in consumers_of(prog, specs, p)
      BY <2>4, <2>5, <2>8 DEF consumers_of
    <2>10. \A q \in Indices(prog) : \A c \in consumers_of(prog, specs, q) :
             \E e \in Edges(prog, specs) : /\ e.register = Virtual(q) /\ e.producer = shard_of(specs, q) /\ e.consumer = c
      BY EdgeFacts
    <2>11. PICK e \in Edges(prog, specs) : e.register = Virtual(p) /\ e.consumer = s
      BY <2>7, <2>9, <2>10
    <2>12. Len(prog) \in Nat
      BY DEF ProgramOK
    <2>13. ToSet(Shards(prog, specs)[s].inputs) = {f.register : f \in {f \in Edges(prog, specs) : f.consumer = s}}
      BY <2>12, ShardFacts
    <2> QED
      BY <2>1, <2>7, <2>11, <2>13
  <1> QED
    BY <1>1, <1>2 DEF RegisterIn

\* The ends of an edge: the producer computes its register, the consumer reads it from outside.
LEMMA EdgeEnds ==
    ASSUME NEW prog, ProgramOK(prog), NEW specs, SpecsOK(prog, specs), OnlyPrior(prog), NEW e \in Edges(prog, specs)
    PROVE  /\ e.producer \in DOMAIN specs /\ e.consumer \in DOMAIN specs
           /\ e.register \in RegistersBefore(Len(prog)) /\ InRange(specs[e.producer], e.register[2])
           /\ e.register \in ToSet(Shards(prog, specs)[e.producer].outputs)
           /\ e.register \in OutsideOf(prog, specs[e.consumer])
  <1>1. PICK p \in Indices(prog) : /\ e.register = Virtual(p) /\ e.producer = shard_of(specs, p)
                                   /\ e.consumer \in consumers_of(prog, specs, p)
    BY EdgeFacts
  <1>2. PICK i \in Indices(prog) : p \in Reads(prog, i) /\ e.consumer = shard_of(specs, i) /\ e.consumer # shard_of(specs, p)
    BY <1>1 DEF consumers_of
  <1>3. /\ e.producer \in DOMAIN specs /\ InRange(specs[e.producer], p)
        /\ e.consumer \in DOMAIN specs /\ InRange(specs[e.consumer], i) /\ ~InRange(specs[e.consumer], p)
    BY <1>1, <1>2, ShardOfFacts
  <1>4. e.register[2] = p /\ e.register[1] = "virtual" /\ p \in Nat /\ i \in Nat /\ i + 1 \in DOMAIN prog
    BY <1>1 DEF Virtual, Indices, ProgramOK
  <1>5. PICK r \in ToSet(InstructionAt(prog, i).inputs) : IsVirtual(r) /\ r[2] = p
    BY <1>2 DEF Reads
  <1>6. RegisterIn(r)
    BY <1>4, <1>5 DEF ProgramOK, InstructionAt
  <1>7. r = e.register
    BY <1>1, <1>5, <1>6 DEF RegisterIn, IsVirtual, Virtual
  <1>8. r \in UsedIn(prog, specs[e.consumer])
    BY <1>3, <1>4, <1>5 DEF UsedIn, InstructionAt
  <1>9. e.register \in OutsideOf(prog, specs[e.consumer])
    BY <1>3, <1>4, <1>7, <1>8 DEF OutsideOf
  <1>10. Len(prog) \in Nat
    BY DEF ProgramOK
  <1> DEFINE s == e.producer
  <1>0. LET shard == Shards(prog, specs)[s]
        IN  /\ ToSet(shard.inputs) = {f.register : f \in {f \in Edges(prog, specs) : f.consumer = s}}
            /\ ToSet(shard.outputs) = {f.register : f \in {f \in Edges(prog, specs) : f.producer = s}}
            /\ IsInjective(shard.inputs) /\ IsInjective(shard.outputs)
    <2> HIDE DEF s
    <2>1. s \in DOMAIN specs
      BY <1>3 DEF s
    <2> QED
      BY <1>10, <2>1, ShardFacts, Zenon
  <1>11. ToSet(Shards(prog, specs)[e.producer].outputs) = {f.register : f \in {f \in Edges(prog, specs) : f.producer = e.producer}}
    BY <1>0
  <1>12. e.register \in ToSet(Shards(prog, specs)[e.producer].outputs)
    BY <1>11
  <1> QED
    BY <1>1, <1>3, <1>4, <1>9, <1>12 DEF RegistersBefore, Indices

-----------------------------------------------------------------------------
(* The shards of a binding *)

\* What the assumption on the setups says of the binding at hand.
LEMMA SetupFacts ==
    ASSUME binding \in BindSetups
    PROVE  /\ ProgramOK(binding.program) /\ DOMAIN binding.graph_inputs \subseteq Nat
           /\ \A name \in DOMAIN binding.graph_outputs : RegisterIn(binding.graph_outputs[name])
           /\ dag.ok => /\ SpecsOK(binding.program, binding.specs) /\ OnlyPrior(binding.program)
                        /\ dag.shards = Shards(binding.program, binding.specs)
                        /\ dag.edges = Edges(binding.program, binding.specs)
           /\ ~dag.ok => dag.edges = {}
           /\ 1 \in BoundShards
  <1>1. /\ binding.program \in Seq(ToSet(binding.program)) /\ binding.graph_inputs \in Seq(ToSet(binding.graph_inputs))
        /\ \A j \in DOMAIN binding.program :
            /\ binding.program[j].inputs \in Seq(ToSet(binding.program[j].inputs))
            /\ \A r \in ToSet(binding.program[j].inputs) : RegisterIn(r)
        /\ \A name \in DOMAIN binding.graph_outputs : RegisterIn(binding.graph_outputs[name])
        /\ binding.specs \in Seq([start : Nat, end : Nat]) /\ binding.specs # <<>>
        /\ \A s \in DOMAIN binding.specs : binding.specs[s].start < binding.specs[s].end
    BY BindingAssumption
  <1>2. ProgramOK(binding.program) /\ DOMAIN binding.graph_inputs \subseteq Nat
    BY <1>1 DEF ProgramOK
  <1>5. 1 \in BoundShards
    <2> DEFINE RangeSet == [start : Nat, end : Nat]
    <2>1. binding.specs \in Seq(RangeSet) /\ binding.specs # <<>>
      BY <1>1
    <2> HIDE DEF RangeSet
    <2> QED
      BY <2>1 DEF BoundShards
  <1>3. CASE Contiguous(binding.program, binding.specs) /\ OnlyPrior(binding.program)
    <2>1. /\ dag.ok = TRUE /\ dag.shards = Shards(binding.program, binding.specs)
          /\ dag.edges = Edges(binding.program, binding.specs)
      BY <1>3 DEF dag, build_dag
    <2>2. SpecsOK(binding.program, binding.specs)
      BY <1>1, <1>3 DEF SpecsOK
    <2> QED
      BY <1>1, <1>2, <1>3, <1>5, <2>1, <2>2
  <1>4. CASE ~(Contiguous(binding.program, binding.specs) /\ OnlyPrior(binding.program))
    <2>1. dag.ok = FALSE /\ dag.edges = {}
      BY <1>4 DEF dag, build_dag
    <2> QED
      BY <1>1, <1>2, <1>5, <2>1
  <1> QED
    BY <1>3, <1>4

\* The registers a shard hands on: those of its edges and the graph's outputs it computes.
OutputSet(s) ==
    ToSet(dag.shards[s].outputs)
        \cup {r \in {binding.graph_outputs[name] : name \in DOMAIN binding.graph_outputs} : InRange(binding.specs[s], r[2])}

\* The lists of a shard that can be bound: what it reads from outside, its weights, its outputs.
LEMMA ShardLists ==
    ASSUME binding \in BindSetups, dag.ok, NEW s \in BoundShards, OutputsFit(s)
    PROVE  LET outside == OutsideOf(binding.program, binding.specs[s])
           IN  /\ RangeOK(binding.program, binding.specs[s])
               /\ Cardinality(outside) \in Nat /\ External(s) \in [1..Cardinality(outside) -> outside]
               /\ boundary_register_order(binding.program, binding.specs[s]) \in [1..Cardinality(outside) -> outside]
               /\ ToSet(boundary_register_order(binding.program, binding.specs[s])) = outside
               /\ IsInjective(boundary_register_order(binding.program, binding.specs[s]))
               /\ ToSet(External(s)) = outside /\ IsInjective(External(s))
               /\ ToSet(WeightsOf(s)) = WeightsIn(binding.program, binding.specs[s]) /\ DOMAIN WeightsOf(s) \subseteq Nat
               /\ OutputSet(s) \in SUBSET RegistersBefore(Len(binding.program))
               /\ \A r \in OutputSet(s) : InRange(binding.specs[s], r[2])
               /\ ToSet(Outputs(s)) = OutputSet(s) /\ IsInjective(Outputs(s)) /\ Outputs(s) = ByIndex(OutputSet(s))
  <1> DEFINE prog == binding.program
             specs == binding.specs
             outside == OutsideOf(prog, specs[s])
             order == boundary_register_order(prog, specs[s])
  <1>1. /\ ProgramOK(prog) /\ SpecsOK(prog, specs) /\ OnlyPrior(prog)
        /\ \A name \in DOMAIN binding.graph_outputs : RegisterIn(binding.graph_outputs[name])
        /\ dag.shards = Shards(prog, specs) /\ s \in DOMAIN specs
    BY SetupFacts DEF BoundShards
  <1>2. RangeOK(prog, specs[s])
    BY <1>1, SpecsFacts
  <1>3. External(s) = Sorted(ToSet(order)) /\ WeightsOf(s) = weight_order(prog, specs[s]) /\ Outputs(s) = Sorted(OutputSet(s))
    BY DEF External, WeightsOf, Outputs, OutputSet
  <1> HIDE DEF prog, specs
  <1>4. /\ IsFiniteSet(outside) /\ order \in [1..Cardinality(outside) -> outside] /\ ToSet(order) = outside /\ IsInjective(order)
        /\ ToSet(weight_order(prog, specs[s])) = WeightsIn(prog, specs[s])
        /\ DOMAIN weight_order(prog, specs[s]) \subseteq Nat
    BY <1>1, <1>2, OrderFacts
  <1>5. \A r \in outside : RegisterIn(r) /\ r[1] # "weight"
    BY <1>1, <1>2, UsesFacts DEF OutsideOf
  <1> HIDE DEF outside, order
  <1>6. /\ Cardinality(outside) \in Nat /\ Sorted(outside) \in [1..Cardinality(outside) -> outside]
        /\ ToSet(Sorted(outside)) = outside /\ IsInjective(Sorted(outside))
    BY <1>4, <1>5, SortedFacts
  <1>7. Len(prog) \in Nat
    BY <1>1 DEF ProgramOK
  <1>8. ASSUME NEW r \in OutputSet(s) PROVE r \in RegistersBefore(Len(prog)) /\ InRange(specs[s], r[2])
    <2>1. CASE r \in ToSet(dag.shards[s].outputs)
      <3>0. LET shard == Shards(prog, specs)[s]
            IN  /\ ToSet(shard.inputs) = {e.register : e \in {e \in Edges(prog, specs) : e.consumer = s}}
                /\ ToSet(shard.outputs) = {e.register : e \in {e \in Edges(prog, specs) : e.producer = s}}
                /\ IsInjective(shard.inputs) /\ IsInjective(shard.outputs)
        BY <1>1, <1>7, ShardFacts, Zenon
      <3>1. ToSet(Shards(prog, specs)[s].outputs) = {e.register : e \in {e \in Edges(prog, specs) : e.producer = s}}
        BY <3>0
      <3>2. PICK e \in Edges(prog, specs) : e.producer = s /\ e.register = r
        BY <1>1, <2>1, <3>1
      <3> QED
        BY <1>1, <3>2, EdgeEnds
    <2>2. CASE r \notin ToSet(dag.shards[s].outputs)
      <3>1. PICK name \in DOMAIN binding.graph_outputs : r = binding.graph_outputs[name] /\ InRange(specs[s], r[2])
        BY <2>2 DEF OutputSet, specs
      <3>2. RegisterIn(r) /\ IsVirtual(r) /\ r[2] < Len(prog)
        BY <1>1, <3>1 DEF OutputsFit, prog
      <3>3. r = Virtual(r[2]) /\ r[2] \in Nat
        BY <3>2 DEF RegisterIn, IsVirtual, Virtual
      <3>4. r[2] \in 0..(Len(prog) - 1)
        BY <1>7, <3>2, <3>3
      <3> QED
        BY <3>1, <3>3, <3>4 DEF RegistersBefore
    <2> QED
      BY <2>1, <2>2
  <1>9. OutputSet(s) \in SUBSET RegistersBefore(Len(prog))
    BY <1>8
  <1>10. \A r \in OutputSet(s) : RegisterIn(r) /\ r[1] = "virtual" /\ r[2] \in Nat
    BY <1>8 DEF RegistersBefore, Virtual, RegisterIn
  <1>11. IsFiniteSet(OutputSet(s))
    BY <1>7, <1>9, RegistersBeforeFinite
  <1>12. Sorted(OutputSet(s)) = ByIndex(OutputSet(s))
    <2> DEFINE S == OutputSet(s)
               one == [r \in S |-> {q \in S : Before(q, r)}]
               two == [r \in S |-> {q \in S : q[2] < r[2]}]
    <2>1. \A q, r \in S : Before(q, r) <=> q[2] < r[2]
      BY <1>10 DEF Before, register_key
    <2>2. one = two
      BY <2>1
    <2> QED
      BY <2>2 DEF Sorted, ByIndex
  <1>13. ToSet(Sorted(OutputSet(s))) = OutputSet(s) /\ IsInjective(Sorted(OutputSet(s)))
    BY <1>10, <1>11, SortedFacts
  <1> QED
    BY <1>2, <1>3, <1>4, <1>6, <1>8, <1>9, <1>12, <1>13 DEF outside, order, prog, specs

-----------------------------------------------------------------------------
(* What a list of calls computes *)

\* The tensors a call is given when f has the results before it.
Arguments(calls, f, j) ==
    [p \in DOMAIN calls[j].operands |->
        IF calls[j].operands[p][1] = "given" THEN calls[j].operands[p][2] ELSE f[calls[j].operands[p][2] + 1]]

\* No call reads its own result or a later one.
CallsOnlyPrior(calls, n) ==
    \A j \in 1..n : \A p \in DOMAIN calls[j].operands :
        calls[j].operands[p][1] # "given" => calls[j].operands[p][2] + 1 \in 1..(j - 1)

\* The results before a call are all its arguments depend on.
LEMMA ArgumentsDepend ==
    ASSUME NEW calls, NEW n \in Nat, CallsOnlyPrior(calls, n), NEW j \in 1..n, NEW f, NEW g,
           \A k \in 1..(j - 1) : f[k] = g[k]
    PROVE  Arguments(calls, f, j) = Arguments(calls, g, j)
  <1>1. \A p \in DOMAIN calls[j].operands :
            calls[j].operands[p][1] # "given" => f[calls[j].operands[p][2] + 1] = g[calls[j].operands[p][2] + 1]
    BY DEF CallsOnlyPrior
  <1> QED
    BY <1>1 DEF Arguments

\* Evaluated: the result of a call is its step on its arguments among the results.
LEMMA EvaluatedFacts ==
    ASSUME NEW calls, NEW n \in Nat, DOMAIN calls = 1..n, CallsOnlyPrior(calls, n)
    PROVE  /\ DOMAIN Evaluated(calls) = 1..n
           /\ Evaluated(calls) = [j \in 1..n |-> Evaluated(calls)[j]]
           /\ \A j \in 1..n : Evaluated(calls)[j] = Step(calls[j].op, Arguments(calls, Evaluated(calls), j))
  <1> DEFINE fixed(f, m) == f = [j \in 1..m |-> Step(calls[j].op, Arguments(calls, f, j))]
             good == {m \in Nat : m <= n => \E f : fixed(f, m)}
             results_of == CHOOSE f : fixed(f, n)
  <1>1. Evaluated(calls) = CHOOSE f : f = [j \in DOMAIN calls |-> Step(calls[j].op, Arguments(calls, f, j))]
    BY Zenon DEF Evaluated, Mapped, Arguments
  <1>2. Evaluated(calls) = results_of
    BY <1>1
  <1>3. 0 \in good
    <2> DEFINE f == [j \in 1..0 |-> 0]
    <2>1. fixed(f, 0)
      OBVIOUS
    <2> HIDE DEF f, fixed
    <2> QED
      BY <2>1
  <1>4. ASSUME NEW m \in Nat, m \in good PROVE m + 1 \in good
    <2> SUFFICES ASSUME m + 1 <= n PROVE \E f : fixed(f, m + 1)
      OBVIOUS
    <2>1. PICK f : f = [j \in 1..m |-> Step(calls[j].op, Arguments(calls, f, j))]
      BY <1>4
    <2> DEFINE g == [j \in 1..(m + 1) |-> IF j = m + 1 THEN Step(calls[m + 1].op, Arguments(calls, f, m + 1)) ELSE f[j]]
               h == [j \in 1..(m + 1) |-> Step(calls[j].op, Arguments(calls, g, j))]
    <2>2. (\A k \in 1..m : g[k] = f[k]) /\ g[m + 1] = Step(calls[m + 1].op, Arguments(calls, f, m + 1))
      OBVIOUS
    <2>3. \A j \in 1..(m + 1) : h[j] = Step(calls[j].op, Arguments(calls, g, j))
      OBVIOUS
    <2>4. g = [j \in 1..(m + 1) |-> g[j]] /\ h = [j \in 1..(m + 1) |-> h[j]]
      OBVIOUS
    <2> HIDE DEF g, h
    <2>5. ASSUME NEW j \in 1..(m + 1) PROVE g[j] = h[j]
      <3>1. j \in 1..n /\ \A k \in 1..(j - 1) : k \in 1..m
        OBVIOUS
      <3>2. \A k \in 1..(j - 1) : f[k] = g[k]
        BY <2>2, <3>1
      <3>3. Arguments(calls, f, j) = Arguments(calls, g, j)
        BY <3>1, <3>2, ArgumentsDepend
      <3>4. g[j] = Step(calls[j].op, Arguments(calls, f, j))
        <4>1. CASE j = m + 1
          BY <2>2, <4>1
        <4>2. CASE j # m + 1
          <5>1. j \in 1..m
            BY <4>2
          <5> QED
            BY <2>1, <2>2, <5>1
        <4> QED
          BY <4>1, <4>2
      <3> QED
        BY <2>3, <3>3, <3>4
    <2>6. g = h
      BY <2>4, <2>5
    <2>7. fixed(g, m + 1)
      BY <2>6 DEF h
    <2> HIDE DEF fixed
    <2> QED
      BY <2>7
  <1> HIDE DEF good
  <1>5. n \in good
    BY <1>3, <1>4, NumbersInSet
  <1>6. \E f : fixed(f, n)
    BY <1>5 DEF good
  <1>7. fixed(results_of, n)
    <2> HIDE DEF fixed
    <2> QED
      BY <1>6
  <1> HIDE DEF results_of
  <1>8. results_of = [j \in 1..n |-> Step(calls[j].op, Arguments(calls, results_of, j))]
    BY <1>7
  <1> QED
    BY <1>2, <1>8

\* The calls of the compiled program, and those of a local one.
ProgramOperand(r) ==
    CASE r[1] = "graph" -> Given(binding.values[r[2]])
      [] r[1] = "weight" -> Given(binding.weights[r[2]])
      [] OTHER -> Earlier(r[2])
ProgramCalls ==
    [j \in DOMAIN binding.program |->
        [op |-> j - 1,
         operands |-> [p \in DOMAIN binding.program[j].inputs |-> ProgramOperand(binding.program[j].inputs[p])]]]
LocalOperand(r, inputs, weights) ==
    CASE r[1] = "input" -> Given(inputs[r[2] + 1])
      [] r[1] = "weight" -> Given(weights[r[2] + 1])
      [] OTHER -> Earlier(r[2])
LocalCalls(instructions, inputs, weights) ==
    [j \in DOMAIN instructions |->
        [op |-> instructions[j].op,
         operands |-> [p \in DOMAIN instructions[j].inputs |-> LocalOperand(instructions[j].inputs[p], inputs, weights)]]]

\* Both computations evaluate their calls.
LEMMA BothEvaluate ==
    /\ ProgramResults = Evaluated(ProgramCalls)
    /\ \A instructions, inputs, weights :
        Computed(instructions, inputs, weights) = Evaluated(LocalCalls(instructions, inputs, weights))
  <1>1. ProgramResults = Evaluated(ProgramCalls)
    BY Zenon DEF ProgramResults, ProgramCalls, ProgramOperand, Mapped
  <1>2. ASSUME NEW instructions, NEW inputs, NEW weights
        PROVE  Computed(instructions, inputs, weights) = Evaluated(LocalCalls(instructions, inputs, weights))
    BY Zenon DEF Computed, LocalCalls, LocalOperand, Mapped
  <1> QED
    BY <1>1, <1>2

\* The inputs of the program's instructions are registers, and virtual ones are results before it.
LEMMA InputFacts ==
    ASSUME binding \in BindSetups, OnlyPrior(binding.program), NEW j \in DOMAIN binding.program,
           NEW p \in DOMAIN binding.program[j].inputs
    PROVE  LET r == binding.program[j].inputs[p]
           IN  /\ RegisterIn(r) /\ r \in ToSet(binding.program[j].inputs)
               /\ r[1] = "virtual" => r[2] \in Nat /\ r[2] + 1 \in 1..(j - 1)
               /\ j \in 1..Len(binding.program) /\ Len(binding.program) \in Nat
  <1> DEFINE r == binding.program[j].inputs[p]
  <1>1. ProgramOK(binding.program)
    BY SetupFacts
  <1>2. j \in 1..Len(binding.program) /\ Len(binding.program) \in Nat
    BY <1>1 DEF ProgramOK
  <1>3. r \in ToSet(binding.program[j].inputs)
    BY DEF ToSet
  <1>4. RegisterIn(r)
    BY <1>1, <1>3 DEF ProgramOK
  <1> HIDE DEF r
  <1>5. ASSUME r[1] = "virtual" PROVE r[2] \in Nat /\ r[2] + 1 \in 1..(j - 1)
    <2>1. j - 1 \in Indices(binding.program) /\ (j - 1) + 1 = j
      BY <1>2 DEF Indices
    <2>2. r[2] \in Reads(binding.program, j - 1)
      BY <1>3, <1>5, <2>1 DEF Reads, InstructionAt, IsVirtual
    <2>3. r[2] < j - 1
      BY <2>1, <2>2 DEF OnlyPrior
    <2>4. r[2] \in Nat
      BY <1>4, <1>5 DEF RegisterIn
    <2> QED
      BY <1>2, <2>3, <2>4
  <1> QED
    BY <1>2, <1>3, <1>4, <1>5 DEF r

\* The program's own results.
LEMMA ProgramFacts ==
    ASSUME binding \in BindSetups, OnlyPrior(binding.program)
    PROVE  LET n == Len(binding.program)
           IN  /\ n \in Nat /\ DOMAIN binding.program = 1..n /\ DOMAIN ProgramCalls = 1..n
               /\ \A j \in 1..n : ProgramResults[j] = Step(j - 1, Arguments(ProgramCalls, ProgramResults, j))
  <1> DEFINE n == Len(binding.program)
  <1>1. n \in Nat /\ DOMAIN binding.program = 1..n
    BY SetupFacts DEF ProgramOK
  <1>2. DOMAIN ProgramCalls = 1..n
    BY <1>1 DEF ProgramCalls
  <1>3. CallsOnlyPrior(ProgramCalls, n)
    <2> SUFFICES ASSUME NEW j \in 1..n, NEW p \in DOMAIN ProgramCalls[j].operands, ProgramCalls[j].operands[p][1] # "given"
                 PROVE  ProgramCalls[j].operands[p][2] + 1 \in 1..(j - 1)
      BY DEF CallsOnlyPrior
    <2> DEFINE r == binding.program[j].inputs[p]
    <2>1. p \in DOMAIN binding.program[j].inputs /\ ProgramCalls[j].operands[p] = ProgramOperand(r)
      BY <1>1 DEF ProgramCalls
    <2>2. RegisterIn(r) /\ (r[1] = "virtual" => r[2] \in Nat /\ r[2] + 1 \in 1..(j - 1))
      BY <1>1, <2>1, InputFacts
    <2> HIDE DEF r
    <2>3. r[1] = "virtual"
      BY <2>1, <2>2 DEF ProgramOperand, Given, RegisterIn
    <2>4. ProgramOperand(r) = Earlier(r[2])
      BY <2>3 DEF ProgramOperand
    <2> QED
      BY <2>1, <2>2, <2>3, <2>4 DEF Earlier
  <1>4. \A j \in 1..n : Evaluated(ProgramCalls)[j] = Step(ProgramCalls[j].op, Arguments(ProgramCalls, Evaluated(ProgramCalls), j))
    <2> HIDE DEF n
    <2> QED
      BY <1>1, <1>2, <1>3, EvaluatedFacts
  <1>5. \A j \in 1..n : ProgramCalls[j].op = j - 1
    BY <1>1 DEF ProgramCalls
  <1> QED
    BY <1>1, <1>2, <1>4, <1>5, BothEvaluate

\* to_assembler_program: the whole program's calls are the compiled program's, whatever
\* the order of the graph inputs.
LEMMA WholeProgramAgrees == binding \in BindSetups => WholeAgrees
  <1> SUFFICES ASSUME binding \in BindSetups, OnlyPrior(binding.program), Resolvable
               PROVE  Computed(to_assembler_program.instructions, to_assembler_program.input_values,
                               to_assembler_program.weight_values) = ProgramResults
    BY DEF WholeAgrees
  <1> DEFINE prog == binding.program
             whole == [start |-> 0, end |-> Len(prog)]
             weights == weight_order(prog, whole)
             instructions == to_assembler_program.instructions
             inputs == to_assembler_program.input_values
             values == to_assembler_program.weight_values
  <1>1. Len(prog) \in Nat /\ DOMAIN prog = 1..Len(prog)
    BY ProgramFacts
  <1>2. /\ inputs = [p \in DOMAIN binding.graph_inputs |-> binding.values[binding.graph_inputs[p]]]
        /\ values = [p \in DOMAIN weights |-> binding.weights[weights[p][2]]]
        /\ instructions = [j \in DOMAIN prog |-> [op |-> j - 1,
                inputs |-> [p \in DOMAIN prog[j].inputs |-> resolve_register(prog[j].inputs[p])]]]
    BY DEF to_assembler_program, Mapped
  <1>3. RangeOK(prog, whole) /\ ProgramOK(prog) /\ DOMAIN binding.graph_inputs \subseteq Nat
    BY <1>1, SetupFacts DEF RangeOK
  <1>4. ToSet(weights) = WeightsIn(prog, whole) /\ DOMAIN weights \subseteq Nat
    <2> HIDE DEF whole, prog
    <2> QED
      BY <1>3, OrderFacts
  <1>5. ASSUME NEW j \in DOMAIN prog, NEW p \in DOMAIN prog[j].inputs
        PROVE  LocalOperand(resolve_register(prog[j].inputs[p]), inputs, values) = ProgramOperand(prog[j].inputs[p])
    <2> DEFINE r == prog[j].inputs[p]
    <2>1. RegisterIn(r) /\ r \in ToSet(prog[j].inputs) /\ j \in 1..Len(prog)
      BY InputFacts
    <2>2. j - 1 \in Indices(prog) /\ j - 1 \in Nat /\ InRange(whole, j - 1) /\ (j - 1) + 1 = j
      BY <1>1, <2>1 DEF Indices, InRange
    <2> HIDE DEF r, instructions, inputs, values
    <2>3. CASE r[1] = "graph"
      <3>1. \E q \in DOMAIN binding.graph_inputs : binding.graph_inputs[q] = r[2]
        BY <2>1, <2>2, <2>3 DEF Resolvable, InstructionAt
      <3>2. r[2] \in ToSet(binding.graph_inputs)
        BY <3>1 DEF ToSet
      <3> DEFINE q == PositionIn(binding.graph_inputs, r[2])
      <3>3. q \in DOMAIN binding.graph_inputs /\ binding.graph_inputs[q] = r[2]
        BY <3>2, PositionFacts
      <3>4. resolve_register(r) = <<"input", q - 1>>
        BY <2>3 DEF resolve_register
      <3> HIDE DEF q
      <3>5. (q - 1) + 1 = q
        BY <1>3, <3>3
      <3>6. LocalOperand(resolve_register(r), inputs, values) = Given(inputs[q])
        BY <3>4, <3>5 DEF LocalOperand
      <3>7. inputs[q] = binding.values[r[2]]
        BY <1>2, <3>3
      <3>8. ProgramOperand(r) = Given(binding.values[r[2]])
        BY <2>3 DEF ProgramOperand
      <3> QED
        BY <3>6, <3>7, <3>8 DEF r
    <2>4. CASE r[1] = "weight"
      <3>1. r \in UsedIn(prog, whole)
        BY <2>1, <2>2 DEF UsedIn, InstructionAt
      <3>2. r \in ToSet(weights)
        BY <1>4, <2>4, <3>1 DEF WeightsIn
      <3> HIDE DEF weights
      <3> DEFINE q == PositionIn(weights, r)
      <3>3. q \in DOMAIN weights /\ weights[q] = r
        BY <3>2, PositionFacts
      <3>4. resolve_register(r) = <<"weight", q - 1>>
        BY <2>4 DEF resolve_register, weights
      <3> HIDE DEF q
      <3>5. (q - 1) + 1 = q
        BY <1>4, <3>3
      <3>6. LocalOperand(resolve_register(r), inputs, values) = Given(values[q])
        BY <3>4, <3>5 DEF LocalOperand
      <3>7. values[q] = binding.weights[r[2]]
        BY <1>2, <3>3
      <3>8. ProgramOperand(r) = Given(binding.weights[r[2]])
        BY <2>4 DEF ProgramOperand
      <3> QED
        BY <3>6, <3>7, <3>8 DEF r
    <2>5. CASE r[1] = "virtual"
      <3>1. resolve_register(r) = r
        BY <2>5 DEF resolve_register
      <3>2. LocalOperand(r, inputs, values) = Earlier(r[2])
        BY <2>5 DEF LocalOperand
      <3>3. ProgramOperand(r) = Earlier(r[2])
        BY <2>5 DEF ProgramOperand
      <3> QED
        BY <3>1, <3>2, <3>3 DEF r
    <2> QED
      BY <2>1, <2>3, <2>4, <2>5 DEF RegisterIn
  <1> HIDE DEF inputs, values
  <1>6. DOMAIN instructions = DOMAIN prog
    BY <1>2
  <1>7. \A j \in DOMAIN prog : instructions[j].op = j - 1 /\ DOMAIN instructions[j].inputs = DOMAIN prog[j].inputs
            /\ \A p \in DOMAIN prog[j].inputs : instructions[j].inputs[p] = resolve_register(prog[j].inputs[p])
    BY <1>2
  <1> HIDE DEF instructions
  <1>8. LocalCalls(instructions, inputs, values) = ProgramCalls
    <2> DEFINE call(j) == [op |-> instructions[j].op,
                           operands |-> [p \in DOMAIN instructions[j].inputs |-> LocalOperand(instructions[j].inputs[p], inputs, values)]]
               own(j) == [op |-> j - 1, operands |-> [p \in DOMAIN prog[j].inputs |-> ProgramOperand(prog[j].inputs[p])]]
    <2>1. ASSUME NEW j \in DOMAIN prog PROVE call(j) = own(j)
      <3>1. [p \in DOMAIN instructions[j].inputs |-> LocalOperand(instructions[j].inputs[p], inputs, values)]
              = [p \in DOMAIN prog[j].inputs |-> ProgramOperand(prog[j].inputs[p])]
        BY <1>5, <1>7
      <3> QED
        BY <1>7, <3>1
    <2>2. LocalCalls(instructions, inputs, values) = [j \in DOMAIN prog |-> call(j)] /\ ProgramCalls = [j \in DOMAIN prog |-> own(j)]
      BY <1>6 DEF LocalCalls, ProgramCalls
    <2> HIDE DEF call, own
    <2> QED
      BY <2>1, <2>2
  <1>9. Computed(instructions, inputs, values) = Evaluated(LocalCalls(instructions, inputs, values))
    BY BothEvaluate
  <1> QED
    BY <1>8, <1>9, BothEvaluate DEF instructions, inputs, values

-----------------------------------------------------------------------------
(* A shard computes what the program computes *)

\* The results given to a shard are those of the program.
TrueIncoming(s, incoming) ==
    /\ DOMAIN incoming = ToSet(dag.shards[s].inputs)
    /\ \A r \in DOMAIN incoming : incoming[r] = ProgramResults[r[2] + 1]

\* local_register: an operand of a bound shard stands for the program's operand, or for
\* the program's result it was given.
LEMMA LocalMeaning ==
    ASSUME binding \in BindSetups, dag.ok, NEW s \in BoundShards, OutputsFit(s), NEW incoming, TrueIncoming(s, incoming),
           NEW r \in UsedIn(binding.program, binding.specs[s])
    PROVE  LET shard == BoundShardProgram(s, incoming)
               operand == LocalOperand(local_register(s, r), shard.input_values, shard.weight_values)
           IN  \/ r[1] # "virtual" /\ operand = ProgramOperand(r) /\ operand[1] = "given"
               \/ /\ r[1] = "virtual" /\ InRange(binding.specs[s], r[2])
                  /\ operand = Earlier(r[2] - binding.specs[s].start)
               \/ r[1] = "virtual" /\ operand = Given(ProgramResults[r[2] + 1])
  <1> DEFINE prog == binding.program
             range == binding.specs[s]
             inputs == BoundShardProgram(s, incoming).input_values
             weights == BoundShardProgram(s, incoming).weight_values
             operand == LocalOperand(local_register(s, r), inputs, weights)
  <1>1. /\ inputs = [p \in DOMAIN External(s) |-> ValueOf(External(s)[p], incoming)]
        /\ weights = [p \in DOMAIN WeightsOf(s) |-> binding.weights[WeightsOf(s)[p][2]]]
    BY DEF BoundShardProgram, Mapped
  <1>2. /\ ProgramOK(prog) /\ SpecsOK(prog, binding.specs) /\ OnlyPrior(prog) /\ s \in DOMAIN binding.specs
        /\ dag.shards = Shards(prog, binding.specs)
    BY SetupFacts DEF BoundShards
  <1>3. /\ RangeOK(prog, range)
        /\ ToSet(External(s)) = OutsideOf(prog, range)
        /\ External(s) \in [1..Cardinality(OutsideOf(prog, range)) -> OutsideOf(prog, range)]
        /\ ToSet(WeightsOf(s)) = WeightsIn(prog, range) /\ DOMAIN WeightsOf(s) \subseteq Nat
    BY ShardLists
  <1>4. RegisterIn(r)
    BY <1>2, <1>3, UsesFacts
  <1>5. DOMAIN External(s) \subseteq Nat
    BY <1>3
  <1> HIDE DEF inputs, weights
  <1>6. CASE r[1] = "weight"
    <2> DEFINE q == PositionIn(WeightsOf(s), r)
    <2>1. r \in ToSet(WeightsOf(s))
      BY <1>3, <1>6 DEF WeightsIn
    <2>2. q \in DOMAIN WeightsOf(s) /\ WeightsOf(s)[q] = r
      BY <2>1, PositionFacts
    <2>3. local_register(s, r) = <<"weight", q - 1>>
      BY <1>6 DEF local_register, IsVirtual
    <2> HIDE DEF q
    <2>4. (q - 1) + 1 = q
      BY <1>3, <2>2
    <2>5. operand = Given(weights[q])
      BY <2>3, <2>4 DEF LocalOperand
    <2>6. weights[q] = binding.weights[r[2]]
      BY <1>1, <2>2
    <2>7. ProgramOperand(r) = Given(binding.weights[r[2]])
      BY <1>6 DEF ProgramOperand
    <2>8. operand[1] = "given"
      BY <2>5 DEF Given
    <2> QED
      BY <1>6, <2>5, <2>6, <2>7, <2>8 DEF inputs, weights
  <1>7. CASE r[1] = "virtual" /\ InRange(range, r[2])
    <2>1. local_register(s, r) = <<"virtual", r[2] - range.start>>
      BY <1>7 DEF local_register, IsVirtual
    <2>2. operand = Earlier(r[2] - range.start)
      BY <2>1 DEF LocalOperand
    <2> QED
      BY <1>7, <2>2 DEF inputs, weights
  <1>8. CASE r[1] # "weight" /\ ~(r[1] = "virtual" /\ InRange(range, r[2]))
    <2> DEFINE q == PositionIn(External(s), r)
    <2>1. r \in OutsideOf(prog, range)
      BY <1>8 DEF OutsideOf, IsVirtual
    <2>2. q \in DOMAIN External(s) /\ External(s)[q] = r
      BY <1>3, <2>1, PositionFacts
    <2>3. local_register(s, r) = <<"input", q - 1>>
      BY <1>8 DEF local_register, IsVirtual
    <2> HIDE DEF q
    <2>4. (q - 1) + 1 = q
      BY <1>5, <2>2
    <2>5. operand = Given(inputs[q])
      BY <2>3, <2>4 DEF LocalOperand
    <2>6. inputs[q] = ValueOf(r, incoming)
      BY <1>1, <2>2
    <2>7. CASE r[1] = "graph"
      <3>1. ProgramOperand(r) = Given(binding.values[r[2]]) /\ ValueOf(r, incoming) = binding.values[r[2]]
        BY <2>7 DEF ProgramOperand, ValueOf
      <3>2. operand[1] = "given"
        BY <2>5 DEF Given
      <3> QED
        BY <2>5, <2>6, <2>7, <3>1, <3>2 DEF inputs, weights
    <2>8. CASE r[1] # "graph"
      <3>1. r[1] = "virtual"
        BY <1>4, <1>8, <2>8 DEF RegisterIn
      <3>2. r \in ToSet(dag.shards[s].inputs)
        BY <1>2, <2>1, <2>8, OutsideFacts
      <3>3. ValueOf(r, incoming) = ProgramResults[r[2] + 1]
        BY <2>8, <3>2 DEF ValueOf, TrueIncoming
      <3> QED
        BY <2>5, <2>6, <3>1, <3>3 DEF inputs, weights
    <2> QED
      BY <2>7, <2>8
  <1> QED
    BY <1>6, <1>7, <1>8

\* A bound shard, given the program's results, computes the program's results.
LEMMA ShardComputes ==
    ASSUME binding \in BindSetups, dag.ok, NEW s \in BoundShards, OutputsFit(s), NEW incoming, TrueIncoming(s, incoming)
    PROVE  LET shard == BoundShardProgram(s, incoming)
               range == binding.specs[s]
               own == Computed(shard.instructions, shard.input_values, shard.weight_values)
           IN  \A j \in 1..(range.end - range.start) : own[j] = ProgramResults[range.start + j]
  <1> DEFINE prog == binding.program
             range == binding.specs[s]
             first == range.start
             m == range.end - range.start
             shard == BoundShardProgram(s, incoming)
             calls == LocalCalls(shard.instructions, shard.input_values, shard.weight_values)
             own == Evaluated(calls)
             operand(r) == LocalOperand(local_register(s, r), shard.input_values, shard.weight_values)
             reading(j) == prog[first + j].inputs
  <1>1. /\ ProgramOK(prog) /\ OnlyPrior(prog) /\ RangeOK(prog, range)
    BY SetupFacts, ShardLists
  <1>2. m \in Nat /\ first \in Nat /\ first + m <= Len(prog) /\ Len(prog) \in Nat /\ DOMAIN prog = 1..Len(prog)
    BY <1>1 DEF RangeOK, ProgramOK
  <1>3. shard.instructions = [j \in 1..m |->
            [op |-> first + j - 1, inputs |-> [p \in DOMAIN reading(j) |-> local_register(s, reading(j)[p])]]]
    <2>1. shard.instructions = [j \in 1..m |->
            [op |-> first + j - 1, inputs |-> [p \in DOMAIN InstructionAt(prog, first + j - 1).inputs |->
                                                local_register(s, InstructionAt(prog, first + j - 1).inputs[p])]]]
      BY DEF BoundShardProgram, LocalInstructions, Mapped
    <2>2. \A j \in 1..m : InstructionAt(prog, first + j - 1) = prog[first + j]
      <3>1. \A j \in 1..m : (first + j - 1) + 1 = first + j
        BY <1>2
      <3> QED
        BY <3>1 DEF InstructionAt
    <2> HIDE DEF m, first, shard
    <2> QED
      BY <2>1, <2>2
  <1>4. \A j \in 1..m : first + j \in 1..Len(prog) /\ InRange(range, first + j - 1) /\ first + j - 1 \in Nat
                        /\ (first + j - 1) + 1 = first + j
    <2>1. range.start = first /\ range.end = first + m
      BY <1>1 DEF RangeOK
    <2> HIDE DEF m, first, range
    <2> QED
      BY <1>2, <2>1 DEF InRange
  <1>5. ASSUME NEW j \in 1..m, NEW p \in DOMAIN reading(j)
        PROVE  LET r == reading(j)[p]
               IN  /\ RegisterIn(r) /\ r \in UsedIn(prog, range)
                   /\ r[1] = "virtual" => r[2] \in Nat /\ r[2] < first + j - 1
    <2> DEFINE r == reading(j)[p]
    <2>1. /\ RegisterIn(r) /\ r \in ToSet(reading(j)) /\ (r[1] = "virtual" => r[2] \in Nat /\ r[2] + 1 \in 1..((first + j) - 1))
      BY <1>1, <1>2, <1>4, InputFacts
    <2>2. r[1] = "virtual" => r[2] < first + j - 1
      <3> HIDE DEF r, first, m
      <3> QED
        BY <1>2, <2>1
    <2>3. r \in UsedIn(prog, range)
      BY <1>2, <1>4, <2>1 DEF UsedIn, InstructionAt
    <2> QED
      BY <2>1, <2>2, <2>3
  <1>6. ASSUME NEW j \in 1..m, NEW p \in DOMAIN reading(j)
        PROVE  LET r == reading(j)[p]
               IN  \/ r[1] # "virtual" /\ operand(r) = ProgramOperand(r) /\ operand(r)[1] = "given"
                   \/ /\ r[1] = "virtual" /\ InRange(range, r[2]) /\ operand(r) = Earlier(r[2] - first)
                   \/ r[1] = "virtual" /\ operand(r) = Given(ProgramResults[r[2] + 1])
    <2>1. reading(j)[p] \in UsedIn(prog, range)
      BY <1>5
    <2> QED
      BY <2>1, LocalMeaning
  <1>7. \A j \in 1..m : /\ calls[j].op = first + j - 1 /\ DOMAIN calls[j].operands = DOMAIN reading(j)
                        /\ \A p \in DOMAIN reading(j) : calls[j].operands[p] = operand(reading(j)[p])
    <2> HIDE DEF m, first, shard, reading
    <2>1. DOMAIN shard.instructions = 1..m
      BY <1>3
    <2> SUFFICES ASSUME NEW j \in 1..m
                 PROVE  /\ calls[j].op = first + j - 1 /\ DOMAIN calls[j].operands = DOMAIN reading(j)
                        /\ \A p \in DOMAIN reading(j) : calls[j].operands[p] = operand(reading(j)[p])
      OBVIOUS
    <2>2. shard.instructions[j] = [op |-> first + j - 1, inputs |-> [p \in DOMAIN reading(j) |-> local_register(s, reading(j)[p])]]
      BY <1>3
    <2>3. shard.instructions[j].op = first + j - 1 /\ shard.instructions[j].inputs = [p \in DOMAIN reading(j) |-> local_register(s, reading(j)[p])]
      BY <2>2
    <2>4. calls[j] = [op |-> shard.instructions[j].op,
                     operands |-> [p \in DOMAIN shard.instructions[j].inputs |->
                        LocalOperand(shard.instructions[j].inputs[p], shard.input_values, shard.weight_values)]]
      BY <2>1 DEF LocalCalls
    <2> QED
      BY <2>3, <2>4
  <1>8. DOMAIN calls = 1..m
    <2> HIDE DEF m, first, shard
    <2> QED
      BY <1>3 DEF LocalCalls
  <1>9. \A j \in 1..m : ProgramCalls[first + j].op = (first + j) - 1 /\ DOMAIN ProgramCalls[first + j].operands = DOMAIN reading(j)
            /\ \A p \in DOMAIN reading(j) : ProgramCalls[first + j].operands[p] = ProgramOperand(reading(j)[p])
    <2> SUFFICES ASSUME NEW j \in 1..m
                 PROVE  ProgramCalls[first + j].op = (first + j) - 1 /\ DOMAIN ProgramCalls[first + j].operands = DOMAIN reading(j)
                        /\ \A p \in DOMAIN reading(j) : ProgramCalls[first + j].operands[p] = ProgramOperand(reading(j)[p])
      OBVIOUS
    <2> DEFINE k == first + j
    <2>1. k \in DOMAIN prog
      BY <1>2, <1>4
    <2> HIDE DEF k
    <2>2. /\ ProgramCalls[k].op = k - 1 /\ DOMAIN ProgramCalls[k].operands = DOMAIN prog[k].inputs
          /\ \A p \in DOMAIN prog[k].inputs : ProgramCalls[k].operands[p] = ProgramOperand(prog[k].inputs[p])
      BY <2>1 DEF ProgramCalls
    <2> QED
      BY <2>2 DEF k
  <1> HIDE DEF operand, calls, reading, m, first, shard, range, prog
  <1>10. CallsOnlyPrior(calls, m)
    <2> SUFFICES ASSUME NEW j \in 1..m, NEW p \in DOMAIN reading(j), operand(reading(j)[p])[1] # "given"
                 PROVE  operand(reading(j)[p])[2] + 1 \in 1..(j - 1)
      BY <1>7 DEF CallsOnlyPrior
    <2> DEFINE r == reading(j)[p]
    <2>1. r[1] = "virtual" /\ InRange(range, r[2]) /\ operand(r) = Earlier(r[2] - first)
      BY <1>6 DEF Given
    <2>2. r[2] \in Nat /\ r[2] < first + j - 1
      BY <1>5, <2>1
    <2>3. first <= r[2]
      BY <2>1 DEF InRange, first
    <2>4. operand(r)[2] = r[2] - first
      BY <2>1 DEF Earlier
    <2> HIDE DEF r
    <2>5. (r[2] - first) + 1 \in 1..(j - 1)
      BY <1>2, <2>2, <2>3
    <2> QED
      BY <2>4, <2>5 DEF r
  <1>11. \A j \in 1..m : own[j] = Step(calls[j].op, Arguments(calls, own, j))
    BY <1>2, <1>8, <1>10, EvaluatedFacts
  <1>12. \A k \in 1..Len(prog) : ProgramResults[k] = Step(k - 1, Arguments(ProgramCalls, ProgramResults, k))
    BY <1>1, ProgramFacts DEF prog
  <1> HIDE DEF own
  <1> DEFINE good == {k \in Nat : k <= m => \A j \in 1..k : own[j] = ProgramResults[first + j]}
  <1>13. 0 \in good
    OBVIOUS
  <1>14. ASSUME NEW k \in Nat, k \in good PROVE k + 1 \in good
    <2> SUFFICES ASSUME k + 1 <= m, NEW j \in 1..(k + 1) PROVE own[j] = ProgramResults[first + j]
      OBVIOUS
    <2>1. \A i \in 1..k : own[i] = ProgramResults[first + i]
      BY <1>2, <1>14
    <2>2. CASE j # k + 1
      BY <2>1, <2>2
    <2>3. CASE j = k + 1
      <3>1. j \in 1..m /\ first + j \in 1..Len(prog) /\ (first + j) - 1 = first + j - 1
        BY <1>2, <1>4, <2>3
      <3>2. ASSUME NEW p \in DOMAIN reading(j)
            PROVE  (IF calls[j].operands[p][1] = "given" THEN calls[j].operands[p][2] ELSE own[calls[j].operands[p][2] + 1])
                    = (IF ProgramCalls[first + j].operands[p][1] = "given" THEN ProgramCalls[first + j].operands[p][2]
                       ELSE ProgramResults[ProgramCalls[first + j].operands[p][2] + 1])
        <4> DEFINE r == reading(j)[p]
        <4>1. calls[j].operands[p] = operand(r) /\ ProgramCalls[first + j].operands[p] = ProgramOperand(r)
          BY <1>7, <1>9, <3>1
        <4>2. \/ r[1] # "virtual" /\ operand(r) = ProgramOperand(r) /\ operand(r)[1] = "given"
              \/ r[1] = "virtual" /\ InRange(range, r[2]) /\ operand(r) = Earlier(r[2] - first)
              \/ r[1] = "virtual" /\ operand(r) = Given(ProgramResults[r[2] + 1])
          BY <1>6, <3>1
        <4>3. r[1] = "virtual" => r[2] \in Nat /\ r[2] < first + j - 1
          BY <1>5, <3>1
        <4> HIDE DEF r
        <4>4. r[1] = "virtual" => ProgramOperand(r) = Earlier(r[2])
          BY DEF ProgramOperand
        <4>5. CASE r[1] # "virtual"
          BY <4>1, <4>2, <4>5
        <4>6. CASE r[1] = "virtual" /\ operand(r) = Given(ProgramResults[r[2] + 1])
          BY <4>1, <4>4, <4>6 DEF Given, Earlier
        <4>7. CASE r[1] = "virtual" /\ InRange(range, r[2]) /\ operand(r) = Earlier(r[2] - first)
          <5>1. first <= r[2]
            BY <4>7 DEF InRange, first
          <5>2. (r[2] - first) + 1 \in 1..k /\ first + ((r[2] - first) + 1) = r[2] + 1
            BY <1>2, <2>3, <4>3, <4>7, <5>1
          <5>3. own[(r[2] - first) + 1] = ProgramResults[r[2] + 1]
            BY <2>1, <5>2
          <5> QED
            BY <4>1, <4>4, <4>7, <5>3 DEF Earlier
        <4> QED
          BY <4>2, <4>5, <4>6, <4>7
      <3>3. Arguments(calls, own, j) = Arguments(ProgramCalls, ProgramResults, first + j)
        <4>1. DOMAIN calls[j].operands = DOMAIN reading(j) /\ DOMAIN ProgramCalls[first + j].operands = DOMAIN reading(j)
          BY <1>7, <1>9, <3>1
        <4> QED
          BY <3>2, <4>1 DEF Arguments
      <3>4. own[j] = Step(first + j - 1, Arguments(calls, own, j))
        BY <1>7, <1>11, <3>1
      <3>5. ProgramResults[first + j] = Step((first + j) - 1, Arguments(ProgramCalls, ProgramResults, first + j))
        BY <1>12, <3>1
      <3> QED
        BY <3>1, <3>3, <3>4, <3>5
    <2> QED
      BY <2>2, <2>3
  <1> HIDE DEF good
  <1>15. m \in good
    BY <1>2, <1>13, <1>14, NumbersInSet
  <1>16. \A j \in 1..m : own[j] = ProgramResults[first + j]
    BY <1>2, <1>15 DEF good
  <1>17. Computed(shard.instructions, shard.input_values, shard.weight_values) = own
    BY BothEvaluate DEF own, calls
  <1> QED
    BY <1>16, <1>17 DEF m, first, shard, range

-----------------------------------------------------------------------------
(* The binding loop *)

\* The input boundaries of a bound shard.
InputSide(s) ==
    [p \in DOMAIN External(s) |->
        [register |-> External(s)[p], count |-> element_count(External(s)[p]),
         edge_ids |-> {e \in dag.edges : e.register = External(s)[p] /\ s = e.consumer}, graph_output_names |-> {}]]

\* Its output boundaries.
OutputSide(s) ==
    [p \in DOMAIN Outputs(s) |->
        [register |-> Outputs(s)[p], count |-> element_count(Outputs(s)[p]),
         edge_ids |-> {e \in dag.edges : e.register = Outputs(s)[p] /\ s = e.producer},
         graph_output_names |-> OutputNames(Outputs(s)[p])]]

\* The boundaries that bind_shard_program gives a shard, whatever values it was given.
LEMMA SidesOfBound ==
    ASSUME NEW s, NEW incoming
    PROVE  /\ BoundShardProgram(s, incoming).input_boundaries = InputSide(s)
           /\ BoundShardProgram(s, incoming).output_boundaries = OutputSide(s)
  <1>1. Mapped(External(s), LAMBDA r : descriptor(s, r, FALSE, {})) = InputSide(s)
    BY DEF Mapped, descriptor, InputSide
  <1>2. Mapped(Outputs(s), LAMBDA r : descriptor(s, r, TRUE, OutputNames(r))) = OutputSide(s)
    BY DEF Mapped, descriptor, OutputSide
  <1> QED
    BY <1>1, <1>2 DEF BoundShardProgram

\* What depends on the binding alone stays as it is.
LEMMA StaticUnchanged ==
    ASSUME binding' = binding
    PROVE  /\ ProgramResults' = ProgramResults /\ dag' = dag /\ BoundShards' = BoundShards /\ PlanFits' = PlanFits
           /\ BoundaryLayout(binding.layout)' = BoundaryLayout(binding.layout)
           /\ \A s : OutputsFit(s)' = OutputsFit(s) /\ External(s)' = External(s)
           /\ \A s, incoming : /\ BoundShardProgram(s, incoming)' = BoundShardProgram(s, incoming)
                               /\ InputsFit(s, incoming)' = InputsFit(s, incoming)
  <1>1. ProgramResults' = ProgramResults
    BY SMT DEF ProgramResults, Evaluated, Step, TermTensor, Mapped, Given, Earlier
  <1>2. dag' = dag /\ BoundShards' = BoundShards /\ PlanFits' = PlanFits
    BY DEF dag, BoundShards, PlanFits
  <1>3. BoundaryLayout(binding.layout)' = BoundaryLayout(binding.layout)
    BY DEF BoundaryLayout
  <1>4. \A s : External(s)' = External(s) /\ WeightsOf(s)' = WeightsOf(s) /\ Outputs(s)' = Outputs(s)
    BY SMT DEF dag, External, WeightsOf, Outputs, Sorted, Before, register_key
  <1>5. \A r : Declared(r)' = Declared(r) /\ element_count(r)' = element_count(r) /\ OutputNames(r)' = OutputNames(r)
    BY SMT DEF Declared, element_count, PositionIn, Mapped, OutputNames
  <1>6. \A r, incoming : ValueOf(r, incoming)' = ValueOf(r, incoming)
    BY SMT DEF ValueOf
  <1>7. ASSUME NEW s PROVE OutputsFit(s)' = OutputsFit(s)
    BY SMT, <1>4, <1>5 DEF OutputsFit
  <1>8. ASSUME NEW s, NEW incoming PROVE InputsFit(s, incoming)' = InputsFit(s, incoming)
    BY SMT, <1>2, <1>4, <1>5, <1>6 DEF InputsFit
  <1>9. ASSUME NEW s, NEW incoming PROVE BoundShardProgram(s, incoming)' = BoundShardProgram(s, incoming)
    <2>0. External(s)' = External(s) /\ WeightsOf(s)' = WeightsOf(s)
      BY <1>4
    <2>1. \A r : local_register(s, r)' = local_register(s, r)
      BY SMT, <2>0 DEF local_register, PositionIn, InRange, IsVirtual
    <2>2. LocalInstructions(s)' = LocalInstructions(s)
      BY SMT, <2>1 DEF LocalInstructions, Mapped, InstructionAt
    <2>3. Mapped(External(s), LAMBDA r : ValueOf(r, incoming))' = Mapped(External(s), LAMBDA r : ValueOf(r, incoming))
      BY SMT, <1>4, <1>6 DEF Mapped
    <2>4. Mapped(WeightsOf(s), LAMBDA r : binding.weights[r[2]])' = Mapped(WeightsOf(s), LAMBDA r : binding.weights[r[2]])
      BY SMT, <1>4 DEF Mapped
    <2>5. Mapped(External(s), LAMBDA r : descriptor(s, r, FALSE, {}))' = Mapped(External(s), LAMBDA r : descriptor(s, r, FALSE, {}))
      <3>1. Mapped(External(s), LAMBDA r : descriptor(s, r, FALSE, {})) = InputSide(s)
        BY DEF Mapped, descriptor, InputSide
      <3>2. Mapped(External(s), LAMBDA r : descriptor(s, r, FALSE, {}))' = InputSide(s)'
        BY DEF Mapped, descriptor, InputSide
      <3> DEFINE ends(edges, r) == {e \in edges : e.register = r /\ s = e.consumer}
                 side(list, count, edges) == [p \in DOMAIN list |->
                    [register |-> list[p], count |-> count[p], edge_ids |-> ends(edges, list[p]), graph_output_names |-> {}]]
                 counts == [p \in DOMAIN External(s) |-> element_count(External(s)[p])]
      <3>3. counts' = counts
        BY SMT, <1>4, <1>5
      <3>4. InputSide(s) = side(External(s), counts, dag.edges)
        BY DEF InputSide
      <3>5. InputSide(s)' = side(External(s)', counts', dag'.edges)
        BY DEF InputSide
      <3> HIDE DEF side, counts
      <3> QED
        BY <1>2, <1>4, <3>1, <3>2, <3>3, <3>4, <3>5
    <2>6. Mapped(Outputs(s), LAMBDA r : descriptor(s, r, TRUE, OutputNames(r)))'
            = Mapped(Outputs(s), LAMBDA r : descriptor(s, r, TRUE, OutputNames(r)))
      BY SMT, <1>2, <1>4, <1>5 DEF Mapped, descriptor
    <2> QED
      BY SMT, <2>2, <2>3, <2>4, <2>5, <2>6 DEF BoundShardProgram
  <1> QED
    BY <1>1, <1>2, <1>3, <1>4, <1>7, <1>8, <1>9

-----------------------------------------------------------------------------
(* The invariant of binding *)

\* A bound shard passed every check, and was given results of the program.
BoundFits(s) ==
    /\ BoundaryLayout(binding.layout) /\ PlanFits /\ OutputsFit(s)
    /\ \E incoming : /\ InputsFit(s, incoming) /\ bound[s] = BoundShardProgram(s, incoming)
                     /\ \A r \in DOMAIN incoming : incoming[r] = ProgramResults[r[2] + 1]

BindInv ==
    /\ binding \in BindSetups
    /\ \A s \in BoundShards : bound[s] # Unbound => BoundFits(s)
    /\ BoundComputesProgram
    /\ \A s \in built : /\ s \in BoundShards /\ bound[s] # Unbound
                        /\ External(s) = boundary_register_order(binding.program, binding.specs[s])

\* Binding starts with nothing bound.
LEMMA BindStarts == BindInit => BindInv
  <1> SUFFICES ASSUME BindInit PROVE BindInv
    OBVIOUS
  <1>1. binding \in BindSetups /\ (\A s \in BoundShards : bound[s] = Unbound) /\ results = <<>> /\ built = {}
    BY DEF BindInit
  <1>2. DOMAIN results = {}
    BY <1>1
  <1> QED
    BY <1>1, <1>2 DEF BindInv, BoundComputesProgram

\* A shard is bound to results the shards before it had.
LEMMA BindShard ==
    ASSUME BindInv, NEW s \in BoundShards, NEW given \in SUBSET DOMAIN results,
           bind_shard_program(s, [r \in given |-> results[r]])
    PROVE  BindInv'
  <1> DEFINE incoming == [r \in given |-> results[r]]
  <1>1. /\ BoundaryLayout(binding.layout) /\ PlanFits /\ InputsFit(s, incoming) /\ OutputsFit(s) /\ bound[s] = Unbound
        /\ bound' = [bound EXCEPT ![s] = BoundShardProgram(s, incoming)]
        /\ binding' = binding /\ results' = results /\ built' = built
    BY DEF bind_shard_program
  <1>2. /\ ProgramResults' = ProgramResults /\ dag' = dag /\ BoundShards' = BoundShards /\ PlanFits' = PlanFits
        /\ BoundaryLayout(binding.layout)' = BoundaryLayout(binding.layout)
        /\ \A t : OutputsFit(t)' = OutputsFit(t) /\ External(t)' = External(t)
        /\ \A t, inc : BoundShardProgram(t, inc)' = BoundShardProgram(t, inc) /\ InputsFit(t, inc)' = InputsFit(t, inc)
    BY <1>1, StaticUnchanged
  <1>3. \A r \in DOMAIN incoming : incoming[r] = ProgramResults[r[2] + 1]
    BY DEF BindInv, BoundComputesProgram
  <1> HIDE DEF incoming
  <1>4. ASSUME NEW t \in BoundShards', bound'[t] # Unbound PROVE BoundFits(t)'
    <2>1. CASE t = s /\ s \in DOMAIN bound
      <3>1. bound'[s] = BoundShardProgram(s, incoming)
        BY <1>1, <2>1
      <3> QED
        BY <1>1, <1>2, <1>3, <2>1, <3>1 DEF BoundFits
    <2>2. CASE ~(t = s /\ s \in DOMAIN bound)
      <3>1. bound'[t] = bound[t]
        BY <1>1, <1>4, <2>2
      <3>2. BoundFits(t)
        BY <1>2, <1>4, <3>1 DEF BindInv
      <3> QED
        BY <1>1, <1>2, <3>1, <3>2 DEF BoundFits
    <2> QED
      BY <2>1, <2>2
  <1>5. BoundComputesProgram'
    BY <1>1, <1>2 DEF BindInv, BoundComputesProgram
  <1>6. ASSUME NEW t \in built'
        PROVE  /\ t \in BoundShards' /\ bound'[t] # Unbound
               /\ External(t)' = boundary_register_order(binding'.program, binding'.specs[t])
    <2>1. t \in BoundShards /\ bound[t] # Unbound /\ External(t) = boundary_register_order(binding.program, binding.specs[t])
      BY <1>1 DEF BindInv
    <2>2. t # s /\ bound'[t] = bound[t]
      BY <1>1, <2>1
    <2> QED
      BY <1>1, <1>2, <2>1, <2>2
  <1> QED
    BY <1>1, <1>4, <1>5, <1>6 DEF BindInv

\* A shard that runs adds results of the program.
LEMMA RunShard ==
    ASSUME BindInv, NEW s \in BoundShards, run(s)
    PROVE  BindInv'
  <1> DEFINE own == Computed(bound[s].instructions, bound[s].input_values, bound[s].weight_values)
             range == binding.specs[s]
             registers == {Virtual(i) : i \in {i \in Indices(binding.program) : InRange(range, i)}}
  <1>1. /\ bound[s] # Unbound /\ binding' = binding /\ bound' = bound /\ built' = built
        /\ results' = [r \in DOMAIN results \cup registers |-> IF r \in registers THEN own[r[2] - range.start + 1] ELSE results[r]]
    BY DEF run
  <1>2. /\ ProgramResults' = ProgramResults /\ dag' = dag /\ BoundShards' = BoundShards /\ PlanFits' = PlanFits
        /\ BoundaryLayout(binding.layout)' = BoundaryLayout(binding.layout)
        /\ \A t : OutputsFit(t)' = OutputsFit(t) /\ External(t)' = External(t)
        /\ \A t, inc : BoundShardProgram(t, inc)' = BoundShardProgram(t, inc) /\ InputsFit(t, inc)' = InputsFit(t, inc)
    BY <1>1, StaticUnchanged
  <1>3. PlanFits /\ OutputsFit(s) /\ dag.ok
    BY <1>1 DEF BindInv, BoundFits, PlanFits
  <1>4. PICK incoming : /\ InputsFit(s, incoming) /\ bound[s] = BoundShardProgram(s, incoming)
                        /\ \A r \in DOMAIN incoming : incoming[r] = ProgramResults[r[2] + 1]
    BY <1>1 DEF BindInv, BoundFits
  <1>5. TrueIncoming(s, incoming) /\ binding \in BindSetups
    BY <1>4 DEF TrueIncoming, InputsFit, BindInv
  <1>6. \A j \in 1..(range.end - range.start) : own[j] = ProgramResults[range.start + j]
    BY <1>3, <1>4, <1>5, ShardComputes
  <1>7. RangeOK(binding.program, range)
    BY <1>3, <1>5, ShardLists
  <1> HIDE DEF own, range
  <1>8. ASSUME NEW r \in registers PROVE own[r[2] - range.start + 1] = ProgramResults[r[2] + 1]
    <2>1. PICK i \in Indices(binding.program) : InRange(range, i) /\ r = Virtual(i)
      OBVIOUS
    <2>2. r[2] = i /\ i \in Nat
      BY <2>1 DEF Virtual, Indices
    <2>3. i - range.start + 1 \in 1..(range.end - range.start) /\ range.start + (i - range.start + 1) = i + 1
      BY <1>7, <2>1, <2>2 DEF RangeOK, InRange
    <2> QED
      BY <1>6, <2>2, <2>3
  <1> HIDE DEF registers
  <1>9. BoundComputesProgram'
    <2>1. \A r \in DOMAIN results' : results'[r] = ProgramResults[r[2] + 1]
      BY <1>1, <1>8 DEF BindInv, BoundComputesProgram
    <2> QED
      BY <1>2, <2>1 DEF BoundComputesProgram
  <1>10. \A t \in BoundShards' : bound'[t] # Unbound => BoundFits(t)'
    BY <1>1, <1>2 DEF BindInv, BoundFits
  <1>11. \A t \in built' : /\ t \in BoundShards' /\ bound'[t] # Unbound
                           /\ External(t)' = boundary_register_order(binding'.program, binding'.specs[t])
    BY <1>1, <1>2 DEF BindInv
  <1> QED
    BY <1>1, <1>9, <1>10, <1>11 DEF BindInv

\* validate_assembler_template: a template by first use is accepted only where the order of
\* the keys is that of first use.
LEMMA TemplateOrder ==
    ASSUME BindInv, NEW s \in BoundShards, bound[s] # Unbound, ShardTemplateAccepted(s)
    PROVE  External(s) = boundary_register_order(binding.program, binding.specs[s])
  <1> DEFINE prog == binding.program
             range == binding.specs[s]
             outside == OutsideOf(prog, range)
             order == boundary_register_order(prog, range)
             m == range.end - range.start
             n == Cardinality(outside)
  <1>1. PlanFits /\ OutputsFit(s) /\ dag.ok /\ binding \in BindSetups
    BY DEF BindInv, BoundFits, PlanFits
  <1>2. PICK incoming : bound[s] = BoundShardProgram(s, incoming)
    BY DEF BindInv, BoundFits
  <1>3. /\ RangeOK(prog, range) /\ n \in Nat /\ External(s) \in [1..n -> outside] /\ order \in [1..n -> outside]
        /\ ToSet(order) = outside /\ IsInjective(order) /\ ToSet(External(s)) = outside
    BY <1>1, ShardLists
  <1>4. /\ bound[s].instructions = LocalInstructions(s)
    BY <1>2 DEF BoundShardProgram
  <1>5. ASSUME NEW r \in outside PROVE local_register(s, r) = template_register(s, r)
    <2>1. PICK i \in Nat : InRange(range, i) /\ r \in ToSet(InstructionAt(prog, i).inputs)
      BY DEF OutsideOf, UsedIn
    <2> DEFINE j == i - range.start + 1
               inputs == InstructionAt(prog, i).inputs
    <2>2. j \in 1..m /\ range.start + j - 1 = i
      <3>1. range.start \in Nat /\ range.end \in Nat /\ range.start <= i /\ i < range.end
        BY <1>3, <2>1 DEF RangeOK, InRange
      <3> HIDE DEF range
      <3> QED
        BY <3>1
    <2> HIDE DEF j, m
    <2>3. /\ DOMAIN LocalInstructions(s) = 1..m
          /\ LocalInstructions(s)[j] = [op |-> i, inputs |-> [p \in DOMAIN inputs |-> local_register(s, inputs[p])]]
      BY <2>2 DEF LocalInstructions, Mapped, m
    <2>4. j \in DOMAIN bound[s].instructions /\ bound[s].instructions[j].op = i
          /\ bound[s].instructions[j].inputs = [p \in DOMAIN inputs |-> local_register(s, inputs[p])]
      BY <1>4, <2>2, <2>3
    <2>5. bound[s].instructions[j].inputs = [p \in DOMAIN inputs |-> template_register(s, inputs[p])]
      BY <2>4 DEF ShardTemplateAccepted, Mapped
    <2>6. PICK p \in DOMAIN inputs : inputs[p] = r
      BY <2>1 DEF ToSet
    <2> HIDE DEF inputs
    <2> QED
      BY <2>4, <2>5, <2>6
  <1>6. ASSUME NEW p \in 1..n PROVE External(s)[p] = order[p]
    <2> DEFINE r == order[p]
               q == PositionIn(order, r)
               k == PositionIn(External(s), r)
    <2>1. r \in outside /\ p \in DOMAIN order /\ DOMAIN order = 1..n /\ DOMAIN External(s) = 1..n
      BY <1>3
    <2>2. q \in DOMAIN order /\ order[q] = r
      BY <1>3, <2>1, PositionFacts
    <2>3. k \in DOMAIN External(s) /\ External(s)[k] = r
      BY <1>3, <2>1, PositionFacts
    <2>4. q = p
      BY <1>3, <2>1, <2>2 DEF IsInjective
    <2>5. r[1] # "weight" /\ ~(IsVirtual(r) /\ InRange(range, r[2]))
      BY <2>1 DEF OutsideOf
    <2>6. local_register(s, r) = <<"input", k - 1>>
      BY <2>5 DEF local_register
    <2>7. template_register(s, r) = <<"input", q - 1>>
      BY <2>5 DEF template_register
    <2>8. local_register(s, r) = template_register(s, r)
      BY <1>5, <2>1
    <2> HIDE DEF r, q, k, order
    <2>9. k - 1 = q - 1
      BY <2>6, <2>7, <2>8
    <2>10. k = q
      BY <1>3, <2>1, <2>2, <2>3, <2>9
    <2> QED
      BY <2>3, <2>4, <2>10 DEF r
  <1> HIDE DEF order, n, outside
  <1>7. External(s) = order
    BY <1>3, <1>6
  <1> QED
    BY <1>7 DEF order

\* The prover is built only of shards whose two orders agree.
LEMMA BuildShard ==
    ASSUME BindInv, NEW s \in BoundShards, new_with_boundary_commitments(s)
    PROVE  BindInv'
  <1>1. /\ bound[s] # Unbound /\ ShardTemplateAccepted(s) /\ built' = built \cup {s}
        /\ binding' = binding /\ bound' = bound /\ results' = results
    BY DEF new_with_boundary_commitments
  <1>2. /\ ProgramResults' = ProgramResults /\ BoundShards' = BoundShards /\ PlanFits' = PlanFits
        /\ BoundaryLayout(binding.layout)' = BoundaryLayout(binding.layout)
        /\ \A t : OutputsFit(t)' = OutputsFit(t) /\ External(t)' = External(t)
        /\ \A t, inc : BoundShardProgram(t, inc)' = BoundShardProgram(t, inc) /\ InputsFit(t, inc)' = InputsFit(t, inc)
    BY <1>1, StaticUnchanged
  <1>3. External(s) = boundary_register_order(binding.program, binding.specs[s])
    BY <1>1, TemplateOrder
  <1>4. BoundComputesProgram'
    BY <1>1, <1>2 DEF BindInv, BoundComputesProgram
  <1>5. \A t \in BoundShards' : bound'[t] # Unbound => BoundFits(t)'
    BY <1>1, <1>2 DEF BindInv, BoundFits
  <1>6. \A t \in built' : /\ t \in BoundShards' /\ bound'[t] # Unbound
                          /\ External(t)' = boundary_register_order(binding'.program, binding'.specs[t])
    BY <1>1, <1>2, <1>3 DEF BindInv
  <1> QED
    BY <1>1, <1>4, <1>5, <1>6 DEF BindInv

\* Every step of binding keeps the invariant.
LEMMA BindSteps == BindInv /\ [BindNext]_bindVars => BindInv'
  <1> SUFFICES ASSUME BindInv, [BindNext]_bindVars PROVE BindInv'
    OBVIOUS
  <1>1. CASE BindNext
    <2>1. PICK s \in BoundShards :
            \/ \E given \in SUBSET DOMAIN results : bind_shard_program(s, [r \in given |-> results[r]])
            \/ run(s)
            \/ new_with_boundary_commitments(s)
      BY <1>1 DEF BindNext
    <2> QED
      BY <2>1, BindShard, RunShard, BuildShard
  <1>2. CASE UNCHANGED bindVars
    <2>1. binding' = binding /\ bound' = bound /\ results' = results /\ built' = built
      BY <1>2 DEF bindVars
    <2>2. /\ ProgramResults' = ProgramResults /\ BoundShards' = BoundShards /\ PlanFits' = PlanFits
          /\ BoundaryLayout(binding.layout)' = BoundaryLayout(binding.layout)
          /\ \A t : OutputsFit(t)' = OutputsFit(t) /\ External(t)' = External(t)
          /\ \A t, inc : BoundShardProgram(t, inc)' = BoundShardProgram(t, inc) /\ InputsFit(t, inc)' = InputsFit(t, inc)
      BY <2>1, StaticUnchanged
    <2>3. BoundComputesProgram'
      BY <2>1, <2>2 DEF BindInv, BoundComputesProgram
    <2>4. \A t \in BoundShards' : bound'[t] # Unbound => BoundFits(t)'
      BY <2>1, <2>2 DEF BindInv, BoundFits
    <2>5. \A t \in built' : /\ t \in BoundShards' /\ bound'[t] # Unbound
                            /\ External(t)' = boundary_register_order(binding'.program, binding'.specs[t])
      BY <2>1, <2>2 DEF BindInv
    <2> QED
      BY <2>1, <2>3, <2>4, <2>5 DEF BindInv
  <1> QED
    BY <1>1, <1>2

\* bind_shard_program: the invariant of binding holds in every state.
THEOREM BindInvariant == BindSpec => []BindInv
  <1>1. BindInit => BindInv
    BY BindStarts
  <1>2. BindInv /\ [BindNext]_bindVars => BindInv'
    BY BindSteps
  <1> QED
    BY <1>1, <1>2, PTL DEF BindSpec

\* bind_shard_program, to_assembler_program: the shards run one after the other, and the
\* whole program, compute what was compiled, for every program and every plan of it.
THEOREM BindingStaysSound == BindSpec => []BindingSound
  <1>1. BindInv => BindingSound
    BY WholeProgramAgrees DEF BindInv, BindingSound
  <1> QED
    BY <1>1, BindInvariant, PTL

-----------------------------------------------------------------------------
(* The boundaries of a bound shard *)

\* A bound shard: the checks it passed, and its boundaries.
LEMMA BoundSides ==
    ASSUME BindInv, NEW s \in BoundShards, bound[s] # Unbound
    PROVE  /\ bound[s].input_boundaries = InputSide(s) /\ bound[s].output_boundaries = OutputSide(s)
           /\ binding \in BindSetups /\ dag.ok /\ BoundaryLayout(binding.layout) /\ OutputsFit(s)
  <1>1. /\ BoundaryLayout(binding.layout) /\ PlanFits /\ OutputsFit(s) /\ binding \in BindSetups
    BY DEF BindInv, BoundFits
  <1>2. PICK incoming : bound[s] = BoundShardProgram(s, incoming)
    BY DEF BindInv, BoundFits
  <1> QED
    BY <1>1, <1>2, SidesOfBound DEF PlanFits

\* The claim of an edge's producer.
LEMMA OutputClaims ==
    ASSUME BindInv, NEW edge \in dag.edges
    PROVE  LET claim == [shard |-> edge.producer, register |-> edge.register, count |-> element_count(edge.register)]
           IN  /\ Claiming("output_boundaries", edge) \subseteq {claim}
               /\ edge.producer \in BoundShards /\ bound[edge.producer] # Unbound => claim \in Claiming("output_boundaries", edge)
  <1> DEFINE claim == [shard |-> edge.producer, register |-> edge.register, count |-> element_count(edge.register)]
  <1>1. ASSUME NEW c \in Claiming("output_boundaries", edge) PROVE c = claim
    <2>1. PICK s \in BoundShards : bound[s] # Unbound /\ \E p \in DOMAIN bound[s].output_boundaries :
                /\ edge \in bound[s].output_boundaries[p].edge_ids
                /\ c = [shard |-> s, register |-> bound[s].output_boundaries[p].register, count |-> bound[s].output_boundaries[p].count]
      BY DEF Claiming
    <2>2. bound[s].output_boundaries = OutputSide(s)
      BY <2>1, BoundSides
    <2>3. PICK p \in DOMAIN Outputs(s) :
                /\ edge \in OutputSide(s)[p].edge_ids
                /\ c = [shard |-> s, register |-> OutputSide(s)[p].register, count |-> OutputSide(s)[p].count]
      BY <2>1, <2>2 DEF OutputSide
    <2>4. /\ OutputSide(s)[p].edge_ids = {e \in dag.edges : e.register = Outputs(s)[p] /\ s = e.producer}
          /\ OutputSide(s)[p].register = Outputs(s)[p] /\ OutputSide(s)[p].count = element_count(Outputs(s)[p])
      BY DEF OutputSide
    <2>5. edge.register = Outputs(s)[p] /\ s = edge.producer
      BY <2>3, <2>4
    <2> QED
      BY <2>3, <2>4, <2>5
  <1>2. ASSUME edge.producer \in BoundShards, bound[edge.producer] # Unbound PROVE claim \in Claiming("output_boundaries", edge)
    <2> DEFINE s == edge.producer
    <2>1. /\ bound[s].output_boundaries = OutputSide(s) /\ binding \in BindSetups /\ dag.ok /\ OutputsFit(s) /\ s \in BoundShards
      BY <1>2, BoundSides
    <2>2. edge.register \in ToSet(dag.shards[s].outputs)
      BY <2>1, SetupFacts, EdgeEnds
    <2>3. edge.register \in ToSet(Outputs(s))
      BY <2>1, <2>2, ShardLists DEF OutputSet
    <2>4. PICK p \in DOMAIN Outputs(s) : Outputs(s)[p] = edge.register
      BY <2>3 DEF ToSet
    <2>5. /\ p \in DOMAIN OutputSide(s)
          /\ OutputSide(s)[p].edge_ids = {e \in dag.edges : e.register = Outputs(s)[p] /\ s = e.producer}
          /\ OutputSide(s)[p].register = Outputs(s)[p] /\ OutputSide(s)[p].count = element_count(Outputs(s)[p])
      BY DEF OutputSide
    <2>6. edge \in OutputSide(s)[p].edge_ids
      BY <2>4, <2>5
    <2>7. claim = [shard |-> s, register |-> bound[s]["output_boundaries"][p].register, count |-> bound[s]["output_boundaries"][p].count]
      BY <2>1, <2>4, <2>5
    <2>8. s \in BoundShards /\ bound[s] # Unbound /\ p \in DOMAIN bound[s]["output_boundaries"]
          /\ edge \in bound[s]["output_boundaries"][p].edge_ids
      BY <1>2, <2>1, <2>5, <2>6
    <2> HIDE DEF claim, s
    <2> QED
      BY <2>7, <2>8 DEF Claiming
  <1> QED
    BY <1>1, <1>2

\* The claim of an edge's consumer.
LEMMA InputClaims ==
    ASSUME BindInv, NEW edge \in dag.edges
    PROVE  LET claim == [shard |-> edge.consumer, register |-> edge.register, count |-> element_count(edge.register)]
           IN  /\ Claiming("input_boundaries", edge) \subseteq {claim}
               /\ edge.consumer \in BoundShards /\ bound[edge.consumer] # Unbound => claim \in Claiming("input_boundaries", edge)
  <1> DEFINE claim == [shard |-> edge.consumer, register |-> edge.register, count |-> element_count(edge.register)]
  <1>1. ASSUME NEW c \in Claiming("input_boundaries", edge) PROVE c = claim
    <2>1. PICK s \in BoundShards : bound[s] # Unbound /\ \E p \in DOMAIN bound[s].input_boundaries :
                /\ edge \in bound[s].input_boundaries[p].edge_ids
                /\ c = [shard |-> s, register |-> bound[s].input_boundaries[p].register, count |-> bound[s].input_boundaries[p].count]
      BY DEF Claiming
    <2>2. bound[s].input_boundaries = InputSide(s)
      BY <2>1, BoundSides
    <2>3. PICK p \in DOMAIN External(s) :
                /\ edge \in InputSide(s)[p].edge_ids
                /\ c = [shard |-> s, register |-> InputSide(s)[p].register, count |-> InputSide(s)[p].count]
      BY <2>1, <2>2 DEF InputSide
    <2>4. /\ InputSide(s)[p].edge_ids = {e \in dag.edges : e.register = External(s)[p] /\ s = e.consumer}
          /\ InputSide(s)[p].register = External(s)[p] /\ InputSide(s)[p].count = element_count(External(s)[p])
      BY DEF InputSide
    <2>5. edge.register = External(s)[p] /\ s = edge.consumer
      BY <2>3, <2>4
    <2> QED
      BY <2>3, <2>4, <2>5
  <1>2. ASSUME edge.consumer \in BoundShards, bound[edge.consumer] # Unbound PROVE claim \in Claiming("input_boundaries", edge)
    <2> DEFINE s == edge.consumer
    <2>1. /\ bound[s].input_boundaries = InputSide(s) /\ binding \in BindSetups /\ dag.ok /\ OutputsFit(s) /\ s \in BoundShards
      BY <1>2, BoundSides
    <2>2. edge.register \in OutsideOf(binding.program, binding.specs[s])
      BY <2>1, SetupFacts, EdgeEnds
    <2>3. edge.register \in ToSet(External(s))
      BY <2>1, <2>2, ShardLists
    <2>4. PICK p \in DOMAIN External(s) : External(s)[p] = edge.register
      BY <2>3 DEF ToSet
    <2>5. /\ p \in DOMAIN InputSide(s)
          /\ InputSide(s)[p].edge_ids = {e \in dag.edges : e.register = External(s)[p] /\ s = e.consumer}
          /\ InputSide(s)[p].register = External(s)[p] /\ InputSide(s)[p].count = element_count(External(s)[p])
      BY DEF InputSide
    <2>6. edge \in InputSide(s)[p].edge_ids
      BY <2>4, <2>5
    <2>7. claim = [shard |-> s, register |-> bound[s]["input_boundaries"][p].register, count |-> bound[s]["input_boundaries"][p].count]
      BY <2>1, <2>4, <2>5
    <2>8. s \in BoundShards /\ bound[s] # Unbound /\ p \in DOMAIN bound[s]["input_boundaries"]
          /\ edge \in bound[s]["input_boundaries"][p].edge_ids
      BY <1>2, <2>1, <2>5, <2>6
    <2> HIDE DEF claim, s
    <2> QED
      BY <2>7, <2>8 DEF Claiming
  <1> QED
    BY <1>1, <1>2

\* descriptor: the two ends of an edge, and only they, claim it, for one register and length.
LEMMA BoundLink == BindInv => DescriptorsLink
  <1> SUFFICES ASSUME BindInv, NEW edge \in dag.edges
               PROVE  /\ \A c \in Claiming("output_boundaries", edge) : c.shard = edge.producer
                      /\ \A c \in Claiming("input_boundaries", edge) : c.shard = edge.consumer
                      /\ bound[edge.producer] # Unbound /\ bound[edge.consumer] # Unbound =>
                            \E p \in DOMAIN binding.layout :
                                LET spec == binding.layout[p]
                                IN  /\ spec.register = edge.register /\ spec.count > 0
                                    /\ Claiming("output_boundaries", edge) = {[shard |-> edge.producer, register |-> edge.register, count |-> spec.count]}
                                    /\ Claiming("input_boundaries", edge) = {[shard |-> edge.consumer, register |-> edge.register, count |-> spec.count]}
    BY DEF DescriptorsLink
  <1> DEFINE out == [shard |-> edge.producer, register |-> edge.register, count |-> element_count(edge.register)]
             in == [shard |-> edge.consumer, register |-> edge.register, count |-> element_count(edge.register)]
  <1>1. /\ Claiming("output_boundaries", edge) \subseteq {out}
        /\ edge.producer \in BoundShards /\ bound[edge.producer] # Unbound => out \in Claiming("output_boundaries", edge)
    BY OutputClaims
  <1>2. /\ Claiming("input_boundaries", edge) \subseteq {in}
        /\ edge.consumer \in BoundShards /\ bound[edge.consumer] # Unbound => in \in Claiming("input_boundaries", edge)
    BY InputClaims
  <1>3. out.shard = edge.producer /\ in.shard = edge.consumer
    OBVIOUS
  <1>4. binding \in BindSetups /\ dag.ok
    BY SetupFacts DEF BindInv
  <1>5. /\ edge.producer \in BoundShards /\ edge.consumer \in BoundShards
        /\ edge.register \in ToSet(dag.shards[edge.producer].outputs)
    BY <1>4, SetupFacts, EdgeEnds DEF BoundShards
  <1>6. ASSUME bound[edge.producer] # Unbound, bound[edge.consumer] # Unbound
        PROVE  \E p \in DOMAIN binding.layout :
                  /\ binding.layout[p].register = edge.register /\ binding.layout[p].count > 0
                  /\ binding.layout[p].count = element_count(edge.register)
    <2> DEFINE named == Mapped(binding.layout, LAMBDA spec : spec.register)
               q == PositionIn(named, edge.register)
    <2>1. BoundaryLayout(binding.layout) /\ OutputsFit(edge.producer)
      BY <1>5, <1>6, BoundSides
    <2>2. edge.register \in ToSet(Outputs(edge.producer))
      BY <1>4, <1>5, <2>1, ShardLists DEF OutputSet
    <2>3. Declared(edge.register) # {}
      BY <2>1, <2>2 DEF OutputsFit
    <2>4. DOMAIN named = DOMAIN binding.layout /\ \A p \in DOMAIN binding.layout : named[p] = binding.layout[p].register
      BY DEF Mapped
    <2>5. element_count(edge.register) = binding.layout[q].count
      BY DEF element_count
    <2> HIDE DEF named
    <2>6. edge.register \in ToSet(named)
      BY <2>3, <2>4 DEF Declared, ToSet
    <2>7. q \in DOMAIN named /\ named[q] = edge.register
      BY <2>6, PositionFacts
    <2> HIDE DEF q
    <2>8. q \in DOMAIN binding.layout /\ binding.layout[q].register = edge.register /\ binding.layout[q].count > 0
      BY <2>1, <2>4, <2>7 DEF BoundaryLayout
    <2> QED
      BY <2>5, <2>8
  <1> HIDE DEF out, in
  <1>7. ASSUME bound[edge.producer] # Unbound, bound[edge.consumer] # Unbound
        PROVE  Claiming("output_boundaries", edge) = {out} /\ Claiming("input_boundaries", edge) = {in}
    BY <1>1, <1>2, <1>5, <1>7
  <1> QED
    BY <1>1, <1>2, <1>3, <1>6, <1>7 DEF out, in

\* graph_output_names: an output of the graph is named once, by the shard that computes it.
LEMMA BoundNames == BindInv => OutputsNamedOnce
  <1> SUFFICES ASSUME BindInv, \A s \in BoundShards : bound[s] # Unbound, NEW name \in DOMAIN binding.graph_outputs
               PROVE  LET naming(s) == {p \in DOMAIN bound[s].output_boundaries : name \in bound[s].output_boundaries[p].graph_output_names}
                      IN  \E s \in BoundShards :
                            /\ \E p \in DOMAIN bound[s].output_boundaries :
                                naming(s) = {p} /\ bound[s].output_boundaries[p].register = binding.graph_outputs[name]
                            /\ \A t \in BoundShards \ {s} : naming(t) = {}
    BY DEF OutputsNamedOnce
  <1> DEFINE naming(s) == {p \in DOMAIN bound[s].output_boundaries : name \in bound[s].output_boundaries[p].graph_output_names}
             r == binding.graph_outputs[name]
             prog == binding.program
             specs == binding.specs
             s == shard_of(specs, r[2])
  <1>1. binding \in BindSetups /\ 1 \in BoundShards
    BY SetupFacts DEF BindInv
  <1>2. dag.ok /\ \A t \in BoundShards : OutputsFit(t) /\ bound[t].output_boundaries = OutputSide(t)
    BY <1>1, BoundSides
  <1>3. ProgramOK(prog) /\ SpecsOK(prog, specs) /\ RegisterIn(r)
    BY <1>1, <1>2, SetupFacts
  <1>4. IsVirtual(r) /\ r[2] < Len(prog)
    BY <1>1, <1>2 DEF OutputsFit
  <1>5. r[2] \in Indices(prog)
    BY <1>3, <1>4 DEF RegisterIn, IsVirtual, Indices, ProgramOK
  <1>6. s \in BoundShards /\ InRange(specs[s], r[2]) /\ \A t \in BoundShards : InRange(specs[t], r[2]) => t = s
    BY <1>3, <1>5, ShardOfFacts DEF BoundShards
  <1> HIDE DEF s
  <1>7. \A t \in BoundShards : /\ ToSet(Outputs(t)) = OutputSet(t) /\ IsInjective(Outputs(t))
                               /\ \A x \in OutputSet(t) : InRange(specs[t], x[2])
    BY <1>1, <1>2, ShardLists
  <1>8. ASSUME NEW t \in BoundShards
        PROVE  /\ DOMAIN bound[t].output_boundaries = DOMAIN Outputs(t)
               /\ \A p \in DOMAIN Outputs(t) : /\ bound[t].output_boundaries[p].register = Outputs(t)[p]
                                               /\ name \in bound[t].output_boundaries[p].graph_output_names <=> Outputs(t)[p] = r
    <2>1. bound[t].output_boundaries = OutputSide(t)
      BY <1>2
    <2>2. DOMAIN OutputSide(t) = DOMAIN Outputs(t)
      BY DEF OutputSide
    <2>3. \A p \in DOMAIN Outputs(t) : /\ OutputSide(t)[p].register = Outputs(t)[p]
                                       /\ OutputSide(t)[p].graph_output_names = OutputNames(Outputs(t)[p])
      BY DEF OutputSide
    <2> QED
      BY <2>1, <2>2, <2>3 DEF OutputNames
  <1>9. r \in OutputSet(s)
    BY <1>6 DEF OutputSet
  <1>10. PICK p \in DOMAIN Outputs(s) : Outputs(s)[p] = r
    BY <1>6, <1>7, <1>9 DEF ToSet
  <1> HIDE DEF r, specs, prog
  <1>11. naming(s) = {p}
    <2>1. \A q \in DOMAIN Outputs(s) : Outputs(s)[q] = r => q = p
      BY <1>6, <1>7, <1>10 DEF IsInjective
    <2>2. naming(s) = {q \in DOMAIN Outputs(s) : Outputs(s)[q] = r}
      BY <1>6, <1>8
    <2> QED
      BY <1>10, <2>1, <2>2
  <1>12. ASSUME NEW t \in BoundShards \ {s} PROVE naming(t) = {}
    <2>1. \A q \in DOMAIN Outputs(t) : Outputs(t)[q] \in OutputSet(t)
      BY <1>7 DEF ToSet
    <2>2. \A q \in DOMAIN Outputs(t) : Outputs(t)[q] # r
      BY <1>6, <1>7, <2>1
    <2> QED
      BY <1>8, <2>2
  <1>13. p \in DOMAIN bound[s].output_boundaries /\ bound[s].output_boundaries[p].register = r
    BY <1>6, <1>8, <1>10
  <1> HIDE DEF naming
  <1>14. \E t \in BoundShards :
            /\ \E q \in DOMAIN bound[t].output_boundaries : naming(t) = {q} /\ bound[t].output_boundaries[q].register = r
            /\ \A u \in BoundShards \ {t} : naming(u) = {}
    BY <1>6, <1>11, <1>12, <1>13
  <1> QED
    BY <1>14 DEF naming, r

\* leaf_statement: where the prover was built, the descriptors are in the order of the values.
LEMMA BuiltFits == BindInv => BuiltStatementFits
  <1> SUFFICES ASSUME BindInv, NEW s \in built
               PROVE  /\ Mapped(bound[s].input_boundaries, LAMBDA d : d.register) = boundary_register_order(binding.program, binding.specs[s])
                      /\ Mapped(bound[s].output_boundaries, LAMBDA d : d.register) = ByIndex(OutputSet(s))
    BY DEF BuiltStatementFits, OutputSet
  <1>1. s \in BoundShards /\ bound[s] # Unbound /\ External(s) = boundary_register_order(binding.program, binding.specs[s])
    BY DEF BindInv
  <1>2. /\ bound[s].input_boundaries = InputSide(s) /\ bound[s].output_boundaries = OutputSide(s)
        /\ binding \in BindSetups /\ dag.ok /\ OutputsFit(s)
    BY <1>1, BoundSides
  <1>3. /\ External(s) \in [1..Cardinality(OutsideOf(binding.program, binding.specs[s])) -> OutsideOf(binding.program, binding.specs[s])]
        /\ Outputs(s) = ByIndex(OutputSet(s)) /\ OutputSet(s) \in SUBSET RegistersBefore(Len(binding.program))
    BY <1>1, <1>2, ShardLists
  <1>4. Len(binding.program) \in Nat
    BY <1>2, SetupFacts DEF ProgramOK
  <1>5. ByIndex(OutputSet(s)) \in [1..Cardinality(OutputSet(s)) -> OutputSet(s)]
    BY <1>3, <1>4, ByIndexFacts
  <1>6. Mapped(InputSide(s), LAMBDA d : d.register) = [p \in DOMAIN External(s) |-> External(s)[p]]
    BY DEF Mapped, InputSide
  <1>7. Mapped(OutputSide(s), LAMBDA d : d.register) = [p \in DOMAIN Outputs(s) |-> Outputs(s)[p]]
    BY DEF Mapped, OutputSide
  <1>8. [p \in DOMAIN External(s) |-> External(s)[p]] = External(s) /\ [p \in DOMAIN Outputs(s) |-> Outputs(s)[p]] = Outputs(s)
    BY <1>3, <1>5
  <1> QED
    BY <1>1, <1>2, <1>3, <1>6, <1>7, <1>8

\* descriptor, leaf_statement: the boundaries of the shards fit together, and fit the values
\* that fill them, for every program and every plan of it.
THEOREM BoundariesStayLinked == BindSpec => []BoundariesLink
  <1>1. BindInv => BoundariesLink
    BY BoundLink, BoundNames, BuiltFits DEF BoundariesLink
  <1> QED
    BY <1>1, BindInvariant, PTL

-----------------------------------------------------------------------------
(* The lists of an artifact's file *)

\* A finite set as a list: all its elements, each once.
LEMMA SetToSeqFacts ==
    ASSUME NEW S, IsFiniteSet(S)
    PROVE  /\ Cardinality(S) \in Nat
           /\ SetToSeq(S) \in Seq(S) /\ Len(SetToSeq(S)) = Cardinality(S)
           /\ ToSet(SetToSeq(S)) = S /\ IsInjective(SetToSeq(S))
  <1> DEFINE n == Cardinality(S)
             f == SetToSeq(S)
  <1>1. n \in Nat /\ ExistsBijection(1..n, S)
    BY FS_CardinalityType
  <1>2. PICK g : g \in Bijection(1..n, S)
    BY <1>1 DEF ExistsBijection
  <1>3. g \in [1..n -> S] /\ IsInjective(g)
    BY <1>2 DEF Bijection, Injection
  <1>4. f = CHOOSE h \in [1..n -> S] : IsInjective(h)
    BY DEF SetToSeq
  <1> HIDE DEF f
  <1>5. f \in [1..n -> S] /\ IsInjective(f)
    BY <1>3, <1>4
  <1>6. f \in Injection(1..n, S)
    BY <1>5 DEF Injection
  <1>7. Cardinality(1..n) = n
    BY <1>1, FS_Interval
  <1>8. f \in Surjection(1..n, S)
    BY <1>6, <1>7, FS_Injection
  <1>9. ToSet(f) = S
    <2>1. DOMAIN f = 1..n /\ \A x \in S : \E p \in 1..n : f[p] = x
      BY <1>5, <1>8 DEF Surjection
    <2> QED
      BY <1>5, <2>1 DEF ToSet
  <1>10. f \in Seq(S) /\ Len(f) = n
    BY <1>1, <1>5
  <1> QED
    BY <1>1, <1>5, <1>9, <1>10 DEF f

\* Two lists without a common element, each without a repetition, one after the other.
LEMMA ConcatInjective ==
    ASSUME NEW S, NEW s \in Seq(S), NEW t \in Seq(S), IsInjective(s), IsInjective(t), ToSet(s) \cap ToSet(t) = {}
    PROVE  IsInjective(s \o t) /\ Len(s \o t) = Len(s) + Len(t)
  <1>1. /\ Len(s \o t) = Len(s) + Len(t) /\ Len(s) \in Nat /\ Len(t) \in Nat
        /\ DOMAIN s = 1..Len(s) /\ DOMAIN t = 1..Len(t) /\ DOMAIN (s \o t) = 1..(Len(s) + Len(t))
    OBVIOUS
  <1>2. \A i \in 1..(Len(s) + Len(t)) : (s \o t)[i] = IF i <= Len(s) THEN s[i] ELSE t[i - Len(s)]
    OBVIOUS
  <1>3. \A i \in 1..(Len(s) + Len(t)) : i <= Len(s) => i \in DOMAIN s /\ (s \o t)[i] = s[i] /\ s[i] \in ToSet(s)
    BY <1>1, <1>2 DEF ToSet
  <1>4. \A i \in 1..(Len(s) + Len(t)) :
            ~(i <= Len(s)) => i - Len(s) \in DOMAIN t /\ (s \o t)[i] = t[i - Len(s)] /\ t[i - Len(s)] \in ToSet(t)
    <2> SUFFICES ASSUME NEW i \in 1..(Len(s) + Len(t)), ~(i <= Len(s))
                 PROVE  i - Len(s) \in DOMAIN t /\ (s \o t)[i] = t[i - Len(s)] /\ t[i - Len(s)] \in ToSet(t)
      OBVIOUS
    <2>1. i - Len(s) \in DOMAIN t /\ (s \o t)[i] = t[i - Len(s)]
      BY <1>1, <1>2
    <2> QED
      BY <2>1 DEF ToSet
  <1>5. ASSUME NEW i \in 1..(Len(s) + Len(t)), NEW j \in 1..(Len(s) + Len(t)), (s \o t)[i] = (s \o t)[j] PROVE i = j
    <2>1. CASE i <= Len(s) /\ j <= Len(s)
      BY <1>3, <1>5, <2>1 DEF IsInjective
    <2>2. CASE ~(i <= Len(s)) /\ ~(j <= Len(s))
      <3>1. i - Len(s) = j - Len(s)
        BY <1>4, <1>5, <2>2 DEF IsInjective
      <3> QED
        BY <1>1, <3>1
    <2>3. CASE i <= Len(s) /\ ~(j <= Len(s))
      BY <1>3, <1>4, <1>5, <2>3
    <2>4. CASE ~(i <= Len(s)) /\ j <= Len(s)
      BY <1>3, <1>4, <1>5, <2>4
    <2> QED
      BY <2>1, <2>2, <2>3, <2>4
  <1> QED
    BY <1>1, <1>5 DEF IsInjective

\* SortedRegisters: all the registers of a set, each once.
LEMMA SortedRegistersFacts ==
    ASSUME NEW S, IsFiniteSet(S)
    PROVE  /\ DOMAIN SortedRegisters(S) = 1..Cardinality(S) /\ Cardinality(S) \in Nat
           /\ Len(SortedRegisters(S)) = Cardinality(S)
           /\ ToSet(SortedRegisters(S)) = S /\ IsInjective(SortedRegisters(S))
  <1> DEFINE A == {r \in S : SortKey(r) = 0}
             B == {r \in S : SortKey(r) = 1}
             C == {r \in S : SortKey(r) = 2}
             a == SetToSeq(A)
             b == SetToSeq(B)
             c == SetToSeq(C)
  <1>1. SortedRegisters(S) = (a \o b) \o c
    BY DEF SortedRegisters
  <1>2. \A r \in S : SortKey(r) \in {0, 1, 2}
    BY DEF SortKey
  <1>3. A \in SUBSET S /\ B \in SUBSET S /\ C \in SUBSET S /\ A \cup B \cup C = S /\ A \cap B = {} /\ (A \cup B) \cap C = {}
    BY <1>2
  <1> HIDE DEF A, B, C
  <1>4. IsFiniteSet(A) /\ IsFiniteSet(B) /\ IsFiniteSet(C)
    BY <1>3, FS_Subset
  <1>5. a \in Seq(A) /\ ToSet(a) = A /\ IsInjective(a)
    BY <1>4, SetToSeqFacts
  <1>6. b \in Seq(B) /\ ToSet(b) = B /\ IsInjective(b)
    BY <1>4, SetToSeqFacts
  <1>7. c \in Seq(C) /\ ToSet(c) = C /\ IsInjective(c)
    BY <1>4, SetToSeqFacts
  <1> HIDE DEF a, b, c
  <1>8. a \in Seq(S) /\ b \in Seq(S) /\ c \in Seq(S)
    BY <1>3, <1>5, <1>6, <1>7, SeqGrows
  <1>9. a \o b \in Seq(S) /\ ToSet(a \o b) = A \cup B /\ IsInjective(a \o b)
    BY <1>3, <1>5, <1>6, <1>8, ConcatFacts, ConcatInjective
  <1>10. PICK d : d = a \o b
    OBVIOUS
  <1>11. d \o c \in Seq(S) /\ ToSet(d \o c) = (A \cup B) \cup C /\ IsInjective(d \o c)
    <2>1. d \in Seq(S) /\ ToSet(d) = A \cup B /\ IsInjective(d)
      BY <1>9, <1>10
    <2>2. d \o c \in Seq(S) /\ ToSet(d \o c) = ToSet(d) \cup ToSet(c)
      BY <1>8, <2>1, ConcatFacts
    <2>3. ToSet(d) \cap ToSet(c) = {}
      BY <1>3, <1>7, <2>1
    <2>4. IsInjective(d \o c)
      BY <1>7, <1>8, <2>1, <2>3, ConcatInjective
    <2> QED
      BY <1>7, <2>1, <2>2, <2>4
  <1>12. PICK e : e = d \o c
    OBVIOUS
  <1>13. e = SortedRegisters(S) /\ e \in Seq(S) /\ ToSet(e) = S /\ IsInjective(e)
    BY <1>1, <1>3, <1>10, <1>11, <1>12
  <1>14. Len(e) \in Nat /\ DOMAIN e = 1..Len(e) /\ e \in [1..Len(e) -> S]
    BY <1>13
  <1>15. e \in Bijection(1..Len(e), S)
    <2>1. \A x \in S : \E p \in 1..Len(e) : e[p] = x
      BY <1>13, <1>14 DEF ToSet
    <2> QED
      BY <1>13, <1>14, <2>1 DEF Bijection, Injection, Surjection
  <1>16. Cardinality(S) = Len(e)
    <2>1. IsFiniteSet(1..Len(e)) /\ Cardinality(1..Len(e)) = Len(e)
      BY <1>14, FS_Interval
    <2> QED
      BY <1>15, <2>1, FS_Bijection DEF ExistsBijection
  <1> QED
    BY <1>13, <1>14, <1>16

\* SortedIndices: all the numbers of a set, each once, ascending.
LEMMA SortedIndicesFacts ==
    ASSUME NEW S \in SUBSET Int, IsFiniteSet(S)
    PROVE  /\ Cardinality(S) \in Nat /\ SortedIndices(S) \in [1..Cardinality(S) -> S]
           /\ ToSet(SortedIndices(S)) = S /\ IsInjective(SortedIndices(S))
           /\ \A i, j \in 1..Cardinality(S) : i < j => SortedIndices(S)[i] < SortedIndices(S)[j]
           /\ Len(SortedIndices(S)) = Cardinality(S)
  <1> DEFINE below == [i \in S |-> {j \in S : j < i}]
  <1>1. SortedIndices(S) = Ordered(below)
    BY DEF SortedIndices
  <1>2. below \in [S -> SUBSET S] /\ \A i \in S : below[i] = {j \in S : j < i}
    OBVIOUS
  <1> HIDE DEF below
  <1>3. /\ \A x \in S : x \notin below[x]
        /\ \A x, y \in S : x = y \/ x \in below[y] \/ y \in below[x]
        /\ \A x, y \in S : x \in below[y] => below[x] \subseteq below[y]
    <2>1. \A x, y \in S : x \in below[y] <=> x < y
      BY <1>2
    <2>2. \A x, y, z \in S : (x < y /\ z < x => z < y) /\ ~(x < x) /\ (x = y \/ x < y \/ y < x)
      OBVIOUS
    <2> QED
      BY <1>2, <2>1, <2>2
  <1>4. /\ Cardinality(S) \in Nat /\ Ordered(below) \in [1..Cardinality(S) -> S]
        /\ ToSet(Ordered(below)) = S /\ IsInjective(Ordered(below))
        /\ \A i, j \in 1..Cardinality(S) : i < j => Ordered(below)[i] \in below[Ordered(below)[j]]
    BY <1>2, <1>3, RankFacts
  <1>5. \A i, j \in 1..Cardinality(S) : i < j => Ordered(below)[i] < Ordered(below)[j]
    BY <1>2, <1>4
  <1>6. Len(Ordered(below)) = Cardinality(S)
    BY <1>4
  <1> QED
    BY <1>1, <1>4, <1>5, <1>6

\* There is one ascending list of a set of numbers.
LEMMA OneAscending ==
    ASSUME NEW n \in Nat, NEW S \in SUBSET Int, NEW f \in [1..n -> S], NEW g \in [1..n -> S], ToSet(f) = S, ToSet(g) = S,
           \A i, j \in 1..n : i < j => f[i] < f[j], \A i, j \in 1..n : i < j => g[i] < g[j]
    PROVE  f = g
  <1> DEFINE bad == {p \in 1..n : f[p] # g[p]}
  <1> SUFFICES ASSUME bad # {} PROVE FALSE
    OBVIOUS
  <1>0. bad \in SUBSET Nat
    OBVIOUS
  <1>1. PICK p \in bad : \A q \in bad : p <= q
    <2> HIDE DEF bad
    <2> QED
      BY <1>0, LeastNumber
  <1>2. p \in 1..n /\ f[p] # g[p] /\ \A q \in 1..n : q < p => f[q] = g[q]
    BY <1>0, <1>1
  <1> HIDE DEF bad
  <1>3. PICK q \in 1..n : f[q] = g[p]
    BY <1>2 DEF ToSet
  <1>4. PICK k \in 1..n : g[k] = f[p]
    BY <1>2 DEF ToSet
  <1>5. f[p] \in Int /\ g[p] \in Int /\ f[q] \in Int /\ g[k] \in Int
    BY <1>2
  <1>6. ~(q < p) /\ ~(k < p)
    BY <1>2, <1>3, <1>4, <1>5
  <1>7. p < q /\ p < k
    BY <1>2, <1>3, <1>4, <1>6
  <1>8. f[p] < f[q] /\ g[p] < g[k]
    BY <1>2, <1>7
  <1> QED
    BY <1>3, <1>4, <1>5, <1>8

\* The list of the numbers of a set, each less by the same amount.
LEMMA ShiftedIndices ==
    ASSUME NEW S \in SUBSET Int, IsFiniteSet(S), NEW d \in Int
    PROVE  /\ DOMAIN SortedIndices({i - d : i \in S}) = DOMAIN SortedIndices(S)
           /\ \A p \in DOMAIN SortedIndices(S) : SortedIndices({i - d : i \in S})[p] = SortedIndices(S)[p] - d
  <1> DEFINE T == {i - d : i \in S}
             move == [i \in S |-> i - d]
             n == Cardinality(S)
             f == SortedIndices(S)
             g == [p \in 1..n |-> f[p] - d]
             h == SortedIndices(T)
  <1>1. move \in Bijection(S, T)
    BY DEF Bijection, Injection, Surjection, IsInjective
  <1>2. IsFiniteSet(T) /\ Cardinality(T) = n
    BY <1>1, FS_Bijection DEF ExistsBijection
  <1>3. T \in SUBSET Int /\ \A i \in S : i - d \in T
    OBVIOUS
  <1>4. /\ n \in Nat /\ f \in [1..n -> S] /\ ToSet(f) = S /\ \A i, j \in 1..n : i < j => f[i] < f[j]
    BY SortedIndicesFacts
  <1>5. h \in [1..n -> T] /\ ToSet(h) = T /\ \A i, j \in 1..n : i < j => h[i] < h[j]
    BY <1>2, <1>3, SortedIndicesFacts
  <1>6. \A x \in T : \E i \in S : x = i - d
    OBVIOUS
  <1> HIDE DEF T, f, h, n
  <1>7. g \in [1..n -> T] /\ DOMAIN g = 1..n /\ \A p \in 1..n : g[p] = f[p] - d
    BY <1>3, <1>4
  <1> HIDE DEF g
  <1>8. ToSet(g) = T
    <2>1. ASSUME NEW x \in T PROVE \E p \in 1..n : g[p] = x
      <3>1. PICK i \in S : x = i - d
        BY <1>6
      <3>2. PICK p \in 1..n : f[p] = i
        BY <1>4 DEF ToSet
      <3> QED
        BY <1>7, <3>1, <3>2
    <2> QED
      BY <1>7, <2>1 DEF ToSet
  <1>9. \A i, j \in 1..n : i < j => g[i] < g[j]
    <2> SUFFICES ASSUME NEW i \in 1..n, NEW j \in 1..n, i < j PROVE g[i] < g[j]
      OBVIOUS
    <2>1. f[i] < f[j] /\ f[i] \in Int /\ f[j] \in Int
      BY <1>4
    <2> QED
      BY <1>7, <2>1
  <1>10. g = h
    BY <1>3, <1>4, <1>5, <1>7, <1>8, <1>9, OneAscending
  <1> QED
    BY <1>4, <1>5, <1>7, <1>10 DEF f, h, T

\* What a file says of tensors it has the records of.
LEMMA RecordsRead ==
    ASSUME NEW f, NEW D, f = [x \in D |-> f[x]], NEW keys, ToSet(keys) = D, IsInjective(keys)
    PROVE  /\ AsTensors(Records(f, keys)) = f /\ Distinct(Records(f, keys))
           /\ DOMAIN Records(f, keys) = DOMAIN keys
  <1> DEFINE records == Records(f, keys)
             back == AsTensors(records)
  <1>1. DOMAIN records = DOMAIN keys /\ \A p \in DOMAIN keys : records[p].key = keys[p] /\ records[p].values = f[keys[p]]
    BY DEF Records
  <1>2. \A x \in D : \E p \in DOMAIN keys : keys[p] = x
    BY DEF ToSet
  <1>3. \A p \in DOMAIN keys : keys[p] \in D
    BY DEF ToSet
  <1> HIDE DEF records
  <1>4. {records[p].key : p \in DOMAIN records} = D
    BY <1>1, <1>2, <1>3
  <1>5. back = [key \in D |-> records[CHOOSE p \in DOMAIN records : records[p].key = key].values]
    BY <1>4 DEF AsTensors
  <1>6. ASSUME NEW x \in D PROVE records[CHOOSE p \in DOMAIN records : records[p].key = x].values = f[x]
    <2>1. PICK q : q = CHOOSE p \in DOMAIN records : records[p].key = x
      OBVIOUS
    <2>2. q \in DOMAIN records /\ records[q].key = x
      BY <1>1, <1>2, <2>1
    <2> QED
      BY <1>1, <2>1, <2>2
  <1>7. back = [key \in D |-> f[key]]
    BY <1>5, <1>6
  <1>8. Distinct(records)
    BY <1>1 DEF Distinct, IsInjective
  <1> QED
    BY <1>1, <1>7, <1>8 DEF records

\* What executing an instruction may return.
IsResult(result) ==
    \/ \E values : result = Tensor(values)
    \/ \E kind \in {"UnsupportedInstruction", "ShapeMismatch", "ArithmeticOverflow", "NotInDomain"} : result = Error(kind)

\* A result is values or an error, never a missing register; a domain is missing only to RmsNorm.
LEMMA ResultFacts ==
    ASSUME NEW i, NEW operands, NEW tables
    PROVE  LET result == execute_instruction(i, operands, tables)
           IN  /\ result = [err |-> result.err, values |-> result.values]
               /\ result.err \notin {"MissingRegister", "ForwardRegister", "CoverageChanged"}
               /\ result.err = "NoDomain" => i.op = "RmsNorm" /\ <<i.dim, i.epsilon_milli>> \notin DOMAIN tables
               /\ result.err = "none" => result = Tensor(result.values)
  <1> DEFINE result == execute_instruction(i, operands, tables)
             key == <<i.dim, i.epsilon_milli>>
  <1>0. \A cells : IsResult(Collected(cells))
    BY DEF Collected, IsResult
  <1>1. /\ IsResult(Error("UnsupportedInstruction")) /\ IsResult(Error("ShapeMismatch"))
        /\ IsResult(Error("ArithmeticOverflow")) /\ IsResult(Error("NotInDomain"))
    BY DEF IsResult
  <1>2. IsResult(dot_general(operands, i))
    BY <1>0, <1>1, Zenon DEF dot_general
  <1>3. IsResult(eltwise(operands, TRUE)) /\ IsResult(eltwise(operands, FALSE))
    BY <1>0, <1>1, Zenon DEF eltwise
  <1>4. IsResult(rms_norm(operands, i, tables)) \/ (rms_norm(operands, i, tables) = Error("NoDomain") /\ key \notin DOMAIN tables)
    BY <1>0, <1>1, Zenon DEF rms_norm
  <1>5. IsResult(result) \/ (i.op = "RmsNorm" /\ result = Error("NoDomain") /\ key \notin DOMAIN tables)
    BY <1>1, <1>2, <1>3, <1>4 DEF execute_instruction
  <1> HIDE DEF result
  <1>6. CASE IsResult(result)
    <2>1. CASE \E values : result = Tensor(values)
      BY <2>1 DEF Tensor, result
    <2>2. CASE \E kind \in {"UnsupportedInstruction", "ShapeMismatch", "ArithmeticOverflow", "NotInDomain"} : result = Error(kind)
      BY <2>2 DEF Error, result
    <2> QED
      BY <1>6, <2>1, <2>2 DEF IsResult
  <1>7. CASE i.op = "RmsNorm" /\ result = Error("NoDomain") /\ key \notin DOMAIN tables
    BY <1>7 DEF Error, result
  <1> QED
    BY <1>5, <1>6, <1>7

\* An instruction looks at no table but its own.
LEMMA TablesDepend ==
    ASSUME NEW i, NEW operands, NEW t, NEW u,
           i.op = "RmsNorm" => LET key == <<i.dim, i.epsilon_milli>>
                               IN  key \in DOMAIN t /\ key \in DOMAIN u /\ t[key] = u[key]
    PROVE  execute_instruction(i, operands, t) = execute_instruction(i, operands, u)
  <1>1. CASE i.op = "RmsNorm"
    <2>1. rms_norm(operands, i, t) = rms_norm(operands, i, u)
      BY <1>1, Zenon DEF rms_norm
    <2> QED
      BY <1>1, <2>1 DEF execute_instruction
  <1>2. CASE i.op # "RmsNorm"
    BY <1>2 DEF execute_instruction
  <1> QED
    BY <1>1, <1>2

\* Before the loop of execute.
LoopStart(b, supplied) == [err |-> SuppliedError(b, supplied), registers |-> Empty, inputs |-> Empty, virtuals |-> Empty]

\* LoopStates: the loop starts with nothing and takes one instruction after the other.
LEMMA LoopFacts ==
    ASSUME NEW b, NEW supplied, NEW n \in Nat, Len(InOrder(b.shard)) = n
    PROVE  /\ LoopStates(b, supplied)[0] = LoopStart(b, supplied)
           /\ \A j \in 1..n : LoopStates(b, supplied)[j] =
                                ExecuteNext(b, supplied, LoopStates(b, supplied)[j - 1], InOrder(b.shard)[j])
  <1> DEFINE next(f, j) == ExecuteNext(b, supplied, f[j - 1], InOrder(b.shard)[j])
             fixed(f, m) == f = [j \in 0..m |-> IF j = 0 THEN LoopStart(b, supplied) ELSE next(f, j)]
             good == {m \in Nat : \E f : fixed(f, m)}
             states == CHOOSE f : fixed(f, n)
  <1>1. LoopStates(b, supplied) = states
    BY DEF LoopStates, LoopStart
  <1>2. \A f, g, j : f[j - 1] = g[j - 1] => next(f, j) = next(g, j)
    OBVIOUS
  <1> HIDE DEF next
  <1>3. 0 \in good
    <2> DEFINE f == [j \in 0..0 |-> LoopStart(b, supplied)]
    <2>1. fixed(f, 0)
      OBVIOUS
    <2> HIDE DEF f, fixed
    <2> QED
      BY <2>1
  <1>4. ASSUME NEW m \in Nat, m \in good PROVE m + 1 \in good
    <2>1. PICK f : f = [j \in 0..m |-> IF j = 0 THEN LoopStart(b, supplied) ELSE next(f, j)]
      BY <1>4
    <2> DEFINE g == [j \in 0..(m + 1) |-> IF j = m + 1 THEN next(f, m + 1) ELSE f[j]]
               h == [j \in 0..(m + 1) |-> IF j = 0 THEN LoopStart(b, supplied) ELSE next(g, j)]
    <2>2. (\A k \in 0..m : g[k] = f[k]) /\ g[m + 1] = next(f, m + 1)
      OBVIOUS
    <2>3. \A j \in 0..(m + 1) : h[j] = IF j = 0 THEN LoopStart(b, supplied) ELSE next(g, j)
      OBVIOUS
    <2>4. g = [j \in 0..(m + 1) |-> g[j]] /\ h = [j \in 0..(m + 1) |-> h[j]]
      OBVIOUS
    <2>5. \A j \in 0..m : f[j] = IF j = 0 THEN LoopStart(b, supplied) ELSE next(f, j)
      BY <2>1
    <2> HIDE DEF g, h
    <2>6. ASSUME NEW j \in 0..(m + 1) PROVE g[j] = h[j]
      <3>1. CASE j = 0
        BY <2>2, <2>3, <2>5, <3>1
      <3>2. CASE j # 0
        <4>1. j - 1 \in 0..m
          BY <3>2
        <4>2. next(f, j) = next(g, j)
          BY <1>2, <2>2, <4>1
        <4>3. g[j] = next(f, j)
          BY <2>2, <2>5, <3>2
        <4> QED
          BY <2>3, <3>2, <4>2, <4>3
      <3> QED
        BY <3>1, <3>2
    <2>7. g = h
      BY <2>4, <2>6
    <2>8. fixed(g, m + 1)
      BY <2>7 DEF h
    <2> HIDE DEF fixed
    <2> QED
      BY <2>8
  <1> HIDE DEF good
  <1>5. n \in good
    BY <1>3, <1>4, NumbersInSet
  <1>6. \E f : fixed(f, n)
    BY <1>5 DEF good
  <1>7. fixed(states, n)
    <2> HIDE DEF fixed
    <2> QED
      BY <1>6
  <1> HIDE DEF states
  <1>8. states = [j \in 0..n |-> IF j = 0 THEN LoopStart(b, supplied) ELSE next(states, j)]
    BY <1>7
  <1>9. states[0] = LoopStart(b, supplied) /\ \A j \in 1..n : states[j] = next(states, j)
    BY <1>8
  <1> QED
    BY <1>1, <1>9 DEF next

-----------------------------------------------------------------------------
(* The backends that with_limits makes *)

\* A backend that with_limits has made of what some caller declared of a shard.
BackendOK(b) ==
    \E t \in ShardIds : \E shard \in setup.declared[t], domains \in setup.domain_sets[t], shapes \in setup.manifests[t] :
        with_limits(setup, shard, domains, shapes) /\ b = Backend(setup, shard, domains, shapes)

\* with_limits: what holds of the backends it makes.
LEMMA BackendFacts ==
    ASSUME setup \in WitnessSetups, NEW b, BackendOK(b)
    PROVE  /\ ListsOK(setup.program) /\ RangeOK(setup.program, b.shard.range) /\ NoForwards(setup.program, b.shard)
           /\ \A j \in DOMAIN setup.program : \A r \in ToSet(setup.program[j].inputs) : IsRegister(r)
           /\ DOMAIN b.shapes = RequiredRegisters(setup.program, b.shard) /\ \A r \in DOMAIN b.shapes : b.shapes[r] \in Nat
           /\ DOMAIN b.weights = NamesOf("weight", ShardReads(setup.program, b.shard))
           /\ \A n \in DOMAIN b.weights :
                b.weights[n] = setup.weights[n] /\ Len(b.weights[n]) <= setup.limits.values_per_tensor
           /\ DOMAIN b.tables = DomainKeys(setup.program, b.shard) /\ DOMAIN b.tables = DOMAIN b.domains
           /\ \A key \in DOMAIN b.tables : b.tables[key] = materialize_domain(b.domains[key])
           /\ RequiredVirtuals(setup.program, b.shard) = NamesOf("virtual", ToSet(b.shard.inputs))
           /\ \A r \in ToSet(b.shard.inputs) \cup ToSet(b.shard.outputs) : IsRegister(r) /\ IsVirtual(r)
           /\ b.shard.outputs \in Seq(ToSet(b.shard.outputs)) /\ IsInjective(b.shard.outputs)
           /\ \A r \in ToSet(b.shard.outputs) : InRange(b.shard.range, r[2])
           /\ b.records = RecordCount(Cardinality(DOMAIN b.weights) + Cardinality(DOMAIN b.shapes),
                                      Cardinality(RangeOf(b.shard)), Len(b.shard.outputs))
  <1>1. PICK t \in ShardIds : \E shard \in setup.declared[t], domains \in setup.domain_sets[t], shapes \in setup.manifests[t] :
                with_limits(setup, shard, domains, shapes) /\ b = Backend(setup, shard, domains, shapes)
    BY DEF BackendOK
  <1>2. PICK shard \in setup.declared[t], domains \in setup.domain_sets[t], shapes \in setup.manifests[t] :
                with_limits(setup, shard, domains, shapes) /\ b = Backend(setup, shard, domains, shapes)
    BY <1>1
  <1> DEFINE p == setup.program
             names == NamesOf("weight", ShardReads(p, shard))
  <1>3. /\ b.shard = shard /\ b.shapes = shapes /\ b.domains = domains
        /\ b.tables = [key \in DOMAIN domains |-> materialize_domain(domains[key])]
        /\ b.weights = [n \in names |-> setup.weights[n]]
        /\ b.records = RecordCount(Cardinality(names) + Cardinality(RequiredRegisters(p, shard)),
                                   Cardinality(RangeOf(shard)), Len(shard.outputs))
    BY <1>2 DEF Backend
  <1>4. /\ p \in Seq(ToSet(p))
        /\ \A j \in DOMAIN p : p[j].inputs \in Seq(ToSet(p[j].inputs)) /\ \A r \in ToSet(p[j].inputs) : IsRegister(r)
    BY WitnessAssumption
  <1>5. t \in DOMAIN setup.shards
    BY <1>1 DEF ShardIds
  <1>6. /\ shard.range \in [start : Nat, end : Nat] /\ shard.outputs \in Seq(ToSet(shard.outputs))
        /\ \A r \in ToSet(shard.inputs) \cup ToSet(shard.outputs) : IsRegister(r)
    BY <1>2, <1>5, WitnessAssumption
  <1>8. \A r \in DOMAIN shapes : shapes[r] \in Nat
    BY <1>2, <1>5, WitnessAssumption
  <1>9. BoundaryDeclared(p, shard) /\ AnalysisPasses(setup, shard, domains)
        /\ ManifestPasses(shapes, RequiredRegisters(p, shard), setup.limits)
    BY <1>2 DEF with_limits
  <1>10. RangeOK(p, shard.range)
    <2>1. shard.range.start \in Nat /\ shard.range.end \in Nat
      BY <1>6
    <2> QED
      BY <1>9, <2>1 DEF BoundaryDeclared, RangeOK
  <1>11. /\ IsInjective(shard.outputs)
         /\ \A r \in ToSet(shard.inputs) : IsVirtual(r)
         /\ \A r \in ToSet(shard.outputs) : IsVirtual(r) /\ InRange(shard.range, r[2])
    BY <1>9 DEF BoundaryDeclared
  <1>12. /\ NoForwards(p, shard) /\ RequiredVirtuals(p, shard) = NamesOf("virtual", ToSet(shard.inputs))
         /\ DOMAIN domains = DomainKeys(p, shard)
         /\ \A n \in names : Len(setup.weights[n]) <= setup.limits.values_per_tensor
    BY <1>9 DEF AnalysisPasses
  <1>13. DOMAIN shapes = RequiredRegisters(p, shard)
    BY <1>9 DEF ManifestPasses
  <1>14. ListsOK(p)
    BY <1>4 DEF ListsOK
  <1> HIDE DEF names
  <1>15. DOMAIN b.weights = names /\ \A n \in names : b.weights[n] = setup.weights[n]
    BY <1>3
  <1>16. DOMAIN b.tables = DOMAIN domains /\ \A key \in DOMAIN domains : b.tables[key] = materialize_domain(domains[key])
    BY <1>3
  <1> HIDE DEF p
  <1>17. /\ ListsOK(p) /\ RangeOK(p, b.shard.range) /\ NoForwards(p, b.shard)
         /\ \A j \in DOMAIN p : \A r \in ToSet(p[j].inputs) : IsRegister(r)
         /\ DOMAIN b.shapes = RequiredRegisters(p, b.shard) /\ \A r \in DOMAIN b.shapes : b.shapes[r] \in Nat
    BY <1>3, <1>4, <1>8, <1>10, <1>12, <1>13, <1>14
  <1>18. /\ DOMAIN b.weights = NamesOf("weight", ShardReads(p, b.shard))
         /\ \A n \in DOMAIN b.weights : b.weights[n] = setup.weights[n] /\ Len(b.weights[n]) <= setup.limits.values_per_tensor
    BY <1>3, <1>12, <1>15 DEF names
  <1>19. /\ DOMAIN b.tables = DomainKeys(p, b.shard) /\ DOMAIN b.tables = DOMAIN b.domains
         /\ \A key \in DOMAIN b.tables : b.tables[key] = materialize_domain(b.domains[key])
    BY <1>3, <1>12, <1>16
  <1>20. /\ RequiredVirtuals(p, b.shard) = NamesOf("virtual", ToSet(b.shard.inputs))
         /\ \A r \in ToSet(b.shard.inputs) \cup ToSet(b.shard.outputs) : IsRegister(r) /\ IsVirtual(r)
    BY <1>3, <1>6, <1>11, <1>12
  <1>21. /\ b.shard.outputs \in Seq(ToSet(b.shard.outputs)) /\ IsInjective(b.shard.outputs)
         /\ \A r \in ToSet(b.shard.outputs) : InRange(b.shard.range, r[2])
    BY <1>3, <1>6, <1>11
  <1>22. b.records = RecordCount(Cardinality(DOMAIN b.weights) + Cardinality(DOMAIN b.shapes),
                                      Cardinality(RangeOf(b.shard)), Len(b.shard.outputs))
    BY <1>3, <1>13, <1>15
  <1> QED
    BY <1>17, <1>18, <1>19, <1>20, <1>21, <1>22 DEF p

\* The registers a backend expects from outside: weights, graph inputs, and results of earlier shards.
LEMMA ExpectedFacts ==
    ASSUME setup \in WitnessSetups, NEW b, BackendOK(b), NEW r \in ExpectedInputs(b)
    PROVE  /\ \/ r = <<"weight", r[2]>> /\ r[1] = "weight" /\ r[2] \in DOMAIN b.weights /\ r \notin DOMAIN b.shapes
              \/ r = <<"graph", r[2]>> /\ r[1] = "graph" /\ r \in DOMAIN b.shapes
              \/ /\ r = Virtual(r[2]) /\ r[1] = "virtual" /\ r \in DOMAIN b.shapes
                 /\ r[2] \in Nat /\ r[2] < b.shard.range.start /\ r \in ToSet(b.shard.inputs)
  <1>1. \A q \in DOMAIN b.shapes : \/ q = <<"graph", q[2]>> /\ q[1] = "graph"
                                   \/ q = Virtual(q[2]) /\ q[1] = "virtual" /\ q[2] \in RequiredVirtuals(setup.program, b.shard)
    <2>1. \A n : <<"graph", n>>[1] = "graph" /\ <<"graph", n>>[2] = n
      OBVIOUS
    <2>2. \A n : Virtual(n)[1] = "virtual" /\ Virtual(n)[2] = n
      BY DEF Virtual
    <2> SUFFICES ASSUME NEW q \in RequiredRegisters(setup.program, b.shard)
                 PROVE  \/ q = <<"graph", q[2]>> /\ q[1] = "graph"
                        \/ q = Virtual(q[2]) /\ q[1] = "virtual" /\ q[2] \in RequiredVirtuals(setup.program, b.shard)
      BY BackendFacts
    <2>3. \/ \E n \in RequiredGraphInputs(setup.program, b.shard) : q = <<"graph", n>>
          \/ \E n \in RequiredVirtuals(setup.program, b.shard) : q = Virtual(n)
      BY DEF RequiredRegisters
    <2> QED
      BY <2>1, <2>2, <2>3
  <1>2. CASE r \in DOMAIN b.shapes
    <2>1. CASE r = Virtual(r[2]) /\ r[1] = "virtual" /\ r[2] \in RequiredVirtuals(setup.program, b.shard)
      <3>1. r[2] < b.shard.range.start
        BY <2>1 DEF RequiredVirtuals
      <3>2. r[2] \in NamesOf("virtual", ToSet(b.shard.inputs))
        BY <2>1, BackendFacts
      <3>3. PICK q \in ToSet(b.shard.inputs) : q[1] = "virtual" /\ q[2] = r[2]
        BY <3>2 DEF NamesOf
      <3>4. IsRegister(q)
        BY <3>3, BackendFacts
      <3>5. q = r /\ r[2] \in Nat
        BY <2>1, <3>3, <3>4 DEF IsRegister, Virtual, IsVirtual
      <3> QED
        BY <1>2, <2>1, <3>1, <3>3, <3>5
    <2> QED
      BY <1>1, <1>2, <2>1
  <1>3. CASE r \notin DOMAIN b.shapes
    <2>1. PICK n \in DOMAIN b.weights : r = <<"weight", n>>
      BY <1>3 DEF ExpectedInputs
    <2> QED
      BY <1>3, <2>1
  <1> QED
    BY <1>2, <1>3

\* The instructions of a backend's range, and what they read: registers it expects, and results before them.
LEMMA ReadFacts ==
    ASSUME setup \in WitnessSetups, NEW b, BackendOK(b), NEW i \in RangeOf(b.shard),
           NEW r \in ToSet(InstructionAt(setup.program, i).inputs)
    PROVE  /\ IsRegister(r)
           /\ \/ r \in ExpectedInputs(b) /\ ~(IsVirtual(r) /\ r[2] >= b.shard.range.start)
              \/ /\ r = Virtual(r[2]) /\ IsVirtual(r) /\ r[2] \in b.shard.range.start..(i - 1)
                 /\ r \notin ExpectedInputs(b)
  <1> DEFINE p == setup.program
             from == b.shard.range.start
  <1>1. from \in Nat /\ b.shard.range.end \in Nat /\ b.shard.range.end <= Len(p) /\ Len(p) \in Nat /\ DOMAIN p = 1..Len(p)
    BY BackendFacts DEF RangeOK, ListsOK
  <1>2. i \in Nat /\ from <= i /\ i < b.shard.range.end /\ i + 1 \in DOMAIN p
    BY <1>1 DEF RangeOf
  <1>3. IsRegister(r)
    BY <1>2, BackendFacts DEF InstructionAt
  <1>4. r \in ShardReads(p, b.shard)
    BY DEF ShardReads
  <1>5. CASE r[1] = "weight"
    <2>1. r[2] \in DOMAIN b.weights
      BY <1>4, <1>5, BackendFacts DEF NamesOf
    <2>2. r = <<"weight", r[2]>>
      BY <1>3, <1>5 DEF IsRegister
    <2> QED
      BY <1>3, <1>5, <2>1, <2>2 DEF ExpectedInputs, IsVirtual
  <1>6. CASE r[1] = "graph"
    <2>1. r[2] \in RequiredGraphInputs(p, b.shard)
      BY <1>4, <1>6 DEF NamesOf, RequiredGraphInputs
    <2>2. r = <<"graph", r[2]>>
      BY <1>3, <1>6 DEF IsRegister
    <2>3. r \in RequiredRegisters(p, b.shard)
      BY <2>1, <2>2 DEF RequiredRegisters
    <2>4. r \in DOMAIN b.shapes
      BY <2>3, BackendFacts
    <2> QED
      BY <1>3, <1>6, <2>4 DEF ExpectedInputs, IsVirtual
  <1>7. CASE r[1] = "virtual"
    <2>1. r = Virtual(r[2]) /\ r[2] \in Nat /\ IsVirtual(r)
      BY <1>3, <1>7 DEF IsRegister, IsVirtual, Virtual
    <2>2. r[2] \in Reads(p, i)
      BY <2>1 DEF Reads
    <2>3. r[2] < from \/ r[2] < i
      BY <2>2, BackendFacts DEF NoForwards
    <2>4. CASE r[2] < from
      <3>1. r[2] \in RequiredVirtuals(p, b.shard)
        BY <1>4, <1>7, <2>4 DEF NamesOf, RequiredVirtuals
      <3>2. r \in RequiredRegisters(p, b.shard)
        BY <2>1, <3>1 DEF RequiredRegisters
      <3>3. r \in DOMAIN b.shapes
        BY <3>2, BackendFacts
      <3> QED
        BY <1>1, <1>3, <2>1, <2>4, <3>3 DEF ExpectedInputs
    <2>5. CASE ~(r[2] < from)
      <3>1. r[2] \in from..(i - 1)
        BY <1>1, <1>2, <2>1, <2>3, <2>5
      <3>2. r \notin ExpectedInputs(b)
        BY <1>7, <2>5, ExpectedFacts
      <3> QED
        BY <1>3, <2>1, <3>1, <3>2
    <2> QED
      BY <2>4, <2>5
  <1> QED
    BY <1>3, <1>5, <1>6, <1>7 DEF IsRegister

-----------------------------------------------------------------------------
(* The loop of execute *)

\* The errors that with_limits rules out, and what an instruction reads.
LateErrors == {"MissingRegister", "ForwardRegister", "NoDomain", "CoverageChanged"}
InputsAt(i) == InstructionAt(setup.program, i).inputs

\* After j instructions: those that are done, and what they have read from outside.
DoneAfter(b, j) == b.shard.range.start..(b.shard.range.start + j - 1)
ReadAfter(b, j) == {r \in ExpectedInputs(b) : \E i \in DoneAfter(b, j) : r \in ToSet(InputsAt(i))}

\* The value of a register from outside, and the operands of an instruction.
OuterValue(b, supplied, r) == IF r[1] = "weight" THEN b.weights[r[2]] ELSE supplied[r]
OperandsAt(b, supplied, virtuals, i) ==
    [o \in DOMAIN InputsAt(i) |->
        IF InputsAt(i)[o] \in ExpectedInputs(b) THEN OuterValue(b, supplied, InputsAt(i)[o]) ELSE virtuals[InputsAt(i)[o][2]]]

\* execute's loop: without an error the registers are the outer values that were read
\* and the results, each of which its instruction gives on its operands.
Registered(b, supplied, state, j) ==
    /\ SuppliedError(b, supplied) = "none"
    /\ state.inputs = [r \in ReadAfter(b, j) |-> OuterValue(b, supplied, r)]
    /\ DOMAIN state.virtuals = DoneAfter(b, j) /\ state.virtuals = [i \in DoneAfter(b, j) |-> state.virtuals[i]]
    /\ DOMAIN state.registers = ReadAfter(b, j) \cup {Virtual(i) : i \in DoneAfter(b, j)}
    /\ \A r \in ReadAfter(b, j) : state.registers[r] = OuterValue(b, supplied, r)
    /\ \A i \in DoneAfter(b, j) : state.registers[Virtual(i)] = state.virtuals[i]
    /\ \A i \in DoneAfter(b, j) :
        /\ Tensor(state.virtuals[i]) = execute_instruction(InstructionAt(setup.program, i).instruction,
                                                           OperandsAt(b, supplied, state.virtuals, i), b.tables)
        /\ Len(state.virtuals[i]) <= setup.limits.values_per_tensor
LoopInv(b, supplied, state, j) ==
    /\ state = [err |-> state.err, registers |-> state.registers, inputs |-> state.inputs, virtuals |-> state.virtuals]
    /\ state.err \notin LateErrors
    /\ state.err = "none" => Registered(b, supplied, state, j)

\* The inputs a caller has supplied, once they are accepted.
LEMMA SuppliedFacts ==
    ASSUME NEW b, NEW supplied
    PROVE  /\ SuppliedError(b, supplied) \in {"none", "MissingInput", "InvalidJob", "Resource"}
           /\ SuppliedError(b, supplied) = "none" =>
                /\ DOMAIN supplied = DOMAIN b.shapes /\ \A r \in DOMAIN b.shapes : Len(supplied[r]) = b.shapes[r]
                /\ TensorsWithin(supplied, setup.limits.values_per_tensor)
  BY DEF SuppliedError

\* resolve_external finds every register that is expected.
LEMMA ResolveFacts ==
    ASSUME setup \in WitnessSetups, NEW b, BackendOK(b), NEW supplied, SuppliedError(b, supplied) = "none",
           NEW i \in RangeOf(b.shard), NEW r \in ExpectedInputs(b)
    PROVE  resolve_external(b, supplied, r, i) = Tensor(OuterValue(b, supplied, r))
  <1>1. DOMAIN supplied = DOMAIN b.shapes
    BY SuppliedFacts
  <1>2. \/ r[1] = "weight" /\ r[2] \in DOMAIN b.weights
        \/ r[1] = "graph" /\ r \in DOMAIN b.shapes
        \/ r[1] = "virtual" /\ r \in DOMAIN b.shapes /\ r[2] \in Nat /\ r[2] < b.shard.range.start /\ r \in ToSet(b.shard.inputs)
    BY ExpectedFacts
  <1>3. CASE r[1] = "weight" /\ r[2] \in DOMAIN b.weights
    BY <1>3 DEF resolve_external, OuterValue
  <1>4. CASE r[1] = "graph" /\ r \in DOMAIN b.shapes
    BY <1>1, <1>4 DEF resolve_external, OuterValue
  <1>5. CASE r[1] = "virtual" /\ r \in DOMAIN b.shapes /\ r[2] \in Nat /\ r[2] < b.shard.range.start /\ r \in ToSet(b.shard.inputs)
    <2>1. b.shard.range.start \in Nat /\ i \in Nat /\ b.shard.range.start <= i
      BY BackendFacts DEF RangeOK, RangeOf
    <2>2. ~(r[2] >= i)
      BY <1>5, <2>1
    <2> QED
      BY <1>1, <1>5, <2>2 DEF resolve_external, OuterValue
  <1> QED
    BY <1>2, <1>3, <1>4, <1>5

\* What is done and read when one more instruction is.
LEMMA DoneFacts ==
    ASSUME setup \in WitnessSetups, NEW b, BackendOK(b), NEW j \in Nat, NEW i, i = b.shard.range.start + j, i < b.shard.range.end
    PROVE  /\ i \in RangeOf(b.shard) /\ i \in Nat /\ i \notin DoneAfter(b, j)
           /\ DoneAfter(b, j) \subseteq RangeOf(b.shard)
           /\ DoneAfter(b, j + 1) = DoneAfter(b, j) \cup {i}
           /\ ReadAfter(b, j + 1) = ReadAfter(b, j) \cup (ToSet(InputsAt(i)) \cap ExpectedInputs(b))
           /\ b.shard.range.start..(i - 1) = DoneAfter(b, j)
           /\ \A k \in DoneAfter(b, j) : b.shard.range.start..(k - 1) \subseteq DoneAfter(b, j)
  <1>1. b.shard.range.start \in Nat /\ b.shard.range.end \in Nat
    BY BackendFacts DEF RangeOK
  <1>2. /\ i \in RangeOf(b.shard) /\ i \in Nat /\ i \notin DoneAfter(b, j)
        /\ DoneAfter(b, j) \subseteq RangeOf(b.shard)
        /\ b.shard.range.start..(i - 1) = DoneAfter(b, j)
    <2> DEFINE from == b.shard.range.start
               to == b.shard.range.end
    <2>1. from \in Nat /\ to \in Nat /\ i = from + j /\ i < to
      BY <1>1
    <2>2. DoneAfter(b, j) = from..(from + j - 1) /\ RangeOf(b.shard) = from..(to - 1)
      BY DEF RangeOf, DoneAfter
    <2> HIDE DEF from, to
    <2>3. i \in from..(to - 1) /\ i \in Nat /\ i \notin from..(from + j - 1) /\ i - 1 = from + j - 1
      BY <2>1
    <2>4. from..(from + j - 1) \subseteq from..(to - 1)
      BY <2>1
    <2> QED
      BY <2>2, <2>3, <2>4 DEF from
  <1>3. DoneAfter(b, j + 1) = DoneAfter(b, j) \cup {i}
    BY <1>1 DEF DoneAfter
  <1>4. \A k \in DoneAfter(b, j) : b.shard.range.start..(k - 1) \subseteq DoneAfter(b, j)
    BY <1>1 DEF DoneAfter
  <1>5. ReadAfter(b, j + 1) = ReadAfter(b, j) \cup (ToSet(InputsAt(i)) \cap ExpectedInputs(b))
    BY <1>3 DEF ReadAfter
  <1> QED
    BY <1>2, <1>3, <1>4, <1>5

\* The operands of an instruction that is done do not change when another one is.
LEMMA OperandsStay ==
    ASSUME setup \in WitnessSetups, NEW b, BackendOK(b), NEW supplied, NEW i \in RangeOf(b.shard), NEW f, NEW g,
           \A k \in b.shard.range.start..(i - 1) : f[k] = g[k]
    PROVE  OperandsAt(b, supplied, f, i) = OperandsAt(b, supplied, g, i)
  <1>1. ASSUME NEW o \in DOMAIN InputsAt(i), InputsAt(i)[o] \notin ExpectedInputs(b)
        PROVE  f[InputsAt(i)[o][2]] = g[InputsAt(i)[o][2]]
    <2>1. InputsAt(i)[o] \in ToSet(InputsAt(i))
      BY DEF ToSet
    <2>2. InputsAt(i)[o][2] \in b.shard.range.start..(i - 1)
      BY <1>1, <2>1, ReadFacts DEF InputsAt
    <2> QED
      BY <2>2
  <1> QED
    BY <1>1 DEF OperandsAt

\* One round of the loop: the registers that the instruction reads are resolved.
LEMMA AppliedFacts ==
    ASSUME setup \in WitnessSetups, NEW b, BackendOK(b), NEW supplied, NEW state, NEW j \in Nat,
           NEW i, i = b.shard.range.start + j, i < b.shard.range.end,
           state.err = "none", Registered(b, supplied, state, j)
    PROVE  LET fresh == ToSet(InputsAt(i)) \ DOMAIN state.registers
           IN  /\ fresh \subseteq ExpectedInputs(b)
               /\ ReadAfter(b, j + 1) = fresh \cup ReadAfter(b, j)
               /\ ExecuteNext(b, supplied, state, i) =
                    Produced(state, i, [r \in fresh |-> OuterValue(b, supplied, r)],
                             execute_instruction(InstructionAt(setup.program, i).instruction,
                                                 OperandsAt(b, supplied, state.virtuals, i), b.tables))
  <1> DEFINE inputs == InputsAt(i)
             fresh == ToSet(InputsAt(i)) \ DOMAIN state.registers
             resolved == [r \in fresh |-> resolve_external(b, supplied, r, i)]
             known == ReadAfter(b, j) \cup {Virtual(k) : k \in DoneAfter(b, j)}
             operand(r) == IF r \in DOMAIN resolved THEN resolved[r].values ELSE state.registers[r]
  <1>1. i \in RangeOf(b.shard) /\ b.shard.range.start..(i - 1) = DoneAfter(b, j)
    BY DoneFacts
  <1>2. DOMAIN state.registers = known
    BY DEF Registered
  <1>3. fresh \subseteq ExpectedInputs(b)
    <2> SUFFICES ASSUME NEW r \in ToSet(inputs), r \notin ExpectedInputs(b) PROVE r \in known
      BY <1>2
    <2>1. r = Virtual(r[2]) /\ r[2] \in DoneAfter(b, j)
      BY <1>1, ReadFacts DEF InputsAt
    <2> QED
      BY <2>1
  <1>4. ReadAfter(b, j + 1) = fresh \cup ReadAfter(b, j)
    <2>1. ReadAfter(b, j + 1) = ReadAfter(b, j) \cup (ToSet(InputsAt(i)) \cap ExpectedInputs(b))
      BY DoneFacts
    <2>2. ASSUME NEW r \in ExpectedInputs(b), r \in known PROVE r \in ReadAfter(b, j)
      <3>1. CASE \E k \in DoneAfter(b, j) : r = Virtual(k)
        <4>1. PICK k \in DoneAfter(b, j) : r = Virtual(k)
          BY <3>1
        <4>2. r[1] = "virtual" /\ r[2] = k /\ b.shard.range.start <= k /\ b.shard.range.start \in Nat /\ k \in Nat
          BY <4>1, BackendFacts DEF Virtual, DoneAfter, RangeOK
        <4>3. r[2] < b.shard.range.start
          BY <4>2, ExpectedFacts
        <4> QED
          BY <4>2, <4>3
      <3> QED
        BY <2>2, <3>1
    <2> QED
      BY <1>2, <1>3, <2>1, <2>2
  <1>5. SuppliedError(b, supplied) = "none"
    BY DEF Registered
  <1>6. \A r \in fresh : resolve_external(b, supplied, r, i) = Tensor(OuterValue(b, supplied, r))
    BY <1>1, <1>3, <1>5, ResolveFacts
  <1>7. ExecuteNext(b, supplied, state, i) = Applied(b, state, i, resolved)
    BY DEF ExecuteNext, InputsAt
  <1> HIDE DEF fresh
  <1>8. DOMAIN resolved = fresh /\ \A r \in fresh : resolved[r].err = "none" /\ resolved[r].values = OuterValue(b, supplied, r)
    <2>1. \A values : Tensor(values).err = "none" /\ Tensor(values).values = values
      BY DEF Tensor
    <2>2. DOMAIN resolved = fresh /\ \A r \in fresh : resolved[r] = Tensor(OuterValue(b, supplied, r))
      BY <1>6
    <2> HIDE DEF resolved
    <2> QED
      BY <2>1, <2>2
  <1> HIDE DEF resolved
  <1>9. {resolved[r].err : r \in DOMAIN resolved} \ {"none"} = {}
    BY <1>8
  <1>10. Applied(b, state, i, resolved) =
            Produced(state, i, [r \in DOMAIN resolved |-> resolved[r].values],
                     execute_instruction(InstructionAt(setup.program, i).instruction,
                                         [o \in DOMAIN inputs |-> operand(inputs[o])], b.tables))
    BY <1>9 DEF Applied, InputsAt
  <1>11. [r \in DOMAIN resolved |-> resolved[r].values] = [r \in fresh |-> OuterValue(b, supplied, r)]
    BY <1>8
  <1>12. ASSUME NEW o \in DOMAIN inputs
         PROVE  operand(inputs[o]) = IF inputs[o] \in ExpectedInputs(b) THEN OuterValue(b, supplied, inputs[o])
                                     ELSE state.virtuals[inputs[o][2]]
    <2> DEFINE r == inputs[o]
    <2>0. r \in ToSet(inputs)
      BY DEF ToSet
    <2> HIDE DEF r
    <2>1. CASE r \in fresh
      BY <1>3, <1>8, <2>1 DEF r
    <2>2. CASE r \notin fresh /\ r \in ExpectedInputs(b)
      <3>1. r \in ReadAfter(b, j + 1)
        <4>1. ReadAfter(b, j + 1) = ReadAfter(b, j) \cup (ToSet(InputsAt(i)) \cap ExpectedInputs(b))
          BY DoneFacts
        <4> QED
          BY <2>0, <2>2, <4>1
      <3>2. r \in ReadAfter(b, j)
        BY <1>4, <2>2, <3>1
      <3>3. state.registers[r] = OuterValue(b, supplied, r)
        BY <3>2 DEF Registered
      <3> QED
        BY <1>8, <2>2, <3>3 DEF r
    <2>3. CASE r \notin fresh /\ r \notin ExpectedInputs(b)
      <3>1. r = Virtual(r[2]) /\ r[2] \in DoneAfter(b, j)
        BY <1>1, <2>0, <2>3, ReadFacts DEF InputsAt
      <3>2. \A k \in DoneAfter(b, j) : state.registers[Virtual(k)] = state.virtuals[k]
        BY DEF Registered
      <3>3. state.registers[Virtual(r[2])] = state.virtuals[r[2]]
        BY <3>1, <3>2
      <3>4. state.registers[r] = state.virtuals[r[2]]
        BY <3>1, <3>3
      <3> QED
        BY <1>8, <2>3, <3>4 DEF r
    <2> QED
      BY <2>1, <2>2, <2>3
  <1>13. [o \in DOMAIN inputs |-> operand(inputs[o])] = OperandsAt(b, supplied, state.virtuals, i)
    BY <1>12 DEF OperandsAt
  <1> HIDE DEF operand
  <1> QED
    BY <1>3, <1>4, <1>7, <1>10, <1>11, <1>13 DEF fresh

\* What a backend expects is what its instructions read from outside.
LEMMA OuterSets ==
    ASSUME setup \in WitnessSetups, NEW b, BackendOK(b)
    PROVE  /\ OutsideOf(setup.program, b.shard.range) = DOMAIN b.shapes
           /\ WeightsIn(setup.program, b.shard.range) = {<<"weight", n>> : n \in DOMAIN b.weights}
           /\ \A r \in ExpectedInputs(b) : \E i \in RangeOf(b.shard) : r \in ToSet(InputsAt(i))
  <1> DEFINE p == setup.program
             range == b.shard.range
  <1>1. /\ range.start \in Nat /\ range.end \in Nat /\ range.end <= Len(p) /\ Len(p) \in Nat /\ DOMAIN p = 1..Len(p)
    BY BackendFacts DEF RangeOK, ListsOK
  <1>2. \A i \in RangeOf(b.shard) : i \in Nat /\ InRange(range, i) /\ i + 1 \in DOMAIN p
    BY <1>1 DEF RangeOf, InRange
  <1>3. \A i \in Nat : InRange(range, i) => i \in RangeOf(b.shard)
    BY <1>1 DEF RangeOf, InRange
  <1> HIDE DEF range
  <1>4. \A r : r \in UsedIn(p, range) <=> \E i \in RangeOf(b.shard) : r \in ToSet(InputsAt(i))
    <2>1. ASSUME NEW r \in UsedIn(p, range) PROVE \E i \in RangeOf(b.shard) : r \in ToSet(InputsAt(i))
      BY <1>3, <2>1 DEF UsedIn, InputsAt
    <2>2. ASSUME NEW r, NEW i \in RangeOf(b.shard), r \in ToSet(InputsAt(i)) PROVE r \in UsedIn(p, range)
      <3>1. r \in ToSet(p[i + 1].inputs) /\ i + 1 \in DOMAIN p
        BY <1>2, <2>2 DEF InputsAt, InstructionAt
      <3> QED
        BY <1>2, <2>2, <3>1 DEF UsedIn, InputsAt
    <2> QED
      BY <2>1, <2>2
  <1>5. \A r : r \in ShardReads(p, b.shard) <=> \E i \in RangeOf(b.shard) : r \in ToSet(InputsAt(i))
    BY DEF ShardReads, InputsAt
  <1>6. \A r \in ShardReads(p, b.shard) : IsRegister(r)
    BY <1>5, ReadFacts DEF InputsAt
  <1>7. \A r \in ExpectedInputs(b) : r \in ShardReads(p, b.shard)
    <2> SUFFICES ASSUME NEW r \in ExpectedInputs(b) PROVE r \in ShardReads(p, b.shard)
      OBVIOUS
    <2>1. CASE r = <<"weight", r[2]>> /\ r[2] \in DOMAIN b.weights
      <3>1. r[2] \in NamesOf("weight", ShardReads(p, b.shard))
        BY <2>1, BackendFacts
      <3>2. PICK q \in ShardReads(p, b.shard) : q[1] = "weight" /\ q[2] = r[2]
        BY <3>1 DEF NamesOf
      <3>3. q = r
        BY <1>6, <2>1, <3>2 DEF IsRegister
      <3> QED
        BY <3>2, <3>3
    <2>2. CASE r = <<"graph", r[2]>> /\ r[1] = "graph" /\ r \in DOMAIN b.shapes
      <3>1. r \in RequiredRegisters(p, b.shard)
        BY <2>2, BackendFacts
      <3>2. r[2] \in NamesOf("graph", ShardReads(p, b.shard))
        BY <2>2, <3>1 DEF RequiredRegisters, RequiredGraphInputs, Virtual
      <3>3. PICK q \in ShardReads(p, b.shard) : q[1] = "graph" /\ q[2] = r[2]
        BY <3>2 DEF NamesOf
      <3>4. q = r
        BY <1>6, <2>2, <3>3 DEF IsRegister
      <3> QED
        BY <3>3, <3>4
    <2>3. CASE r = Virtual(r[2]) /\ r[1] = "virtual" /\ r \in DOMAIN b.shapes
      <3>1. r \in RequiredRegisters(p, b.shard)
        BY <2>3, BackendFacts
      <3>2. r[2] \in NamesOf("virtual", ShardReads(p, b.shard))
        BY <2>3, <3>1 DEF RequiredRegisters, RequiredVirtuals, Virtual
      <3>3. PICK q \in ShardReads(p, b.shard) : q[1] = "virtual" /\ q[2] = r[2]
        BY <3>2 DEF NamesOf
      <3>4. q = r
        BY <1>6, <2>3, <3>3 DEF IsRegister, Virtual
      <3> QED
        BY <3>3, <3>4
    <2> QED
      BY <2>1, <2>2, <2>3, ExpectedFacts
  <1>8. \A r \in ShardReads(p, b.shard) :
            \/ r \in ExpectedInputs(b) /\ ~(IsVirtual(r) /\ r[2] >= range.start)
            \/ IsVirtual(r) /\ InRange(range, r[2]) /\ r \notin ExpectedInputs(b)
    <2> SUFFICES ASSUME NEW i \in RangeOf(b.shard), NEW r \in ToSet(InputsAt(i))
                 PROVE  \/ r \in ExpectedInputs(b) /\ ~(IsVirtual(r) /\ r[2] >= range.start)
                        \/ IsVirtual(r) /\ InRange(range, r[2]) /\ r \notin ExpectedInputs(b)
      BY <1>5
    <2>1. \/ r \in ExpectedInputs(b) /\ ~(IsVirtual(r) /\ r[2] >= range.start)
          \/ IsVirtual(r) /\ r[2] \in range.start..(i - 1) /\ r \notin ExpectedInputs(b)
      BY ReadFacts DEF InputsAt, range
    <2>2. i \in Nat /\ i < range.end
      BY <1>2 DEF InRange
    <2> QED
      BY <1>1, <2>1, <2>2 DEF InRange
  <1>9. \A r \in ExpectedInputs(b) :
            \/ r[1] = "weight" /\ r \in {<<"weight", n>> : n \in DOMAIN b.weights} /\ r \notin DOMAIN b.shapes
            \/ /\ r[1] # "weight" /\ r \in DOMAIN b.shapes /\ ~(IsVirtual(r) /\ InRange(range, r[2]))
               /\ r \notin {<<"weight", n>> : n \in DOMAIN b.weights}
    <2> SUFFICES ASSUME NEW r \in ExpectedInputs(b)
                 PROVE  \/ r[1] = "weight" /\ r \in {<<"weight", n>> : n \in DOMAIN b.weights} /\ r \notin DOMAIN b.shapes
                        \/ /\ r[1] # "weight" /\ r \in DOMAIN b.shapes /\ ~(IsVirtual(r) /\ InRange(range, r[2]))
                           /\ r \notin {<<"weight", n>> : n \in DOMAIN b.weights}
      OBVIOUS
    <2>1. \/ r = <<"weight", r[2]>> /\ r[1] = "weight" /\ r[2] \in DOMAIN b.weights /\ r \notin DOMAIN b.shapes
          \/ r[1] = "graph" /\ r \in DOMAIN b.shapes
          \/ r[1] = "virtual" /\ r \in DOMAIN b.shapes /\ r[2] \in Nat /\ r[2] < range.start
      BY ExpectedFacts DEF range
    <2>2. r \in {<<"weight", n>> : n \in DOMAIN b.weights} => r[1] = "weight"
      OBVIOUS
    <2> QED
      BY <1>1, <2>1, <2>2 DEF IsVirtual, InRange
  <1>10. \A r : r \in {<<"weight", n>> : n \in DOMAIN b.weights} \/ r \in DOMAIN b.shapes <=> r \in ExpectedInputs(b)
    BY DEF ExpectedInputs
  <1>11. OutsideOf(p, range) = {r \in ShardReads(p, b.shard) : r[1] # "weight" /\ ~(IsVirtual(r) /\ InRange(range, r[2]))}
    BY <1>4, <1>5 DEF OutsideOf
  <1>12. WeightsIn(p, range) = {r \in ShardReads(p, b.shard) : r[1] = "weight"}
    BY <1>4, <1>5 DEF WeightsIn
  <1>13. DOMAIN b.shapes = OutsideOf(p, range)
    BY <1>7, <1>8, <1>9, <1>10, <1>11
  <1>14. {<<"weight", n>> : n \in DOMAIN b.weights} = WeightsIn(p, range)
    BY <1>7, <1>8, <1>9, <1>10, <1>12 DEF IsVirtual
  <1> QED
    BY <1>5, <1>7, <1>13, <1>14 DEF range

\* How many there are.
LEMMA OuterCount ==
    ASSUME setup \in WitnessSetups, NEW b, BackendOK(b)
    PROVE  /\ IsFiniteSet(ExpectedInputs(b)) /\ IsFiniteSet(DOMAIN b.shapes)
           /\ Cardinality(ExpectedInputs(b)) = Cardinality(DOMAIN b.weights) + Cardinality(DOMAIN b.shapes)
           /\ Cardinality(ExpectedInputs(b)) \in Nat
  <1> DEFINE S == DOMAIN b.shapes
             N == DOMAIN b.weights
             T == {<<"weight", n>> : n \in N}
             f == [r \in T |-> r[2]]
  <1>1. ListsOK(setup.program) /\ RangeOK(setup.program, b.shard.range)
    BY BackendFacts
  <1>2. IsFiniteSet(OutsideOf(setup.program, b.shard.range)) /\ IsFiniteSet(WeightsIn(setup.program, b.shard.range))
    BY <1>1, OrderLists
  <1>3. IsFiniteSet(S) /\ IsFiniteSet(T)
    BY <1>2, OuterSets
  <1>4. f \in Bijection(T, N)
    <2>1. \A r \in T : r[2] \in N /\ r = <<"weight", r[2]>>
      OBVIOUS
    <2>2. \A n \in N : <<"weight", n>> \in T /\ <<"weight", n>>[2] = n
      OBVIOUS
    <2> HIDE DEF T
    <2>3. f \in [T -> N] /\ \A r, q \in T : f[r] = f[q] => r = q
      BY <2>1
    <2>4. \A n \in N : \E r \in T : f[r] = n
      BY <2>2
    <2> HIDE DEF f
    <2>5. DOMAIN f = T
      BY <2>3
    <2> QED
      BY <2>3, <2>4, <2>5 DEF Bijection, Injection, Surjection, IsInjective
  <1>5. Cardinality(N) = Cardinality(T)
    BY <1>3, <1>4, FS_Bijection DEF ExistsBijection
  <1>6. S \cap T = {}
    <2> SUFFICES ASSUME NEW r \in S, r \in T PROVE FALSE
      OBVIOUS
    <2>1. r[1] = "weight" /\ r \in ExpectedInputs(b)
      BY DEF ExpectedInputs
    <2> QED
      BY <2>1, ExpectedFacts
  <1>7. ExpectedInputs(b) = S \cup T
    BY DEF ExpectedInputs
  <1> HIDE DEF S, T, N
  <1>8. IsFiniteSet(S \cup T) /\ Cardinality(S \cup T) = Cardinality(S) + Cardinality(T) - Cardinality(S \cap T)
    BY <1>3, FS_Union
  <1>9. Cardinality(S \cap T) = 0 /\ Cardinality(S) \in Nat /\ Cardinality(T) \in Nat
    BY <1>3, <1>6, FS_EmptySet, FS_CardinalityType
  <1>10. Cardinality(S \cup T) = Cardinality(N) + Cardinality(S) /\ Cardinality(S \cup T) \in Nat
    BY <1>5, <1>8, <1>9
  <1> QED
    BY <1>3, <1>7, <1>8, <1>10 DEF S, N

\* One round of execute's loop.
LEMMA LoopStep ==
    ASSUME setup \in WitnessSetups, NEW b, BackendOK(b), NEW supplied, NEW state, NEW j \in Nat,
           NEW i, i = b.shard.range.start + j, i < b.shard.range.end, LoopInv(b, supplied, state, j)
    PROVE  LoopInv(b, supplied, ExecuteNext(b, supplied, state, i), j + 1)
  <1> DEFINE next == ExecuteNext(b, supplied, state, i)
             instruction == InstructionAt(setup.program, i).instruction
             result == execute_instruction(instruction, OperandsAt(b, supplied, state.virtuals, i), b.tables)
             fresh == ToSet(InputsAt(i)) \ DOMAIN state.registers
             values == [r \in fresh |-> OuterValue(b, supplied, r)]
             error == IF result.err # "none" THEN result.err
                      ELSE IF \/ Exceeds(Len(result.values), setup.limits.values_per_tensor)
                              \/ Exceeds(Lengths(state.virtuals) + Len(result.values), setup.limits.total_artifact_values)
                      THEN "Resource" ELSE "none"
  <1>1. CASE state.err # "none"
    <2>1. next = state
      BY <1>1 DEF ExecuteNext
    <2> HIDE DEF next
    <2>2. LoopInv(b, supplied, next, j + 1)
      BY <1>1, <2>1 DEF LoopInv
    <2> QED
      BY <2>2 DEF next
  <1>2. CASE state.err = "none"
    <2>1. Registered(b, supplied, state, j)
      BY <1>2 DEF LoopInv
    <2>2. /\ fresh \subseteq ExpectedInputs(b) /\ ReadAfter(b, j + 1) = fresh \cup ReadAfter(b, j)
          /\ next = Produced(state, i, values, result)
      BY <1>2, <2>1, AppliedFacts
    <2>3. /\ i \in RangeOf(b.shard) /\ i \in Nat /\ i \notin DoneAfter(b, j)
          /\ DoneAfter(b, j) \subseteq RangeOf(b.shard)
          /\ DoneAfter(b, j + 1) = DoneAfter(b, j) \cup {i}
          /\ b.shard.range.start..(i - 1) = DoneAfter(b, j)
          /\ \A k \in DoneAfter(b, j) : b.shard.range.start..(k - 1) \subseteq DoneAfter(b, j)
      BY DoneFacts
    <2>4. /\ result.err \notin {"MissingRegister", "ForwardRegister", "CoverageChanged"}
          /\ result.err = "NoDomain" => instruction.op = "RmsNorm" /\ <<instruction.dim, instruction.epsilon_milli>> \notin DOMAIN b.tables
          /\ result.err = "none" => result = Tensor(result.values)
      BY ResultFacts
    <2>5. instruction.op = "RmsNorm" => <<instruction.dim, instruction.epsilon_milli>> \in DOMAIN b.tables
      BY <2>3, BackendFacts DEF DomainKeys
    <2> HIDE DEF result, next, fresh, instruction
    <2>6. result.err \notin LateErrors
      BY <2>4, <2>5 DEF LateErrors
    <2>7. next = IF error # "none" THEN [state EXCEPT !.err = error]
                 ELSE [err |-> "none", registers |-> With(Merged(values, state.registers), Virtual(i), result.values),
                       inputs |-> Merged(values, state.inputs), virtuals |-> With(state.virtuals, i, result.values)]
      BY <2>2 DEF Produced
    <2>8. error \notin LateErrors
      BY <2>6 DEF LateErrors
    <2>9. CASE error # "none"
      <3> HIDE DEF error
      <3>1. next = [state EXCEPT !.err = error]
        BY <2>7, <2>9
      <3>2. state = [err |-> state.err, registers |-> state.registers, inputs |-> state.inputs, virtuals |-> state.virtuals]
        BY DEF LoopInv
      <3>3. next = [err |-> error, registers |-> state.registers, inputs |-> state.inputs, virtuals |-> state.virtuals]
        BY <3>1, <3>2
      <3>4. /\ next.err = error
            /\ next = [err |-> next.err, registers |-> next.registers, inputs |-> next.inputs, virtuals |-> next.virtuals]
        BY <3>3
      <3>5. LoopInv(b, supplied, next, j + 1)
        BY <2>8, <2>9, <3>4 DEF LoopInv
      <3> QED
        BY <3>5 DEF next
    <2>10. CASE error = "none"
      <3>1. result.err = "none" /\ ~Exceeds(Len(result.values), setup.limits.values_per_tensor)
        BY <2>10
      <3>2. Len(result.values) <= setup.limits.values_per_tensor /\ Tensor(result.values) = result
        BY <2>4, <3>1 DEF Exceeds
      <3>3. /\ next.err = "none"
            /\ next.registers = With(Merged(values, state.registers), Virtual(i), result.values)
            /\ next.inputs = Merged(values, state.inputs) /\ next.virtuals = With(state.virtuals, i, result.values)
            /\ next = [err |-> next.err, registers |-> next.registers, inputs |-> next.inputs, virtuals |-> next.virtuals]
        BY <2>7, <2>10
      <3> HIDE DEF error
      <3>4. DOMAIN values = fresh /\ \A r \in fresh : values[r] = OuterValue(b, supplied, r)
        OBVIOUS
      <3> HIDE DEF values
      <3>5. /\ state.inputs = [r \in ReadAfter(b, j) |-> OuterValue(b, supplied, r)]
            /\ DOMAIN state.virtuals = DoneAfter(b, j)
            /\ DOMAIN state.registers = ReadAfter(b, j) \cup {Virtual(k) : k \in DoneAfter(b, j)}
            /\ \A r \in ReadAfter(b, j) : state.registers[r] = OuterValue(b, supplied, r)
            /\ \A k \in DoneAfter(b, j) : state.registers[Virtual(k)] = state.virtuals[k]
            /\ SuppliedError(b, supplied) = "none"
        BY <2>1 DEF Registered
      <3>6. DOMAIN state.inputs = ReadAfter(b, j) /\ \A r \in ReadAfter(b, j) : state.inputs[r] = OuterValue(b, supplied, r)
        BY <3>5
      <3>7. next.inputs = [r \in ReadAfter(b, j + 1) |-> OuterValue(b, supplied, r)]
        <4>1. /\ next.inputs = [r \in ReadAfter(b, j + 1) |-> next.inputs[r]]
              /\ \A r \in fresh : next.inputs[r] = OuterValue(b, supplied, r)
              /\ \A r \in ReadAfter(b, j) : r \notin fresh => next.inputs[r] = OuterValue(b, supplied, r)
          <5>1. PICK w : w = Merged(values, state.inputs)
            OBVIOUS
          <5>2. /\ w = [r \in DOMAIN values \cup DOMAIN state.inputs |-> w[r]]
                /\ \A r \in DOMAIN values : w[r] = values[r]
                /\ \A r \in DOMAIN state.inputs : r \notin DOMAIN values => w[r] = state.inputs[r]
            BY <5>1 DEF Merged
          <5>3. next.inputs = w
            BY <3>3, <5>1
          <5> QED
            BY <2>2, <3>4, <3>6, <5>2, <5>3
        <4>2. \A r \in ReadAfter(b, j + 1) : next.inputs[r] = OuterValue(b, supplied, r)
          BY <2>2, <4>1
        <4> QED
          BY <4>1, <4>2
      <3>8. /\ DOMAIN next.virtuals = DoneAfter(b, j + 1) /\ next.virtuals = [k \in DoneAfter(b, j + 1) |-> next.virtuals[k]]
            /\ next.virtuals[i] = result.values /\ \A k \in DoneAfter(b, j) : next.virtuals[k] = state.virtuals[k]
        <4>1. PICK w : w = With(state.virtuals, i, result.values)
          OBVIOUS
        <4>2. /\ DOMAIN w = DOMAIN state.virtuals \cup {i} /\ w[i] = result.values
              /\ \A k \in DOMAIN state.virtuals : k # i => w[k] = state.virtuals[k]
              /\ w = [k \in DOMAIN state.virtuals \cup {i} |-> w[k]]
          BY <4>1 DEF With
        <4> QED
          BY <2>3, <3>3, <3>5, <4>1, <4>2
      <3>9. Virtual(i) \notin ReadAfter(b, j + 1) /\ \A k \in DoneAfter(b, j) : Virtual(k) # Virtual(i)
        <4>1. Virtual(i) \notin ExpectedInputs(b)
          <5> SUFFICES ASSUME Virtual(i) \in ExpectedInputs(b) PROVE FALSE
            OBVIOUS
          <5>1. Virtual(i)[1] = "virtual" /\ Virtual(i)[2] = i
            BY DEF Virtual
          <5>2. i < b.shard.range.start
            BY <5>1, ExpectedFacts
          <5>3. b.shard.range.start \in Nat
            BY BackendFacts DEF RangeOK
          <5> QED
            BY <2>3, <5>2, <5>3
        <4> QED
          BY <2>3, <4>1 DEF ReadAfter, Virtual
      <3> DEFINE merged == Merged(values, state.registers)
      <3>10. /\ DOMAIN merged = ReadAfter(b, j + 1) \cup {Virtual(k) : k \in DoneAfter(b, j)}
             /\ \A r \in ReadAfter(b, j + 1) : merged[r] = OuterValue(b, supplied, r)
             /\ \A k \in DoneAfter(b, j) : merged[Virtual(k)] = state.virtuals[k]
        <4>1. /\ DOMAIN merged = fresh \cup DOMAIN state.registers
              /\ \A r \in fresh : merged[r] = OuterValue(b, supplied, r)
              /\ \A r \in DOMAIN state.registers : r \notin fresh => merged[r] = state.registers[r]
          <5>1. /\ DOMAIN merged = DOMAIN values \cup DOMAIN state.registers
                /\ \A r \in DOMAIN values : merged[r] = values[r]
                /\ \A r \in DOMAIN state.registers : r \notin DOMAIN values => merged[r] = state.registers[r]
            BY DEF Merged
          <5> HIDE DEF merged
          <5> QED
            BY <3>4, <5>1
        <4>2. \A r \in DOMAIN state.registers : r \notin fresh
          BY DEF fresh
        <4>3. \A k \in DoneAfter(b, j) : Virtual(k) \in DOMAIN state.registers
          BY <3>5
        <4>4. ReadAfter(b, j) \subseteq DOMAIN state.registers
          BY <3>5
        <4>5. DOMAIN merged = ReadAfter(b, j + 1) \cup {Virtual(k) : k \in DoneAfter(b, j)}
          BY <2>2, <3>5, <4>1
        <4> HIDE DEF merged
        <4>6. \A r \in ReadAfter(b, j + 1) : merged[r] = OuterValue(b, supplied, r)
          BY <2>2, <3>5, <4>1, <4>2, <4>4
        <4>7. \A k \in DoneAfter(b, j) : merged[Virtual(k)] = state.virtuals[k]
          BY <3>5, <4>1, <4>2, <4>3
        <4> QED
          BY <4>5, <4>6, <4>7
      <3>11. next.registers = With(merged, Virtual(i), result.values)
        BY <3>3
      <3> HIDE DEF merged
      <3>12. /\ DOMAIN next.registers = DOMAIN merged \cup {Virtual(i)} /\ next.registers[Virtual(i)] = result.values
             /\ \A r \in DOMAIN merged : r # Virtual(i) => next.registers[r] = merged[r]
        <4>1. PICK w : w = With(merged, Virtual(i), result.values)
          OBVIOUS
        <4>2. /\ DOMAIN w = DOMAIN merged \cup {Virtual(i)} /\ w[Virtual(i)] = result.values
              /\ \A r \in DOMAIN merged : r # Virtual(i) => w[r] = merged[r]
          BY <4>1 DEF With
        <4> QED
          BY <3>11, <4>1, <4>2
      <3>13. DOMAIN next.registers = ReadAfter(b, j + 1) \cup {Virtual(k) : k \in DoneAfter(b, j + 1)}
        BY <2>3, <3>10, <3>12
      <3>14. \A r \in ReadAfter(b, j + 1) : next.registers[r] = OuterValue(b, supplied, r)
        BY <3>9, <3>10, <3>12
      <3>15. \A k \in DoneAfter(b, j + 1) : next.registers[Virtual(k)] = next.virtuals[k]
        <4>1. \A k \in DoneAfter(b, j) : Virtual(k) \in DOMAIN merged
          BY <3>10
        <4>2. \A k \in DoneAfter(b, j) : next.registers[Virtual(k)] = next.virtuals[k]
          BY <3>8, <3>9, <3>10, <3>12, <4>1
        <4> QED
          BY <2>3, <3>8, <3>12, <4>2
      <3>16. ASSUME NEW k \in DoneAfter(b, j + 1)
             PROVE  /\ Tensor(next.virtuals[k]) = execute_instruction(InstructionAt(setup.program, k).instruction,
                                                        OperandsAt(b, supplied, next.virtuals, k), b.tables)
                    /\ Len(next.virtuals[k]) <= setup.limits.values_per_tensor
        <4>1. k \in RangeOf(b.shard) /\ b.shard.range.start..(k - 1) \subseteq DoneAfter(b, j)
          BY <2>3
        <4>2. OperandsAt(b, supplied, state.virtuals, k) = OperandsAt(b, supplied, next.virtuals, k)
          <5>1. \A m \in b.shard.range.start..(k - 1) : state.virtuals[m] = next.virtuals[m]
            BY <3>8, <4>1
          <5> QED
            BY <4>1, <5>1, OperandsStay
        <4>3. CASE k = i
          <5>1. result = execute_instruction(InstructionAt(setup.program, i).instruction, OperandsAt(b, supplied, state.virtuals, i), b.tables)
            BY DEF result, instruction
          <5> QED
            BY <3>2, <3>8, <4>2, <4>3, <5>1
        <4>4. CASE k \in DoneAfter(b, j)
          <5>1. /\ Tensor(state.virtuals[k]) = execute_instruction(InstructionAt(setup.program, k).instruction,
                                                        OperandsAt(b, supplied, state.virtuals, k), b.tables)
                /\ Len(state.virtuals[k]) <= setup.limits.values_per_tensor
            BY <2>1, <4>4 DEF Registered
          <5> QED
            BY <3>8, <4>2, <4>4, <5>1
        <4> QED
          BY <2>3, <4>3, <4>4
      <3>17. Registered(b, supplied, next, j + 1)
        BY <3>5, <3>7, <3>8, <3>13, <3>14, <3>15, <3>16 DEF Registered
      <3>18. LoopInv(b, supplied, next, j + 1)
        BY <3>3, <3>17 DEF LoopInv, LateErrors
      <3> QED
        BY <3>18 DEF next
    <2> QED
      BY <2>9, <2>10
  <1> QED
    BY <1>1, <1>2

\* The instructions of a backend in order.
LEMMA InOrderFacts ==
    ASSUME setup \in WitnessSetups, NEW b, BackendOK(b)
    PROVE  /\ b.shard.range.start \in Nat /\ b.shard.range.end \in Nat
           /\ b.shard.range.end - b.shard.range.start \in Nat
           /\ Len(InOrder(b.shard)) = b.shard.range.end - b.shard.range.start
           /\ DOMAIN InOrder(b.shard) = 1..(b.shard.range.end - b.shard.range.start)
           /\ \A j \in 1..(b.shard.range.end - b.shard.range.start) : InOrder(b.shard)[j] = b.shard.range.start + j - 1
           /\ IsFiniteSet(RangeOf(b.shard)) /\ Cardinality(RangeOf(b.shard)) \in Nat
           /\ RangeOf(b.shard) \subseteq Nat
  <1> DEFINE from == b.shard.range.start
             to == b.shard.range.end
             n == to - from
  <1>1. from \in Nat /\ to \in Nat /\ from <= to
    BY BackendFacts DEF RangeOK
  <1>2. InOrder(b.shard) = [j \in 1..n |-> from + j - 1] /\ RangeOf(b.shard) = from..(to - 1)
    BY DEF InOrder, RangeOf
  <1> HIDE DEF from, to
  <1>3. n \in Nat
    BY <1>1
  <1> HIDE DEF n
  <1>4. Len(InOrder(b.shard)) = n /\ DOMAIN InOrder(b.shard) = 1..n /\ \A j \in 1..n : InOrder(b.shard)[j] = from + j - 1
    BY <1>2, <1>3
  <1>5. to - 1 \in Int /\ from \in Int
    BY <1>1
  <1>6. IsFiniteSet(from..(to - 1))
    BY <1>5, FS_Interval
  <1>7. Cardinality(from..(to - 1)) \in Nat
    BY <1>6, FS_CardinalityType
  <1>8. from..(to - 1) \subseteq Nat
    BY <1>1
  <1> QED
    BY <1>1, <1>2, <1>3, <1>4, <1>6, <1>7, <1>8 DEF n, from, to

\* execute's loop, all of it.
LEMMA LoopHolds ==
    ASSUME setup \in WitnessSetups, NEW b, BackendOK(b), NEW supplied
    PROVE  LoopInv(b, supplied, LoopStates(b, supplied)[Len(InOrder(b.shard))], Len(InOrder(b.shard)))
  <1> DEFINE from == b.shard.range.start
             to == b.shard.range.end
             n == Len(InOrder(b.shard))
             states == LoopStates(b, supplied)
             good == {j \in Nat : j <= n => LoopInv(b, supplied, states[j], j)}
  <1>1. /\ n \in Nat /\ n = to - from /\ from \in Nat /\ to \in Nat
        /\ \A j \in 1..n : InOrder(b.shard)[j] = from + j - 1
    BY InOrderFacts
  <1>2. /\ states[0] = LoopStart(b, supplied)
        /\ \A j \in 1..n : states[j] = ExecuteNext(b, supplied, states[j - 1], InOrder(b.shard)[j])
    BY <1>1, LoopFacts
  <1> HIDE DEF n, states
  <1>3. LoopInv(b, supplied, states[0], 0)
    <2>1. DoneAfter(b, 0) = {}
      BY <1>1 DEF DoneAfter
    <2>2. ReadAfter(b, 0) = {}
      BY <2>1 DEF ReadAfter
    <2>3. states[0] = [err |-> SuppliedError(b, supplied), registers |-> Empty, inputs |-> Empty, virtuals |-> Empty]
      BY <1>2 DEF LoopStart
    <2>4. PICK s : s = states[0]
      OBVIOUS
    <2>5. /\ s = [err |-> s.err, registers |-> s.registers, inputs |-> s.inputs, virtuals |-> s.virtuals]
          /\ s.err = SuppliedError(b, supplied) /\ s.registers = Empty /\ s.inputs = Empty /\ s.virtuals = Empty
      BY <2>3, <2>4
    <2>6. s.err \notin LateErrors
      BY <2>5, SuppliedFacts DEF LateErrors
    <2>7. DOMAIN Empty = {} /\ \A f : [r \in {} |-> f[r]] = Empty
      BY DEF Empty
    <2>8. s.inputs = [r \in ReadAfter(b, 0) |-> OuterValue(b, supplied, r)]
      BY <2>2, <2>5 DEF Empty
    <2>9. s.err = "none" => Registered(b, supplied, s, 0)
      BY <2>1, <2>2, <2>5, <2>7, <2>8 DEF Registered
    <2> QED
      BY <2>4, <2>5, <2>6, <2>9 DEF LoopInv
  <1>4. 0 \in good
    BY <1>3
  <1>5. ASSUME NEW j \in Nat, j \in good PROVE j + 1 \in good
    <2> SUFFICES ASSUME j + 1 <= n PROVE LoopInv(b, supplied, states[j + 1], j + 1)
      OBVIOUS
    <2>1. LoopInv(b, supplied, states[j], j)
      BY <1>1, <1>5
    <2>2. PICK i : i = from + j
      OBVIOUS
    <2>3. j + 1 \in 1..n /\ (j + 1) - 1 = j /\ from + (j + 1) - 1 = i /\ i < to
      BY <1>1, <2>2
    <2>4. states[j + 1] = ExecuteNext(b, supplied, states[j], i)
      BY <1>1, <1>2, <2>3
    <2>5. LoopInv(b, supplied, ExecuteNext(b, supplied, states[j], i), j + 1)
      BY <2>1, <2>2, <2>3, LoopStep
    <2> QED
      BY <2>4, <2>5
  <1> HIDE DEF good
  <1>6. n \in good
    BY <1>1, <1>4, <1>5, NumbersInSet
  <1> QED
    BY <1>1, <1>6 DEF good, n, states

\* What execute returns without an error.
Ran(b, supplied, done) ==
    /\ SuppliedError(b, supplied) = "none"
    /\ done.inputs = [r \in ExpectedInputs(b) |-> OuterValue(b, supplied, r)]
    /\ DOMAIN done.virtuals = RangeOf(b.shard) /\ done.virtuals = [i \in RangeOf(b.shard) |-> done.virtuals[i]]
    /\ \A i \in RangeOf(b.shard) :
        /\ Tensor(done.virtuals[i]) = execute_instruction(InstructionAt(setup.program, i).instruction,
                                                         OperandsAt(b, supplied, done.virtuals, i), b.tables)
        /\ Len(done.virtuals[i]) <= setup.limits.values_per_tensor
    /\ done.outputs = [i \in RequiredOutputs(b.shard) |-> done.virtuals[i]]
    /\ Lengths(done.inputs) + Lengths(done.virtuals) + Lengths(done.outputs) <= setup.limits.total_artifact_values
    /\ b.records <= setup.limits.tensor_count

\* execute: its errors are none that with_limits excludes, and its result is the shard's execution.
LEMMA ExecuteFacts ==
    ASSUME setup \in WitnessSetups, NEW b, BackendOK(b), NEW supplied
    PROVE  LET done == execute(b, supplied)
           IN  /\ done.err \notin LateErrors
               /\ done = [err |-> done.err, inputs |-> done.inputs, virtuals |-> done.virtuals, outputs |-> done.outputs]
               /\ done.err = "none" => Ran(b, supplied, done)
  <1> DEFINE n == Len(InOrder(b.shard))
             final == LoopStates(b, supplied)[n]
             outputs == [i \in RequiredOutputs(b.shard) |-> final.virtuals[i]]
             done == execute(b, supplied)
             values == Lengths(final.inputs) + Lengths(final.virtuals) + Lengths(outputs)
             records == RecordCount(Cardinality(DOMAIN final.inputs), Cardinality(DOMAIN final.virtuals), Len(b.shard.outputs))
             error == IF final.err # "none" THEN final.err ELSE ArtifactError(b, values, records)
  <1>1. done = Summary(b, final, outputs)
    BY DEF execute
  <1>2. LoopInv(b, supplied, final, n)
    BY LoopHolds
  <1>3. /\ b.shard.range.start \in Nat /\ b.shard.range.end \in Nat /\ n \in Nat
        /\ n = b.shard.range.end - b.shard.range.start
    BY InOrderFacts
  <1>4. DoneAfter(b, n) = RangeOf(b.shard)
    <2>1. b.shard.range.start + n - 1 = b.shard.range.end - 1
      BY <1>3
    <2> QED
      BY <2>1 DEF DoneAfter, RangeOf
  <1>5. ReadAfter(b, n) = ExpectedInputs(b)
    BY <1>4, OuterSets DEF ReadAfter
  <1> HIDE DEF n, final
  <1>6. done = IF error # "none" THEN [err |-> error, inputs |-> Empty, virtuals |-> Empty, outputs |-> Empty]
              ELSE [err |-> "none", inputs |-> final.inputs, virtuals |-> final.virtuals, outputs |-> outputs]
    BY <1>1 DEF Summary
  <1>7. final.err = "none" => records = b.records
    <2> SUFFICES ASSUME final.err = "none" PROVE records = b.records
      OBVIOUS
    <2>1. Registered(b, supplied, final, n)
      BY <1>2 DEF LoopInv
    <2>2. DOMAIN final.inputs = ExpectedInputs(b) /\ DOMAIN final.virtuals = RangeOf(b.shard)
      BY <1>4, <1>5, <2>1 DEF Registered
    <2>3. Cardinality(ExpectedInputs(b)) = Cardinality(DOMAIN b.weights) + Cardinality(DOMAIN b.shapes)
      BY OuterCount
    <2> QED
      BY <2>2, <2>3, BackendFacts
  <1> HIDE DEF done, values, outputs, records
  <1>8. error \notin LateErrors
    <2>1. CASE final.err # "none"
      BY <1>2, <2>1 DEF LoopInv
    <2>2. CASE final.err = "none"
      BY <1>7, <2>2 DEF ArtifactError, LateErrors
    <2> QED
      BY <2>1, <2>2
  <1>9. CASE error # "none"
    <2> HIDE DEF error
    <2>1. done = [err |-> error, inputs |-> Empty, virtuals |-> Empty, outputs |-> Empty]
      BY <1>6, <1>9
    <2>2. done.err = error /\ done = [err |-> done.err, inputs |-> done.inputs, virtuals |-> done.virtuals, outputs |-> done.outputs]
      BY <2>1
    <2> QED
      BY <1>8, <1>9, <2>2 DEF done
  <1>10. CASE error = "none"
    <2>1. final.err = "none" /\ ArtifactError(b, values, records) = "none"
      BY <1>10
    <2>2. values <= setup.limits.total_artifact_values /\ records <= setup.limits.tensor_count
      BY <2>1 DEF ArtifactError, Exceeds
    <2>3. done = [err |-> "none", inputs |-> final.inputs, virtuals |-> final.virtuals, outputs |-> outputs]
      BY <1>6, <1>10
    <2>4. /\ done.err = "none" /\ done.inputs = final.inputs /\ done.virtuals = final.virtuals /\ done.outputs = outputs
          /\ done = [err |-> done.err, inputs |-> done.inputs, virtuals |-> done.virtuals, outputs |-> done.outputs]
      BY <2>3
    <2>5. Registered(b, supplied, final, n)
      BY <1>2, <2>1 DEF LoopInv
    <2>6. Lengths(done.inputs) + Lengths(done.virtuals) + Lengths(done.outputs) <= setup.limits.total_artifact_values
      BY <2>2, <2>4 DEF values
    <2>7. b.records <= setup.limits.tensor_count
      BY <1>7, <2>1, <2>2
    <2>8. done.outputs = [i \in RequiredOutputs(b.shard) |-> done.virtuals[i]]
      BY <2>4 DEF outputs
    <2>9. /\ SuppliedError(b, supplied) = "none"
          /\ done.inputs = [r \in ExpectedInputs(b) |-> OuterValue(b, supplied, r)]
          /\ DOMAIN done.virtuals = RangeOf(b.shard) /\ done.virtuals = [i \in RangeOf(b.shard) |-> done.virtuals[i]]
          /\ \A i \in RangeOf(b.shard) :
                /\ Tensor(done.virtuals[i]) = execute_instruction(InstructionAt(setup.program, i).instruction,
                                                                 OperandsAt(b, supplied, done.virtuals, i), b.tables)
                /\ Len(done.virtuals[i]) <= setup.limits.values_per_tensor
      BY <1>4, <1>5, <2>4, <2>5 DEF Registered
    <2>10. Ran(b, supplied, done)
      BY <2>6, <2>7, <2>8, <2>9 DEF Ran
    <2>11. done.err \notin LateErrors
      BY <2>4 DEF LateErrors
    <2> QED
      BY <2>4, <2>10, <2>11 DEF done
  <1> QED
    BY <1>9, <1>10

-----------------------------------------------------------------------------
(* The stages of a shard *)

\* Everything that is a function of the setup stays with it.
LEMMA SetupUnchanged ==
    ASSUME setup' = setup
    PROVE  /\ ShardIds' = ShardIds
           /\ \A b : BackendOK(b)' = BackendOK(b)
           /\ \A b, supplied : execute(b, supplied)' = execute(b, supplied)
           /\ \A b, artifact : Loads(b, artifact)' = Loads(b, artifact)
           /\ \A b, artifact : Assembled(b, artifact)' = Assembled(b, artifact)
           /\ \A b, template, domains : TemplateAccepted(b, template, domains)' = TemplateAccepted(b, template, domains)
  <1>1. ShardIds' = ShardIds
    BY DEF ShardIds
  <1>2. ASSUME NEW b PROVE BackendOK(b)' = BackendOK(b)
    BY SMT DEF BackendOK, ShardIds
  <1>3. ASSUME NEW b, NEW supplied PROVE LoopStates(b, supplied)' = LoopStates(b, supplied)
    BY SMT DEF LoopStates, ExecuteNext, Applied, Produced, SuppliedError
  <1>4. ASSUME NEW b, NEW final, NEW outputs PROVE Summary(b, final, outputs)' = Summary(b, final, outputs)
    BY SMT DEF Summary, ArtifactError
  <1>5. ASSUME NEW b, NEW supplied PROVE execute(b, supplied)' = execute(b, supplied)
    <2>1. PICK final : final = LoopStates(b, supplied)[Len(InOrder(b.shard))]
      OBVIOUS
    <2>2. execute(b, supplied) = Summary(b, final, [i \in RequiredOutputs(b.shard) |-> final.virtuals[i]])
      BY <2>1 DEF execute
    <2>3. execute(b, supplied)' = Summary(b, final, [i \in RequiredOutputs(b.shard) |-> final.virtuals[i]])'
      BY <1>3, <2>1 DEF execute
    <2> QED
      BY <1>4, <2>2, <2>3
  <1>6. ASSUME NEW b, NEW wire PROVE decode_artifact_wire(b, wire)' = decode_artifact_wire(b, wire)
    BY SMT, <1>5 DEF decode_artifact_wire
  <1>7. ASSUME NEW b, NEW artifact PROVE Loads(b, artifact)' = Loads(b, artifact)
    BY SMT, <1>6 DEF Loads
  <1>8. ASSUME NEW b PROVE ExternalOrder(b)' = ExternalOrder(b) /\ WeightOrder(b)' = WeightOrder(b)
    BY DEF ExternalOrder, WeightOrder
  <1>9. ASSUME NEW b, NEW r PROVE relocate_register(b, r)' = relocate_register(b, r)
    BY SMT, <1>8 DEF relocate_register
  <1>10. ASSUME NEW b PROVE RelocatedInstructions(b)' = RelocatedInstructions(b)
    BY SMT, <1>9 DEF RelocatedInstructions
  <1>11. ASSUME NEW b PROVE public_output_globals(b)' = public_output_globals(b)
    BY SMT DEF public_output_globals
  <1>12. ASSUME NEW b, NEW artifact PROVE Assembled(b, artifact)' = Assembled(b, artifact)
    <2> DEFINE made(e, w, globals, instructions) ==
                 LET inputs == [p \in DOMAIN e |-> artifact.inputs[e[p]]]
                     weights == [p \in DOMAIN w |-> artifact.inputs[w[p]]]
                     outputs == SortedIndices(globals)
                 IN  [program |-> [instructions |-> instructions, input_values |-> inputs, weight_values |-> weights],
                      public_values |-> FlattenSeq(inputs) \o FlattenSeq(weights)
                                        \o FlattenSeq([p \in DOMAIN outputs |-> artifact.virtuals[outputs[p]]])]
    <2>1. Assembled(b, artifact) = made(ExternalOrder(b), WeightOrder(b), public_output_globals(b), RelocatedInstructions(b))
      BY DEF Assembled
    <2>2. Assembled(b, artifact)' = made(ExternalOrder(b)', WeightOrder(b)', public_output_globals(b)', RelocatedInstructions(b)')
      BY DEF Assembled
    <2> HIDE DEF made
    <2> QED
      BY <1>8, <1>10, <1>11, <2>1, <2>2
  <1>13. ASSUME NEW b, NEW template, NEW domains PROVE TemplateAccepted(b, template, domains)' = TemplateAccepted(b, template, domains)
    BY SMT, <1>8, <1>10 DEF TemplateAccepted
  <1> QED
    BY <1>1, <1>2, <1>5, <1>7, <1>12, <1>13

\* The outputs of a backend: as many as were declared, all of its range.
LEMMA OutputsFacts ==
    ASSUME setup \in WitnessSetups, NEW b, BackendOK(b)
    PROVE  /\ RequiredOutputs(b.shard) \subseteq RangeOf(b.shard) /\ IsFiniteSet(RequiredOutputs(b.shard))
           /\ Cardinality(RequiredOutputs(b.shard)) = Len(b.shard.outputs)
  <1> DEFINE list == b.shard.outputs
             S == RequiredOutputs(b.shard)
             n == Len(list)
             f == [p \in 1..n |-> list[p][2]]
  <1>1. /\ list \in Seq(ToSet(list)) /\ IsInjective(list)
        /\ \A r \in ToSet(list) : IsRegister(r) /\ IsVirtual(r) /\ InRange(b.shard.range, r[2])
    BY BackendFacts
  <1>2. n \in Nat /\ DOMAIN list = 1..n
    BY <1>1
  <1>3. \A r \in ToSet(list) : r = Virtual(r[2]) /\ r[2] \in Nat /\ r[1] = "virtual" /\ r[2] \in RangeOf(b.shard)
    <2>1. b.shard.range.start \in Nat /\ b.shard.range.end \in Nat
      BY BackendFacts DEF RangeOK
    <2>2. \A r \in ToSet(list) : r = Virtual(r[2]) /\ r[2] \in Nat /\ r[1] = "virtual"
      BY <1>1 DEF IsRegister, IsVirtual, Virtual
    <2>3. \A i \in Nat : InRange(b.shard.range, i) => i \in RangeOf(b.shard)
      BY <2>1 DEF InRange, RangeOf
    <2> QED
      BY <1>1, <2>2, <2>3
  <1>4. S = {r[2] : r \in ToSet(list)}
    BY <1>3 DEF RequiredOutputs, NamesOf
  <1> HIDE DEF S, n, list
  <1>5. \A p \in 1..n : list[p] \in ToSet(list)
    BY <1>2 DEF ToSet
  <1>6. \A x \in S : \E p \in 1..n : list[p][2] = x
    BY <1>2, <1>4 DEF ToSet
  <1>7. f \in [1..n -> S] /\ \A p \in 1..n : f[p] = list[p][2]
    BY <1>4, <1>5
  <1> HIDE DEF f
  <1>8. \A p, q \in 1..n : f[p] = f[q] => p = q
    <2> SUFFICES ASSUME NEW p \in 1..n, NEW q \in 1..n, f[p] = f[q] PROVE p = q
      OBVIOUS
    <2>1. list[p][2] = list[q][2] /\ list[p] = Virtual(list[p][2]) /\ list[q] = Virtual(list[q][2])
      BY <1>3, <1>5, <1>7
    <2>2. list[p] = list[q]
      BY <2>1
    <2> QED
      BY <1>1, <1>2, <2>2 DEF IsInjective, list
  <1>9. f \in Bijection(1..n, S)
    BY <1>6, <1>7, <1>8 DEF Bijection, Injection, Surjection, IsInjective
  <1>10. IsFiniteSet(1..n) /\ Cardinality(1..n) = n
    BY <1>2, FS_Interval
  <1>11. IsFiniteSet(S) /\ Cardinality(S) = n
    BY <1>9, <1>10, FS_Bijection DEF ExistsBijection
  <1> QED
    BY <1>3, <1>4, <1>11 DEF S, n, list

\* The records of a list of keys are as many.
LEMMA RecordsLength ==
    ASSUME NEW f, NEW keys, NEW n \in Nat, DOMAIN keys = 1..n
    PROVE  Len(Records(f, keys)) = n
  BY DEF Records

\* to_json and decode_artifact_wire: the file of an execution is accepted.
LEMMA WrittenDecodes ==
    ASSUME setup \in WitnessSetups, NEW b, BackendOK(b), NEW supplied, supplied = [r \in DOMAIN supplied |-> supplied[r]],
           execute(b, supplied).err = "none"
    PROVE  decode_artifact_wire(b, to_json(b, execute(b, supplied)))
  <1> DEFINE done == execute(b, supplied)
             wire == to_json(b, done)
             limits == setup.limits
  <1>1. /\ done = [err |-> done.err, inputs |-> done.inputs, virtuals |-> done.virtuals, outputs |-> done.outputs]
        /\ Ran(b, supplied, done)
    BY ExecuteFacts
  <1>2. /\ wire.run = setup.run /\ wire.shard = b.shard /\ wire.circuit_digest = b.digest
        /\ wire.inputs = Records(done.inputs, SortedRegisters(DOMAIN done.inputs))
        /\ wire.virtuals = Records(done.virtuals, SortedIndices(DOMAIN done.virtuals))
        /\ wire.outputs = Records(done.outputs, SortedIndices(DOMAIN done.outputs))
    BY DEF to_json
  <1>3. done.err = "none"
    OBVIOUS
  <1>4. PICK E, V, O : E = ExpectedInputs(b) /\ V = RangeOf(b.shard) /\ O = RequiredOutputs(b.shard)
    OBVIOUS
  <1>5. /\ IsFiniteSet(E) /\ IsFiniteSet(V) /\ IsFiniteSet(O) /\ V \subseteq Nat /\ O \subseteq V
        /\ Cardinality(O) = Len(b.shard.outputs)
        /\ Cardinality(E) = Cardinality(DOMAIN b.weights) + Cardinality(DOMAIN b.shapes)
        /\ DOMAIN b.shapes \subseteq E
    BY <1>4, OuterCount, OutputsFacts, InOrderFacts DEF ExpectedInputs
  <1>6. b.records = RecordCount(Cardinality(DOMAIN b.weights) + Cardinality(DOMAIN b.shapes), Cardinality(V), Len(b.shard.outputs))
    BY <1>4, BackendFacts
  <1> HIDE DEF done, wire
  <1>7. /\ done.inputs = [r \in E |-> done.inputs[r]] /\ DOMAIN done.inputs = E
        /\ \A r \in E : done.inputs[r] = OuterValue(b, supplied, r)
    BY <1>1, <1>4 DEF Ran
  <1>8. done.virtuals = [i \in V |-> done.virtuals[i]] /\ DOMAIN done.virtuals = V
    BY <1>1, <1>4 DEF Ran
  <1>9. /\ done.outputs = [i \in O |-> done.outputs[i]] /\ DOMAIN done.outputs = O
        /\ \A i \in O : done.outputs[i] = done.virtuals[i]
    BY <1>1, <1>4 DEF Ran
  <1>10. AsTensors(wire.inputs) = done.inputs /\ Distinct(wire.inputs) /\ Len(wire.inputs) = Cardinality(E)
    <2>1. PICK keys : keys = SortedRegisters(E)
      OBVIOUS
    <2>2. DOMAIN keys = 1..Cardinality(E) /\ Cardinality(E) \in Nat /\ ToSet(keys) = E /\ IsInjective(keys)
      BY <1>5, <2>1, SortedRegistersFacts
    <2>3. wire.inputs = Records(done.inputs, keys)
      BY <1>2, <1>7, <2>1
    <2>4. AsTensors(Records(done.inputs, keys)) = done.inputs /\ Distinct(Records(done.inputs, keys))
      BY <1>7, <2>2, RecordsRead
    <2>5. Len(Records(done.inputs, keys)) = Cardinality(E)
      BY <2>2, RecordsLength
    <2> QED
      BY <2>3, <2>4, <2>5
  <1>11. AsTensors(wire.virtuals) = done.virtuals /\ Distinct(wire.virtuals) /\ Len(wire.virtuals) = Cardinality(V)
    <2>1. PICK keys : keys = SortedIndices(V)
      OBVIOUS
    <2>2. DOMAIN keys = 1..Cardinality(V) /\ Cardinality(V) \in Nat /\ ToSet(keys) = V /\ IsInjective(keys)
      BY <1>5, <2>1, SortedIndicesFacts
    <2>3. wire.virtuals = Records(done.virtuals, keys)
      BY <1>2, <1>8, <2>1
    <2>4. AsTensors(Records(done.virtuals, keys)) = done.virtuals /\ Distinct(Records(done.virtuals, keys))
      BY <1>8, <2>2, RecordsRead
    <2>5. Len(Records(done.virtuals, keys)) = Cardinality(V)
      BY <2>2, RecordsLength
    <2> QED
      BY <2>3, <2>4, <2>5
  <1>12. AsTensors(wire.outputs) = done.outputs /\ Distinct(wire.outputs) /\ Len(wire.outputs) = Cardinality(O)
    <2>1. PICK keys : keys = SortedIndices(O)
      OBVIOUS
    <2>2. O \in SUBSET Int
      BY <1>5
    <2>3. DOMAIN keys = 1..Cardinality(O) /\ Cardinality(O) \in Nat /\ ToSet(keys) = O /\ IsInjective(keys)
      BY <1>5, <2>1, <2>2, SortedIndicesFacts
    <2>4. wire.outputs = Records(done.outputs, keys)
      BY <1>2, <1>9, <2>1
    <2>5. AsTensors(Records(done.outputs, keys)) = done.outputs /\ Distinct(Records(done.outputs, keys))
      BY <1>9, <2>3, RecordsRead
    <2>6. Len(Records(done.outputs, keys)) = Cardinality(O)
      BY <2>3, RecordsLength
    <2> QED
      BY <2>4, <2>5, <2>6
  <1>13. RecordCount(Len(wire.inputs), Len(wire.virtuals), Len(wire.outputs)) = b.records /\ b.records <= limits.tensor_count
    BY <1>1, <1>5, <1>6, <1>10, <1>11, <1>12 DEF Ran
  <1>14. TensorsWithin(done.inputs, limits.values_per_tensor)
    <2> SUFFICES ASSUME NEW r \in E PROVE Len(OuterValue(b, supplied, r)) <= limits.values_per_tensor
      BY <1>7 DEF TensorsWithin
    <2>1. SuppliedError(b, supplied) = "none"
      BY <1>1 DEF Ran
    <2>2. DOMAIN supplied = DOMAIN b.shapes /\ \A q \in DOMAIN supplied : Len(supplied[q]) <= limits.values_per_tensor
      BY <2>1, SuppliedFacts DEF TensorsWithin
    <2>3. \/ r[1] = "weight" /\ r[2] \in DOMAIN b.weights
          \/ r[1] # "weight" /\ r \in DOMAIN b.shapes
      BY <1>4, ExpectedFacts
    <2>4. \A n \in DOMAIN b.weights : Len(b.weights[n]) <= limits.values_per_tensor
      BY BackendFacts
    <2> QED
      BY <2>2, <2>3, <2>4 DEF OuterValue
  <1>15. TensorsWithin(done.virtuals, limits.values_per_tensor) /\ TensorsWithin(done.outputs, limits.values_per_tensor)
    <2>1. \A i \in V : Len(done.virtuals[i]) <= limits.values_per_tensor
      BY <1>1, <1>4 DEF Ran
    <2> QED
      BY <1>5, <1>8, <1>9, <2>1 DEF TensorsWithin
  <1>16. \A n \in 1..3 : TensorsWithin(<<done.inputs, done.virtuals, done.outputs>>[n], limits.values_per_tensor)
    BY <1>14, <1>15
  <1>17. [r \in DOMAIN done.inputs \cap DOMAIN b.shapes |-> done.inputs[r]] = supplied
    <2>1. SuppliedError(b, supplied) = "none"
      BY <1>1 DEF Ran
    <2>2. DOMAIN supplied = DOMAIN b.shapes
      BY <2>1, SuppliedFacts
    <2>3. \A r \in DOMAIN b.shapes : done.inputs[r] = supplied[r]
      <3> SUFFICES ASSUME NEW r \in DOMAIN b.shapes PROVE done.inputs[r] = supplied[r]
        OBVIOUS
      <3>1. r \in E /\ r[1] # "weight"
        BY <1>4, <1>5, ExpectedFacts
      <3> QED
        BY <1>7, <3>1 DEF OuterValue
    <2>4. DOMAIN done.inputs \cap DOMAIN b.shapes = DOMAIN supplied
      BY <1>5, <1>7, <2>2
    <2> QED
      BY <2>2, <2>3, <2>4
  <1>18. execute(b, [r \in DOMAIN done.inputs \cap DOMAIN b.shapes |-> done.inputs[r]]) =
            [err |-> "none", inputs |-> done.inputs, virtuals |-> done.virtuals, outputs |-> done.outputs]
    BY <1>1, <1>3, <1>17 DEF done
  <1>19. Lengths(done.inputs) + Lengths(done.virtuals) + Lengths(done.outputs) <= limits.total_artifact_values
    BY <1>1 DEF Ran
  <1>20. decode_artifact_wire(b, wire)
    BY <1>2, <1>4, <1>7, <1>8, <1>9, <1>10, <1>11, <1>12, <1>13, <1>16, <1>18, <1>19 DEF decode_artifact_wire
  <1> QED
    BY <1>20 DEF wire, done

\* A register in an artifact.
ReadBack(a, r) == IF IsVirtual(r) /\ r[2] \in DOMAIN a.virtuals THEN a.virtuals[r[2]] ELSE a.inputs[r]

\* What decode_artifact_wire accepts: an execution of the shard.
Accepted(b, a) ==
    /\ DOMAIN a.inputs = ExpectedInputs(b) /\ DOMAIN a.virtuals = RangeOf(b.shard) /\ DOMAIN a.outputs = RequiredOutputs(b.shard)
    /\ \A r \in DOMAIN a.inputs : r[1] = "weight" => a.inputs[r] = b.weights[r[2]] /\ a.inputs[r] = setup.weights[r[2]]
    /\ \A r \in DOMAIN b.shapes : Len(a.inputs[r]) = b.shapes[r]
    /\ \A i \in RangeOf(b.shard) :
        Tensor(a.virtuals[i]) = execute_instruction(InstructionAt(setup.program, i).instruction,
                                                    [o \in DOMAIN InputsAt(i) |-> ReadBack(a, InputsAt(i)[o])], b.tables)
    /\ \A i \in DOMAIN a.outputs : a.outputs[i] = a.virtuals[i]

\* decode_artifact_wire: whatever the file holds, what is decoded of it is an execution.
LEMMA DecodedIsExecution ==
    ASSUME setup \in WitnessSetups, NEW b, BackendOK(b), NEW wire, decode_artifact_wire(b, wire)
    PROVE  Accepted(b, Decoded(wire))
  <1> DEFINE a == Decoded(wire)
             supplied == [r \in DOMAIN a.inputs \cap DOMAIN b.shapes |-> a.inputs[r]]
             done == execute(b, supplied)
  <1>1. a.inputs = AsTensors(wire.inputs) /\ a.virtuals = AsTensors(wire.virtuals) /\ a.outputs = AsTensors(wire.outputs)
    BY DEF Decoded
  <1>2. /\ DOMAIN a.inputs = ExpectedInputs(b) /\ DOMAIN a.virtuals = RangeOf(b.shard) /\ DOMAIN a.outputs = RequiredOutputs(b.shard)
        /\ \A i \in DOMAIN a.outputs : a.outputs[i] = a.virtuals[i]
        /\ done = [err |-> "none", inputs |-> a.inputs, virtuals |-> a.virtuals, outputs |-> a.outputs]
    BY <1>1 DEF decode_artifact_wire
  <1> HIDE DEF a
  <1>3. done.err = "none" /\ done.inputs = a.inputs /\ done.virtuals = a.virtuals /\ done.outputs = a.outputs
    BY <1>2
  <1>4. Ran(b, supplied, done)
    BY <1>3, ExecuteFacts
  <1> HIDE DEF done
  <1>5. a.inputs = [r \in ExpectedInputs(b) |-> OuterValue(b, supplied, r)]
    BY <1>3, <1>4 DEF Ran
  <1>6. \A r \in DOMAIN b.shapes : r \in ExpectedInputs(b) /\ r[1] # "weight"
    BY ExpectedFacts DEF ExpectedInputs
  <1>7. ASSUME NEW r \in DOMAIN a.inputs, r[1] = "weight" PROVE a.inputs[r] = b.weights[r[2]] /\ a.inputs[r] = setup.weights[r[2]]
    <2>1. r \in ExpectedInputs(b) /\ r[2] \in DOMAIN b.weights
      BY <1>2, <1>7, ExpectedFacts
    <2>2. b.weights[r[2]] = setup.weights[r[2]]
      BY <2>1, BackendFacts
    <2> QED
      BY <1>5, <1>7, <2>1, <2>2 DEF OuterValue
  <1>8. ASSUME NEW r \in DOMAIN b.shapes PROVE Len(a.inputs[r]) = b.shapes[r]
    <2>1. SuppliedError(b, supplied) = "none"
      BY <1>4 DEF Ran
    <2>2. Len(supplied[r]) = b.shapes[r]
      BY <2>1, SuppliedFacts
    <2>3. a.inputs[r] = supplied[r]
      BY <1>2, <1>6
    <2> QED
      BY <2>2, <2>3
  <1>9. ASSUME NEW i \in RangeOf(b.shard)
        PROVE  Tensor(a.virtuals[i]) = execute_instruction(InstructionAt(setup.program, i).instruction,
                                                    [o \in DOMAIN InputsAt(i) |-> ReadBack(a, InputsAt(i)[o])], b.tables)
    <2>1. Tensor(a.virtuals[i]) = execute_instruction(InstructionAt(setup.program, i).instruction,
                                                      OperandsAt(b, supplied, a.virtuals, i), b.tables)
      BY <1>3, <1>4 DEF Ran
    <2>2. ASSUME NEW o \in DOMAIN InputsAt(i)
          PROVE  ReadBack(a, InputsAt(i)[o]) = IF InputsAt(i)[o] \in ExpectedInputs(b) THEN OuterValue(b, supplied, InputsAt(i)[o])
                                               ELSE a.virtuals[InputsAt(i)[o][2]]
      <3>1. PICK r : r = InputsAt(i)[o]
        OBVIOUS
      <3>2. r \in ToSet(InputsAt(i))
        BY <3>1 DEF ToSet
      <3>3. \/ r \in ExpectedInputs(b) /\ ~(IsVirtual(r) /\ r[2] >= b.shard.range.start)
            \/ IsVirtual(r) /\ r[2] \in b.shard.range.start..(i - 1) /\ r \notin ExpectedInputs(b)
        BY <3>2, ReadFacts DEF InputsAt
      <3>4. b.shard.range.start \in Nat /\ b.shard.range.end \in Nat
        BY InOrderFacts
      <3>5. CASE r \in ExpectedInputs(b) /\ ~(IsVirtual(r) /\ r[2] >= b.shard.range.start)
        <4>1. ~(IsVirtual(r) /\ r[2] \in DOMAIN a.virtuals)
          <5> SUFFICES ASSUME r[2] \in DOMAIN a.virtuals PROVE r[2] >= b.shard.range.start
            BY <3>5
          <5> QED
            BY <1>2, <3>4 DEF RangeOf
        <4> QED
          BY <1>5, <3>1, <3>5, <4>1 DEF ReadBack
      <3>6. CASE IsVirtual(r) /\ r[2] \in b.shard.range.start..(i - 1) /\ r \notin ExpectedInputs(b)
        <4>1. r[2] \in DOMAIN a.virtuals
          BY <1>2, <3>4, <3>6 DEF RangeOf
        <4> QED
          BY <3>1, <3>6, <4>1 DEF ReadBack
      <3> QED
        BY <3>3, <3>5, <3>6
    <2>3. [o \in DOMAIN InputsAt(i) |-> ReadBack(a, InputsAt(i)[o])] = OperandsAt(b, supplied, a.virtuals, i)
      BY <2>2 DEF OperandsAt
    <2> QED
      BY <2>1, <2>3
  <1>10. Accepted(b, a)
    BY <1>2, <1>7, <1>8, <1>9 DEF Accepted
  <1> QED
    BY <1>10 DEF a

\* What has been made of one shard, stage by stage.
StagesOK(s) ==
    /\ backends[s] # None => BackendOK(backends[s])
    /\ artifacts[s] # None =>
        /\ backends[s] # None
        /\ artifacts[s] = [file |-> artifacts[s].file, genuine |-> artifacts[s].genuine, recorded |-> artifacts[s].recorded]
        /\ artifacts[s].genuine => Loads(backends[s], artifacts[s])
    /\ loaded[s] # None =>
        artifacts[s] # None /\ Loads(backends[s], artifacts[s]) /\ loaded[s] = Decoded(artifacts[s].file)
    /\ assembled[s] # None => loaded[s] # None /\ assembled[s] = Assembled(backends[s], loaded[s])
    /\ templates[s] # None =>
        /\ backends[s] # None /\ \E domains : TemplateAccepted(backends[s], templates[s], domains)
        /\ DOMAIN templates[s].input_values = 1..Len(ExternalOrder(backends[s]))

\* The inductive invariant.
ArtifactInv ==
    /\ setup \in WitnessSetups
    /\ DOMAIN backends = ShardIds /\ DOMAIN artifacts = ShardIds /\ DOMAIN loaded = ShardIds
    /\ DOMAIN assembled = ShardIds /\ DOMAIN templates = ShardIds
    /\ \A s \in ShardIds : StagesOK(s)
    /\ NoLateRegisterError

\* A stage is a function of the shard's values: a step that leaves them alone keeps it.
LEMMA StagesUnchanged ==
    ASSUME NEW s, setup' = setup, backends'[s] = backends[s], artifacts'[s] = artifacts[s], loaded'[s] = loaded[s],
           assembled'[s] = assembled[s], templates'[s] = templates[s], StagesOK(s)
    PROVE  StagesOK(s)'
  <1>1. /\ \A b : BackendOK(b)' = BackendOK(b)
        /\ \A b, artifact : Loads(b, artifact)' = Loads(b, artifact)
        /\ \A b, artifact : Assembled(b, artifact)' = Assembled(b, artifact)
        /\ \A b, template, domains : TemplateAccepted(b, template, domains)' = TemplateAccepted(b, template, domains)
    BY SetupUnchanged
  <1>2. \A b : ExternalOrder(b)' = ExternalOrder(b)
    BY DEF ExternalOrder
  <1> QED
    BY <1>1, <1>2 DEF StagesOK

\* Nothing has been made of any shard in the initial state.
LEMMA WitnessStarts == WitnessInit => ArtifactInv
  <1> SUFFICES ASSUME WitnessInit PROVE ArtifactInv
    OBVIOUS
  <1>1. \A s \in ShardIds : StagesOK(s)
    BY DEF WitnessInit, StagesOK
  <1> QED
    BY <1>1 DEF WitnessInit, ArtifactInv, NoLateRegisterError

\* configure: only a shard without a backend gets one, and nothing was made of it yet.
LEMMA ConfigureKeeps ==
    ASSUME ArtifactInv, NEW s \in ShardIds, configure(s)
    PROVE  ArtifactInv'
  <1>1. UNCHANGED <<setup, artifacts, loaded, assembled, templates, errors>> /\ backends[s] = None
    BY DEF configure
  <1>2. ShardIds' = ShardIds /\ \A b : BackendOK(b)' = BackendOK(b)
    BY <1>1, SetupUnchanged
  <1>3. PICK shard \in setup.declared[s], domains \in setup.domain_sets[s], shapes \in setup.manifests[s] :
            backends' = IF with_limits(setup, shard, domains, shapes)
                        THEN [backends EXCEPT ![s] = Backend(setup, shard, domains, shapes)] ELSE backends
    BY DEF configure
  <1>4. CASE backends' = backends
    <2>1. \A t \in ShardIds : StagesOK(t)'
      BY <1>1, <1>4, StagesUnchanged DEF ArtifactInv
    <2> QED
      BY <1>1, <1>2, <1>4, <2>1 DEF ArtifactInv, NoLateRegisterError
  <1>5. CASE with_limits(setup, shard, domains, shapes)
    <2>1. PICK b : b = Backend(setup, shard, domains, shapes)
      OBVIOUS
    <2>2. backends' = [backends EXCEPT ![s] = b]
      BY <1>3, <1>5, <2>1
    <2>3. BackendOK(b)
      BY <1>5, <2>1 DEF BackendOK
    <2>4. DOMAIN backends' = ShardIds /\ backends'[s] = b /\ \A t \in ShardIds \ {s} : backends'[t] = backends[t]
      BY <2>2 DEF ArtifactInv
    <2>5. \A t \in ShardIds \ {s} : StagesOK(t)'
      BY <1>1, <2>4, StagesUnchanged DEF ArtifactInv
    <2>6. StagesOK(s)'
      <3>1. artifacts[s] = None /\ loaded[s] = None /\ assembled[s] = None /\ templates[s] = None
        BY <1>1 DEF ArtifactInv, StagesOK
      <3> QED
        BY <1>1, <1>2, <2>3, <2>4, <3>1 DEF StagesOK
    <2> QED
      BY <1>1, <1>2, <2>4, <2>5, <2>6 DEF ArtifactInv, NoLateRegisterError
  <1> QED
    BY <1>3, <1>4, <1>5

\* Whatever the caller supplies is a function from registers to tensors.
LEMMA SuppliesFunctions ==
    ASSUME NEW s, NEW supplied \in Supplies(s)
    PROVE  supplied = [r \in DOMAIN supplied |-> supplied[r]]
  <1>1. PICK right : right = BoundaryValues(s)
    OBVIOUS
  <1>2. right = [r \in DOMAIN right |-> right[r]]
    BY <1>1 DEF BoundaryValues
  <1>3. \/ supplied \in {right, With(right, <<"graph", "stray">>, <<0>>)}
        \/ supplied \in {[q \in DOMAIN right \ {r} |-> right[q]] : r \in DOMAIN right}
        \/ supplied \in {[right EXCEPT ![r] = Append(@, 0)] : r \in DOMAIN right}
    BY <1>1 DEF Supplies
  <1>4. CASE supplied = right
    BY <1>2, <1>4
  <1>5. CASE supplied = With(right, <<"graph", "stray">>, <<0>>)
    BY <1>5 DEF With
  <1>6. CASE supplied \in {[q \in DOMAIN right \ {r} |-> right[q]] : r \in DOMAIN right}
    <2>1. PICK r \in DOMAIN right : supplied = [q \in DOMAIN right \ {r} |-> right[q]]
      BY <1>6
    <2> QED
      BY <2>1
  <1>7. CASE supplied \in {[right EXCEPT ![r] = Append(@, 0)] : r \in DOMAIN right}
    <2>1. PICK r \in DOMAIN right : supplied = [right EXCEPT ![r] = Append(@, 0)]
      BY <1>7
    <2> QED
      BY <2>1
  <1> QED
    BY <1>3, <1>4, <1>5, <1>6, <1>7

\* generate: the file it writes loads, and its errors are none that with_limits excludes.
LEMMA GenerateKeeps ==
    ASSUME ArtifactInv, NEW s \in ShardIds, generate(s)
    PROVE  ArtifactInv'
  <1>1. UNCHANGED <<setup, backends, loaded, assembled, templates>> /\ backends[s] # None /\ artifacts[s] = None
    BY DEF generate
  <1>2. ShardIds' = ShardIds /\ \A b, artifact : Loads(b, artifact)' = Loads(b, artifact)
    BY <1>1, SetupUnchanged
  <1>3. PICK b : b = backends[s]
    OBVIOUS
  <1>4. BackendOK(b) /\ setup \in WitnessSetups
    BY <1>1, <1>3 DEF ArtifactInv, StagesOK
  <1> DEFINE error(supplied, job, done, wire) ==
                     IF ~validate_job(s, job) THEN "InvalidJob"
                     ELSE IF Exceeds(Cardinality(DOMAIN supplied) + Lengths(supplied), setup.limits.input_bytes) THEN "Resource"
                     ELSE IF done.err # "none" THEN done.err
                     ELSE IF Exceeds(EncodedLen(wire), setup.limits.artifact_bytes) THEN "Resource" ELSE "none"
  <1>5. PICK supplied \in Supplies(s), job \in Configured :
            LET done == execute(b, supplied)
                wire == to_json(b, done)
            IN  IF error(supplied, job, done, wire) = "none"
                THEN /\ artifacts' = [artifacts EXCEPT ![s] =
                            [file |-> wire, genuine |-> TRUE,
                             recorded |-> [shard |-> b.shard, circuit_digest |-> b.digest, file_digest |-> wire]]]
                     /\ UNCHANGED errors
                ELSE /\ errors' = errors \cup {error(supplied, job, done, wire)}
                     /\ UNCHANGED artifacts
    BY <1>3 DEF generate
  <1>6. PICK done : done = execute(b, supplied)
    OBVIOUS
  <1>7. PICK wire : wire = to_json(b, done)
    OBVIOUS
  <1>8. done.err \notin LateErrors
    BY <1>4, <1>6, ExecuteFacts
  <1>9. IF error(supplied, job, done, wire) = "none"
        THEN /\ artifacts' = [artifacts EXCEPT ![s] =
                    [file |-> wire, genuine |-> TRUE,
                     recorded |-> [shard |-> b.shard, circuit_digest |-> b.digest, file_digest |-> wire]]]
             /\ UNCHANGED errors
        ELSE /\ errors' = errors \cup {error(supplied, job, done, wire)}
             /\ UNCHANGED artifacts
    BY <1>5, <1>6, <1>7
  <1>10. CASE error(supplied, job, done, wire) = "none"
    <2>1. done.err = "none" /\ EncodedLen(wire) <= setup.limits.artifact_bytes
      BY <1>10 DEF Exceeds
    <2>2. decode_artifact_wire(b, wire)
      <3>1. supplied = [r \in DOMAIN supplied |-> supplied[r]]
        BY SuppliesFunctions
      <3> QED
        BY <1>4, <1>6, <1>7, <2>1, <3>1, WrittenDecodes
    <2>3. PICK a : a = [file |-> wire, genuine |-> TRUE,
                        recorded |-> [shard |-> b.shard, circuit_digest |-> b.digest, file_digest |-> wire]]
      OBVIOUS
    <2>4. artifacts' = [artifacts EXCEPT ![s] = a] /\ errors' = errors
      BY <1>9, <1>10, <2>3
    <2>5. a = [file |-> a.file, genuine |-> a.genuine, recorded |-> a.recorded]
      BY <2>3
    <2>6. Loads(b, a)
      BY <2>1, <2>2, <2>3 DEF Loads
    <2>7. DOMAIN artifacts' = ShardIds /\ artifacts'[s] = a /\ \A t \in ShardIds \ {s} : artifacts'[t] = artifacts[t]
      BY <2>4 DEF ArtifactInv
    <2>8. \A t \in ShardIds \ {s} : StagesOK(t)'
      BY <1>1, <2>7, StagesUnchanged DEF ArtifactInv
    <2>9. StagesOK(s)'
      <3>1. loaded[s] = None /\ assembled[s] = None
        BY <1>1 DEF ArtifactInv, StagesOK
      <3>2. \A c : BackendOK(c)' = BackendOK(c)
        BY <1>1, SetupUnchanged
      <3>3. backends'[s] # None /\ BackendOK(backends[s])'
        BY <1>1, <1>3, <1>4, <3>2
      <3>4. /\ artifacts'[s] = [file |-> artifacts'[s].file, genuine |-> artifacts'[s].genuine, recorded |-> artifacts'[s].recorded]
            /\ Loads(backends[s], artifacts[s])'
        BY <1>1, <1>2, <1>3, <2>5, <2>6, <2>7
      <3>5. templates'[s] # None =>
                /\ backends'[s] # None /\ \E domains : TemplateAccepted(backends[s], templates[s], domains)'
                /\ DOMAIN templates'[s].input_values = 1..Len(ExternalOrder(backends[s])')
        <4>1. \A template, domains : TemplateAccepted(b, template, domains)' = TemplateAccepted(b, template, domains)
          BY <1>1, SetupUnchanged
        <4>2. ExternalOrder(b)' = ExternalOrder(b)
          BY <1>1 DEF ExternalOrder
        <4> QED
          BY <1>1, <1>3, <4>1, <4>2 DEF ArtifactInv, StagesOK
      <3> QED
        BY <1>1, <3>1, <3>3, <3>4, <3>5 DEF StagesOK
    <2> QED
      BY <1>1, <1>2, <2>4, <2>7, <2>8, <2>9 DEF ArtifactInv, NoLateRegisterError
  <1>11. CASE error(supplied, job, done, wire) # "none"
    <2>1. error(supplied, job, done, wire) \notin {"MissingRegister", "ForwardRegister", "NoDomain", "CoverageChanged"}
      BY <1>8 DEF LateErrors
    <2>2. PICK e : e = error(supplied, job, done, wire)
      OBVIOUS
    <2>3. errors' = errors \cup {e} /\ artifacts' = artifacts
      BY <1>9, <1>11, <2>2
    <2>4. NoLateRegisterError'
      BY <2>1, <2>2, <2>3 DEF ArtifactInv, NoLateRegisterError
    <2>5. \A t \in ShardIds : StagesOK(t)'
      BY <1>1, <2>3, StagesUnchanged DEF ArtifactInv
    <2> QED
      BY <1>1, <1>2, <2>3, <2>4, <2>5 DEF ArtifactInv
  <1> QED
    BY <1>10, <1>11

\* alter_file: an altered file is no longer the generated one, and nothing was loaded from it yet.
LEMMA AlterKeeps ==
    ASSUME ArtifactInv, NEW s \in ShardIds, alter_file(s)
    PROVE  ArtifactInv'
  <1>1. /\ UNCHANGED <<setup, backends, loaded, assembled, templates, errors>>
        /\ artifacts[s] # None /\ loaded[s] = None
    BY DEF alter_file
  <1>2. ShardIds' = ShardIds
    BY <1>1, SetupUnchanged
  <1>3. PICK file \in AlteredFiles(artifacts[s].file), recorded \in BOOLEAN :
            artifacts' = [artifacts EXCEPT ![s].file = file, ![s].genuine = FALSE,
                                           ![s].recorded.file_digest = IF recorded THEN file ELSE @]
    BY DEF alter_file
  <1>4. PICK old : old = artifacts[s]
    OBVIOUS
  <1>5. old = [file |-> old.file, genuine |-> old.genuine, recorded |-> old.recorded]
    BY <1>1, <1>4 DEF ArtifactInv, StagesOK
  <1>6. PICK a : a = [file |-> file, genuine |-> FALSE,
                      recorded |-> [old.recorded EXCEPT !.file_digest = IF recorded THEN file ELSE @]]
    OBVIOUS
  <1>7. DOMAIN artifacts = ShardIds
    BY DEF ArtifactInv
  <1>8. [[[old EXCEPT !.file = file] EXCEPT !.genuine = FALSE]
            EXCEPT !.recorded.file_digest = IF recorded THEN file ELSE @] = a
    <2>1. PICK with : with = [old.recorded EXCEPT !.file_digest = IF recorded THEN file ELSE @]
      OBVIOUS
    <2>2. PICK mid : mid = [[old EXCEPT !.file = file] EXCEPT !.genuine = FALSE]
      OBVIOUS
    <2>3. mid = [file |-> file, genuine |-> FALSE, recorded |-> old.recorded]
      BY <1>5, <2>2
    <2>4. mid.recorded = old.recorded
      BY <2>3
    <2>5. [mid EXCEPT !.recorded.file_digest = IF recorded THEN file ELSE @] = [mid EXCEPT !.recorded = with]
      BY <2>1, <2>4
    <2>6. [mid EXCEPT !.recorded = with] = a
      <3>1. a = [file |-> file, genuine |-> FALSE, recorded |-> with]
        BY <1>6, <2>1
      <3>2. \A g, x, y : [[file |-> file, genuine |-> g, recorded |-> x] EXCEPT !.recorded = y]
                            = [file |-> file, genuine |-> g, recorded |-> y]
        OBVIOUS
      <3> QED
        BY Zenon, <2>3, <3>1, <3>2
    <2> QED
      BY <2>2, <2>5, <2>6
  <1>9. DOMAIN artifacts' = ShardIds /\ artifacts'[s] = a /\ \A t \in ShardIds \ {s} : artifacts'[t] = artifacts[t]
    BY <1>3, <1>4, <1>7, <1>8
  <1>10. \A t \in ShardIds \ {s} : StagesOK(t)'
    BY <1>1, <1>9, StagesUnchanged DEF ArtifactInv
  <1>11. a = [file |-> a.file, genuine |-> a.genuine, recorded |-> a.recorded] /\ a.genuine = FALSE
    BY <1>6
  <1>12. StagesOK(s)'
    <2>1. /\ \A b : BackendOK(b)' = BackendOK(b)
          /\ \A b, template, domains : TemplateAccepted(b, template, domains)' = TemplateAccepted(b, template, domains)
      BY <1>1, SetupUnchanged
    <2>2. \A b : ExternalOrder(b)' = ExternalOrder(b)
      BY <1>1 DEF ExternalOrder
    <2>3. StagesOK(s)
      BY DEF ArtifactInv
    <2> QED
      BY <1>1, <1>9, <1>11, <2>1, <2>2, <2>3 DEF StagesOK
  <1> QED
    BY <1>1, <1>2, <1>9, <1>10, <1>12 DEF ArtifactInv, NoLateRegisterError

\* load_artifact: what is kept is what the file holds, once the file has been checked.
LEMMA LoadKeeps ==
    ASSUME ArtifactInv, NEW s \in ShardIds, load_artifact(s)
    PROVE  ArtifactInv'
  <1>1. /\ UNCHANGED <<setup, backends, artifacts, assembled, templates, errors>>
        /\ artifacts[s] # None /\ loaded[s] = None
        /\ loaded' = IF Loads(backends[s], artifacts[s])
                     THEN [loaded EXCEPT ![s] = Decoded(artifacts[s].file)] ELSE loaded
    BY DEF load_artifact
  <1>2. ShardIds' = ShardIds
    BY <1>1, SetupUnchanged
  <1>3. CASE Loads(backends[s], artifacts[s])
    <2>1. loaded' = [loaded EXCEPT ![s] = Decoded(artifacts[s].file)]
      BY <1>1, <1>3
    <2>2. DOMAIN loaded' = ShardIds /\ loaded'[s] = Decoded(artifacts[s].file) /\ \A t \in ShardIds \ {s} : loaded'[t] = loaded[t]
      BY <2>1 DEF ArtifactInv
    <2>3. \A t \in ShardIds \ {s} : StagesOK(t)'
      BY <1>1, <2>2, StagesUnchanged DEF ArtifactInv
    <2>4. StagesOK(s)'
      <3>1. /\ \A b : BackendOK(b)' = BackendOK(b)
            /\ \A b, artifact : Loads(b, artifact)' = Loads(b, artifact)
            /\ \A b, template, domains : TemplateAccepted(b, template, domains)' = TemplateAccepted(b, template, domains)
        BY <1>1, SetupUnchanged
      <3>2. \A b : ExternalOrder(b)' = ExternalOrder(b)
        BY <1>1 DEF ExternalOrder
      <3>3. StagesOK(s)
        BY DEF ArtifactInv
      <3>4. assembled[s] = None
        BY <1>1, <3>3 DEF StagesOK
      <3> QED
        BY <1>1, <1>3, <2>2, <3>1, <3>2, <3>3, <3>4 DEF StagesOK, Decoded
    <2> QED
      BY <1>1, <1>2, <2>2, <2>3, <2>4 DEF ArtifactInv, NoLateRegisterError
  <1>4. CASE ~Loads(backends[s], artifacts[s])
    <2>1. loaded' = loaded
      BY <1>1, <1>4
    <2>2. \A t \in ShardIds : StagesOK(t)'
      BY <1>1, <2>1, StagesUnchanged DEF ArtifactInv
    <2> QED
      BY <1>1, <1>2, <2>1, <2>2 DEF ArtifactInv, NoLateRegisterError
  <1> QED
    BY <1>3, <1>4

\* load_assembler_program_and_public_values: the program is that of the loaded artifact.
LEMMA AssembleKeeps ==
    ASSUME ArtifactInv, NEW s \in ShardIds, load_assembler_program_and_public_values(s)
    PROVE  ArtifactInv'
  <1>1. /\ UNCHANGED <<setup, backends, artifacts, loaded, templates, errors>>
        /\ artifacts[s] # None /\ loaded[s] # None /\ Loads(backends[s], artifacts[s])
        /\ assembled' = [assembled EXCEPT ![s] = Assembled(backends[s], Decoded(artifacts[s].file))]
    BY DEF load_assembler_program_and_public_values
  <1>2. ShardIds' = ShardIds
    BY <1>1, SetupUnchanged
  <1>3. StagesOK(s)
    BY DEF ArtifactInv
  <1>4. loaded[s] = Decoded(artifacts[s].file)
    BY <1>1, <1>3 DEF StagesOK
  <1>5. PICK made : made = Assembled(backends[s], loaded[s])
    OBVIOUS
  <1>6. assembled' = [assembled EXCEPT ![s] = made]
    BY <1>1, <1>4, <1>5
  <1>7. DOMAIN assembled' = ShardIds /\ assembled'[s] = made /\ \A t \in ShardIds \ {s} : assembled'[t] = assembled[t]
    BY <1>6 DEF ArtifactInv
  <1>8. \A t \in ShardIds \ {s} : StagesOK(t)'
    BY <1>1, <1>7, StagesUnchanged DEF ArtifactInv
  <1>9. StagesOK(s)'
    <2>1. /\ \A b : BackendOK(b)' = BackendOK(b)
          /\ \A b, artifact : Loads(b, artifact)' = Loads(b, artifact)
          /\ \A b, artifact : Assembled(b, artifact)' = Assembled(b, artifact)
          /\ \A b, template, domains : TemplateAccepted(b, template, domains)' = TemplateAccepted(b, template, domains)
      BY <1>1, SetupUnchanged
    <2>2. \A b : ExternalOrder(b)' = ExternalOrder(b)
      BY <1>1 DEF ExternalOrder
    <2>3. made = Assembled(backends[s], loaded[s])'
      BY <1>1, <1>5, <2>1
    <2> QED
      BY <1>1, <1>3, <1>7, <2>1, <2>2, <2>3 DEF StagesOK
  <1> QED
    BY <1>1, <1>2, <1>7, <1>8, <1>9 DEF ArtifactInv, NoLateRegisterError

\* A template that is accepted has as many inputs as the shard has external registers.
LEMMA AcceptedInputs ==
    ASSUME setup \in WitnessSetups, NEW b, BackendOK(b), NEW template \in Templates(b), NEW domains,
           TemplateAccepted(b, template, domains)
    PROVE  DOMAIN template.input_values = 1..Len(ExternalOrder(b))
  <1>1. PICK order : order = ExternalOrder(b)
    OBVIOUS
  <1>2. PICK n \in Nat : DOMAIN order = 1..n /\ Len(order) = n
    BY <1>1, BackendFacts, OrderLists DEF ExternalOrder
  <1>3. PICK zeros : zeros = [p \in DOMAIN order |-> [i \in 1..b.shapes[order[p]] |-> 0]]
    OBVIOUS
  <1>4. PICK list : list = template.input_values
    OBVIOUS
  <1>5. list = SubSeq(list, 1, n) /\ Len(list) >= n
    <2>1. template = [instructions |-> RelocatedInstructions(b), input_values |-> SubSeq(list, 1, n),
                      weight_values |-> [p \in DOMAIN WeightOrder(b) |-> b.weights[WeightOrder(b)[p][2]]]]
      BY <1>1, <1>2, <1>4 DEF TemplateAccepted
    <2>2. template.input_values = SubSeq(list, 1, n)
      BY <2>1
    <2> QED
      BY <1>1, <1>2, <1>4, <2>2 DEF TemplateAccepted
  <1>6. \/ list = zeros \/ list = Append(zeros, <<0>>)
        \/ \E p \in DOMAIN zeros : list = [zeros EXCEPT ![p] = Append(@, 0)]
    <2>1. PICK right : right = [instructions |-> RelocatedInstructions(b), input_values |-> zeros,
                                weight_values |-> [p \in DOMAIN WeightOrder(b) |-> b.weights[WeightOrder(b)[p][2]]]]
      OBVIOUS
    <2>2. \/ template \in {right, [right EXCEPT !.input_values = Append(@, <<0>>)]}
          \/ template \in {[right EXCEPT !.input_values[p] = Append(@, 0)] : p \in DOMAIN zeros}
          \/ template \in {[right EXCEPT !.weight_values[p][1] = @ + 1] : p \in DOMAIN WeightOrder(b)}
      <3> DEFINE all(z, t) == {t, [t EXCEPT !.input_values = Append(@, <<0>>)]}
                                \cup {[t EXCEPT !.input_values[p] = Append(@, 0)] : p \in DOMAIN z}
                                \cup {[t EXCEPT !.weight_values[p][1] = @ + 1] : p \in DOMAIN WeightOrder(b)}
                 z0 == [p \in DOMAIN ExternalOrder(b) |-> [i \in 1..b.shapes[ExternalOrder(b)[p]] |-> 0]]
                 t0 == [instructions |-> RelocatedInstructions(b), input_values |-> z0,
                        weight_values |-> [p \in DOMAIN WeightOrder(b) |-> b.weights[WeightOrder(b)[p][2]]]]
      <3>1. Templates(b) = all(z0, t0)
        BY DEF Templates
      <3>2. z0 = zeros
        BY <1>1, <1>3
      <3> HIDE DEF z0
      <3>3. t0 = right
        BY <2>1, <3>2
      <3> HIDE DEF t0, all
      <3>4. template \in all(zeros, right)
        BY <3>1, <3>2, <3>3
      <3> USE DEF all
      <3> QED
        BY <3>4
    <2>3. CASE template \in {right, [right EXCEPT !.input_values = Append(@, <<0>>)]}
      BY <1>4, <2>1, <2>3
    <2>4. CASE template \in {[right EXCEPT !.input_values[p] = Append(@, 0)] : p \in DOMAIN zeros}
      <3>1. PICK p \in DOMAIN zeros : template = [right EXCEPT !.input_values[p] = Append(@, 0)]
        BY <2>4
      <3> QED
        BY <1>4, <2>1, <3>1
    <2>5. CASE template \in {[right EXCEPT !.weight_values[p][1] = @ + 1] : p \in DOMAIN WeightOrder(b)}
      <3>1. PICK p \in DOMAIN WeightOrder(b) : template = [right EXCEPT !.weight_values[p][1] = @ + 1]
        BY <2>5
      <3> QED
        BY <1>4, <2>1, <3>1
    <2> QED
      BY <2>2, <2>3, <2>4, <2>5
  <1>7. zeros \in Seq({zeros[p] : p \in DOMAIN zeros}) /\ Len(zeros) = n /\ DOMAIN zeros = 1..n
    BY <1>2, <1>3
  <1>8. CASE list = Append(zeros, <<0>>)
    <2>1. PICK X : zeros \in Seq(X) /\ <<0>> \in X
      <3>1. PICK Y, X : Y = {zeros[p] : p \in DOMAIN zeros} /\ X = Y \cup {<<0>>}
        OBVIOUS
      <3>2. zeros \in Seq(Y) /\ Y \subseteq X /\ <<0>> \in X
        BY <1>7, <3>1
      <3> QED
        BY <3>2, SeqGrows
    <2>2. list \in Seq(X) /\ Len(list) = n + 1
      BY <1>7, <1>8, <2>1
    <2>3. Len(SubSeq(list, 1, n)) = n
      BY <1>2, <2>2
    <2> QED
      BY <1>2, <1>5, <2>2, <2>3
  <1>9. CASE list = zeros \/ \E p \in DOMAIN zeros : list = [zeros EXCEPT ![p] = Append(@, 0)]
    BY <1>1, <1>2, <1>4, <1>7, <1>9
  <1> QED
    BY <1>6, <1>8, <1>9

\* validate_assembler_template: only what the backend accepts is kept.
LEMMA TemplateKeeps ==
    ASSUME ArtifactInv, NEW s \in ShardIds, validate_assembler_template(s)
    PROVE  ArtifactInv'
  <1>1. /\ UNCHANGED <<setup, backends, artifacts, loaded, assembled, errors>> /\ backends[s] # None
    BY DEF validate_assembler_template
  <1>2. PICK template \in Templates(backends[s]), domains \in setup.domain_sets[s] :
            templates' = IF TemplateAccepted(backends[s], template, domains)
                         THEN [templates EXCEPT ![s] = template] ELSE templates
    BY DEF validate_assembler_template
  <1>3. ShardIds' = ShardIds
    BY <1>1, SetupUnchanged
  <1>4. CASE TemplateAccepted(backends[s], template, domains)
    <2>1. templates' = [templates EXCEPT ![s] = template]
      BY <1>2, <1>4
    <2>2. DOMAIN templates' = ShardIds /\ templates'[s] = template /\ \A t \in ShardIds \ {s} : templates'[t] = templates[t]
      BY <2>1 DEF ArtifactInv
    <2>3. \A t \in ShardIds \ {s} : StagesOK(t)'
      BY <1>1, <2>2, StagesUnchanged DEF ArtifactInv
    <2>4. DOMAIN template.input_values = 1..Len(ExternalOrder(backends[s]))
      BY <1>1, <1>4, AcceptedInputs DEF ArtifactInv, StagesOK
    <2>5. StagesOK(s)'
      <3>1. /\ \A b : BackendOK(b)' = BackendOK(b)
            /\ \A b, artifact : Loads(b, artifact)' = Loads(b, artifact)
            /\ \A b, artifact : Assembled(b, artifact)' = Assembled(b, artifact)
            /\ \A b, t, d : TemplateAccepted(b, t, d)' = TemplateAccepted(b, t, d)
        BY <1>1, SetupUnchanged
      <3>2. \A b : ExternalOrder(b)' = ExternalOrder(b)
        BY <1>1 DEF ExternalOrder
      <3>3. StagesOK(s)
        BY DEF ArtifactInv
      <3>4. \E d : TemplateAccepted(backends[s], templates[s], d)'
        BY <1>1, <1>4, <2>2, <3>1
      <3>5. DOMAIN templates'[s].input_values = 1..Len(ExternalOrder(backends[s])')
        BY <1>1, <2>2, <2>4, <3>2
      <3> QED
        BY <1>1, <3>1, <3>3, <3>4, <3>5 DEF StagesOK
    <2> QED
      BY <1>1, <1>3, <2>2, <2>3, <2>5 DEF ArtifactInv, NoLateRegisterError
  <1>5. CASE ~TemplateAccepted(backends[s], template, domains)
    <2>1. templates' = templates
      BY <1>2, <1>5
    <2>2. \A t \in ShardIds : StagesOK(t)'
      BY <1>1, <2>1, StagesUnchanged DEF ArtifactInv
    <2> QED
      BY <1>1, <1>3, <2>1, <2>2 DEF ArtifactInv, NoLateRegisterError
  <1> QED
    BY <1>4, <1>5

\* Every step of a caller keeps the stages of every shard.
LEMMA WitnessSteps == ArtifactInv /\ [WitnessNext]_witnessVars => ArtifactInv'
  <1> SUFFICES ASSUME ArtifactInv, [WitnessNext]_witnessVars PROVE ArtifactInv'
    OBVIOUS
  <1>1. CASE WitnessNext
    BY <1>1, ConfigureKeeps, GenerateKeeps, AlterKeeps, LoadKeeps, AssembleKeeps, TemplateKeeps DEF WitnessNext
  <1>2. CASE UNCHANGED witnessVars
    <2>1. UNCHANGED <<setup, backends, artifacts, loaded, assembled, templates, errors>>
      BY <1>2 DEF witnessVars
    <2>2. ShardIds' = ShardIds
      BY <2>1, SetupUnchanged
    <2>3. \A t \in ShardIds : StagesOK(t)'
      BY <2>1, StagesUnchanged DEF ArtifactInv
    <2> QED
      BY <2>1, <2>2, <2>3 DEF ArtifactInv, NoLateRegisterError
  <1> QED
    BY <1>1, <1>2

\* configure, generate, load_artifact and the relocation, in any order and on any files: what has
\* been made of a shard is what the stage before it gives.
THEOREM ArtifactInvariant == WitnessSpec => []ArtifactInv
  <1>1. WitnessInit => ArtifactInv
    BY WitnessStarts
  <1>2. ArtifactInv /\ [WitnessNext]_witnessVars => ArtifactInv'
    BY WitnessSteps
  <1> QED
    BY <1>1, <1>2, PTL DEF WitnessSpec

-----------------------------------------------------------------------------
(* What a loaded artifact is *)

\* A loaded artifact is an execution of its shard.
LEMMA LoadedFacts ==
    ASSUME ArtifactInv, NEW s \in ShardIds, loaded[s] # None
    PROVE  setup \in WitnessSetups /\ BackendOK(backends[s]) /\ Accepted(backends[s], loaded[s])
  <1>1. setup \in WitnessSetups /\ StagesOK(s)
    BY DEF ArtifactInv
  <1>2. /\ Loads(backends[s], artifacts[s]) /\ loaded[s] = Decoded(artifacts[s].file) /\ BackendOK(backends[s])
    BY <1>1 DEF StagesOK
  <1>3. decode_artifact_wire(backends[s], artifacts[s].file)
    BY <1>2 DEF Loads
  <1> QED
    BY <1>1, <1>2, <1>3, DecodedIsExecution

\* load_artifact accepts executions only.
LEMMA LoadedIsExecution == ArtifactInv => AcceptedIsExecution
  <1> SUFFICES ASSUME ArtifactInv, NEW s \in ShardIds, loaded[s] # None
               PROVE  LET b == backends[s]
                          a == loaded[s]
                          value(r) == IF IsVirtual(r) /\ r[2] \in DOMAIN a.virtuals THEN a.virtuals[r[2]] ELSE a.inputs[r]
                      IN  /\ DOMAIN a.virtuals = RangeOf(b.shard)
                          /\ \A r \in DOMAIN a.inputs : r[1] = "weight" => a.inputs[r] = setup.weights[r[2]]
                          /\ \A i \in RangeOf(b.shard) :
                              LET compiled == InstructionAt(setup.program, i)
                              IN  Tensor(a.virtuals[i]) = execute_instruction(compiled.instruction,
                                      [o \in DOMAIN compiled.inputs |-> value(compiled.inputs[o])], b.tables)
                          /\ \A i \in DOMAIN a.outputs : a.outputs[i] = a.virtuals[i]
    BY DEF AcceptedIsExecution
  <1>1. Accepted(backends[s], loaded[s])
    BY LoadedFacts
  <1> QED
    BY <1>1 DEF Accepted, ReadBack, InputsAt

\* The value that the whole program's instruction i reads in a register, when f has the results.
WholeValue(f, i, r) ==
    CASE r[1] = "graph" -> setup.values[r[2]]
      [] r[1] = "weight" -> setup.weights[r[2]]
      [] OTHER -> IF r[2] < i THEN f[r[2]] ELSE <<>>
WholeResult(f, i) ==
    execute_instruction(InstructionAt(setup.program, i).instruction,
                        [o \in DOMAIN InputsAt(i) |-> WholeValue(f, i, InputsAt(i)[o])], AllTables).values

\* An instruction's result depends on the results before it only.
LEMMA WholeDepends ==
    ASSUME setup \in WitnessSetups, NEW i \in Indices(setup.program), NEW f, NEW g, \A k \in 0..(i - 1) : f[k] = g[k]
    PROVE  WholeResult(f, i) = WholeResult(g, i)
  <1>1. i \in Nat /\ i + 1 \in DOMAIN setup.program
    BY WitnessAssumption DEF Indices
  <1>2. ASSUME NEW o \in DOMAIN InputsAt(i) PROVE WholeValue(f, i, InputsAt(i)[o]) = WholeValue(g, i, InputsAt(i)[o])
    <2>1. PICK r : r = InputsAt(i)[o]
      OBVIOUS
    <2>2. r \in ToSet(setup.program[i + 1].inputs)
      BY <2>1 DEF ToSet, InputsAt, InstructionAt
    <2>3. IsRegister(r)
      BY <1>1, <2>2, WitnessAssumption
    <2>4. r[1] \in {"graph", "weight"} \/ r[2] \in Nat
      BY <2>3 DEF IsRegister, IsVirtual
    <2>5. r[1] \in {"graph", "weight"} \/ (r[2] < i => f[r[2]] = g[r[2]])
      BY <1>1, <2>4
    <2> QED
      BY <2>1, <2>5 DEF WholeValue
  <1>3. [o \in DOMAIN InputsAt(i) |-> WholeValue(f, i, InputsAt(i)[o])] = [o \in DOMAIN InputsAt(i) |-> WholeValue(g, i, InputsAt(i)[o])]
    BY <1>2
  <1> QED
    BY <1>3 DEF WholeResult

\* Whole: there is one function of the instructions' results, each computed from those before it.
LEMMA WholeFacts ==
    ASSUME setup \in WitnessSetups, NEW i \in Indices(setup.program)
    PROVE  Whole[i] = WholeResult(Whole, i)
  <1> DEFINE n == Len(setup.program)
             fixed(f, m) == f = [j \in 0..(m - 1) |-> WholeResult(f, j)]
             good == {m \in Nat : m <= n => \E f : fixed(f, m)}
             all == CHOOSE f : fixed(f, n)
  <1>1. n \in Nat
    BY WitnessAssumption
  <1>2. Whole = all
    BY DEF Whole, WholeResult, WholeValue, InputsAt, Indices
  <1>3. 0 \in good
    <2> DEFINE f == [j \in 0..(0 - 1) |-> 0]
    <2>1. fixed(f, 0)
      OBVIOUS
    <2> HIDE DEF f, fixed
    <2> QED
      BY <2>1
  <1>4. ASSUME NEW m \in Nat, m \in good PROVE m + 1 \in good
    <2> SUFFICES ASSUME m + 1 <= n PROVE \E f : fixed(f, m + 1)
      OBVIOUS
    <2>0. m <= n /\ 0..((m + 1) - 1) = 0..m
      BY <1>1
    <2>1. PICK f : f = [j \in 0..(m - 1) |-> WholeResult(f, j)]
      BY <1>4, <2>0
    <2> DEFINE g == [j \in 0..m |-> IF j = m THEN WholeResult(f, m) ELSE f[j]]
               h == [j \in 0..m |-> WholeResult(g, j)]
    <2>2. (\A k \in 0..(m - 1) : g[k] = f[k]) /\ g[m] = WholeResult(f, m)
      OBVIOUS
    <2>3. \A j \in 0..m : h[j] = WholeResult(g, j)
      OBVIOUS
    <2>4. g = [j \in 0..m |-> g[j]] /\ h = [j \in 0..m |-> h[j]]
      OBVIOUS
    <2> HIDE DEF g, h
    <2>5. ASSUME NEW j \in 0..m PROVE g[j] = h[j]
      <3>1. j \in Indices(setup.program) /\ \A k \in 0..(j - 1) : k \in 0..(m - 1)
        BY <1>1 DEF Indices
      <3>2. \A k \in 0..(j - 1) : f[k] = g[k]
        BY <2>2, <3>1
      <3>3. WholeResult(f, j) = WholeResult(g, j)
        BY <3>1, <3>2, WholeDepends
      <3>4. g[j] = WholeResult(f, j)
        <4>1. CASE j = m
          BY <2>2, <4>1
        <4>2. CASE j # m
          <5>1. j \in 0..(m - 1)
            BY <4>2
          <5> QED
            BY <2>1, <2>2, <5>1
        <4> QED
          BY <4>1, <4>2
      <3> QED
        BY <2>3, <3>3, <3>4
    <2>6. g = h
      BY <2>4, <2>5
    <2>7. fixed(g, m + 1)
      BY <2>0, <2>6 DEF h
    <2> HIDE DEF fixed
    <2> QED
      BY <2>7
  <1> HIDE DEF good
  <1>5. n \in good
    BY <1>1, <1>3, <1>4, NumbersInSet
  <1>6. \E f : fixed(f, n)
    BY <1>1, <1>5 DEF good
  <1>7. fixed(all, n)
    <2> HIDE DEF fixed
    <2> QED
      BY <1>6
  <1> HIDE DEF all
  <1>8. all = [j \in Indices(setup.program) |-> WholeResult(all, j)]
    BY <1>7 DEF Indices
  <1> QED
    BY <1>2, <1>8

\* The tables of a backend that was given the program's domains are those of the whole program.
LEMMA TablesAgree ==
    ASSUME setup \in WitnessSetups, NEW b, BackendOK(b), NEW i \in RangeOf(b.shard), NEW operands,
           \A key \in DOMAIN b.domains : b.domains[key] = setup.domains[key]
    PROVE  execute_instruction(InstructionAt(setup.program, i).instruction, operands, b.tables)
             = execute_instruction(InstructionAt(setup.program, i).instruction, operands, AllTables)
  <1> DEFINE p == setup.program
             whole == [range |-> [start |-> 0, end |-> Len(p)]]
  <1>1. PICK c : c = InstructionAt(p, i).instruction
    OBVIOUS
  <1>2. RangeOf(b.shard) \subseteq RangeOf(whole)
    <2>1. b.shard.range.start \in Nat /\ b.shard.range.end \in Nat /\ b.shard.range.end <= Len(p) /\ Len(p) \in Nat
      BY BackendFacts DEF RangeOK, ListsOK
    <2>2. RangeOf(whole) = 0..(Len(p) - 1)
      BY DEF RangeOf
    <2>3. RangeOf(b.shard) = b.shard.range.start..(b.shard.range.end - 1)
      BY DEF RangeOf
    <2>4. \A lo, hi, n \in Nat : hi <= n => lo..(hi - 1) \subseteq 0..(n - 1)
      OBVIOUS
    <2> HIDE DEF whole, p
    <2>5. b.shard.range.start..(b.shard.range.end - 1) \subseteq 0..(Len(p) - 1)
      BY <2>1, <2>4
    <2> QED
      BY <2>2, <2>3, <2>5
  <1>3. DOMAIN AllTables = DomainKeys(p, whole) /\ \A key \in DomainKeys(p, whole) : AllTables[key] = materialize_domain(setup.domains[key])
    BY DEF AllTables
  <1>4. DOMAIN b.tables = DomainKeys(p, b.shard) /\ \A key \in DOMAIN b.tables : b.tables[key] = materialize_domain(setup.domains[key])
    BY BackendFacts
  <1> HIDE DEF whole
  <1>5. i \in RangeOf(whole)
    BY <1>2
  <1>6. c.op = "RmsNorm" => <<c.dim, c.epsilon_milli>> \in DomainKeys(p, b.shard) /\ <<c.dim, c.epsilon_milli>> \in DomainKeys(p, whole)
    BY <1>1, <1>5 DEF DomainKeys
  <1>7. c.op = "RmsNorm" => LET key == <<c.dim, c.epsilon_milli>>
                            IN  key \in DOMAIN b.tables /\ key \in DOMAIN AllTables /\ b.tables[key] = AllTables[key]
    BY <1>3, <1>4, <1>6
  <1>8. execute_instruction(c, operands, b.tables) = execute_instruction(c, operands, AllTables)
    BY <1>7, TablesDepend
  <1> QED
    BY <1>1, <1>8

\* The registers before a shard belong to shards.
LEMMA ProducerIsShard ==
    ASSUME setup \in WitnessSetups, NEW i \in Indices(setup.program)
    PROVE  shard_of_register(i) \in ShardIds
  <1>1. \E t \in ShardIds : InRange(setup.shards[t].range, i)
    BY WitnessAssumption DEF ShardIds
  <1> QED
    BY <1>1 DEF shard_of_register

\* The first register that would differ from the whole program is computed from registers that do not.
LEMMA LoadedComputesProgram == ArtifactInv => ShardsComputeProgram
  <1> SUFFICES ASSUME ArtifactInv, Linked
               PROVE  \A s \in ShardIds : loaded[s] # None =>
                        \A i \in DOMAIN loaded[s].virtuals : loaded[s].virtuals[i] = Whole[i]
    BY DEF ShardsComputeProgram
  <1> DEFINE differs(s, i) == loaded[s] # None /\ i \in DOMAIN loaded[s].virtuals /\ loaded[s].virtuals[i] # Whole[i]
             bad == {i \in Nat : \E s \in ShardIds : differs(s, i)}
  <1>1. ASSUME NEW s \in ShardIds, loaded[s] # None
        PROVE  /\ BackendOK(backends[s]) /\ Accepted(backends[s], loaded[s]) /\ setup \in WitnessSetups
               /\ DOMAIN loaded[s].virtuals = RangeOf(backends[s].shard) /\ DOMAIN loaded[s].virtuals \subseteq Nat
    BY <1>1, LoadedFacts, InOrderFacts DEF Accepted
  <1>2. SUFFICES ASSUME bad # {} PROVE FALSE
    <2> SUFFICES ASSUME NEW s \in ShardIds, loaded[s] # None, NEW i \in DOMAIN loaded[s].virtuals, loaded[s].virtuals[i] # Whole[i]
                 PROVE  FALSE
      OBVIOUS
    <2>1. i \in Nat /\ differs(s, i)
      BY <1>1
    <2> HIDE DEF differs
    <2> QED
      BY <1>2, <2>1
  <1>3. PICK i \in bad : \A k \in bad : i <= k
    BY <1>2, LeastNumber
  <1>4. PICK s \in ShardIds : differs(s, i)
    BY <1>3
  <1>5. i \in Nat
    BY <1>3
  <1>6. ASSUME NEW t \in ShardIds, loaded[t] # None, NEW k \in DOMAIN loaded[t].virtuals, k < i PROVE loaded[t].virtuals[k] = Whole[k]
    <2> SUFFICES ASSUME loaded[t].virtuals[k] # Whole[k] PROVE FALSE
      OBVIOUS
    <2>1. k \in Nat
      BY <1>1, <1>6
    <2>2. differs(t, k)
      BY <1>6
    <2> HIDE DEF differs
    <2>3. k \in bad
      BY <2>1, <2>2
    <2> HIDE DEF bad
    <2>4. i <= k
      BY <1>3, <2>3
    <2> QED
      BY <1>5, <1>6, <2>1, <2>4
  <1> HIDE DEF bad
  <1>7. PICK a, b : a = loaded[s] /\ b = backends[s]
    OBVIOUS
  <1>8. /\ setup \in WitnessSetups /\ BackendOK(b) /\ Accepted(b, a) /\ i \in RangeOf(b.shard) /\ a.virtuals[i] # Whole[i]
        /\ loaded[s] # None /\ \A key \in DOMAIN b.domains : b.domains[key] = setup.domains[key]
    BY <1>1, <1>4, <1>7 DEF Linked
  <1> HIDE DEF differs
  <1>9. /\ b.shard.range.start \in Nat /\ b.shard.range.end \in Nat /\ b.shard.range.end <= Len(setup.program)
        /\ Len(setup.program) \in Nat /\ b.shard.range.start <= i /\ i < b.shard.range.end
    BY <1>5, <1>8, BackendFacts DEF RangeOK, ListsOK, RangeOf
  <1>10. i \in Indices(setup.program)
    BY <1>5, <1>9 DEF Indices
  <1>11. ASSUME NEW o \in DOMAIN InputsAt(i) PROVE ReadBack(a, InputsAt(i)[o]) = WholeValue(Whole, i, InputsAt(i)[o])
    <2>1. PICK r : r = InputsAt(i)[o]
      OBVIOUS
    <2>2. r \in ToSet(InstructionAt(setup.program, i).inputs)
      BY <2>1 DEF ToSet, InputsAt
    <2>3. \/ r \in ExpectedInputs(b) /\ ~(IsVirtual(r) /\ r[2] >= b.shard.range.start)
          \/ /\ r = Virtual(r[2]) /\ IsVirtual(r) /\ r[2] \in b.shard.range.start..(i - 1)
             /\ r \notin ExpectedInputs(b)
      BY <1>8, <2>2, ReadFacts
    <2>4. DOMAIN a.virtuals = RangeOf(b.shard) /\ DOMAIN a.inputs = ExpectedInputs(b)
      BY <1>8 DEF Accepted
    <2>5. CASE r \in ExpectedInputs(b) /\ ~(IsVirtual(r) /\ r[2] >= b.shard.range.start)
      <3>1. ~(IsVirtual(r) /\ r[2] \in DOMAIN a.virtuals)
        <4> SUFFICES ASSUME r[2] \in RangeOf(b.shard) PROVE r[2] >= b.shard.range.start
          BY <2>4, <2>5
        <4> QED
          BY <1>9 DEF RangeOf
      <3>2. ReadBack(a, r) = a.inputs[r]
        BY <3>1 DEF ReadBack
      <3>3. \/ r[1] = "weight" \/ r[1] = "graph"
            \/ r[1] = "virtual" /\ r[2] \in Nat /\ r[2] < b.shard.range.start
        BY <1>8, <2>5, ExpectedFacts
      <3>4. CASE r[1] = "weight"
        <4>1. a.inputs[r] = setup.weights[r[2]]
          BY <1>8, <2>4, <2>5, <3>4 DEF Accepted
        <4> QED
          BY <2>1, <3>2, <3>4, <4>1 DEF WholeValue
      <3>5. CASE r[1] = "graph"
        <4>1. a.inputs[r] = setup.values[r[2]]
          BY <1>7, <1>8, <2>4, <2>5, <3>5 DEF Linked
        <4> QED
          BY <2>1, <3>2, <3>5, <4>1 DEF WholeValue
      <3>6. CASE r[1] = "virtual" /\ r[2] \in Nat /\ r[2] < b.shard.range.start
        <4>1. PICK t : t = shard_of_register(r[2])
          OBVIOUS
        <4>2. r[2] < i /\ r[2] \in Indices(setup.program)
          BY <1>5, <1>9, <3>6 DEF Indices
        <4>3. t \in ShardIds
          BY <1>8, <4>1, <4>2, ProducerIsShard
        <4>4. loaded[t] # None /\ r[2] \in DOMAIN loaded[t].outputs /\ a.inputs[r] = loaded[t].outputs[r[2]]
          BY <1>7, <1>8, <2>4, <2>5, <3>6, <4>1 DEF Linked
        <4>5. BackendOK(backends[t]) /\ Accepted(backends[t], loaded[t])
          BY <1>1, <4>3, <4>4
        <4>6. loaded[t].outputs[r[2]] = loaded[t].virtuals[r[2]] /\ r[2] \in DOMAIN loaded[t].virtuals
          BY <1>8, <4>4, <4>5, OutputsFacts DEF Accepted
        <4>7. a.inputs[r] = Whole[r[2]]
          BY <1>6, <4>2, <4>3, <4>4, <4>6
        <4> QED
          BY <2>1, <3>2, <3>6, <4>2, <4>7 DEF WholeValue
      <3> QED
        BY <3>3, <3>4, <3>5, <3>6
    <2>6. CASE IsVirtual(r) /\ r[2] \in b.shard.range.start..(i - 1)
      <3>1. r[2] \in DOMAIN a.virtuals /\ r[2] < i /\ r[1] = "virtual"
        BY <1>5, <1>9, <2>4, <2>6 DEF RangeOf, IsVirtual
      <3>2. a.virtuals[r[2]] = Whole[r[2]]
        BY <1>6, <1>7, <1>8, <3>1
      <3> QED
        BY <2>1, <2>6, <3>1, <3>2 DEF ReadBack, WholeValue
    <2> QED
      BY <2>3, <2>5, <2>6
  <1>12. [o \in DOMAIN InputsAt(i) |-> ReadBack(a, InputsAt(i)[o])] = [o \in DOMAIN InputsAt(i) |-> WholeValue(Whole, i, InputsAt(i)[o])]
    BY <1>11
  <1>13. Tensor(a.virtuals[i]) = execute_instruction(InstructionAt(setup.program, i).instruction,
            [o \in DOMAIN InputsAt(i) |-> WholeValue(Whole, i, InputsAt(i)[o])], AllTables)
    <2>1. Tensor(a.virtuals[i]) = execute_instruction(InstructionAt(setup.program, i).instruction,
                                                    [o \in DOMAIN InputsAt(i) |-> ReadBack(a, InputsAt(i)[o])], b.tables)
      BY <1>8 DEF Accepted
    <2> QED
      BY <1>8, <1>12, <2>1, TablesAgree
  <1>14. WholeResult(Whole, i) = Tensor(a.virtuals[i]).values
    BY <1>13 DEF WholeResult
  <1>15. WholeResult(Whole, i) = a.virtuals[i]
    BY <1>14 DEF Tensor
  <1> QED
    BY <1>8, <1>10, <1>15, WholeFacts

\* The witness backend's artifacts are executions of the program.
LEMMA ArtifactsFollow == ArtifactInv => ArtifactsSound
  <1>1. ArtifactInv => GeneratedLoads
    BY DEF ArtifactInv, StagesOK, GeneratedLoads
  <1>2. ArtifactInv => NoLateRegisterError
    BY DEF ArtifactInv
  <1> QED
    BY <1>1, <1>2, LoadedIsExecution, LoadedComputesProgram DEF ArtifactsSound

\* generate and load_artifact: what is written is accepted, what is accepted is an execution of the
\* shard, and linked artifacts have the values of the whole program, for every program and sharding.
THEOREM ArtifactsStaySound == WitnessSpec => []ArtifactsSound
  BY ArtifactInvariant, ArtifactsFollow, PTL

-----------------------------------------------------------------------------
(* Relocation *)

\* The orders of a backend list what it expects from outside, inputs and weights apart.
LEMMA BackendOrders ==
    ASSUME setup \in WitnessSetups, NEW b, BackendOK(b)
    PROVE  /\ \E n \in Nat : ExternalOrder(b) \in [1..n -> DOMAIN b.shapes] /\ Len(ExternalOrder(b)) = n
           /\ ToSet(ExternalOrder(b)) = DOMAIN b.shapes
           /\ \E n \in Nat : WeightOrder(b) \in [1..n -> ToSet(WeightOrder(b))]
           /\ ToSet(WeightOrder(b)) = {<<"weight", n>> : n \in DOMAIN b.weights}
           /\ \A p \in DOMAIN WeightOrder(b) : WeightOrder(b)[p] \in ToSet(WeightOrder(b))
  <1>1. ListsOK(setup.program) /\ RangeOK(setup.program, b.shard.range)
    BY BackendFacts
  <1>2. /\ OutsideOf(setup.program, b.shard.range) = DOMAIN b.shapes
        /\ WeightsIn(setup.program, b.shard.range) = {<<"weight", n>> : n \in DOMAIN b.weights}
    BY OuterSets
  <1>3. PICK n \in Nat : ExternalOrder(b) \in [1..n -> DOMAIN b.shapes] /\ ToSet(ExternalOrder(b)) = DOMAIN b.shapes
    BY <1>1, <1>2, OrderLists DEF ExternalOrder
  <1>4. PICK m \in Nat : WeightOrder(b) \in [1..m -> WeightsIn(setup.program, b.shard.range)]
                         /\ ToSet(WeightOrder(b)) = WeightsIn(setup.program, b.shard.range)
    BY <1>1, OrderLists DEF WeightOrder
  <1>5. Len(ExternalOrder(b)) = n
    BY <1>3
  <1>6. \A p \in DOMAIN WeightOrder(b) : WeightOrder(b)[p] \in ToSet(WeightOrder(b))
    BY DEF ToSet
  <1> QED
    BY <1>2, <1>3, <1>4, <1>5, <1>6

\* The place of an element of a list.
LEMMA PlaceFacts ==
    ASSUME NEW f, NEW x \in ToSet(f)
    PROVE  Position(f, x) \in DOMAIN f /\ f[Position(f, x)] = x
  <1>1. \E p \in DOMAIN f : f[p] = x
    BY DEF ToSet
  <1> QED
    BY <1>1 DEF Position

\* The value that an instruction of a relocated program reads, when f has the results, and its own result.
RelocatedValue(assembly, f, r) ==
    CASE r[1] = "input" -> assembly.input_values[r[2] + 1]
      [] r[1] = "weight" -> assembly.weight_values[r[2] + 1]
      [] OTHER -> f[r[2] + 1]
RelocatedResult(b, assembly, f, j) ==
    execute_instruction(assembly.instructions[j].instruction,
        [o \in DOMAIN assembly.instructions[j].inputs |-> RelocatedValue(assembly, f, assembly.instructions[j].inputs[o])],
        b.tables).values

\* The program that is assembled of an artifact.
AssembledOf(b, a, assembly) ==
    /\ assembly.instructions = RelocatedInstructions(b)
    /\ assembly.input_values = [p \in DOMAIN ExternalOrder(b) |-> a.inputs[ExternalOrder(b)[p]]]
    /\ assembly.weight_values = [p \in DOMAIN WeightOrder(b) |-> a.inputs[WeightOrder(b)[p]]]

\* A relocated register has the value that the artifact has for the register it stands for.
LEMMA RelocatedReads ==
    ASSUME setup \in WitnessSetups, NEW b, BackendOK(b), NEW a, NEW assembly, AssembledOf(b, a, assembly),
           NEW i \in RangeOf(b.shard), NEW r \in ToSet(InputsAt(i)), NEW f,
           \A k \in 1..(i - b.shard.range.start) : f[k] = a.virtuals[b.shard.range.start + k - 1],
           DOMAIN a.virtuals = RangeOf(b.shard)
    PROVE  RelocatedValue(assembly, f, relocate_register(b, r)) = ReadBack(a, r)
  <1> DEFINE from == b.shard.range.start
  <1>1. from \in Nat /\ b.shard.range.end \in Nat /\ i \in Nat /\ from <= i /\ i < b.shard.range.end
    BY InOrderFacts DEF RangeOf
  <1>2. \/ r \in ExpectedInputs(b) /\ ~(IsVirtual(r) /\ r[2] >= from)
        \/ r = Virtual(r[2]) /\ IsVirtual(r) /\ r[2] \in from..(i - 1)
    BY ReadFacts DEF InputsAt
  <1>3. \A n : <<"input", n>>[1] = "input" /\ <<"input", n>>[2] = n /\ <<"weight", n>>[1] = "weight" /\ <<"weight", n>>[2] = n
               /\ <<"virtual", n>>[1] = "virtual" /\ <<"virtual", n>>[2] = n
    OBVIOUS
  <1>4. CASE r = Virtual(r[2]) /\ IsVirtual(r) /\ r[2] \in from..(i - 1)
    <2>1. PICK v : v = r[2]
      OBVIOUS
    <2> HIDE DEF from
    <2>2. v \in Int /\ v >= from /\ v - from + 1 \in 1..(i - from) /\ from + (v - from + 1) - 1 = v /\ v < b.shard.range.end
      BY <1>1, <1>4, <2>1
    <2>3. relocate_register(b, r) = <<"virtual", v - from>>
      <3>1. r[1] # "weight" /\ IsVirtual(r) /\ r[2] >= b.shard.range.start
        BY <1>4, <2>1, <2>2 DEF IsVirtual, from
      <3>2. relocate_register(b, r) = <<"virtual", r[2] - b.shard.range.start>>
        BY <3>1 DEF relocate_register
      <3> QED
        BY <2>1, <3>2 DEF from
    <2>4. RelocatedValue(assembly, f, relocate_register(b, r)) = f[v - from + 1]
      BY <1>3, <2>3 DEF RelocatedValue
    <2>5. f[v - from + 1] = a.virtuals[v]
      BY <2>2 DEF from
    <2>6. v \in RangeOf(b.shard)
      BY <1>1, <2>2 DEF RangeOf, from
    <2> QED
      BY <1>4, <2>1, <2>4, <2>5, <2>6 DEF ReadBack
  <1>5. CASE r \in ExpectedInputs(b) /\ ~(IsVirtual(r) /\ r[2] >= from)
    <2>1. ReadBack(a, r) = a.inputs[r]
      <3>1. r[2] \in DOMAIN a.virtuals => r[2] >= from
        BY <1>1 DEF RangeOf
      <3> QED
        BY <1>5, <3>1 DEF ReadBack
    <2>2. CASE r[1] = "weight"
      <3>1. r \in ToSet(WeightOrder(b))
        <4>1. r = <<"weight", r[2]>> /\ r[2] \in DOMAIN b.weights
          BY <1>5, <2>2, ExpectedFacts
        <4> QED
          BY <4>1, BackendOrders
      <3>2. PICK q : q = Position(WeightOrder(b), r)
        OBVIOUS
      <3>3. q \in DOMAIN WeightOrder(b) /\ WeightOrder(b)[q] = r /\ (q - 1) + 1 = q
        <4>1. PICK n \in Nat : WeightOrder(b) \in [1..n -> ToSet(WeightOrder(b))]
          BY BackendOrders
        <4>2. PICK order : order = WeightOrder(b)
          OBVIOUS
        <4>3. order \in [1..n -> ToSet(order)] /\ r \in ToSet(order)
          BY <3>1, <4>1, <4>2
        <4>4. q \in 1..n /\ order[q] = r /\ (q - 1) + 1 = q
          <5>1. Position(order, r) \in DOMAIN order /\ order[Position(order, r)] = r
            BY <4>3, PlaceFacts
          <5>2. q \in 1..n /\ order[q] = r
            BY <3>2, <4>2, <4>3, <5>1
          <5>3. \A k \in 1..n : (k - 1) + 1 = k
            OBVIOUS
          <5> QED
            BY <5>2, <5>3
        <4>5. DOMAIN order = 1..n
          BY <4>3
        <4> QED
          BY <4>2, <4>4, <4>5
      <3>4. ~IsVirtual(r)
        BY <2>2 DEF IsVirtual
      <3>5. relocate_register(b, r) = <<"weight", q - 1>>
        BY <2>2, <3>2, <3>4 DEF relocate_register
      <3>6. RelocatedValue(assembly, f, relocate_register(b, r)) = assembly.weight_values[(q - 1) + 1]
        BY <1>3, <3>5 DEF RelocatedValue
      <3>7. assembly.weight_values[q] = a.inputs[r]
        BY <3>3 DEF AssembledOf
      <3> QED
        BY <2>1, <3>3, <3>6, <3>7
    <2>3. CASE r[1] # "weight"
      <3>1. r \in ToSet(ExternalOrder(b))
        BY <1>5, <2>3, ExpectedFacts, BackendOrders
      <3>2. PICK q : q = Position(ExternalOrder(b), r)
        OBVIOUS
      <3>3. q \in DOMAIN ExternalOrder(b) /\ ExternalOrder(b)[q] = r /\ (q - 1) + 1 = q
        <4>1. PICK n \in Nat : ExternalOrder(b) \in [1..n -> ToSet(ExternalOrder(b))]
          BY BackendOrders
        <4>2. PICK order : order = ExternalOrder(b)
          OBVIOUS
        <4>3. order \in [1..n -> ToSet(order)] /\ r \in ToSet(order)
          BY <3>1, <4>1, <4>2
        <4>4. q \in 1..n /\ order[q] = r /\ (q - 1) + 1 = q
          <5>1. Position(order, r) \in DOMAIN order /\ order[Position(order, r)] = r
            BY <4>3, PlaceFacts
          <5>2. q \in 1..n /\ order[q] = r
            BY <3>2, <4>2, <4>3, <5>1
          <5>3. \A k \in 1..n : (k - 1) + 1 = k
            OBVIOUS
          <5> QED
            BY <5>2, <5>3
        <4>5. DOMAIN order = 1..n
          BY <4>3
        <4> QED
          BY <4>2, <4>4, <4>5
      <3>4. relocate_register(b, r) = <<"input", q - 1>>
        BY <1>5, <2>3, <3>2 DEF relocate_register
      <3>5. RelocatedValue(assembly, f, relocate_register(b, r)) = assembly.input_values[(q - 1) + 1]
        BY <1>3, <3>4 DEF RelocatedValue
      <3>6. assembly.input_values[q] = a.inputs[r]
        BY <3>3 DEF AssembledOf
      <3> QED
        BY <2>1, <3>3, <3>5, <3>6
    <2> QED
      BY <2>2, <2>3
  <1> QED
    BY <1>2, <1>4, <1>5

\* The j-th result of a relocated program, when those before it are the artifact's.
LEMMA RelocatedResultFacts ==
    ASSUME setup \in WitnessSetups, NEW b, BackendOK(b), NEW a, Accepted(b, a), NEW assembly, AssembledOf(b, a, assembly),
           NEW j \in DOMAIN InOrder(b.shard), NEW f, \A k \in 1..(j - 1) : f[k] = a.virtuals[b.shard.range.start + k - 1]
    PROVE  RelocatedResult(b, assembly, f, j) = a.virtuals[b.shard.range.start + j - 1]
  <1> DEFINE from == b.shard.range.start
  <1>1. /\ from \in Nat /\ b.shard.range.end \in Nat /\ j \in 1..(b.shard.range.end - from)
        /\ InOrder(b.shard)[j] = from + j - 1
    BY InOrderFacts
  <1>2. PICK i : i = from + j - 1
    OBVIOUS
  <1>3. i \in Nat /\ i - from = j - 1 /\ i \in RangeOf(b.shard)
    BY <1>1, <1>2 DEF RangeOf
  <1>4. /\ assembly.instructions[j].instruction = InstructionAt(setup.program, i).instruction
        /\ assembly.instructions[j].inputs = [o \in DOMAIN InputsAt(i) |-> relocate_register(b, InputsAt(i)[o])]
    BY <1>1, <1>2 DEF AssembledOf, RelocatedInstructions, InputsAt
  <1>5. DOMAIN a.virtuals = RangeOf(b.shard)
    BY DEF Accepted
  <1>6. ASSUME NEW o \in DOMAIN InputsAt(i)
        PROVE  RelocatedValue(assembly, f, assembly.instructions[j].inputs[o]) = ReadBack(a, InputsAt(i)[o])
    <2>1. PICK r : r = InputsAt(i)[o]
      OBVIOUS
    <2>2. r \in ToSet(InputsAt(i))
      BY <2>1 DEF ToSet
    <2>3. RelocatedValue(assembly, f, relocate_register(b, r)) = ReadBack(a, r)
      BY <1>3, <1>5, <2>2, RelocatedReads
    <2> QED
      BY <1>4, <2>1, <2>3
  <1>7. DOMAIN assembly.instructions[j].inputs = DOMAIN InputsAt(i)
    BY <1>4
  <1>8. [o \in DOMAIN assembly.instructions[j].inputs |-> RelocatedValue(assembly, f, assembly.instructions[j].inputs[o])]
            = [o \in DOMAIN InputsAt(i) |-> ReadBack(a, InputsAt(i)[o])]
    BY <1>6, <1>7
  <1>9. RelocatedResult(b, assembly, f, j)
            = execute_instruction(InstructionAt(setup.program, i).instruction,
                                  [o \in DOMAIN InputsAt(i) |-> ReadBack(a, InputsAt(i)[o])], b.tables).values
    BY <1>4, <1>8 DEF RelocatedResult
  <1>10. RelocatedResult(b, assembly, f, j) = Tensor(a.virtuals[i]).values
    BY <1>3, <1>9 DEF Accepted
  <1> QED
    BY <1>2, <1>10 DEF Tensor

\* RelocatedRun: the relocated program computes the artifact's virtual registers.
LEMMA RelocatedRunFacts ==
    ASSUME setup \in WitnessSetups, NEW b, BackendOK(b), NEW a, Accepted(b, a), NEW assembly, AssembledOf(b, a, assembly)
    PROVE  \A j \in DOMAIN InOrder(b.shard) : RelocatedRun(b, assembly)[j] = a.virtuals[b.shard.range.start + j - 1]
  <1> DEFINE from == b.shard.range.start
             n == b.shard.range.end - from
             fixed(f) == f = [j \in 1..n |-> RelocatedResult(b, assembly, f, j)]
             computed == CHOOSE f : fixed(f)
             right == [j \in 1..n |-> a.virtuals[from + j - 1]]
  <1>1. n \in Nat /\ DOMAIN InOrder(b.shard) = 1..n
    BY InOrderFacts
  <1>2. DOMAIN assembly.instructions = 1..n
    BY <1>1 DEF AssembledOf, RelocatedInstructions
  <1>3. RelocatedRun(b, assembly) = CHOOSE f : f = [j \in DOMAIN assembly.instructions |-> RelocatedResult(b, assembly, f, j)]
    BY DEF RelocatedRun, RelocatedResult, RelocatedValue
  <1>4. RelocatedRun(b, assembly) = computed
    BY <1>2, <1>3
  <1> HIDE DEF n
  <1>5. \A j \in 1..n : right[j] = a.virtuals[from + j - 1]
    OBVIOUS
  <1>6. right = [j \in 1..n |-> right[j]]
    OBVIOUS
  <1> HIDE DEF right
  <1>7. ASSUME NEW j \in 1..n PROVE RelocatedResult(b, assembly, right, j) = right[j]
    <2>1. \A k \in 1..(j - 1) : k \in 1..n
      BY <1>1
    <2>2. \A k \in 1..(j - 1) : right[k] = a.virtuals[from + k - 1]
      BY <1>5, <2>1
    <2>3. RelocatedResult(b, assembly, right, j) = a.virtuals[from + j - 1]
      <3>1. j \in DOMAIN InOrder(b.shard)
        BY <1>1
      <3>2. \A k \in 1..(j - 1) : right[k] = a.virtuals[b.shard.range.start + k - 1]
        BY <2>2
      <3> QED
        BY Zenon, <3>1, <3>2, RelocatedResultFacts
    <2> QED
      BY <1>5, <2>3
  <1>8. fixed(right)
    BY <1>6, <1>7
  <1>9. fixed(computed)
    <2> HIDE DEF fixed
    <2> QED
      BY <1>8
  <1> HIDE DEF computed
  <1>10. \A j \in 1..n : computed[j] = RelocatedResult(b, assembly, computed, j)
    BY <1>9
  <1> HIDE DEF fixed
  <1> DEFINE bad == {j \in 1..n : computed[j] # a.virtuals[from + j - 1]}
  <1>11. bad = {}
    <2> SUFFICES ASSUME bad # {} PROVE FALSE
      OBVIOUS
    <2>1. bad \in SUBSET Nat
      BY <1>1
    <2>2. PICK j \in bad : \A k \in bad : j <= k
      <3> HIDE DEF bad
      <3> QED
        BY <2>1, LeastNumber
    <2>3. j \in 1..n /\ computed[j] # a.virtuals[from + j - 1]
      OBVIOUS
    <2>4. ASSUME NEW k \in 1..(j - 1) PROVE computed[k] = a.virtuals[from + k - 1]
      <3>1. k \in 1..n /\ ~(j <= k)
        BY <1>1, <2>3
      <3>2. k \notin bad
        <4> HIDE DEF bad
        <4> QED
          BY <2>2, <3>1
      <3> QED
        BY <3>1, <3>2
    <2> HIDE DEF bad
    <2>5. RelocatedResult(b, assembly, computed, j) = a.virtuals[from + j - 1]
      <3>1. j \in DOMAIN InOrder(b.shard)
        BY <1>1, <2>3
      <3>2. \A k \in 1..(j - 1) : computed[k] = a.virtuals[b.shard.range.start + k - 1]
        BY <2>4
      <3> QED
        BY Zenon, <3>1, <3>2, RelocatedResultFacts
    <2> QED
      BY <1>10, <2>3, <2>5
  <1>12. \A j \in 1..n : computed[j] = a.virtuals[from + j - 1]
    BY <1>11
  <1> QED
    BY <1>1, <1>4, <1>12

\* The public outputs are results of the shard.
LEMMA PublicFacts ==
    ASSUME setup \in WitnessSetups, NEW b, BackendOK(b)
    PROVE  public_output_globals(b) \subseteq RangeOf(b.shard) /\ IsFiniteSet(public_output_globals(b))
  <1>1. RequiredOutputs(b.shard) \subseteq RangeOf(b.shard)
    BY OutputsFacts
  <1>2. b.shard.range.start \in Nat /\ b.shard.range.end \in Nat /\ IsFiniteSet(RangeOf(b.shard))
    BY InOrderFacts
  <1>3. ASSUME NEW i \in NamesOf("virtual", setup.graph_outputs), InRange(b.shard.range, i) PROVE i \in RangeOf(b.shard)
    <2>1. PICK r \in setup.graph_outputs : r[1] = "virtual" /\ r[2] = i
      BY DEF NamesOf
    <2>2. IsRegister(r)
      BY WitnessAssumption
    <2>3. i \in Nat
      BY <2>1, <2>2 DEF IsRegister, IsVirtual
    <2> QED
      BY <1>2, <1>3, <2>3 DEF InRange, RangeOf
  <1>4. public_output_globals(b) \subseteq RangeOf(b.shard)
    BY <1>1, <1>3 DEF public_output_globals
  <1> QED
    BY <1>2, <1>4, FS_Subset

\* What is assembled of an accepted artifact: a program that computes it, and its public instances.
LEMMA AssembledMeans ==
    ASSUME setup \in WitnessSetups, NEW b, BackendOK(b), NEW a, Accepted(b, a)
    PROVE  LET made == Assembled(b, a)
           IN  /\ AssembledOf(b, a, made.program)
               /\ made.public_values = PublicInstances(b, made.program)
  <1> DEFINE from == b.shard.range.start
             inputs == [p \in DOMAIN ExternalOrder(b) |-> a.inputs[ExternalOrder(b)[p]]]
             weights == [p \in DOMAIN WeightOrder(b) |-> a.inputs[WeightOrder(b)[p]]]
             S == public_output_globals(b)
             outputs == SortedIndices(S)
             indices == SortedIndices({i - from : i \in S})
  <1>1. PICK assembly : assembly = [instructions |-> RelocatedInstructions(b), input_values |-> inputs, weight_values |-> weights]
    OBVIOUS
  <1>2. PICK values : values = FlattenSeq(inputs) \o FlattenSeq(weights) \o FlattenSeq([p \in DOMAIN outputs |-> a.virtuals[outputs[p]]])
    OBVIOUS
  <1>3. Assembled(b, a) = [program |-> assembly, public_values |-> values]
    BY <1>1, <1>2 DEF Assembled
  <1>4. AssembledOf(b, a, assembly)
    BY <1>1 DEF AssembledOf
  <1>5. PublicInstances(b, assembly) = FlattenSeq(inputs) \o FlattenSeq(weights)
            \o FlattenSeq([p \in DOMAIN indices |-> RelocatedRun(b, assembly)[indices[p] + 1]])
    BY <1>1 DEF PublicInstances
  <1>6. from \in Nat /\ b.shard.range.end \in Nat /\ DOMAIN InOrder(b.shard) = 1..(b.shard.range.end - from)
    BY InOrderFacts
  <1>7. S \subseteq RangeOf(b.shard) /\ IsFiniteSet(S) /\ S \in SUBSET Int
    BY PublicFacts, InOrderFacts
  <1> HIDE DEF inputs, weights, S
  <1>8. from \in Int
    BY <1>6
  <1>9. DOMAIN indices = DOMAIN outputs /\ \A p \in DOMAIN outputs : indices[p] = outputs[p] - from
    <2> HIDE DEF from
    <2> QED
      BY <1>7, <1>8, ShiftedIndices
  <1>10. \A p \in DOMAIN outputs : outputs[p] \in S
    BY <1>7, SortedIndicesFacts
  <1> HIDE DEF outputs, indices
  <1>11. ASSUME NEW p \in DOMAIN outputs PROVE RelocatedRun(b, assembly)[indices[p] + 1] = a.virtuals[outputs[p]]
    <2>1. PICK v : v = outputs[p]
      OBVIOUS
    <2>2. v \in RangeOf(b.shard)
      BY <1>7, <1>10, <2>1
    <2>3. v \in Int /\ from <= v /\ v < b.shard.range.end
      BY <1>6, <2>2 DEF RangeOf
    <2>4. v - from + 1 \in DOMAIN InOrder(b.shard) /\ from + (v - from + 1) - 1 = v
      BY <1>6, <2>3
    <2>5. RelocatedRun(b, assembly)[v - from + 1] = a.virtuals[from + (v - from + 1) - 1]
      BY <1>4, <2>4, RelocatedRunFacts
    <2> QED
      BY <1>9, <2>1, <2>4, <2>5
  <1>12. [p \in DOMAIN indices |-> RelocatedRun(b, assembly)[indices[p] + 1]] = [p \in DOMAIN outputs |-> a.virtuals[outputs[p]]]
    BY <1>9, <1>11
  <1>13. PublicInstances(b, assembly) = values
    BY <1>2, <1>5, <1>12
  <1> QED
    BY <1>3, <1>4, <1>13

\* What was assembled of a shard means what its artifact means.
LEMMA RelocationKeeps == ArtifactInv => RelocationKeepsMeaning
  <1> SUFFICES ASSUME ArtifactInv, NEW s \in ShardIds, assembled[s] # None
               PROVE  /\ \A j \in DOMAIN assembled[s].program.instructions :
                            RelocatedRun(backends[s], assembled[s].program)[j] = loaded[s].virtuals[backends[s].shard.range.start + j - 1]
                      /\ assembled[s].public_values = PublicInstances(backends[s], assembled[s].program)
    BY DEF RelocationKeepsMeaning
  <1>1. loaded[s] # None /\ assembled[s] = Assembled(backends[s], loaded[s])
    BY DEF ArtifactInv, StagesOK
  <1>2. setup \in WitnessSetups /\ BackendOK(backends[s]) /\ Accepted(backends[s], loaded[s])
    BY <1>1, LoadedFacts
  <1>3. /\ AssembledOf(backends[s], loaded[s], assembled[s].program)
        /\ assembled[s].public_values = PublicInstances(backends[s], assembled[s].program)
    BY <1>1, <1>2, AssembledMeans
  <1>4. DOMAIN assembled[s].program.instructions = DOMAIN InOrder(backends[s].shard)
    BY <1>3 DEF AssembledOf, RelocatedInstructions
  <1> QED
    BY <1>2, <1>3, <1>4, RelocatedRunFacts

\* An accepted template fits whatever is assembled for its shard.
LEMMA TemplateKept == ArtifactInv => TemplateFits
  <1> SUFFICES ASSUME ArtifactInv, NEW s \in ShardIds, templates[s] # None, assembled[s] # None
               PROVE  /\ assembled[s].program.instructions = templates[s].instructions
                      /\ assembled[s].program.weight_values = templates[s].weight_values
                      /\ DOMAIN assembled[s].program.input_values = DOMAIN templates[s].input_values
                      /\ \A p \in DOMAIN assembled[s].program.input_values :
                            Len(assembled[s].program.input_values[p]) = Len(templates[s].input_values[p])
    BY DEF TemplateFits
  <1>1. PICK a, b, t : a = loaded[s] /\ b = backends[s] /\ t = templates[s]
    OBVIOUS
  <1>2. /\ loaded[s] # None /\ assembled[s] = Assembled(b, a)
        /\ DOMAIN t.input_values = 1..Len(ExternalOrder(b)) /\ \E domains : TemplateAccepted(b, t, domains)
    BY <1>1 DEF ArtifactInv, StagesOK
  <1>3. setup \in WitnessSetups /\ BackendOK(b) /\ Accepted(b, a)
    BY <1>1, <1>2, LoadedFacts
  <1>4. PICK domains : TemplateAccepted(b, t, domains)
    BY <1>2
  <1>5. PICK assembly : assembly = assembled[s].program
    OBVIOUS
  <1>6. AssembledOf(b, a, assembly)
    BY <1>2, <1>3, <1>5, AssembledMeans
  <1>7. t.instructions = RelocatedInstructions(b) /\ t.weight_values = [p \in DOMAIN WeightOrder(b) |-> b.weights[WeightOrder(b)[p][2]]]
    <2>1. PICK list : list = SubSeq(t.input_values, 1, Len(ExternalOrder(b)))
      OBVIOUS
    <2>2. t = [instructions |-> RelocatedInstructions(b), input_values |-> list,
               weight_values |-> [p \in DOMAIN WeightOrder(b) |-> b.weights[WeightOrder(b)[p][2]]]]
      BY <1>4, <2>1 DEF TemplateAccepted
    <2> QED
      BY <2>2
  <1>8. assembly.weight_values = t.weight_values
    <2>1. ASSUME NEW p \in DOMAIN WeightOrder(b) PROVE a.inputs[WeightOrder(b)[p]] = b.weights[WeightOrder(b)[p][2]]
      <3>1. PICK r : r = WeightOrder(b)[p]
        OBVIOUS
      <3>2. r \in {<<"weight", n>> : n \in DOMAIN b.weights}
        BY <1>3, <3>1, BackendOrders
      <3>3. PICK n \in DOMAIN b.weights : r = <<"weight", n>>
        BY <3>2
      <3>4. r \in ExpectedInputs(b) /\ r[1] = "weight"
        BY <3>2, <3>3 DEF ExpectedInputs
      <3> QED
        BY <1>3, <3>1, <3>4 DEF Accepted
    <2> QED
      BY <1>6, <1>7, <2>1 DEF AssembledOf
  <1>9. PICK n \in Nat : ExternalOrder(b) \in [1..n -> DOMAIN b.shapes] /\ Len(ExternalOrder(b)) = n
    BY <1>3, BackendOrders
  <1>10. DOMAIN ExternalOrder(b) = 1..n /\ DOMAIN assembly.input_values = 1..n
    BY <1>6, <1>9 DEF AssembledOf
  <1>11. ASSUME NEW p \in 1..n PROVE Len(assembly.input_values[p]) = Len(t.input_values[p])
    <2>1. PICK r : r = ExternalOrder(b)[p]
      OBVIOUS
    <2>2. r \in DOMAIN b.shapes
      BY <1>9, <2>1
    <2>3. assembly.input_values[p] = a.inputs[r]
      BY <1>6, <1>10, <2>1 DEF AssembledOf
    <2>4. Len(a.inputs[r]) = b.shapes[r]
      BY <1>3, <2>2 DEF Accepted
    <2>5. Len(t.input_values[p]) = b.shapes[r]
      BY <1>4, <1>10, <2>1 DEF TemplateAccepted
    <2> QED
      BY <2>3, <2>4, <2>5
  <1> QED
    BY <1>1, <1>2, <1>5, <1>6, <1>7, <1>8, <1>9, <1>10, <1>11 DEF AssembledOf

\* load_assembler_program_and_public_values and validate_assembler_template: the relocated program
\* computes the artifact, its public values are the circuit's instances, and accepted templates fit.
THEOREM RelocationStaysFaithful == WitnessSpec => []RelocationFaithful
  <1>1. ArtifactInv => RelocationFaithful
    BY RelocationKeeps, TemplateKept DEF RelocationFaithful
  <1> QED
    BY <1>1, ArtifactInvariant, PTL
=============================================================================
