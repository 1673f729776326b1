--------------------------- MODULE ResourceProofs ---------------------------
(***************************************************************************)
(* Theorems about what shares out the machine: the scheduler and the       *)
(* memory monitor, for every set of jobs, processes, sizes and limits.     *)
(***************************************************************************)
EXTENDS Scheduler, Monitor, FiniteSetTheorems, WellFoundedInduction, TLAPS

-----------------------------------------------------------------------------
(* Sums over finite sets *)

\* A set of subsets that has each one of which it has all smaller ones has all.
LEMMA SubsetsInSet ==
    ASSUME NEW S, IsFiniteSet(S), NEW G,
           \A s \in SUBSET S : (\A u \in SUBSET s : u # s => u \in G) => s \in G
    PROVE  SUBSET S \subseteq G
  <1> DEFINE T == (SUBSET S) \ G
  <1> SUFFICES ASSUME T # {} PROVE FALSE
    OBVIOUS
  <1>1. FiniteSubsetsOf(S) = SUBSET S
    BY FS_FiniteSubsetsOfFinite
  <1>2. IsWellFoundedOn(StrictSubsetOrdering(S), FiniteSubsetsOf(S))
    BY FS_StrictSubsetOrderingWellFounded, Zenon
  <1>3. T \subseteq FiniteSubsetsOf(S)
    BY <1>1
  <1>4. \E s \in T : \A u \in T : ~(<<u, s>> \in StrictSubsetOrdering(S))
    <2> HIDE DEF T
    <2> QED
      BY <1>2, <1>3, WFMin
  <1>5. PICK s \in T : \A u \in T : ~(<<u, s>> \in StrictSubsetOrdering(S))
    BY <1>4
  <1>6. ASSUME NEW u \in SUBSET s, u # s PROVE u \in G
    <2>1. <<u, s>> \in StrictSubsetOrdering(S)
      BY <1>6 DEF StrictSubsetOrdering
    <2> QED
      BY <1>5, <2>1
  <1> QED
    BY <1>6

Pick(s) == CHOOSE x \in s : TRUE

\* f adds up t over each subset of S, element by element as they are picked.
Adds(t, S, f) ==
    f = [s \in SUBSET S |-> IF s = {} THEN 0 ELSE t[Pick(s)] + f[s \ {Pick(s)}]]

Sum(t, S) == MapThenSumSet(LAMBDA p : t[p], S)

\* What is picked from a set that is not empty is in it.
LEMMA PickIn == \A s : s # {} => Pick(s) \in s
  BY DEF Pick

\* Two that add up the same agree on what both add up.
LEMMA SumsAgree ==
    ASSUME NEW t, NEW S, IsFiniteSet(S), NEW R, NEW f, NEW g, Adds(t, S, f), Adds(t, R, g)
    PROVE  \A s \in SUBSET S : s \in SUBSET R => f[s] = g[s]
  <1> DEFINE G == {s \in SUBSET S : s \in SUBSET R => f[s] = g[s]}
  <1>1. ASSUME NEW s \in SUBSET S, \A u \in SUBSET s : u # s => u \in G PROVE s \in G
    <2> SUFFICES ASSUME s \in SUBSET R PROVE f[s] = g[s]
      OBVIOUS
    <2>1. f[s] = IF s = {} THEN 0 ELSE t[Pick(s)] + f[s \ {Pick(s)}]
      BY DEF Adds
    <2>2. g[s] = IF s = {} THEN 0 ELSE t[Pick(s)] + g[s \ {Pick(s)}]
      BY DEF Adds
    <2>3. CASE s = {}
      BY <2>1, <2>2, <2>3
    <2>4. CASE s # {}
      <3>1. s \ {Pick(s)} \in SUBSET s /\ s \ {Pick(s)} # s
        BY <2>4, PickIn
      <3>2. f[s \ {Pick(s)}] = g[s \ {Pick(s)}]
        BY <1>1, <3>1
      <3> QED
        BY <2>1, <2>2, <2>4, <3>2
    <2> QED
      BY <2>3, <2>4
  <1> HIDE DEF G
  <1>2. SUBSET S \subseteq G
    BY <1>1, SubsetsInSet
  <1> QED
    BY <1>2 DEF G

\* Finite sets can be added up.
LEMMA SumExists ==
    ASSUME NEW t, NEW S, IsFiniteSet(S)
    PROVE  \E f : Adds(t, S, f)
  <1> DEFINE G == {s \in SUBSET S : \E f : Adds(t, s, f)}
             F(s) == CHOOSE f : Adds(t, s, f)
  <1>0. \A s \in G : Adds(t, s, F(s))
    OBVIOUS
  <1> HIDE DEF F
  <1>1. ASSUME NEW s \in SUBSET S, \A u \in SUBSET s : u # s => u \in G PROVE s \in G
    <2> DEFINE whole == t[Pick(s)] + F(s \ {Pick(s)})[s \ {Pick(s)}]
               h == [u \in SUBSET s |-> IF u # s THEN F(u)[u] ELSE IF s = {} THEN 0 ELSE whole]
    <2>1. ASSUME NEW u \in SUBSET s PROVE h[u] = IF u = {} THEN 0 ELSE t[Pick(u)] + h[u \ {Pick(u)}]
      <3>1. CASE u = {}
        <4>1. CASE s = {}
          BY <3>1, <4>1
        <4>2. CASE s # {}
          <5>1. Adds(t, u, F(u))
            BY <1>0, <1>1, <3>1, <4>2
          <5>2. F(u)[u] = 0
            BY <3>1, <5>1 DEF Adds
          <5> QED
            BY <3>1, <4>2, <5>2
        <4> QED
          BY <4>1, <4>2
      <3>2. CASE u # {}
        <4> DEFINE v == u \ {Pick(u)}
        <4>1. v \in SUBSET u /\ v # u /\ v # s
          BY <3>2, PickIn
        <4>2. h[v] = F(v)[v]
          BY <4>1
        <4>3. CASE u = s
          BY <3>2, <4>2, <4>3
        <4>4. CASE u # s
          <5>1. Adds(t, u, F(u)) /\ Adds(t, v, F(v))
            BY <1>0, <1>1, <4>1, <4>4
          <5>2. F(u)[u] = t[Pick(u)] + F(u)[v]
            BY <3>2, <5>1 DEF Adds
          <5>3. IsFiniteSet(v)
            BY FS_Subset
          <5>4. F(v)[v] = F(u)[v]
            BY <4>1, <5>1, <5>3, SumsAgree
          <5> QED
            BY <3>2, <4>2, <4>4, <5>2, <5>4
        <4> QED
          BY <4>3, <4>4
      <3> QED
        BY <3>1, <3>2
    <2>2. h = [u \in SUBSET s |-> h[u]]
      OBVIOUS
    <2> HIDE DEF h
    <2>3. Adds(t, s, h)
      BY <2>1, <2>2 DEF Adds
    <2> QED
      BY <2>3
  <1> HIDE DEF G
  <1>2. SUBSET S \subseteq G
    BY <1>1, SubsetsInSet
  <1> QED
    BY <1>2 DEF G

\* MapThenSumSet adds up.
LEMMA SumAdds ==
    ASSUME NEW t, NEW S, IsFiniteSet(S)
    PROVE  \E f : Adds(t, S, f) /\ Sum(t, S) = f[S]
  <1> DEFINE f == CHOOSE f : Adds(t, S, f)
  <1>1. Adds(t, S, f)
    BY SumExists
  <1>2. Sum(t, S) = f[S]
    BY DEF Sum, MapThenSumSet, MapThenFoldSet, Adds, Pick
  <1> QED
    BY <1>1, <1>2

\* A sum does not depend on the order in which it is taken.
LEMMA AnyOrder ==
    ASSUME NEW S, IsFiniteSet(S), NEW t, \A x \in S : t[x] \in Int, NEW f, Adds(t, S, f)
    PROVE  \A s \in SUBSET S : f[s] \in Int /\ \A x \in s : f[s] = t[x] + f[s \ {x}]
  <1> DEFINE G == {s \in SUBSET S : f[s] \in Int /\ \A x \in s : f[s] = t[x] + f[s \ {x}]}
  <1>1. ASSUME NEW s \in SUBSET S, \A u \in SUBSET s : u # s => u \in G PROVE s \in G
    <2>1. f[s] = IF s = {} THEN 0 ELSE t[Pick(s)] + f[s \ {Pick(s)}]
      BY DEF Adds
    <2>2. CASE s = {}
      BY <2>1, <2>2
    <2>3. CASE s # {}
      <3> DEFINE c == Pick(s)
      <3>1. c \in s /\ s \ {c} \in SUBSET s /\ s \ {c} # s
        BY <2>3, PickIn
      <3> HIDE DEF c
      <3>2. f[s] = t[c] + f[s \ {c}]
        BY <2>1, <2>3 DEF c
      <3>3. f[s \ {c}] \in Int /\ t[c] \in Int
        BY <1>1, <3>1
      <3>4. ASSUME NEW x \in s PROVE f[s] = t[x] + f[s \ {x}]
        <4>1. CASE x = c
          BY <3>2, <4>1
        <4>2. CASE x # c
          <5>1. s \ {x} \in SUBSET s /\ s \ {x} # s /\ c \in s \ {x} /\ x \in s \ {c}
            BY <3>1, <4>2
          <5>2. f[s \ {c}] = t[x] + f[(s \ {c}) \ {x}]
            BY <1>1, <3>1, <5>1
          <5>3. f[s \ {x}] = t[c] + f[(s \ {x}) \ {c}] /\ f[s \ {x}] \in Int
            BY <1>1, <5>1
          <5>4. (s \ {x}) \ {c} = (s \ {c}) \ {x}
            OBVIOUS
          <5>5. (s \ {x}) \ {c} \in SUBSET s /\ (s \ {x}) \ {c} # s
            BY <5>1
          <5>6. f[(s \ {x}) \ {c}] \in Int
            BY <1>1, <5>5
          <5>7. t[x] \in Int
            OBVIOUS
          <5>8. f[(s \ {c}) \ {x}] = f[(s \ {x}) \ {c}]
            BY <5>4
          <5> DEFINE both == f[(s \ {x}) \ {c}]
          <5>9. f[s \ {c}] = t[x] + both /\ f[s \ {x}] = t[c] + both /\ both \in Int
            BY <5>2, <5>3, <5>6, <5>8
          <5> HIDE DEF G, both
          <5> QED
            BY <3>2, <3>3, <5>7, <5>9
        <4> QED
          BY <4>1, <4>2
      <3>5. f[s] \in Int
        BY <3>2, <3>3
      <3> QED
        BY <3>4, <3>5, Zenon
    <2> QED
      BY <2>2, <2>3
  <1> HIDE DEF G
  <1>2. SUBSET S \subseteq G
    BY <1>1, SubsetsInSet
  <1> QED
    BY <1>2 DEF G

\* The sum over nothing, and over one element more.
LEMMA SumFacts ==
    ASSUME NEW S, IsFiniteSet(S), NEW t, \A x \in S : t[x] \in Int
    PROVE  /\ Sum(t, S) \in Int
           /\ S = {} => Sum(t, S) = 0
           /\ \A x \in S : Sum(t, S) = t[x] + Sum(t, S \ {x})
  <1>1. PICK f : Adds(t, S, f) /\ Sum(t, S) = f[S]
    BY SumAdds
  <1>2. f[S] \in Int /\ \A x \in S : f[S] = t[x] + f[S \ {x}]
    <2>1. \A s \in SUBSET S : f[s] \in Int /\ \A x \in s : f[s] = t[x] + f[s \ {x}]
      BY <1>1, AnyOrder
    <2> QED
      BY <2>1
  <1>3. S = {} => f[S] = 0
    BY <1>1 DEF Adds
  <1>4. ASSUME NEW x \in S PROVE Sum(t, S \ {x}) = f[S \ {x}]
    <2>1. IsFiniteSet(S \ {x})
      BY FS_RemoveElement
    <2>2. PICK g : Adds(t, S \ {x}, g) /\ Sum(t, S \ {x}) = g[S \ {x}]
      BY <2>1, SumAdds
    <2>3. g[S \ {x}] = f[S \ {x}]
      BY <1>1, <2>1, <2>2, SumsAgree
    <2> QED
      BY <2>2, <2>3
  <1> HIDE DEF Sum
  <1> QED
    BY <1>1, <1>2, <1>3, <1>4

\* A finite set of numbers has a largest one.
LEMMA MaxFacts ==
    ASSUME NEW S, IsFiniteSet(S), S # {}, S \subseteq Int
    PROVE  Max(S) \in S /\ \A y \in S : y <= Max(S)
  <1> DEFINE G == {s \in SUBSET S : s # {} => \E x \in s : \A y \in s : x >= y}
  <1>1. ASSUME NEW s \in SUBSET S, \A u \in SUBSET s : u # s => u \in G PROVE s \in G
    <2> SUFFICES ASSUME s # {} PROVE \E x \in s : \A y \in s : x >= y
      OBVIOUS
    <2>1. PICK z \in s : TRUE
      OBVIOUS
    <2>2. CASE s \ {z} = {}
      BY <2>1, <2>2
    <2>3. CASE s \ {z} # {}
      <3>1. s \ {z} \in G
        BY <1>1, <2>1
      <3>2. PICK x \in s \ {z} : \A y \in s \ {z} : x >= y
        BY <2>3, <3>1
      <3>3. CASE x >= z
        BY <3>2, <3>3
      <3>4. CASE ~(x >= z)
        BY <2>1, <3>2, <3>4
      <3> QED
        BY <3>3, <3>4
    <2> QED
      BY <2>2, <2>3
  <1> HIDE DEF G
  <1>2. SUBSET S \subseteq G
    BY <1>1, SubsetsInSet
  <1>3. \E x \in S : \A y \in S : x >= y
    BY <1>2 DEF G
  <1>4. Max(S) \in S /\ \A y \in S : Max(S) >= y
    BY <1>3 DEF Max
  <1> QED
    BY <1>4

\* A set that has 0 and with every number its successor has all numbers.
LEMMA NumbersAreInSet ==
    ASSUME NEW G, 0 \in G, \A n \in Nat : n \in G => n + 1 \in G
    PROVE  Nat \subseteq G
  <1> DEFINE T == Nat \ G
  <1> SUFFICES ASSUME T # {} PROVE FALSE
    OBVIOUS
  <1>1. \E x \in T : \A y \in T : ~(<<y, x>> \in OpToRel(<, Nat))
    BY NatLessThanWellFounded, WFMin
  <1>2. PICK x \in T : \A y \in T : ~(<<y, x>> \in OpToRel(<, Nat))
    BY <1>1
  <1>3. \A y \in Nat : y < x => <<y, x>> \in OpToRel(<, Nat)
    BY DEF OpToRel
  <1>4. \A y \in T : ~(y < x)
    BY <1>2, <1>3
  <1>5. x \in Nat /\ x # 0
    OBVIOUS
  <1>6. x - 1 \in Nat /\ x - 1 < x /\ (x - 1) + 1 = x
    BY <1>5
  <1>7. x - 1 \in G
    BY <1>4, <1>6
  <1> QED
    BY <1>6, <1>7

\* A set of naturals has a least one.
LEMMA MinFacts ==
    ASSUME NEW S, S # {}, S \subseteq Nat
    PROVE  Min(S) \in S
  <1>1. PICK x \in S : \A y \in S : ~(<<y, x>> \in OpToRel(<, Nat))
    BY NatLessThanWellFounded, WFMin
  <1>2. \A y \in Nat : y < x => <<y, x>> \in OpToRel(<, Nat)
    BY DEF OpToRel
  <1>3. \A y \in S : x <= y
    <2>1. \A y \in S : ~(y < x)
      BY <1>1, <1>2
    <2>2. x \in Nat /\ \A y \in S : y \in Nat
      OBVIOUS
    <2> QED
      BY <2>1, <2>2
  <1> QED
    BY <1>3 DEF Min

-----------------------------------------------------------------------------
(* Stacks *)

\* A listing of a finite set has each of its elements.
LEMMA ListingFacts ==
    ASSUME NEW S, IsFiniteSet(S), NEW f \in SetToSeqs(S)
    PROVE  f \in Seq(S) /\ Range(f) = S
  <1> DEFINE D == 1..Cardinality(S)
  <1>1. Cardinality(S) \in Nat
    BY FS_CardinalityType
  <1>2. f \in [D -> S] /\ \A i, j \in D : i # j => f[i] # f[j]
    BY DEF SetToSeqs
  <1>3. IsFiniteSet(D) /\ Cardinality(D) = Cardinality(S)
    BY <1>1, FS_Interval
  <1> HIDE DEF D
  <1>4. f \in Injection(D, S)
    BY <1>2 DEF Injection, IsInjective
  <1>5. f \in Surjection(D, S)
    BY <1>3, <1>4, FS_Injection
  <1>6. Range(f) = S
    BY <1>2, <1>5 DEF Surjection, Range
  <1>7. f \in Seq(S)
    BY <1>1, <1>2 DEF D
  <1> QED
    BY <1>6, <1>7

\* A stack has what is below its top, and its top.
LEMMA StackFacts ==
    ASSUME NEW S, NEW s \in Seq(S), s # <<>>
    PROVE  /\ Front(s) \in Seq(S) /\ s[Len(s)] \in S
           /\ Range(s) = Range(Front(s)) \cup {s[Len(s)]}
  <1>1. Len(s) \in Nat /\ Len(s) > 0 /\ DOMAIN s = 1..Len(s) /\ \A i \in 1..Len(s) : s[i] \in S
    OBVIOUS
  <1>2. /\ Front(s) \in Seq(S) /\ DOMAIN Front(s) = 1..(Len(s) - 1)
        /\ \A i \in 1..(Len(s) - 1) : Front(s)[i] = s[i]
    BY <1>1 DEF Front
  <1>3. \A i \in 1..Len(s) : i = Len(s) \/ i \in 1..(Len(s) - 1)
    <2>1. \A n \in Nat : \A i \in 1..n : i = n \/ i \in 1..(n - 1)
      OBVIOUS
    <2> QED
      BY <1>1, <2>1
  <1>4. \A x : x \in Range(s) <=> \E i \in 1..Len(s) : s[i] = x
    BY <1>1 DEF Range
  <1>5. \A x : x \in Range(Front(s)) <=> \E i \in 1..(Len(s) - 1) : s[i] = x
    BY <1>2 DEF Range
  <1>6. \A x \in Range(s) : x = s[Len(s)] \/ x \in Range(Front(s))
    BY <1>3, <1>4, <1>5
  <1>7. s[Len(s)] \in Range(s) /\ Len(s) \in 1..Len(s)
    BY <1>1, <1>4
  <1>8. \A x \in Range(Front(s)) : x \in Range(s)
    <2>1. \A i \in 1..(Len(s) - 1) : i \in 1..Len(s)
      BY <1>1
    <2> QED
      BY <1>4, <1>5, <2>1
  <1> QED
    BY <1>1, <1>2, <1>6, <1>7, <1>8

\* What is pushed is on the stack, with what was there.
LEMMA PushFacts ==
    ASSUME NEW S, NEW s \in Seq(S), NEW u \in Seq(S)
    PROVE  s \o u \in Seq(S) /\ Range(s \o u) = Range(s) \cup Range(u)
  <1>1. /\ Len(s) \in Nat /\ Len(u) \in Nat /\ DOMAIN s = 1..Len(s) /\ DOMAIN u = 1..Len(u)
        /\ s \o u \in Seq(S) /\ DOMAIN (s \o u) = 1..(Len(s) + Len(u))
    OBVIOUS
  <1>2. \A i \in 1..(Len(s) + Len(u)) : (s \o u)[i] = IF i <= Len(s) THEN s[i] ELSE u[i - Len(s)]
    OBVIOUS
  <1>3. \A x : x \in Range(s \o u) <=> \E i \in 1..(Len(s) + Len(u)) : (s \o u)[i] = x
    BY <1>1 DEF Range
  <1>4. ASSUME NEW x \in Range(s) PROVE x \in Range(s \o u)
    <2>1. PICK i \in 1..Len(s) : s[i] = x
      BY <1>1 DEF Range
    <2>2. i \in 1..(Len(s) + Len(u)) /\ (s \o u)[i] = x
      BY <1>1, <1>2, <2>1
    <2> QED
      BY <1>3, <2>2
  <1>5. ASSUME NEW x \in Range(u) PROVE x \in Range(s \o u)
    <2>1. PICK i \in 1..Len(u) : u[i] = x
      BY <1>1 DEF Range
    <2>2. i + Len(s) \in 1..(Len(s) + Len(u)) /\ ~(i + Len(s) <= Len(s)) /\ (i + Len(s)) - Len(s) = i
      BY <1>1
    <2>3. (s \o u)[i + Len(s)] = x
      BY <1>2, <2>1, <2>2
    <2> QED
      BY <1>3, <2>2, <2>3
  <1>6. ASSUME NEW x \in Range(s \o u) PROVE x \in Range(s) \cup Range(u)
    <2>1. PICK i \in 1..(Len(s) + Len(u)) : (s \o u)[i] = x
      BY <1>3
    <2>2. CASE i <= Len(s)
      <3>1. i \in DOMAIN s /\ s[i] = x
        BY <1>1, <1>2, <2>1, <2>2
      <3> QED
        BY <3>1 DEF Range
    <2>3. CASE ~(i <= Len(s))
      <3>1. i - Len(s) \in DOMAIN u /\ u[i - Len(s)] = x
        BY <1>1, <1>2, <2>1, <2>3
      <3> QED
        BY <3>1 DEF Range
    <2> QED
      BY <2>2, <2>3
  <1> QED
    BY <1>1, <1>4, <1>5, <1>6

-----------------------------------------------------------------------------
(* The monitor *)

\* The samples of the window are above the limit, and as many as breaches were
\* counted: all that a termination asks for while one is under way.
WindowInv ==
    /\ window \in Seq(Int) /\ \A i \in DOMAIN window : window[i] > HardLimit
    /\ IF pc \in {"term", "kill"} THEN Len(window) = BreachSamples /\ breaches = 0
       ELSE Len(window) = breaches

\* What the scan has seen or still has on its stack are descendants; the
\* workers are among them and with each pid seen its children; and the total
\* is what the pids seen have.
ScanInv ==
    pc = "scan" =>
        /\ running # {}
        /\ scan.stack \in Seq(Pids) /\ scan.seen \subseteq Pids /\ scan.table \in [Pids -> Nat]
        /\ scan.seen \cup Range(scan.stack) \subseteq Descendants
        /\ running \subseteq scan.seen \cup Range(scan.stack)
        /\ \A p \in scan.seen : Children(p) \subseteq scan.seen \cup Range(scan.stack)
        /\ scan.total = Sum(scan.table, scan.seen)

NewestInv == pc \in {"term", "kill"} => \A a \in running : a <= target

MonitorInv == MonitorTypeOK /\ rss \in [Pids -> Nat] /\ WindowInv /\ ScanInv /\ NewestInv

\* The monitor starts without samples.
LEMMA MonitorStarts == MonitorInit => MonitorInv
  <1> SUFFICES ASSUME MonitorInit PROVE MonitorInv
    OBVIOUS
  <1>1. Min(Sizes) \in Nat
    BY MinFacts, MonitorAssumption
  <1>2. rss \in [Pids -> Nat]
    BY <1>1 DEF MonitorInit
  <1>3. pc = "idle" /\ window = <<>> /\ breaches = 0
    BY DEF MonitorInit
  <1>4. MonitorTypeOK
    BY MonitorAssumption DEF MonitorInit, MonitorTypeOK
  <1>5. WindowInv /\ ScanInv /\ NewestInv
    BY <1>3 DEF WindowInv, ScanInv, NewestInv
  <1> QED
    BY <1>2, <1>4, <1>5 DEF MonitorInv

\* Descendants are those of the workers in the process table.
LEMMA SameDescendants ==
    ASSUME UNCHANGED <<parent, running>>
    PROVE  Descendants' = Descendants /\ \A p : Children(p)' = Children(p)
  BY DEF Descendants, Closed, Children

\* Processes that grow or go do not disturb the monitor: the scan has its snapshot.
LEMMA ProcessSteps ==
    ASSUME MonitorInv, NEW p \in Pids, resize(p) \/ exit(p)
    PROVE  MonitorInv'
  <1>1. UNCHANGED <<parent, running, policyVars, pc, scan, terminationVars>>
    BY DEF resize, exit
  <1>2. UNCHANGED <<parent, running, breaches, action, window, pc, scan, target, polls, outcome>>
    BY <1>1 DEF policyVars, terminationVars
  <1>3. rss' \in [Pids -> Nat] /\ alive' \subseteq Pids
    BY MonitorAssumption DEF resize, exit, MonitorInv, MonitorTypeOK
  <1>4. MonitorTypeOK' /\ WindowInv' /\ NewestInv'
    BY <1>2, <1>3 DEF MonitorInv, MonitorTypeOK, WindowInv, NewestInv
  <1>5. Descendants' = Descendants /\ \A q : Children(q)' = Children(q)
    BY <1>2, SameDescendants
  <1>6. ScanInv'
    BY <1>2, <1>5 DEF MonitorInv, ScanInv
  <1> QED
    BY <1>3, <1>4, <1>6 DEF MonitorInv

\* A scan starts with the workers on its stack.
LEMMA SampleStep == MonitorInv /\ sample => MonitorInv'
  <1> SUFFICES ASSUME MonitorInv, sample PROVE MonitorInv'
    OBVIOUS
  <1>1. /\ UNCHANGED <<parent, rss, alive, running, breaches, action, window, target, polls, outcome>>
        /\ pc = "idle" /\ pc' = "scan" /\ running # {}
    BY DEF sample, processVars, policyVars, terminationVars
  <1>2. PICK stack \in SetToSeqs(running) : scan' = [stack |-> stack, seen |-> {}, total |-> 0, table |-> rss]
    BY DEF sample
  <1>3. running \in SUBSET Pids /\ IsFiniteSet(running)
    BY PidsAssumption, FS_Subset DEF MonitorInv, MonitorTypeOK
  <1>4. stack \in Seq(running) /\ Range(stack) = running
    BY <1>3, ListingFacts
  <1>5. stack \in Seq(Pids)
    BY <1>3, <1>4
  <1>6. Descendants' = Descendants /\ \A q : Children(q)' = Children(q)
    BY <1>1, SameDescendants
  <1>7. running \subseteq Descendants
    BY <1>3 DEF Descendants, Closed
  <1>8. Sum(rss, {}) = 0
    BY FS_EmptySet, SumFacts
  <1>9. ScanInv'
    <2>1. /\ scan'.stack = stack /\ scan'.seen = {} /\ scan'.total = 0 /\ scan'.table = rss
      BY <1>2
    <2>2. Sum(scan'.table, scan'.seen) = 0
      BY <1>8, <2>1
    <2>3. rss \in [Pids -> Nat]
      BY DEF MonitorInv
    <2> HIDE DEF Sum
    <2> QED
      BY <1>1, <1>4, <1>5, <1>6, <1>7, <2>1, <2>2, <2>3 DEF ScanInv
  <1>10. MonitorTypeOK' /\ WindowInv' /\ NewestInv'
    BY <1>1 DEF MonitorInv, MonitorTypeOK, WindowInv, NewestInv
  <1> QED
    BY <1>1, <1>9, <1>10 DEF MonitorInv

\* A turn of the loop counts the pid on top, unless it was, and pushes its children.
LEMMA ScanStep == MonitorInv /\ descendant_resident_bytes => MonitorInv'
  <1> SUFFICES ASSUME MonitorInv, descendant_resident_bytes PROVE MonitorInv'
    OBVIOUS
  <1> DEFINE pid == scan.stack[Len(scan.stack)]
             rest == Front(scan.stack)
  <1>1. /\ UNCHANGED <<parent, rss, alive, running, breaches, action, window, target, polls, outcome, pc>>
        /\ pc = "scan" /\ scan.stack # <<>>
    BY DEF descendant_resident_bytes, processVars, policyVars, terminationVars
  <1>2. /\ running # {}
        /\ scan.stack \in Seq(Pids) /\ scan.seen \subseteq Pids /\ scan.table \in [Pids -> Nat]
        /\ scan.seen \cup Range(scan.stack) \subseteq Descendants
        /\ running \subseteq scan.seen \cup Range(scan.stack)
        /\ \A p \in scan.seen : Children(p) \subseteq scan.seen \cup Range(scan.stack)
        /\ scan.total = Sum(scan.table, scan.seen)
    BY <1>1 DEF MonitorInv, ScanInv
  <1>3. rest \in Seq(Pids) /\ pid \in Pids /\ Range(scan.stack) = Range(rest) \cup {pid}
    BY <1>1, <1>2, StackFacts
  <1>4. Descendants' = Descendants /\ \A q : Children(q)' = Children(q)
    BY <1>1, SameDescendants
  <1>5. \/ pid \in scan.seen /\ scan' = [scan EXCEPT !.stack = rest]
        \/ pid \notin scan.seen /\ \E children \in SetToSeqs(Children(pid)) :
                scan' = [scan EXCEPT !.stack = rest \o children, !.seen = @ \cup {pid},
                                     !.total = @ + scan.table[pid]]
    BY DEF descendant_resident_bytes
  <1> HIDE DEF pid, rest, Sum
  <1>6. ScanInv'
    <2>1. CASE pid \in scan.seen /\ scan' = [scan EXCEPT !.stack = rest]
      <3>1. scan'.stack = rest /\ scan'.seen = scan.seen /\ scan'.table = scan.table /\ scan'.total = scan.total
        BY <2>1
      <3>2. scan.seen \cup Range(rest) = scan.seen \cup Range(scan.stack)
        BY <1>3, <2>1
      <3> QED
        BY <1>1, <1>2, <1>3, <1>4, <3>1, <3>2 DEF ScanInv
    <2>2. CASE pid \notin scan.seen /\ \E children \in SetToSeqs(Children(pid)) :
                scan' = [scan EXCEPT !.stack = rest \o children, !.seen = @ \cup {pid},
                                     !.total = @ + scan.table[pid]]
      <3>1. PICK children \in SetToSeqs(Children(pid)) :
                scan' = [scan EXCEPT !.stack = rest \o children, !.seen = @ \cup {pid},
                                     !.total = @ + scan.table[pid]]
        BY <2>2
      <3>2. /\ scan'.stack = rest \o children /\ scan'.seen = scan.seen \cup {pid}
            /\ scan'.table = scan.table /\ scan'.total = scan.total + scan.table[pid]
        BY <3>1
      <3>3. Children(pid) \in SUBSET Pids /\ IsFiniteSet(Children(pid))
        BY PidsAssumption, FS_Subset DEF Children
      <3>4. children \in Seq(Children(pid)) /\ Range(children) = Children(pid)
        BY <3>3, ListingFacts
      <3>5. children \in Seq(Pids)
        BY <3>3, <3>4
      <3>6. rest \o children \in Seq(Pids) /\ Range(rest \o children) = Range(rest) \cup Children(pid)
        BY <1>3, <3>4, <3>5, PushFacts
      <3> DEFINE todo == Range(rest) \cup Children(pid)
                 seen == scan.seen \cup {pid}
      <3>7. Children(pid) \subseteq Descendants
        <4>1. pid \in Descendants
          BY <1>2, <1>3
        <4> QED
          BY <3>3, <4>1 DEF Descendants, Closed
      <3>8. seen \cup todo \subseteq Descendants /\ running \subseteq seen \cup todo
        BY <1>2, <1>3, <3>7
      <3>9. \A p \in seen : Children(p) \subseteq seen \cup todo
        BY <1>2, <1>3
      <3>10. Sum(scan.table, seen) = scan.table[pid] + Sum(scan.table, scan.seen) /\ Sum(scan.table, scan.seen) \in Int
             /\ scan.table[pid] \in Int
        <4>1. IsFiniteSet(seen) /\ IsFiniteSet(scan.seen) /\ pid \in seen /\ seen \ {pid} = scan.seen
          BY <1>2, <1>3, <2>2, PidsAssumption, FS_Subset
        <4>2. \A x \in Pids : scan.table[x] \in Int
          BY <1>2
        <4>3. seen \subseteq Pids
          BY <1>2, <1>3
        <4>4. Sum(scan.table, seen) = scan.table[pid] + Sum(scan.table, seen \ {pid})
          BY <4>1, <4>2, <4>3, SumFacts
        <4>5. Sum(scan.table, scan.seen) \in Int
          BY <1>2, <4>1, <4>2, SumFacts
        <4> QED
          BY <1>3, <4>1, <4>2, <4>4, <4>5
      <3>11. scan'.total = Sum(scan.table, seen)
        BY <1>2, <3>2, <3>10
      <3>12. seen \subseteq Pids
        BY <1>2, <1>3
      <3>13. Range(scan'.stack) = todo /\ scan'.seen = seen /\ scan'.stack \in Seq(Pids) /\ scan'.table = scan.table
        BY <3>2, <3>6
      <3> HIDE DEF todo, seen
      <3> QED
        BY <1>1, <1>2, <1>4, <3>8, <3>9, <3>11, <3>12, <3>13 DEF ScanInv
    <2> QED
      BY <1>5, <2>1, <2>2
  <1>7. MonitorTypeOK' /\ WindowInv' /\ NewestInv'
    BY <1>1 DEF MonitorInv, MonitorTypeOK, WindowInv, NewestInv
  <1> QED
    BY <1>1, <1>6, <1>7 DEF MonitorInv

\* A sample above the limit joins the window; the newest worker is signalled
\* when it is full.
LEMMA ConcludeStep == MonitorInv /\ conclude => MonitorInv'
  <1> SUFFICES ASSUME MonitorInv, conclude PROVE MonitorInv'
    OBVIOUS
  <1>1. /\ UNCHANGED <<parent, rss, alive, running, outcome>> /\ pc = "scan" /\ observe(scan.total)
        /\ window' = IF scan.total <= HardLimit THEN <<>>
                     ELSE Append(IF Len(window) = BreachSamples THEN Tail(window) ELSE window, scan.total)
        /\ IF action' = "TerminateNewest" /\ running # {}
           THEN target' = newest_attempt(running) /\ pc' = "term" /\ polls' = 0
           ELSE pc' = "idle" /\ UNCHANGED <<target, polls>>
    BY DEF conclude, processVars, Signal
  <1>2. scan.total \in Int /\ running # {}
    <2>1. /\ running # {} /\ scan.seen \subseteq Pids /\ scan.table \in [Pids -> Nat]
          /\ scan.total = Sum(scan.table, scan.seen)
      BY <1>1 DEF MonitorInv, ScanInv
    <2>s. IsFiniteSet(scan.seen)
      BY <2>1, PidsAssumption, FS_Subset
    <2>2. IsFiniteSet(scan.seen) /\ \A x \in scan.seen : scan.table[x] \in Int
      BY <2>1, <2>s
    <2> HIDE DEF Sum
    <2> QED
      BY <2>1, <2>2, SumFacts
  <1>3. /\ window \in Seq(Int) /\ \A i \in DOMAIN window : window[i] > HardLimit
        /\ Len(window) = breaches /\ breaches \in 0..(BreachSamples - 1)
    BY <1>1 DEF MonitorInv, WindowInv, MonitorTypeOK
  <1>4. HardLimit \in Nat /\ BreachSamples \in Nat \ {0} /\ GracePolls \in Nat
    BY LimitsValid, MonitorAssumption
  <1>5. running \in SUBSET Attempts /\ running \subseteq Int /\ IsFiniteSet(running)
    <2>1. running \in SUBSET Attempts
      BY DEF MonitorInv, MonitorTypeOK
    <2>2. running \in SUBSET Pids /\ running \subseteq Int
      BY <2>1, PidsAssumption
    <2>3. IsFiniteSet(running)
      BY <2>2, PidsAssumption, FS_Subset
    <2> QED
      BY <2>1, <2>2, <2>3
  <1>6. newest_attempt(running) \in running /\ \A a \in running : a <= newest_attempt(running)
    BY <1>2, <1>5, MaxFacts DEF newest_attempt
  <1>7. CASE scan.total <= HardLimit
    <2>1. /\ window' = <<>> /\ breaches' = 0 /\ action' \in {"FreezeAdmission", "Admit"} /\ pc' = "idle"
          /\ UNCHANGED <<target, polls>>
      BY <1>1, <1>2, <1>4, <1>7 DEF observe
    <2>2. MonitorTypeOK'
      BY <1>1, <1>4, <2>1 DEF MonitorInv, MonitorTypeOK
    <2>3. WindowInv' /\ ScanInv' /\ NewestInv'
      BY <2>1 DEF WindowInv, ScanInv, NewestInv
    <2> QED
      BY <1>1, <2>2, <2>3 DEF MonitorInv
  <1>8. CASE ~(scan.total <= HardLimit)
    <2>1. window' = Append(window, scan.total)
      BY <1>1, <1>3, <1>4, <1>8
    <2>2. /\ window' \in Seq(Int) /\ Len(window') = breaches + 1
          /\ \A i \in DOMAIN window' : window'[i] > HardLimit
      <3>1. /\ window' \in Seq(Int) /\ Len(window') = Len(window) + 1 /\ DOMAIN window' = 1..(Len(window) + 1)
            /\ DOMAIN window = 1..Len(window) /\ Len(window) \in Nat
            /\ window'[Len(window) + 1] = scan.total /\ \A i \in 1..Len(window) : window'[i] = window[i]
        BY <1>2, <1>3, <2>1
      <3>2. scan.total > HardLimit
        BY <1>2, <1>4, <1>8
      <3>3. ASSUME NEW i \in 1..(Len(window) + 1) PROVE window'[i] > HardLimit
        <4>1. CASE i = Len(window) + 1
          BY <3>1, <3>2, <4>1
        <4>2. CASE i # Len(window) + 1
          <5>1. i \in 1..Len(window)
            BY <3>1, <4>2
          <5> QED
            BY <1>3, <3>1, <5>1
        <4> QED
          BY <4>1, <4>2
      <3> QED
        BY <1>3, <3>1, <3>3
    <2>3. CASE breaches + 1 >= BreachSamples
      <3>1. breaches' = 0 /\ action' = "TerminateNewest"
        BY <1>1, <1>2, <1>4, <1>8, <2>3 DEF observe
      <3>2. target' = newest_attempt(running) /\ pc' = "term" /\ polls' = 0
        BY <1>1, <1>2, <3>1
      <3>3. Len(window') = BreachSamples
        BY <1>3, <1>4, <2>2, <2>3
      <3>4. MonitorTypeOK'
        <4>1. target' \in Attempts
          BY <1>5, <1>6, <3>2
        <4>2. breaches' \in 0..(BreachSamples - 1) /\ polls' \in 0..GracePolls
          BY <1>4, <3>1, <3>2
        <4> QED
          BY <1>1, <3>1, <3>2, <4>1, <4>2 DEF MonitorInv, MonitorTypeOK
      <3>5. WindowInv' /\ ScanInv' /\ NewestInv'
        BY <1>1, <1>6, <2>2, <3>1, <3>2, <3>3 DEF WindowInv, ScanInv, NewestInv
      <3> QED
        BY <1>1, <3>4, <3>5 DEF MonitorInv
    <2>4. CASE ~(breaches + 1 >= BreachSamples)
      <3>1. breaches' = breaches + 1 /\ action' = "FreezeAdmission"
        BY <1>1, <1>2, <1>4, <1>8, <2>4 DEF observe
      <3>2. pc' = "idle" /\ UNCHANGED <<target, polls>>
        BY <1>1, <3>1
      <3>3. MonitorTypeOK'
        BY <1>1, <1>3, <1>4, <2>4, <3>1, <3>2 DEF MonitorInv, MonitorTypeOK
      <3>4. WindowInv' /\ ScanInv' /\ NewestInv'
        BY <2>2, <3>1, <3>2 DEF WindowInv, ScanInv, NewestInv
      <3> QED
        BY <1>1, <3>3, <3>4 DEF MonitorInv
    <2> QED
      BY <2>3, <2>4
  <1> QED
    BY <1>7, <1>8

\* A termination that is over leaves an empty window.
LEMMA WaitStep == MonitorInv /\ wait_for_exit => MonitorInv'
  <1> SUFFICES ASSUME MonitorInv, wait_for_exit PROVE MonitorInv'
    OBVIOUS
  <1>1. GracePolls \in Nat /\ BreachSamples \in Nat \ {0}
    BY MonitorAssumption
  <1>2. pc \in {"term", "kill"} /\ breaches = 0
    BY DEF wait_for_exit, MonitorInv, WindowInv
  <1>3. ASSUME NEW result \in {"ExitedAfterTerminate", "ForcedKill", "DidNotExit"}, Report(result) PROVE MonitorInv'
    <2>1. /\ outcome' = result /\ running' = running \ {target} /\ target' = 0 /\ pc' = "idle" /\ polls' = 0
          /\ window' = <<>> /\ UNCHANGED <<parent, rss, alive, breaches, action, scan>>
      BY <1>3 DEF Report, processVars
    <2>2. MonitorTypeOK'
      BY <1>1, <2>1 DEF MonitorInv, MonitorTypeOK
    <2>3. WindowInv' /\ ScanInv' /\ NewestInv'
      BY <1>2, <2>1 DEF WindowInv, ScanInv, NewestInv
    <2> QED
      BY <2>1, <2>2, <2>3 DEF MonitorInv
  <1>4. CASE polls < GracePolls /\ polls' = polls + 1 /\ UNCHANGED <<processVars, running, policyVars, pc, scan, target, outcome>>
    <2>1. UNCHANGED <<parent, rss, alive, running, breaches, action, window, pc, scan, target, outcome>>
      BY <1>4 DEF processVars, policyVars
    <2>2. MonitorTypeOK'
      BY <1>1, <1>4, <2>1 DEF MonitorInv, MonitorTypeOK
    <2>3. WindowInv' /\ ScanInv' /\ NewestInv'
      BY <1>2, <2>1 DEF MonitorInv, WindowInv, ScanInv, NewestInv
    <2> QED
      BY <2>1, <2>2, <2>3 DEF MonitorInv
  <1>5. CASE Signal(target, "kill") /\ UNCHANGED <<processVars, running, policyVars, scan, outcome>>
    <2>1. UNCHANGED <<parent, rss, alive, running, breaches, action, window, scan, target, outcome>> /\ pc' = "kill" /\ polls' = 0
      BY <1>5 DEF processVars, policyVars, Signal
    <2>2. MonitorTypeOK'
      BY <1>1, <2>1 DEF MonitorInv, MonitorTypeOK
    <2>3. WindowInv' /\ ScanInv' /\ NewestInv'
      BY <1>2, <2>1 DEF MonitorInv, WindowInv, ScanInv, NewestInv
    <2> QED
      BY <2>1, <2>2, <2>3 DEF MonitorInv
  <1> QED
    BY <1>3, <1>4, <1>5 DEF wait_for_exit

\* A worker that is gone is taken off the list between samples only.
LEMMA ReapStep ==
    ASSUME MonitorInv, NEW a \in Attempts, reap(a)
    PROVE  MonitorInv'
  <1>1. /\ pc = "idle" /\ running' = running \ {a}
        /\ UNCHANGED <<parent, rss, alive, breaches, action, window, pc, scan, target, polls, outcome>>
    BY DEF reap, processVars, policyVars, terminationVars
  <1>2. MonitorTypeOK' /\ WindowInv' /\ ScanInv' /\ NewestInv'
    BY <1>1 DEF MonitorInv, MonitorTypeOK, WindowInv, ScanInv, NewestInv
  <1> QED
    BY <1>1, <1>2 DEF MonitorInv

\* No step breaks the monitor's invariant.
LEMMA MonitorSteps == MonitorInv /\ [MonitorNext]_monitorVars => MonitorInv'
  <1> SUFFICES ASSUME MonitorInv, [MonitorNext]_monitorVars PROVE MonitorInv'
    OBVIOUS
  <1>1. CASE UNCHANGED monitorVars
    <2>1. UNCHANGED <<parent, rss, alive, running, breaches, action, window, pc, scan, target, polls, outcome>>
      BY <1>1 DEF monitorVars, processVars, policyVars, terminationVars
    <2>2. Descendants' = Descendants /\ \A q : Children(q)' = Children(q)
      BY <2>1, SameDescendants
    <2>3. MonitorTypeOK' /\ WindowInv' /\ NewestInv'
      BY <2>1 DEF MonitorInv, MonitorTypeOK, WindowInv, NewestInv
    <2>4. ScanInv'
      BY <2>1, <2>2 DEF MonitorInv, ScanInv
    <2> QED
      BY <2>1, <2>3, <2>4 DEF MonitorInv
  <1> QED
    BY <1>1, ProcessSteps, SampleStep, ScanStep, ConcludeStep, WaitStep, ReapStep DEF MonitorNext, MonitorStep

\* What the processes and the monitor do never breaks its invariant.
THEOREM MonitorInvariant == MonitorSpec => []MonitorInv
  BY MonitorStarts, MonitorSteps, PTL DEF MonitorSpec

\* ProcessTreeMonitor and AdmissionPolicy, for any process table, cycles
\* included: a sample is the memory of the running workers and all their
\* descendants, each once, and a worker is signalled only after the required
\* number of samples in a row above the limit, and only the newest.
THEOREM SamplesStaySound == MonitorSpec => []SamplesSound
  <1>1. ASSUME MonitorInv PROVE CountedOnce
    <2> SUFFICES ASSUME pc = "scan", scan.stack = <<>>
                 PROVE  scan.total = MapThenSumSet(LAMBDA p : scan.table[p], Descendants)
      BY DEF CountedOnce
    <2>1. /\ scan.seen \subseteq Pids /\ scan.seen \cup Range(scan.stack) \subseteq Descendants
          /\ running \subseteq scan.seen \cup Range(scan.stack)
          /\ \A p \in scan.seen : Children(p) \subseteq scan.seen \cup Range(scan.stack)
          /\ scan.total = Sum(scan.table, scan.seen)
      BY <1>1 DEF MonitorInv, ScanInv
    <2>2. Range(scan.stack) = {}
      BY DEF Range
    <2>3. Closed(scan.seen) /\ scan.seen \in SUBSET Pids
      BY <2>1, <2>2 DEF Closed
    <2>4. scan.seen = Descendants
      BY <2>1, <2>3 DEF Descendants
    <2> QED
      BY <2>1, <2>4 DEF Sum
  <1>2. ASSUME MonitorInv PROVE TerminationJustified
    BY <1>2 DEF MonitorInv, WindowInv, NewestInv, TerminationJustified
  <1>3. MonitorInv => SamplesSound
    BY <1>1, <1>2 DEF SamplesSound, MonitorInv
  <1> QED
    BY <1>3, MonitorInvariant, PTL

\* terminate_attempt reports an exit only of an attempt whose process is gone,
\* whatever processes do between its looks at it.
THEOREM ReportsStayTruthful == MonitorSpec => ReportTruthful
  <1>1. ASSUME [MonitorNext]_monitorVars, outcome' # outcome, outcome' # "DidNotExit"
        PROVE  target \notin alive'
    <2>1. wait_for_exit
      BY <1>1 DEF MonitorNext, MonitorStep, monitorVars, processVars, policyVars, terminationVars,
                  resize, exit, sample, descendant_resident_bytes, conclude, reap
    <2> QED
      BY <1>1, <2>1 DEF wait_for_exit, Report, processVars
  <1> QED
    BY <1>1, PTL DEF MonitorSpec, ReportTruthful

-----------------------------------------------------------------------------
(* Requests *)

\* Sums of amounts that are the same are the same.
LEMMA SumSame ==
    ASSUME NEW S, IsFiniteSet(S), NEW t, NEW u, \A x \in S : t[x] \in Int /\ t[x] = u[x]
    PROVE  Sum(t, S) = Sum(u, S)
  <1> DEFINE G == {s \in SUBSET S : Sum(t, s) = Sum(u, s)}
  <1> HIDE DEF Sum
  <1>1. ASSUME NEW s \in SUBSET S, \A r \in SUBSET s : r # s => r \in G PROVE s \in G
    <2>1. IsFiniteSet(s) /\ (\A x \in s : t[x] \in Int) /\ (\A x \in s : u[x] \in Int)
      BY FS_Subset
    <2>2. CASE s = {}
      BY <2>1, <2>2, SumFacts
    <2>3. CASE s # {}
      <3>1. PICK x \in s : TRUE
        BY <2>3
      <3>2. s \ {x} \in G
        BY <1>1, <3>1
      <3>3. Sum(t, s) = t[x] + Sum(t, s \ {x})
        BY <2>1, SumFacts
      <3>4. Sum(u, s) = u[x] + Sum(u, s \ {x})
        BY <2>1, SumFacts
      <3> QED
        BY <3>2, <3>3, <3>4
    <2> QED
      BY <2>2, <2>3
  <1> HIDE DEF G
  <1>2. SUBSET S \subseteq G
    BY <1>1, SubsetsInSet
  <1> QED
    BY <1>2 DEF G

\* A part of what is not negative is not more.
LEMMA SumOfPart ==
    ASSUME NEW S, IsFiniteSet(S), NEW t, \A x \in S : t[x] \in Nat
    PROVE  \A r \in SUBSET S : Sum(t, r) \in Nat /\ Sum(t, r) <= Sum(t, S)
  <1> DEFINE G == {s \in SUBSET S : \A r \in SUBSET s : Sum(t, r) \in Nat /\ Sum(t, r) <= Sum(t, s)}
  <1> HIDE DEF Sum
  <1>1. ASSUME NEW s \in SUBSET S, \A r \in SUBSET s : r # s => r \in G PROVE s \in G
    <2>1. IsFiniteSet(s) /\ (\A x \in s : t[x] \in Int)
      BY FS_Subset
    <2>2. Sum(t, s) \in Nat
      <3>1. CASE s = {}
        BY <2>1, <3>1, SumFacts
      <3>2. CASE s # {}
        <4>1. PICK x \in s : TRUE
          BY <3>2
        <4>2. s \ {x} \in G
          BY <1>1, <4>1
        <4>3. Sum(t, s \ {x}) \in Nat
          BY <4>2
        <4>4. Sum(t, s) = t[x] + Sum(t, s \ {x}) /\ t[x] \in Nat
          BY <2>1, SumFacts
        <4> QED
          BY <4>3, <4>4
      <3> QED
        BY <3>1, <3>2
    <2>3. ASSUME NEW r \in SUBSET s, r # s PROVE Sum(t, r) \in Nat /\ Sum(t, r) <= Sum(t, s)
      <3>1. PICK x \in s : x \notin r
        BY <2>3
      <3>2. s \ {x} \in G /\ r \in SUBSET (s \ {x})
        BY <1>1, <3>1
      <3>3. Sum(t, r) \in Nat /\ Sum(t, s \ {x}) \in Nat /\ Sum(t, r) <= Sum(t, s \ {x})
        BY <3>2
      <3>4. Sum(t, s) = t[x] + Sum(t, s \ {x}) /\ t[x] \in Nat
        BY <2>1, SumFacts
      <3> QED
        BY <3>3, <3>4
    <2> QED
      BY <2>2, <2>3
  <1> HIDE DEF G
  <1>2. SUBSET S \subseteq G
    BY <1>1, SubsetsInSet
  <1> QED
    BY <1>2 DEF G

\* The total of a field is a sum.
LEMMA TotalIsSum == \A S, field : Total(S, field) = Sum([j \in Running |-> reserved[j][field]], S)
  BY DEF Total, FoldFunctionOnSet, Sum, MapThenSumSet, MapThenFoldSet

PeakOK == peak \in [Jobs -> Peaks \cup {-1}]

\* A calibrated reservation is a valid request, and covers the observed peak.
LEMMA CalibratedFacts ==
    ASSUME PeakOK, NEW j \in Jobs
    PROVE  /\ calibrated_reservation(j) \in Resources /\ validate_request(calibrated_reservation(j))
           /\ calibrated_reservation(j).ram >= peak[j] /\ peak[j] \in Int
  <1>1. Static[j] \in Resources /\ validate_request(Static[j])
    BY RequestsValid
  <1>2. peak[j] = -1 \/ peak[j] \in Nat
    BY JobsAssumption DEF PeakOK
  <1>3. peak[j] \in Nat => CalibratedRam(peak[j]) \in Nat /\ CalibratedRam(peak[j]) >= peak[j]
    BY DEF CalibratedRam
  <1> DEFINE ram == IF peak[j] = -1 THEN Static[j].ram
                    ELSE IF CalibratedRam(peak[j]) > Static[j].ram THEN CalibratedRam(peak[j]) ELSE Static[j].ram
  <1>4. calibrated_reservation(j) = [Static[j] EXCEPT !.ram = ram]
    BY DEF calibrated_reservation
  <1>5. Static[j].ram \in Nat
    BY <1>1 DEF Resources
  <1>6. ram \in Nat /\ ram >= peak[j]
    BY <1>2, <1>3, <1>5
  <1> HIDE DEF ram
  <1> QED
    BY <1>1, <1>2, <1>4, <1>6 DEF Resources, validate_request, validate_gpu_resources

\* What a fitting request leaves is a valid capacity.
LEMMA ReserveFacts ==
    ASSUME NEW c \in Resources, NEW r \in Resources, validate_gpu_resources(c), fits(c, r)
    PROVE  /\ checked_reserve(c, r) \in Resources /\ validate_gpu_resources(checked_reserve(c, r))
           /\ checked_reserve(c, r).cpu + r.cpu = c.cpu /\ checked_reserve(c, r).ram + r.ram = c.ram
           /\ checked_reserve(c, r).gpu + r.gpu = c.gpu /\ checked_reserve(c, r).vram <= c.vram
  BY DEF Resources, validate_gpu_resources, fits, checked_reserve

-----------------------------------------------------------------------------
(* A decision *)

\* Of finitely many there is a first, by one number and then by another.
LEMMA LeastExists ==
    ASSUME NEW S, IsFiniteSet(S), S # {}, NEW f, NEW g, \A x \in S : f[x] \in Int /\ g[x] \in Int
    PROVE  \E x \in S : \A y \in S : f[x] < f[y] \/ (f[x] = f[y] /\ g[x] <= g[y])
  <1> DEFINE G == {s \in SUBSET S : s # {} => \E x \in s : \A y \in s : f[x] < f[y] \/ (f[x] = f[y] /\ g[x] <= g[y])}
  <1>1. ASSUME NEW s \in SUBSET S, \A u \in SUBSET s : u # s => u \in G PROVE s \in G
    <2> SUFFICES ASSUME s # {} PROVE \E x \in s : \A y \in s : f[x] < f[y] \/ (f[x] = f[y] /\ g[x] <= g[y])
      OBVIOUS
    <2>1. PICK z \in s : TRUE
      OBVIOUS
    <2>2. CASE s \ {z} = {}
      BY <2>1, <2>2
    <2>3. CASE s \ {z} # {}
      <3>1. s \ {z} \in G
        BY <1>1, <2>1
      <3>2. PICK x \in s \ {z} : \A y \in s \ {z} : f[x] < f[y] \/ (f[x] = f[y] /\ g[x] <= g[y])
        BY <2>3, <3>1
      <3>3. CASE f[x] < f[z] \/ (f[x] = f[z] /\ g[x] <= g[z])
        BY <3>2, <3>3
      <3>4. CASE ~(f[x] < f[z] \/ (f[x] = f[z] /\ g[x] <= g[z]))
        <4>1. f[z] < f[x] \/ (f[z] = f[x] /\ g[z] <= g[x])
          BY <3>4
        <4>2. \A y \in s : f[z] < f[y] \/ (f[z] = f[y] /\ g[z] <= g[y])
          BY <3>2, <4>1
        <4> QED
          BY <4>2
      <3> QED
        BY <3>3, <3>4
    <2> QED
      BY <2>2, <2>3
  <1> HIDE DEF G
  <1>2. SUBSET S \subseteq G
    BY <1>1, SubsetsInSet
  <1> QED
    BY <1>2 DEF G

PlaceOK == waiting \subseteq Jobs /\ \A j \in waiting : place[j] \in Nat

\* The score of a request that fits is a number.
LEMMA ScoreIsNumber ==
    ASSUME NEW c \in Resources, NEW r \in Resources
    PROVE  fit_score(r, c) \in Int
  <1>1. \A x \in Int : \A y \in Nat : normalized_leftover(x, y) \in Int
    BY AgingAssumption DEF normalized_leftover
  <1>2. /\ c.cpu \in Nat /\ c.ram \in Nat /\ c.gpu \in Nat /\ c.vram \in Nat
        /\ c.cpu - r.cpu \in Int /\ c.ram - r.ram \in Int /\ c.gpu - r.gpu \in Int /\ c.vram - r.vram \in Int
    BY DEF Resources
  <1>3. /\ normalized_leftover(c.ram - r.ram, c.ram) \in Int /\ normalized_leftover(c.cpu - r.cpu, c.cpu) \in Int
        /\ normalized_leftover(c.gpu - r.gpu, c.gpu) \in Int /\ normalized_leftover(c.vram - r.vram, c.vram) \in Int
    BY <1>1, <1>2
  <1> QED
    BY <1>3 DEF fit_score

\* compare_fit finds a candidate that fits when there is one.
LEMMA BestFitFacts ==
    ASSUME PeakOK, PlaceOK, NEW eligible \in SUBSET waiting, NEW c \in Resources,
           \E j \in eligible : fits(c, calibrated_reservation(j))
    PROVE  BestFit(eligible, c) \in eligible /\ fits(c, calibrated_reservation(BestFit(eligible, c)))
  <1> DEFINE S == {j \in eligible : fits(c, calibrated_reservation(j))}
             f == [j \in Jobs |-> fit_score(calibrated_reservation(j), c)]
             Best(j) == /\ fits(c, calibrated_reservation(j))
                        /\ \A k \in eligible : fits(c, calibrated_reservation(k)) =>
                            LET sj == fit_score(calibrated_reservation(j), c)
                                sk == fit_score(calibrated_reservation(k), c)
                            IN  sj < sk \/ (sj = sk /\ place[j] <= place[k])
  <1>1. eligible \in SUBSET Jobs /\ S \in SUBSET Jobs /\ S # {}
    BY DEF PlaceOK
  <1>2. IsFiniteSet(S)
    BY <1>1, JobsAssumption, FS_Subset
  <1>3. \A j \in Jobs : f[j] = fit_score(calibrated_reservation(j), c) /\ f[j] \in Int
    BY CalibratedFacts, ScoreIsNumber
  <1>4. \A j \in S : f[j] \in Int /\ place[j] \in Int
    BY <1>1, <1>3 DEF PlaceOK
  <1> HIDE DEF f
  <1>5. \E x \in S : \A y \in S : f[x] < f[y] \/ (f[x] = f[y] /\ place[x] <= place[y])
    <2> HIDE DEF S
    <2> QED
      BY <1>1, <1>2, <1>4, LeastExists
  <1>6. \E j \in eligible : Best(j)
    BY <1>1, <1>3, <1>5
  <1>7. BestFit(eligible, c) = CHOOSE j \in eligible : Best(j)
    BY DEF BestFit
  <1> HIDE DEF Best
  <1>8. BestFit(eligible, c) \in eligible /\ Best(BestFit(eligible, c))
    BY <1>6, <1>7
  <1> QED
    BY <1>8 DEF Best

Turns(start, n, f) == f = [k \in 0..n |-> IF k = 0 THEN start ELSE pack_turn[f[k - 1]]]

\* A loop can be followed for any number of turns.
LEMMA TurnsExist ==
    ASSUME NEW start, NEW n \in Nat
    PROVE  \E f : Turns(start, n, f)
  <1> DEFINE G == {k \in Nat : \E f : Turns(start, k, f)}
  <1>1. 0 \in G
    <2> DEFINE f == [k \in 0..0 |-> start]
    <2>1. f = [k \in 0..0 |-> IF k = 0 THEN start ELSE pack_turn[f[k - 1]]]
      OBVIOUS
    <2> QED
      BY <2>1 DEF Turns
  <1>2. ASSUME NEW m \in Nat, m \in G PROVE m + 1 \in G
    <2>1. PICK f : Turns(start, m, f)
      BY <1>2
    <2> DEFINE h == [k \in 0..(m + 1) |-> IF k = m + 1 THEN pack_turn[f[m]] ELSE f[k]]
    <2>2. ASSUME NEW k \in 0..(m + 1) PROVE h[k] = IF k = 0 THEN start ELSE pack_turn[h[k - 1]]
      <3>1. CASE k = m + 1
        <4>1. m \in 0..(m + 1) /\ m # m + 1 /\ k - 1 = m /\ k # 0
          BY <3>1
        <4>2. h[k] = pack_turn[f[m]] /\ h[m] = f[m]
          BY <3>1, <4>1
        <4> QED
          BY <4>1, <4>2
      <3>2. CASE k # m + 1
        <4>1. k \in 0..m
          BY <3>2
        <4>2. f[k] = IF k = 0 THEN start ELSE pack_turn[f[k - 1]]
          BY <2>1, <4>1 DEF Turns
        <4>3. k # 0 => k - 1 \in 0..(m + 1) /\ k - 1 # m + 1
          BY <4>1
        <4> QED
          BY <3>2, <4>1, <4>2, <4>3
      <3> QED
        BY <3>1, <3>2
    <2>3. h = [k \in 0..(m + 1) |-> h[k]]
      OBVIOUS
    <2> HIDE DEF h
    <2>4. Turns(start, m + 1, h)
      BY <2>2, <2>3 DEF Turns
    <2> QED
      BY <2>4
  <1> HIDE DEF G
  <1>3. n \in G
    BY <1>1, <1>2, NumbersAreInSet
  <1> QED
    BY <1>3 DEF G

Demand(field) == [j \in Jobs |-> calibrated_reservation(j)[field]]

\* What a part of a decision owes to what was available: what it selected and
\* what remains make up the whole, what is not selected is still a candidate,
\* and no request has more device memory than there was.
Owes(available, d) ==
    /\ d \in Packings /\ d.selected \subseteq waiting /\ d.eligible = waiting \ d.selected
    /\ d.remaining \in Resources /\ validate_gpu_resources(d.remaining) /\ d.remaining.vram <= available.vram
    /\ d.remaining.cpu + Sum(Demand("cpu"), d.selected) = available.cpu
    /\ d.remaining.ram + Sum(Demand("ram"), d.selected) = available.ram
    /\ d.remaining.gpu + Sum(Demand("gpu"), d.selected) = available.gpu
    /\ \A j \in d.selected : calibrated_reservation(j).vram <= available.vram

With(d, j) ==
    [eligible |-> d.eligible \ {j}, selected |-> d.selected \cup {j},
     remaining |-> checked_reserve(d.remaining, calibrated_reservation(j))]

\* Selecting a candidate that fits keeps the account.
LEMMA TakeJob ==
    ASSUME PeakOK, PlaceOK, NEW available \in Resources, NEW d, Owes(available, d),
           NEW j \in d.eligible, fits(d.remaining, calibrated_reservation(j))
    PROVE  Owes(available, With(d, j))
  <1> DEFINE r == calibrated_reservation(j)
             e == With(d, j)
  <1>1. /\ j \in waiting /\ j \in Jobs /\ j \notin d.selected /\ d.selected \subseteq Jobs /\ d.eligible \subseteq Jobs
        /\ d.remaining \in Resources /\ validate_gpu_resources(d.remaining)
    BY DEF Owes, PlaceOK
  <1>2. r \in Resources
    BY <1>1, CalibratedFacts
  <1>3. /\ e.eligible = d.eligible \ {j} /\ e.selected = d.selected \cup {j} /\ e.remaining = checked_reserve(d.remaining, r)
    BY DEF With
  <1>4. /\ e.remaining \in Resources /\ validate_gpu_resources(e.remaining)
        /\ e.remaining.cpu + r.cpu = d.remaining.cpu /\ e.remaining.ram + r.ram = d.remaining.ram
        /\ e.remaining.gpu + r.gpu = d.remaining.gpu /\ e.remaining.vram <= d.remaining.vram
    BY <1>1, <1>2, <1>3, ReserveFacts
  <1>5. e \in Packings
    <2>1. e.remaining \in [cpu : Int, ram : Int, gpu : Int, vram : Int]
      BY <1>4 DEF Resources
    <2> QED
      BY <1>1, <1>3, <2>1 DEF With, Packings
  <1>6. e.selected \subseteq waiting /\ e.eligible = waiting \ e.selected
    BY <1>1, <1>3 DEF Owes
  <1>7. IsFiniteSet(e.selected) /\ IsFiniteSet(d.selected)
    BY <1>1, <1>3, JobsAssumption, FS_Subset
  <1>8. ASSUME NEW field \in {"cpu", "ram", "gpu"}
        PROVE  /\ Sum(Demand(field), e.selected) = r[field] + Sum(Demand(field), d.selected)
               /\ Sum(Demand(field), d.selected) \in Int /\ r[field] \in Int
    <2>1. \A x \in Jobs : Demand(field)[x] = calibrated_reservation(x)[field]
      BY DEF Demand
    <2>2. \A x \in Jobs : calibrated_reservation(x)[field] \in Int
      BY CalibratedFacts DEF Resources
    <2>3. \A x \in Jobs : Demand(field)[x] \in Int
      BY <2>1, <2>2
    <2>4. e.selected \ {j} = d.selected /\ j \in e.selected /\ e.selected \subseteq Jobs
      BY <1>1, <1>3
    <2> HIDE DEF Sum, e, r
    <2>5. Sum(Demand(field), e.selected) = Demand(field)[j] + Sum(Demand(field), e.selected \ {j})
      BY <1>7, <2>3, <2>4, SumFacts
    <2>6. Sum(Demand(field), d.selected) \in Int
      BY <1>1, <1>7, <2>3, SumFacts
    <2> QED
      BY <1>1, <2>1, <2>2, <2>4, <2>5, <2>6 DEF r
  <1>9. /\ d.remaining.cpu \in Int /\ d.remaining.ram \in Int /\ d.remaining.gpu \in Int /\ d.remaining.vram \in Int
        /\ e.remaining.cpu \in Int /\ e.remaining.ram \in Int /\ e.remaining.gpu \in Int /\ e.remaining.vram \in Int
        /\ available.vram \in Int /\ r.vram \in Int /\ r.cpu \in Int /\ r.ram \in Int /\ r.gpu \in Int
    BY <1>1, <1>2, <1>4 DEF Resources
  <1> HIDE DEF Sum, e, r
  <1>10. /\ e.remaining.cpu + Sum(Demand("cpu"), e.selected) = available.cpu
         /\ e.remaining.ram + Sum(Demand("ram"), e.selected) = available.ram
         /\ e.remaining.gpu + Sum(Demand("gpu"), e.selected) = available.gpu
    <2>1. d.remaining.cpu + Sum(Demand("cpu"), d.selected) = available.cpu
      BY DEF Owes
    <2>2. d.remaining.ram + Sum(Demand("ram"), d.selected) = available.ram
      BY DEF Owes
    <2>3. d.remaining.gpu + Sum(Demand("gpu"), d.selected) = available.gpu
      BY DEF Owes
    <2>4. e.remaining.cpu + Sum(Demand("cpu"), e.selected) = available.cpu
      <3>1. Sum(Demand("cpu"), e.selected) = r["cpu"] + Sum(Demand("cpu"), d.selected) /\ Sum(Demand("cpu"), d.selected) \in Int
        BY <1>8
      <3> QED
        BY <1>4, <1>9, <2>1, <3>1
    <2>5. e.remaining.ram + Sum(Demand("ram"), e.selected) = available.ram
      <3>1. Sum(Demand("ram"), e.selected) = r["ram"] + Sum(Demand("ram"), d.selected) /\ Sum(Demand("ram"), d.selected) \in Int
        BY <1>8
      <3> QED
        BY <1>4, <1>9, <2>2, <3>1
    <2>6. e.remaining.gpu + Sum(Demand("gpu"), e.selected) = available.gpu
      <3>1. Sum(Demand("gpu"), e.selected) = r["gpu"] + Sum(Demand("gpu"), d.selected) /\ Sum(Demand("gpu"), d.selected) \in Int
        BY <1>8
      <3> QED
        BY <1>4, <1>9, <2>3, <3>1
    <2> QED
      BY <2>4, <2>5, <2>6
  <1>11. d.remaining.vram <= available.vram /\ r.vram <= d.remaining.vram
    BY DEF Owes, fits, r
  <1>12. e.remaining.vram <= available.vram /\ r.vram <= available.vram
    BY <1>4, <1>9, <1>11
  <1>13. \A x \in e.selected : calibrated_reservation(x).vram <= available.vram
    BY <1>3, <1>12 DEF Owes, r
  <1> QED
    BY <1>4, <1>5, <1>6, <1>10, <1>12, <1>13 DEF Owes, e

NoneFits(d) == \A j \in d.eligible : ~fits(d.remaining, calibrated_reservation(j))

\* A turn of the loop keeps the account; it selects one more or none fits.
LEMMA TurnFacts ==
    ASSUME PeakOK, PlaceOK, NEW available \in Resources, NEW d, Owes(available, d)
    PROVE  /\ Owes(available, pack_turn[d])
           /\ NoneFits(d) => pack_turn[d] = d
           /\ ~NoneFits(d) => Cardinality(pack_turn[d].eligible) = Cardinality(d.eligible) - 1
  <1>1. d \in Packings /\ d.eligible \in SUBSET waiting /\ d.remaining \in Resources
    BY DEF Owes
  <1>2. CASE NoneFits(d)
    <2>1. pack_turn[d] = d
      BY <1>1, <1>2 DEF pack_turn, NoneFits
    <2> QED
      BY <1>2, <2>1
  <1>3. CASE ~NoneFits(d)
    <2> DEFINE best == BestFit(d.eligible, d.remaining)
    <2>1. \E j \in d.eligible : fits(d.remaining, calibrated_reservation(j))
      BY <1>3 DEF NoneFits
    <2>2. pack_turn[d] = With(d, best)
      BY <1>1, <2>1 DEF pack_turn, With
    <2>3. best \in d.eligible /\ fits(d.remaining, calibrated_reservation(best))
      BY <1>1, <2>1, BestFitFacts
    <2> HIDE DEF best
    <2>4. Owes(available, With(d, best))
      BY <2>3, TakeJob
    <2>5. With(d, best).eligible = d.eligible \ {best}
      BY DEF With
    <2>6. d.eligible \in SUBSET Jobs
      BY <1>1 DEF PlaceOK
    <2>7. IsFiniteSet(d.eligible)
      BY <2>6, JobsAssumption, FS_Subset
    <2>8. Cardinality(d.eligible \ {best}) = Cardinality(d.eligible) - 1
      BY <2>3, <2>7, FS_RemoveElement
    <2> QED
      BY <1>3, <2>2, <2>4, <2>5, <2>8
  <1> QED
    BY <1>2, <1>3

\* The loop of decide: the account is kept, and in the end no candidate fits.
LEMMA PackFacts ==
    ASSUME PeakOK, PlaceOK, NEW available \in Resources, NEW E, NEW S, NEW c,
           Owes(available, [eligible |-> E, selected |-> S, remaining |-> c])
    PROVE  \E d : /\ Owes(available, d) /\ NoneFits(d)
                  /\ pack(E, c, S) = [selected |-> d.selected, remaining |-> d.remaining, reserved_for |-> 0]
  <1> DEFINE begin == [eligible |-> E, selected |-> S, remaining |-> c]
             N == Cardinality(E)
             f == CHOOSE f : Turns(begin, N, f)
  <1>1. E \in SUBSET Jobs
    BY DEF Owes, PlaceOK
  <1>2. IsFiniteSet(E)
    BY <1>1, JobsAssumption, FS_Subset
  <1>3. N \in Nat
    BY <1>2, FS_CardinalityType
  <1>4. Turns(begin, N, f)
    BY <1>3, TurnsExist
  <1>5. pack(E, c, S) = [selected |-> f[N].selected, remaining |-> f[N].remaining, reserved_for |-> 0]
    BY DEF pack, Turns
  <1>6. begin.eligible = E
    OBVIOUS
  <1> HIDE DEF f, begin
  <1> DEFINE G == {k \in Nat : k <= N => /\ Owes(available, f[k])
                                         /\ Cardinality(f[k].eligible) = N - k \/ NoneFits(f[k])}
  <1>7. 0 \in G
    <2>1. f[0] = begin
      BY <1>3, <1>4 DEF Turns
    <2>2. Owes(available, begin)
      BY DEF begin
    <2>3. Cardinality(f[0].eligible) = N - 0
      BY <1>3, <1>6, <2>1
    <2> QED
      BY <2>1, <2>2, <2>3
  <1>8. ASSUME NEW k \in Nat, k \in G PROVE k + 1 \in G
    <2> SUFFICES ASSUME k + 1 <= N
                 PROVE  /\ Owes(available, f[k + 1])
                        /\ Cardinality(f[k + 1].eligible) = N - (k + 1) \/ NoneFits(f[k + 1])
      OBVIOUS
    <2>1. k <= N /\ k + 1 \in 0..N /\ k + 1 # 0 /\ (k + 1) - 1 = k
      BY <1>3
    <2>2. f[k + 1] = pack_turn[f[k]]
      BY <1>4, <2>1 DEF Turns
    <2>3. Owes(available, f[k]) /\ (Cardinality(f[k].eligible) = N - k \/ NoneFits(f[k]))
      BY <1>8, <2>1
    <2>4. /\ Owes(available, pack_turn[f[k]])
          /\ NoneFits(f[k]) => pack_turn[f[k]] = f[k]
          /\ ~NoneFits(f[k]) => Cardinality(pack_turn[f[k]].eligible) = Cardinality(f[k].eligible) - 1
      BY <2>3, TurnFacts
    <2>5. CASE NoneFits(f[k])
      BY <2>2, <2>4, <2>5
    <2>6. CASE ~NoneFits(f[k])
      <3>1. Cardinality(f[k + 1].eligible) = (N - k) - 1
        BY <2>2, <2>3, <2>4, <2>6
      <3>2. (N - k) - 1 = N - (k + 1)
        BY <1>3
      <3> QED
        BY <2>2, <2>4, <3>1, <3>2
    <2> QED
      BY <2>5, <2>6
  <1> HIDE DEF G
  <1>9. N \in G
    BY <1>3, <1>7, <1>8, NumbersAreInSet
  <1>10. Owes(available, f[N]) /\ (Cardinality(f[N].eligible) = N - N \/ NoneFits(f[N]))
    BY <1>3, <1>9 DEF G
  <1>11. NoneFits(f[N])
    <2> SUFFICES ASSUME Cardinality(f[N].eligible) = 0 PROVE NoneFits(f[N])
      BY <1>3, <1>10
    <2>1. f[N].eligible \in SUBSET Jobs
      BY <1>10 DEF Owes, PlaceOK
    <2>2. IsFiniteSet(f[N].eligible)
      BY <2>1, JobsAssumption, FS_Subset
    <2>3. f[N].eligible = {}
      BY <2>2, FS_EmptySet
    <2> QED
      BY <2>3 DEF NoneFits
  <1> QED
    BY <1>5, <1>10, <1>11

\* The first of the aged jobs is one.
LEMMA FirstAgedFacts ==
    ASSUME PeakOK, PlaceOK, \E j \in waiting : IsAged(j)
    PROVE  FirstAged \in waiting /\ IsAged(FirstAged)
  <1> DEFINE S == {j \in waiting : IsAged(j)}
             First(j) == IsAged(j) /\ \A k \in waiting : IsAged(k) => place[j] <= place[k]
  <1>1. S \in SUBSET Jobs /\ S # {}
    BY DEF PlaceOK
  <1>2. IsFiniteSet(S)
    BY <1>1, JobsAssumption, FS_Subset
  <1>3. \A j \in S : place[j] \in Int
    BY DEF PlaceOK
  <1>4. \E x \in S : \A y \in S : place[x] < place[y] \/ (place[x] = place[y] /\ place[x] <= place[y])
    <2> HIDE DEF S
    <2> QED
      BY <1>1, <1>2, <1>3, LeastExists
  <1>5. \E j \in waiting : First(j)
    <2>1. PICK x \in S : \A y \in S : place[x] < place[y] \/ (place[x] = place[y] /\ place[x] <= place[y])
      BY <1>4
    <2>2. \A k \in waiting : IsAged(k) => place[x] <= place[k]
      BY <1>3, <2>1
    <2> QED
      BY <2>1, <2>2
  <1>6. FirstAged = CHOOSE j \in waiting : First(j)
    BY DEF FirstAged
  <1> HIDE DEF First
  <1>7. FirstAged \in waiting /\ First(FirstAged)
    BY <1>5, <1>6
  <1> QED
    BY <1>7 DEF First

\* decide: what it selects and what it leaves make up what was available, and
\* it leaves out only what no longer fits, or keeps everything for an aged job.
LEMMA DecideFacts ==
    ASSUME PeakOK, PlaceOK, NEW available \in Resources, validate_gpu_resources(available)
    PROVE  \E d : /\ Owes(available, d)
                  /\ Decide(available).selected = d.selected /\ Decide(available).remaining = d.remaining
                  /\ \/ Decide(available).reserved_for = 0 /\ NoneFits(d)
                     \/ /\ Decide(available).reserved_for \in waiting /\ Decide(available).selected = {}
                        /\ IsAged(Decide(available).reserved_for)
                        /\ ~fits(available, calibrated_reservation(Decide(available).reserved_for))
  <1> DEFINE begin == [eligible |-> waiting, selected |-> {}, remaining |-> available]
  <1>1. Owes(available, begin)
    <2>1. begin.eligible = waiting /\ begin.selected = {} /\ begin.remaining = available
      OBVIOUS
    <2>2. begin \in Packings
      BY DEF Packings, PlaceOK, Resources
    <2>3. ASSUME NEW field PROVE Sum(Demand(field), {}) = 0
      BY FS_EmptySet, SumFacts
    <2>4. available.cpu \in Nat /\ available.ram \in Nat /\ available.gpu \in Nat /\ available.vram \in Nat
      BY DEF Resources
    <2> HIDE DEF begin, Sum
    <2> QED
      BY <2>1, <2>2, <2>3, <2>4 DEF Owes
  <1>2. CASE \A j \in waiting : ~IsAged(j)
    <2>1. Decide(available) = pack(waiting, available, {})
      BY <1>2 DEF Decide
    <2>2. PICK d : /\ Owes(available, d) /\ NoneFits(d)
                   /\ pack(waiting, available, {}) = [selected |-> d.selected, remaining |-> d.remaining, reserved_for |-> 0]
      BY <1>1, PackFacts
    <2> QED
      BY <2>1, <2>2
  <1>3. CASE \E j \in waiting : IsAged(j)
    <2> DEFINE aged == FirstAged
    <2>1. aged \in waiting /\ IsAged(aged)
      BY <1>3, FirstAgedFacts
    <2>2. CASE ~fits(available, calibrated_reservation(aged))
      <3>1. Decide(available) = [selected |-> {}, remaining |-> available, reserved_for |-> aged]
        BY <1>3, <2>2 DEF Decide
      <3>2. begin.selected = {} /\ begin.remaining = available
        OBVIOUS
      <3> HIDE DEF begin, aged
      <3> QED
        BY <1>1, <2>1, <2>2, <3>1, <3>2
    <2>3. CASE fits(available, calibrated_reservation(aged))
      <3> DEFINE c == checked_reserve(available, calibrated_reservation(aged))
      <3>1. Decide(available) = pack(waiting \ {aged}, c, {aged})
        BY <1>3, <2>3 DEF Decide
      <3>2. With(begin, aged) = [eligible |-> waiting \ {aged}, selected |-> {aged}, remaining |-> c]
        BY DEF With
      <3>3. Owes(available, With(begin, aged))
        <4>1. begin.eligible = waiting /\ begin.remaining = available
          OBVIOUS
        <4> HIDE DEF begin, aged
        <4> QED
          BY <1>1, <2>1, <2>3, <4>1, TakeJob
      <3>4. Owes(available, [eligible |-> waiting \ {aged}, selected |-> {aged}, remaining |-> c])
        BY <3>2, <3>3
      <3> HIDE DEF aged, c
      <3>5. PICK d : /\ Owes(available, d) /\ NoneFits(d)
                     /\ pack(waiting \ {aged}, c, {aged}) = [selected |-> d.selected, remaining |-> d.remaining, reserved_for |-> 0]
        BY <3>4, PackFacts
      <3> QED
        BY <3>1, <3>5
    <2> QED
      BY <2>2, <2>3
  <1> QED
    BY <1>2, <1>3

-----------------------------------------------------------------------------
(* The scheduler *)

Fields == {"cpu", "ram", "gpu"}

\* What is taken from two disjoint sets adds up.
LEMMA SumOfBoth ==
    ASSUME NEW R, NEW S, IsFiniteSet(R), IsFiniteSet(S), R \cap S = {}, NEW t, \A x \in R \cup S : t[x] \in Int
    PROVE  Sum(t, R \cup S) = Sum(t, R) + Sum(t, S)
  <1> DEFINE G == {s \in SUBSET S : Sum(t, R \cup s) = Sum(t, R) + Sum(t, s)}
  <1> HIDE DEF Sum
  <1>0. Sum(t, R) \in Int
    BY SumFacts
  <1>1. ASSUME NEW s \in SUBSET S, \A u \in SUBSET s : u # s => u \in G PROVE s \in G
    <2>1. IsFiniteSet(s) /\ (\A x \in s : t[x] \in Int) /\ (\A x \in R \cup s : t[x] \in Int)
      BY FS_Subset
    <2>2. IsFiniteSet(R \cup s)
      BY <2>1, FS_Union
    <2>3. CASE s = {}
      <3>1. Sum(t, s) = 0 /\ R \cup s = R
        BY <2>1, <2>3, SumFacts
      <3>2. Sum(t, R \cup s) = Sum(t, R) + Sum(t, s)
        <4>1. Sum(t, R \cup s) = Sum(t, R)
          BY <3>1
        <4> HIDE DEF G
        <4> QED
          BY <1>0, <3>1, <4>1
      <3> QED
        BY <3>2
    <2>4. CASE s # {}
      <3>1. PICK x \in s : TRUE
        BY <2>4
      <3>2. s \ {x} \in G
        BY <1>1, <3>1
      <3>3. Sum(t, R \cup (s \ {x})) = Sum(t, R) + Sum(t, s \ {x})
        BY <3>2
      <3>4. (R \cup s) \ {x} = R \cup (s \ {x}) /\ x \in R \cup s
        BY <3>1
      <3>5. Sum(t, R \cup s) = t[x] + Sum(t, (R \cup s) \ {x})
        BY <2>1, <2>2, <3>4, SumFacts
      <3>6. Sum(t, s) = t[x] + Sum(t, s \ {x}) /\ t[x] \in Int
        BY <2>1, <3>1, SumFacts
      <3>7. Sum(t, s \ {x}) \in Int
        <4>1. IsFiniteSet(s \ {x}) /\ \A y \in s \ {x} : t[y] \in Int
          BY <2>1, FS_RemoveElement
        <4> QED
          BY <4>1, SumFacts
      <3>8. Sum(t, R \cup s) = t[x] + (Sum(t, R) + Sum(t, s \ {x}))
        BY <3>3, <3>4, <3>5
      <3> HIDE DEF G
      <3>9. Sum(t, R \cup s) = Sum(t, R) + Sum(t, s)
        BY <1>0, <3>6, <3>7, <3>8
      <3> QED
        BY <3>9 DEF G
    <2> QED
      BY <2>3, <2>4
  <1> HIDE DEF G
  <1>2. SUBSET S \subseteq G
    BY <1>1, SubsetsInSet
  <1> QED
    BY <1>2 DEF G

SchedInv ==
    /\ SchedTypeOK /\ NeverOvercommitted /\ RemainingValid /\ ReservationCoversPeak
    /\ \A j \in Running : reserved[j] \in Resources

\* Every field of a request is a natural number.
LEMMA FieldFacts == \A r \in Resources : r.vram \in Nat /\ \A field \in Fields : r[field] \in Nat
  BY DEF Resources, Fields

\* The totals are sums of naturals over finite sets.
LEMMA TotalFacts ==
    ASSUME SchedInv, NEW field \in Fields
    PROVE  /\ IsFiniteSet(Running)
           /\ \A j \in Running : [k \in Running |-> reserved[k][field]][j] \in Nat
           /\ \A S \in SUBSET Running : Total(S, field) \in Nat
  <1>1. Running \in SUBSET Jobs
    BY DEF SchedInv, SchedTypeOK
  <1>2. IsFiniteSet(Running)
    BY <1>1, JobsAssumption, FS_Subset
  <1>3. \A j \in Running : reserved[j][field] \in Nat
    BY FieldFacts DEF SchedInv
  <1>4. \A j \in Running : [k \in Running |-> reserved[k][field]][j] \in Nat
    BY <1>3
  <1>5. \A S \in SUBSET Running : Sum([k \in Running |-> reserved[k][field]], S) \in Nat
    BY <1>2, <1>4, SumOfPart
  <1> QED
    BY <1>2, <1>4, <1>5, TotalIsSum

\* The free part of the machine is a valid capacity.
LEMMA FreeFacts ==
    ASSUME SchedInv
    PROVE  /\ Free \in Resources /\ validate_gpu_resources(Free) /\ Free.vram <= Host.vram
           /\ \A field \in Fields : Free[field] + Total(Running, field) = Host[field] /\ Total(Running, field) \in Nat
  <1>1. \A field \in Fields : Total(Running, field) \in Nat /\ Total(Running, field) <= Host[field]
    BY TotalFacts DEF SchedInv, NeverOvercommitted, Fields
  <1>2. Host \in Resources /\ validate_gpu_resources(Host)
    BY CapacityValid
  <1>3. /\ Total(Running, "cpu") \in Nat /\ Total(Running, "cpu") <= Host.cpu
        /\ Total(Running, "ram") \in Nat /\ Total(Running, "ram") <= Host.ram
        /\ Total(Running, "gpu") \in Nat /\ Total(Running, "gpu") <= Host.gpu
    BY <1>1 DEF Fields
  <1> DEFINE gpu == Host.gpu - Total(Running, "gpu")
  <1>4. Free = [cpu |-> Host.cpu - Total(Running, "cpu"), ram |-> Host.ram - Total(Running, "ram"),
                gpu |-> gpu, vram |-> IF gpu = 0 THEN 0 ELSE Host.vram]
    BY DEF Free
  <1>5. Host.cpu \in Nat /\ Host.ram \in Nat /\ Host.gpu \in Nat /\ Host.vram \in Nat
    BY <1>2 DEF Resources
  <1>6. gpu \in Nat /\ (gpu # 0 => Host.vram # 0)
    BY <1>2, <1>3, <1>5 DEF validate_gpu_resources
  <1>7. Free \in Resources /\ validate_gpu_resources(Free) /\ Free.vram <= Host.vram
    BY <1>3, <1>4, <1>5, <1>6 DEF Resources, validate_gpu_resources
  <1>8. /\ Free.cpu + Total(Running, "cpu") = Host.cpu /\ Free.ram + Total(Running, "ram") = Host.ram
        /\ Free.gpu + Total(Running, "gpu") = Host.gpu
    BY <1>3, <1>4, <1>5
  <1> QED
    BY <1>1, <1>7, <1>8 DEF Fields

\* What is available is a valid capacity, within the offer and the configuration.
LEMMA AvailableFacts ==
    ASSUME NEW offer \in Resources, validate_gpu_resources(offer)
    PROVE  /\ Available(offer) \in Resources /\ validate_gpu_resources(Available(offer))
           /\ Available(offer).vram <= offer.vram
           /\ \A field \in Fields : Available(offer)[field] <= offer[field] /\ Available(offer)[field] <= Capacity[field]
  <1>1. Capacity \in Resources /\ validate_gpu_resources(Capacity)
    BY CapacityValid
  <1> DEFINE a == Available(offer)
  <1>2. \A x, y \in Nat : Least(x, y) \in Nat /\ Least(x, y) <= x /\ Least(x, y) <= y /\ (Least(x, y) = 0 <=> x = 0 \/ y = 0)
    BY DEF Least
  <1>3. /\ offer.cpu \in Nat /\ offer.ram \in Nat /\ offer.gpu \in Nat /\ offer.vram \in Nat
        /\ Capacity.cpu \in Nat /\ Capacity.ram \in Nat /\ Capacity.gpu \in Nat /\ Capacity.vram \in Nat
    BY <1>1 DEF Resources
  <1>4. /\ a.cpu = Least(offer.cpu, Capacity.cpu) /\ a.ram = Least(offer.ram, Capacity.ram)
        /\ a.gpu = Least(offer.gpu, Capacity.gpu)
        /\ a.vram = IF Least(offer.gpu, Capacity.gpu) = 0 THEN 0 ELSE Least(offer.vram, Capacity.vram)
        /\ a = [cpu |-> a.cpu, ram |-> a.ram, gpu |-> a.gpu, vram |-> a.vram]
    BY DEF Available
  <1> HIDE DEF a
  <1>5. /\ a.cpu \in Nat /\ a.ram \in Nat /\ a.gpu \in Nat /\ a.vram \in Nat /\ a.vram <= offer.vram
        /\ a.cpu <= offer.cpu /\ a.cpu <= Capacity.cpu /\ a.ram <= offer.ram /\ a.ram <= Capacity.ram
        /\ a.gpu <= offer.gpu /\ a.gpu <= Capacity.gpu
    BY <1>2, <1>3, <1>4
  <1>6. a \in Resources
    BY <1>4, <1>5 DEF Resources
  <1>7. validate_gpu_resources(a)
    BY <1>1, <1>2, <1>3, <1>4 DEF validate_gpu_resources
  <1> QED
    BY <1>5, <1>6, <1>7 DEF a, Fields

\* Nothing runs or is ready at first.
LEMMA SchedStarts == SchedInit => SchedInv
  <1> SUFFICES ASSUME SchedInit PROVE SchedInv
    OBVIOUS
  <1>1. /\ waiting = {} /\ Running = {} /\ age = [j \in Jobs |-> 0] /\ peak = [j \in Jobs |-> -1]
        /\ decision.selected = {} /\ decision.remaining = Host
    BY DEF SchedInit, waiting, Running
  <1>2. SchedTypeOK
    BY <1>1, CapacityValid, AgingAssumption DEF SchedTypeOK
  <1>3. \A field \in Fields : Total({}, field) = 0
    <2> SUFFICES ASSUME NEW field \in Fields PROVE Sum([k \in Running |-> reserved[k][field]], {}) = 0
      BY TotalIsSum
    <2> QED
      BY FS_EmptySet, SumFacts
  <1>4. \A field \in Fields : Host[field] \in Nat /\ Capacity[field] \in Nat
    BY CapacityValid, FieldFacts
  <1>5. NeverOvercommitted
    BY <1>1, <1>3, <1>4 DEF NeverOvercommitted, Fields
  <1>6. RemainingValid
    BY <1>1, CapacityValid DEF RemainingValid
  <1> QED
    BY <1>1, <1>2, <1>5, <1>6 DEF SchedInv, ReservationCoversPeak

NextShare(field) == [k \in Running' |-> reserved'[k][field]]

\* The total after a step is a sum of the reservations after it.
LEMMA NextTotal == \A S, field : Total(S, field)' = Sum(NextShare(field), S)
  BY DEF Total, FoldFunctionOnSet, Sum, MapThenSumSet, MapThenFoldSet, NextShare

\* When the sums of the reservations after a step are within the machine and
\* the configuration, nothing is overcommitted after it.
LEMMA NextAccount ==
    ASSUME \A field \in Fields : /\ Sum(NextShare(field), Running') <= Host[field]
                                 /\ Sum(NextShare(field), decision'.selected \cap Running') <= Capacity[field],
           \A k \in Running' : reserved'[k].vram <= Host.vram
    PROVE  NeverOvercommitted'
  <1>1. \A field \in Fields : Total(Running, field)' <= Host[field]
    BY DEF Total, FoldFunctionOnSet, Sum, MapThenSumSet, MapThenFoldSet, NextShare
  <1>2. \A field \in Fields : Total(decision.selected \cap Running, field)' <= Capacity[field]
    BY DEF Total, FoldFunctionOnSet, Sum, MapThenSumSet, MapThenFoldSet, NextShare
  <1> QED
    BY <1>1, <1>2 DEF NeverOvercommitted, Fields

\* Totals are about the reservations only.
LEMMA SameTotals ==
    ASSUME UNCHANGED reserved
    PROVE  Running' = Running /\ \A S, field : Total(S, field)' = Total(S, field)
  <1>1. Running' = Running
    BY DEF Running
  <1>2. ASSUME NEW S, NEW field PROVE Total(S, field)' = Total(S, field)
    <2>1. Total(S, field)' = Sum(NextShare(field), S)
      BY NextTotal
    <2>2. NextShare(field) = [k \in Running |-> reserved[k][field]]
      BY <1>1 DEF NextShare
    <2> QED
      BY <2>1, <2>2, TotalIsSum
  <1> QED
    BY <1>1, <1>2

\* A job that becomes ready, and time, leave reservations and decisions alone.
LEMMA ReadyStep ==
    ASSUME SchedInv, NEW j \in Jobs, become_ready(j)
    PROVE  SchedInv'
  <1> DEFINE ahead == {k \in waiting : age[k] > 0 \/ k < j}
  <1>1. /\ UNCHANGED <<age, reserved, peak, decision>> /\ j \notin waiting \cup Running
        /\ place' = [k \in waiting \cup {j} |->
                        IF k = j THEN Cardinality(ahead) + 1 ELSE IF k \in ahead THEN place[k] ELSE place[k] + 1]
    BY DEF become_ready
  <1>2. waiting \in SUBSET Jobs /\ (\A k \in waiting : place[k] \in Nat) /\ ahead \in SUBSET Jobs
    BY DEF SchedInv, SchedTypeOK
  <1>3. Cardinality(ahead) \in Nat
    BY <1>2, JobsAssumption, FS_Subset, FS_CardinalityType
  <1> HIDE DEF ahead
  <1>4. waiting' = waiting \cup {j} /\ \A k \in waiting' : place'[k] \in Nat
    BY <1>1, <1>2, <1>3 DEF waiting
  <1>5. Running' = Running /\ \A S, field : Total(S, field)' = Total(S, field)
    BY <1>1, SameTotals
  <1>6. SchedTypeOK'
    BY <1>1, <1>4, <1>5 DEF SchedInv, SchedTypeOK
  <1>7. NeverOvercommitted' /\ RemainingValid' /\ ReservationCoversPeak'
    BY <1>1, <1>5 DEF SchedInv, NeverOvercommitted, RemainingValid, ReservationCoversPeak
  <1> QED
    BY <1>1, <1>5, <1>6, <1>7 DEF SchedInv

\* A second that passes changes ages only.
LEMMA TickStep == SchedInv /\ tick => SchedInv'
  <1> SUFFICES ASSUME SchedInv, tick PROVE SchedInv'
    OBVIOUS
  <1>1. /\ UNCHANGED <<place, reserved, peak, decision>>
        /\ age' = [j \in Jobs |-> IF j \in waiting THEN Least(age[j] + 1, Aging) ELSE age[j]]
    BY DEF tick
  <1>2. age' \in [Jobs -> 0..Aging]
    BY <1>1, AgingAssumption DEF SchedInv, SchedTypeOK, Least
  <1>3. waiting' = waiting
    BY <1>1 DEF waiting
  <1>4. Running' = Running /\ \A S, field : Total(S, field)' = Total(S, field)
    BY <1>1, SameTotals
  <1>5. SchedTypeOK'
    BY <1>1, <1>2, <1>3, <1>4 DEF SchedInv, SchedTypeOK
  <1>6. NeverOvercommitted' /\ RemainingValid' /\ ReservationCoversPeak'
    BY <1>1, <1>4 DEF SchedInv, NeverOvercommitted, RemainingValid, ReservationCoversPeak
  <1> QED
    BY <1>1, <1>4, <1>5, <1>6 DEF SchedInv

\* While memory is short nothing is selected.
LEMMA FrozenStep == SchedInv /\ decide_frozen => SchedInv'
  <1> SUFFICES ASSUME SchedInv, decide_frozen PROVE SchedInv'
    OBVIOUS
  <1>1. UNCHANGED <<place, age, reserved, peak>> /\ decision'.selected = {} /\ decision'.remaining = Free
    BY DEF decide_frozen
  <1>2. waiting' = waiting
    BY <1>1 DEF waiting
  <1>3. Running' = Running /\ \A S, field : Total(S, field)' = Total(S, field)
    BY <1>1, SameTotals
  <1>4. Free \in Resources /\ validate_gpu_resources(Free)
    BY FreeFacts
  <1>5. SchedTypeOK' /\ RemainingValid' /\ ReservationCoversPeak'
    BY <1>1, <1>2, <1>3, <1>4 DEF SchedInv, SchedTypeOK, RemainingValid, ReservationCoversPeak
  <1>6. NeverOvercommitted'
    <2>1. \A field \in Fields : Total({}, field) = 0
      <3> SUFFICES ASSUME NEW field \in Fields PROVE Sum([k \in Running |-> reserved[k][field]], {}) = 0
        BY TotalIsSum
      <3> QED
        BY FS_EmptySet, SumFacts
    <2>2. \A field \in Fields : Capacity[field] \in Nat
      BY CapacityValid, FieldFacts
    <2>3. decision'.selected \cap Running' = {}
      BY <1>1
    <2> QED
      BY <1>1, <1>3, <2>1, <2>2, <2>3 DEF SchedInv, NeverOvercommitted, Fields
  <1> QED
    BY <1>1, <1>3, <1>5, <1>6 DEF SchedInv

\* A finished job gives back what it had, and is not running when its peak grows.
LEMMA FinishStep ==
    ASSUME SchedInv, NEW j \in Jobs, finish(j)
    PROVE  SchedInv'
  <1>1. /\ UNCHANGED <<place, age, decision>> /\ j \in Running
        /\ reserved' = [k \in Running \ {j} |-> reserved[k]]
    BY DEF finish
  <1>2. PICK p \in Peaks : peak' = [peak EXCEPT ![j] = Max({peak[j], p})]
    BY DEF finish
  <1>3. Running' = Running \ {j} /\ (\A k \in Running' : reserved'[k] = reserved[k]) /\ waiting' = waiting
    BY <1>1 DEF Running, waiting
  <1>4. Max({peak[j], p}) \in {peak[j], p}
    <2>1. peak[j] \in Int /\ p \in Int
      <3>1. PeakOK
        BY DEF SchedInv, SchedTypeOK, PeakOK
      <3>2. p \in Int
        BY JobsAssumption
      <3> QED
        BY <3>1, <3>2, CalibratedFacts
    <2>2. \E x \in {peak[j], p} : \A y \in {peak[j], p} : x >= y
      BY <2>1
    <2> QED
      BY <2>2 DEF Max
  <1>5. peak' \in [Jobs -> Peaks \cup {-1}] /\ \A k \in Jobs \ {j} : peak'[k] = peak[k]
    BY <1>2, <1>4 DEF SchedInv, SchedTypeOK
  <1>6. SchedTypeOK'
    BY <1>1, <1>3, <1>5 DEF SchedInv, SchedTypeOK
  <1>7. ReservationCoversPeak'
    BY <1>3, <1>5 DEF SchedInv, SchedTypeOK, ReservationCoversPeak
  <1>8. ASSUME NEW field \in Fields, NEW S \in SUBSET Running
        PROVE  /\ Sum(NextShare(field), S \ {j}) \in Nat /\ Total(S, field) \in Nat
               /\ Sum(NextShare(field), S \ {j}) <= Total(S, field)
    <2> DEFINE T == [k \in Running |-> reserved[k][field]]
    <2>1. IsFiniteSet(Running) /\ \A k \in Running : T[k] \in Nat
      BY TotalFacts
    <2>2. IsFiniteSet(S) /\ IsFiniteSet(S \ {j})
      BY <2>1, FS_Subset
    <2>3. \A k \in S \ {j} : NextShare(field)[k] \in Int /\ NextShare(field)[k] = T[k]
      <3>1. \A k \in S \ {j} : k \in Running' /\ reserved'[k] = reserved[k]
        BY <1>3
      <3>2. \A k \in S \ {j} : NextShare(field)[k] = T[k]
        BY <3>1 DEF NextShare
      <3>3. \A k \in S \ {j} : T[k] \in Int
        BY <2>1
      <3> QED
        BY <3>2, <3>3
    <2>4. Total(S, field) = Sum(T, S)
      BY TotalIsSum
    <2> HIDE DEF T, Sum
    <2>5. Sum(NextShare(field), S \ {j}) = Sum(T, S \ {j})
      BY <2>2, <2>3, SumSame
    <2>6. \A k \in S : T[k] \in Nat
      BY <2>1
    <2>7. Sum(T, S) \in Nat /\ Sum(T, S \ {j}) \in Nat /\ Sum(T, S \ {j}) <= Sum(T, S)
      <3>1. S \in SUBSET S /\ S \ {j} \in SUBSET S
        OBVIOUS
      <3> QED
        BY <2>2, <2>6, <3>1, SumOfPart
    <2> QED
      BY <2>4, <2>5, <2>7
  <1>9. NeverOvercommitted'
    <2>1. ASSUME NEW field \in Fields
          PROVE  /\ Sum(NextShare(field), Running') <= Host[field]
                 /\ Sum(NextShare(field), decision'.selected \cap Running') <= Capacity[field]
      <3> DEFINE chosen == decision.selected \cap Running
      <3>1. Total(Running, field) <= Host[field] /\ Total(chosen, field) <= Capacity[field]
        BY DEF SchedInv, NeverOvercommitted, Fields
      <3>2. Host[field] \in Nat /\ Capacity[field] \in Nat
        BY CapacityValid, FieldFacts
      <3>3. Running' = Running \ {j} /\ decision'.selected \cap Running' = chosen \ {j}
        BY <1>1, <1>3
      <3>4. chosen \in SUBSET Running /\ Running \in SUBSET Running
        OBVIOUS
      <3> HIDE DEF chosen, Sum
      <3>5. Sum(NextShare(field), Running') <= Host[field]
        <4>1. /\ Sum(NextShare(field), Running \ {j}) \in Nat /\ Total(Running, field) \in Nat
              /\ Sum(NextShare(field), Running \ {j}) <= Total(Running, field)
          BY <1>8, <3>4
        <4> QED
          BY <3>1, <3>2, <3>3, <4>1
      <3>6. Sum(NextShare(field), decision'.selected \cap Running') <= Capacity[field]
        <4>1. /\ Sum(NextShare(field), chosen \ {j}) \in Nat /\ Total(chosen, field) \in Nat
              /\ Sum(NextShare(field), chosen \ {j}) <= Total(chosen, field)
          BY <1>8, <3>4
        <4> QED
          BY <3>1, <3>2, <3>3, <4>1
      <3> QED
        BY <3>5, <3>6
    <2>2. \A k \in Running' : reserved'[k].vram <= Host.vram
      BY <1>3 DEF SchedInv, NeverOvercommitted
    <2> QED
      BY <2>1, <2>2, NextAccount
  <1>10. RemainingValid' /\ \A k \in Running' : reserved'[k] \in Resources
    BY <1>1, <1>3 DEF SchedInv, RemainingValid
  <1> QED
    BY <1>6, <1>7, <1>9, <1>10 DEF SchedInv

\* What is known of a decision that is taken.
LEMMA DecisionFacts ==
    ASSUME SchedInv, decide
    PROVE  \E d : /\ Owes(Available(Free), d)
                  /\ decision'.selected = d.selected /\ decision'.remaining = d.remaining
                  /\ \/ decision'.reserved_for = 0 /\ NoneFits(d)
                     \/ /\ decision'.reserved_for \in waiting /\ decision'.selected = {}
                        /\ IsAged(decision'.reserved_for)
                        /\ ~fits(Available(Free), calibrated_reservation(decision'.reserved_for))
  <1>1. PeakOK /\ PlaceOK
    BY DEF SchedInv, SchedTypeOK, PeakOK, PlaceOK
  <1>2. Available(Free) \in Resources /\ validate_gpu_resources(Available(Free))
    BY FreeFacts, AvailableFacts
  <1>3. decision' = Decide(Available(Free))
    BY DEF decide
  <1> QED
    BY <1>1, <1>2, <1>3, DecideFacts

\* The jobs that are started get no more than was available, which is within
\* what is free and what is configured.
LEMMA DecideStep == SchedInv /\ decide => SchedInv'
  <1> SUFFICES ASSUME SchedInv, decide PROVE SchedInv'
    OBVIOUS
  <1> DEFINE a == Available(Free)
  <1>1. PICK d : Owes(a, d) /\ decision'.selected = d.selected /\ decision'.remaining = d.remaining
    BY DecisionFacts
  <1> DEFINE chosen == d.selected
  <1>2. /\ reserved' = [j \in Running \cup chosen |-> IF j \in Running THEN reserved[j] ELSE calibrated_reservation(j)]
        /\ place' = [j \in waiting \ chosen |-> Cardinality({k \in waiting \ chosen : place[k] <= place[j]})]
        /\ age' = [j \in Jobs |-> IF j \in chosen THEN 0 ELSE age[j]]
        /\ peak' = peak
    <2>1. PICK e \in {Decide(a)} :
           /\ decision' = e
           /\ place' = [j \in waiting \ e.selected |-> Cardinality({k \in waiting \ e.selected : place[k] <= place[j]})]
           /\ reserved' = [j \in Running \cup e.selected |->
                            IF j \in Running THEN reserved[j] ELSE calibrated_reservation(j)]
           /\ age' = [j \in Jobs |-> IF j \in e.selected THEN 0 ELSE age[j]]
      BY DEF decide
    <2>2. e.selected = chosen /\ peak' = peak
      BY <1>1, <2>1 DEF decide
    <2> QED
      BY <2>1, <2>2
  <1>3. /\ waiting \in SUBSET Jobs /\ waiting \cap Running = {} /\ Running \in SUBSET Jobs /\ PeakOK
        /\ age \in [Jobs -> 0..Aging] /\ \A j \in Running : reserved[j] \in Resources
    BY DEF SchedInv, SchedTypeOK, PeakOK
  <1>4. chosen \in SUBSET waiting /\ chosen \in SUBSET Jobs /\ chosen \cap Running = {}
    BY <1>1, <1>3 DEF Owes
  <1>5. Running' = Running \cup chosen /\ waiting' = waiting \ chosen
    BY <1>2 DEF Running, waiting
  <1>6. /\ \A j \in Running : reserved'[j] = reserved[j]
        /\ \A j \in chosen : reserved'[j] = calibrated_reservation(j)
    BY <1>2, <1>4
  <1>7. /\ Free \in Resources /\ Free.vram <= Host.vram /\ a \in Resources /\ a.vram <= Free.vram
        /\ \A field \in Fields : /\ Free[field] + Total(Running, field) = Host[field] /\ Total(Running, field) \in Nat
                                 /\ a[field] <= Free[field] /\ a[field] <= Capacity[field]
    BY FreeFacts, AvailableFacts
  <1> HIDE DEF a, Sum
  <1>8. SchedTypeOK'
    <2>1. \A j \in waiting' : place'[j] \in Nat
      <3> SUFFICES ASSUME NEW j \in waiting \ chosen PROVE place'[j] \in Nat
        BY <1>5
      <3> DEFINE before == {k \in waiting \ chosen : place[k] <= place[j]}
      <3>1. before \in SUBSET Jobs
        BY <1>3
      <3>2. Cardinality(before) \in Nat
        BY <3>1, JobsAssumption, FS_Subset, FS_CardinalityType
      <3> QED
        BY <1>2, <3>2
    <2>2. age' \in [Jobs -> 0..Aging]
      BY <1>2, <1>3, AgingAssumption
    <2>3. waiting' \subseteq Jobs /\ waiting' \cap Running' = {} /\ Running' \subseteq Jobs
      BY <1>3, <1>4, <1>5
    <2>4. decision'.remaining \in Resources
      BY <1>1 DEF Owes
    <2> QED
      BY <1>2, <1>3, <2>1, <2>2, <2>3, <2>4 DEF SchedTypeOK, PeakOK
  <1>9. ReservationCoversPeak' /\ \A j \in Running' : reserved'[j] \in Resources
    <2>1. ASSUME NEW j \in Running' PROVE reserved'[j].ram >= peak'[j] /\ reserved'[j] \in Resources
      <3>1. CASE j \in Running
        BY <1>2, <1>3, <1>6, <3>1 DEF SchedInv, ReservationCoversPeak
      <3>2. CASE j \in chosen
        BY <1>2, <1>3, <1>4, <1>6, <3>2, CalibratedFacts
      <3> QED
        BY <1>5, <3>1, <3>2
    <2> QED
      BY <2>1 DEF ReservationCoversPeak
  <1>10. RemainingValid'
    BY <1>1 DEF RemainingValid, Owes
  <1>11. \A k \in Running' : reserved'[k].vram <= Host.vram
    <2>1. ASSUME NEW k \in chosen PROVE reserved'[k].vram <= Host.vram
      <3>1. reserved'[k].vram <= a.vram
        BY <1>1, <1>6 DEF Owes
      <3>2. reserved'[k] \in Resources
        BY <1>5, <1>9
      <3>3. reserved'[k].vram \in Nat /\ a.vram \in Nat /\ Free.vram \in Nat /\ Host.vram \in Nat
        BY <1>7, <3>2, FieldFacts, CapacityValid
      <3> QED
        BY <1>7, <3>1, <3>3
    <2>2. \A k \in Running : reserved'[k].vram <= Host.vram
      BY <1>6 DEF SchedInv, NeverOvercommitted
    <2> QED
      BY <1>5, <2>1, <2>2
  <1>12. ASSUME NEW field \in Fields
         PROVE  /\ Sum(NextShare(field), Running') <= Host[field]
                /\ Sum(NextShare(field), decision'.selected \cap Running') <= Capacity[field]
    <2> DEFINE T == [k \in Running |-> reserved[k][field]]
    <2>1. IsFiniteSet(Running) /\ IsFiniteSet(chosen)
      BY <1>3, <1>4, JobsAssumption, FS_Subset
    <2>2. \A k \in Running' : NextShare(field)[k] = reserved'[k][field] /\ NextShare(field)[k] \in Int
      BY <1>9, FieldFacts DEF NextShare
    <2>3. \A k \in Running : NextShare(field)[k] \in Int /\ NextShare(field)[k] = T[k]
      BY <1>5, <1>6, <2>2
    <2>4. \A k \in chosen : NextShare(field)[k] \in Int /\ NextShare(field)[k] = Demand(field)[k]
      BY <1>4, <1>5, <1>6, <2>2 DEF Demand
    <2> HIDE DEF T
    <2>5. Sum(NextShare(field), Running) = Sum(T, Running)
      BY <2>1, <2>3, SumSame
    <2>6. Sum(NextShare(field), chosen) = Sum(Demand(field), chosen)
      BY <2>1, <2>4, SumSame
    <2>7. Sum(NextShare(field), Running') = Sum(NextShare(field), Running) + Sum(NextShare(field), chosen)
      <3>1. \A x \in Running \cup chosen : NextShare(field)[x] \in Int
        BY <1>5, <2>2
      <3>2. Running \cap chosen = {}
        BY <1>4
      <3>3. Sum(NextShare(field), Running \cup chosen) = Sum(NextShare(field), Running) + Sum(NextShare(field), chosen)
        BY <2>1, <3>1, <3>2, SumOfBoth
      <3> QED
        BY <1>5, <3>3
    <2>8. Sum(T, Running) = Total(Running, field)
      BY TotalIsSum DEF T
    <2>9. d.remaining[field] + Sum(Demand(field), chosen) = a[field]
      BY <1>1 DEF Owes, Fields
    <2>10. d.remaining[field] \in Nat /\ a[field] \in Nat /\ Free[field] \in Nat /\ Capacity[field] \in Nat /\ Host[field] \in Nat
      BY <1>1, <1>7, FieldFacts, CapacityValid DEF Owes
    <2>11. Sum(Demand(field), chosen) \in Int
      <3>1. Sum(NextShare(field), chosen) \in Int
        BY <2>1, <2>4, SumFacts
      <3> QED
        BY <2>6, <3>1
    <2>12. Sum(Demand(field), chosen) <= a[field]
      BY <2>9, <2>10, <2>11
    <2>13. /\ Free[field] + Total(Running, field) = Host[field] /\ Total(Running, field) \in Nat
           /\ a[field] <= Free[field] /\ a[field] <= Capacity[field]
      BY <1>7
    <2>14. Sum(NextShare(field), Running') <= Host[field]
      <3>1. Sum(NextShare(field), Running') = Total(Running, field) + Sum(Demand(field), chosen)
        BY <2>5, <2>6, <2>7, <2>8
      <3> QED
        BY <2>10, <2>11, <2>12, <2>13, <3>1
    <2>15. decision'.selected \cap Running' = chosen
      BY <1>1, <1>5
    <2>16. Sum(NextShare(field), chosen) <= Capacity[field]
      BY <2>6, <2>10, <2>11, <2>12, <2>13
    <2> QED
      BY <2>14, <2>15, <2>16
  <1>13. NeverOvercommitted'
    BY <1>11, <1>12, NextAccount
  <1> QED
    BY <1>8, <1>9, <1>10, <1>13 DEF SchedInv

\* Every step of the scheduler keeps the invariant.
LEMMA SchedSteps == SchedInv /\ [SchedNext]_schedVars => SchedInv'
  <1> SUFFICES ASSUME SchedInv, [SchedNext]_schedVars PROVE SchedInv'
    OBVIOUS
  <1>1. ASSUME NEW j \in Jobs, become_ready(j) PROVE SchedInv'
    BY <1>1, ReadyStep
  <1>2. ASSUME NEW j \in Jobs, finish(j) PROVE SchedInv'
    BY <1>2, FinishStep
  <1>3. CASE tick
    BY <1>3, TickStep
  <1>4. CASE decide
    BY <1>4, DecideStep
  <1>5. CASE decide_frozen
    BY <1>5, FrozenStep
  <1>6. CASE UNCHANGED schedVars
    <2>1. UNCHANGED <<place, age, reserved, peak, decision>>
      BY <1>6 DEF schedVars
    <2>2. waiting' = waiting
      BY <2>1 DEF waiting
    <2>3. Running' = Running /\ \A S, field : Total(S, field)' = Total(S, field)
      BY <2>1, SameTotals
    <2>4. SchedTypeOK'
      BY <2>1, <2>2, <2>3 DEF SchedInv, SchedTypeOK
    <2>5. NeverOvercommitted' /\ RemainingValid' /\ ReservationCoversPeak'
      BY <2>1, <2>3 DEF SchedInv, NeverOvercommitted, RemainingValid, ReservationCoversPeak
    <2> QED
      BY <2>1, <2>3, <2>4, <2>5 DEF SchedInv
  <1> QED
    BY <1>1, <1>2, <1>3, <1>4, <1>5, <1>6 DEF SchedNext

\* The invariant holds throughout.
THEOREM SchedInvariant == SchedSpec => []SchedInv
  BY SchedStarts, SchedSteps, PTL DEF SchedSpec

\* Whatever sequence of arrivals, decisions and completions, the reservations
\* of the running jobs stay within the machine and cover what was observed, one
\* decision stays within the configured capacity, and what it leaves is valid.
THEOREM ReservationsStaySound == SchedSpec => []ReservationsSound
  <1>1. SchedInv => ReservationsSound
    BY DEF SchedInv, ReservationsSound
  <1> QED
    BY <1>1, SchedInvariant, PTL

\* decide leaves out only what no longer fits, and when it keeps the machine
\* for an aged job that job can be run once others have finished.
LEMMA CompleteStep ==
    ASSUME SchedInv, decide
    PROVE  IF decision'.reserved_for = 0
           THEN \A j \in waiting' : ~fits(decision'.remaining, calibrated_reservation(j))
           ELSE /\ decision'.selected = {}
                /\ decision'.reserved_for \in waiting
                /\ Running # {} \/ ~fits(Host, calibrated_reservation(decision'.reserved_for))
  <1> DEFINE a == Available(Free)
             aged == decision'.reserved_for
             r == calibrated_reservation(aged)
  <1>1. PICK d : /\ Owes(a, d)
                 /\ decision'.selected = d.selected /\ decision'.remaining = d.remaining
                 /\ \/ aged = 0 /\ NoneFits(d)
                    \/ aged \in waiting /\ decision'.selected = {} /\ IsAged(aged) /\ ~fits(a, r)
    BY DecisionFacts
  <1>2. waiting \in SUBSET Jobs /\ PeakOK
    BY DEF SchedInv, SchedTypeOK, PeakOK
  <1>3. CASE aged = 0
    <2>1. NoneFits(d)
      BY <1>1, <1>2, <1>3, JobsAssumption
    <2>2. waiting' = waiting \ d.selected
      <3>1. waiting' = waiting \ decision'.selected
        BY DEF decide, waiting
      <3> QED
        BY <1>1, <3>1
    <2>3. d.eligible = waiting \ d.selected
      BY <1>1 DEF Owes
    <2> QED
      BY <1>1, <1>3, <2>1, <2>2, <2>3 DEF NoneFits
  <1>4. CASE aged # 0
    <2>1. aged \in waiting /\ decision'.selected = {} /\ IsAged(aged) /\ ~fits(a, r) /\ aged \in Jobs
      BY <1>1, <1>2, <1>4
    <2>2. ASSUME Running = {}, fits(Host, r) PROVE FALSE
      <3>1. \A field \in Fields : Total(Running, field) = 0
        <4> SUFFICES ASSUME NEW field \in Fields PROVE Sum([k \in Running |-> reserved[k][field]], {}) = 0
          BY <2>2, TotalIsSum
        <4> QED
          BY FS_EmptySet, SumFacts
      <3>2. /\ Host \in Resources /\ validate_gpu_resources(Host)
            /\ Capacity \in Resources /\ validate_gpu_resources(Capacity) /\ fits(Capacity, r)
        BY <2>1, CapacityValid DEF IsAged
      <3>3. r \in Resources /\ validate_request(r)
        BY <1>2, <2>1, CalibratedFacts
      <3> HIDE DEF r
      <3>4. /\ Host.cpu \in Nat /\ Host.ram \in Nat /\ Host.gpu \in Nat /\ Host.vram \in Nat
            /\ Capacity.cpu \in Nat /\ Capacity.ram \in Nat /\ Capacity.gpu \in Nat /\ Capacity.vram \in Nat
            /\ r.cpu \in Nat /\ r.ram \in Nat /\ r.gpu \in Nat /\ r.vram \in Nat
        BY <3>2, <3>3 DEF Resources
      <3>5. Free.cpu = Host.cpu /\ Free.ram = Host.ram /\ Free.gpu = Host.gpu /\ Free.vram = Host.vram
        <4>1. Total(Running, "cpu") = 0 /\ Total(Running, "ram") = 0 /\ Total(Running, "gpu") = 0
          BY <3>1 DEF Fields
        <4> QED
          BY <3>2, <3>4, <4>1 DEF Free, validate_gpu_resources
      <3>6. /\ a.cpu = Least(Host.cpu, Capacity.cpu) /\ a.ram = Least(Host.ram, Capacity.ram)
            /\ a.gpu = Least(Host.gpu, Capacity.gpu)
            /\ a.vram = IF Least(Host.gpu, Capacity.gpu) = 0 THEN 0 ELSE Least(Host.vram, Capacity.vram)
        BY <3>5 DEF Available
      <3> HIDE DEF a
      <3>7. a.cpu >= r.cpu /\ a.ram >= r.ram /\ a.gpu >= r.gpu /\ a.vram >= r.vram
        BY <2>2, <3>2, <3>3, <3>4, <3>6 DEF fits, Least, validate_request, validate_gpu_resources
      <3> QED
        BY <2>1, <3>7 DEF fits
    <2> QED
      BY <1>4, <2>1, <2>2
  <1> QED
    BY <1>3, <1>4

\* Each decision leaves out only what no longer fits, or keeps the machine for
\* an aged job that could run once others have finished.
THEOREM DecisionsAreComplete == SchedSpec => DecisionComplete
  <1>1. SchedInv /\ [SchedNext]_schedVars =>
            [decision' # decision /\ decide =>
                IF decision'.reserved_for = 0
                THEN \A j \in waiting' : ~fits(decision'.remaining, calibrated_reservation(j))
                ELSE /\ decision'.selected = {}
                     /\ decision'.reserved_for \in waiting
                     /\ Running # {} \/ ~fits(Host, calibrated_reservation(decision'.reserved_for))]_schedVars
    BY CompleteStep
  <1> QED
    BY <1>1, SchedInvariant, PTL DEF SchedSpec, DecisionComplete
=============================================================================
