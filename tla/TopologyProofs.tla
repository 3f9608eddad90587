---------------------------- MODULE TopologyProofs ----------------------------
(***************************************************************************)
(* For every set of graphs: a search that has returned found exactly what  *)
(* can be reached, each device once; a device the failure cuts off is      *)
(* among the directly affected; every route is a lightest one of those the *)
(* earlier ones leave, and none is missing; the single points of failure   *)
(* are exactly the articulation points of the links without direction.     *)
(***************************************************************************)
EXTENDS TopologyGraph, CountingLemmas

(* The inductive invariant.  SearchOK: what was found is ordered without   *)
(* repetition and what comes before head is expanded.  FoundIsReachable:   *)
(* nothing was found that is not in every closed set around the start.     *)
(* SearchOver: the search is left only with head behind the last.          *)
InputOK == graph \in Graphs /\ call \in Calls

SearchOK ==
    /\ order \in Seq(Node \cup {NoNode}) /\ head \in 1 .. Len(order) + 1
    /\ call.from \in Found
    /\ IsFiniteSet(Found) /\ Cardinality(Found) = Len(order)
    /\ \A i \in 1 .. head - 1 : Beyond(order[i]) \subseteq Found

Closed(S) == call.from \in S /\ \A n \in S : Beyond(n) \subseteq S

FoundIsReachable == \A S \in SUBSET Node : Closed(S) => Found \subseteq S

SearchOver == call.op \in Searches /\ stage # "search" => head = Len(order) + 1

IInv == InputOK /\ SearchOK /\ FoundIsReachable /\ SearchOver

-----------------------------------------------------------------------------
LEMMA LinkEnds ==
    ASSUME InputOK, NEW n
    PROVE  /\ Sources(n) \subseteq Node /\ Targets(n) \subseteq Node
           /\ Beyond(n) \subseteq Node
  BY GraphsAssumption DEF InputOK, Sources, Targets, Beyond

LEMMA CallParts ==
    ASSUME InputOK
    PROVE  /\ call.from \in Node \cup {NoNode}
           /\ call.op \in Searches => call.from \in Node
           /\ call.op = "spofs" => call.op \notin Searches
  BY DEF InputOK, Calls, Searches

LEMMA FoundSet == Found = {order[i] : i \in DOMAIN order}
  BY DEF Found, Range

LEMMA OneMore ==
    ASSUME order \in Seq(Node \cup {NoNode}), NEW n \in Node, order' = Append(order, n)
    PROVE  /\ order' \in Seq(Node \cup {NoNode})
           /\ Len(order') = Len(order) + 1
           /\ \A i \in 1 .. Len(order) : order'[i] = order[i]
           /\ Found' = Found \cup {n}
<1>1. /\ order' \in Seq(Node \cup {NoNode})
      /\ Len(order') = Len(order) + 1
      /\ \A i \in 1 .. Len(order) : order'[i] = order[i]
      /\ order'[Len(order) + 1] = n
  OBVIOUS
<1>2. DOMAIN order = 1 .. Len(order) /\ DOMAIN order' = 1 .. Len(order) + 1
  BY <1>1
<1>3. Found = {order[i] : i \in 1 .. Len(order)}
  BY <1>2 DEF Found, Range
<1>4. Found' = {order'[i] : i \in 1 .. Len(order) + 1}
  BY <1>2 DEF Found, Range
<1>5. 1 .. Len(order) + 1 = (1 .. Len(order)) \cup {Len(order) + 1}
  BY <1>1
<1> QED
  BY <1>1, <1>3, <1>4, <1>5

LEMMA InitInv == Init => IInv
<1> SUFFICES ASSUME Init PROVE IInv
  OBVIOUS
<1>1. InputOK
  BY DEF Init, InputOK
<1>2. order = <<call.from>> /\ head = 1
  BY DEF Init
<1>3. order \in Seq(Node \cup {NoNode}) /\ Len(order) = 1
  BY <1>1, <1>2, CallParts
<1>4. Found = {call.from}
  BY <1>2, <1>3 DEF Found, Range
<1>5. SearchOK
  <2>1. IsFiniteSet(Found) /\ Cardinality(Found) = 1
    BY <1>4, FS_Singleton
  <2> QED
    BY <1>2, <1>3, <1>4, <2>1 DEF SearchOK
<1>6. FoundIsReachable
  BY <1>4 DEF FoundIsReachable, Closed
<1>7. call.op \in Searches => stage = "search"
  BY DEF Init, Searches
<1>8. SearchOver
  BY <1>7 DEF SearchOver
<1> QED
  BY <1>1, <1>5, <1>6, <1>8 DEF IInv

(* What the steps of the other algorithms do to the search: nothing.       *)
LEMMA SearchKept ==
    ASSUME IInv, UNCHANGED <<graph, call, search>>,
           stage' = "search" => stage = "search",
           stage = "search" /\ stage' # "search" => head = Len(order) + 1
    PROVE  IInv'
<1>1. Found' = Found /\ \A n : Beyond(n)' = Beyond(n)
  BY DEF Found, Range, Beyond, Sources, Targets, search
<1>2. InputOK'
  BY DEF IInv, InputOK
<1>3. SearchOK'
  BY <1>1 DEF IInv, SearchOK, search
<1>4. FoundIsReachable'
  BY <1>1 DEF IInv, FoundIsReachable, Closed
<1>5. SearchOver'
  BY DEF IInv, SearchOver, search
<1> QED
  BY <1>2, <1>3, <1>4, <1>5 DEF IInv

LEMMA VisitInv == IInv /\ Visit => IInv'
<1> SUFFICES ASSUME IInv, Visit PROVE IInv'
  OBVIOUS
<1> USE DEF IInv
<1>1. PICK n \in Beyond(order[head]) \ Found : order' = Append(order, n)
  BY DEF Visit
<1>2. n \in Node
  BY <1>1, LinkEnds
<1>3. /\ order' \in Seq(Node \cup {NoNode})
      /\ Len(order') = Len(order) + 1
      /\ \A i \in 1 .. Len(order) : order'[i] = order[i]
      /\ Found' = Found \cup {n}
  BY <1>1, <1>2, OneMore DEF SearchOK
<1>4. UNCHANGED <<graph, call, stage, head>> /\ head <= Len(order) /\ stage = "search"
  BY DEF Visit
<1>5. \A m : Beyond(m)' = Beyond(m)
  BY <1>4 DEF Beyond, Sources, Targets
<1>6. InputOK'
  BY <1>4 DEF InputOK
<1>7. SearchOK'
  <2>1. IsFiniteSet(Found') /\ Cardinality(Found') = Len(order) + 1
    BY <1>1, <1>3, FS_AddElement DEF SearchOK
  <2>2. head' \in 1 .. Len(order') + 1 /\ Len(order) \in Nat
    BY <1>3, <1>4 DEF SearchOK
  <2>3. \A i \in 1 .. head' - 1 : order'[i] = order[i]
    BY <1>3, <1>4, <2>2 DEF SearchOK
  <2>4. \A i \in 1 .. head' - 1 : (Beyond(order[i]))' \subseteq Found'
    BY <1>3, <1>4, <1>5, <2>3 DEF SearchOK
  <2>5. call'.from \in Found'
    BY <1>3, <1>4 DEF SearchOK
  <2> QED
    BY <1>3, <2>1, <2>2, <2>4, <2>5 DEF SearchOK
<1>8. FoundIsReachable'
  <2> SUFFICES ASSUME NEW S \in SUBSET Node, Closed(S)' PROVE Found' \subseteq S
    BY DEF FoundIsReachable
  <2>1. Closed(S)
    BY <1>4, <1>5 DEF Closed
  <2>2. order[head] \in Found
    BY <1>4, FoundSet DEF SearchOK
  <2>3. n \in S
    BY <1>1, <2>1, <2>2 DEF FoundIsReachable, Closed
  <2> QED
    BY <1>3, <2>1, <2>3 DEF FoundIsReachable
<1>9. SearchOver'
  BY <1>4 DEF SearchOver
<1> QED
  BY <1>6, <1>7, <1>8, <1>9

LEMMA ExpandedInv == IInv /\ Expanded => IInv'
<1> SUFFICES ASSUME IInv, Expanded PROVE IInv'
  OBVIOUS
<1> USE DEF IInv
<1>1. /\ UNCHANGED <<graph, call, stage, order>>
      /\ head <= Len(order) /\ head' = head + 1 /\ stage = "search"
      /\ Beyond(order[head]) \subseteq Found
  BY DEF Expanded
<1>2. Found' = Found /\ \A m : Beyond(m)' = Beyond(m)
  BY <1>1 DEF Found, Range, Beyond, Sources, Targets
<1>3. InputOK' /\ FoundIsReachable' /\ SearchOver'
  BY <1>1, <1>2 DEF InputOK, FoundIsReachable, Closed, SearchOver
<1>4. \A i \in 1 .. head' - 1 : i \in 1 .. head - 1 \/ i = head
  BY <1>1 DEF SearchOK
<1>5. SearchOK'
  BY <1>1, <1>2, <1>4 DEF SearchOK
<1> QED
  BY <1>3, <1>5

LEMMA SearchedInv == IInv /\ Searched => IInv'
<1> SUFFICES ASSUME IInv, Searched PROVE IInv'
  OBVIOUS
<1>1. head = Len(order) + 1
  BY DEF Searched, IInv, SearchOK
<1>2. UNCHANGED <<graph, call, search>> /\ stage = "search" /\ stage' # "search"
  BY DEF Searched
<1> QED
  BY <1>1, <1>2, SearchKept

LEMMA PathsInv ==
    IInv /\ (NoMorePaths \/ SamePlace \/ BeginPath \/ Relax \/ EndPath) => IInv'
<1> SUFFICES ASSUME IInv, NoMorePaths \/ SamePlace \/ BeginPath \/ Relax \/ EndPath PROVE IInv'
  OBVIOUS
<1>1. UNCHANGED <<graph, call, search>> /\ stage # "search" /\ stage' # "search"
  BY DEF NoMorePaths, SamePlace, BeginPath, Relax, EndPath
<1> QED
  BY <1>1, SearchKept

LEMMA SpofsInv ==
    IInv /\ (Root \/ Descend \/ LookBack \/ Return \/ AllNumbered) => IInv'
<1> SUFFICES ASSUME IInv, Root \/ Descend \/ LookBack \/ Return \/ AllNumbered PROVE IInv'
  OBVIOUS
<1>1. UNCHANGED <<graph, call, search>> /\ stage # "search" /\ stage' # "search"
  BY DEF Root, Descend, LookBack, Return, AllNumbered
<1> QED
  BY <1>1, SearchKept

LEMMA NextInv == IInv /\ [Next]_vars => IInv'
<1> SUFFICES ASSUME IInv, [Next]_vars PROVE IInv'
  OBVIOUS
<1>1. CASE Returned \/ UNCHANGED vars
  <2>1. UNCHANGED <<graph, call, search, stage>>
    BY <1>1 DEF Returned, vars
  <2> QED
    BY <2>1, SearchKept
<1> QED
  BY <1>1, VisitInv, ExpandedInv, SearchedInv, PathsInv, SpofsInv DEF Next

-----------------------------------------------------------------------------
LEMMA FoundIsClosed ==
    ASSUME IInv, Done(Searches)
    PROVE  call.from \in Node /\ Found \subseteq Node /\ Closed(Found)
<1> USE DEF IInv
<1>1. head = Len(order) + 1
  BY DEF Done, SearchOver
<1>2. call.from \in Node
  BY CallParts DEF Done
<1>3. Closed(Node)
  BY <1>2, LinkEnds DEF Closed
<1>4. Found \subseteq Node
  BY <1>3 DEF FoundIsReachable
<1>5. \A n \in Found : \E i \in 1 .. head - 1 : n = order[i]
  BY <1>1, FoundSet DEF SearchOK
<1> QED
  BY <1>2, <1>4, <1>5 DEF SearchOK, Closed

LEMMA Exact == IInv => SearchIsExact
<1> SUFFICES ASSUME IInv, Done(Searches)
             PROVE  /\ call.op = "upstream" => Found = Closure(call.from, Sources)
                    /\ call.op # "upstream" => Found = Closure(call.from, Targets)
                    /\ Cardinality(Found) = Len(order)
  BY DEF SearchIsExact, Done, Searches
<1>1. Closed(Found) /\ Found \subseteq Node
  BY FoundIsClosed
<1>2. Found = {m \in Node : \A S \in SUBSET Node : Closed(S) => m \in S}
  BY <1>1 DEF IInv, FoundIsReachable
<1>3. call.op = "upstream" => Found = Closure(call.from, Sources)
  BY <1>2 DEF Closure, Closed, Beyond
<1>4. call.op # "upstream" => Found = Closure(call.from, Targets)
  BY <1>2 DEF Closure, Closed, Beyond
<1> QED
  BY <1>3, <1>4 DEF IInv, SearchOK

(* What get_upstream, get_downstream and calculate_blast_radius report is  *)
(* exactly what can be reached, each device once.                          *)
THEOREM SearchCorrect == Spec => []SearchIsExact
  BY InitInv, NextInv, Exact, PTL DEF Spec

-----------------------------------------------------------------------------
(* Routes.  Weights are naturals and the graphs finite, so that the minima *)
(* and sums the code takes exist.                                          *)

(* A route may go from n to m.                                             *)
OpenTo(n, m) == m \in Targets(n) /\ (m \notin blocked \/ m = call.to)

LEMMA KnownFinite ==
    ASSUME InputOK
    PROVE  IsFiniteSet(Known) /\ Cardinality(Known) \in Nat
<1> DEFINE L == graph.links
           s == [l \in L |-> l.source]
           t == [l \in L |-> l.target]
<1>1. IsFiniteSet(graph.nodes) /\ IsFiniteSet(L)
  BY FiniteAssumption DEF InputOK
<1>2. IsFiniteSet({s[l] : l \in L}) /\ IsFiniteSet({t[l] : l \in L})
  <2> HIDE DEF L, s, t
  <2> QED BY <1>1, ImageFinite
<1>3. Known = (graph.nodes \cup {s[l] : l \in L}) \cup {t[l] : l \in L}
  <2>1. UNION {{l.source, l.target} : l \in L} = {s[l] : l \in L} \cup {t[l] : l \in L}
    <3>1. ASSUME NEW x \in UNION {{l.source, l.target} : l \in L}
          PROVE  x \in {s[l] : l \in L} \cup {t[l] : l \in L}
      <4>1. PICK l \in L : x \in {l.source, l.target}
        OBVIOUS
      <4>2. s[l] = l.source /\ t[l] = l.target
        OBVIOUS
      <4> HIDE DEF s, t
      <4> QED BY <4>1, <4>2
    <3>2. ASSUME NEW x \in {s[l] : l \in L} \cup {t[l] : l \in L}
          PROVE  x \in UNION {{l.source, l.target} : l \in L}
      <4>1. PICK l \in L : x = s[l] \/ x = t[l]
        OBVIOUS
      <4>2. x \in {l.source, l.target} /\ {l.source, l.target} \in {{k.source, k.target} : k \in L}
        BY <4>1
      <4> HIDE DEF L
      <4> QED BY <4>2
    <3> HIDE DEF L, s, t
    <3> QED BY <3>1, <3>2
  <2> QED BY <2>1 DEF Known
<1> HIDE DEF L, s, t
<1> QED BY <1>1, <1>2, <1>3, FS_Union, FS_CardinalityType

LEMMA LinkTypes ==
    ASSUME InputOK, NEW l \in graph.links
    PROVE  /\ l.weight \in Nat
           /\ l.source \in Known /\ l.target \in Known
<1>1. l.weight \in Nat
  BY GraphsAssumption DEF InputOK
<1>2. {l.source, l.target} \in {{k.source, k.target} : k \in graph.links}
  OBVIOUS
<1> QED BY <1>1, <1>2 DEF Known

LEMMA TargetsKnown ==
    ASSUME InputOK, NEW n
    PROVE  Targets(n) \subseteq Known
  BY LinkTypes DEF Targets

(* The weight of a hop: that of the lightest link.                         *)
LEMMA HopIs ==
    ASSUME InputOK, NEW n, NEW m \in Targets(n)
    PROVE  /\ HopWeight(n, m) \in Nat
           /\ \E l \in graph.links : l.source = n /\ l.target = m /\ l.weight = HopWeight(n, m)
           /\ \A l \in graph.links : l.source = n /\ l.target = m => HopWeight(n, m) <= l.weight
<1> DEFINE S == {l.weight : l \in {k \in graph.links : k.source = n /\ k.target = m}}
<1>1. S \subseteq Nat /\ S # {}
  BY LinkTypes DEF Targets
<1>2. Min(S) \in S /\ \A x \in S : Min(S) <= x
  <2> HIDE DEF S
  <2> QED BY <1>1, Smallest
<1>3. HopWeight(n, m) = Min(S)
  BY DEF HopWeight
<1> HIDE DEF HopWeight
<1>4. HopWeight(n, m) \in S /\ \A x \in S : HopWeight(n, m) <= x
  BY <1>2, <1>3
<1> QED BY <1>1, <1>4

(* What the relaxation of n gives each node next to it.                    *)
LEMMA ViaIs ==
    ASSUME InputOK, NEW n, NEW cost \in Nat
    PROVE  /\ DOMAIN CostVia(n, cost) = {m \in Targets(n) : OpenTo(n, m)}
           /\ \A m \in DOMAIN CostVia(n, cost) :
                CostVia(n, cost)[m] = cost + HopWeight(n, m)
<1>1. {l.target : l \in Open(n)} = {m \in Targets(n) : OpenTo(n, m)}
  BY DEF Open, Targets, OpenTo
<1>2. ASSUME NEW m \in Targets(n), OpenTo(n, m)
      PROVE  Min({cost + l.weight : l \in {k \in Open(n) : k.target = m}}) = cost + HopWeight(n, m)
  <2> DEFINE S == {cost + l.weight : l \in {k \in Open(n) : k.target = m}}
             h == HopWeight(n, m)
  <2>1. {k \in Open(n) : k.target = m} = {k \in graph.links : k.source = n /\ k.target = m}
    BY <1>2 DEF Open, OpenTo
  <2>2. h \in Nat /\ cost + h \in S
    BY <2>1, HopIs
  <2>3. \A x \in S : x \in Nat /\ cost + h <= x
    <3> TAKE x \in S
    <3>1. PICK l \in graph.links : l.source = n /\ l.target = m /\ x = cost + l.weight
      BY <2>1
    <3>2. l.weight \in Nat /\ h <= l.weight
      BY <3>1, LinkTypes, HopIs
    <3> QED BY <3>1, <3>2, <2>2
  <2> HIDE DEF S, h
  <2>4. Min(S) \in S /\ \A x \in S : Min(S) <= x
    BY <2>2, <2>3, Smallest
  <2>5. Min(S) = cost + h
    BY <2>2, <2>3, <2>4
  <2> QED BY <2>5 DEF S, h
<1> QED BY <1>1, <1>2 DEF CostVia

-----------------------------------------------------------------------------
(* What the first k nodes of a way cost.                                   *)
Cost(w, k) == SumFunction([i \in 1 .. k - 1 |-> HopWeight(w[i], w[i + 1])])

(* A way of n nodes along the links.                                       *)
Along(w, n) == n \in Nat /\ \A i \in 1 .. n - 1 : w[i + 1] \in Targets(w[i])

LEMMA CostFirst == ASSUME NEW w PROVE Cost(w, 1) = 0
<1> DEFINE f == [i \in 1 .. 1 - 1 |-> HopWeight(w[i], w[i + 1])]
<1>1. 1 .. 1 - 1 = {}
  OBVIOUS
<1>2. f \in [{} -> Int]
  BY <1>1
<1>3. SumFunction(f) = 0
  <2>1. IsFiniteSet({}) /\ Cardinality({}) = 0
    BY FS_EmptySet
  <2> HIDE DEF f
  <2> DEFINE zero == 0
  <2>2. zero \in Int /\ \A x \in {} : zero <= f[x] /\ f[x] <= zero
    OBVIOUS
  <2>3. SumFunction(f) \in Int /\ zero * Cardinality({}) <= SumFunction(f)
        /\ SumFunction(f) <= zero * Cardinality({})
    <3> HIDE DEF zero
    <3> QED BY <1>2, <2>1, <2>2, SumBounds
  <2> QED BY <2>1, <2>3
<1> QED BY <1>3 DEF Cost

LEMMA CostNext ==
    ASSUME InputOK, NEW w, NEW n, Along(w, n), NEW k \in 1 .. n - 1
    PROVE  /\ Cost(w, k) \in Int
           /\ Cost(w, k + 1) = Cost(w, k) + HopWeight(w[k], w[k + 1])
<1> DEFINE S == 1 .. (k + 1) - 1
           f == [i \in S |-> HopWeight(w[i], w[i + 1])]
<1>1. S = 1 .. k /\ S \ {k} = 1 .. k - 1 /\ k \in S
  BY DEF Along
<1>2. IsFiniteSet(S)
  <2>1. k \in Int
    BY DEF Along
  <2> QED BY <1>1, <2>1, FS_Interval
<1>3. f \in [S -> Int]
  <2>1. \A i \in S : i \in 1 .. n - 1
    BY <1>1 DEF Along
  <2>2. \A i \in S : HopWeight(w[i], w[i + 1]) \in Int
    BY <2>1, HopIs DEF Along
  <2> QED BY <2>2
<1>4. [y \in S \ {k} |-> f[y]] = [i \in 1 .. k - 1 |-> HopWeight(w[i], w[i + 1])]
  BY <1>1
<1>5. f[k] = HopWeight(w[k], w[k + 1])
  BY <1>1
<1>6. /\ SumFunction([y \in S \ {k} |-> f[y]]) \in Int
      /\ SumFunction(f) = f[k] + SumFunction([y \in S \ {k} |-> f[y]])
  <2>1. k \in S
    BY <1>1
  <2> HIDE DEF S, f
  <2> QED BY <1>2, <1>3, <2>1, SumSplit
<1>7. f[k] \in Int
  BY <1>1, <1>3
<1>8. Cost(w, k + 1) = SumFunction(f) /\ Cost(w, k) = SumFunction([y \in S \ {k} |-> f[y]])
  BY <1>4 DEF Cost
<1> HIDE DEF f, S, Cost
<1> QED BY <1>5, <1>6, <1>7, <1>8

LEMMA CostGrows ==
    ASSUME InputOK, NEW w, NEW n, Along(w, n), NEW j \in 1 .. n
    PROVE  \A k \in j .. n : Cost(w, j) \in Nat /\ Cost(w, k) \in Nat /\ Cost(w, j) <= Cost(w, k)
<1>0. n \in Nat
  BY DEF Along
<1>1. \A i \in 1 .. n - 1 : HopWeight(w[i], w[i + 1]) \in Nat
  BY HopIs DEF Along
<1> DEFINE Natural == {i \in Nat : i + 1 <= n => Cost(w, i + 1) \in Nat}
           Above == {i \in Nat : j + i <= n => Cost(w, j) <= Cost(w, j + i) /\ Cost(w, j + i) \in Nat}
<1>2. Nat \subseteq Natural
  <2>1. 0 \in Natural
    BY CostFirst
  <2>2. ASSUME NEW i \in Nat, i \in Natural PROVE i + 1 \in Natural
    <3> SUFFICES ASSUME (i + 1) + 1 <= n PROVE Cost(w, (i + 1) + 1) \in Nat
      OBVIOUS
    <3>1. i + 1 \in 1 .. n - 1
      BY <1>0
    <3>2. Cost(w, i + 1) \in Nat
      BY <2>2, <1>0
    <3>3. Cost(w, (i + 1) + 1) = Cost(w, i + 1) + HopWeight(w[i + 1], w[(i + 1) + 1])
      BY <3>1, CostNext
    <3>4. HopWeight(w[i + 1], w[(i + 1) + 1]) \in Nat
      BY <3>1, <1>1
    <3> QED BY <3>2, <3>3, <3>4
  <2> HIDE DEF Natural
  <2> QED BY <2>1, <2>2, Induction
<1>3. \A k \in 1 .. n : Cost(w, k) \in Nat
  <2> TAKE k \in 1 .. n
  <2>1. k - 1 \in Natural
    BY <1>0, <1>2
  <2>2. (k - 1) + 1 = k
    BY <1>0
  <2> QED BY <1>0, <2>1, <2>2
<1>4. Nat \subseteq Above
  <2>1. 0 \in Above
    BY <1>0, <1>3
  <2>2. ASSUME NEW i \in Nat, i \in Above PROVE i + 1 \in Above
    <3> SUFFICES ASSUME j + (i + 1) <= n
                 PROVE  Cost(w, j) <= Cost(w, j + (i + 1)) /\ Cost(w, j + (i + 1)) \in Nat
      OBVIOUS
    <3>1. j + i \in 1 .. n - 1 /\ j + (i + 1) = (j + i) + 1
      BY <1>0
    <3>2. Cost(w, j) <= Cost(w, j + i) /\ Cost(w, j + i) \in Nat
      BY <2>2, <3>1, <1>0
    <3>3. Cost(w, (j + i) + 1) = Cost(w, j + i) + HopWeight(w[j + i], w[(j + i) + 1])
      BY <3>1, CostNext
    <3>4. HopWeight(w[j + i], w[(j + i) + 1]) \in Nat
      BY <3>1, <1>1
    <3>5. Cost(w, j) \in Nat
      BY <1>3
    <3> HIDE DEF Cost
    <3> QED BY <3>1, <3>2, <3>3, <3>4, <3>5
  <2> HIDE DEF Above
  <2> QED BY <2>1, <2>2, Induction
<1> TAKE k \in j .. n
<1>5. k - j \in Nat /\ j + (k - j) = k /\ k <= n /\ k \in 1 .. n
  BY <1>0
<1>6. k - j \in Above
  BY <1>4, <1>5
<1> QED BY <1>3, <1>5, <1>6

-----------------------------------------------------------------------------
(* The predecessors form a tree that hangs at the start: whatever holds    *)
(* the start and is closed under them holds every node with a cost.        *)
Tree ==
    /\ call.from \in DOMAIN dist
    /\ DOMAIN prev = DOMAIN dist \ {call.from}
    /\ prev \in [DOMAIN prev -> DOMAIN dist]
    /\ \A U \in SUBSET DOMAIN dist :
         call.from \in U /\ (\A m \in DOMAIN prev : prev[m] \in U => m \in U) => DOMAIN dist \subseteq U

(* w follows the predecessors from the start to n.                         *)
Chain(w, n) ==
    /\ w \in Seq(DOMAIN dist) /\ Len(w) >= 1
    /\ w[1] = call.from /\ w[Len(w)] = n
    /\ \A k \in 1 .. Len(w) - 1 : w[k + 1] \in DOMAIN prev /\ w[k] = prev[w[k + 1]]

LEMMA ChainStart ==
    ASSUME Tree
    PROVE  Chain(<<call.from>>, call.from)
  BY DEF Tree, Chain

LEMMA ChainAppend ==
    ASSUME Tree, NEW m \in DOMAIN prev, NEW w, Chain(w, prev[m])
    PROVE  Chain(Append(w, m), m)
<1> DEFINE v == Append(w, m)
<1>0. w \in Seq(DOMAIN dist) /\ Len(w) \in Nat /\ Len(w) >= 1 /\ m \in DOMAIN dist
  BY DEF Tree, Chain
<1>1. v \in Seq(DOMAIN dist) /\ Len(v) = Len(w) + 1 /\ v[Len(w) + 1] = m
      /\ \A k \in 1 .. Len(w) : v[k] = w[k]
  BY <1>0
<1>2. w[1] = call.from /\ w[Len(w)] = prev[m]
      /\ \A k \in 1 .. Len(w) - 1 : w[k + 1] \in DOMAIN prev /\ w[k] = prev[w[k + 1]]
  BY DEF Chain
<1> HIDE DEF v
<1>3. ASSUME NEW k \in 1 .. Len(v) - 1
      PROVE  v[k + 1] \in DOMAIN prev /\ v[k] = prev[v[k + 1]]
  <2>1. CASE k = Len(w)
    BY <1>0, <1>1, <1>2, <2>1
  <2>2. CASE k # Len(w)
    <3>1. k \in 1 .. Len(w) - 1 /\ v[k] = w[k] /\ v[k + 1] = w[k + 1]
      BY <1>0, <1>1, <2>2
    <3> QED BY <1>2, <3>1
  <2> QED BY <2>1, <2>2
<1>4. v[1] = call.from /\ v[Len(v)] = m /\ Len(v) >= 1
  BY <1>0, <1>1, <1>2
<1>5. Chain(v, m)
  BY <1>1, <1>3, <1>4 DEF Chain
<1> QED BY <1>5 DEF v

LEMMA ChainExists ==
    ASSUME Tree
    PROVE  \A n \in DOMAIN dist : \E w : Chain(w, n)
<1> DEFINE U == {n \in DOMAIN dist : \E w : Chain(w, n)}
<1>1. call.from \in U
  BY ChainStart DEF Tree
<1>2. ASSUME NEW m \in DOMAIN prev, prev[m] \in U PROVE m \in U
  <2>1. PICK w : Chain(w, prev[m])
    BY <1>2
  <2>2. Chain(Append(w, m), m)
    BY <2>1, ChainAppend
  <2> QED BY <2>2 DEF Tree
<1>3. U \in SUBSET DOMAIN dist
  OBVIOUS
<1>4. DOMAIN dist \subseteq U
  <2> HIDE DEF U
  <2> QED BY <1>1, <1>2, <1>3 DEF Tree
<1> QED BY <1>4

LEMMA ChainPrefix ==
    ASSUME Tree, NEW n, NEW w, Chain(w, n), NEW j \in 1 .. Len(w)
    PROVE  Chain(SubSeq(w, 1, j), w[j]) /\ Len(SubSeq(w, 1, j)) = j
<1> DEFINE v == SubSeq(w, 1, j)
<1>0. w \in Seq(DOMAIN dist) /\ Len(w) \in Nat
  BY DEF Chain
<1>1. v \in Seq(DOMAIN dist) /\ Len(v) = j /\ \A k \in 1 .. j : v[k] = w[k]
  BY <1>0
<1> HIDE DEF v
<1>2. \A k \in 1 .. Len(w) - 1 : w[k + 1] \in DOMAIN prev /\ w[k] = prev[w[k + 1]]
  BY DEF Chain
<1>3. ASSUME NEW k \in 1 .. Len(v) - 1
      PROVE  v[k + 1] \in DOMAIN prev /\ v[k] = prev[v[k + 1]]
  <2>1. k \in 1 .. Len(w) - 1 /\ v[k] = w[k] /\ v[k + 1] = w[k + 1]
    BY <1>0, <1>1
  <2> QED BY <1>2, <2>1
<1>4. v[1] = call.from /\ v[Len(v)] = w[j] /\ Len(v) >= 1
  BY <1>0, <1>1 DEF Chain
<1>5. Chain(v, w[j])
  BY <1>1, <1>3, <1>4 DEF Chain
<1> QED BY <1>1, <1>5 DEF v

LEMMA ChainUnique ==
    ASSUME Tree
    PROVE  \A n \in DOMAIN dist : \A v, w : Chain(v, n) /\ Chain(w, n) => v = w
<1> DEFINE U == {n \in DOMAIN dist : \A v, w : Chain(v, n) /\ Chain(w, n) => v = w}
<1>1. ASSUME NEW w, Chain(w, call.from)
      PROVE  w = <<call.from>>
  <2>1. w \in Seq(DOMAIN dist) /\ Len(w) \in Nat /\ Len(w) >= 1 /\ w[1] = call.from
        /\ w[Len(w)] = call.from
    BY <1>1 DEF Chain
  <2>2. ~(Len(w) > 1)
    <3> SUFFICES ASSUME Len(w) > 1 PROVE FALSE
      OBVIOUS
    <3>1. Len(w) - 1 \in 1 .. Len(w) - 1 /\ (Len(w) - 1) + 1 = Len(w)
      BY <2>1
    <3>2. w[Len(w)] \in DOMAIN prev
      BY <1>1, <3>1 DEF Chain
    <3> QED BY <2>1, <3>2 DEF Tree
  <2>3. Len(w) = 1
    <3> DEFINE k == Len(w)
    <3>1. k \in Nat /\ k >= 1 /\ ~(k > 1)
      BY <2>1, <2>2
    <3>2. k = 1
      <4> HIDE DEF k
      <4> QED BY <3>1
    <3> QED BY <3>2
  <2> QED BY <2>1, <2>3
<1>2. call.from \in U
  BY <1>1 DEF Tree
<1>3. ASSUME NEW m \in DOMAIN prev, NEW w, Chain(w, m)
      PROVE  \E u : Chain(u, prev[m]) /\ w = Append(u, m)
  <2>1. w \in Seq(DOMAIN dist) /\ Len(w) \in Nat /\ Len(w) >= 1 /\ w[1] = call.from
        /\ w[Len(w)] = m
    BY <1>3 DEF Chain
  <2>2. m # call.from
    BY DEF Tree
  <2>3. Len(w) # 1
    BY <2>1, <2>2
  <2> DEFINE j == Len(w) - 1
             u == SubSeq(w, 1, j)
  <2>4. j \in 1 .. Len(w) /\ j \in 1 .. Len(w) - 1 /\ j + 1 = Len(w)
    BY <2>1, <2>3
  <2>5. Chain(u, w[j]) /\ Len(u) = j
    <3> HIDE DEF j
    <3> QED BY <1>3, <2>4, ChainPrefix
  <2>6. w[j] = prev[m]
    <3>1. w[j] = prev[w[j + 1]]
      BY <1>3, <2>4 DEF Chain
    <3> QED BY <3>1, <2>4, <2>1
  <2>7. w = Append(u, m)
    <3>1. u \in Seq(DOMAIN dist) /\ \A k \in 1 .. j : u[k] = w[k]
      BY <2>1, <2>4
    <3> HIDE DEF u
    <3> DEFINE v == Append(u, m)
    <3>2. v \in Seq(DOMAIN dist \cup {m}) /\ Len(v) = j + 1 /\ v[j + 1] = m
          /\ \A k \in 1 .. j : v[k] = u[k]
      BY <2>5, <3>1
    <3>3. v \in Seq(DOMAIN dist \cup {m}) /\ w \in Seq(DOMAIN dist \cup {m}) /\ Len(v) = Len(w)
          /\ \A k \in 1 .. Len(w) : v[k] = w[k]
      BY <2>1, <2>4, <3>1, <3>2
    <3> HIDE DEF v
    <3>4. v = w
      BY <3>3
    <3> QED BY <3>4 DEF v
  <2> QED BY <2>5, <2>6, <2>7
<1>4. ASSUME NEW m \in DOMAIN prev, prev[m] \in U PROVE m \in U
  <2> SUFFICES ASSUME NEW v, NEW w, Chain(v, m), Chain(w, m) PROVE v = w
    BY DEF Tree
  <2>1. PICK x : Chain(x, prev[m]) /\ v = Append(x, m)
    BY <1>3
  <2>2. PICK y : Chain(y, prev[m]) /\ w = Append(y, m)
    BY <1>3
  <2>3. x = y
    BY <2>1, <2>2, <1>4
  <2> QED BY <2>1, <2>2, <2>3
<1>5. DOMAIN dist \subseteq U
  <2>1. U \in SUBSET DOMAIN dist
    OBVIOUS
  <2> HIDE DEF U
  <2> QED BY <1>2, <1>4, <2>1 DEF Tree
<1> QED BY <1>5

LEMMA ChainInjective ==
    ASSUME Tree, NEW n, NEW w, Chain(w, n)
    PROVE  \A i, j \in 1 .. Len(w) : w[i] = w[j] => i = j
<1> SUFFICES ASSUME NEW i \in 1 .. Len(w), NEW j \in 1 .. Len(w), w[i] = w[j] PROVE i = j
  OBVIOUS
<1>1. w[i] \in DOMAIN dist
  BY DEF Chain
<1>2. Chain(SubSeq(w, 1, i), w[i]) /\ Len(SubSeq(w, 1, i)) = i
  BY ChainPrefix
<1>3. Chain(SubSeq(w, 1, j), w[i]) /\ Len(SubSeq(w, 1, j)) = j
  BY ChainPrefix
<1>4. SubSeq(w, 1, i) = SubSeq(w, 1, j)
  BY <1>1, <1>2, <1>3, ChainUnique
<1> QED BY <1>2, <1>3, <1>4

(* What EndPath reads off is that chain.                                   *)
ChainStep(c) == [n \in DOMAIN dist |-> IF n \in DOMAIN prev THEN Append(c[prev[n]], n) ELSE <<n>>]

LEMMA HopsUnfold == Hops = (CHOOSE c : c = ChainStep(c))[call.to]
  BY DEF Hops, ChainStep

LEMMA HopsIsChain ==
    ASSUME Tree, call.to \in DOMAIN dist
    PROVE  Chain(Hops, call.to)
<1> DEFINE c0 == [n \in DOMAIN dist |-> CHOOSE w : Chain(w, n)]
           c == CHOOSE x : x = ChainStep(x)
<1>1. \A n \in DOMAIN dist : Chain(c0[n], n)
  BY ChainExists
<1>2. \A n \in DOMAIN dist : c0[n] = ChainStep(c0)[n]
  <2> HIDE DEF c0
  <2> TAKE n \in DOMAIN dist
  <2>1. CASE n \in DOMAIN prev
    <3>1. prev[n] \in DOMAIN dist
      BY <2>1 DEF Tree
    <3>2. Chain(Append(c0[prev[n]], n), n)
      BY <1>1, <2>1, <3>1, ChainAppend
    <3>3. c0[n] = Append(c0[prev[n]], n)
      BY <1>1, <3>2, ChainUnique
    <3> QED BY <2>1, <3>3 DEF ChainStep
  <2>2. CASE n \notin DOMAIN prev
    <3>1. n = call.from
      BY <2>2 DEF Tree
    <3>2. c0[n] = <<n>>
      BY <1>1, <3>1, ChainStart, ChainUnique
    <3> QED BY <2>2, <3>2 DEF ChainStep
  <2> QED BY <2>1, <2>2
<1>3. c0 = ChainStep(c0)
  <2>1. ChainStep(c0) = [n \in DOMAIN dist |-> ChainStep(c0)[n]]
    BY DEF ChainStep
  <2>2. c0 = [n \in DOMAIN dist |-> c0[n]]
    OBVIOUS
  <2> HIDE DEF c0
  <2> QED BY <1>2, <2>1, <2>2
<1>4. c = ChainStep(c)
  <2> HIDE DEF c0
  <2> QED BY <1>3
<1> HIDE DEF c
<1> DEFINE U == {n \in DOMAIN dist : Chain(c[n], n)}
<1>5. call.from \in U
  <2>1. call.from \in DOMAIN dist /\ call.from \notin DOMAIN prev
    BY DEF Tree
  <2>2. c[call.from] = <<call.from>>
    BY <1>4, <2>1 DEF ChainStep
  <2> QED BY <2>1, <2>2, ChainStart
<1>6. ASSUME NEW m \in DOMAIN prev, prev[m] \in U PROVE m \in U
  <2>1. m \in DOMAIN dist
    BY DEF Tree
  <2>2. c[m] = Append(c[prev[m]], m)
    BY <1>4, <2>1 DEF ChainStep
  <2>3. Chain(Append(c[prev[m]], m), m)
    BY <1>6, ChainAppend
  <2> QED BY <2>1, <2>2, <2>3
<1>7. DOMAIN dist \subseteq U
  <2>1. U \in SUBSET DOMAIN dist
    OBVIOUS
  <2> HIDE DEF U
  <2> QED BY <1>5, <1>6, <2>1 DEF Tree
<1>8. Hops = c[call.to]
  BY HopsUnfold DEF c
<1> QED BY <1>7, <1>8

-----------------------------------------------------------------------------
(* The search for one route.  Settled nodes are those without an entry     *)
(* that holds their cost.  Costs: an entry never undercuts its node.       *)
(* Frontier: no settled node costs more than an entry, and each was        *)
(* expanded.  Branches: a cost is that of the way along the predecessors,  *)
(* which are settled.                                                      *)
Settled == {n \in DOMAIN dist : <<dist[n], n>> \notin heap}

Costs ==
    /\ DOMAIN dist \subseteq Known /\ call.from \in DOMAIN dist
    /\ dist \in [DOMAIN dist -> Nat]
    /\ dist[call.from] = 0
    /\ heap \subseteq Nat \X DOMAIN dist
    /\ \A e \in heap : dist[e[2]] <= e[1]

Frontier ==
    /\ \A s \in Settled, e \in heap : dist[s] <= e[1]
    /\ call.to \notin Settled
    /\ \A s \in Settled, m \in Known :
         OpenTo(s, m) => m \in DOMAIN dist /\ dist[m] <= dist[s] + HopWeight(s, m)

Branches ==
    \A m \in DOMAIN prev : /\ prev[m] \in Settled /\ OpenTo(prev[m], m)
                           /\ dist[m] = dist[prev[m]] + HopWeight(prev[m], m)

(* A link from the start to the target is preferred to a longer route of   *)
(* the same weight.                                                        *)
Straight ==
    call.from \in Settled /\ call.to \in Targets(call.from) /\ call.from # call.to
    /\ dist[call.to] = HopWeight(call.from, call.to)
        => call.to \in DOMAIN prev /\ prev[call.to] = call.from

Searching == Costs /\ Frontier /\ Tree /\ Branches /\ Straight

(* The same of a route that was found.                                     *)
Plain(r, a, b) ==
    b \in Targets(a) /\ a # b /\ r.weight = HopWeight(a, b) => r.hops = <<a, b>>

LEMMA ChainIsAlong ==
    ASSUME Searching, NEW n, NEW w, Chain(w, n)
    PROVE  Along(w, Len(w))
<1>1. Len(w) \in Nat
  BY DEF Chain
<1>2. ASSUME NEW i \in 1 .. Len(w) - 1 PROVE w[i + 1] \in Targets(w[i])
  <2>1. w[i + 1] \in DOMAIN prev /\ w[i] = prev[w[i + 1]]
    BY DEF Chain
  <2> QED BY <2>1 DEF Searching, Branches, OpenTo
<1> QED BY <1>1, <1>2 DEF Along

LEMMA ChainCosts ==
    ASSUME InputOK, Searching, NEW n, NEW w, Chain(w, n)
    PROVE  \A k \in 1 .. Len(w) : dist[w[k]] = Cost(w, k)
<1>0. Len(w) \in Nat /\ Len(w) >= 1 /\ w \in Seq(DOMAIN dist) /\ w[1] = call.from
  BY DEF Chain
<1> DEFINE T == {i \in Nat : i + 1 <= Len(w) => dist[w[i + 1]] = Cost(w, i + 1)}
<1>1. 0 \in T
  <2>1. dist[w[1]] = 0
    BY <1>0 DEF Searching, Costs
  <2>2. Cost(w, 1) = 0
    BY CostFirst
  <2> QED BY <2>1, <2>2
<1>2. ASSUME NEW i \in Nat, i \in T PROVE i + 1 \in T
  <2> SUFFICES ASSUME (i + 1) + 1 <= Len(w)
               PROVE  dist[w[(i + 1) + 1]] = Cost(w, (i + 1) + 1)
    OBVIOUS
  <2>1. i + 1 \in 1 .. Len(w) - 1
    BY <1>0
  <2>2. Cost(w, (i + 1) + 1) = Cost(w, i + 1) + HopWeight(w[i + 1], w[(i + 1) + 1])
    BY <2>1, ChainIsAlong, CostNext
  <2>3. w[(i + 1) + 1] \in DOMAIN prev /\ w[i + 1] = prev[w[(i + 1) + 1]]
    BY <2>1 DEF Chain
  <2>4. dist[w[(i + 1) + 1]] = dist[w[i + 1]] + HopWeight(w[i + 1], w[(i + 1) + 1])
    BY <2>3 DEF Searching, Branches
  <2>5. dist[w[i + 1]] = Cost(w, i + 1)
    BY <1>2, <2>1
  <2> QED BY <2>2, <2>4, <2>5
<1>3. Nat \subseteq T
  <2> HIDE DEF T
  <2> QED BY <1>1, <1>2, Induction
<1> TAKE k \in 1 .. Len(w)
<1>4. k - 1 \in Nat /\ (k - 1) + 1 = k /\ k <= Len(w)
  BY <1>0
<1>5. k - 1 \in T
  <2> HIDE DEF T
  <2> QED BY <1>3, <1>4
<1> QED BY <1>4, <1>5

(* A sequence of known nodes without repetition is no longer than there    *)
(* are nodes.                                                              *)
LEMMA ShortEnough ==
    ASSUME InputOK, NEW w \in Seq(Known), \A i, j \in 1 .. Len(w) : w[i] = w[j] => i = j
    PROVE  Len(w) <= Cardinality(Known)
<1>1. Len(w) \in Nat /\ w \in [1 .. Len(w) -> Known]
  OBVIOUS
<1>2. w \in Injection(1 .. Len(w), Known)
  <2> DEFINE S == 1 .. Len(w)
  <2>1. w \in [S -> Known] /\ \A i, j \in S : w[i] = w[j] => i = j
    BY <1>1
  <2> HIDE DEF S
  <2>2. w \in Injection(S, Known)
    BY <2>1 DEF Injection, IsInjective
  <2> QED BY <2>2 DEF S
<1>3. IsFiniteSet(1 .. Len(w)) /\ Cardinality(1 .. Len(w)) = Len(w)
  <2> DEFINE m == Len(w)
  <2>1. m \in Nat
    BY <1>1
  <2> HIDE DEF m
  <2>2. IsFiniteSet(1 .. m) /\ Cardinality(1 .. m) = m
    BY <2>1, FS_Interval
  <2> QED BY <2>2 DEF m
<1> DEFINE S == 1 .. Len(w)
<1>4. Cardinality(S) <= Cardinality(Known)
  <2>1. w \in Injection(S, Known)
    BY <1>2
  <2> HIDE DEF S
  <2> QED BY <2>1, KnownFinite, FS_Injection
<1> QED BY <1>3, <1>4

LEMMA HopsIsAWay ==
    ASSUME InputOK, Searching, call.to \in DOMAIN dist
    PROVE  /\ Hops \in Ways(call.from, call.to, blocked)
           /\ WayWeight(Hops) = dist[call.to]
<1> DEFINE w == Hops
<1>1. Chain(w, call.to)
  BY HopsIsChain DEF Searching
<1> HIDE DEF w
<1>2. w \in Seq(DOMAIN dist) /\ Len(w) \in Nat /\ Len(w) >= 1
      /\ w[1] = call.from /\ w[Len(w)] = call.to
  BY <1>1 DEF Chain
<1>3. w \in Seq(Known) /\ w \in [1 .. Len(w) -> Known]
  <2>1. DOMAIN dist \subseteq Known
    BY DEF Searching, Costs
  <2> QED BY <1>2, <2>1
<1>4. \A i, j \in 1 .. Len(w) : w[i] = w[j] => i = j
  BY <1>1, ChainInjective DEF Searching
<1>5. Len(w) \in 1 .. Cardinality(Known)
  <2>1. Len(w) <= Cardinality(Known)
    BY <1>3, <1>4, ShortEnough
  <2> QED BY <2>1, <1>2, KnownFinite
<1>6. \A k \in 1 .. Len(w) - 1 : w[k + 1] \in Targets(w[k])
  BY <1>1, ChainIsAlong DEF Along
<1>7. ASSUME NEW k \in 2 .. Len(w) - 1 PROVE w[k] \notin blocked
  <2>1. k \in 1 .. Len(w) - 1 /\ k - 1 \in 1 .. Len(w) - 1 /\ (k - 1) + 1 = k
    BY <1>2
  <2>2. w[k] \in Settled
    <3>1. w[k + 1] \in DOMAIN prev /\ w[k] = prev[w[k + 1]]
      BY <1>1, <2>1 DEF Chain
    <3> QED BY <3>1 DEF Searching, Branches
  <2>3. OpenTo(w[k - 1], w[k])
    <3>1. w[(k - 1) + 1] \in DOMAIN prev /\ w[k - 1] = prev[w[(k - 1) + 1]]
      BY <1>1, <2>1 DEF Chain
    <3>2. w[k] \in DOMAIN prev /\ w[k - 1] = prev[w[k]]
      BY <3>1, <2>1
    <3> QED BY <3>2 DEF Searching, Branches
  <2>4. w[k] # call.to
    BY <2>2 DEF Searching, Frontier
  <2> QED BY <2>3, <2>4 DEF OpenTo
<1>8. IsInjective(w)
  BY <1>3, <1>4 DEF IsInjective
<1>9. w \in UNION {[1 .. k -> Known] : k \in 1 .. Cardinality(Known)}
  BY <1>3, <1>5
<1>10. w \in Ways(call.from, call.to, blocked)
  BY <1>2, <1>6, <1>7, <1>8, <1>9 DEF Ways
<1>11. WayWeight(w) = dist[call.to]
  <2>1. dist[w[Len(w)]] = Cost(w, Len(w))
    <3>1. Len(w) \in 1 .. Len(w)
      BY <1>2
    <3> QED BY <1>1, <3>1, ChainCosts
  <2> QED BY <2>1, <1>2 DEF WayWeight, Cost
<1> QED BY <1>10, <1>11 DEF w

LEMMA HopsStraight ==
    ASSUME Searching, call.to \in DOMAIN dist, NEW r, r.hops = Hops, r.weight = dist[call.to]
    PROVE  Plain(r, call.from, call.to)
<1> DEFINE w == Hops
<1> SUFFICES ASSUME call.to \in Targets(call.from), call.from # call.to,
                    dist[call.to] = HopWeight(call.from, call.to)
             PROVE  w = <<call.from, call.to>>
  BY DEF Plain
<1>1. Chain(w, call.to)
  BY HopsIsChain DEF Searching
<1> HIDE DEF w
<1>2. /\ w \in Seq(DOMAIN dist) /\ Len(w) \in Nat /\ w[1] = call.from /\ w[Len(w)] = call.to
      /\ Len(w) >= 2
  <2>1. w \in Seq(DOMAIN dist) /\ Len(w) >= 1 /\ w[1] = call.from /\ w[Len(w)] = call.to
    BY <1>1 DEF Chain
  <2> QED BY <2>1
<1>3. w[2] \in DOMAIN prev /\ prev[w[2]] = call.from
  <2>1. 1 \in 1 .. Len(w) - 1 /\ 1 + 1 = 2
    BY <1>2
  <2>2. w[1 + 1] \in DOMAIN prev /\ w[1] = prev[w[1 + 1]]
    BY <1>1, <2>1 DEF Chain
  <2> QED BY <1>2, <2>2
<1>4. call.from \in Settled
  BY <1>3 DEF Searching, Branches
<1>5. prev[call.to] = call.from
  BY <1>4 DEF Searching, Straight
<1>6. w[Len(w) - 1] = call.from
  <2>1. Len(w) - 1 \in 1 .. Len(w) - 1 /\ (Len(w) - 1) + 1 = Len(w)
    BY <1>2
  <2>2. w[Len(w) - 1] = prev[w[(Len(w) - 1) + 1]]
    BY <1>1, <2>1 DEF Chain
  <2> QED BY <1>2, <1>5, <2>1, <2>2
<1>7. Len(w) - 1 = 1
  <2>1. Len(w) - 1 \in 1 .. Len(w) /\ 1 \in 1 .. Len(w)
    BY <1>2
  <2>2. \A i, j \in 1 .. Len(w) : w[i] = w[j] => i = j
    BY <1>1, ChainInjective DEF Searching
  <2> QED BY <1>2, <1>6, <2>1, <2>2
<1>8. Len(w) = 2
  BY <1>2, <1>7
<1> QED BY <1>2, <1>8

LEMMA WayIs ==
    ASSUME InputOK, NEW a, NEW b, NEW avoid, NEW w \in Ways(a, b, avoid)
    PROVE  /\ w \in Seq(Known) /\ Len(w) \in Nat /\ Len(w) >= 1
           /\ w[1] = a /\ w[Len(w)] = b
           /\ Along(w, Len(w))
           /\ \A k \in 2 .. Len(w) - 1 : w[k] \notin avoid
           /\ WayWeight(w) = Cost(w, Len(w))
<1>1. PICK k \in 1 .. Cardinality(Known) : w \in [1 .. k -> Known]
  BY DEF Ways
<1>2. k \in Nat /\ k >= 1
  BY KnownFinite
<1>3. w \in Seq(Known) /\ Len(w) = k
  BY <1>1, <1>2
<1> QED BY <1>2, <1>3 DEF Ways, Along, WayWeight, Cost

(* Any way passes an entry of the heap that costs no more than the way.    *)
LEMMA WayMeetsFrontier ==
    ASSUME InputOK, Searching, NEW w \in Ways(call.from, call.to, blocked)
    PROVE  \E e \in heap : e[1] <= WayWeight(w)
<1> DEFINE n == Len(w)
<1>1. /\ w \in Seq(Known) /\ n \in Nat /\ n >= 1
      /\ w[1] = call.from /\ w[n] = call.to /\ Along(w, n)
      /\ \A k \in 2 .. n - 1 : w[k] \notin blocked
      /\ WayWeight(w) = Cost(w, n)
  BY WayIs
<1> HIDE DEF n
<1> DEFINE Outside == {k \in 1 .. n : w[k] \notin Settled}
<1>2. PICK k \in Outside : \A j \in Outside : k <= j
  <2>1. n \in Outside
    BY <1>1 DEF Searching, Frontier
  <2>2. Outside \subseteq Nat /\ Outside # {}
    BY <2>1
  <2> HIDE DEF Outside
  <2> QED BY <2>2, Least
<1>3. k \in 1 .. n /\ k \in Nat /\ w[k] \notin Settled /\ \A j \in 1 .. n : j < k => w[j] \in Settled
  BY <1>1, <1>2
<1> HIDE DEF Outside
<1> DEFINE T == {i \in Nat : i + 1 <= k => w[i + 1] \in DOMAIN dist /\ dist[w[i + 1]] <= Cost(w, i + 1)}
<1>4. 0 \in T
  <2>1. w[1] \in DOMAIN dist /\ dist[w[1]] = 0
    BY <1>1 DEF Searching, Costs
  <2>2. Cost(w, 1) = 0
    BY CostFirst
  <2> QED BY <2>1, <2>2
<1>5. ASSUME NEW i \in Nat, i \in T PROVE i + 1 \in T
  <2> SUFFICES ASSUME (i + 1) + 1 <= k
               PROVE  w[(i + 1) + 1] \in DOMAIN dist /\ dist[w[(i + 1) + 1]] <= Cost(w, (i + 1) + 1)
    OBVIOUS
  <2> DEFINE a == w[i + 1]
             b == w[(i + 1) + 1]
  <2>1. i + 1 \in 1 .. n - 1 /\ i + 1 < k /\ i + 1 \in 1 .. n /\ (i + 1) + 1 \in 1 .. n
    BY <1>1, <1>3
  <2>2. a \in DOMAIN dist /\ dist[a] <= Cost(w, i + 1)
    <3>1. i + 1 <= k => w[i + 1] \in DOMAIN dist /\ dist[w[i + 1]] <= Cost(w, i + 1)
      BY <1>5
    <3>2. i + 1 <= k
      BY <1>3, <2>1
    <3> QED BY <3>1, <3>2
  <2>3. a \in Settled
    BY <1>3, <2>1
  <2>4. b \in Targets(a) /\ b \in Known
    <3>1. \A j \in 1 .. n - 1 : w[j + 1] \in Targets(w[j])
      BY <1>1 DEF Along
    <3>2. b \in Targets(a)
      BY <2>1, <3>1
    <3> QED BY <3>2, TargetsKnown
  <2>5. OpenTo(a, b)
    <3>1. CASE (i + 1) + 1 = n
      <4>1. b = call.to
        BY <3>1, <1>1
      <4> QED BY <2>4, <4>1 DEF OpenTo
    <3>2. CASE (i + 1) + 1 # n
      <4>1. (i + 1) + 1 \in 2 .. n - 1
        BY <1>1, <2>1, <3>2
      <4> QED BY <4>1, <1>1, <2>4 DEF OpenTo
    <3> QED BY <3>1, <3>2
  <2>6. b \in DOMAIN dist /\ dist[b] <= dist[a] + HopWeight(a, b)
    BY <2>3, <2>4, <2>5 DEF Searching, Frontier
  <2>7. /\ Cost(w, i + 1) \in Int
        /\ Cost(w, (i + 1) + 1) = Cost(w, i + 1) + HopWeight(a, b)
    BY <1>1, <2>1, CostNext
  <2>8. HopWeight(a, b) \in Nat
    BY <2>4, HopIs
  <2>9. dist[a] \in Nat /\ dist[b] \in Nat
    BY <2>2, <2>6 DEF Searching, Costs
  <2> QED BY <2>2, <2>6, <2>7, <2>8, <2>9
<1>6. Nat \subseteq T
  <2> HIDE DEF T
  <2> QED BY <1>4, <1>5, Induction
<1>7. w[k] \in DOMAIN dist /\ dist[w[k]] <= Cost(w, k)
  <2>1. k - 1 \in T /\ (k - 1) + 1 = k
    BY <1>3, <1>6
  <2> QED BY <1>3, <2>1
<1>8. <<dist[w[k]], w[k]>> \in heap
  BY <1>3, <1>7 DEF Settled
<1>9. Cost(w, k) \in Nat /\ Cost(w, n) \in Nat /\ Cost(w, k) <= Cost(w, n)
  <2>1. n \in k .. n
    BY <1>1, <1>3
  <2> QED BY <1>1, <1>3, <2>1, CostGrows
<1>10. dist[w[k]] \in Nat
  BY <1>7 DEF Searching, Costs
<1>11. dist[w[k]] <= WayWeight(w)
  BY <1>1, <1>7, <1>9, <1>10
<1> QED BY <1>8, <1>11

-----------------------------------------------------------------------------
LEMMA BeginSearch ==
    ASSUME InputOK, BeginPath
    PROVE  Searching'
<1>1. /\ dist' = [n \in {call.from} |-> 0] /\ prev' = <<>> /\ heap' = {<<0, call.from>>}
      /\ graph' = graph /\ call' = call /\ blocked' = blocked /\ call.from \in Known
  BY DEF BeginPath
<1>2. DOMAIN dist' = {call.from} /\ dist'[call.from] = 0 /\ DOMAIN prev' = {}
  BY <1>1
<1>3. Settled' = {}
  BY <1>1, <1>2 DEF Settled
<1>4. Costs'
  <2>1. Known' = Known
    BY <1>1 DEF Known
  <2>2. heap' \subseteq Nat \X DOMAIN dist'
    BY <1>1, <1>2
  <2>3. \A e \in heap' : dist'[e[2]] <= e[1]
    BY <1>1, <1>2
  <2> QED BY <1>1, <1>2, <2>1, <2>2, <2>3 DEF Costs
<1>5. Frontier'
  BY <1>3 DEF Frontier
<1>6. Tree'
  BY <1>1, <1>2 DEF Tree
<1>7. Branches'
  BY <1>2 DEF Branches
<1>8. Straight'
  BY <1>3 DEF Straight
<1> QED BY <1>4, <1>5, <1>6, <1>7, <1>8 DEF Searching

(* One turn of the loop: a stale entry changes nothing, any other settles  *)
(* its node.                                                               *)
LEMMA RelaxStale ==
    ASSUME InputOK, Searching, Relax, NEW e \in heap,
           ~(e[1] <= dist[e[2]]), dist' = dist, prev' = prev, heap' = heap \ {e}
    PROVE  Searching'
<1>1. graph' = graph /\ call' = call /\ blocked' = blocked
  BY DEF Relax
<1>2. Known' = Known /\ (\A a, b : OpenTo(a, b)' <=> OpenTo(a, b))
      /\ (\A a, b : HopWeight(a, b)' = HopWeight(a, b))
  BY <1>1 DEF Known, OpenTo, Targets, HopWeight
<1>3. Settled' = Settled
  <2>1. \A n \in DOMAIN dist : <<dist[n], n>> # e
    <3> SUFFICES ASSUME NEW n \in DOMAIN dist, e = <<dist[n], n>> PROVE FALSE
      OBVIOUS
    <3>1. e[1] = dist[n] /\ e[2] = n /\ dist[n] \in Nat
      BY DEF Searching, Costs
    <3> QED BY <3>1
  <2> QED BY <2>1 DEF Settled
<1>4. Costs'
  BY <1>1, <1>2 DEF Searching, Costs
<1>5. Frontier'
  BY <1>1, <1>2, <1>3 DEF Searching, Frontier
<1>6. Tree'
  BY <1>1 DEF Searching, Tree
<1>7. Branches'
  BY <1>2, <1>3 DEF Searching, Branches
<1>8. Straight'
  <2>1. Targets(call.from)' = Targets(call.from)
    BY <1>1 DEF Targets
  <2> QED BY <1>1, <1>2, <1>3, <2>1 DEF Searching, Straight
<1> QED BY <1>4, <1>5, <1>6, <1>7, <1>8 DEF Searching

LEMMA RelaxFresh ==
    ASSUME InputOK, Searching, Relax, NEW c, NEW n, <<c, n>> \in heap,
           \A f \in heap : c <= f[1], n # call.to, c <= dist[n],
           NEW cheaper,
           cheaper = {m \in DOMAIN CostVia(n, c) : m \in DOMAIN dist => CostVia(n, c)[m] < dist[m]},
           dist' = Overwrite(dist, Restrict(CostVia(n, c), cheaper)),
           prev' = Overwrite(prev, [m \in cheaper |-> n]),
           heap' = (heap \ {<<c, n>>}) \cup {<<CostVia(n, c)[m], m>> : m \in cheaper}
    PROVE  Searching'
<1> DEFINE cost(m) == c + HopWeight(n, m)
<1>1. graph' = graph /\ call' = call /\ blocked' = blocked
  BY DEF Relax
<1>2. Known' = Known /\ (\A a, b : OpenTo(a, b)' <=> OpenTo(a, b))
      /\ (\A a, b : HopWeight(a, b)' = HopWeight(a, b))
  BY <1>1 DEF Known, OpenTo, Targets, HopWeight
<1>3. c \in Nat /\ n \in DOMAIN dist /\ dist[n] = c /\ \A m \in DOMAIN dist : dist[m] \in Nat
  <2>1. <<c, n>> \in Nat \X DOMAIN dist /\ dist[n] <= c
    BY DEF Searching, Costs
  <2> QED BY <2>1 DEF Searching, Costs
<1>4. DOMAIN CostVia(n, c) = {m \in Targets(n) : OpenTo(n, m)}
      /\ \A m \in DOMAIN CostVia(n, c) : CostVia(n, c)[m] = cost(m) /\ cost(m) \in Nat /\ c <= cost(m)
  <2> DEFINE via == CostVia(n, c)
  <2>1. /\ DOMAIN via = {m \in Targets(n) : OpenTo(n, m)}
        /\ \A m \in DOMAIN via : via[m] = c + HopWeight(n, m)
    BY <1>3, ViaIs
  <2>2. \A m \in DOMAIN via : HopWeight(n, m) \in Nat
    BY <2>1, HopIs
  <2> HIDE DEF via
  <2>3. \A m \in DOMAIN via : via[m] = cost(m) /\ cost(m) \in Nat /\ c <= cost(m)
    BY <2>1, <2>2, <1>3
  <2> QED BY <2>1, <2>3 DEF via
<1>5. \A m \in cheaper : /\ m \in Known /\ OpenTo(n, m) /\ cost(m) \in Nat /\ c <= cost(m)
                         /\ CostVia(n, c)[m] = cost(m)
                         /\ m \in DOMAIN dist => cost(m) < dist[m]
  BY <1>4, TargetsKnown
<1>6. \A m : m \in Targets(n) /\ OpenTo(n, m) /\ m \notin cheaper =>
              m \in DOMAIN dist /\ dist[m] <= cost(m)
  BY <1>3, <1>4
<1>7. DOMAIN dist' = DOMAIN dist \cup cheaper
      /\ (\A m \in cheaper : dist'[m] = cost(m))
      /\ (\A m \in DOMAIN dist \ cheaper : dist'[m] = dist[m])
      /\ dist' = [m \in DOMAIN dist' |-> dist'[m]]
  <2> DEFINE g == Restrict(CostVia(n, c), cheaper)
  <2>1. DOMAIN g = cheaper /\ \A m \in cheaper : g[m] = cost(m)
    BY <1>5 DEF Restrict
  <2>2. dist' = [x \in DOMAIN dist \cup DOMAIN g |-> IF x \in DOMAIN g THEN g[x] ELSE dist[x]]
    BY DEF Overwrite
  <2> HIDE DEF g
  <2>3. /\ DOMAIN dist' = DOMAIN dist \cup cheaper
        /\ \A m \in DOMAIN dist' : dist'[m] = IF m \in cheaper THEN g[m] ELSE dist[m]
    BY <2>1, <2>2
  <2>4. dist' = [m \in DOMAIN dist' |-> dist'[m]]
    BY <2>2
  <2> QED BY <2>1, <2>3, <2>4
<1>8. DOMAIN prev' = DOMAIN prev \cup cheaper
      /\ (\A m \in cheaper : prev'[m] = n)
      /\ (\A m \in DOMAIN prev \ cheaper : prev'[m] = prev[m])
      /\ prev' = [m \in DOMAIN prev' |-> prev'[m]]
  <2> DEFINE g == [m \in cheaper |-> n]
  <2>1. DOMAIN g = cheaper /\ \A m \in cheaper : g[m] = n
    OBVIOUS
  <2>2. prev' = [x \in DOMAIN prev \cup DOMAIN g |-> IF x \in DOMAIN g THEN g[x] ELSE prev[x]]
    BY DEF Overwrite
  <2> HIDE DEF g
  <2>3. /\ DOMAIN prev' = DOMAIN prev \cup cheaper
        /\ \A m \in DOMAIN prev' : prev'[m] = IF m \in cheaper THEN g[m] ELSE prev[m]
    BY <2>1, <2>2
  <2>4. prev' = [m \in DOMAIN prev' |-> prev'[m]]
    BY <2>2
  <2> QED BY <2>1, <2>3, <2>4
<1>9. \A f : f \in heap' <=> (f \in heap /\ f # <<c, n>>) \/ \E m \in cheaper : f = <<cost(m), m>>
  BY <1>5
<1>10. \A s \in Settled \cup {n} : s \in DOMAIN dist /\ s \notin cheaper /\ dist[s] <= c
  <2>1. \A s \in Settled \cup {n} : s \in DOMAIN dist /\ dist[s] <= c
    <3>1. \A s \in Settled : dist[s] <= c
      <4>1. \A f \in heap : \A s \in Settled : dist[s] <= f[1]
        BY DEF Searching, Frontier
      <4>2. \A s \in Settled : dist[s] <= <<c, n>>[1]
        BY <4>1
      <4> QED BY <4>2
    <3> QED BY <1>3, <3>1 DEF Settled
  <2> QED BY <2>1, <1>3, <1>5
<1>11. call.from \notin cheaper /\ call.from \in DOMAIN dist /\ dist[call.from] = 0
  <2>1. call.from \in DOMAIN dist /\ dist[call.from] = 0
    BY DEF Searching, Costs
  <2> QED BY <2>1, <1>3, <1>5
<1> HIDE DEF cost
<1>12. Settled' = Settled \cup {n}
  <2>1. ASSUME NEW m \in cheaper PROVE m \notin Settled'
    <3>1. <<dist'[m], m>> \in heap'
      BY <1>7, <1>9
    <3> QED BY <3>1 DEF Settled
  <2>2. ASSUME NEW m \in DOMAIN dist \ cheaper
        PROVE  m \in Settled' <=> m \in Settled \cup {n}
    <3>1. <<dist[m], m>> \in heap' <=> <<dist[m], m>> \in heap /\ <<dist[m], m>> # <<c, n>>
      BY <1>9
    <3>2. <<dist[m], m>> = <<c, n>> <=> m = n
      BY <1>3
    <3>3. dist'[m] = dist[m] /\ m \in DOMAIN dist'
      BY <1>7
    <3>4. m \in Settled' <=> <<dist[m], m>> \notin heap'
      BY <3>3 DEF Settled
    <3> QED BY <3>1, <3>2, <3>4 DEF Settled
  <2>3. Settled' \subseteq DOMAIN dist'
    BY DEF Settled
  <2> QED BY <2>1, <2>2, <2>3, <1>7, <1>10
<1>13. \A m \in DOMAIN dist' : dist'[m] \in Nat /\ m \in Known
  BY <1>3, <1>5, <1>7 DEF Searching, Costs
<1>14. \A m \in DOMAIN dist : m \in DOMAIN dist' /\ dist'[m] <= dist[m]
  BY <1>3, <1>5, <1>7
<1>15. Costs'
  <2>1. call'.from = call.from /\ call.from \in DOMAIN dist' /\ dist'[call.from] = 0
    BY <1>1, <1>7, <1>11
  <2>2. ASSUME NEW f \in heap' PROVE f \in Nat \X DOMAIN dist' /\ dist'[f[2]] <= f[1]
    <3>1. CASE f \in heap
      <4>1. f \in Nat \X DOMAIN dist /\ dist[f[2]] <= f[1]
        BY <3>1 DEF Searching, Costs
      <4>2. f[2] \in DOMAIN dist /\ f[1] \in Nat /\ f = <<f[1], f[2]>>
        BY <4>1
      <4>3. f[2] \in DOMAIN dist' /\ dist'[f[2]] <= dist[f[2]] /\ dist'[f[2]] \in Nat /\ dist[f[2]] \in Nat
        BY <4>2, <1>3, <1>13, <1>14
      <4> QED BY <4>1, <4>2, <4>3
    <3>2. CASE \E m \in cheaper : f = <<cost(m), m>>
      <4>1. PICK m \in cheaper : f = <<cost(m), m>>
        BY <3>2
      <4>2. m \in DOMAIN dist' /\ dist'[m] = cost(m) /\ cost(m) \in Nat
        BY <1>5, <1>7
      <4> QED BY <4>1, <4>2
    <3> QED BY <3>1, <3>2, <1>9
  <2>3. dist' \in [DOMAIN dist' -> Nat]
    BY <1>7, <1>13
  <2> QED BY <2>1, <2>2, <2>3, <1>2, <1>13 DEF Costs
<1>16. Frontier'
  <2>1. ASSUME NEW s \in Settled', NEW f \in heap' PROVE dist'[s] <= f[1]
    <3>1. dist'[s] = dist[s] /\ dist[s] <= c /\ dist[s] \in Nat
      BY <1>3, <1>7, <1>10, <1>12
    <3>2. f[1] \in Nat /\ c <= f[1]
      <4>1. CASE f \in heap
        <5>1. f \in Nat \X DOMAIN dist
          BY <4>1 DEF Searching, Costs
        <5> QED BY <5>1, <4>1
      <4>2. CASE \E m \in cheaper : f = <<cost(m), m>>
        BY <4>2, <1>5
      <4> QED BY <4>1, <4>2, <1>9
    <3> QED BY <1>3, <3>1, <3>2
  <2>2. call'.to \notin Settled'
    BY <1>1, <1>12 DEF Searching, Frontier
  <2>3. ASSUME NEW s \in Settled', NEW m \in Known, OpenTo(s, m)
        PROVE  m \in DOMAIN dist' /\ dist'[m] <= dist'[s] + HopWeight(s, m)
    <3>1. dist'[s] = dist[s] /\ s \in DOMAIN dist
      BY <1>7, <1>10, <1>12
    <3>2. CASE s \in Settled
      <4>1. m \in DOMAIN dist /\ dist[m] <= dist[s] + HopWeight(s, m)
        BY <2>3, <3>2 DEF Searching, Frontier
      <4>2. dist'[m] <= dist[m] /\ m \in DOMAIN dist' /\ dist'[m] \in Nat /\ dist[m] \in Nat /\ dist[s] \in Nat
        BY <4>1, <3>1, <1>3, <1>13, <1>14
      <4>3. HopWeight(s, m) \in Nat
        BY <2>3, HopIs DEF OpenTo
      <4> QED BY <3>1, <4>1, <4>2, <4>3
    <3>3. CASE s = n
      <4>1. m \in Targets(n) /\ OpenTo(n, m)
        BY <2>3, <3>3 DEF OpenTo
      <4>2. dist'[s] = c
        BY <3>1, <3>3, <1>3
      <4>3. HopWeight(n, m) \in Nat /\ cost(m) = c + HopWeight(n, m)
        BY <4>1, HopIs DEF cost
      <4>4. CASE m \in cheaper
        BY <4>4, <4>2, <4>3, <1>3, <1>7, <3>3
      <4>5. CASE m \notin cheaper
        <5>1. m \in DOMAIN dist /\ dist[m] <= cost(m)
          BY <4>1, <4>5, <1>6
        <5>2. m \in DOMAIN dist' /\ dist'[m] = dist[m]
          BY <4>5, <5>1, <1>7
        <5> QED BY <5>1, <5>2, <4>2, <4>3, <3>3
      <4> QED BY <4>4, <4>5
    <3> QED BY <3>2, <3>3, <1>12
  <2> QED BY <2>1, <2>2, <2>3, <1>2 DEF Frontier
<1>17. Branches'
  <2> SUFFICES ASSUME NEW m \in DOMAIN prev'
               PROVE  /\ prev'[m] \in Settled' /\ OpenTo(prev'[m], m)
                      /\ dist'[m] = dist'[prev'[m]] + HopWeight(prev'[m], m)
    BY <1>2 DEF Branches
  <2>1. CASE m \in cheaper
    <3>1. prev'[m] = n /\ dist'[m] = cost(m) /\ OpenTo(n, m)
      BY <2>1, <1>5, <1>7, <1>8
    <3>2. dist'[n] = c
      BY <1>3, <1>7, <1>10
    <3> QED BY <3>1, <3>2, <1>12 DEF cost
  <2>2. CASE m \notin cheaper
    <3>1. m \in DOMAIN prev /\ prev'[m] = prev[m]
      BY <2>2, <1>8
    <3>2. prev[m] \in Settled /\ OpenTo(prev[m], m) /\ dist[m] = dist[prev[m]] + HopWeight(prev[m], m)
      BY <3>1 DEF Searching, Branches
    <3>3. dist'[prev[m]] = dist[prev[m]]
      BY <3>2, <1>7, <1>10
    <3>4. dist'[m] = dist[m]
      BY <2>2, <3>1, <1>7 DEF Searching, Tree
    <3> QED BY <3>1, <3>2, <3>3, <3>4, <1>12
  <2> QED BY <2>1, <2>2
<1>18. Tree'
  <2>1. call.from \in DOMAIN dist' /\ DOMAIN prev' = DOMAIN dist' \ {call.from}
    <3>1. DOMAIN prev = DOMAIN dist \ {call.from}
      BY DEF Searching, Tree
    <3>2. DOMAIN dist' = DOMAIN dist \cup cheaper /\ DOMAIN prev' = DOMAIN prev \cup cheaper
      BY <1>7, <1>8
    <3> QED BY <3>1, <3>2, <1>11
  <2>2. \A m \in DOMAIN prev' : prev'[m] \in Settled' /\ prev'[m] \in DOMAIN dist'
    BY <1>17 DEF Branches, Settled
  <2>3. ASSUME NEW U \in SUBSET DOMAIN dist', call.from \in U,
               \A m \in DOMAIN prev' : prev'[m] \in U => m \in U
        PROVE  DOMAIN dist' \subseteq U
    <3> DEFINE V == (U \cap DOMAIN dist) \cup (DOMAIN dist \ (Settled \cup {n}))
    <3>1. ASSUME NEW m \in DOMAIN prev, prev[m] \in V PROVE m \in V
      <4>1. prev[m] \in Settled /\ m \in DOMAIN dist
        BY DEF Searching, Branches, Tree
      <4>2. CASE m \in Settled \cup {n}
        <5>1. m \in DOMAIN prev' /\ prev'[m] = prev[m]
          BY <4>2, <1>8, <1>10
        <5>2. prev[m] \in U
          BY <3>1, <4>1
        <5>3. m \in U
          BY <5>1, <5>2, <2>3
        <5> QED BY <5>3, <4>1
      <4> QED BY <4>1, <4>2
    <3>2. call.from \in V /\ V \in SUBSET DOMAIN dist
      BY <2>3, <1>11
    <3>3. DOMAIN dist \subseteq V
      <4> HIDE DEF V
      <4> QED BY <3>1, <3>2 DEF Searching, Tree
    <3>4. Settled' \subseteq U
      BY <3>3, <1>10, <1>12
    <3>5. ASSUME NEW m \in DOMAIN dist' PROVE m \in U
      <4>1. CASE m = call.from
        BY <4>1, <2>3
      <4>2. CASE m # call.from
        <5>1. m \in DOMAIN prev' /\ prev'[m] \in U
          BY <4>2, <2>1, <2>2, <3>4
        <5> QED BY <5>1, <2>3
      <4> QED BY <4>1, <4>2
    <3> QED BY <3>5
  <2>4. prev' \in [DOMAIN prev' -> DOMAIN dist']
    BY <1>8, <2>2
  <2> QED BY <1>1, <2>1, <2>3, <2>4 DEF Tree
<1>19. Straight'
  <2>1. Targets(call.from)' = Targets(call.from)
    BY <1>1 DEF Targets
  <2> SUFFICES ASSUME call.from \in Settled', call.to \in Targets(call.from), call.from # call.to,
                      dist'[call.to] = HopWeight(call.from, call.to)
               PROVE  call.to \in DOMAIN prev' /\ prev'[call.to] = call.from
    BY <1>1, <1>2, <2>1 DEF Straight
  <2>2. call.to \in Known /\ OpenTo(call.from, call.to) /\ HopWeight(call.from, call.to) \in Nat
    BY HopIs, TargetsKnown DEF OpenTo
  <2>3. CASE call.from \in Settled
    <3>1. call.to \in DOMAIN dist /\ dist[call.to] <= dist[call.from] + HopWeight(call.from, call.to)
      BY <2>2, <2>3 DEF Searching, Frontier
    <3>2. dist[call.to] \in Nat /\ dist[call.to] <= HopWeight(call.from, call.to)
      BY <1>3, <1>11, <2>2, <3>1
    <3>3. call.to \notin cheaper
      <4> SUFFICES ASSUME call.to \in cheaper PROVE FALSE
        OBVIOUS
      <4>1. dist'[call.to] = cost(call.to) /\ cost(call.to) \in Nat /\ cost(call.to) < dist[call.to]
        BY <1>5, <1>7, <3>1
      <4> QED BY <2>2, <3>2, <4>1
    <3>4. dist[call.to] = HopWeight(call.from, call.to)
      BY <1>7, <3>1, <3>3
    <3>5. call.to \in DOMAIN prev /\ prev[call.to] = call.from
      BY <2>3, <3>4 DEF Searching, Straight
    <3> QED BY <1>8, <3>3, <3>5
  <2>4. CASE call.from \notin Settled
    <3>1. n = call.from
      BY <1>12, <2>4
    <3>2. DOMAIN dist \subseteq {call.from}
      <4>1. \A m \in DOMAIN prev : prev[m] # call.from
        BY <2>4 DEF Searching, Branches
      <4>2. {call.from} \in SUBSET DOMAIN dist
        BY <1>11
      <4> QED BY <4>1, <4>2 DEF Searching, Tree
    <3>3. call.to \in cheaper
      BY <1>6, <2>2, <3>1, <3>2
    <3> QED BY <1>8, <3>1, <3>3
  <2> QED BY <2>3, <2>4
<1> QED BY <1>15, <1>16, <1>17, <1>18, <1>19 DEF Searching

LEMMA RelaxSearch ==
    ASSUME InputOK, Searching, Relax
    PROVE  Searching'
<1>1. PICK e \in heap :
        LET via == CostVia(e[2], e[1])
            cheaper == {m \in DOMAIN via : /\ e[1] <= dist[e[2]]
                                           /\ m \in DOMAIN dist => via[m] < dist[m]}
        IN  /\ Lightest(e) /\ e[2] # call.to
            /\ dist' = Overwrite(dist, Restrict(via, cheaper))
            /\ prev' = Overwrite(prev, [m \in cheaper |-> e[2]])
            /\ heap' = (heap \ {e}) \cup {<<via[m], m>> : m \in cheaper}
  BY DEF Relax
<1> DEFINE c == e[1]
           n == e[2]
           cheaper == {m \in DOMAIN CostVia(n, c) : /\ c <= dist[n]
                                                    /\ m \in DOMAIN dist => CostVia(n, c)[m] < dist[m]}
<1>2. /\ \A f \in heap : c <= f[1]
      /\ n # call.to
      /\ dist' = Overwrite(dist, Restrict(CostVia(n, c), cheaper))
      /\ prev' = Overwrite(prev, [m \in cheaper |-> n])
      /\ heap' = (heap \ {e}) \cup {<<CostVia(n, c)[m], m>> : m \in cheaper}
  BY <1>1 DEF Lightest
<1>3. e = <<c, n>>
  <2>1. e \in Nat \X DOMAIN dist
    BY DEF Searching, Costs
  <2> QED BY <2>1
<1>4. CASE ~(c <= dist[n])
  <2>1. cheaper = {}
    BY <1>4
  <2> HIDE DEF cheaper
  <2>2. heap' = heap \ {e}
    BY <1>2, <2>1
  <2>3. dist' = dist
    <3>1. dist' = [x \in DOMAIN dist |-> dist[x]]
      BY <1>2, <2>1 DEF Overwrite, Restrict
    <3>2. dist = [x \in DOMAIN dist |-> dist[x]]
      BY DEF Searching, Costs
    <3> QED BY <3>1, <3>2
  <2>4. prev' = prev
    <3>1. prev' = [x \in DOMAIN prev |-> prev[x]]
      BY <1>2, <2>1 DEF Overwrite
    <3>2. prev = [x \in DOMAIN prev |-> prev[x]]
      BY DEF Searching, Tree
    <3> QED BY <3>1, <3>2
  <2> QED BY <1>4, <2>2, <2>3, <2>4, RelaxStale
<1>5. CASE c <= dist[n]
  <2>1. cheaper = {m \in DOMAIN CostVia(n, c) : m \in DOMAIN dist => CostVia(n, c)[m] < dist[m]}
    BY <1>5
  <2>2. <<c, n>> \in heap /\ heap' = (heap \ {<<c, n>>}) \cup {<<CostVia(n, c)[m], m>> : m \in cheaper}
    BY <1>2, <1>3
  <2> HIDE DEF cheaper, c, n
  <2> QED BY <1>2, <1>5, <2>1, <2>2, RelaxFresh
<1> QED BY <1>4, <1>5

-----------------------------------------------------------------------------
(* The routes: every one so far is right, the nodes it passes are blocked. *)
Routing == {"path", "redundant"}

Taken(k) == UNION {Inner(paths[j].hops) : j \in 1 .. k - 1}

WaysLeft(k) == Ways(call.from, call.to, Taken(k))

Right(k) ==
    /\ paths[k].hops \in WaysLeft(k)
    /\ paths[k].weight = WayWeight(paths[k].hops)
    /\ \A w \in WaysLeft(k) : paths[k].weight <= WayWeight(w)
    /\ Plain(paths[k], call.from, call.to)

RoutesOK ==
    /\ stage \in {"paths", "dijkstra", "done"}
    /\ paths \in Seq([hops : Seq(Known), weight : Nat])
    /\ blocked = Taken(Len(paths) + 1)
    /\ Len(paths) <= Limit
    /\ \A k \in 1 .. Len(paths) : Right(k)
    /\ stage = "dijkstra" => Searching /\ Len(paths) < Limit
    /\ stage = "done" /\ Len(paths) < Limit => WaysLeft(Len(paths) + 1) = {}

RInv ==
    /\ InputOK
    /\ stage \in {"paths", "dijkstra"} => call.op \in Routing
    /\ call.op \in Routing => RoutesOK

LEMMA LimitIs == Limit \in Nat /\ (call.op = "path" => Limit = 1)
  BY MaxPathsAssumption DEF Limit

LEMMA SameGraph ==
    ASSUME graph' = graph
    PROVE  /\ Known' = Known
           /\ \A a, b, s : Ways(a, b, s)' = Ways(a, b, s)
           /\ \A w : WayWeight(w)' = WayWeight(w)
           /\ \A r, a, b : Plain(r, a, b)' <=> Plain(r, a, b)
<1>1. Known' = Known
  BY DEF Known
<1>2. \A n : Targets(n)' = Targets(n)
  BY DEF Targets
<1>3. \A a, b : HopWeight(a, b)' = HopWeight(a, b)
  BY DEF HopWeight
<1>4. \A a, b, s : Ways(a, b, s)' = Ways(a, b, s)
  BY <1>1, <1>2 DEF Ways
<1>5. \A w : WayWeight(w)' = WayWeight(w)
  BY <1>3 DEF WayWeight
<1>6. \A r, a, b : Plain(r, a, b)' <=> Plain(r, a, b)
  BY <1>2, <1>3 DEF Plain
<1> QED BY <1>1, <1>4, <1>5, <1>6

LEMMA RouteAdded ==
    ASSUME InputOK, RoutesOK, graph' = graph, call' = call,
           NEW r \in [hops : Seq(Known), weight : Nat], paths' = Append(paths, r),
           r.hops \in WaysLeft(Len(paths) + 1), r.weight = WayWeight(r.hops),
           \A w \in WaysLeft(Len(paths) + 1) : r.weight <= WayWeight(w),
           Plain(r, call.from, call.to)
    PROVE  /\ paths' \in Seq([hops : Seq(Known), weight : Nat])'
           /\ Len(paths') = Len(paths) + 1
           /\ \A k \in 1 .. Len(paths') : Right(k)'
           /\ Taken(Len(paths) + 1)' = Taken(Len(paths) + 1) \cup Inner(r.hops)
<1> DEFINE R == [hops : Seq(Known), weight : Nat]
           n == Len(paths)
<1>0. paths \in Seq(R) /\ n \in Nat
  BY DEF RoutesOK
<1>1. paths' \in Seq(R) /\ Len(paths') = n + 1 /\ paths'[n + 1] = r
      /\ \A k \in 1 .. n : paths'[k] = paths[k]
  <2>1. r \in R
    OBVIOUS
  <2> HIDE DEF R
  <2> QED BY <1>0, <2>1
<1>2. Known' = Known
  BY SameGraph
<1>3. \A k \in 1 .. n + 1 : Taken(k)' = Taken(k)
  <2> TAKE k \in 1 .. n + 1
  <2>1. \A j \in 1 .. k - 1 : paths'[j] = paths[j]
    BY <1>0, <1>1
  <2>2. \A h : Inner(h)' = Inner(h)
    BY DEF Inner
  <2>3. \A j \in 1 .. k - 1 : Inner(paths'[j].hops) = Inner(paths[j].hops)
    BY <2>1
  <2>4. {Inner(paths'[j].hops) : j \in 1 .. k - 1} = {Inner(paths[j].hops) : j \in 1 .. k - 1}
    BY <2>3
  <2> QED BY <2>4 DEF Taken, Inner
<1>4. \A k \in 1 .. n + 1 : WaysLeft(k)' = WaysLeft(k)
  BY <1>3, SameGraph DEF WaysLeft
<1>5. ASSUME NEW k \in 1 .. n + 1 PROVE Right(k)'
  <2>1. WaysLeft(k)' = WaysLeft(k) /\ \A w : WayWeight(w)' = WayWeight(w)
    BY <1>4, SameGraph
  <2>2. CASE k = n + 1
    BY <1>1, <2>1, <2>2, SameGraph DEF Right
  <2>3. CASE k # n + 1
    <3>1. k \in 1 .. n /\ paths'[k] = paths[k]
      BY <1>0, <1>1, <2>3
    <3>2. Right(k)
      BY <3>1 DEF RoutesOK
    <3> QED BY <3>1, <3>2, <2>1, SameGraph DEF Right
  <2> QED BY <2>2, <2>3
<1>6. ASSUME NEW m, m = n + 2 PROVE Taken(m)' = Taken(n + 1) \cup Inner(r.hops)
  <2> DEFINE S == 1 .. n
             f == [j \in S \cup {n + 1} |-> Inner(paths'[j].hops)]
             g == [j \in S |-> Inner(paths[j].hops)]
  <2>1. 1 .. m - 1 = S \cup {n + 1} /\ 1 .. (n + 1) - 1 = S
    BY <1>0, <1>6
  <2>2. \A j \in S : f[j] = g[j]
    BY <1>1
  <2>3. f[n + 1] = Inner(r.hops)
    BY <1>1
  <2>4. Taken(m)' = UNION {f[j] : j \in S \cup {n + 1}}
    <3>1. Taken(m)' = UNION {Inner(paths'[j].hops) : j \in 1 .. m - 1}
      BY DEF Taken, Inner
    <3>2. {Inner(paths'[j].hops) : j \in S \cup {n + 1}} = {f[j] : j \in S \cup {n + 1}}
      OBVIOUS
    <3> HIDE DEF S, f
    <3> QED BY <2>1, <3>1, <3>2
  <2>5. Taken(n + 1) = UNION {g[j] : j \in S}
    BY <2>1 DEF Taken
  <2> HIDE DEF S, f, g
  <2>6. UNION {f[j] : j \in S \cup {n + 1}} = (UNION {g[j] : j \in S}) \cup f[n + 1]
    <3>1. {f[j] : j \in S \cup {n + 1}} = {g[j] : j \in S} \cup {f[n + 1]}
      BY <2>2
    <3> QED BY <3>1
  <2> QED BY <2>3, <2>4, <2>5, <2>6
<1>7. Taken(Len(paths) + 1)' = Taken(Len(paths) + 1) \cup Inner(r.hops)
  <2>1. Taken(Len(paths) + 1)' = UNION {Inner(paths'[j].hops) : j \in 1 .. (n + 2) - 1}
    <3>1. Taken(Len(paths) + 1)' = UNION {Inner(paths'[j].hops) : j \in 1 .. (Len(paths') + 1) - 1}
      BY DEF Taken, Inner
    <3>2. (Len(paths') + 1) - 1 = (n + 2) - 1
      BY <1>0, <1>1
    <3> QED BY <3>1, <3>2
  <2>2. \A m : Taken(m)' = UNION {Inner(paths'[j].hops) : j \in 1 .. m - 1}
    BY DEF Taken, Inner
  <2> QED BY <1>6, <2>1, <2>2
<1> QED BY <1>1, <1>2, <1>5, <1>7

-----------------------------------------------------------------------------
LEMMA RInit == Init => RInv
<1> SUFFICES ASSUME Init PROVE RInv
  OBVIOUS
<1>1. InputOK
  BY DEF Init, InputOK
<1>2. stage = CASE call.op \in Searches -> "search"
                [] call.op = "spofs" -> "spofs"
                [] OTHER -> "paths"
  BY DEF Init
<1>3. call.op \in Searches \cup {"spofs"} \cup Routing
  BY <1>1 DEF InputOK, Calls, Routing
<1>4. call.op \in Routing => stage = "paths"
  BY <1>2 DEF Routing, Searches
<1>5. stage \in {"paths", "dijkstra"} => call.op \in Routing
  BY <1>2, <1>3 DEF Routing
<1>6. paths = <<>> /\ Len(paths) = 0 /\ blocked = {}
  BY DEF Init
<1>7. Taken(Len(paths) + 1) = {}
  BY <1>6 DEF Taken
<1>8. call.op \in Routing => RoutesOK
  BY <1>4, <1>6, <1>7, LimitIs DEF RoutesOK
<1> QED BY <1>1, <1>5, <1>8 DEF RInv

LEMMA RNoMore == RInv /\ NoMorePaths => RInv'
<1> SUFFICES ASSUME RInv, NoMorePaths PROVE RInv'
  OBVIOUS
<1>1. /\ InputOK /\ call.op \in Routing /\ RoutesOK
      /\ stage' = "done" /\ graph' = graph /\ call' = call /\ paths' = paths /\ blocked' = blocked
  BY DEF RInv, NoMorePaths
<1>2. \A k : Taken(k)' = Taken(k)
  BY <1>1 DEF Taken, Inner
<1>3. \A k : WaysLeft(k)' = WaysLeft(k) /\ (Right(k)' <=> Right(k))
  BY <1>1, <1>2, SameGraph DEF WaysLeft, Right
<1>4. ASSUME Len(paths) < Limit PROVE WaysLeft(Len(paths) + 1) = {}
  <2>1. ~({call.from, call.to} \subseteq Known)
    BY <1>4, <1>1, LimitIs DEF NoMorePaths, RoutesOK
  <2> SUFFICES ASSUME NEW w \in WaysLeft(Len(paths) + 1) PROVE FALSE
    OBVIOUS
  <2>2. w \in Seq(Known) /\ Len(w) \in Nat /\ Len(w) >= 1 /\ w[1] = call.from /\ w[Len(w)] = call.to
    BY <1>1, WayIs DEF WaysLeft
  <2>3. w[1] \in Known /\ w[Len(w)] \in Known
    BY <2>2
  <2> QED BY <2>1, <2>2, <2>3
<1>5. RoutesOK'
  BY <1>1, <1>2, <1>3, <1>4, SameGraph DEF RoutesOK, Limit
<1> QED BY <1>1, <1>5 DEF RInv, InputOK

LEMMA RBegin == RInv /\ BeginPath => RInv'
<1> SUFFICES ASSUME RInv, BeginPath PROVE RInv'
  OBVIOUS
<1>1. /\ InputOK /\ call.op \in Routing /\ RoutesOK /\ Len(paths) < Limit
      /\ stage' = "dijkstra" /\ graph' = graph /\ call' = call /\ paths' = paths /\ blocked' = blocked
  BY DEF RInv, BeginPath
<1>2. \A k : Taken(k)' = Taken(k)
  BY <1>1 DEF Taken, Inner
<1>3. \A k : WaysLeft(k)' = WaysLeft(k) /\ (Right(k)' <=> Right(k))
  BY <1>1, <1>2, SameGraph DEF WaysLeft, Right
<1>4. Searching'
  BY <1>1, BeginSearch
<1>5. RoutesOK'
  BY <1>1, <1>2, <1>3, <1>4, SameGraph DEF RoutesOK, Limit
<1> QED BY <1>1, <1>5 DEF RInv, InputOK

LEMMA RRelax == RInv /\ Relax => RInv'
<1> SUFFICES ASSUME RInv, Relax PROVE RInv'
  OBVIOUS
<1>1. /\ InputOK /\ call.op \in Routing /\ RoutesOK /\ Len(paths) < Limit /\ Searching
      /\ stage' = stage /\ stage = "dijkstra"
      /\ graph' = graph /\ call' = call /\ paths' = paths /\ blocked' = blocked
  BY DEF RInv, Relax, RoutesOK
<1>2. \A k : Taken(k)' = Taken(k)
  BY <1>1 DEF Taken, Inner
<1>3. \A k : WaysLeft(k)' = WaysLeft(k) /\ (Right(k)' <=> Right(k))
  BY <1>1, <1>2, SameGraph DEF WaysLeft, Right
<1>4. Searching'
  BY <1>1, RelaxSearch
<1>5. RoutesOK'
  BY <1>1, <1>2, <1>3, <1>4, SameGraph DEF RoutesOK, Limit
<1> QED BY <1>1, <1>5 DEF RInv, InputOK

LEMMA RSamePlace == RInv /\ SamePlace => RInv'
<1> SUFFICES ASSUME RInv, SamePlace PROVE RInv'
  OBVIOUS
<1> DEFINE w == <<call.from>>
           r == [hops |-> w, weight |-> 0]
<1>1. /\ InputOK /\ call.op \in Routing /\ RoutesOK /\ Len(paths) < Limit
      /\ call.op = "path" /\ call.from = call.to /\ call.from \in Known
      /\ stage' = "done" /\ graph' = graph /\ call' = call /\ blocked' = blocked
      /\ paths' = <<r>>
  BY DEF RInv, SamePlace, Routing
<1>2. paths \in Seq([hops : Seq(Known), weight : Nat]) /\ Len(paths) = 0 /\ Limit = 1
  BY <1>1, LimitIs DEF RoutesOK
<1>3. paths' = Append(paths, r)
  BY <1>1, <1>2
<1>4. w \in Seq(Known) /\ Len(w) = 1 /\ w[1] = call.from /\ w[Len(w)] = call.to
      /\ w \in [1 .. 1 -> Known]
  BY <1>1
<1>5. r \in [hops : Seq(Known), weight : Nat] /\ r.hops = w /\ r.weight = 0
  BY <1>4
<1>6. WayWeight(w) = 0
  <2>1. WayWeight(w) = Cost(w, 1)
    BY <1>4 DEF WayWeight, Cost
  <2> QED BY <2>1, CostFirst
<1> HIDE DEF w
<1>7. w \in WaysLeft(Len(paths) + 1)
  <2>1. 1 \in 1 .. Cardinality(Known)
    <3>1. Len(w) <= Cardinality(Known)
      <4>1. \A i, j \in 1 .. Len(w) : w[i] = w[j] => i = j
        BY <1>4
      <4> HIDE DEF w
      <4> QED BY <1>1, <1>4, <4>1, ShortEnough
    <3> QED BY <3>1, <1>1, <1>4, KnownFinite
  <2>2. w \in UNION {[1 .. k -> Known] : k \in 1 .. Cardinality(Known)}
    BY <1>4, <2>1
  <2>3. DOMAIN w = {1}
    BY <1>4
  <2>4. IsInjective(w)
    BY <2>3 DEF IsInjective
  <2>5. 1 .. Len(w) - 1 = {} /\ 2 .. Len(w) - 1 = {}
    BY <1>4
  <2> QED BY <1>4, <2>2, <2>4, <2>5 DEF WaysLeft, Ways
<1>8. \A v \in WaysLeft(Len(paths) + 1) : 0 <= WayWeight(v)
  <2> TAKE v \in WaysLeft(Len(paths) + 1)
  <2>1. Along(v, Len(v)) /\ Len(v) \in Nat /\ Len(v) >= 1 /\ WayWeight(v) = Cost(v, Len(v))
    BY <1>1, WayIs DEF WaysLeft
  <2>2. Len(v) \in 1 .. Len(v) /\ Len(v) \in Len(v) .. Len(v)
    BY <2>1
  <2>3. Cost(v, Len(v)) \in Nat
    BY <1>1, <2>1, <2>2, CostGrows
  <2> QED BY <2>1, <2>3
<1> HIDE DEF r
<1>13. Plain(r, call.from, call.to)
  BY <1>1 DEF Plain
<1>9. /\ paths' \in Seq([hops : Seq(Known), weight : Nat])'
      /\ Len(paths') = 1
      /\ \A k \in 1 .. Len(paths') : Right(k)'
      /\ Taken(Len(paths) + 1)' = Taken(Len(paths) + 1) \cup Inner(r.hops)
  <2>1. /\ paths' \in Seq([hops : Seq(Known), weight : Nat])'
        /\ Len(paths') = Len(paths) + 1
        /\ \A k \in 1 .. Len(paths') : Right(k)'
        /\ Taken(Len(paths) + 1)' = Taken(Len(paths) + 1) \cup Inner(r.hops)
    BY <1>1, <1>3, <1>5, <1>6, <1>7, <1>8, <1>13, RouteAdded
  <2> QED BY <2>1, <1>2
<1>10. Inner(r.hops) = {}
  <2>1. 2 .. Len(w) - 1 = {}
    BY <1>4
  <2> QED BY <1>5, <2>1 DEF Inner
<1>11. blocked' = Taken(Len(paths) + 1)'
  <2>1. blocked = Taken(Len(paths) + 1)
    BY <1>1 DEF RoutesOK
  <2> QED BY <1>1, <1>9, <1>10, <2>1
<1>12. RoutesOK'
  BY <1>1, <1>2, <1>9, <1>11 DEF RoutesOK, Limit
<1> QED BY <1>1, <1>12 DEF RInv, InputOK

LEMMA REnd == RInv /\ EndPath => RInv'
<1> SUFFICES ASSUME RInv, EndPath PROVE RInv'
  OBVIOUS
<1>1. /\ InputOK /\ call.op \in Routing /\ RoutesOK /\ Len(paths) < Limit /\ Searching
      /\ TargetSettled /\ graph' = graph /\ call' = call
  BY DEF RInv, EndPath, RoutesOK
<1>2. blocked = Taken(Len(paths) + 1) /\ Len(paths) \in Nat /\ Limit \in Nat
      /\ paths \in Seq([hops : Seq(Known), weight : Nat])
  BY <1>1, LimitIs DEF RoutesOK
<1>3. CASE call.to \in DOMAIN dist
  <2> DEFINE r == [hops |-> Hops, weight |-> dist[call.to]]
  <2>1. paths' = Append(paths, r) /\ blocked' = blocked \cup Inner(Hops) /\ stage' = "paths"
    BY <1>3 DEF EndPath
  <2>2. Hops \in WaysLeft(Len(paths) + 1) /\ WayWeight(Hops) = dist[call.to]
    BY <1>1, <1>2, <1>3, HopsIsAWay DEF WaysLeft
  <2>3. Hops \in Seq(Known)
    BY <1>1, <2>2, WayIs DEF WaysLeft
  <2>4. dist[call.to] \in Nat
    BY <1>1, <1>3 DEF Searching, Costs
  <2>5. r \in [hops : Seq(Known), weight : Nat] /\ r.hops = Hops /\ r.weight = dist[call.to]
    BY <2>3, <2>4
  <2>6. ASSUME NEW w \in WaysLeft(Len(paths) + 1) PROVE dist[call.to] <= WayWeight(w)
    <3>1. PICK e \in heap : e[1] <= WayWeight(w)
      BY <1>1, <1>2, WayMeetsFrontier DEF WaysLeft
    <3>2. PICK f \in heap : Lightest(f) /\ f[2] = call.to
      BY <1>1, <3>1 DEF TargetSettled
    <3>3. dist[call.to] <= f[1] /\ f[1] <= e[1] /\ f[1] \in Nat /\ e[1] \in Nat
      BY <1>1, <3>1, <3>2 DEF Lightest, Searching, Costs
    <3>4. WayWeight(w) \in Nat
      <4>1. Along(w, Len(w)) /\ Len(w) \in Nat /\ Len(w) >= 1 /\ WayWeight(w) = Cost(w, Len(w))
        BY <1>1, WayIs DEF WaysLeft
      <4>2. Len(w) \in 1 .. Len(w) /\ Len(w) \in Len(w) .. Len(w)
        BY <4>1
      <4> QED BY <1>1, <4>1, <4>2, CostGrows
    <3> QED BY <2>4, <3>1, <3>3, <3>4
  <2> HIDE DEF r
  <2>11. Plain(r, call.from, call.to)
    BY <1>1, <1>3, <2>5, HopsStraight
  <2>7. /\ paths' \in Seq([hops : Seq(Known), weight : Nat])'
        /\ Len(paths') = Len(paths) + 1
        /\ \A k \in 1 .. Len(paths') : Right(k)'
        /\ Taken(Len(paths) + 1)' = Taken(Len(paths) + 1) \cup Inner(r.hops)
    BY <1>1, <2>1, <2>2, <2>5, <2>6, <2>11, RouteAdded
  <2>8. blocked' = Taken(Len(paths) + 1)'
    BY <1>2, <2>1, <2>5, <2>7
  <2>9. Len(paths') <= Limit'
    BY <1>1, <1>2, <2>7 DEF Limit
  <2>10. RoutesOK'
    BY <2>1, <2>7, <2>8, <2>9 DEF RoutesOK
  <2> QED BY <1>1, <2>10 DEF RInv, InputOK
<1>4. CASE call.to \notin DOMAIN dist
  <2>1. paths' = paths /\ blocked' = blocked /\ stage' = "done"
    BY <1>4 DEF EndPath
  <2>2. \A k : Taken(k)' = Taken(k)
    BY <2>1 DEF Taken, Inner
  <2>3. \A k : WaysLeft(k)' = WaysLeft(k) /\ (Right(k)' <=> Right(k))
    BY <1>1, <2>1, <2>2, SameGraph DEF WaysLeft, Right
  <2>4. heap = {}
    <3>1. \A e \in heap : e[2] \in DOMAIN dist
      BY <1>1 DEF Searching, Costs
    <3> QED BY <1>1, <1>4, <3>1 DEF TargetSettled
  <2>5. WaysLeft(Len(paths) + 1) = {}
    <3> SUFFICES ASSUME NEW w \in WaysLeft(Len(paths) + 1) PROVE FALSE
      OBVIOUS
    <3>1. PICK e \in heap : e[1] <= WayWeight(w)
      BY <1>1, <1>2, WayMeetsFrontier DEF WaysLeft
    <3> QED BY <2>4, <3>1
  <2>6. RoutesOK'
    BY <1>1, <2>1, <2>2, <2>3, <2>5, SameGraph DEF RoutesOK, Limit
  <2> QED BY <1>1, <2>6 DEF RInv, InputOK
<1> QED BY <1>3, <1>4

(* The searches and the depth first search touch no route.                 *)
LEMMA ROther ==
    RInv /\ (Visit \/ Expanded \/ Searched \/ Root \/ Descend \/ LookBack \/ Return \/ AllNumbered)
        => RInv'
<1> SUFFICES ASSUME RInv,
                    Visit \/ Expanded \/ Searched \/ Root \/ Descend \/ LookBack \/ Return \/ AllNumbered
             PROVE  RInv'
  OBVIOUS
<1>1. graph' = graph /\ call' = call /\ stage \in {"search", "spofs"} /\ stage' \in {"search", "spofs", "done"}
  BY DEF Visit, Expanded, Searched, Root, Descend, LookBack, Return, AllNumbered
<1>2. call.op \notin Routing
  BY <1>1 DEF RInv, RoutesOK
<1> QED BY <1>1, <1>2 DEF RInv, InputOK

LEMMA RSame == RInv /\ UNCHANGED vars => RInv'
<1> SUFFICES ASSUME RInv, UNCHANGED vars PROVE RInv'
  OBVIOUS
<1>1. /\ graph' = graph /\ call' = call /\ stage' = stage /\ paths' = paths /\ blocked' = blocked
      /\ dist' = dist /\ prev' = prev /\ heap' = heap
  BY DEF vars, dijkstra
<1>2. \A k : Taken(k)' = Taken(k)
  BY <1>1 DEF Taken, Inner
<1>3. \A k : WaysLeft(k)' = WaysLeft(k) /\ (Right(k)' <=> Right(k))
  BY <1>1, <1>2, SameGraph DEF WaysLeft, Right
<1>4. Searching' <=> Searching
  <2>1. Known' = Known /\ (\A a, b : OpenTo(a, b)' <=> OpenTo(a, b))
        /\ (\A a, b : HopWeight(a, b)' = HopWeight(a, b))
    BY <1>1 DEF Known, OpenTo, Targets, HopWeight
  <2>2. Settled' = Settled
    BY <1>1 DEF Settled
  <2>3. Targets(call.from)' = Targets(call.from)
    BY <1>1 DEF Targets
  <2> QED BY <1>1, <2>1, <2>2, <2>3 DEF Searching, Costs, Frontier, Tree, Branches, Straight
<1>5. RoutesOK' <=> RoutesOK
  BY <1>1, <1>2, <1>3, <1>4, SameGraph DEF RoutesOK, Limit
<1> QED BY <1>1, <1>5 DEF RInv, InputOK

LEMMA RNext == RInv /\ [Next]_vars => RInv'
  BY RNoMore, RBegin, RRelax, RSamePlace, REnd, ROther, RSame DEF Next, Returned

(* A later route repeats an earlier one exactly if that one passes nothing.*)
LEMMA RepeatedRoutes ==
    ASSUME InputOK, RoutesOK, NEW j \in 1 .. Len(paths), NEW k \in 1 .. Len(paths), j < k
    PROVE  paths[k].hops = paths[j].hops <=> Inner(paths[j].hops) = {}
<1> DEFINE v == paths[j].hops
           w == paths[k].hops
<1>0. paths[j].weight \in Nat /\ paths[k].weight \in Nat
  <2> DEFINE R == [hops : Seq(Known), weight : Nat]
  <2>1. paths \in Seq(R)
    BY DEF RoutesOK
  <2>2. \A r \in R : r.weight \in Nat
    OBVIOUS
  <2> HIDE DEF R
  <2>3. paths[j] \in R /\ paths[k] \in R
    BY <2>1
  <2> QED BY <2>2, <2>3
<1>1. /\ v \in WaysLeft(j) /\ paths[j].weight = WayWeight(v) /\ paths[j].weight \in Nat
      /\ \A x \in WaysLeft(j) : paths[j].weight <= WayWeight(x)
  <2>1. Right(j)
    BY DEF RoutesOK
  <2> QED BY <1>0, <2>1 DEF Right
<1>2. /\ w \in WaysLeft(k) /\ paths[k].weight = WayWeight(w) /\ paths[k].weight \in Nat
      /\ \A x \in WaysLeft(k) : paths[k].weight <= WayWeight(x)
      /\ Plain(paths[k], call.from, call.to)
  <2>1. Right(k)
    BY DEF RoutesOK
  <2> QED BY <1>0, <2>1 DEF Right
<1>3. Inner(v) \subseteq Taken(k) /\ Taken(j) \subseteq Taken(k)
  <2>1. j \in 1 .. k - 1 /\ 1 .. j - 1 \subseteq 1 .. k - 1
    BY DEF RoutesOK
  <2> QED BY <2>1 DEF Taken
<1> HIDE DEF v, w
<1>4. /\ Len(v) \in Nat /\ Len(v) >= 1 /\ v \in Seq(Known)
      /\ v[1] = call.from /\ v[Len(v)] = call.to /\ Along(v, Len(v)) /\ WayWeight(v) = Cost(v, Len(v))
  BY <1>1, WayIs DEF WaysLeft
<1>5. /\ Len(w) \in Nat /\ Len(w) >= 1 /\ w \in Seq(Known)
      /\ w[1] = call.from /\ w[Len(w)] = call.to
      /\ \A i \in 2 .. Len(w) - 1 : w[i] \notin Taken(k)
  BY <1>2, WayIs DEF WaysLeft
<1>6. IsInjective(v) /\ IsInjective(w)
  BY <1>1, <1>2 DEF WaysLeft, Ways
<1>7. ASSUME w = v PROVE Inner(v) = {}
  <2> SUFFICES ASSUME NEW x \in Inner(v) PROVE FALSE
    OBVIOUS
  <2>1. PICK i \in 2 .. Len(w) - 1 : x = w[i]
    BY <1>7 DEF Inner
  <2> QED BY <1>3, <1>5, <2>1
<1>8. ASSUME Inner(v) = {} PROVE w = v
  <2>1. Len(v) = 1 \/ Len(v) = 2
    <3>1. ~(2 <= Len(v) - 1)
      <4> SUFFICES ASSUME 2 <= Len(v) - 1 PROVE FALSE
        OBVIOUS
      <4>1. 2 \in 2 .. Len(v) - 1
        BY <1>4
      <4>2. v[2] \in Inner(v)
        BY <4>1 DEF Inner
      <4> QED BY <1>8, <4>2
    <3>2. \A l \in Nat : l >= 1 /\ ~(2 <= l - 1) => l = 1 \/ l = 2
      OBVIOUS
    <3> QED BY <1>4, <3>1, <3>2
  <2>2. CASE Len(v) = 1
    <3>1. call.from = call.to
      BY <1>4, <2>2
    <3>2. Len(w) = 1
      <4>1. 1 \in DOMAIN w /\ Len(w) \in DOMAIN w /\ w[1] = w[Len(w)]
        BY <1>5, <3>1
      <4> QED BY <1>6, <4>1 DEF IsInjective
    <3> QED BY <1>4, <1>5, <2>2, <3>2
  <2>3. CASE Len(v) = 2
    <3>1. call.from # call.to
      <4>1. 1 \in DOMAIN v /\ 2 \in DOMAIN v /\ v[1] = call.from /\ v[2] = call.to
        BY <1>4, <2>3
      <4> QED BY <1>6, <4>1 DEF IsInjective
    <3>2. v = <<call.from, call.to>>
      BY <1>4, <2>3
    <3>3. call.to \in Targets(call.from)
      <4>1. 1 \in 1 .. Len(v) - 1 /\ v[1 + 1] = call.to
        BY <1>4, <2>3
      <4> QED BY <1>4, <4>1 DEF Along
    <3>4. WayWeight(v) = HopWeight(call.from, call.to)
      <4>1. Cost(v, 1 + 1) = Cost(v, 1) + HopWeight(v[1], v[1 + 1])
        <5>1. 1 \in 1 .. Len(v) - 1
          BY <2>3
        <5> QED BY <1>4, <5>1, CostNext
      <4>2. Cost(v, 1) = 0
        BY CostFirst
      <4>3. HopWeight(call.from, call.to) \in Nat
        BY <3>3, HopIs
      <4>4. v[1] = call.from /\ v[1 + 1] = call.to /\ 1 + 1 = 2
        BY <1>4, <2>3
      <4> QED BY <1>4, <2>3, <4>1, <4>2, <4>3, <4>4
    <3>5. v \in WaysLeft(k)
      <4>1. \A i \in 2 .. Len(v) - 1 : v[i] \notin Taken(k)
        BY <2>3
      <4> QED BY <1>1, <4>1 DEF WaysLeft, Ways
    <3>6. w \in WaysLeft(j)
      <4>1. \A i \in 2 .. Len(w) - 1 : w[i] \notin Taken(j)
        BY <1>3, <1>5
      <4> QED BY <1>2, <4>1 DEF WaysLeft, Ways
    <3>7. paths[k].weight <= WayWeight(v) /\ paths[j].weight <= WayWeight(w)
      BY <1>1, <1>2, <3>5, <3>6
    <3>8. paths[k].weight = HopWeight(call.from, call.to)
      BY <1>1, <1>2, <3>4, <3>7
    <3>9. paths[k].hops = <<call.from, call.to>>
      BY <1>2, <3>1, <3>3, <3>8 DEF Plain
    <3> QED BY <3>2, <3>9 DEF w
  <2> QED BY <2>1, <2>2, <2>3
<1>9. w = v <=> Inner(v) = {}
  BY <1>7, <1>8
<1> QED BY <1>9 DEF v, w

LEMMA RoutesRight == RInv => RoutesAreLightest
<1> SUFFICES ASSUME RInv, Done({"path", "redundant"}) PROVE RoutesAreLightest
  BY DEF RoutesAreLightest
<1>1. RoutesOK /\ stage = "done"
  BY DEF RInv, Done, Routing
<1>2. DOMAIN paths = 1 .. Len(paths)
  BY <1>1 DEF RoutesOK
<1>3. \A k : Ways(call.from, call.to, UNION {Inner(paths[j].hops) : j \in 1 .. k - 1}) = WaysLeft(k)
  BY DEF WaysLeft, Taken
<1>4. \A k \in DOMAIN paths :
        /\ paths[k].hops \in WaysLeft(k)
        /\ paths[k].weight = WayWeight(paths[k].hops)
        /\ \A w \in WaysLeft(k) : paths[k].weight <= WayWeight(w)
  BY <1>1, <1>2 DEF RoutesOK, Right
<1>5. Len(paths) < Limit => WaysLeft(Len(paths) + 1) = {}
  BY <1>1 DEF RoutesOK
<1>6. \A j, k \in DOMAIN paths :
        j < k => (paths[k].hops = paths[j].hops <=> Inner(paths[j].hops) = {})
  BY <1>1, <1>2, RepeatedRoutes DEF RInv
<1> QED BY <1>3, <1>4, <1>5, <1>6 DEF RoutesAreLightest

(* Every route find_shortest_path and find_redundant_paths return is a     *)
(* lightest one among those that pass no inner node of an earlier one, its *)
(* weight is right, and they give up only when no such route is left.  One *)
(* that passes nothing is returned again from then on, and no other is.    *)
THEOREM RoutesCorrect == Spec => []RoutesAreLightest
<1>1. RInv /\ [Next]_vars => RInv'
  BY RNext
<1> QED BY RInit, <1>1, RoutesRight, PTL DEF Spec

-----------------------------------------------------------------------------
(* Single points of failure.  Seen: the nodes that have a number.  At(i):  *)
(* the node of the i-th frame.  Inside(i): what hangs below that node, is  *)
(* finished, and is not below the next frame's.                            *)
Seen == DOMAIN disc
Frames == 1 .. Len(stack)
At(i) == stack[i].node
Finished == Seen \ {At(i) : i \in Frames}
Inside(i) == {x \in Seen : disc[At(i)] < disc[x] /\ (i < Len(stack) => disc[x] < disc[At(i + 1)])}

(* No link leaves U but to n.                                              *)
Loose(U, n) == U \subseteq scope \ {n} /\ \A x \in U : Adjacent(x) \ {n} \subseteq U

(* Without n one of its neighbours has no way to another.                  *)
Cuts(n) ==
    \E U \in SUBSET (scope \ {n}) :
        Loose(U, n) /\ \E a \in Adjacent(n) \ {n}, b \in Adjacent(n) \ {n} : a \in U /\ b \notin U

Numbers ==
    /\ IsFiniteSet(Seen) /\ Seen \subseteq scope
    /\ disc \in [Seen -> Nat] /\ low \in [Seen -> Nat] /\ parent \in [Seen -> scope \cup {NoNode}]
    /\ \A x \in Seen : disc[x] < Cardinality(Seen)
    /\ \A x, y \in Seen : disc[x] = disc[y] => x = y

(* The frames are a branch of the tree.                                    *)
Spine ==
    /\ stack \in Seq([node : Seen, todo : SUBSET scope, children : Nat])
    /\ \A i \in Frames : \A j \in Frames : i < j => disc[At(i)] < disc[At(j)]
    /\ \A i \in Frames : i > 1 => parent[At(i)] = At(i - 1) /\ At(i) \in Adjacent(At(i - 1))
    /\ \A i \in Frames : i = 1 => parent[At(i)] = NoNode

(* What came after a frame's node hangs below it.                          *)
Nested ==
    \A i \in Frames : \A x \in Seen : disc[At(i)] < disc[x] =>
        /\ parent[x] \in Seen /\ x \in Adjacent(parent[x])
        /\ disc[At(i)] <= disc[parent[x]] /\ disc[parent[x]] < disc[x]

(* A finished node's neighbours have numbers; those not finished came      *)
(* before it, and none that is finished lies on the other side of a frame. *)
Looked ==
    /\ \A i \in Frames : stack[i].todo \subseteq Adjacent(At(i)) /\ Adjacent(At(i)) \ stack[i].todo \subseteq Seen
    /\ \A x \in Finished : Adjacent(x) \subseteq Seen
    /\ \A x \in Finished : \A y \in Adjacent(x) : y \notin Finished => disc[y] < disc[x]
    /\ \A x \in Finished : \A y \in Adjacent(x) : \A i \in Frames :
         y \in Finished /\ disc[At(i)] < disc[x] => disc[At(i)] < disc[y]

(* low is the number of a neighbour of what hangs below, and no neighbour  *)
(* that was looked at has a lower one, but for the way back to the parent. *)
Lows ==
    \A i \in Frames :
      /\ low[At(i)] <= disc[At(i)]
      /\ \/ low[At(i)] = disc[At(i)]
         \/ \E z \in Seen : \E y \in Adjacent(z) \cap Seen : disc[At(i)] <= disc[z] /\ disc[y] = low[At(i)]
      /\ \A y \in Adjacent(At(i)) \ stack[i].todo : y = parent[At(i)] \/ low[At(i)] <= disc[y]
      /\ \A z \in Inside(i) : \A y \in Adjacent(z) : low[At(i)] <= disc[y]

(* The child of a frame's node that is under way, if any.                  *)
Pending(i) == IF i < Len(stack) THEN 1 ELSE 0

Counted ==
    \A i \in Frames :
      /\ stack[i].children >= Pending(i)
      /\ stack[i].children = Pending(i) => Inside(i) = {}
      /\ stack[i].children > Pending(i) => Inside(i) \cap Adjacent(At(i)) # {}

(* What was reported cuts; of the rest, the finished nodes do not, and     *)
(* what is finished below a frame's node holds together without it, and    *)
(* with what is above it.                                                  *)
Judged ==
    /\ articulation \subseteq Seen
    /\ \A n \in articulation : Cuts(n)
    /\ \A n \in Finished : Cuts(n) => n \in articulation
    /\ \A i \in Frames : At(i) \notin articulation =>
         \A U \in SUBSET scope : Loose(U, At(i)) =>
            /\ i > 1 => \A x \in Inside(i) : x \in U <=> At(i - 1) \in U
            /\ \A x, y \in Inside(i) : x \in U <=> y \in U

Depth == scope \subseteq Node /\ Numbers /\ Spine /\ Nested /\ Looked /\ Lows /\ Counted /\ Judged

-----------------------------------------------------------------------------
LEMMA BothWays ==
    ASSUME NEW x \in scope, NEW y \in Adjacent(x)
    PROVE  y \in scope /\ x \in Adjacent(y)
  BY DEF Adjacent, Targets, Sources

LEMMA AdjacentInScope == \A x : Adjacent(x) \subseteq scope
  BY DEF Adjacent

LEMMA SameSide ==
    ASSUME NEW n, NEW U, Loose(U, n), NEW x \in scope \ {n}, NEW y \in Adjacent(x), y # n
    PROVE  x \in U <=> y \in U
<1>1. y \in scope \ {n} /\ x \in Adjacent(y)
  BY BothWays
<1> QED BY <1>1 DEF Loose

(* Whether a node cuts is a matter of the graph and the scope alone.       *)
LEMMA SameLinks ==
    ASSUME graph' = graph, scope' = scope
    PROVE  /\ \A n : Adjacent(n)' = Adjacent(n)
           /\ \A U, n : Loose(U, n)' <=> Loose(U, n)
           /\ \A n : Cuts(n)' <=> Cuts(n)
<1>1. \A n : Adjacent(n)' = Adjacent(n)
  BY DEF Adjacent, Targets, Sources
<1>2. \A U, n : Loose(U, n)' <=> Loose(U, n)
  BY <1>1 DEF Loose
<1>3. \A n : Cuts(n)' <=> Cuts(n)
  BY <1>1, <1>2 DEF Cuts
<1> QED BY <1>1, <1>2, <1>3

(* ... and it is what the module docstring's definition asks for.          *)
LEMMA CutsIsArticulation ==
    ASSUME scope \subseteq Node, NEW n \in scope
    PROVE  Cuts(n) <=> \E a, b \in scope \ {n} :
                          /\ b \in Closure(a, Adjacent)
                          /\ b \notin Closure(a, LAMBDA m : Adjacent(m) \ {n})
<1>1. ASSUME Cuts(n)
      PROVE  \E a, b \in scope \ {n} :
                /\ b \in Closure(a, Adjacent)
                /\ b \notin Closure(a, LAMBDA m : Adjacent(m) \ {n})
  <2>1. PICK U \in SUBSET (scope \ {n}) :
          Loose(U, n) /\ \E a \in Adjacent(n) \ {n}, b \in Adjacent(n) \ {n} : a \in U /\ b \notin U
    BY <1>1 DEF Cuts
  <2>2. PICK a \in Adjacent(n) \ {n}, b \in Adjacent(n) \ {n} : a \in U /\ b \notin U
    BY <2>1
  <2>3. a \in scope \ {n} /\ b \in scope \ {n} /\ n \in Adjacent(a) /\ b \in Node
    BY <2>2, BothWays
  <2>4. b \in Closure(a, Adjacent)
    <3>1. ASSUME NEW S \in SUBSET Node, a \in S, \A x \in S : Adjacent(x) \subseteq S
          PROVE  b \in S
      BY <2>2, <2>3, <3>1
    <3> QED BY <2>3, <3>1 DEF Closure
  <2>5. b \notin Closure(a, LAMBDA m : Adjacent(m) \ {n})
    <3>1. U \in SUBSET Node /\ a \in U /\ (\A x \in U : Adjacent(x) \ {n} \subseteq U) /\ b \notin U
      BY <2>1, <2>2 DEF Loose
    <3> QED BY <3>1 DEF Closure
  <2> QED BY <2>3, <2>4, <2>5
<1>2. ASSUME NEW a \in scope \ {n}, NEW b \in scope \ {n},
             b \in Closure(a, Adjacent),
             b \notin Closure(a, LAMBDA m : Adjacent(m) \ {n})
      PROVE  Cuts(n)
  <2>1. \A S \in SUBSET Node : a \in S /\ (\A x \in S : Adjacent(x) \subseteq S) => b \in S
    BY <1>2 DEF Closure
  <2>2. PICK V \in SUBSET Node : a \in V /\ (\A x \in V : Adjacent(x) \ {n} \subseteq V) /\ b \notin V
    BY <1>2 DEF Closure
  <2> DEFINE U == V \cap (scope \ {n})
  <2>3. Loose(U, n) /\ a \in U /\ b \notin U /\ U \in SUBSET (scope \ {n})
    BY <2>2, AdjacentInScope DEF Loose
  <2> HIDE DEF U
  <2>4. \E m \in Adjacent(n) \ {n} : m \in U
    <3> SUFFICES ASSUME \A m \in Adjacent(n) \ {n} : m \notin U PROVE FALSE
      OBVIOUS
    <3>1. \A x \in U : n \notin Adjacent(x)
      BY <2>3, BothWays
    <3>2. \A x \in U : Adjacent(x) \subseteq U
      BY <2>3, <3>1 DEF Loose
    <3>3. U \in SUBSET Node
      BY <2>3
    <3> QED BY <2>1, <2>3, <3>2, <3>3
  <2>5. \E m \in Adjacent(n) \ {n} : m \notin U
    <3> SUFFICES ASSUME \A m \in Adjacent(n) \ {n} : m \in U PROVE FALSE
      OBVIOUS
    <3> DEFINE W == U \cup {n}
    <3>1. \A x \in W : Adjacent(x) \subseteq W
      BY <2>3 DEF Loose
    <3>2. W \in SUBSET Node /\ a \in W /\ b \notin W
      BY <2>3
    <3> HIDE DEF W
    <3> QED BY <2>1, <3>1, <3>2
  <2> QED BY <2>3, <2>4, <2>5 DEF Cuts
<1> QED BY <1>1, <1>2

-----------------------------------------------------------------------------
(* The stack.                                                              *)
LEMMA StackIs ==
    ASSUME Numbers, Spine
    PROVE  /\ Len(stack) \in Nat
           /\ \A i \in Frames : /\ At(i) \in Seen /\ At(i) \in scope /\ At(i) \notin Finished
                                /\ disc[At(i)] \in Nat
                                /\ stack[i].todo \subseteq scope /\ stack[i].children \in Nat
           /\ \A i, j \in Frames : At(i) = At(j) => i = j
           /\ \A x \in Seen : x \notin Finished => \E i \in Frames : x = At(i)
<1>1. Len(stack) \in Nat /\ \A i \in Frames : stack[i] \in [node : Seen, todo : SUBSET scope, children : Nat]
  <2> DEFINE R == [node : Seen, todo : SUBSET scope, children : Nat]
  <2>1. stack \in Seq(R)
    BY DEF Spine
  <2> HIDE DEF R
  <2>2. Len(stack) \in Nat /\ \A i \in 1 .. Len(stack) : stack[i] \in R
    BY <2>1
  <2> QED BY <2>2 DEF R, Frames
<1>2. \A i \in Frames : At(i) \in Seen /\ stack[i].todo \subseteq scope /\ stack[i].children \in Nat
  BY <1>1 DEF At
<1>3. \A i \in Frames : At(i) \in scope /\ disc[At(i)] \in Nat /\ At(i) \notin Finished
  BY <1>2 DEF Numbers, Finished
<1>4. \A i, j \in Frames : At(i) = At(j) => i = j
  <2> SUFFICES ASSUME NEW i \in Frames, NEW j \in Frames, At(i) = At(j) PROVE i = j
    OBVIOUS
  <2>1. i \in Nat /\ j \in Nat
    BY <1>1 DEF Frames
  <2>2. disc[At(i)] = disc[At(j)] /\ disc[At(i)] \in Nat
    BY <1>3
  <2>3. ~(i < j) /\ ~(j < i)
    BY <2>2 DEF Spine
  <2> QED BY <2>1, <2>3
<1> QED BY <1>1, <1>2, <1>3, <1>4 DEF Finished

LEMMA InsideFinished ==
    ASSUME Numbers, Spine, NEW i \in Frames
    PROVE  Inside(i) \subseteq Finished
<1> SUFFICES ASSUME NEW x \in Inside(i), NEW j \in Frames, x = At(j) PROVE FALSE
  BY DEF Finished, Inside
<1>1. disc[At(i)] < disc[At(j)] /\ (i < Len(stack) => disc[At(j)] < disc[At(i + 1)])
      /\ disc[At(i)] \in Nat /\ disc[At(j)] \in Nat /\ i \in Nat /\ j \in Nat /\ Len(stack) \in Nat
  BY StackIs DEF Inside, Frames
<1>2. i < j
  <2>1. ~(j < i)
    <3> SUFFICES ASSUME j < i PROVE FALSE
      OBVIOUS
    <3>1. disc[At(j)] < disc[At(i)]
      BY DEF Spine
    <3> QED BY <1>1, <3>1
  <2>2. j # i
    BY <1>1
  <2> QED BY <1>1, <2>1, <2>2
<1>3. i + 1 \in Frames /\ i < Len(stack) /\ disc[At(i + 1)] \in Nat
  BY <1>1, <1>2, StackIs DEF Frames
<1>4. i + 1 = j \/ i + 1 < j
  BY <1>1, <1>2
<1>5. disc[At(i + 1)] <= disc[At(j)]
  BY <1>1, <1>3, <1>4 DEF Spine
<1> QED BY <1>1, <1>3, <1>5

(* A call of dfs that is about to return: c, and all that came after it.   *)
Since(c) == {x \in Seen : disc[c] <= disc[x]}

LEMMA SinceIs ==
    ASSUME Numbers, Spine, stack # <<>>
    PROVE  LET k == Len(stack)
               c == At(k)
           IN  /\ k \in Frames /\ Since(c) = {c} \cup Inside(k)
               /\ c \in Since(c) /\ Since(c) \subseteq scope
               /\ \A x \in Since(c) : x # c => x \in Finished /\ disc[c] < disc[x]
               /\ \A i \in Frames : At(i) \in Since(c) => i = k
<1> DEFINE k == Len(stack)
           c == At(k)
<1>1. k \in Frames /\ k \in Nat
  <2>1. Len(stack) \in Nat /\ stack \in Seq([node : Seen, todo : SUBSET scope, children : Nat])
    BY StackIs DEF Spine
  <2>2. Len(stack) # 0
    BY <2>1
  <2> QED BY <2>1, <2>2 DEF Frames
<1>2. c \in Seen /\ disc[c] \in Nat /\ Seen \subseteq scope /\ \A x \in Seen : disc[x] \in Nat
  BY <1>1, StackIs DEF Numbers
<1>3. Inside(k) = {x \in Seen : disc[c] < disc[x]}
  BY <1>1 DEF Inside
<1>4. \A x \in Seen : disc[c] <= disc[x] <=> x = c \/ disc[c] < disc[x]
  BY <1>2 DEF Numbers
<1>5. Since(c) = {c} \cup Inside(k)
  BY <1>2, <1>3, <1>4 DEF Since
<1>6. \A i \in Frames : At(i) \in Since(c) => i = k
  <2> SUFFICES ASSUME NEW i \in Frames, At(i) \in Since(c), i # k PROVE FALSE
    OBVIOUS
  <2>1. i < k
    BY <1>1 DEF Frames
  <2>2. disc[At(i)] < disc[c]
    BY <1>1, <2>1 DEF Spine
  <2>3. disc[At(i)] \in Nat /\ disc[c] <= disc[At(i)]
    BY <1>2 DEF Since
  <2> QED BY <1>2, <2>2, <2>3
<1> HIDE DEF c, k
<1>7. \A x \in Since(c) : x # c => x \in Finished /\ disc[c] < disc[x]
  BY <1>1, <1>3, <1>5, InsideFinished
<1>8. c \in Since(c) /\ Since(c) \subseteq scope
  BY <1>2, <1>5 DEF Since
<1> QED BY <1>1, <1>5, <1>6, <1>7, <1>8 DEF c, k

(* All of it holds together below c.                                       *)
LEMMA Together ==
    ASSUME Numbers, Spine, Nested, stack # <<>>,
           NEW n, n \notin Since(At(Len(stack))), NEW U, Loose(U, n)
    PROVE  \A x \in Since(At(Len(stack))) : x \in U <=> At(Len(stack)) \in U
<1> DEFINE k == Len(stack)
           c == At(k)
           Bad == {x \in Since(c) : ~(x \in U <=> c \in U)}
           B == {disc[x] : x \in Bad}
<1>1. /\ k \in Frames /\ c \in Since(c) /\ Since(c) \subseteq scope
      /\ \A x \in Since(c) : x # c => disc[c] < disc[x]
  BY SinceIs
<1>2. \A x \in Seen : disc[x] \in Nat
  BY DEF Numbers
<1> SUFFICES ASSUME Bad # {} PROVE FALSE
  OBVIOUS
<1>3. B \subseteq Nat /\ B # {}
  BY <1>2 DEF Since
<1>4. PICK m \in B : \A j \in B : m <= j
  <2> HIDE DEF B
  <2> QED BY <1>3, Least
<1>5. PICK x \in Bad : m = disc[x]
  BY <1>4
<1>6. x \in Since(c) /\ x # c /\ x \in Seen /\ x \in scope
  BY <1>1 DEF Since
<1> DEFINE p == parent[x]
<1>7. p \in Seen /\ x \in Adjacent(p) /\ disc[c] <= disc[p] /\ disc[p] < disc[x]
  BY <1>1, <1>6 DEF Nested
<1>8. p \in Since(c)
  BY <1>7 DEF Since
<1>9. p \notin Bad
  <2> SUFFICES ASSUME p \in Bad PROVE FALSE
    OBVIOUS
  <2>1. disc[p] \in B
    OBVIOUS
  <2>2. m <= disc[p] /\ m = disc[x] /\ disc[x] \in Nat /\ disc[p] \in Nat
    BY <1>2, <1>4, <1>5, <1>6, <1>7, <2>1
  <2> QED BY <1>7, <2>2
<1>10. p \in U <=> c \in U
  BY <1>8, <1>9
<1>11. p \in scope \ {n} /\ x # n
  BY <1>1, <1>6, <1>8
<1>12. p \in U <=> x \in U
  <2> HIDE DEF p
  <2> QED BY <1>7, <1>11, SameSide
<1> QED BY <1>10, <1>12

(* What is on the stack above the m-th frame holds together without it.    *)
LEMMA Upwards ==
    ASSUME Numbers, Spine, NEW m \in Frames, NEW U, Loose(U, At(m))
    PROVE  \A j \in 1 .. m - 1 : At(j) \in U <=> At(m - 1) \in U
<1>0. m \in Nat /\ m \in 1 .. Len(stack) /\ Len(stack) \in Nat
  BY StackIs DEF Frames
<1> DEFINE T == {i \in Nat : i < m - 1 => (At((m - 1) - i) \in U <=> At(m - 1) \in U)}
<1>1. 0 \in T
  BY <1>0
<1>2. ASSUME NEW i \in Nat, i \in T PROVE i + 1 \in T
  <2> SUFFICES ASSUME i + 1 < m - 1
               PROVE  At((m - 1) - (i + 1)) \in U <=> At(m - 1) \in U
    OBVIOUS
  <2> DEFINE j == (m - 1) - i
  <2>1. j \in 2 .. m - 1 /\ j \in Frames /\ j - 1 \in Frames /\ j > 1 /\ j - 1 = (m - 1) - (i + 1)
        /\ j # m /\ j - 1 # m
    BY <1>0 DEF Frames
  <2>2. At(j) \in U <=> At(m - 1) \in U
    BY <1>0, <1>2
  <2> HIDE DEF j
  <2>3. At(j) \in Adjacent(At(j - 1))
    BY <2>1 DEF Spine
  <2>4. At(j) # At(m) /\ At(j - 1) # At(m) /\ At(j - 1) \in scope
    BY <2>1, StackIs
  <2>5. At(j - 1) \in U <=> At(j) \in U
    BY <2>3, <2>4, SameSide
  <2> QED BY <2>1, <2>2, <2>5
<1>3. Nat \subseteq T
  <2> HIDE DEF T
  <2> QED BY <1>1, <1>2, Induction
<1> TAKE j \in 1 .. m - 1
<1>4. (m - 1) - j \in Nat /\ (m - 1) - j < m - 1 /\ (m - 1) - ((m - 1) - j) = j
  BY <1>0
<1>5. (m - 1) - j \in T
  BY <1>3, <1>4
<1>6. At((m - 1) - ((m - 1) - j)) \in U <=> At(m - 1) \in U
  BY <1>4, <1>5
<1> QED BY <1>4, <1>6

(* Links lead out of it only to what is on the stack.                      *)
LEMMA WaysOut ==
    ASSUME Numbers, Spine, Looked, stack # <<>>, Top.todo = {},
           NEW x \in Since(At(Len(stack))), NEW y \in Adjacent(x)
    PROVE  /\ y \in Seen
           /\ y \in Since(At(Len(stack))) \/ \E j \in 1 .. Len(stack) - 1 : y = At(j)
<1> DEFINE k == Len(stack)
           c == At(k)
<1>1. /\ k \in Frames /\ c \in Since(c) /\ Since(c) \subseteq scope
      /\ \A z \in Since(c) : z # c => z \in Finished /\ disc[c] < disc[z]
  BY SinceIs
<1>2. stack[k].todo = {} /\ c \in Seen /\ k \in Nat /\ \A z \in Seen : disc[z] \in Nat
  BY <1>1, StackIs DEF Top, Numbers
<1>3. y \in Seen
  BY <1>1, <1>2 DEF Looked
<1>4. ASSUME y \notin Since(c) PROVE \E j \in 1 .. k - 1 : y = At(j)
  <2>1. disc[y] < disc[c]
    BY <1>2, <1>3, <1>4 DEF Since
  <2>2. y \notin Finished
    <3> SUFFICES ASSUME y \in Finished PROVE FALSE
      OBVIOUS
    <3>1. CASE x = c
      <4>1. c \in Adjacent(y)
        BY <1>1, <3>1, BothWays
      <4>2. disc[c] < disc[y]
        BY <1>1, <4>1, StackIs DEF Looked
      <4> QED BY <1>2, <1>3, <2>1, <4>2
    <3>2. CASE x # c
      <4>1. disc[c] < disc[y]
        BY <1>1, <3>2 DEF Looked
      <4> QED BY <1>2, <1>3, <2>1, <4>1
    <3> QED BY <3>1, <3>2
  <2>3. PICK j \in Frames : y = At(j)
    BY <1>3, <2>2, StackIs
  <2>4. j # k
    BY <1>1, <1>4, <2>3
  <2> QED BY <1>2, <2>3, <2>4 DEF Frames
<1> QED BY <1>3, <1>4

(* dfs(n) begins below what is on the stack.                               *)
Framed(n, from, frames) ==
    /\ frames \in Seq([node : Seen, todo : SUBSET scope, children : Nat])
    /\ Len(frames) = Len(stack)
    /\ \A i \in Frames : i < Len(stack) => frames[i] = stack[i]
    /\ \A i \in Frames : i = Len(stack) =>
          /\ frames[i].node = stack[i].node
          /\ frames[i].todo = stack[i].todo \ {n}
          /\ frames[i].children = stack[i].children + 1
    /\ stack = <<>> => from = NoNode
    /\ stack # <<>> => from = At(Len(stack)) /\ n \in Adjacent(At(Len(stack)))

LEMMA EnterDepth ==
    ASSUME Depth, graph' = graph, scope' = scope, articulation' = articulation,
           NEW n \in scope \ Seen, NEW from, NEW frames,
           Enter(n, from, frames), Framed(n, from, frames),
           NEW k, k = Len(stack), NEW N, N = Cardinality(Seen)
    PROVE  Depth'
<1>0. /\ Numbers /\ Spine /\ Nested /\ Looked /\ Lows /\ Counted /\ Judged /\ scope \subseteq Node
      /\ k \in Nat /\ Frames = 1 .. k
  BY StackIs DEF Depth, Frames
<1>k. stack # <<>> <=> k \in Frames
  <2>1. stack \in Seq([node : Seen, todo : SUBSET scope, children : Nat])
    BY <1>0 DEF Spine
  <2> QED BY <1>0, <2>1
<1>1. N \in Nat /\ IsFiniteSet(Seen \cup {n}) /\ Cardinality(Seen \cup {n}) = N + 1
  BY <1>0, FS_AddElement, FS_CardinalityType DEF Numbers
<1>2. /\ disc' = Overwrite(disc, [m \in {n} |-> N])
      /\ low' = Overwrite(low, [m \in {n} |-> N])
      /\ parent' = Overwrite(parent, [m \in {n} |-> from])
      /\ stack' = Append(frames, [node |-> n, todo |-> Adjacent(n), children |-> 0])
  BY DEF Enter, Seen
<1>3. DOMAIN low = Seen /\ DOMAIN parent = Seen /\ DOMAIN disc = Seen
  BY <1>0 DEF Numbers, Seen
<1>4. /\ Seen' = Seen \cup {n} /\ DOMAIN disc' = Seen' /\ DOMAIN low' = Seen' /\ DOMAIN parent' = Seen'
      /\ disc'[n] = N /\ low'[n] = N /\ parent'[n] = from
      /\ \A x \in Seen : disc'[x] = disc[x] /\ low'[x] = low[x] /\ parent'[x] = parent[x]
      /\ disc' = [x \in Seen' |-> disc'[x]] /\ low' = [x \in Seen' |-> low'[x]]
      /\ parent' = [x \in Seen' |-> parent'[x]]
  <2>1. DOMAIN disc' = Seen \cup {n} /\ DOMAIN low' = Seen \cup {n} /\ DOMAIN parent' = Seen \cup {n}
    BY <1>2, <1>3 DEF Overwrite
  <2>2. Seen' = Seen \cup {n}
    BY <2>1 DEF Seen
  <2>3. disc'[n] = N /\ low'[n] = N /\ parent'[n] = from
    BY <1>2, <1>3 DEF Overwrite
  <2>4. \A x \in Seen : disc'[x] = disc[x] /\ low'[x] = low[x] /\ parent'[x] = parent[x]
    BY <1>2, <1>3 DEF Overwrite
  <2>5. disc' = [x \in Seen' |-> disc'[x]] /\ low' = [x \in Seen' |-> low'[x]]
        /\ parent' = [x \in Seen' |-> parent'[x]]
    BY <1>2, <1>3, <2>2 DEF Overwrite
  <2> QED BY <2>1, <2>2, <2>3, <2>4, <2>5
<1>5. /\ Len(stack') = k + 1 /\ Frames' = 1 .. k + 1
      /\ stack'[k + 1] = [node |-> n, todo |-> Adjacent(n), children |-> 0]
      /\ \A i \in Frames : stack'[i] = frames[i]
  <2> DEFINE R == [node : Seen, todo : SUBSET scope, children : Nat]
             f == [node |-> n, todo |-> Adjacent(n), children |-> 0]
  <2>1. frames \in Seq(R) /\ stack' = Append(frames, f) /\ Len(frames) = k
    BY <1>2 DEF Framed
  <2> HIDE DEF R, f
  <2>2. Len(stack') = k + 1 /\ stack'[k + 1] = f /\ \A i \in 1 .. k : stack'[i] = frames[i]
    BY <2>1
  <2>3. Frames' = 1 .. k + 1
    BY <2>2 DEF Frames
  <2> QED BY <1>0, <2>2, <2>3 DEF f
<1>7. /\ At(k + 1)' = n
      /\ \A i \in Frames : At(i)' = At(i)
      /\ \A i \in Frames : i < k => stack'[i] = stack[i]
      /\ k \in Frames => stack'[k].todo = stack[k].todo \ {n} /\ stack'[k].children = stack[k].children + 1
  <2>1. At(k + 1)' = n
    BY <1>5 DEF At
  <2>2. \A i \in Frames : i < k => stack'[i] = stack[i]
    BY <1>5 DEF Framed
  <2>3. k \in Frames => /\ stack'[k].todo = stack[k].todo \ {n}
                        /\ stack'[k].children = stack[k].children + 1
                        /\ stack'[k].node = stack[k].node
    BY <1>5 DEF Framed
  <2>4. \A i \in Frames : i < k \/ i = k
    BY <1>0
  <2>5. \A i \in Frames : At(i)' = At(i)
    BY <2>2, <2>3, <2>4 DEF At
  <2> QED BY <2>1, <2>2, <2>3, <2>5
<1>8. /\ \A x \in Seen : disc[x] \in Nat /\ disc[x] < N
      /\ \A i \in Frames : At(i) \in Seen /\ At(i) \notin Finished
      /\ n \notin Seen /\ Finished \subseteq Seen
  BY <1>0, StackIs DEF Numbers, Finished
<1>9. Finished' = Finished
  <2>1. {At(i)' : i \in Frames'} = {At(i) : i \in Frames} \cup {n}
    <3>1. \A x : (\E i \in 1 .. k + 1 : x = At(i)') <=> (x = n \/ \E i \in 1 .. k : x = At(i))
      <4>1. \A i \in 1 .. k + 1 : i = k + 1 \/ i \in 1 .. k
        BY <1>0
      <4>2. k + 1 \in 1 .. k + 1 /\ 1 .. k \subseteq 1 .. k + 1
        BY <1>0
      <4> QED BY <1>0, <1>7, <4>1, <4>2
    <3> QED BY <1>0, <1>5, <3>1
  <2>2. Finished' = Seen' \ {At(i)' : i \in Frames'}
    BY DEF Finished
  <2> QED BY <1>4, <1>8, <2>1, <2>2 DEF Finished
<1>10. /\ \A i \in Frames : Inside(i)' = Inside(i)
       /\ Inside(k + 1)' = {}
  <2>1. ASSUME NEW i \in Frames PROVE Inside(i)' = Inside(i)
    <3>1. Inside(i)' = {x \in Seen' : disc'[At(i)'] < disc'[x] /\ (i < Len(stack') => disc'[x] < disc'[At(i + 1)'])}
      BY DEF Inside
    <3>2. i < Len(stack') /\ At(i)' = At(i) /\ At(i) \in Seen
      BY <1>0, <1>5, <1>7, <1>8
    <3>3. CASE i < k
      <4>1. i + 1 \in Frames /\ At(i + 1)' = At(i + 1) /\ At(i + 1) \in Seen
        BY <1>0, <1>7, <1>8, <3>3
      <4>2. disc'[At(i + 1)'] = disc[At(i + 1)] /\ disc'[At(i)'] = disc[At(i)]
        BY <1>4, <3>2, <4>1
      <4>3. n \notin Inside(i)'
        BY <1>1, <1>4, <1>8, <3>1, <3>2, <4>1, <4>2
      <4>4. \A x \in Seen : x \in Inside(i)' <=> x \in Inside(i)
        BY <1>4, <3>1, <3>2, <3>3, <4>2 DEF Inside
      <4>5. Inside(i)' \subseteq Seen' /\ Inside(i) \subseteq Seen
        BY DEF Inside
      <4> QED BY <1>4, <4>3, <4>4, <4>5
    <3>4. CASE ~(i < k)
      <4>1. i = k /\ At(i + 1)' = n
        BY <1>0, <1>7, <3>4
      <4>2. disc'[At(i + 1)'] = N /\ disc'[At(i)'] = disc[At(i)]
        BY <1>4, <3>2, <4>1
      <4>3. n \notin Inside(i)'
        BY <1>1, <1>4, <3>1, <3>2, <4>2
      <4>4. \A x \in Seen : x \in Inside(i)' <=> x \in Inside(i)
        BY <1>4, <1>8, <3>1, <3>2, <3>4, <4>2 DEF Inside
      <4>5. Inside(i)' \subseteq Seen' /\ Inside(i) \subseteq Seen
        BY DEF Inside
      <4> QED BY <1>4, <4>3, <4>4, <4>5
    <3> QED BY <3>3, <3>4
  <2>2. Inside(k + 1)' = {}
    <3>1. \A x \in Seen' : ~(disc'[n] < disc'[x])
      BY <1>1, <1>4, <1>8
    <3>2. \A j : j = k + 1 => Inside(j)' = {x \in Seen' : disc'[At(j)'] < disc'[x] /\ (j < Len(stack') => disc'[x] < disc'[At(j + 1)'])}
      BY DEF Inside
    <3>3. \A j : j = k + 1 => Inside(j)' = {}
      BY <1>7, <3>1, <3>2
    <3> QED BY <1>5, <3>3 DEF Inside
  <2> QED BY <2>1, <2>2
<1>11. Numbers'
  <2>1. IsFiniteSet(Seen') /\ Cardinality(Seen') = N + 1 /\ Seen' \subseteq scope'
    BY <1>0, <1>1, <1>4 DEF Numbers
  <2>2. \A x \in Seen' : disc'[x] \in Nat /\ disc'[x] < N + 1
    BY <1>1, <1>4, <1>8
  <2>3. \A x \in Seen' : low'[x] \in Nat /\ parent'[x] \in scope \cup {NoNode}
    <3>1. \A x \in Seen : low[x] \in Nat /\ parent[x] \in scope \cup {NoNode}
      BY <1>0 DEF Numbers
    <3>2. from \in scope \cup {NoNode}
      <4>1. k \in Frames => At(k) \in scope
        BY <1>0, StackIs
      <4> QED BY <1>k, <4>1 DEF Framed
    <3> QED BY <1>1, <1>4, <3>1, <3>2
  <2>4. \A x, y \in Seen' : disc'[x] = disc'[y] => x = y
    <3>1. \A x, y \in Seen : disc[x] = disc[y] => x = y
      BY <1>0 DEF Numbers
    <3> QED BY <1>1, <1>4, <1>8, <3>1
  <2>5. disc' \in [Seen' -> Nat] /\ low' \in [Seen' -> Nat] /\ parent' \in [Seen' -> scope \cup {NoNode}]
    BY <1>4, <2>2, <2>3
  <2> QED BY <2>1, <2>2, <2>4, <2>5 DEF Numbers
<1>12. Spine'
  <2>1. stack' \in Seq([node : Seen', todo : SUBSET scope', children : Nat])
    <3> DEFINE R == [node : Seen, todo : SUBSET scope, children : Nat]
               Q == [node : Seen', todo : SUBSET scope', children : Nat]
               f == [node |-> n, todo |-> Adjacent(n), children |-> 0]
    <3>1. R \subseteq Q /\ f \in Q
      BY <1>4, AdjacentInScope
    <3>2. frames \in Seq(R) /\ stack' = Append(frames, f)
      BY <1>2 DEF Framed
    <3> HIDE DEF R, Q, f
    <3>3. stack' \in Seq(Q)
      BY <3>1, <3>2
    <3> QED BY <3>3 DEF Q
  <2>2. ASSUME NEW i \in Frames', NEW j \in Frames', i < j PROVE disc'[At(i)'] < disc'[At(j)']
    <3>1. i \in Frames /\ At(i)' = At(i) /\ At(i) \in Seen
      BY <1>0, <1>5, <1>7, <1>8, <2>2
    <3>2. CASE j = k + 1
      BY <1>4, <1>7, <1>8, <3>1, <3>2
    <3>3. CASE j # k + 1
      <4>1. j \in Frames /\ At(j)' = At(j) /\ At(j) \in Seen
        BY <1>0, <1>5, <1>7, <1>8, <3>3
      <4>2. disc[At(i)] < disc[At(j)]
        BY <1>0, <2>2, <3>1, <4>1 DEF Spine
      <4> QED BY <1>4, <3>1, <4>1, <4>2
    <3> QED BY <3>2, <3>3
  <2>3. ASSUME NEW i \in Frames', i > 1 PROVE parent'[At(i)'] = At(i - 1)' /\ At(i)' \in Adjacent(At(i - 1))'
    <3>0. i - 1 \in Frames /\ At(i - 1)' = At(i - 1) /\ i \in Nat
      BY <1>0, <1>5, <1>7, <2>3
    <3>a. Adjacent(At(i - 1))' = Adjacent(At(i - 1))
      BY <3>0 DEF Adjacent, Targets, Sources
    <3>1. CASE i = k + 1
      <4>1. i - 1 = k /\ k \in Frames
        BY <1>0, <2>3, <3>1
      <4>2. from = At(k) /\ n \in Adjacent(At(k))
        BY <1>k, <4>1 DEF Framed
      <4> QED BY <1>4, <1>7, <3>0, <3>a, <3>1, <4>1, <4>2
    <3>2. CASE i # k + 1
      <4>1. i \in Frames /\ At(i)' = At(i) /\ At(i) \in Seen
        BY <1>0, <1>5, <1>7, <1>8, <3>2
      <4>2. parent[At(i)] = At(i - 1) /\ At(i) \in Adjacent(At(i - 1))
        BY <1>0, <2>3, <4>1 DEF Spine
      <4> QED BY <1>4, <3>0, <3>a, <4>1, <4>2
    <3> QED BY <3>1, <3>2
  <2>4. ASSUME NEW i \in Frames', i = 1 PROVE parent'[At(i)'] = NoNode
    <3>1. CASE i = k + 1
      <4>1. stack = <<>>
        BY <1>0, <1>k, <2>4, <3>1
      <4> QED BY <1>4, <1>7, <3>1, <4>1 DEF Framed
    <3>2. CASE i # k + 1
      <4>1. i \in Frames /\ At(i)' = At(i) /\ At(i) \in Seen
        BY <1>0, <1>5, <1>7, <1>8, <3>2
      <4>2. parent[At(i)] = NoNode
        BY <1>0, <2>4, <4>1 DEF Spine
      <4> QED BY <1>4, <4>1, <4>2
    <3> QED BY <3>1, <3>2
  <2> QED BY <2>1, <2>2, <2>3, <2>4 DEF Spine
<1>13. ASSUME NEW i \in Frames' PROVE i = k + 1 \/ (i \in Frames /\ At(i)' = At(i) /\ At(i) \in Seen /\ i # k + 1)
  BY <1>0, <1>5, <1>7, <1>8
<1>14. Nested'
  <2> SUFFICES ASSUME NEW i \in Frames', NEW x \in Seen', disc'[At(i)'] < disc'[x]
               PROVE  /\ parent'[x] \in Seen' /\ x \in Adjacent(parent'[x])
                      /\ disc'[At(i)'] <= disc'[parent'[x]] /\ disc'[parent'[x]] < disc'[x]
    <3>1. \A y : Adjacent(y)' = Adjacent(y)
      BY SameLinks
    <3>2. Nested' <=> \A i \in Frames' : \A x \in Seen' : disc'[At(i)'] < disc'[x] =>
              /\ parent'[x] \in Seen' /\ x \in Adjacent(parent'[x])
              /\ disc'[At(i)'] <= disc'[parent'[x]] /\ disc'[parent'[x]] < disc'[x]
      BY <3>1 DEF Nested, Adjacent, Targets, Sources
    <3> QED BY <3>2
  <2>1. i # k + 1
    BY <1>1, <1>4, <1>7, <1>8
  <2>2. i \in Frames /\ At(i)' = At(i) /\ At(i) \in Seen /\ disc'[At(i)'] = disc[At(i)]
    BY <1>4, <1>13, <2>1
  <2>3. CASE x \in Seen
    <3>1. /\ parent[x] \in Seen /\ x \in Adjacent(parent[x])
          /\ disc[At(i)] <= disc[parent[x]] /\ disc[parent[x]] < disc[x]
      BY <1>0, <1>4, <2>2, <2>3 DEF Nested
    <3> QED BY <1>4, <2>2, <2>3, <3>1
  <2>4. CASE x = n
    <3>1. k \in Frames /\ At(k) \in Seen
      BY <1>0, <1>8, <2>2
    <3>2. parent'[x] = At(k) /\ n \in Adjacent(At(k))
      BY <1>k, <1>4, <2>4, <3>1 DEF Framed
    <3>3. disc[At(i)] <= disc[At(k)]
      <4>1. i = k \/ i < k
        BY <1>0, <2>2
      <4> QED BY <1>0, <1>8, <2>2, <3>1, <4>1 DEF Spine
    <3> QED BY <1>4, <1>8, <2>2, <2>4, <3>1, <3>2, <3>3
  <2> QED BY <1>4, <2>3, <2>4
<1>15. Looked'
  <2>0. \A y : Adjacent(y)' = Adjacent(y)
    BY SameLinks
  <2>1. ASSUME NEW i \in Frames'
        PROVE stack'[i].todo \subseteq Adjacent(At(i)') /\ Adjacent(At(i)') \ stack'[i].todo \subseteq Seen'
    <3>1. CASE i = k + 1
      BY <1>5, <1>7, <3>1
    <3>2. CASE i # k + 1
      <4>1. i \in Frames /\ At(i)' = At(i)
        BY <1>13, <3>2
      <4>2. stack[i].todo \subseteq Adjacent(At(i)) /\ Adjacent(At(i)) \ stack[i].todo \subseteq Seen
        BY <1>0, <4>1 DEF Looked
      <4>3. stack'[i].todo = stack[i].todo \/ stack'[i].todo = stack[i].todo \ {n}
        <5>1. i < k \/ i = k
          BY <1>0, <4>1
        <5> QED BY <1>7, <4>1, <5>1
      <4> QED BY <1>4, <4>1, <4>2, <4>3
    <3> QED BY <3>1, <3>2
  <2>2. ASSUME NEW x \in Finished
        PROVE  /\ Adjacent(x) \subseteq Seen
               /\ \A y \in Adjacent(x) : y \notin Finished => disc'[y] < disc'[x]
               /\ \A y \in Adjacent(x) : \A i \in Frames' :
                    y \in Finished /\ disc'[At(i)'] < disc'[x] => disc'[At(i)'] < disc'[y]
    <3>1. Adjacent(x) \subseteq Seen /\ x \in Seen
      BY <1>0, <1>8 DEF Looked
    <3>2. \A y \in Adjacent(x) : y \notin Finished => disc'[y] < disc'[x]
      <4>1. \A y \in Adjacent(x) : y \notin Finished => disc[y] < disc[x]
        BY <1>0 DEF Looked
      <4> QED BY <1>4, <3>1, <4>1
    <3>3. ASSUME NEW y \in Adjacent(x), NEW i \in Frames', y \in Finished, disc'[At(i)'] < disc'[x]
          PROVE  disc'[At(i)'] < disc'[y]
      <4>1. i # k + 1
        BY <1>1, <1>4, <1>7, <1>8, <3>1, <3>3
      <4>2. i \in Frames /\ At(i)' = At(i) /\ At(i) \in Seen
        BY <1>13, <4>1
      <4>3. disc[At(i)] < disc[x] => disc[At(i)] < disc[y]
        BY <1>0, <3>3, <4>2 DEF Looked
      <4> QED BY <1>4, <3>1, <3>3, <4>2, <4>3
    <3> QED BY <3>1, <3>2, <3>3
  <2>3. /\ \A i \in Frames' : stack'[i].todo \subseteq Adjacent(At(i))' /\ Adjacent(At(i))' \ stack'[i].todo \subseteq Seen'
        /\ \A x \in Finished' : Adjacent(x)' \subseteq Seen'
    <3>1. \A i \in Frames' : Adjacent(At(i))' = Adjacent(At(i)')
      BY DEF Adjacent, Targets, Sources
    <3> QED BY <1>4, <1>9, <2>0, <2>1, <2>2, <3>1
  <2> QED BY <1>9, <2>0, <2>2, <2>3 DEF Looked
<1>16. Lows'
  <2> SUFFICES ASSUME NEW i \in Frames'
      PROVE /\ low'[At(i)'] <= disc'[At(i)']
            /\ \/ low'[At(i)'] = disc'[At(i)']
               \/ \E z \in Seen' : \E y \in Adjacent(z) \cap Seen' : disc'[At(i)'] <= disc'[z] /\ disc'[y] = low'[At(i)']
            /\ \A y \in Adjacent(At(i)') \ stack'[i].todo : y = parent'[At(i)'] \/ low'[At(i)'] <= disc'[y]
            /\ \A z \in Inside(i)' : \A y \in Adjacent(z) : low'[At(i)'] <= disc'[y]
    <3>1. \A y : Adjacent(y)' = Adjacent(y)
      BY SameLinks
    <3>2. \A i \in Frames' : Adjacent(At(i))' = Adjacent(At(i)')
      BY DEF Adjacent, Targets, Sources
    <3> QED BY <3>1, <3>2 DEF Lows
  <2>1. CASE i = k + 1
    BY <1>1, <1>4, <1>5, <1>7, <1>10, <2>1
  <2>2. CASE i # k + 1
    <3>1. i \in Frames /\ At(i)' = At(i) /\ At(i) \in Seen
      BY <1>13, <2>2
    <3>2. disc'[At(i)'] = disc[At(i)] /\ low'[At(i)'] = low[At(i)] /\ parent'[At(i)'] = parent[At(i)]
          /\ low[At(i)] \in Nat
      BY <1>0, <1>4, <3>1 DEF Numbers
    <3>3. /\ low[At(i)] <= disc[At(i)]
          /\ \/ low[At(i)] = disc[At(i)]
             \/ \E z \in Seen : \E y \in Adjacent(z) \cap Seen : disc[At(i)] <= disc[z] /\ disc[y] = low[At(i)]
          /\ \A y \in Adjacent(At(i)) \ stack[i].todo : y = parent[At(i)] \/ low[At(i)] <= disc[y]
          /\ \A z \in Inside(i) : \A y \in Adjacent(z) : low[At(i)] <= disc[y]
      BY <1>0, <3>1 DEF Lows
    <3>4. \/ low'[At(i)'] = disc'[At(i)']
          \/ \E z \in Seen' : \E y \in Adjacent(z) \cap Seen' : disc'[At(i)'] <= disc'[z] /\ disc'[y] = low'[At(i)']
      <4>1. CASE low[At(i)] = disc[At(i)]
        BY <3>2, <4>1
      <4>2. CASE \E z \in Seen : \E y \in Adjacent(z) \cap Seen : disc[At(i)] <= disc[z] /\ disc[y] = low[At(i)]
        <5>1. PICK z \in Seen : \E y \in Adjacent(z) \cap Seen : disc[At(i)] <= disc[z] /\ disc[y] = low[At(i)]
          BY <4>2
        <5>2. PICK y \in Adjacent(z) \cap Seen : disc[At(i)] <= disc[z] /\ disc[y] = low[At(i)]
          BY <5>1
        <5>3. z \in Seen' /\ y \in Adjacent(z) \cap Seen' /\ disc'[z] = disc[z] /\ disc'[y] = disc[y]
          BY <1>4, <5>2
        <5> QED BY <3>2, <5>2, <5>3
      <4> QED BY <3>3, <4>1, <4>2
    <3>5. \A y \in Adjacent(At(i)) \ stack'[i].todo : y = parent[At(i)] \/ low[At(i)] <= disc'[y]
      <4> SUFFICES ASSUME NEW y \in Adjacent(At(i)) \ stack'[i].todo PROVE y = parent[At(i)] \/ low[At(i)] <= disc'[y]
        OBVIOUS
      <4>1. CASE y = n
        BY <1>1, <1>4, <1>8, <3>1, <3>2, <3>3, <4>1
      <4>2. CASE y # n
        <5>1. stack'[i].todo = stack[i].todo \/ stack'[i].todo = stack[i].todo \ {n}
          <6>1. i < k \/ i = k
            BY <1>0, <3>1
          <6> QED BY <1>7, <3>1, <6>1
        <5>2. y \in Adjacent(At(i)) \ stack[i].todo /\ y \in Seen
          BY <1>0, <3>1, <4>2, <5>1 DEF Looked
        <5> QED BY <1>4, <3>3, <5>2
      <4> QED BY <4>1, <4>2
    <3>6. \A z \in Inside(i) : \A y \in Adjacent(z) : low[At(i)] <= disc'[y]
      <4>1. \A z \in Inside(i) : Adjacent(z) \subseteq Seen
        BY <1>0, <3>1, InsideFinished DEF Looked
      <4> QED BY <1>4, <3>3, <4>1
    <3>7. Inside(i)' = Inside(i)
      BY <1>10, <3>1
    <3> QED BY <3>1, <3>2, <3>3, <3>4, <3>5, <3>6, <3>7
  <2> QED BY <2>1, <2>2
<1>17. Counted'
  <2> SUFFICES ASSUME NEW i \in Frames'
      PROVE /\ stack'[i].children >= Pending(i)'
            /\ stack'[i].children = Pending(i)' => Inside(i)' = {}
            /\ stack'[i].children > Pending(i)' => Inside(i)' \cap Adjacent(At(i)') # {}
    <3>1. \A i \in Frames' : Adjacent(At(i))' = Adjacent(At(i)')
      BY DEF Adjacent, Targets, Sources
    <3> QED BY <3>1 DEF Counted
  <2>1. CASE i = k + 1
    <3>1. Pending(i)' = 0 /\ stack'[i].children = 0
      BY <1>0, <1>5, <2>1 DEF Pending
    <3> QED BY <1>10, <2>1, <3>1
  <2>2. CASE i # k + 1
    <3>1. i \in Frames /\ At(i)' = At(i) /\ Inside(i)' = Inside(i) /\ Adjacent(At(i)') = Adjacent(At(i))
      BY <1>10, <1>13, <2>2
    <3>2. /\ stack[i].children >= Pending(i)
          /\ stack[i].children = Pending(i) => Inside(i) = {}
          /\ stack[i].children > Pending(i) => Inside(i) \cap Adjacent(At(i)) # {}
      BY <1>0, <3>1 DEF Counted
    <3>3. Pending(i)' = 1
      BY <1>0, <1>5, <3>1 DEF Pending
    <3>4. CASE i < k
      BY <1>7, <3>1, <3>2, <3>3, <3>4 DEF Pending
    <3>5. CASE ~(i < k)
      <4>1. i = k /\ Pending(i) = 0 /\ stack[i].children \in Nat
        BY <1>0, <3>1, <3>5, StackIs DEF Pending
      <4>2. stack'[i].children = stack[i].children + 1
        BY <1>7, <3>1, <4>1
      <4> QED BY <3>1, <3>2, <3>3, <4>1, <4>2
    <3> QED BY <3>4, <3>5
  <2> QED BY <2>1, <2>2
<1>18. Judged'
  <2>0. (\A m : Cuts(m)' <=> Cuts(m)) /\ (\A U, m : Loose(U, m)' <=> Loose(U, m))
    BY SameLinks
  <2>1. articulation' \subseteq Seen' /\ (\A m \in articulation' : Cuts(m)) /\ \A m \in Finished' : Cuts(m) => m \in articulation'
    BY <1>0, <1>4, <1>9 DEF Judged
  <2>2. ASSUME NEW i \in Frames', At(i)' \notin articulation', NEW U \in SUBSET scope', Loose(U, At(i)')
        PROVE  /\ i > 1 => \A x \in Inside(i)' : x \in U <=> At(i - 1)' \in U
               /\ \A x, y \in Inside(i)' : x \in U <=> y \in U
    <3>1. CASE i = k + 1
      BY <1>10, <3>1
    <3>2. CASE i # k + 1
      <4>1. i \in Frames /\ At(i)' = At(i) /\ Inside(i)' = Inside(i) /\ At(i) \notin articulation /\ Loose(U, At(i))
        BY <1>10, <1>13, <2>2, <3>2
      <4>2. i > 1 => At(i - 1)' = At(i - 1)
        <5>1. i > 1 => i - 1 \in Frames
          BY <1>0, <4>1
        <5> QED BY <1>7, <5>1
      <4>3. /\ i > 1 => \A x \in Inside(i) : x \in U <=> At(i - 1) \in U
            /\ \A x, y \in Inside(i) : x \in U <=> y \in U
        BY <1>0, <4>1 DEF Judged
      <4> QED BY <4>1, <4>2, <4>3
    <3> QED BY <3>1, <3>2
  <2>3. \A i \in Frames' : \A U : Loose(U, At(i))' <=> Loose(U, At(i)')
    <3>1. \A y : Adjacent(y)' = Adjacent(y)
      BY SameLinks
    <3> QED BY <3>1 DEF Loose
  <2> QED BY <2>0, <2>1, <2>2, <2>3 DEF Judged
<1> QED BY <1>0, <1>11, <1>12, <1>14, <1>15, <1>16, <1>17, <1>18 DEF Depth

LEMMA RootDepth ==
    ASSUME Depth, Root
    PROVE  Depth'
<1>1. PICK n \in scope \ Seen : Enter(n, NoNode, <<>>)
  BY DEF Root, Seen
<1>2. stack = <<>> /\ graph' = graph /\ scope' = scope /\ articulation' = articulation
  BY DEF Root
<1>3. Framed(n, NoNode, <<>>)
  BY <1>2 DEF Framed, Frames
<1> QED BY <1>1, <1>2, <1>3, EnterDepth

LEMMA Grown ==
    ASSUME NEW S, NEW T, NEW r \in [node : S, todo : SUBSET T, children : Nat], NEW n
    PROVE  LET f == [r EXCEPT !.todo = @ \ {n}, !.children = @ + 1]
           IN  /\ f \in [node : S, todo : SUBSET T, children : Nat]
               /\ f.node = r.node /\ f.todo = r.todo \ {n} /\ f.children = r.children + 1
<1> DEFINE f == [r EXCEPT !.todo = @ \ {n}, !.children = @ + 1]
<1>1. r.node \in S /\ r.todo \in SUBSET T /\ r.children \in Nat /\ DOMAIN r = {"node", "todo", "children"}
  OBVIOUS
<1>2. DOMAIN f = {"node", "todo", "children"}
  BY <1>1
<1>3. f["node"] = r.node /\ f["todo"] = r.todo \ {n} /\ f["children"] = r.children + 1
  BY <1>1
<1>4. f = [x \in {"node", "todo", "children"} |-> f[x]]
  BY <1>2
<1> HIDE DEF f
<1>5. f = [node |-> f.node, todo |-> f.todo, children |-> f.children]
  BY <1>4
<1> QED BY <1>1, <1>3, <1>5 DEF f

LEMMA DescendDepth ==
    ASSUME Depth, Descend
    PROVE  Depth'
<1> DEFINE k == Len(stack)
           R == [node : Seen, todo : SUBSET scope, children : Nat]
           Step(m) == [stack EXCEPT ![k] = [Top EXCEPT !.todo = @ \ {m}, !.children = @ + 1]]
<1>1. PICK n \in Top.todo \ Seen : Enter(n, Top.node, Step(n))
  BY DEF Descend, Seen
<1>2. stack # <<>> /\ graph' = graph /\ scope' = scope /\ articulation' = articulation
      /\ Numbers /\ Spine /\ Looked
  BY DEF Descend, Depth
<1>3. k \in Frames /\ stack \in Seq(R) /\ k \in Nat
  BY <1>2, SinceIs, StackIs DEF Spine
<1>4. Top.node = At(k) /\ Top.todo = stack[k].todo /\ stack[k].todo \subseteq Adjacent(At(k))
      /\ stack[k] \in R /\ Top = stack[k]
  <2>1. stack[k] \in R
    <3> HIDE DEF R
    <3> QED BY <1>3 DEF Frames
  <2> QED BY <1>2, <1>3, <2>1 DEF Top, At, Looked
<1>5. n \in Adjacent(At(k)) /\ n \in scope \ Seen
  BY <1>1, <1>4, AdjacentInScope
<1> DEFINE f == [Top EXCEPT !.todo = @ \ {n}, !.children = @ + 1]
<1>6. f \in R /\ f.node = stack[k].node /\ f.todo = stack[k].todo \ {n} /\ f.children = stack[k].children + 1
  <2>1. Top \in R /\ Top = stack[k]
    BY <1>4
  <2> HIDE DEF k
  <2>2. /\ [Top EXCEPT !.todo = @ \ {n}, !.children = @ + 1] \in [node : Seen, todo : SUBSET scope, children : Nat]
        /\ [Top EXCEPT !.todo = @ \ {n}, !.children = @ + 1].node = Top.node
        /\ [Top EXCEPT !.todo = @ \ {n}, !.children = @ + 1].todo = Top.todo \ {n}
        /\ [Top EXCEPT !.todo = @ \ {n}, !.children = @ + 1].children = Top.children + 1
    <3> HIDE DEF f, Step
    <3>1. Top \in [node : Seen, todo : SUBSET scope, children : Nat]
      BY <2>1
    <3> QED BY ONLY <3>1, Grown
  <2> QED BY <2>1, <2>2
<1>7. Step(n) = [stack EXCEPT ![k] = f]
  OBVIOUS
<1>8. /\ Step(n) \in Seq(R) /\ Len(Step(n)) = k /\ Step(n)[k] = f
      /\ \A i \in Frames : i < k => Step(n)[i] = stack[i]
  <2> HIDE DEF R, f
  <2>1. [stack EXCEPT ![k] = f] \in Seq(R) /\ Len([stack EXCEPT ![k] = f]) = k
    BY <1>3, <1>6 DEF Frames
  <2>2. [stack EXCEPT ![k] = f][k] = f /\ \A i \in Frames : i < k => [stack EXCEPT ![k] = f][i] = stack[i]
    BY <1>3 DEF Frames
  <2> QED BY <1>7, <2>1, <2>2
<1>9. Framed(n, Top.node, Step(n))
  <2> HIDE DEF Step
  <2> QED BY <1>2, <1>4, <1>5, <1>6, <1>8 DEF Framed
<1> HIDE DEF Step
<1> QED BY <1>1, <1>2, <1>5, <1>9, EnterDepth

LEMMA LookBackDepth ==
    ASSUME Depth, LookBack, NEW k, k = Len(stack)
    PROVE  Depth'
<1> DEFINE c == At(k)
<1>0. /\ Numbers /\ Spine /\ Nested /\ Looked /\ Lows /\ Counted /\ Judged /\ scope \subseteq Node
      /\ k \in Nat /\ Frames = 1 .. k /\ stack # <<>> /\ k \in Frames
  BY StackIs, SinceIs DEF Depth, Frames, LookBack
<1>1. PICK n \in Top.todo \cap DOMAIN disc :
        /\ stack' = [stack EXCEPT ![Len(stack)].todo = @ \ {n}]
        /\ low' = IF n = parent[Top.node] THEN low ELSE [low EXCEPT ![Top.node] = Min({@, disc[n]})]
  BY DEF LookBack
<1>2. /\ graph' = graph /\ scope' = scope /\ articulation' = articulation /\ disc' = disc /\ parent' = parent
      /\ Seen' = Seen
  BY DEF LookBack, Seen
<1>3. Top.node = c /\ Top.todo = stack[k].todo
  BY DEF Top, At
<1> DEFINE R == [node : Seen, todo : SUBSET scope, children : Nat]
           f == [stack[k] EXCEPT !.todo = @ \ {n}]
<1>4. stack \in Seq(R) /\ stack[k] \in R
  <2>1. stack \in Seq(R)
    BY <1>0 DEF Spine
  <2> HIDE DEF R
  <2> QED BY <1>0, <2>1 DEF Frames
<1>5. f \in R /\ f.node = c /\ f.todo = stack[k].todo \ {n} /\ f.children = stack[k].children
  BY <1>4 DEF At
<1>6. stack' \in Seq(R) /\ Len(stack') = k /\ stack'[k] = f /\ \A i \in Frames : i # k => stack'[i] = stack[i]
  <2>1. stack' = [stack EXCEPT ![k] = f]
    BY <1>1
  <2> HIDE DEF R, f
  <2> QED BY <1>0, <1>4, <1>5, <2>1 DEF Frames
<1> HIDE DEF f
<1>7. /\ Frames' = Frames /\ Len(stack') = Len(stack)
      /\ \A i \in Frames : At(i)' = At(i) /\ stack'[i].children = stack[i].children /\ Pending(i)' = Pending(i)
                           /\ (i # k => stack'[i].todo = stack[i].todo)
      /\ stack'[k].todo = stack[k].todo \ {n}
  <2>1. Frames' = Frames
    BY <1>6 DEF Frames
  <2>2. ASSUME NEW i \in Frames
        PROVE  At(i)' = At(i) /\ stack'[i].children = stack[i].children /\ Pending(i)' = Pending(i)
               /\ (i # k => stack'[i].todo = stack[i].todo)
    <3>1. CASE i = k
      BY <1>5, <1>6, <3>1 DEF At, Pending
    <3>2. CASE i # k
      BY <1>6, <3>2 DEF At, Pending
    <3> QED BY <3>1, <3>2
  <2> QED BY <1>5, <1>6, <2>1, <2>2
<1>8. Finished' = Finished
  <2>1. {At(i)' : i \in Frames'} = {At(i) : i \in Frames}
    BY <1>7
  <2>2. Finished' = Seen' \ {At(i)' : i \in Frames'}
    BY DEF Finished
  <2> QED BY <1>2, <2>1, <2>2 DEF Finished
<1>9. ASSUME NEW i \in Frames PROVE Inside(i)' = Inside(i)
  <2>1. Inside(i)' = {x \in Seen' : disc'[At(i)'] < disc'[x] /\ (i < Len(stack') => disc'[x] < disc'[At(i + 1)'])}
    BY DEF Inside
  <2>2. i < Len(stack) => At(i + 1)' = At(i + 1)
    BY <1>0, <1>7
  <2> QED BY <1>2, <1>7, <2>1, <2>2 DEF Inside
<1>10. /\ c \in Seen /\ n \in Seen /\ n \in Adjacent(c) /\ c \in scope
       /\ disc \in [Seen -> Nat] /\ low \in [Seen -> Nat]
       /\ \A i \in Frames : At(i) \in Seen /\ (At(i) = c => i = k)
  <2>1. n \in Seen /\ n \in stack[k].todo
    BY <1>1, <1>3 DEF Seen
  <2>2. n \in Adjacent(c)
    BY <1>0, <2>1 DEF Looked
  <2> QED BY <1>0, <2>1, <2>2, StackIs DEF Numbers
<1>11. /\ low' \in [Seen -> Nat] /\ \A x \in Seen : x # c => low'[x] = low[x]
       /\ n = parent[c] => low' = low
       /\ n # parent[c] => low'[c] <= low[c] /\ low'[c] <= disc[n] /\ (low'[c] = low[c] \/ low'[c] = disc[n])
  <2>1. CASE n = parent[c]
    BY <1>1, <1>3, <1>10, <2>1
  <2>2. CASE n # parent[c]
    <3>1. low' = [low EXCEPT ![c] = Min({low[c], disc[n]})]
      BY <1>1, <1>3, <2>2
    <3>2. low[c] \in Nat /\ disc[n] \in Nat
      BY <1>10
    <3>3. Min({low[c], disc[n]}) = IF low[c] <= disc[n] THEN low[c] ELSE disc[n]
      BY <3>2, MinOfTwo
    <3> HIDE DEF c
    <3> QED BY <1>10, <2>2, <3>1, <3>2, <3>3
  <2> QED BY <2>1, <2>2
<1> HIDE DEF c
<1>12. Numbers'
  BY <1>0, <1>2, <1>11 DEF Numbers
<1>13. \A y : Adjacent(y)' = Adjacent(y)
  BY <1>2, SameLinks
<1>14. \A i \in Frames : Adjacent(At(i))' = Adjacent(At(i)')
  BY <1>2 DEF Adjacent, Targets, Sources
<1>15. Spine'
  <2>1. stack' \in Seq([node : Seen', todo : SUBSET scope', children : Nat])
    BY <1>2, <1>6
  <2>2. \A i \in Frames' : \A j \in Frames' : i < j => disc'[At(i)'] < disc'[At(j)']
    BY <1>0, <1>2, <1>7 DEF Spine
  <2>3. ASSUME NEW i \in Frames', i > 1 PROVE parent'[At(i)'] = At(i - 1)' /\ At(i)' \in Adjacent(At(i - 1))'
    <3>1. i \in Frames /\ i - 1 \in Frames
      BY <1>0, <1>7, <2>3
    <3>2. parent[At(i)] = At(i - 1) /\ At(i) \in Adjacent(At(i - 1))
      BY <1>0, <2>3, <3>1 DEF Spine
    <3>3. At(i)' = At(i) /\ At(i - 1)' = At(i - 1)
      BY <1>7, <3>1
    <3>4. Adjacent(At(i - 1))' = Adjacent(At(i - 1)')
      BY <1>2 DEF Adjacent, Targets, Sources
    <3> QED BY <1>2, <1>13, <3>2, <3>3, <3>4
  <2>4. \A i \in Frames' : i = 1 => parent'[At(i)'] = NoNode
    BY <1>0, <1>2, <1>7 DEF Spine
  <2> QED BY <2>1, <2>2, <2>3, <2>4 DEF Spine
<1>16. Nested'
  <2>1. \A i \in Frames' : \A x \in Seen' : disc'[At(i)'] < disc'[x] =>
              /\ parent'[x] \in Seen' /\ x \in Adjacent(parent'[x])
              /\ disc'[At(i)'] <= disc'[parent'[x]] /\ disc'[parent'[x]] < disc'[x]
    BY <1>0, <1>2, <1>7 DEF Nested
  <2> QED BY <1>2, <2>1 DEF Nested, Adjacent, Targets, Sources
<1>17. Looked'
  <2>1. ASSUME NEW i \in Frames
        PROVE stack'[i].todo \subseteq Adjacent(At(i)) /\ Adjacent(At(i)) \ stack'[i].todo \subseteq Seen
    <3>1. stack[i].todo \subseteq Adjacent(At(i)) /\ Adjacent(At(i)) \ stack[i].todo \subseteq Seen
      BY <1>0 DEF Looked
    <3>2. CASE i = k
      BY <1>7, <1>10, <3>1, <3>2
    <3>3. CASE i # k
      BY <1>7, <3>1, <3>3
    <3> QED BY <3>2, <3>3
  <2>2. \A i \in Frames' : stack'[i].todo \subseteq Adjacent(At(i))' /\ Adjacent(At(i))' \ stack'[i].todo \subseteq Seen'
    BY <1>2, <1>7, <1>13, <1>14, <2>1
  <2>3. /\ \A x \in Finished : Adjacent(x) \subseteq Seen
        /\ \A x \in Finished : \A y \in Adjacent(x) : y \notin Finished => disc[y] < disc[x]
        /\ \A x \in Finished : \A y \in Adjacent(x) : \A i \in Frames' :
              y \in Finished /\ disc[At(i)'] < disc[x] => disc[At(i)'] < disc[y]
    BY <1>0, <1>7 DEF Looked
  <2> QED BY <1>2, <1>8, <1>13, <2>2, <2>3 DEF Looked
<1>18. Lows'
  <2> SUFFICES ASSUME NEW i \in Frames
      PROVE /\ low'[At(i)] <= disc[At(i)]
            /\ \/ low'[At(i)] = disc[At(i)]
               \/ \E z \in Seen : \E y \in Adjacent(z) \cap Seen : disc[At(i)] <= disc[z] /\ disc[y] = low'[At(i)]
            /\ \A y \in Adjacent(At(i)) \ stack'[i].todo : y = parent[At(i)] \/ low'[At(i)] <= disc[y]
            /\ \A z \in Inside(i) : \A y \in Adjacent(z) : low'[At(i)] <= disc[y]
    BY <1>2, <1>7, <1>9, <1>13, <1>14 DEF Lows
  <2>1. /\ low[At(i)] <= disc[At(i)] /\ low[At(i)] \in Nat /\ disc[At(i)] \in Nat
        /\ \/ low[At(i)] = disc[At(i)]
           \/ \E z \in Seen : \E y \in Adjacent(z) \cap Seen : disc[At(i)] <= disc[z] /\ disc[y] = low[At(i)]
        /\ \A y \in Adjacent(At(i)) \ stack[i].todo : y = parent[At(i)] \/ low[At(i)] <= disc[y]
        /\ \A z \in Inside(i) : \A y \in Adjacent(z) : low[At(i)] <= disc[y]
    BY <1>0, <1>10 DEF Lows
  <2>2. CASE i # k
    <3>1. low'[At(i)] = low[At(i)] /\ stack'[i].todo = stack[i].todo
      BY <1>7, <1>10, <1>11, <2>2
    <3> QED BY <2>1, <3>1
  <2>3. CASE i = k
    <3>1. At(i) = c /\ stack'[i].todo = stack[i].todo \ {n}
      BY <1>7, <2>3 DEF c
    <3>2. CASE n = parent[c]
      BY <1>11, <2>1, <3>1, <3>2
    <3>3. CASE n # parent[c]
      <4>1. low'[c] <= low[c] /\ low'[c] <= disc[n] /\ (low'[c] = low[c] \/ low'[c] = disc[n]) /\ low'[c] \in Nat
        BY <1>10, <1>11, <3>3
      <4>2. \A y \in Seen : disc[y] \in Nat
        BY <1>10
      <4>3. low'[c] <= disc[c]
        BY <2>1, <3>1, <4>1
      <4>4. low'[c] = disc[c] \/ \E z \in Seen : \E y \in Adjacent(z) \cap Seen : disc[c] <= disc[z] /\ disc[y] = low'[c]
        <5>1. CASE low'[c] = low[c]
          BY <2>1, <3>1, <5>1
        <5>2. CASE low'[c] = disc[n]
          BY <1>10, <2>1, <3>1, <5>2
        <5> QED BY <4>1, <5>1, <5>2
      <4>5. \A y \in Adjacent(c) \ stack'[i].todo : y = parent[c] \/ low'[c] <= disc[y]
        <5> SUFFICES ASSUME NEW y \in Adjacent(c) \ stack'[i].todo, y # parent[c] PROVE low'[c] <= disc[y]
          OBVIOUS
        <5>1. CASE y = n
          BY <4>1, <5>1
        <5>2. CASE y # n
          <6>1. y \in Adjacent(c) \ stack[i].todo
            BY <3>1, <5>2
          <6>2. y \in Seen /\ low[c] <= disc[y]
            BY <1>0, <2>1, <3>1, <6>1 DEF Looked
          <6> QED BY <2>1, <3>1, <4>1, <4>2, <6>2
        <5> QED BY <5>1, <5>2
      <4>6. \A z \in Inside(i) : \A y \in Adjacent(z) : low'[c] <= disc[y]
        <5> SUFFICES ASSUME NEW z \in Inside(i), NEW y \in Adjacent(z) PROVE low'[c] <= disc[y]
          OBVIOUS
        <5>1. y \in Seen
          BY <1>0, InsideFinished DEF Looked
        <5> QED BY <2>1, <3>1, <4>1, <4>2, <5>1
      <4> QED BY <3>1, <4>3, <4>4, <4>5, <4>6
    <3> QED BY <3>2, <3>3
  <2> QED BY <2>2, <2>3
<1>19. Counted'
  BY <1>0, <1>7, <1>9, <1>13, <1>14 DEF Counted
<1>20. Judged'
  <2>1. (\A m : Cuts(m)' <=> Cuts(m)) /\ (\A U, m : Loose(U, m)' <=> Loose(U, m))
    BY <1>2, SameLinks
  <2>2. articulation' \subseteq Seen' /\ (\A m \in articulation' : Cuts(m)) /\ \A m \in Finished' : Cuts(m) => m \in articulation'
    BY <1>0, <1>2, <1>8 DEF Judged
  <2>3. ASSUME NEW i \in Frames', At(i)' \notin articulation', NEW U \in SUBSET scope', Loose(U, At(i)')
        PROVE  /\ i > 1 => \A x \in Inside(i)' : x \in U <=> At(i - 1)' \in U
               /\ \A x, y \in Inside(i)' : x \in U <=> y \in U
    <3>1. i \in Frames /\ At(i)' = At(i) /\ Inside(i)' = Inside(i) /\ At(i) \notin articulation /\ Loose(U, At(i))
      BY <1>2, <1>7, <1>9, <2>3
    <3>2. i > 1 => At(i - 1)' = At(i - 1)
      <4>1. i > 1 => i - 1 \in Frames
        BY <1>0, <3>1
      <4> QED BY <1>7, <4>1
    <3>3. /\ i > 1 => \A x \in Inside(i) : x \in U <=> At(i - 1) \in U
          /\ \A x, y \in Inside(i) : x \in U <=> y \in U
      BY <1>0, <1>2, <3>1, <2>3 DEF Judged
    <3> QED BY <3>1, <3>2, <3>3
  <2>4. \A i \in Frames' : \A U : Loose(U, At(i))' <=> Loose(U, At(i)')
    BY <1>13, <1>2 DEF Loose
  <2> QED BY <2>1, <2>2, <2>3, <2>4 DEF Judged
<1> QED BY <1>0, <1>2, <1>12, <1>15, <1>16, <1>17, <1>18, <1>19, <1>20 DEF Depth

(* What the caller's frame and its node are to a call about to return.     *)
LEMMA CallerIs ==
    ASSUME Depth, NEW k, k = Len(stack), k > 1
    PROVE  /\ k \in Nat /\ k \in Frames /\ k - 1 \in Frames /\ Frames = 1 .. k /\ stack # <<>>
           /\ At(k) \in Seen /\ At(k - 1) \in Seen /\ At(k) # At(k - 1)
           /\ At(k) \in scope /\ At(k - 1) \in scope
           /\ parent[At(k)] = At(k - 1) /\ At(k) \in Adjacent(At(k - 1)) /\ At(k - 1) \in Adjacent(At(k))
           /\ \A x \in Seen : disc[x] \in Nat /\ low[x] \in Nat
           /\ disc[At(k - 1)] < disc[At(k)] /\ At(k - 1) \notin Since(At(k))
           /\ parent[At(k - 1)] = NoNode <=> k = 2
<1>1. Numbers /\ Spine /\ scope \subseteq Node
  BY DEF Depth
<1>2. k \in Nat /\ Frames = 1 .. k
  BY <1>1, StackIs DEF Frames
<1>3. k \in Frames /\ k - 1 \in Frames /\ stack # <<>>
  <2>1. stack \in Seq([node : Seen, todo : SUBSET scope, children : Nat])
    BY <1>1 DEF Spine
  <2>2. stack # <<>>
    BY <1>2
  <2> QED BY <1>2, <2>2
<1>4. /\ At(k) \in Seen /\ At(k - 1) \in Seen /\ At(k) # At(k - 1)
      /\ At(k) \in scope /\ At(k - 1) \in scope
  BY <1>1, <1>2, <1>3, StackIs
<1>5. parent[At(k)] = At(k - 1) /\ At(k) \in Adjacent(At(k - 1)) /\ disc[At(k - 1)] < disc[At(k)]
  BY <1>1, <1>2, <1>3 DEF Spine
<1>6. At(k - 1) \in Adjacent(At(k))
  BY <1>4, <1>5, BothWays
<1>7. \A x \in Seen : disc[x] \in Nat /\ low[x] \in Nat
  BY <1>1 DEF Numbers
<1>8. At(k - 1) \notin Since(At(k))
  BY <1>4, <1>5, <1>7 DEF Since
<1>9. parent[At(k - 1)] = NoNode <=> k = 2
  <2>1. CASE k = 2
    BY <1>1, <1>3, <2>1 DEF Spine
  <2>2. CASE k # 2
    <3>1. k - 1 > 1 /\ (k - 1) - 1 \in Frames
      BY <1>2, <2>2
    <3>2. parent[At(k - 1)] = At((k - 1) - 1)
      BY <1>1, <1>3, <3>1 DEF Spine
    <3>3. At((k - 1) - 1) \in Node
      BY <1>1, <3>1, StackIs
    <3> QED BY <2>2, <3>2, <3>3, NoNodeAssumption
  <2> QED BY <2>1, <2>2
<1> QED BY <1>2, <1>3, <1>4, <1>5, <1>6, <1>7, <1>8, <1>9

(* What hangs below a child that reaches nothing before u is loose of u.   *)
LEMMA ReachesNothing ==
    ASSUME Depth, Top.todo = {}, NEW k, k = Len(stack), k > 1,
           low[At(k)] >= disc[At(k - 1)] \/ k = 2
    PROVE  Loose(Since(At(k)), At(k - 1))
<1> DEFINE c == At(k)
           u == At(k - 1)
<1>1. /\ k \in Nat /\ k \in Frames /\ k - 1 \in Frames /\ Frames = 1 .. k /\ stack # <<>>
      /\ c \in Seen /\ u \in Seen /\ parent[c] = u /\ u \notin Since(c)
      /\ \A x \in Seen : disc[x] \in Nat /\ low[x] \in Nat
  BY CallerIs
<1>2. Numbers /\ Spine /\ Looked /\ Lows
  BY DEF Depth
<1>3. Since(c) \subseteq scope /\ Since(c) = {c} \cup Inside(k)
  BY <1>1, <1>2, SinceIs
<1>4. ASSUME NEW x \in Since(c), NEW y \in Adjacent(x), y # u PROVE y \in Since(c)
  <2> SUFFICES ASSUME y \notin Since(c) PROVE FALSE
    OBVIOUS
  <2>1. PICK j \in 1 .. k - 1 : y = At(j)
    BY <1>1, <1>2, WaysOut
  <2>2. j # k - 1
    BY <1>4, <2>1
  <2>3. j \in Frames /\ j < k - 1 /\ k # 2
    BY <1>1, <2>1, <2>2
  <2>4. disc[y] < disc[u] /\ y \in Seen
    BY <1>1, <1>2, <2>1, <2>3, StackIs DEF Spine
  <2>5. low[c] <= disc[y]
    <3>1. CASE x = c
      <4>1. stack[k].todo = {}
        BY DEF Top
      <4> QED BY <1>1, <1>2, <1>4, <3>1, <4>1 DEF Lows
    <3>2. CASE x \in Inside(k)
      BY <1>1, <1>2, <3>2 DEF Lows
    <3> QED BY <1>3, <3>1, <3>2
  <2> QED BY <1>1, <2>3, <2>4, <2>5
<1> QED BY <1>1, <1>3, <1>4 DEF Loose

(* What the caller takes for an articulation point is one.                 *)
LEMMA ReportedCuts ==
    ASSUME Depth, Top.todo = {}, NEW k, k = Len(stack), k > 1,
           IsArticulation(At(k - 1), low[At(k)], stack[k - 1].children)
    PROVE  Cuts(At(k - 1))
<1> DEFINE c == At(k)
           u == At(k - 1)
<1>1. /\ k \in Nat /\ k \in Frames /\ k - 1 \in Frames /\ Frames = 1 .. k /\ stack # <<>>
      /\ c \in Seen /\ u \in Seen /\ c # u /\ c \in Adjacent(u) /\ u \notin Since(c)
      /\ disc[u] < disc[c] /\ (parent[u] = NoNode <=> k = 2)
      /\ \A x \in Seen : disc[x] \in Nat /\ low[x] \in Nat
  BY CallerIs
<1>2. Numbers /\ Spine /\ Counted
  BY DEF Depth
<1>3. Loose(Since(c), u)
  BY <1>1, ReachesNothing DEF IsArticulation
<1>4. c \in Since(c) /\ Since(c) \in SUBSET (scope \ {u})
  BY <1>1, <1>2, <1>3, SinceIs DEF Loose
<1>5. PICK b \in Adjacent(u) \ {u} : b \notin Since(c)
  <2>1. CASE k = 2
    <3>1. stack[1].children > 1 /\ Pending(1) = 1
      BY <1>1, <2>1 DEF IsArticulation, Pending
    <3>2. Inside(1) \cap Adjacent(u) # {}
      BY <1>1, <1>2, <2>1, <3>1 DEF Counted
    <3>3. PICK b \in Inside(1) : b \in Adjacent(u)
      BY <3>2
    <3>4. b \in Seen /\ disc[u] < disc[b] /\ disc[b] < disc[c]
      BY <1>1, <2>1 DEF Inside
    <3>5. b # u /\ b \notin Since(c)
      BY <1>1, <3>4 DEF Since
    <3> QED BY <3>3, <3>5
  <2>2. CASE k # 2
    <3>1. k - 1 > 1 /\ (k - 1) - 1 \in Frames /\ (k - 1) - 1 < k - 1 /\ (k - 1) - 1 # k
      BY <1>1, <2>2
    <3> DEFINE b == At((k - 1) - 1)
    <3>2. u \in Adjacent(b) /\ b \in scope /\ b \notin Since(c) /\ b # u
      <4>1. u \in Adjacent(b)
        BY <1>1, <1>2, <3>1 DEF Spine
      <4>2. b \in scope /\ b # u
        BY <1>1, <1>2, <3>1, StackIs
      <4>3. b \notin Since(c)
        BY <1>1, <1>2, <3>1, SinceIs
      <4> QED BY <4>1, <4>2, <4>3
    <3>3. b \in Adjacent(u)
      BY <3>2, BothWays
    <3> QED BY <3>2, <3>3
  <2> QED BY <2>1, <2>2
<1> HIDE DEF c, u
<1>6. c \in Adjacent(u) \ {u}
  BY <1>1
<1>7. Cuts(u)
  BY <1>3, <1>4, <1>5, <1>6 DEF Cuts
<1> QED BY <1>7 DEF u

(* A node whose call returns without having been reported does not cut.    *)
LEMMA FinishedCuts ==
    ASSUME Depth, Top.todo = {}, stack # <<>>, NEW k, k = Len(stack), Cuts(At(k))
    PROVE  At(k) \in articulation
<1> SUFFICES ASSUME At(k) \notin articulation PROVE FALSE
  OBVIOUS
<1> DEFINE c == At(k)
<1>1. Numbers /\ Spine /\ Looked /\ Judged
  BY DEF Depth
<1>2. /\ k \in Nat /\ k \in Frames /\ Frames = 1 .. k /\ c \in Since(c) /\ Since(c) = {c} \cup Inside(k)
  BY <1>1, SinceIs, StackIs DEF Frames
<1>3. PICK U \in SUBSET (scope \ {c}) :
        Loose(U, c) /\ \E a \in Adjacent(c) \ {c}, b \in Adjacent(c) \ {c} : a \in U /\ b \notin U
  BY DEF Cuts
<1>4. PICK a \in Adjacent(c) \ {c}, b \in Adjacent(c) \ {c} : a \in U /\ b \notin U
  BY <1>3
<1>5. /\ k > 1 => \A x \in Inside(k) : x \in U <=> At(k - 1) \in U
      /\ \A x, y \in Inside(k) : x \in U <=> y \in U
  BY <1>1, <1>2, <1>3 DEF Judged
<1>6. \A y \in Adjacent(c) \ {c} : y \in Inside(k) \/ \E j \in 1 .. k - 1 : y = At(j)
  BY <1>1, <1>2, WaysOut
<1>7. CASE k = 1
  BY <1>4, <1>5, <1>6, <1>7
<1>8. CASE k # 1
  <2>1. k > 1
    BY <1>2, <1>8
  <2>2. \A j \in 1 .. k - 1 : At(j) \in U <=> At(k - 1) \in U
    BY <1>1, <1>2, <1>3, Upwards
  <2>3. \A y \in Adjacent(c) \ {c} : y \in U <=> At(k - 1) \in U
    BY <1>5, <1>6, <2>1, <2>2
  <2> QED BY <1>4, <2>3
<1> QED BY <1>7, <1>8

(* ... and what hangs below a child that reaches something before u goes   *)
(* with what is above u.                                                   *)
LEMMA StaysTied ==
    ASSUME Depth, Top.todo = {}, NEW k, k = Len(stack), k > 1,
           ~IsArticulation(At(k - 1), low[At(k)], stack[k - 1].children), At(k - 1) \notin articulation,
           NEW U \in SUBSET scope, Loose(U, At(k - 1))
    PROVE  /\ k > 2 => \A x \in Inside(k - 1) \cup Since(At(k)) : x \in U <=> At(k - 2) \in U
           /\ \A x, y \in Inside(k - 1) \cup Since(At(k)) : x \in U <=> y \in U
<1> DEFINE c == At(k)
           u == At(k - 1)
<1>1. /\ k \in Nat /\ k \in Frames /\ k - 1 \in Frames /\ Frames = 1 .. k /\ stack # <<>>
      /\ c \in Seen /\ u \in Seen /\ u \notin Since(c)
      /\ disc[u] < disc[c] /\ (parent[u] = NoNode <=> k = 2)
      /\ \A x \in Seen : disc[x] \in Nat /\ low[x] \in Nat
  BY CallerIs
<1>2. Numbers /\ Spine /\ Nested /\ Looked /\ Lows /\ Counted /\ Judged
  BY DEF Depth
<1>3. \A x \in Since(c) : x \in U <=> c \in U
  BY <1>1, <1>2, Together
<1>4. CASE k = 2
  <2>1. stack[1].children = Pending(1)
    <3>1. Pending(1) = 1 /\ stack[1].children <= 1 /\ stack[1].children >= 1
      <4>1. Pending(1) = 1 /\ ~(stack[1].children > 1) /\ stack[1].children \in Nat
        BY <1>1, <1>2, <1>4, StackIs DEF IsArticulation, Pending
      <4>2. stack[1].children >= Pending(1)
        BY <1>1, <1>2, <1>4 DEF Counted
      <4> QED BY <4>1, <4>2
    <3>2. stack[1].children \in Nat
      BY <1>1, <1>2, <1>4, StackIs
    <3> QED BY <3>1, <3>2
  <2>2. Inside(k - 1) = {}
    BY <1>1, <1>2, <1>4, <2>1 DEF Counted
  <2> QED BY <1>3, <1>4, <2>2
<1>5. CASE k # 2
  <2>1. k > 2 /\ k - 1 > 1 /\ (k - 1) - 1 = k - 2 /\ k - 2 \in 1 .. (k - 1) - 1
    BY <1>1, <1>5
  <2>2. low[c] < disc[u]
    BY <1>1, <1>5 DEF IsArticulation
  <2>3. PICK z \in Seen : \E y \in Adjacent(z) \cap Seen : disc[c] <= disc[z] /\ disc[y] = low[c]
    BY <1>1, <1>2, <2>2 DEF Lows
  <2>4. PICK y \in Adjacent(z) \cap Seen : disc[c] <= disc[z] /\ disc[y] = low[c]
    BY <2>3
  <2>5. z \in Since(c) /\ z \in scope /\ z # u
    <3>1. z \in Since(c)
      BY <2>4 DEF Since
    <3> QED BY <1>1, <1>2, <3>1, SinceIs
  <2>6. PICK j \in 1 .. k - 1 : y = At(j)
    <3>1. y \notin Since(c)
      BY <1>1, <2>2, <2>4 DEF Since
    <3> QED BY <1>1, <1>2, <2>4, <2>5, <3>1, WaysOut
  <2>7. y # u /\ j \in 1 .. (k - 1) - 1
    <3>1. y # u
      BY <1>1, <2>2, <2>4
    <3>2. j # k - 1
      BY <2>6, <3>1
    <3> QED BY <1>1, <3>1, <3>2
  <2>8. z \in U <=> y \in U
    <3> HIDE DEF u, c
    <3>1. Loose(U, u) /\ z \in scope \ {u} /\ y \in Adjacent(z) /\ y # u
      BY <2>4, <2>5, <2>7 DEF u
    <3> QED BY <3>1, SameSide
  <2>9. At(j) \in U <=> At((k - 1) - 1) \in U
    BY <1>1, <1>2, <2>7, Upwards
  <2>10. \A x \in Since(c) : x \in U <=> At(k - 2) \in U
    BY <1>3, <2>1, <2>5, <2>6, <2>8, <2>9
  <2>11. \A x \in Inside(k - 1) : x \in U <=> At(k - 2) \in U
    BY <1>1, <1>2, <2>1 DEF Judged
  <2> QED BY <2>10, <2>11
<1> QED BY <1>4, <1>5

(* dfs returns to its caller.                                              *)
LEMMA ReturnStack ==
    ASSUME Depth, Return, NEW k, k = Len(stack)
    PROVE  /\ k \in Nat /\ k \in Frames /\ Frames = 1 .. k /\ Top.todo = {} /\ stack # <<>>
           /\ graph' = graph /\ scope' = scope /\ disc' = disc /\ parent' = parent /\ Seen' = Seen
           /\ stack' \in Seq([node : Seen, todo : SUBSET scope, children : Nat])
           /\ Len(stack') = k - 1 /\ Frames' = 1 .. k - 1
           /\ \A i \in 1 .. k - 1 : stack'[i] = stack[i] /\ At(i)' = At(i)
           /\ Finished' = Finished \cup {At(k)}
           /\ \A i \in 1 .. k - 1 : i < k - 1 => Inside(i)' = Inside(i)
           /\ \A i \in 1 .. k - 1 : i = k - 1 => Inside(i)' = Inside(i) \cup Since(At(k))
<1> DEFINE c == At(k)
           R == [node : Seen, todo : SUBSET scope, children : Nat]
<1>1. Numbers /\ Spine /\ stack # <<>> /\ Top.todo = {}
      /\ graph' = graph /\ scope' = scope /\ disc' = disc /\ parent' = parent /\ stack' = Front(stack)
  BY DEF Depth, Return
<1>2. k \in Nat /\ k \in Frames /\ Frames = 1 .. k /\ k > 0
  BY <1>1, SinceIs, StackIs DEF Frames
<1>3. Seen' = Seen
  BY <1>1 DEF Seen
<1>4. stack' \in Seq(R) /\ Len(stack') = k - 1 /\ \A i \in 1 .. k - 1 : stack'[i] = stack[i]
  <2>1. stack \in Seq(R) /\ stack' = SubSeq(stack, 1, k - 1)
    BY <1>1 DEF Spine, Front
  <2> HIDE DEF R
  <2> QED BY <1>2, <2>1
<1>5. Frames' = 1 .. k - 1
  BY <1>4 DEF Frames
<1>6. \A i \in 1 .. k - 1 : At(i)' = At(i)
  BY <1>4 DEF At
<1>7. \A i \in Frames : At(i) \in Seen /\ disc[At(i)] \in Nat /\ (At(i) = c => i = k)
  BY <1>1, <1>2, StackIs
<1>8. Finished' = Finished \cup {c}
  <2>1. {At(i)' : i \in Frames'} = {At(i) : i \in 1 .. k - 1}
    BY <1>5, <1>6
  <2>2. {At(i) : i \in Frames} = {At(i) : i \in 1 .. k - 1} \cup {c} /\ c \notin {At(i) : i \in 1 .. k - 1}
    <3>1. \A i \in 1 .. k : i = k \/ i \in 1 .. k - 1
      BY <1>2
    <3>2. 1 .. k - 1 \subseteq 1 .. k /\ k \in 1 .. k /\ k \notin 1 .. k - 1
      BY <1>2
    <3> HIDE DEF c
    <3>3. \A i \in 1 .. k - 1 : At(i) # c
      BY <1>2, <1>7, <3>2
    <3>4. \A x : (\E i \in 1 .. k : x = At(i)) <=> (x = c \/ \E i \in 1 .. k - 1 : x = At(i))
      BY <1>2, <3>1, <3>2 DEF c
    <3>5. c \notin {At(i) : i \in 1 .. k - 1}
      BY <3>3
    <3>6. {At(i) : i \in 1 .. k} = {At(i) : i \in 1 .. k - 1} \cup {c}
      BY <3>4
    <3>7. Frames = 1 .. k
      BY <1>2
    <3> QED BY <3>5, <3>6, <3>7
  <2>3. Finished' = Seen' \ {At(i)' : i \in Frames'}
    BY DEF Finished
  <2> QED BY <1>2, <1>3, <1>7, <2>1, <2>2, <2>3 DEF Finished
<1>9. ASSUME NEW i \in 1 .. k - 1
      PROVE  (i < k - 1 => Inside(i)' = Inside(i)) /\ (i = k - 1 => Inside(i)' = Inside(i) \cup Since(c))
  <2>1. Inside(i)' = {x \in Seen' : disc'[At(i)'] < disc'[x] /\ (i < Len(stack') => disc'[x] < disc'[At(i + 1)'])}
    BY DEF Inside
  <2>2. CASE i < k - 1
    <3>1. i + 1 \in 1 .. k - 1 /\ i \in Frames /\ i < Len(stack) /\ i < Len(stack')
      BY <1>2, <1>4, <2>2
    <3>2. At(i)' = At(i) /\ At(i + 1)' = At(i + 1)
      BY <1>6, <3>1
    <3> QED BY <1>1, <1>2, <1>3, <2>1, <2>2, <3>1, <3>2 DEF Inside
  <2>3. CASE i = k - 1
    <3>1. Inside(i)' = {x \in Seen : disc[At(i)] < disc[x]}
      BY <1>1, <1>3, <1>4, <1>6, <2>1, <2>3
    <3>2. Inside(i) = {x \in Seen : disc[At(i)] < disc[x] /\ disc[x] < disc[c]}
      BY <1>2, <2>3 DEF Inside
    <3>3. disc[At(i)] < disc[c] /\ disc[At(i)] \in Nat /\ disc[c] \in Nat /\ \A x \in Seen : disc[x] \in Nat
      <4>1. i \in Frames /\ k \in Frames /\ i < k
        BY <1>2, <2>3
      <4> QED BY <1>1, <4>1, <1>7 DEF Spine, Numbers
    <3> HIDE DEF c
    <3>4. \A x \in Seen : disc[At(i)] < disc[x] <=> (disc[At(i)] < disc[x] /\ disc[x] < disc[c]) \/ disc[c] <= disc[x]
      BY <3>3
    <3> QED BY <1>2, <2>3, <3>1, <3>2, <3>4 DEF Since
  <2> QED BY <2>2, <2>3
<1> QED BY <1>1, <1>2, <1>3, <1>4, <1>5, <1>6, <1>8, <1>9

LEMMA ReturnLow ==
    ASSUME Depth, Return, NEW k, k = Len(stack)
    PROVE  /\ k = 1 => low' = low /\ articulation' = articulation
           /\ low' \in [Seen -> Nat]
           /\ k > 1 =>
                /\ \A x \in Seen : x # At(k - 1) => low'[x] = low[x]
                /\ low'[At(k - 1)] <= low[At(k - 1)] /\ low'[At(k - 1)] <= low[At(k)]
                /\ low'[At(k - 1)] = low[At(k - 1)] \/ low'[At(k - 1)] = low[At(k)]
                /\ articulation' = articulation \cup
                       {n \in {At(k - 1)} : IsArticulation(n, low[At(k)], stack[k - 1].children)}
<1>1. Numbers /\ Spine /\ low \in [Seen -> Nat] /\ k \in Nat /\ k > 0
  <2>1. k \in Nat /\ k \in 1 .. k
    BY ReturnStack
  <2> QED BY <2>1 DEF Depth, Numbers
<1>2. CASE k = 1
  BY <1>1, <1>2 DEF Return
<1>3. CASE k # 1
  <2> DEFINE c == At(k)
             u == At(k - 1)
  <2>1. /\ low' = [low EXCEPT ![u] = Min({low[u], low[c]})]
        /\ articulation' = articulation \cup {n \in {u} : IsArticulation(n, low[c], stack[k - 1].children)}
    BY <1>3 DEF Return, Top, At
  <2>2. k > 1 /\ u \in Seen /\ c \in Seen /\ low[u] \in Nat /\ low[c] \in Nat
    <3>1. k > 1
      BY <1>1, <1>3
    <3> QED BY <3>1, CallerIs
  <2>3. Min({low[u], low[c]}) = IF low[u] <= low[c] THEN low[u] ELSE low[c]
    BY <2>2, MinOfTwo
  <2> HIDE DEF c, u
  <2>4. /\ low' \in [Seen -> Nat] /\ \A x \in Seen : x # u => low'[x] = low[x]
        /\ low'[u] <= low[u] /\ low'[u] <= low[c] /\ (low'[u] = low[u] \/ low'[u] = low[c])
    BY <1>1, <2>1, <2>2, <2>3
  <2> QED BY <1>3, <2>1, <2>4 DEF c, u
<1> QED BY <1>1, <1>2, <1>3

LEMMA ReturnDepth ==
    ASSUME Depth, Return, NEW k, k = Len(stack)
    PROVE  Depth'
<1> DEFINE c == At(k)
           u == At(k - 1)
<1>0. /\ Numbers /\ Spine /\ Nested /\ Looked /\ Lows /\ Counted /\ Judged /\ scope \subseteq Node
      /\ k \in Nat /\ k \in Frames /\ Frames = 1 .. k /\ Top.todo = {} /\ stack # <<>>
      /\ k = 1 \/ k > 1
  <2>1. k \in Nat /\ k \in Frames /\ Frames = 1 .. k /\ Top.todo = {} /\ stack # <<>>
    BY ReturnStack
  <2> QED BY <2>1 DEF Depth
<1>1. /\ graph' = graph /\ scope' = scope /\ disc' = disc /\ parent' = parent /\ Seen' = Seen
      /\ stack' \in Seq([node : Seen, todo : SUBSET scope, children : Nat])
      /\ Len(stack') = k - 1 /\ Frames' = 1 .. k - 1
      /\ \A i \in 1 .. k - 1 : stack'[i] = stack[i] /\ At(i)' = At(i)
      /\ Finished' = Finished \cup {c}
  BY ReturnStack
<1>2. /\ \A i \in 1 .. k - 1 : i < k - 1 => Inside(i)' = Inside(i)
      /\ \A i \in 1 .. k - 1 : i = k - 1 => Inside(i)' = Inside(i) \cup Since(c)
  BY ReturnStack
<1>3. ASSUME k > 1
      PROVE  /\ k - 1 \in Frames /\ c \in Seen /\ u \in Seen /\ c # u
             /\ parent[c] = u /\ c \in Adjacent(u) /\ disc[u] < disc[c]
             /\ \A x \in Seen : x # u => low'[x] = low[x]
             /\ low'[u] <= low[u] /\ low'[u] <= low[c] /\ (low'[u] = low[u] \/ low'[u] = low[c])
             /\ articulation' = articulation \cup {n \in {u} : IsArticulation(n, low[c], stack[k - 1].children)}
  BY <1>3, CallerIs, ReturnLow
<1>4. low' \in [Seen -> Nat] /\ (k = 1 => low' = low /\ articulation' = articulation)
  BY ReturnLow
<1>5. Since(c) = {c} \cup Inside(k) /\ c \in Since(c) /\ Since(c) \subseteq scope /\ c \in Seen
      /\ \A x \in Since(c) : x # c => x \in Finished /\ disc[c] < disc[x]
  BY <1>0, SinceIs, StackIs
<1>6. /\ \A i \in 1 .. k - 1 : i \in Frames /\ i < k /\ At(i) \in Seen /\ (At(i) = u => i = k - 1) /\ disc[At(i)] < disc[c]
      /\ \A x \in Seen : disc[x] \in Nat /\ low[x] \in Nat /\ low'[x] \in Nat
      /\ stack[k].todo = {} /\ Adjacent(c) \subseteq Seen
  <2>1. \A i \in 1 .. k - 1 : i \in Frames /\ i < k /\ k - 1 \in Frames
    BY <1>0
  <2>2. stack[k].todo = {}
    BY <1>0 DEF Top
  <2>3. Adjacent(c) \subseteq Seen
    BY <1>0, <2>2 DEF Looked
  <2>4. \A x \in Seen : disc[x] \in Nat /\ low[x] \in Nat /\ low'[x] \in Nat
    BY <1>0, <1>4 DEF Numbers
  <2>5. \A i \in 1 .. k - 1 : disc[At(i)] < disc[c]
    BY <1>0, <2>1 DEF Spine
  <2>6. \A i \in 1 .. k - 1 : At(i) \in Seen /\ (At(i) = u => i = k - 1)
    BY <1>0, <2>1, StackIs
  <2> QED BY <2>1, <2>2, <2>3, <2>4, <2>5, <2>6
<1>7. \A y : Adjacent(y)' = Adjacent(y)
  BY <1>1, SameLinks
<1>8. \A i \in Frames' : Adjacent(At(i))' = Adjacent(At(i)')
  BY <1>1 DEF Adjacent, Targets, Sources
<1>9. \A y \in Adjacent(c) : y \in Finished \/ y = c \/ \E j \in 1 .. k - 1 : y = At(j)
  BY <1>0, <1>5, WaysOut
<1> HIDE DEF c, u
<1>10. Numbers'
  BY <1>0, <1>1, <1>4 DEF Numbers
<1>11. Spine'
  <2>1. stack' \in Seq([node : Seen', todo : SUBSET scope', children : Nat])
    BY <1>1
  <2>2. ASSUME NEW i \in Frames', NEW j \in Frames', i < j PROVE disc'[At(i)'] < disc'[At(j)']
    <3>1. i \in Frames /\ j \in Frames /\ At(i)' = At(i) /\ At(j)' = At(j)
      BY <1>1, <1>6
    <3>2. disc[At(i)] < disc[At(j)]
      BY <1>0, <2>2, <3>1 DEF Spine
    <3> QED BY <1>1, <3>1, <3>2
  <2>3. ASSUME NEW i \in Frames', i > 1 PROVE parent'[At(i)'] = At(i - 1)' /\ At(i)' \in Adjacent(At(i - 1))'
    <3>1. i \in Frames /\ i - 1 \in 1 .. k - 1 /\ i \in 1 .. k - 1
      BY <1>0, <1>1, <2>3
    <3>2. parent[At(i)] = At(i - 1) /\ At(i) \in Adjacent(At(i - 1))
      BY <1>0, <2>3, <3>1 DEF Spine
    <3>3. At(i)' = At(i) /\ At(i - 1)' = At(i - 1)
      BY <1>1, <3>1
    <3>4. Adjacent(At(i - 1))' = Adjacent(At(i - 1)')
      BY <1>1 DEF Adjacent, Targets, Sources
    <3> QED BY <1>1, <1>7, <3>2, <3>3, <3>4
  <2>4. \A i \in Frames' : i = 1 => parent'[At(i)'] = NoNode
    BY <1>0, <1>1, <1>6 DEF Spine
  <2> QED BY <2>1, <2>2, <2>3, <2>4 DEF Spine
<1>12. Nested'
  <2>1. \A i \in Frames' : \A x \in Seen' : disc'[At(i)'] < disc'[x] =>
              /\ parent'[x] \in Seen' /\ x \in Adjacent(parent'[x])
              /\ disc'[At(i)'] <= disc'[parent'[x]] /\ disc'[parent'[x]] < disc'[x]
    BY <1>0, <1>1, <1>6 DEF Nested
  <2> QED BY <1>1, <2>1 DEF Nested, Adjacent, Targets, Sources
<1>13. Looked'
  <2>1. \A i \in Frames' : stack'[i].todo \subseteq Adjacent(At(i))' /\ Adjacent(At(i))' \ stack'[i].todo \subseteq Seen'
    <3>1. \A i \in 1 .. k - 1 : stack[i].todo \subseteq Adjacent(At(i)) /\ Adjacent(At(i)) \ stack[i].todo \subseteq Seen
      BY <1>0, <1>6 DEF Looked
    <3> QED BY <1>1, <1>7, <1>8, <3>1
  <2>2. \A x \in Finished \cup {c} : Adjacent(x) \subseteq Seen
    BY <1>0, <1>6 DEF Looked
  <2>3. ASSUME NEW x \in Finished \cup {c}, NEW y \in Adjacent(x), y \notin Finished \cup {c}
        PROVE  disc[y] < disc[x]
    <3>1. CASE x \in Finished
      BY <1>0, <2>3, <3>1 DEF Looked
    <3>2. CASE x = c
      BY <1>6, <1>9, <2>3, <3>2
    <3> QED BY <3>1, <3>2
  <2>4. ASSUME NEW x \in Finished \cup {c}, NEW y \in Adjacent(x), NEW i \in 1 .. k - 1,
               y \in Finished \cup {c}, disc[At(i)] < disc[x]
        PROVE  disc[At(i)] < disc[y]
    <3>1. CASE y = c
      BY <1>6, <3>1
    <3>2. CASE x = c /\ y \in Finished
      <4>1. c \in Adjacent(y) /\ c \notin Finished
        <5>1. c \in scope /\ c \notin Finished
          BY <1>0, StackIs DEF c
        <5> QED BY <3>2, <5>1, BothWays
      <4>2. disc[c] < disc[y] /\ y \in Seen
        BY <1>0, <3>2, <4>1 DEF Looked, Finished
      <4> QED BY <1>5, <1>6, <4>2
    <3>3. CASE x \in Finished /\ y \in Finished
      BY <1>0, <1>6, <2>4, <3>3 DEF Looked
    <3> QED BY <2>4, <3>1, <3>2, <3>3
  <2>5. \A x \in Finished' : \A y \in Adjacent(x)' : \A i \in Frames' :
           y \in Finished' /\ disc'[At(i)'] < disc'[x] => disc'[At(i)'] < disc'[y]
    <3> SUFFICES ASSUME NEW x \in Finished', NEW y \in Adjacent(x)', NEW i \in Frames',
                        y \in Finished', disc'[At(i)'] < disc'[x]
                 PROVE  disc'[At(i)'] < disc'[y]
      OBVIOUS
    <3>1. x \in Finished \cup {c} /\ y \in Adjacent(x) /\ y \in Finished \cup {c}
      BY <1>1, <1>7
    <3>2. i \in 1 .. k - 1 /\ At(i)' = At(i) /\ disc' = disc
      BY <1>1
    <3> QED BY <2>4, <3>1, <3>2
  <2>6. \A x \in Finished' : \A y \in Adjacent(x)' : y \notin Finished' => disc'[y] < disc'[x]
    BY <1>1, <1>7, <2>3
  <2>7. \A x \in Finished' : Adjacent(x)' \subseteq Seen'
    BY <1>1, <1>7, <2>2
  <2> QED BY <2>1, <2>5, <2>6, <2>7 DEF Looked
<1>14. Lows'
  <2> SUFFICES ASSUME NEW i \in Frames'
      PROVE /\ low'[At(i)'] <= disc'[At(i)']
            /\ \/ low'[At(i)'] = disc'[At(i)']
               \/ \E z \in Seen' : \E y \in Adjacent(z)' \cap Seen' : disc'[At(i)'] <= disc'[z] /\ disc'[y] = low'[At(i)']
            /\ \A y \in Adjacent(At(i))' \ stack'[i].todo : y = parent'[At(i)'] \/ low'[At(i)'] <= disc'[y]
            /\ \A z \in Inside(i)' : \A y \in Adjacent(z)' : low'[At(i)'] <= disc'[y]
    BY DEF Lows
  <2>a. i \in 1 .. k - 1 /\ At(i)' = At(i) /\ Adjacent(At(i))' = Adjacent(At(i)) /\ stack'[i].todo = stack[i].todo
    BY <1>1, <1>7, <1>8
  <2> SUFFICES
         /\ low'[At(i)] <= disc[At(i)]
         /\ \/ low'[At(i)] = disc[At(i)]
            \/ \E z \in Seen : \E y \in Adjacent(z) \cap Seen : disc[At(i)] <= disc[z] /\ disc[y] = low'[At(i)]
         /\ \A y \in Adjacent(At(i)) \ stack[i].todo : y = parent[At(i)] \/ low'[At(i)] <= disc[y]
         /\ \A z \in Inside(i)' : \A y \in Adjacent(z) : low'[At(i)] <= disc[y]
    BY <1>1, <1>7, <2>a
  <2>b. i \in 1 .. k - 1 /\ i \in Frames
    BY <1>6, <2>a
  <2> USE <2>b
  <2>1. /\ low[At(i)] <= disc[At(i)] /\ low[At(i)] \in Nat /\ disc[At(i)] \in Nat
        /\ \/ low[At(i)] = disc[At(i)]
           \/ \E z \in Seen : \E y \in Adjacent(z) \cap Seen : disc[At(i)] <= disc[z] /\ disc[y] = low[At(i)]
        /\ \A y \in Adjacent(At(i)) \ stack[i].todo : y = parent[At(i)] \/ low[At(i)] <= disc[y]
        /\ \A z \in Inside(i) : \A y \in Adjacent(z) : low[At(i)] <= disc[y]
    BY <1>0, <1>6 DEF Lows
  <2>2. k > 1
    BY <1>0
  <2>3. CASE i # k - 1
    <3>1. low'[At(i)] = low[At(i)]
      BY <1>3, <1>6, <2>2, <2>3
    <3>2. Inside(i)' = Inside(i)
      <4>1. i < k - 1
        BY <1>0, <2>3
      <4> QED BY <1>2, <4>1
    <3> QED BY <2>1, <3>1, <3>2
  <2>4. CASE i = k - 1
    <3>1. At(i) = u /\ Inside(i)' = Inside(i) \cup Since(c)
      BY <1>2, <2>4 DEF u
    <3>2. /\ low'[u] <= low[u] /\ low'[u] <= low[c] /\ (low'[u] = low[u] \/ low'[u] = low[c])
          /\ c \in Seen /\ u \in Seen /\ disc[u] < disc[c] /\ parent[c] = u
          /\ low[u] \in Nat /\ low[c] \in Nat /\ low'[u] \in Nat /\ disc[u] \in Nat /\ disc[c] \in Nat
      BY <1>3, <1>6, <2>2
    <3>3. low'[u] <= disc[u]
      BY <2>1, <3>1, <3>2
    <3>4. low'[u] = disc[u] \/ \E z \in Seen : \E y \in Adjacent(z) \cap Seen : disc[u] <= disc[z] /\ disc[y] = low'[u]
      <4>1. CASE low'[u] = low[u]
        BY <2>1, <3>1, <4>1
      <4>2. CASE low'[u] = low[c]
        <5>1. low[c] # disc[c]
          BY <3>2, <3>3, <4>2
        <5>2. \E z \in Seen : \E y \in Adjacent(z) \cap Seen : disc[c] <= disc[z] /\ disc[y] = low[c]
          BY <1>0, <5>1 DEF Lows, c
        <5> QED BY <1>6, <3>2, <4>2, <5>2
      <4> QED BY <3>2, <4>1, <4>2
    <3>5. \A y \in Adjacent(u) \ stack[i].todo : y = parent[u] \/ low'[u] <= disc[y]
      <4>1. \A y \in Adjacent(u) \ stack[i].todo : y \in Seen
        BY <1>0, <1>6, <3>1 DEF Looked
      <4> QED BY <1>6, <2>1, <3>1, <3>2, <4>1
    <3>6. ASSUME NEW z \in Inside(i) \cup Since(c), NEW y \in Adjacent(z) PROVE low'[u] <= disc[y]
      <4>1. CASE z \in Inside(i)
        <5>1. y \in Seen
          BY <1>0, <1>6, <4>1, InsideFinished DEF Looked
        <5> QED BY <1>6, <2>1, <3>1, <3>2, <4>1, <5>1
      <4>2. CASE z = c
        <5>1. y \in Seen /\ (y = u \/ low[c] <= disc[y])
          BY <1>0, <1>6, <3>2, <4>2 DEF Lows, c
        <5> QED BY <1>6, <3>2, <3>3, <5>1
      <4>3. CASE z \in Inside(k)
        <5>1. y \in Seen
          BY <1>0, <4>3, InsideFinished DEF Looked
        <5>2. low[c] <= disc[y]
          BY <1>0, <4>3 DEF Lows, c
        <5> QED BY <1>6, <3>2, <5>1, <5>2
      <4> QED BY <1>5, <4>1, <4>2, <4>3
    <3> QED BY <3>1, <3>3, <3>4, <3>5, <3>6
  <2> QED BY <2>3, <2>4
<1>15. Counted'
  <2> SUFFICES ASSUME NEW i \in 1 .. k - 1
      PROVE /\ stack[i].children >= Pending(i)'
            /\ stack[i].children = Pending(i)' => Inside(i)' = {}
            /\ stack[i].children > Pending(i)' => Inside(i)' \cap Adjacent(At(i)) # {}
    BY <1>1, <1>7, <1>8 DEF Counted
  <2>1. /\ stack[i].children >= Pending(i) /\ Pending(i) = 1 /\ stack[i].children \in Nat
        /\ stack[i].children = Pending(i) => Inside(i) = {}
        /\ stack[i].children > Pending(i) => Inside(i) \cap Adjacent(At(i)) # {}
    <3>1. Pending(i) = 1
      BY <1>6 DEF Pending
    <3>2. stack[i].children \in Nat
      BY <1>0, <1>6, StackIs
    <3> QED BY <1>0, <1>6, <3>1, <3>2 DEF Counted
  <2>2. CASE i < k - 1
    <3>1. Pending(i)' = 1 /\ Inside(i)' = Inside(i)
      BY <1>1, <1>2, <2>2 DEF Pending
    <3> QED BY <2>1, <3>1
  <2>3. CASE ~(i < k - 1)
    <3>1. i = k - 1 /\ k > 1
      BY <1>0, <2>3
    <3>2. Pending(i)' = 0 /\ Inside(i)' = Inside(i) \cup Since(c) /\ At(i) = u
      BY <1>1, <1>2, <2>3, <3>1 DEF Pending, u
    <3>3. c \in Inside(i)' \cap Adjacent(At(i))
      BY <1>3, <1>5, <3>1, <3>2
    <3> QED BY <2>1, <3>2, <3>3
  <2> QED BY <2>2, <2>3
<1>16. Judged'
  <2>1. (\A m : Cuts(m)' <=> Cuts(m)) /\ (\A U, m : Loose(U, m)' <=> Loose(U, m))
    BY <1>1, SameLinks
  <2>2. articulation' \subseteq Seen /\ articulation \subseteq articulation' /\ \A n \in articulation' : Cuts(n)
    <3>1. articulation \subseteq Seen /\ \A n \in articulation : Cuts(n)
      BY <1>0 DEF Judged
    <3>2. CASE k = 1
      BY <1>4, <3>1, <3>2
    <3>3. CASE k > 1
      <4>1. IsArticulation(u, low[c], stack[k - 1].children) => Cuts(u)
        BY <1>0, <3>3, ReportedCuts DEF u, c
      <4> QED BY <1>3, <3>1, <3>3, <4>1
    <3> QED BY <1>0, <3>2, <3>3
  <2>3. \A n \in Finished' : Cuts(n) => n \in articulation'
    <3>1. \A n \in Finished : Cuts(n) => n \in articulation
      BY <1>0 DEF Judged
    <3>2. Cuts(c) => c \in articulation
      BY <1>0, FinishedCuts DEF c
    <3> QED BY <1>1, <2>2, <3>1, <3>2
  <2>4. ASSUME NEW i \in Frames', At(i)' \notin articulation', NEW U \in SUBSET scope', Loose(U, At(i)')
        PROVE  /\ i > 1 => \A x \in Inside(i)' : x \in U <=> At(i - 1)' \in U
               /\ \A x, y \in Inside(i)' : x \in U <=> y \in U
    <3>1. i \in 1 .. k - 1 /\ i \in Frames /\ At(i)' = At(i) /\ At(i) \notin articulation /\ U \in SUBSET scope
          /\ Loose(U, At(i)) /\ k > 1
      BY <1>0, <1>1, <1>6, <2>2, <2>4
    <3>2. i > 1 => At(i - 1)' = At(i - 1)
      <4>1. i > 1 => i - 1 \in 1 .. k - 1
        BY <1>0, <3>1
      <4> QED BY <1>1, <4>1
    <3>3. CASE i < k - 1
      <4>1. /\ i > 1 => \A x \in Inside(i) : x \in U <=> At(i - 1) \in U
            /\ \A x, y \in Inside(i) : x \in U <=> y \in U
        BY <1>0, <3>1 DEF Judged
      <4>2. Inside(i)' = Inside(i)
        BY <1>2, <3>1, <3>3
      <4> QED BY <3>2, <4>1, <4>2
    <3>4. CASE ~(i < k - 1)
      <4>1. i = k - 1 /\ At(i) = u
        BY <1>0, <3>1, <3>4 DEF u
      <4>2. Inside(i)' = Inside(k - 1) \cup Since(c)
        BY <1>2, <3>1, <4>1
      <4>3. ~IsArticulation(u, low[c], stack[k - 1].children) /\ u \notin articulation
        BY <1>3, <2>4, <3>1, <4>1
      <4>4. /\ k > 2 => \A x \in Inside(k - 1) \cup Since(c) : x \in U <=> At(k - 2) \in U
            /\ \A x, y \in Inside(k - 1) \cup Since(c) : x \in U <=> y \in U
        BY <1>0, <3>1, <4>1, <4>3, StaysTied DEF u, c
      <4>5. (i > 1 <=> k > 2) /\ i - 1 = k - 2
        BY <1>0, <4>1
      <4> QED BY <3>2, <4>2, <4>4, <4>5
    <3> QED BY <3>3, <3>4
  <2>5. \A i \in Frames' : \A U : Loose(U, At(i))' <=> Loose(U, At(i)')
    BY <1>7, <1>1 DEF Loose
  <2> QED BY <1>1, <2>1, <2>2, <2>3, <2>4, <2>5 DEF Judged
<1> QED BY <1>0, <1>1, <1>10, <1>11, <1>12, <1>13, <1>14, <1>15, <1>16 DEF Depth

-----------------------------------------------------------------------------
Quiet == disc = <<>> /\ low = <<>> /\ parent = <<>> /\ stack = <<>> /\ articulation = {}

LEMMA QuietDepth == scope \subseteq Node /\ Quiet => Depth
<1> SUFFICES ASSUME scope \subseteq Node, Quiet PROVE Depth
  OBVIOUS
<1>1. Seen = {} /\ Frames = {} /\ Finished = {}
  <2>1. Seen = {}
    BY DEF Quiet, Seen
  <2>2. Frames = {}
    BY DEF Quiet, Frames
  <2> QED BY <2>1, <2>2 DEF Finished
<1>2. Numbers
  <2>1. IsFiniteSet({}) /\ Cardinality({}) = 0
    BY FS_EmptySet
  <2>2. disc \in [{} -> Nat] /\ low \in [{} -> Nat] /\ parent \in [{} -> scope \cup {NoNode}]
    BY DEF Quiet
  <2> QED BY <1>1, <2>1, <2>2 DEF Numbers
<1>3. Spine
  <2>1. stack \in Seq([node : Seen, todo : SUBSET scope, children : Nat])
    BY DEF Quiet
  <2> QED BY <1>1, <2>1 DEF Spine
<1>4. Nested /\ Looked /\ Lows /\ Counted /\ Judged
  BY <1>1 DEF Quiet, Nested, Looked, Lows, Counted, Judged
<1> QED BY <1>2, <1>3, <1>4 DEF Depth

SInv ==
    /\ stage = "search" => call.op \in Searches /\ Quiet
    /\ stage = "spofs" => Depth
    /\ Done({"spofs", "blast"}) => scope \subseteq Node /\ articulation = {n \in scope : Cuts(n)}

LEMMA SInit == Init => SInv
<1> SUFFICES ASSUME Init PROVE SInv
  OBVIOUS
<1>1. Quiet /\ graph \in Graphs
  BY DEF Init, Quiet
<1>2. CASE stage = "spofs"
  <2>1. scope \subseteq Node
    BY <1>1, GraphsAssumption DEF Init
  <2> QED BY <1>1, <1>2, <2>1, QuietDepth DEF SInv, Done
<1>3. CASE stage # "spofs"
  <2>1. stage = "search" => call.op \in Searches
    BY DEF Init
  <2>2. stage # "done"
    BY DEF Init
  <2> QED BY <1>1, <1>3, <2>1, <2>2 DEF SInv, Done
<1> QED BY <1>2, <1>3

LEMMA SSearched == IInv /\ SInv /\ Searched => SInv'
<1> SUFFICES ASSUME IInv, SInv, Searched PROVE SInv'
  OBVIOUS
<1>1. Quiet' /\ call.op \in Searches /\ call' = call
  BY DEF Searched, SInv, Quiet
<1>2. CASE call.op = "blast"
  <2>1. Found \subseteq Node
    <3>1. InputOK /\ call.from \in Node /\ \A n \in Node : Beyond(n) \subseteq Node
      BY <1>1, CallParts, LinkEnds DEF IInv
    <3> QED BY <3>1 DEF IInv, FoundIsReachable, Closed
  <2>2. stage' = "spofs" /\ (scope \subseteq Node)'
    BY <1>2, <2>1 DEF Searched
  <2>3. (scope \subseteq Node /\ Quiet => Depth)'
    BY QuietDepth, PTL
  <2> QED BY <1>1, <2>2, <2>3 DEF SInv, Done
<1>3. CASE call.op # "blast"
  <2>1. stage' = "done" /\ call.op \notin {"spofs", "blast"}
    BY <1>1, <1>3 DEF Searched, Searches
  <2> QED BY <1>1, <2>1 DEF SInv, Done
<1> QED BY <1>2, <1>3

LEMMA SDepth == SInv /\ (Root \/ Descend \/ LookBack \/ Return) => SInv'
<1> SUFFICES ASSUME SInv, Root \/ Descend \/ LookBack \/ Return PROVE SInv'
  OBVIOUS
<1>1. stage = "spofs" /\ stage' = "spofs" /\ Depth
  BY DEF SInv, Root, Descend, LookBack, Return
<1>2. Depth'
  BY <1>1, RootDepth, DescendDepth, LookBackDepth, ReturnDepth
<1> QED BY <1>1, <1>2 DEF SInv, Done

LEMMA SNumbered == SInv /\ AllNumbered => SInv'
<1> SUFFICES ASSUME SInv, AllNumbered PROVE SInv'
  OBVIOUS
<1>1. stage = "spofs" /\ stage' = "done" /\ stack = <<>> /\ scope \subseteq Seen /\ Depth
      /\ graph' = graph /\ scope' = scope /\ articulation' = articulation
  BY DEF SInv, AllNumbered, tarjan, Seen
<1>2. Frames = {} /\ Finished = Seen
  <2>1. Frames = {}
    BY <1>1 DEF Frames
  <2> QED BY <2>1 DEF Finished
<1>3. articulation = {n \in scope : Cuts(n)} /\ scope \subseteq Node
  <2>1. articulation \subseteq Seen /\ Seen \subseteq scope
    BY <1>1 DEF Depth, Judged, Numbers
  <2>2. \A n \in scope : Cuts(n) <=> n \in articulation
    BY <1>1, <1>2 DEF Depth, Judged
  <2> QED BY <1>1, <2>1, <2>2 DEF Depth
<1>4. \A n : Cuts(n)' <=> Cuts(n)
  BY <1>1, SameLinks
<1> QED BY <1>1, <1>3, <1>4 DEF SInv

LEMMA SSame ==
    ASSUME SInv, UNCHANGED <<graph, call, tarjan>>, stage' = stage
    PROVE  SInv'
<1>1. graph' = graph /\ call' = call /\ scope' = scope /\ disc' = disc /\ low' = low /\ parent' = parent
      /\ stack' = stack /\ articulation' = articulation
  BY DEF tarjan
<1>2. Quiet' <=> Quiet
  BY <1>1 DEF Quiet
<1>3. (\A n : Cuts(n)' <=> Cuts(n)) /\ (\A n : Adjacent(n)' = Adjacent(n)) /\ (\A U, n : Loose(U, n)' <=> Loose(U, n))
  BY <1>1, SameLinks
<1>4. Depth' <=> Depth
  <2>1. Seen' = Seen /\ Frames' = Frames /\ (\A i : At(i)' = At(i)) /\ (\A i : Pending(i)' = Pending(i))
    BY <1>1 DEF Seen, Frames, At, Pending
  <2>2. Finished' = Finished /\ (\A i : Inside(i)' = Inside(i))
    BY <1>1, <2>1 DEF Finished, Inside, At, Frames
  <2>3. (Numbers' <=> Numbers) /\ (Spine' <=> Spine) /\ (Nested' <=> Nested) /\ (Looked' <=> Looked)
    BY <1>1, <2>1, <2>2 DEF Numbers, Spine, Nested, Looked, Adjacent, Targets, Sources, At, Frames
  <2>4. (Lows' <=> Lows) /\ (Counted' <=> Counted)
    BY <1>1, <2>1, <2>2 DEF Lows, Counted, Adjacent, Targets, Sources, At, Frames
  <2>5. Judged' <=> Judged
    BY <1>1 DEF Judged, Cuts, Loose, Adjacent, Targets, Sources, At, Frames, Finished, Inside, Seen
  <2> QED BY <1>1, <2>3, <2>4, <2>5 DEF Depth
<1> QED BY <1>1, <1>2, <1>3, <1>4 DEF SInv, Done

(* The steps of the route search leave the call out of this.               *)
LEMMA SRouting ==
    ASSUME RInv, SInv, NoMorePaths \/ SamePlace \/ BeginPath \/ Relax \/ EndPath
    PROVE  SInv'
<1>1. stage \in {"paths", "dijkstra"} /\ stage' \in {"paths", "dijkstra", "done"} /\ call' = call
  BY DEF NoMorePaths, SamePlace, BeginPath, Relax, EndPath
<1>2. call.op \notin {"spofs", "blast"}
  BY <1>1 DEF RInv, Routing
<1> QED BY <1>1, <1>2 DEF SInv, Done

LEMMA SNext == IInv /\ RInv /\ SInv /\ [Next]_vars => SInv'
<1> SUFFICES ASSUME IInv, RInv, SInv, [Next]_vars PROVE SInv'
  OBVIOUS
<1>1. CASE Visit \/ Expanded
  BY <1>1, SSame DEF Visit, Expanded
<1>2. CASE Returned \/ UNCHANGED vars
  BY <1>2, SSame DEF Returned, vars
<1> QED BY <1>1, <1>2, SSearched, SRouting, SDepth, SNumbered DEF Next

LEMMA SpofsRight == SInv => SpofsAreArticulationPoints
<1> SUFFICES ASSUME SInv, Done({"spofs", "blast"}) PROVE SpofsAreArticulationPoints
  BY DEF SpofsAreArticulationPoints
<1>1. scope \subseteq Node /\ articulation = {n \in scope : Cuts(n)}
  BY DEF SInv
<1>2. \A n \in scope : Cuts(n) <=> \E a, b \in scope \ {n} :
          /\ b \in Closure(a, Adjacent)
          /\ b \notin Closure(a, LAMBDA m : Adjacent(m) \ {n})
  BY <1>1, CutsIsArticulation
<1> QED BY <1>1, <1>2 DEF SpofsAreArticulationPoints

(* The nodes find_single_points_of_failure and the blast radius report are *)
(* exactly those whose loss takes two others apart that were together.     *)
THEOREM SpofsCorrect == Spec => []SpofsAreArticulationPoints
<1>1. IInv /\ RInv /\ SInv /\ [Next]_vars => (IInv /\ RInv /\ SInv)'
  BY NextInv, RNext, SNext
<1>2. Init => IInv /\ RInv /\ SInv
  BY InitInv, RInit, SInit
<1> QED BY <1>1, <1>2, SpofsRight, PTL DEF Spec
=============================================================================
