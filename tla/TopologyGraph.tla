----------------------------- MODULE TopologyGraph -----------------------------
(***************************************************************************)
(* The graph engine of agents/topology: what depends on a device (breadth  *)
(* first search), the blast radius of its failure, routes and redundant    *)
(* routes (Dijkstra with blocked nodes), single points of failure          *)
(* (Tarjan).  One call on one graph; a step is one turn of a loop.         *)
(*                                                                         *)
(* A graph is immutable once built and every method holds its lock, so     *)
(* calls do not interleave.  The order in which the code walks an          *)
(* adjacency list or a set is arbitrary here.                              *)
(***************************************************************************)
EXTENDS Integers, SequencesExt

CONSTANTS
    Node,       \* device ids a call or a link may name
    Graphs,     \* the graphs a call is made on: [nodes, links]
    MaxPaths,   \* max_paths of find_redundant_paths
    NoNode      \* the parent of the root of a depth first search

ASSUME GraphsAssumption ==
    \A g \in Graphs : /\ g.nodes \subseteq Node
                      /\ g.links \subseteq [source : Node, target : Node, weight : Nat]
ASSUME FiniteAssumption ==
    \A g \in Graphs : IsFiniteSet(g.nodes) /\ IsFiniteSet(g.links)
ASSUME MaxPathsAssumption == MaxPaths \in Nat
ASSUME NoNodeAssumption == NoNode \notin Node

VARIABLES
    graph, call, stage,
    order, head,                    \* breadth first: found so far, place of the next to expand
    paths, blocked,                 \* routes found, inner nodes a further route may not use
    dist, prev, heap,               \* Dijkstra
    scope, disc, low, parent, stack, articulation   \* Tarjan, on the nodes of scope

search == <<order, head>>
dijkstra == <<dist, prev, heap>>
tarjan == <<scope, disc, low, parent, stack, articulation>>
vars == <<graph, call, stage, search, paths, blocked, dijkstra, tarjan>>

Searches == {"upstream", "downstream", "blast"}
Calls == [op : Searches, from : Node, to : {NoNode}]
         \cup [op : {"path", "redundant"}, from : Node, to : Node]
         \cup [op : {"spofs"}, from : {NoNode}, to : {NoNode}]

(* The entries of g, and those of f that g does not replace (dict.update). *)
Overwrite(f, g) == [x \in DOMAIN f \cup DOMAIN g |-> IF x \in DOMAIN g THEN g[x] ELSE f[x]]

(* A link makes its ends known even if no device was loaded for them.      *)
Known == graph.nodes \cup UNION {{l.source, l.target} : l \in graph.links}

Targets(n) == {l.target : l \in {k \in graph.links : k.source = n}}
Sources(n) == {l.source : l \in {k \in graph.links : k.target = n}}

(* A variant: upstream is searched along the links as well.                *)
ForwardOnly(n) == Targets(n)

(* What the search of this call finds next from n.                         *)
Beyond(n) == IF call.op = "upstream" THEN Sources(n) ELSE Targets(n)

Found == Range(order)

Init ==
    /\ graph \in Graphs
    /\ call \in Calls
    /\ stage = CASE call.op \in Searches -> "search"
                 [] call.op = "spofs" -> "spofs"
                 [] OTHER -> "paths"
    /\ order = <<call.from>> /\ head = 1
    /\ paths = <<>> /\ blocked = {}
    /\ dist = <<>> /\ prev = <<>> /\ heap = {}
    /\ scope = IF call.op = "spofs" THEN graph.nodes ELSE {}
    /\ disc = <<>> /\ low = <<>> /\ parent = <<>> /\ stack = <<>> /\ articulation = {}

-----------------------------------------------------------------------------
(* get_upstream, get_downstream                                            *)

Visit ==
    /\ stage = "search" /\ head <= Len(order)
    /\ \E n \in Beyond(order[head]) \ Found : order' = Append(order, n)
    /\ UNCHANGED <<graph, call, stage, head, paths, blocked, dijkstra, tarjan>>

Expanded ==
    /\ stage = "search" /\ head <= Len(order)
    /\ Beyond(order[head]) \subseteq Found
    /\ head' = head + 1
    /\ UNCHANGED <<graph, call, stage, order, paths, blocked, dijkstra, tarjan>>

(* The blast radius goes on to the single points of failure among the      *)
(* failed device and everything it affects.                                *)
Searched ==
    /\ stage = "search" /\ head > Len(order)
    /\ IF call.op = "blast" THEN stage' = "spofs" /\ scope' = Found
                            ELSE stage' = "done" /\ UNCHANGED scope
    /\ UNCHANGED <<graph, call, search, paths, blocked, dijkstra, disc, low, parent, stack, articulation>>

-----------------------------------------------------------------------------
(* find_shortest_path, find_redundant_paths                                *)

Limit == IF call.op = "path" THEN 1 ELSE MaxPaths

NoMorePaths ==
    /\ stage = "paths"
    /\ Len(paths) = Limit \/ ~({call.from, call.to} \subseteq Known)
    /\ stage' = "done"
    /\ UNCHANGED <<graph, call, search, paths, blocked, dijkstra, tarjan>>

SamePlace ==
    /\ stage = "paths" /\ Len(paths) < Limit
    /\ call.op = "path" /\ call.from = call.to /\ call.from \in Known
    /\ paths' = <<[hops |-> <<call.from>>, weight |-> 0]>>
    /\ stage' = "done"
    /\ UNCHANGED <<graph, call, search, blocked, dijkstra, tarjan>>

BeginPath ==
    /\ stage = "paths" /\ Len(paths) < Limit
    /\ {call.from, call.to} \subseteq Known
    /\ ~(call.op = "path" /\ call.from = call.to)
    /\ dist' = [n \in {call.from} |-> 0] /\ prev' = <<>> /\ heap' = {<<0, call.from>>}
    /\ stage' = "dijkstra"
    /\ UNCHANGED <<graph, call, search, paths, blocked, tarjan>>

(* The lightest entry; the code breaks a tie by name.                      *)
Lightest(e) == e \in heap /\ \A f \in heap : e[1] <= f[1]

(* Links out of n that a route may still take.                             *)
Open(n) == {l \in graph.links : l.source = n /\ (l.target \notin blocked \/ l.target = call.to)}

(* What each node next to n costs by way of n; among parallel links the    *)
(* lightest is what the loop ends with.                                    *)
CostVia(n, cost) ==
    [m \in {l.target : l \in Open(n)} |->
        Min({cost + l.weight : l \in {k \in Open(n) : k.target = m}})]

(* A stale entry is dropped, any other one expanded.                       *)
Relax ==
    /\ stage = "dijkstra"
    /\ \E e \in heap :
        LET via == CostVia(e[2], e[1])
            cheaper == {m \in DOMAIN via : /\ e[1] <= dist[e[2]]
                                           /\ m \in DOMAIN dist => via[m] < dist[m]}
        IN  /\ Lightest(e) /\ e[2] # call.to
            /\ dist' = Overwrite(dist, Restrict(via, cheaper))
            /\ prev' = Overwrite(prev, [m \in cheaper |-> e[2]])
            /\ heap' = (heap \ {e}) \cup {<<via[m], m>> : m \in cheaper}
    /\ UNCHANGED <<graph, call, stage, search, paths, blocked, tarjan>>

(* The chain of predecessors, from the start to n.                         *)
Hops == LET chain[n \in DOMAIN dist] ==
                IF n \in DOMAIN prev THEN Append(chain[prev[n]], n) ELSE <<n>>
        IN  chain[call.to]

(* A variant: the route is read off as soon as the target has a cost.      *)
TargetSeen == call.to \in DOMAIN dist

(* The target is the lightest entry, or there is none left.                *)
TargetSettled == heap = {} \/ \E e \in heap : Lightest(e) /\ e[2] = call.to

Inner(hops) == {hops[k] : k \in 2 .. Len(hops) - 1}

EndPath ==
    /\ stage = "dijkstra" /\ TargetSettled
    /\ IF call.to \in DOMAIN dist
          THEN /\ paths' = Append(paths, [hops |-> Hops, weight |-> dist[call.to]])
               /\ blocked' = blocked \cup Inner(Hops)
               /\ stage' = "paths"
          ELSE stage' = "done" /\ UNCHANGED <<paths, blocked>>
    /\ UNCHANGED <<graph, call, search, dijkstra, tarjan>>

-----------------------------------------------------------------------------
(* _find_spofs_in_set: depth first over the graph without directions.      *)

(* Links of both directions, within the scope.                             *)
Adjacent(n) == (Targets(n) \cup Sources(n)) \cap scope

Top == stack[Len(stack)]

(* dfs(n) begins: n gets the next number and its own frame.                *)
Enter(n, from, frames) ==
    /\ disc' = Overwrite(disc, [m \in {n} |-> Cardinality(DOMAIN disc)])
    /\ low' = Overwrite(low, [m \in {n} |-> Cardinality(DOMAIN disc)])
    /\ parent' = Overwrite(parent, [m \in {n} |-> from])
    /\ stack' = Append(frames, [node |-> n, todo |-> Adjacent(n), children |-> 0])

Root ==
    /\ stage = "spofs" /\ stack = <<>>
    /\ \E n \in scope \ DOMAIN disc : Enter(n, NoNode, <<>>)
    /\ UNCHANGED <<graph, call, stage, search, paths, blocked, dijkstra, scope, articulation>>

Descend ==
    /\ stage = "spofs" /\ stack # <<>>
    /\ \E n \in Top.todo \ DOMAIN disc :
        Enter(n, Top.node, [stack EXCEPT ![Len(stack)] =
                                [Top EXCEPT !.todo = @ \ {n}, !.children = @ + 1]])
    /\ UNCHANGED <<graph, call, stage, search, paths, blocked, dijkstra, scope, articulation>>

(* A link to a node numbered before; the way back to the parent counts not.*)
LookBack ==
    /\ stage = "spofs" /\ stack # <<>>
    /\ \E n \in Top.todo \cap DOMAIN disc :
        /\ stack' = [stack EXCEPT ![Len(stack)].todo = @ \ {n}]
        /\ low' = IF n = parent[Top.node] THEN low
                  ELSE [low EXCEPT ![Top.node] = Min({@, disc[n]})]
    /\ UNCHANGED <<graph, call, stage, search, paths, blocked, dijkstra, scope, disc, parent, articulation>>

(* A variant that counts a child which gets back to u as tied to it.       *)
StrictlyBelow(u, lowest, children) ==
    IF parent[u] = NoNode THEN children > 1 ELSE lowest > disc[u]

(* What the caller of a finished dfs concludes about u, whose child it was:*)
(* a root with a second child, another node whose child reaches nothing    *)
(* before it.                                                              *)
IsArticulation(u, lowest, children) ==
    IF parent[u] = NoNode THEN children > 1 ELSE lowest >= disc[u]

Return ==
    /\ stage = "spofs" /\ stack # <<>> /\ Top.todo = {}
    /\ stack' = Front(stack)
    /\ IF Len(stack) = 1 THEN UNCHANGED <<low, articulation>>
       ELSE LET u == stack[Len(stack) - 1]
                below == low[Top.node]
            IN  /\ low' = [low EXCEPT ![u.node] = Min({@, below})]
                /\ articulation' = articulation \cup
                       {n \in {u.node} : IsArticulation(n, below, u.children)}
    /\ UNCHANGED <<graph, call, stage, search, paths, blocked, dijkstra, scope, disc, parent>>

AllNumbered ==
    /\ stage = "spofs" /\ stack = <<>> /\ scope \subseteq DOMAIN disc
    /\ stage' = "done"
    /\ UNCHANGED <<graph, call, search, paths, blocked, dijkstra, tarjan>>

-----------------------------------------------------------------------------
(* The call has returned; a call that gets stuck before is a deadlock.     *)
Returned == stage = "done" /\ UNCHANGED vars

Next ==
    \/ Visit \/ Expanded \/ Searched
    \/ NoMorePaths \/ SamePlace \/ BeginPath \/ Relax \/ EndPath
    \/ Root \/ Descend \/ LookBack \/ Return \/ AllNumbered
    \/ Returned

Spec == Init /\ [][Next]_vars

-----------------------------------------------------------------------------
Done(ops) == stage = "done" /\ call.op \in ops

(* What Step leads to from n in any number of steps: the least set that    *)
(* holds n and is closed under Step.                                       *)
Closure(n, Step(_)) ==
    {m \in Node : \A S \in SUBSET Node : (n \in S /\ \A x \in S : Step(x) \subseteq S) => m \in S}

(* What a search reports, each once, is everything that can be reached     *)
(* along the links, or against them, and nothing else (get_upstream,       *)
(* get_downstream and the affected devices of a blast radius).             *)
SearchIsExact ==
    /\ Done({"upstream"}) => Found = Closure(call.from, Sources)
    /\ Done({"downstream", "blast"}) => Found = Closure(call.from, Targets)
    /\ Done(Searches) => Cardinality(Found) = Len(order)

(* All ways from a to b without a node twice that pass no node of avoid.   *)
Ways(a, b, avoid) ==
    {w \in UNION {[1 .. k -> Known] : k \in 1 .. Cardinality(Known)} :
        /\ w[1] = a /\ w[Len(w)] = b /\ IsInjective(w)
        /\ \A k \in 1 .. Len(w) - 1 : w[k + 1] \in Targets(w[k])
        /\ \A k \in 2 .. Len(w) - 1 : w[k] \notin avoid}

HopWeight(a, b) == Min({l.weight : l \in {k \in graph.links : k.source = a /\ k.target = b}})
WayWeight(w) == SumFunction([k \in 1 .. Len(w) - 1 |-> HopWeight(w[k], w[k + 1])])

(* Every route returned is a lightest one among those that share no inner  *)
(* node with an earlier one, its weight is right, and the search gives up  *)
(* only when no such route is left.  A route that leads past no device     *)
(* uses none up: from then on it is returned again and again, until there  *)
(* are max_paths of it, and no other route is returned twice.  So between  *)
(* direct neighbours these are not the "distinct paths" that               *)
(* find_redundant_paths speaks of (topology_graph.py:427).                 *)
RoutesAreLightest ==
    Done({"path", "redundant"}) =>
        LET taken(k) == UNION {Inner(paths[j].hops) : j \in 1 .. k - 1}
            ways(k) == Ways(call.from, call.to, taken(k))
        IN  /\ \A k \in DOMAIN paths :
                /\ paths[k].hops \in ways(k)
                /\ paths[k].weight = WayWeight(paths[k].hops)
                /\ \A w \in ways(k) : paths[k].weight <= WayWeight(w)
            /\ \A j, k \in DOMAIN paths :
                j < k => (paths[k].hops = paths[j].hops <=> Inner(paths[j].hops) = {})
            /\ Len(paths) < Limit => ways(Len(paths) + 1) = {}

(* The nodes reported are those whose loss leaves two others apart that    *)
(* were together, links taken without direction ("a node is an             *)
(* articulation point if its removal increases the number of weakly        *)
(* connected components").                                                 *)
SpofsAreArticulationPoints ==
    Done({"spofs", "blast"}) =>
        articulation =
            {n \in scope : \E a, b \in scope \ {n} :
                /\ b \in Closure(a, Adjacent)
                /\ b \notin Closure(a, LAMBDA m : Adjacent(m) \ {n})}
=============================================================================
