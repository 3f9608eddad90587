------------------------------ MODULE MCTopology ------------------------------
(* Small graphs of each kind the engine meets: cables between four devices *)
(* in every way, of which the repository makes two links of weight 1 each; *)
(* weighted one-way links between three in every way; two triangles with a *)
(* corner in common; and two devices that feed each other and are fed from *)
(* outside, by one that is loaded and one that is only named by a link.    *)
EXTENDS TopologyGraph

CONSTANTS n1, n2, n3, n4, n5

Link(a, b, w) == [source |-> a, target |-> b, weight |-> w]

Cabled(nodes, C) ==
    [nodes |-> nodes, links |-> {Link(p[1], p[2], 1) : p \in {q \in nodes \X nodes : {q[1], q[2]} \in C}}]

CabledGraphs ==
    LET four == {n1, n2, n3, n4} IN {Cabled(four, C) : C \in SUBSET kSubset(2, four)}

OneWay ==
    LET three == {n1, n2, n3}
        pairs == {p \in three \X three : p[1] # p[2]}
    IN  {[nodes |-> three, links |-> {Link(p[1], p[2], w[p]) : p \in {q \in pairs : w[q] > 0}}] :
            w \in [pairs -> {0, 1, 3}]}

(* The graphs are the same however the first three are named.              *)
Symmetry == Permutations({n1, n2, n3})

Bowties == {Cabled(Node, kSubset(2, {p[n1], p[n2], p[n3]}) \cup kSubset(2, {p[n3], n4, n5})) : p \in Symmetry}

Fed ==
    {[nodes |-> {n1, n2, n3},
      links |-> {Link(p[n1], p[n2], 1), Link(p[n2], p[n3], 1), Link(p[n3], p[n2], 1),
                 Link(n4, p[n3], 1), Link(p[n1], p[n3], 2)}] : p \in Symmetry}

MCGraphs == CabledGraphs \cup OneWay \cup Bowties \cup Fed
=============================================================================
