SPECIFICATION Spec
SYMMETRY Symmetry
CONSTANTS
    n1 = n1
    n2 = n2
    n3 = n3
    n4 = n4
    n5 = n5
    Node = {n1, n2, n3, n4, n5}
    Graphs <- MCGraphs
    MaxPaths = 3
    NoNode = NoNode
INVARIANTS
    SearchIsExact
    RoutesAreLightest
    SpofsAreArticulationPoints
