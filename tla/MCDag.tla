-------------------------------- MODULE MCDag --------------------------------
(***************************************************************************)
(* DagScheduler on the planner's own plans, on every DAG of three agents   *)
(* with every choice of mandatory ones, and on two shapes of four: the     *)
(* diamond, where a failure reaches an agent along two ways, and two       *)
(* chains side by side.                                                    *)
(***************************************************************************)
EXTENDS DagScheduler, PlannerAgent

PlannerGraphs == {PlanGraph(c) : c \in {"SIMPLE", "MODERATE", "COMPLEX"}}

Three == {"Telemetry", "Topology", "Prediction"}

(* Up to renaming, a DAG of three agents points along this order.          *)
Before == [Telemetry |-> {}, Topology |-> {"Telemetry"},
           Prediction |-> {"Telemetry", "Topology"}]

SmallGraphs ==
    {[nodes |-> Three, deps |-> d, mandatory |-> m] :
        d \in {f \in [Three -> SUBSET Three] : \A n \in Three : f[n] \subseteq Before[n]},
        m \in SUBSET Three}

Four == {"Telemetry", "Topology", "Prediction", "Incident"}

Diamonds ==
    {[nodes |-> Four,
      deps |-> [Telemetry  |-> {},
                Topology   |-> {"Telemetry"},
                Prediction |-> {"Telemetry"},
                Incident   |-> {"Topology", "Prediction"}],
      mandatory |-> m] : m \in SUBSET Four}

(* Two chains side by side: a failure in one leaves a layer half skipped.  *)
TwoChains ==
    {[nodes |-> Four,
      deps |-> [Telemetry  |-> {},
                Topology   |-> {},
                Prediction |-> {"Telemetry"},
                Incident   |-> {"Topology"}],
      mandatory |-> m] : m \in SUBSET Four}

MCGraphs == PlannerGraphs \cup SmallGraphs \cup Diamonds \cup TwoChains
=============================================================================
