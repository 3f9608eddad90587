----------------------------- MODULE PlannerAgent -----------------------------
(***************************************************************************)
(* The three plans PlannerAgent makes, as the graphs from_plan builds of   *)
(* them (agents/orchestrator_ai/planner_agent.py).                         *)
(***************************************************************************)

Agents == {"Telemetry", "Topology", "Prediction", "Incident",
           "Recommendation", "Knowledge"}

DependsOn == [a \in Agents |->
    CASE a = "Prediction"     -> {"Telemetry"}
      [] a = "Incident"       -> {"Prediction"}
      [] a = "Recommendation" -> {"Incident"}
      [] a = "Knowledge"      -> {"Recommendation", "Topology"}
      [] OTHER                -> {}]

RequiredAgents(complexity) ==
    CASE complexity = "SIMPLE"   -> {"Telemetry", "Topology"}
      [] complexity = "MODERATE" -> {"Telemetry", "Topology", "Prediction", "Incident"}
      [] OTHER                   -> Agents

PlanGraph(complexity) ==
    LET required == RequiredAgents(complexity)
    IN  [nodes     |-> required,
         deps      |-> [a \in required |-> DependsOn[a]],
         mandatory |-> required \ {"Topology", "Knowledge"}]
=============================================================================
