------------------------------ MODULE MCDecisions ------------------------------
(* One piece of evidence of each agent that may bear on a failing link, two *)
(* where what it says decides whether it contradicts another.               *)
EXTENDS DecisionPipeline

Report(source, type, supports) ==
    [source |-> source, by |-> source, asked |-> 0, age |-> 0, type |-> type, confidence |-> 80,
     empty |-> FALSE, supports |-> supports, util |-> 0, risk |-> 0, critical |-> FALSE, down |-> FALSE]

Telemetry == Report("TelemetryAgent", "telemetry", {"WAN", "HARDWARE"})
Prediction == Report("PredictionAgent", "prediction", {"HARDWARE"})
Topology == Report("TopologyAgent", "topology", {"HARDWARE", "ISP"})

MCNames == {Agent[type] : type \in DOMAIN Agent} \cup DOMAIN Agent \cup Candidates

MCReports == {
    [Telemetry EXCEPT !.util = 10], [Telemetry EXCEPT !.util = 95],
    [Prediction EXCEPT !.risk = 91],
    [Report("IncidentAgent", "incident", {"HARDWARE", "QOS"}) EXCEPT !.critical = TRUE],
    [Topology EXCEPT !.down = TRUE]}

Fair == [latency |-> 35, loss |-> 50, jitter |-> 30, util |-> 550, drops |-> 0, flaps |-> 0, risk |-> 30, age |-> 0]

(* Read 90 s ago, and nothing known but the load.                          *)
Old == [util |-> 550, risk |-> 30, age |-> 90]

MCReadings == {Fair, Old, [Fair EXCEPT !.risk = 91],
    [latency |-> 195, loss |-> 850, jitter |-> 180, util |-> 960, drops |-> 12, flaps |-> 3, risk |-> 91, age |-> 0]}
=============================================================================
