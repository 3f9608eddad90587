------------------------------- MODULE Reasoning -------------------------------
(***************************************************************************)
(* What agents/reasoning concludes from the evidence of an investigation:  *)
(* validation, competing hypotheses, contradictions, confidence and the    *)
(* ranking of root causes.  Scores are hundredths; where the code rounds   *)
(* to two decimals so does Rounded, a tie upwards.                         *)
(*                                                                         *)
(* Evidence is a record: who reported it and as what type, its confidence, *)
(* its age in seconds, whether its payload is empty, the hypotheses whose  *)
(* keywords its text contains, and the numbers the contradiction rules     *)
(* read (a payload without them reads as utilization 0, risk 0).           *)
(***************************************************************************)
EXTENDS Integers, FiniteSets, FiniteSetsExt, Functions

(* In the order they are generated, which breaks ties of the ranking.      *)
Categories == <<"WAN", "ROUTING", "HARDWARE", "ISP", "QOS">>

Causes == {Categories[k] : k \in 1..5}

Rounded(a, b) == (2 * a + b) \div (2 * b)
Clamp(low, high, x) == Max({low, Min({high, x})})

Total(S, f(_)) == SumFunction([e \in S |-> f(e)])
Average(S, f(_), default) ==
    IF S = {} THEN default ELSE Rounded(Total(S, f), Cardinality(S))

Reliability(e) ==
    CASE e.source = "TelemetryAgent" -> 100
      [] e.source \in {"IncidentAgent", "TopologyAgent"} -> 95
      [] e.source = "PredictionAgent" -> 90
      [] e.source \in {"RecommendationAgent", "KnowledgeAgent"} -> 85
      [] OTHER -> 75

(* Ten minutes old is fresh; an hour later nothing but a tenth is left.    *)
Freshness(e) == IF e.age > 600 THEN Max({10, 100 - Rounded(100 * (e.age - 600), 3600)}) ELSE 100

Completeness(e) == IF e.empty THEN 20 ELSE 100

Agent == [telemetry |-> "TelemetryAgent", prediction |-> "PredictionAgent",
          incident |-> "IncidentAgent", topology |-> "TopologyAgent"]

About(evidence, type) == {e \in evidence : e.type = type \/ e.source = Agent[type]}

(* Telemetry that is quiet against a prediction of failure, a calm         *)
(* prediction against a critical incident, a dead link with traffic on it. *)
Contradictions(evidence) ==
    LET conflicts(p, q, penalty, Conflict(_, _)) ==
            {[penalty |-> penalty, between |-> {x[1], x[2]}] :
                x \in {y \in About(evidence, p) \X About(evidence, q) : Conflict(y[1], y[2])}}
    IN  conflicts("telemetry", "prediction", 25, LAMBDA t, p : t.util < 20 /\ p.risk > 80)
        \cup conflicts("prediction", "incident", 20, LAMBDA p, i : p.risk < 15 /\ i.critical)
        \cup conflicts("topology", "telemetry", 35, LAMBDA l, t : l.down /\ t.util > 10)

Penalty(C) == Total(C, LAMBDA c : c.penalty)

Supporting(evidence, category) == {e \in evidence : category \in e.supports}

Likelihood(category, supported) ==
    CASE category = "WAN"      -> IF supported THEN 85 ELSE 40
      [] category = "ROUTING"  -> IF supported THEN 75 ELSE 35
      [] category = "HARDWARE" -> IF supported THEN 65 ELSE 30
      [] category = "ISP"      -> IF supported THEN 55 ELSE 25
      [] category = "QOS"      -> IF supported THEN 50 ELSE 20

(* No evidence counts as evidence of the best quality.                     *)
Quality(evidence) ==
    IF evidence = {} THEN 100
    ELSE Rounded(Total(evidence, LAMBDA e : Reliability(e) * Completeness(e)),
                 100 * Cardinality(evidence))

Reported(evidence, type, default) ==
    Average(About(evidence, type), LAMBDA e : e.confidence, default)

Recency(evidence) == Average(evidence, Freshness, 100)

KnownTypes == {"telemetry", "prediction", "incident", "recommendation", "topology", "knowledge"}

TypesPresent(evidence) == Rounded(100 * Cardinality({e.type : e \in evidence} \cap KnownTypes), 6)
CrossAgreement(evidence) == Min({100, 25 * Cardinality({e.source : e \in evidence})})

(* In ten-thousandths: it is rounded for the result only.                  *)
RawConfidence(evidence, conflicts) ==
    Clamp(1000, 10000,
          25 * Quality(evidence)
        + 20 * TypesPresent(evidence)
        + 20 * CrossAgreement(evidence)
        + 15 * Reported(evidence, "prediction", 85)
        + 10 * Reported(evidence, "topology", 90)
        + 10 * Recency(evidence)
        - 100 * Min({50, Penalty(conflicts)}))

(* Coverage is a share of the evidence; the confidence in a hypothesis     *)
(* scales its score and the contradictions that touch it are taken off.    *)
FinalScore(evidence, conflicts, raw, category) ==
    LET S == Supporting(evidence, category)
        s == Cardinality(S)
        n == Max({1, Cardinality(evidence)})
        likelihood == Likelihood(category, S # {})
        confidence == Clamp(5, 100,
            Rounded((likelihood * n + 100 * s) * raw, 20000 * n))
        touching == {c \in conflicts : c.between \cap S # {}}
        weighted == 120 * n * likelihood + 12000 * s + 2000 * n * Min({3, s})
    IN  Clamp(5, 100, Rounded(weighted * confidence, 30000 * n) - Penalty(touching))

(* The conclusion as what trust reads of it.                               *)
Conclusion(evidence) ==
    LET conflicts == Contradictions(evidence)
        raw == RawConfidence(evidence, conflicts)
        score == [k \in 1..5 |-> FinalScore(evidence, conflicts, raw, Categories[k])]
        best == Max({score[k] : k \in 1..5})
        first == Min({k \in 1..5 : score[k] = best})
    IN  [cause          |-> Categories[first],
         margin         |-> best - Max({score[k] : k \in (1..5) \ {first}}),
         contradictions |-> Cardinality(conflicts),
         confidence     |-> Rounded(raw, 100),
         supported      |-> Cardinality({k \in 1..5 : Supporting(evidence, Categories[k]) # {}})]
=============================================================================
