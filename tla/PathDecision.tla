------------------------------ MODULE PathDecision ------------------------------
(***************************************************************************)
(* agents/path_decision: the health of the provider behind each candidate  *)
(* path, its evaluation and score, and the recommendation.  Percentages    *)
(* and points are tenths, packet loss and confidence hundredths, risk is   *)
(* in percent.  Scores are rounded to tenths where the code rounds them.   *)
(*                                                                         *)
(* A path is a record [spofs, sla]: how many single points of failure it   *)
(* has and the latency its SLA allows; the primary is the one in use.  A   *)
(* reading is what telemetry said of its interface, metric by metric or    *)
(* not at all, with the predicted risk and the age of the reading.         *)
(***************************************************************************)
EXTENDS Integers, FiniteSets, FiniteSetsExt, TrustGate

(* The two candidates built for every device whose name is known or looks  *)
(* like one; what is not is refused before anything changes.               *)
Candidates == {"primary", "backup"}

Kinds == {"branch3", "router", "firewall", "other"}

Discovered(kind) ==
    CASE kind = "branch3"  -> [primary |-> [spofs |-> 1, sla |-> 50], backup |-> [spofs |-> 0, sla |-> 60]]
      [] kind = "router"   -> [primary |-> [spofs |-> 1, sla |-> 30], backup |-> [spofs |-> 0, sla |-> 40]]
      [] kind = "firewall" -> [primary |-> [spofs |-> 1, sla |-> 100], backup |-> [spofs |-> 0, sla |-> 100]]
      [] kind = "other"    -> [primary |-> [spofs |-> 0, sla |-> 100], backup |-> [spofs |-> 0, sla |-> 100]]

Has(r, metric) == metric \in DOMAIN r

Reading(r, metric, default) == IF Has(r, metric) THEN r[metric] ELSE default

(* Penalties in tenths of a point, each with its ceiling.                  *)
Penalties(r) ==
    LET lat == Reading(r, "latency", 0)
        loss == Reading(r, "loss", 0)
        jitter == Reading(r, "jitter", 0)
        util == Reading(r, "util", 0)
        errors == 20 * Reading(r, "drops", 0) + 80 * Reading(r, "flaps", 0)
    IN  (IF lat > 30 THEN Min({350, 4 * (lat - 30)}) ELSE 0)
      + (IF loss > 10 THEN Min({450, loss \div 2}) ELSE 0)
      + (IF jitter > 50 THEN Min({150, (12 * (jitter - 50)) \div 10}) ELSE 0)
      + (IF util > 800 THEN Min({250, (5 * (util - 800)) \div 4}) ELSE 0)
      + Min({250, errors})
      + (IF r.risk > 10 THEN Min({400, 4 * r.risk}) ELSE 0)

(* A variant in which the ceilings of the penalties are thought to suffice. *)
HealthWithoutFloor(r) == 1000 - Penalties(r)

Health(r) == Clamp(0, 1000, 1000 - Penalties(r))

HealthConfidence(r) ==
    Clamp(10, 100, 100 - (IF Has(r, "latency") THEN 0 ELSE 15)
                       - (IF Has(r, "loss") THEN 0 ELSE 15)
                       - (IF Has(r, "jitter") THEN 0 ELSE 10)
                       - (IF Has(r, "util") THEN 0 ELSE 10)
                       - (IF r.age > 60 THEN 20 ELSE 0))

Latency(r) == Reading(r, "latency", 25)
Loss(r) == Reading(r, "loss", 10)

SlaStatus(path, r) ==
    IF Latency(r) > path.sla \/ Loss(r) > 200 THEN "VIOLATED"
    ELSE IF ~Has(r, "latency") THEN "UNKNOWN"
    ELSE "COMPLIANT"

Independence(path) == Max({200, 1000 - 200 * path.spofs})

(* Historical reliability is always full.                                  *)
ReliabilityIndex(r) ==
    Clamp(0, 1000, (Health(r) + 1000) \div 2 - (8 * Loss(r)) \div 10 - 2 * (100 - HealthConfidence(r)))

(* The default weights; economics is unknown for every path discovered.    *)
Weighted(path, r, safety) ==
    LET latency == 1000 - Min({1000, 5 * Latency(r)})
        loss == 1000 - Min({1000, Loss(r)})
        sla == CASE SlaStatus(path, r) = "COMPLIANT" -> 1000
                 [] SlaStatus(path, r) = "UNKNOWN" -> 600
                 [] OTHER -> 0
    IN  Clamp(0, 1000, Rounded(
            20 * Health(r) + 15 * ReliabilityIndex(r) + 200 * safety
          + 15 * latency + 10 * loss + 5 * sla + 10 * Independence(path) + 5 * 500, 100))

(* A variant that adds the predicted risk where its complement belongs.    *)
RiskAsMerit(path, r) == Weighted(path, r, r.risk)

PathScore(path, r) == Weighted(path, r, 100 - r.risk)

(* Sorting is stable and the primary comes first.                          *)
TopPath(paths, readings) ==
    IF PathScore(paths.backup, readings.backup) > PathScore(paths.primary, readings.primary)
    THEN "backup" ELSE "primary"

PathOutcomes ==
    {"BLOCKED", "KEEP_CURRENT_PATH", "RECOMMEND_ALTERNATIVE", "MONITOR", "INVESTIGATE"}

Recommend(paths, readings, trust) ==
    LET top == TopPath(paths, readings)
        health == Health(readings.primary)
    IN  IF trust = "BLOCKED" THEN "BLOCKED"
        ELSE IF top = "primary" \/ (health >= 800 /\ readings.primary.risk < 25)
             THEN "KEEP_CURRENT_PATH"
        ELSE IF PathScore(paths[top], readings[top]) > 600 THEN "RECOMMEND_ALTERNATIVE"
        ELSE IF health >= 500 THEN "MONITOR"
        ELSE "INVESTIGATE"
=============================================================================
