---------------------------- MODULE ProviderHealth ----------------------------
(***************************************************************************)
(* How the adaptive failover subsystem reads a provider: the health index  *)
(* and its trend (provider_monitor.py), the degradation detector, the      *)
(* adaptive score and the conditions of failback.                          *)
(*                                                                         *)
(* Health, scores and risk are integers: health and scores in hundredths   *)
(* of a point (10000 is a perfect provider), loss in tenths of a percent,  *)
(* risk in percent.  A caller that hands over a health index of its own    *)
(* (only tests do) is not modelled.                                        *)
(***************************************************************************)
EXTENDS Integers, FiniteSetsExt

CONSTANTS
    Metrics,        (* measurements a cycle can be given                   *)
    Pasts,          (* the five newest snapshots before it: how many there
                       are, and the sum of their health                    *)
    MinRecovery     (* minimum_recovery_duration_sec                       *)

ASSUME HealthAssumption ==
    /\ Metrics \subseteq [latency : Nat, loss : Nat, jitter : Nat, util : Nat, risk : Nat,
                          flaps : Nat]
    /\ Pasts \subseteq [entries : 0..5, total : Nat]
    /\ \A past \in Pasts : past.total <= 10000 * past.entries
    /\ MinRecovery \in Nat

Bounded(low, x, high) == Max({low, Min({x, high})})

(* To one decimal; a tie is rounded up.                                    *)
Rounded(x) == 10 * ((x + 5) \div 10)

HealthScore(m) ==
    LET latency == Bounded(0, 35 * (m.latency - 20), 5500)
        loss    == Min({80 * m.loss, 4000})
        jitter  == Bounded(0, 100 * (m.jitter - 5), 1500)
        util    == Bounded(0, 75 * (m.util - 80), 1500)
        risk    == Min({30 * m.risk, 3000})
        flaps   == Min({500 * m.flaps, 2500})
    IN  Rounded(Bounded(0, 10000 - (latency + loss + jitter + util + risk + flaps), 10000))

(* Two entries are needed before there is a trend.                         *)
Trend(past, health) ==
    LET n     == past.entries
        delta == n * health - past.total
    IN  IF n < 2 THEN "STABLE"
        ELSE IF delta <= -2500 * n THEN "RAPIDLY_DEGRADED"
        ELSE IF delta <= -800 * n THEN "DEGRADED"
        ELSE IF delta >= 800 * n THEN "IMPROVING"
        ELSE "STABLE"

ClassifyState(health, m) ==
    IF health < 2000 \/ m.loss > 150 THEN "FAILED"
    ELSE IF health < 5000 \/ m.risk > 60 \/ m.loss >= 30 THEN "CRITICAL"
    ELSE IF health < 7500 \/ m.risk > 25 \/ m.loss > 10 THEN "DEGRADED"
    ELSE IF health < 8500 \/ m.risk > 15 THEN "WARNING"
    ELSE "HEALTHY"

Snapshot(m, past) ==
    LET health == HealthScore(m)
    IN  [metrics |-> m, health |-> health, trend |-> Trend(past, health),
         state |-> ClassifyState(health, m)]

IsHardFailure(s) == s.metrics.loss >= 100

Signals(s) ==
    {x \in {"loss", "latency", "risk", "flaps", "trend"} :
        \/ x = "loss" /\ s.metrics.loss >= 30
        \/ x = "latency" /\ s.metrics.latency >= 150
        \/ x = "risk" /\ s.metrics.risk >= 30
        \/ x = "flaps" /\ s.metrics.flaps >= 3
        \/ x = "trend" /\ s.trend = "RAPIDLY_DEGRADED"}

(* A variant that lets one weak signal through.                            *)
DetectsAnySignal(s) == Signals(s) # {} \/ s.health < 8000

DetectDegradation(s) ==
    /\ Signals(s) # {} \/ s.health < 8000
    /\ Cardinality(Signals(s)) >= 2 \/ IsHardFailure(s) \/ s.health <= 6000

(* Fifteen points of stickiness for the active provider.                   *)
AdaptiveScore(s, isActive) ==
    LET trend == CASE s.trend = "RAPIDLY_DEGRADED" -> -3000
                   [] s.trend = "DEGRADED"         -> -1500
                   [] s.trend = "IMPROVING"        -> 1000
                   [] OTHER                        -> 0
        sticky == IF isActive THEN 1500 ELSE 0
    IN  Bounded(0, s.health + trend - 40 * s.metrics.risk + sticky, 10000)

(* The sort is stable and the active provider is listed first: it wins a   *)
(* tie.                                                                    *)
CandidateIsBetter(active, candidate) ==
    AdaptiveScore(candidate, FALSE) > AdaptiveScore(active, TRUE)

Unhealthy(s) == s.health < 8000 \/ s.metrics.risk > 25

(* A variant of the failback conditions that only counts seconds.          *)
StabilityByTimeAlone(s, recovery, oscillates) ==
    IF recovery < MinRecovery THEN "WAIT_FOR_STABILITY"
    ELSE IF oscillates THEN "FAILBACK_BLOCKED"
    ELSE "FAILBACK_RECOMMENDED"

EvaluateFailback(s, recovery, oscillates) ==
    IF Unhealthy(s) THEN "FAILBACK_BLOCKED"
    ELSE IF ~(recovery >= MinRecovery /\ s.health >= 8500) THEN "WAIT_FOR_STABILITY"
    ELSE IF oscillates THEN "FAILBACK_BLOCKED"
    ELSE "FAILBACK_RECOMMENDED"
=============================================================================
