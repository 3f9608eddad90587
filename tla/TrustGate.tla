------------------------------- MODULE TrustGate -------------------------------
(***************************************************************************)
(* agents/trust: whether what reasoning recommends may be done without a   *)
(* human.  A conclusion is challenged, its action's blast radius looked    *)
(* up, the evidence validated again at the present moment, and the scores  *)
(* put to the autonomy policy.                                             *)
(***************************************************************************)
EXTENDS Reasoning

(* The actions proposed for congestion and for routing name reroutes,      *)
(* shaping, BGP and OSPF; those for the other causes name none of them.    *)
BlastRadius(cause) == IF cause \in {"WAN", "ROUTING"} THEN "HIGH" ELSE "LOW"

Safety(radius) == IF radius = "HIGH" THEN 20 ELSE 80

(* One contradiction is a warning, more are a failure, and so is a cause   *)
(* without actions, which no category is.                                  *)
Failed(c) == IF c.contradictions > 1 THEN 1 ELSE 0
Warnings(c) == (IF c.contradictions = 1 THEN 1 ELSE 0) + (IF c.margin < 10 THEN 1 ELSE 0)

VerificationStatus(c) ==
    IF Failed(c) > 1 THEN "CONTRADICTED"
    ELSE IF Failed(c) = 1 THEN "FAILED"
    ELSE IF Warnings(c) > 0 THEN "WARNING"
    ELSE "PASSED"

VerificationConfidence(c) == Max({10, 100 - Min({60, 20 * Failed(c) + 5 * Warnings(c)})})

(* A variant that rewards what is only partly supported.                   *)
OptimisticCounterfactual(c) == IF c.supported > 0 THEN 5 ELSE -15

(* What the hypotheses would look like if they were false.                 *)
Counterfactual(c) ==
    IF c.supported = 5 THEN 5
    ELSE IF c.supported >= 5 - c.supported THEN 0
    ELSE -15

(* No evidence is evidence of the best quality.                            *)
EvidenceQuality(evidence) ==
    IF evidence = {} THEN 100
    ELSE Rounded(Total(evidence, LAMBDA e :
                    (IF e.source = "ReasoningAgent" THEN 90 ELSE Reliability(e)) * Freshness(e)),
                 100 * Cardinality(evidence))

TrustScore(c, evidence) ==
    Clamp(5, 100, Rounded(30 * c.confidence, 100)
                + Rounded(25 * EvidenceQuality(evidence), 100)
                + Rounded(25 * VerificationConfidence(c), 100)
                + Rounded(20 * Safety(BlastRadius(c.cause)), 100)
                + Counterfactual(c))

TrustOutcomes ==
    {"AUTO_ELIGIBLE", "HUMAN_APPROVAL_REQUIRED", "ADDITIONAL_EVIDENCE_REQUIRED", "BLOCKED"}

(* The default policy, for a reversible action with a rollback plan, the   *)
(* only kind any caller asks about.                                        *)
EvaluateTrust(c, evidence) ==
    LET trust == TrustScore(c, evidence)
    IN  IF VerificationStatus(c) = "CONTRADICTED" THEN "BLOCKED"
        ELSE IF BlastRadius(c.cause) = "HIGH" THEN "HUMAN_APPROVAL_REQUIRED"
        ELSE IF trust < 60 THEN "ADDITIONAL_EVIDENCE_REQUIRED"
        ELSE IF trust >= 85 THEN "AUTO_ELIGIBLE"
        ELSE "HUMAN_APPROVAL_REQUIRED"
=============================================================================
