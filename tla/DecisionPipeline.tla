---------------------------- MODULE DecisionPipeline ----------------------------
(***************************************************************************)
(* One investigation context shared by the agents that report into it, the *)
(* ReasoningAgent, the TrustAgent and the PathDecisionService.             *)
(*                                                                         *)
(* Each service holds its own lock, none holds the context: between two    *)
(* steps evidence is registered and time passes.  The TrustAgent takes the *)
(* conclusion the context holds, however old, and reasons itself only if   *)
(* there is none; the evidence it validates again is the registry's.  A    *)
(* path decision registers what it read of each candidate, with an empty   *)
(* payload, and reasons on all there is.                                   *)
(***************************************************************************)
EXTENDS PathDecision

CONSTANTS
    Names,            (* what agents, candidates and types are called      *)
    Reports,          (* evidence the agents may register, see Reasoning   *)
    Readings,         (* what telemetry may say of an interface            *)
    Devices,          (* kinds of device a path decision may be asked for  *)
    Ages,             (* seconds that may pass at once                     *)
    MaxAge,           (* bound: seconds until the investigation is over    *)
    MaxPathDecisions  (* bound: path decisions asked for                   *)

VARIABLES
    registry,     (* evidence registered, each with its age                *)
    elapsed,      (* seconds since the context was made                    *)
    conclusion,   (* the context's reasoning output: what trust reads of it *)
    pending,      (* the paths and readings of a path decision that has
                     not reasoned yet                                      *)
    answer        (* the last answer: the TrustAgent's, with what it rested
                     on, or the path decision's                            *)

vars == <<registry, elapsed, conclusion, pending, answer>>

None == [none |-> TRUE]

(* What the registry keeps of the output of an agent.                      *)
Evidence ==
    [source : Names, type : Names, by : Names, asked : Nat, age : Nat, confidence : 0..100,
     empty : BOOLEAN, supports : SUBSET Causes, util : 0..100, risk : 0..100,
     critical : BOOLEAN, down : BOOLEAN]

ASSUME PipelineAssumption ==
    /\ Candidates \cup {"TelemetryAgent", "telemetry"} \subseteq Names
    /\ {MaxAge, MaxPathDecisions} \subseteq Nat /\ Ages \subseteq Nat \ {0}
    /\ IsFiniteSet(Reports) /\ Devices \subseteq Kinds
    /\ \A report \in Reports :
           report \in Evidence /\ report.age = 0 /\ report.asked = 0 /\ ~report.empty
    /\ \A reading \in Readings : /\ {"risk", "age"} \subseteq DOMAIN reading
                                 /\ \A metric \in DOMAIN reading : reading[metric] \in Nat

Init ==
    /\ registry = {} /\ elapsed = 0
    /\ conclusion = None /\ pending = None /\ answer = None

(* The scheduler registers the output of an agent once.                    *)
Register(report) ==
    /\ \A e \in registry : e.by # report.by
    /\ registry' = registry \cup {report}
    /\ UNCHANGED <<elapsed, conclusion, pending, answer>>

Pass(seconds) ==
    /\ elapsed + seconds <= MaxAge
    /\ elapsed' = elapsed + seconds
    /\ registry' = {[e EXCEPT !.age = @ + seconds] : e \in registry}
    /\ UNCHANGED <<conclusion, pending, answer>>

Reason ==
    /\ conclusion' = Conclusion(registry)
    /\ UNCHANGED <<registry, elapsed, pending, answer>>

Trust ==
    /\ conclusion' = IF conclusion = None THEN Conclusion(registry) ELSE conclusion
    /\ answer' = [trust          |-> EvaluateTrust(conclusion', registry),
                  contradictions |-> conclusion'.contradictions,
                  supported      |-> conclusion'.supported]
    /\ UNCHANGED <<registry, elapsed, pending>>

Asked == Cardinality({e \in registry : e.empty}) \div 2

(* The confidence is that of the provider's health; what the reference     *)
(* keeps under "content" is no payload.                                    *)
Unread(candidate, reading) ==
    [source |-> "TelemetryAgent", type |-> "telemetry", by |-> candidate, asked |-> Asked + 1,
     age |-> 0, confidence |-> HealthConfidence(reading), empty |-> TRUE, supports |-> {}, util |-> 0, risk |-> 0,
     critical |-> FALSE, down |-> FALSE]

PathEvaluate ==
    /\ pending = None /\ Asked < MaxPathDecisions
    /\ \E kind \in Devices, r \in [Candidates -> Readings] :
           /\ pending' = [paths |-> Discovered(kind), readings |-> r]
           /\ registry' = registry \cup {Unread(c, r[c]) : c \in Candidates}
    /\ UNCHANGED <<elapsed, conclusion, answer>>

PathConclude ==
    /\ pending # None
    /\ LET trust == EvaluateTrust(Conclusion(registry), registry)
       IN  answer' = [path |-> Recommend(pending.paths, pending.readings, trust)]
    /\ pending' = None
    /\ UNCHANGED <<registry, elapsed, conclusion>>

Next ==
    \/ \E report \in Reports : Register(report)
    \/ \E seconds \in Ages : Pass(seconds)
    \/ Reason
    \/ Trust
    \/ PathEvaluate
    \/ PathConclude

Spec == Init /\ [][Next]_vars
-----------------------------------------------------------------------------
(* Every score that reaches a reader is a percentage and every outcome one *)
(* the models name, whatever evidence was registered and when.             *)
TypeOK ==
    /\ \A e \in registry : e \in Evidence /\ e.asked <= MaxPathDecisions /\ e.age <= MaxAge
    /\ elapsed \in 0..MaxAge
    /\ conclusion # None =>
           conclusion \in [cause : Causes, margin : 0..95, contradictions : Nat,
                           confidence : 10..100, supported : 0..5]
    /\ answer # None => \/ "trust" \in DOMAIN answer /\ answer.trust \in TrustOutcomes
                        \/ "path" \in DOMAIN answer /\ answer.path \in PathOutcomes
    /\ pending # None => \A c \in Candidates :
           {Health(pending.readings[c]), PathScore(pending.paths[c], pending.readings[c])} \subseteq 0..1000

(* What is done without a human was earned: the conclusion the trust       *)
(* decision rests on had at most one contradiction and evidence for at     *)
(* least three of the five competing causes.  No line of the gate says so; *)
(* it follows from four weighted scores, their ceilings and one threshold. *)
AutoIsEarned ==
    "trust" \in DOMAIN answer /\ answer.trust = "AUTO_ELIGIBLE" =>
        answer.contradictions <= 1 /\ answer.supported >= 3

(* The alternative is never recommended over a current path that is at     *)
(* least as good in every reading telemetry has of both, with no more      *)
(* single points of failure and no stricter SLA.                           *)
Dominates(p, r, q, s) ==
    /\ \A metric \in DOMAIN r \cup DOMAIN s : Has(r, metric) /\ Has(s, metric) /\ r[metric] <= s[metric]
    /\ p.spofs <= q.spofs /\ p.sla >= q.sla
NoWorsePathRecommended ==
    pending # None =>
        LET paths == pending.paths  r == pending.readings
        IN  Dominates(paths.primary, r.primary, paths.backup, r.backup) =>
                \A trust \in TrustOutcomes : Recommend(paths, r, trust) # "RECOMMEND_ALTERNATIVE"
=============================================================================
