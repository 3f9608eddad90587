--------------------------- MODULE AdaptiveFailover ---------------------------
(***************************************************************************)
(* The adaptive failover cycle of agents/adaptive_failover: the transition *)
(* state machine, the hysteresis of the stability engine, the trigger and  *)
(* the cycle that drives them and the failover pipeline.                   *)
(*                                                                         *)
(* A cycle runs from its first to its last statement under the service's   *)
(* lock, so it is one action.  Who is active is an argument of the call:   *)
(* no caller reads it back from the transition manager.  A cycle may begin *)
(* with any pair of snapshots the metrics and their pasts can give; the    *)
(* pasts are chosen, not kept (ProviderHealth!Trend).                      *)
(*                                                                         *)
(* Time is a number of ticks.  A record outside the hour is forgotten: the *)
(* cycle does not read it again.                                           *)
(***************************************************************************)
EXTENDS ProviderHealth, Sequences

CONSTANTS
    Providers, Primary,
    Delays,            (* ticks that may pass between two cycles           *)
    Durations,         (* degradation durations callers report, seconds    *)
    Recoveries,        (* recovery durations callers report, seconds       *)
    MinDegradation,    (* minimum_degradation_duration_sec                 *)
    Cooldown, Hold, Hour,     (* windows of the hysteresis, in ticks       *)
    MaxPerHour,        (* maximum_transitions_per_hour                     *)
    MaxRecords         (* bound: transitions kept within one hour          *)

ASSUME AdaptiveAssumption ==
    /\ Primary \in Providers /\ Cardinality(Providers) = 2 /\ "" \notin Providers
    /\ {Cooldown, Hold, Hour, MaxPerHour, MaxRecords, MinDegradation} \cup Delays \subseteq Nat
    /\ 0 < Cooldown /\ Cooldown <= Hold /\ Hold <= Hour
    /\ MaxPerHour > 0 /\ MaxRecords >= MaxPerHour

VARIABLES
    machine,   (* NetworkTransitionManager: state and active provider      *)
    history,   (* StabilityEngine._transition_history, within the hour     *)
    last,      (* _last_transition_time, as an age in ticks                *)
    memory     (* TransitionMemory: the newest record's target             *)

vars == <<machine, history, last, memory>>

TransitionStatus ==
    {"STABLE", "DEGRADING", "FAILOVER_CANDIDATE", "APPROVAL_REQUIRED", "PRECHECK",
     "EXECUTING", "VERIFYING", "STABLE_ON_ALTERNATE", "FAILBACK_CANDIDATE",
     "STABLE_ON_PRIMARY"}

(* A variant that lets no approval follow a candidate.                     *)
NoApprovalAfterCandidate ==
    [s \in TransitionStatus |-> IF s = "FAILOVER_CANDIDATE" THEN {"STABLE"} ELSE TransitionStatus]

ValidTransitions ==
    [STABLE              |-> {"DEGRADING", "FAILOVER_CANDIDATE"},
     DEGRADING           |-> {"FAILOVER_CANDIDATE", "STABLE"},
     FAILOVER_CANDIDATE  |-> {"APPROVAL_REQUIRED", "STABLE"},
     APPROVAL_REQUIRED   |-> {"PRECHECK", "STABLE", "FAILOVER_CANDIDATE"},
     PRECHECK            |-> {"EXECUTING", "STABLE", "FAILOVER_CANDIDATE"},
     EXECUTING           |-> {"VERIFYING", "STABLE"},
     VERIFYING           |-> {"STABLE_ON_ALTERNATE", "STABLE", "DEGRADING"},
     STABLE_ON_ALTERNATE |-> {"FAILBACK_CANDIDATE", "DEGRADING"},
     FAILBACK_CANDIDATE  |-> {"APPROVAL_REQUIRED", "STABLE_ON_ALTERNATE"},
     STABLE_ON_PRIMARY   |-> {"DEGRADING", "FAILOVER_CANDIDATE", "STABLE"}]

(* A refused transition changes nothing, and its result is ignored by the  *)
(* service.  "" stands for no change of provider.                          *)
TransitionTo(m, s, provider) ==
    IF s \in ValidTransitions[m.state] \cup {m.state}
    THEN [state |-> s, active |-> IF provider = "" THEN m.active ELSE provider]
    ELSE m

Requested(m) ==
    LET degrading == TransitionTo(m, "DEGRADING", "")
        candidate == TransitionTo(degrading, "FAILOVER_CANDIDATE", "")
    IN  TransitionTo(TransitionTo(candidate, "APPROVAL_REQUIRED", ""), "PRECHECK", "")

Completed(m, provider) ==
    TransitionTo(TransitionTo(TransitionTo(m, "EXECUTING", ""), "VERIFYING", ""),
                 "STABLE_ON_ALTERNATE", provider)

----------------------------------------------------------------------------
(* The stability engine.                                                   *)

Never == Hour + 1      (* no transition yet; older than every window       *)

(* Ages are capped: beyond the hour they are alike.                        *)
Older(age, d) == Min({age + d, Never})

Involves(r, p) == p \in {r.from, r.to}

RecentTransitions(p) ==
    Cardinality({i \in DOMAIN history : Involves(history[i], p)})

(* A variant without the hourly limit.                                     *)
CooldownAlone(p) ==
    IF last[p] < Cooldown THEN "BLOCK_TRANSITION_COOLDOWN_ACTIVE" ELSE "ALLOW_TRANSITION"

EvaluateOscillationRisk(p) ==
    IF RecentTransitions(p) >= MaxPerHour THEN "BLOCK_TRANSITION_MAX_HOURLY_LIMIT"
    ELSE IF last[p] < Cooldown THEN "BLOCK_TRANSITION_COOLDOWN_ACTIVE"
    ELSE "ALLOW_TRANSITION"

Oscillates(p) == EvaluateOscillationRisk(p) # "ALLOW_TRANSITION"

(* A hard failure passes everything, the hold time and the hourly limit    *)
(* included.  A duration of zero, the default, passes the windows.         *)
HysteresisPassed(p, degradation, hard, recovery) ==
    \/ hard
    \/ /\ ~(0 < recovery /\ recovery < MinRecovery)
       /\ ~(0 < degradation /\ degradation < MinDegradation)
       /\ ~Oscillates(p)
       /\ ~(last[p] < Hold)

(* A variant that forgets the provider traffic moved to.                   *)
StampSourceOnly(from, to, hard) ==
    /\ history' = Append(history, [from |-> from, to |-> to, hard |-> hard, age |-> 0])
    /\ last' = [last EXCEPT ![from] = 0]

RecordTransition(from, to, hard) ==
    /\ history' = Append(history, [from |-> from, to |-> to, hard |-> hard, age |-> 0])
    /\ last' = [last EXCEPT ![from] = 0, ![to] = 0]

----------------------------------------------------------------------------
(* The cycle.                                                              *)

(* Everything a cycle can learn from the active and the candidate          *)
(* snapshot, one record for each way they can differ.                      *)
Assess(a, c) ==
    [degraded |-> DetectDegradation(a), hard |-> DetectDegradation(a) /\ IsHardFailure(a),
     low |-> a.health < 8000, healthy |-> a.state = "HEALTHY",
     candidateIsBetter |-> CandidateIsBetter(a, c),
     failback |-> [r \in Recoveries |-> [osc \in BOOLEAN |->
                      [active |-> EvaluateFailback(a, r, osc),
                       candidate |-> EvaluateFailback(c, r, osc)]]]]

Snapshots == {Snapshot(m, past) : m \in Metrics, past \in Pasts}

Assessments ==
    {Assess(a, c) : a \in Snapshots, c \in {s \in Snapshots : s.trend = "STABLE"}}

EvaluateTrigger(p, x, degradation) ==
    IF ~x.degraded /\ ~x.low THEN "NO_ACTION"
    ELSE IF ~HysteresisPassed(p, degradation, x.hard, 0) THEN "FAILOVER_BLOCKED"
    ELSE "REQUEST_FAILOVER"

FailbackStatus(p, x, recovery) ==
    LET primary == x.failback[recovery][Oscillates(Primary)]
    IN  IF p = Primary THEN primary.active ELSE primary.candidate

Init ==
    /\ machine = [state |-> "STABLE", active |-> Primary]
    /\ history = <<>>
    /\ last = [p \in Providers |-> Never]
    /\ memory = Primary

(* A cycle that asks for no failover changes neither machine nor history.  *)
Watch(p, x, degradation) ==
    /\ EvaluateTrigger(p, x, degradation) # "REQUEST_FAILOVER"
    /\ UNCHANGED vars

(* The pipeline raises or does not complete: the machine stays where the   *)
(* request took it.                                                        *)
FailoverNotDone(p, x, degradation) ==
    /\ EvaluateTrigger(p, x, degradation) = "REQUEST_FAILOVER"
    /\ machine' = Requested(machine)
    /\ UNCHANGED <<history, last, memory>>

(* The pipeline completes.  Traffic is recorded as moved to the provider   *)
(* the score prefers, which can be the active one itself.                  *)
FailoverDone(p, x, degradation) ==
    LET candidate == CHOOSE q \in Providers : q # p
        target    == IF x.candidateIsBetter THEN candidate ELSE p
    IN  /\ EvaluateTrigger(p, x, degradation) = "REQUEST_FAILOVER"
        /\ Len(history) < MaxRecords
        /\ machine' = Completed(Requested(machine), target)
        /\ RecordTransition(p, target, x.hard)
        /\ memory' = target

Cycle ==
    \E p \in Providers, x \in Assessments, degradation \in Durations :
        \/ Watch(p, x, degradation)
        \/ FailoverNotDone(p, x, degradation)
        \/ FailoverDone(p, x, degradation)

(* Records are kept in the order of their time: those that leave the hour  *)
(* are the first.                                                          *)
Elapse ==
    \E d \in Delays :
        LET forgotten == Cardinality({i \in DOMAIN history : history[i].age + d > Hour})
        IN  /\ history' = [i \in 1..(Len(history) - forgotten) |->
                              [history[i + forgotten] EXCEPT !.age = @ + d]]
            /\ last' = [p \in Providers |-> Older(last[p], d)]
            /\ UNCHANGED <<machine, memory>>

Next == Cycle \/ Elapse

Spec == Init /\ [][Next]_vars

----------------------------------------------------------------------------
(* Properties.                                                             *)

(* Every variable holds a value of its kind; between two cycles the        *)
(* machine rests in one of three states.                                   *)
TypeOK ==
    /\ machine \in [state : {"STABLE", "PRECHECK", "STABLE_ON_ALTERNATE"},
                    active : Providers]
    /\ history \in Seq([from : Providers, to : Providers, hard : BOOLEAN, age : 0..Hour])
    /\ Len(history) <= MaxRecords
    /\ last \in [Providers -> 0..Never]
    /\ memory \in Providers

(* validate_hysteresis_preconditions, whatever providers the callers name: *)
(* a failover that is not forced by a hard failure leaves a provider that  *)
(* has been the source or the target of no transition within the hold      *)
(* time, forced ones included, and of fewer than the hourly limit.         *)
NoFlapping ==
    \A j \in DOMAIN history : ~history[j].hard =>
        LET before == {i \in 1..(j - 1) : Involves(history[i], history[j].from)}
        IN  /\ \A i \in before : history[i].age - history[j].age >= Hold
            /\ Cardinality(before) < MaxPerHour

(* The state machine and the transition memory are written by the same     *)
(* cycle, one through a table that may refuse: wherever a failed pipeline  *)
(* or an earlier failover has left the machine, the provider it names is   *)
(* the one of the newest record.                                           *)
MachineFollowsRecords == machine.active = memory

(* The failback engine and the trigger judge the primary by thresholds of  *)
(* their own: no cycle that can begin here asks at once to leave the       *)
(* primary and to return to it.                                            *)
NoContradictoryAdvice ==
    \A x \in Assessments, degradation \in Durations, recovery \in Recoveries :
        EvaluateTrigger(Primary, x, degradation) = "REQUEST_FAILOVER" =>
            FailbackStatus(Primary, x, recovery) # "FAILBACK_RECOMMENDED"

(* Monitor, detector and trigger classify one snapshot, each with its own  *)
(* thresholds: a provider the monitor calls HEALTHY is never failed over   *)
(* or blocked, whatever its trend and its flaps.                           *)
HealthyIsLeftAlone ==
    \A p \in Providers, x \in Assessments, degradation \in Durations :
        x.healthy => EvaluateTrigger(p, x, degradation) = "NO_ACTION"
=============================================================================
