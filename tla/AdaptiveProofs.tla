--------------------------- MODULE AdaptiveProofs ----------------------------
(***************************************************************************)
(* What an adaptive cycle promises for any providers, windows, limits and  *)
(* measurements.  The first part is about the health index and needs no    *)
(* invariant: its two properties hold of whatever a cycle can be given.    *)
(* The second shows that no unforced failover leaves a provider too early  *)
(* or too often, and that the machine names the provider of the newest     *)
(* record.                                                                 *)
(***************************************************************************)
EXTENDS AdaptiveFailover, FiniteSetTheorems, TLAPS

----------------------------------------------------------------------------
(* The arithmetic of the health index.                                     *)

LEMMA MinOfTwo ==
    ASSUME NEW x \in Int, NEW y \in Int
    PROVE  Min({x, y}) = IF x <= y THEN x ELSE y
<1> DEFINE m == IF x <= y THEN x ELSE y
<1>1. m \in {x, y} /\ \A z \in {x, y} : m <= z
  OBVIOUS
<1>2. \A n \in {x, y} : (\A z \in {x, y} : n <= z) => n = m
  OBVIOUS
<1> HIDE DEF m
<1>3. (CHOOSE n \in {x, y} : \A z \in {x, y} : n <= z) = m
  BY <1>1, <1>2
<1> QED BY <1>3 DEF Min, m

LEMMA MaxOfTwo ==
    ASSUME NEW x \in Int, NEW y \in Int
    PROVE  Max({x, y}) = IF x >= y THEN x ELSE y
<1> DEFINE m == IF x >= y THEN x ELSE y
<1>1. m \in {x, y} /\ \A z \in {x, y} : m >= z
  OBVIOUS
<1>2. \A n \in {x, y} : (\A z \in {x, y} : n >= z) => n = m
  OBVIOUS
<1> HIDE DEF m
<1>3. (CHOOSE n \in {x, y} : \A z \in {x, y} : n >= z) = m
  BY <1>1, <1>2
<1> QED BY <1>3 DEF Max, m

LEMMA BoundedIs ==
    ASSUME NEW low \in Int, NEW x \in Int, NEW high \in Int, low <= high
    PROVE  Bounded(low, x, high) = IF x < low THEN low ELSE IF x > high THEN high ELSE x
<1> DEFINE m == Min({x, high})
<1>1. m = IF x <= high THEN x ELSE high
  BY MinOfTwo
<1>2. m \in Int
  BY <1>1
<1> HIDE DEF m
<1>3. Max({low, m}) = IF low >= m THEN low ELSE m
  BY <1>2, MaxOfTwo
<1> QED BY <1>1, <1>3 DEF Bounded, m

LEMMA RoundedFacts ==
    ASSUME NEW x \in Nat, x <= 10000
    PROVE  Rounded(x) \in Nat /\ Rounded(x) <= 10000 /\ Rounded(x) <= x + 5
<1> DEFINE tens == (x + 5) \div 10
<1>1. tens \in Int /\ 10 * tens <= x + 5 /\ x + 5 < 10 * tens + 10
  OBVIOUS
<1>2. Rounded(x) = 10 * tens
  BY DEF Rounded
<1> HIDE DEF tens
<1> QED BY <1>1, <1>2

(* A provider with a good health index has no loss and no latency that the *)
(* detector would call a signal.                                           *)
LEMMA GoodHealth ==
    ASSUME NEW m \in Metrics
    PROVE  /\ HealthScore(m) \in Nat /\ HealthScore(m) <= 10000
           /\ HealthScore(m) >= 8500 => m.loss < 30 /\ m.latency < 150
<1> DEFINE latency == Bounded(0, 35 * (m.latency - 20), 5500)
           loss    == Min({80 * m.loss, 4000})
           jitter  == Bounded(0, 100 * (m.jitter - 5), 1500)
           util    == Bounded(0, 75 * (m.util - 80), 1500)
           risk    == Min({30 * m.risk, 3000})
           flaps   == Min({500 * m.flaps, 2500})
           sum     == 10000 - (latency + loss + jitter + util + risk + flaps)
           whole   == Bounded(0, sum, 10000)
<1>0. /\ m.latency \in Nat /\ m.loss \in Nat /\ m.jitter \in Nat
      /\ m.util \in Nat /\ m.risk \in Nat /\ m.flaps \in Nat
  BY HealthAssumption
<1>1. latency \in Nat /\ (m.latency >= 150 => latency >= 4550)
  BY <1>0, BoundedIs
<1>2. loss \in Nat /\ (m.loss >= 30 => loss >= 2400)
  BY <1>0, MinOfTwo
<1>3. jitter \in Nat /\ util \in Nat
  BY <1>0, BoundedIs
<1>4. risk \in Nat /\ flaps \in Nat
  BY <1>0, MinOfTwo
<1>5. HealthScore(m) = Rounded(whole)
  BY DEF HealthScore
<1> HIDE DEF latency, loss, jitter, util, risk, flaps
<1>6. sum \in Int
  BY <1>1, <1>2, <1>3, <1>4
<1>7. (m.latency >= 150 \/ m.loss >= 30) => sum <= 7600
  BY <1>0, <1>1, <1>2, <1>3, <1>4
<1> HIDE DEF sum
<1>8. whole \in Nat /\ whole <= 10000 /\ (sum <= 7600 => whole <= 7600)
  BY <1>6, BoundedIs
<1> HIDE DEF whole
<1>9. Rounded(whole) \in Nat /\ Rounded(whole) <= 10000 /\ Rounded(whole) <= whole + 5
  BY <1>8, RoundedFacts
<1> QED BY <1>0, <1>5, <1>7, <1>8, <1>9

(* A provider with a good health index has not dropped by 25 points.       *)
LEMMA GoodTrend ==
    ASSUME NEW past \in Pasts, NEW health \in Nat, 8500 <= health, health <= 10000
    PROVE  Trend(past, health) # "RAPIDLY_DEGRADED"
<1> DEFINE n == past.entries
           delta == n * health - past.total
<1>1. n \in 0..5 /\ past.total \in Nat /\ past.total <= 10000 * n
  BY HealthAssumption
<1>2. n >= 2 => delta > -2500 * n
  <2>1. CASE n = 2 BY <2>1, <1>1
  <2>2. CASE n = 3 BY <2>2, <1>1
  <2>3. CASE n = 4 BY <2>3, <1>1
  <2>4. CASE n = 5 BY <2>4, <1>1
  <2> QED BY <1>1, <2>1, <2>2, <2>3, <2>4
<1>3. delta \in Int /\ -2500 * n \in Int
  BY <1>1
<1>4. Trend(past, health) = 
        IF n < 2 THEN "STABLE"
        ELSE IF delta <= -2500 * n THEN "RAPIDLY_DEGRADED"
        ELSE IF delta <= -800 * n THEN "DEGRADED"
        ELSE IF delta >= 800 * n THEN "IMPROVING"
        ELSE "STABLE"
  BY DEF Trend
<1> HIDE DEF delta
<1>5. ~(n >= 2 /\ delta <= -2500 * n)
  BY <1>1, <1>2, <1>3
<1> HIDE DEF n
<1>6. n \in Int
  BY <1>1
<1> QED BY <1>3, <1>4, <1>5, <1>6

(* What is left for the detector is flapping alone, one weak signal.       *)
LEMMA GoodIsNotDegraded ==
    ASSUME NEW m \in Metrics, NEW past \in Pasts,
           HealthScore(m) >= 8500, m.risk < 30
    PROVE  ~DetectDegradation(Snapshot(m, past))
<1> DEFINE s == Snapshot(m, past)
<1>1. s.metrics = m /\ s.health = HealthScore(m) /\ s.trend = Trend(past, HealthScore(m))
  BY DEF Snapshot
<1> HIDE DEF s
<1>2. /\ s.health \in Nat /\ 8500 <= s.health /\ s.health <= 10000
      /\ m.loss < 30 /\ m.latency < 150
  BY <1>1, GoodHealth
<1>3. s.trend # "RAPIDLY_DEGRADED"
  BY <1>1, <1>2, GoodTrend
<1>4. m.loss \in Nat /\ m.latency \in Nat /\ m.risk \in Nat
  BY HealthAssumption
<1>5. Signals(s) \subseteq {"flaps"}
  BY <1>1, <1>2, <1>3, <1>4 DEF Signals
<1>6. IsFiniteSet({"flaps"}) /\ Cardinality({"flaps"}) = 1
  BY FS_Singleton
<1>7. Cardinality(Signals(s)) <= 1 /\ Cardinality(Signals(s)) \in Nat
  BY <1>5, <1>6, FS_Subset, FS_CardinalityType
<1>8. ~IsHardFailure(s)
  BY <1>1, <1>2, <1>4 DEF IsHardFailure
<1> QED BY <1>2, <1>7, <1>8 DEF DetectDegradation, s

(* Every assessment is one of an active snapshot.                          *)
LEMMA AssessmentOf ==
    ASSUME NEW x \in Assessments
    PROVE  \E a, c \in Snapshots : x = Assess(a, c)
BY DEF Assessments

LEMMA AssessIs ==
    ASSUME NEW a, NEW c
    PROVE  /\ Assess(a, c).degraded <=> DetectDegradation(a)
           /\ Assess(a, c).low <=> a.health < 8000
           /\ Assess(a, c).healthy <=> a.state = "HEALTHY"
           /\ \A r \in Recoveries, osc \in BOOLEAN :
                Assess(a, c).failback[r][osc].active = EvaluateFailback(a, r, osc)
<1> DEFINE f == [r \in Recoveries |-> [osc \in BOOLEAN |->
                    [active |-> EvaluateFailback(a, r, osc),
                     candidate |-> EvaluateFailback(c, r, osc)]]]
<1>1. Assess(a, c).failback = f
  BY DEF Assess
<1>2. \A r \in Recoveries, osc \in BOOLEAN : f[r][osc].active = EvaluateFailback(a, r, osc)
  OBVIOUS
<1> HIDE DEF f
<1>3. \A r \in Recoveries, osc \in BOOLEAN :
        Assess(a, c).failback[r][osc].active = EvaluateFailback(a, r, osc)
  BY <1>1, <1>2
<1>4. Assess(a, c).degraded <=> DetectDegradation(a)
  BY DEF Assess
<1>5. Assess(a, c).low <=> a.health < 8000
  <2> DEFINE low == a.health < 8000
             better == CandidateIsBetter(a, c)
  <2>1. Assess(a, c) =
          [degraded |-> DetectDegradation(a), hard |-> DetectDegradation(a) /\ IsHardFailure(a),
           low |-> low, healthy |-> a.state = "HEALTHY", candidateIsBetter |-> better,
           failback |-> f]
    BY Zenon DEF Assess, f
  <2> HIDE DEF low, better
  <2>2. Assess(a, c).low <=> low
    BY <2>1
  <2> QED BY <2>2 DEF low
<1>6. Assess(a, c).healthy <=> a.state = "HEALTHY"
  BY DEF Assess
<1> QED BY <1>3, <1>4, <1>5, <1>6

(* What the monitor calls HEALTHY asks for nothing.                        *)
LEMMA HealthyIsQuiet ==
    ASSUME NEW x \in Assessments, x.healthy
    PROVE  ~x.degraded /\ ~x.low
<1>0. PICK a, c \in Snapshots : x = Assess(a, c)
  BY AssessmentOf
<1>1. PICK m \in Metrics, past \in Pasts : a = Snapshot(m, past)
  BY DEF Snapshots
<1>2. /\ x.degraded <=> DetectDegradation(a)
      /\ x.low <=> a.health < 8000
      /\ a.state = "HEALTHY"
  BY <1>0, AssessIs
<1>3. a.state = ClassifyState(HealthScore(m), m) /\ a.health = HealthScore(m)
  BY <1>1 DEF Snapshot
<1>4. HealthScore(m) \in Nat /\ m.loss \in Nat /\ m.risk \in Nat
  BY GoodHealth, HealthAssumption
<1>5. HealthScore(m) >= 8500 /\ m.risk < 30
  <2> DEFINE h == HealthScore(m)
  <2>1. ClassifyState(h, m) = "HEALTHY"
    BY <1>2, <1>3
  <2> HIDE DEF h
  <2>2. ~(h < 8500 \/ m.risk > 15)
    BY <2>1 DEF ClassifyState
  <2> QED BY <2>2, <1>4 DEF h
<1>6. ~DetectDegradation(a)
  BY <1>1, <1>5, GoodIsNotDegraded
<1> QED BY <1>2, <1>3, <1>4, <1>5, <1>6

(* What the failback engine would return to is not degraded.               *)
LEMMA RecommendedIsQuiet ==
    ASSUME NEW x \in Assessments, NEW r \in Recoveries, NEW osc \in BOOLEAN,
           x.failback[r][osc].active = "FAILBACK_RECOMMENDED"
    PROVE  ~x.degraded /\ ~x.low
<1>0. PICK a, c \in Snapshots : x = Assess(a, c)
  BY AssessmentOf
<1>1. PICK m \in Metrics, past \in Pasts : a = Snapshot(m, past)
  BY DEF Snapshots
<1>2. /\ x.degraded <=> DetectDegradation(a)
      /\ x.low <=> a.health < 8000
      /\ EvaluateFailback(a, r, osc) = "FAILBACK_RECOMMENDED"
  BY <1>0, AssessIs
<1>3. a.metrics = m /\ a.health = HealthScore(m)
  BY <1>1 DEF Snapshot
<1>4. HealthScore(m) \in Nat /\ m.risk \in Nat
  BY GoodHealth, HealthAssumption
<1>5. a.health >= 8500 /\ ~Unhealthy(a)
  BY <1>2 DEF EvaluateFailback
<1>6. HealthScore(m) >= 8500 /\ m.risk < 30
  BY <1>3, <1>4, <1>5 DEF Unhealthy
<1>7. ~DetectDegradation(a)
  BY <1>1, <1>6, GoodIsNotDegraded
<1> QED BY <1>2, <1>3, <1>4, <1>6, <1>7

LEMMA HealthyHolds == HealthyIsLeftAlone
<1> SUFFICES ASSUME NEW p \in Providers, NEW x \in Assessments, NEW degradation \in Durations,
                    x.healthy
             PROVE  EvaluateTrigger(p, x, degradation) = "NO_ACTION"
  BY DEF HealthyIsLeftAlone
<1>1. ~x.degraded /\ ~x.low
  BY HealthyIsQuiet
<1> QED BY <1>1 DEF EvaluateTrigger

LEMMA NoContradiction == NoContradictoryAdvice
<1> SUFFICES ASSUME NEW x \in Assessments, NEW degradation \in Durations,
                    NEW recovery \in Recoveries,
                    FailbackStatus(Primary, x, recovery) = "FAILBACK_RECOMMENDED"
             PROVE  EvaluateTrigger(Primary, x, degradation) # "REQUEST_FAILOVER"
  BY DEF NoContradictoryAdvice
<1>1. x.failback[recovery][Oscillates(Primary)].active = "FAILBACK_RECOMMENDED"
  BY DEF FailbackStatus
<1>2. Oscillates(Primary) \in BOOLEAN
  BY DEF Oscillates
<1>3. ~x.degraded /\ ~x.low
  BY <1>1, <1>2, RecommendedIsQuiet
<1> QED BY <1>3 DEF EvaluateTrigger

----------------------------------------------------------------------------
(* The hysteresis.                                                         *)

Record == [from : Providers, to : Providers, hard : BOOLEAN, age : 0..Hour]

(* The stamp of a provider is never older than a record that names it:     *)
(* the hold time of the stamp is that of every record.                     *)
StampsAreRecent ==
    \A i \in DOMAIN history, p \in Providers :
        Involves(history[i], p) => last[p] <= history[i].age

OldestFirst ==
    \A i, j \in DOMAIN history : i <= j => history[i].age >= history[j].age

IInv == TypeOK /\ StampsAreRecent /\ OldestFirst /\ NoFlapping /\ MachineFollowsRecords

LEMMA Windows ==
    /\ Cooldown \in Nat /\ Hold \in Nat /\ Hour \in Nat /\ MaxPerHour \in Nat
    /\ MaxRecords \in Nat /\ Delays \subseteq Nat
    /\ 0 < Cooldown /\ Cooldown <= Hold /\ Hold <= Hour /\ 0 < MaxPerHour
BY AdaptiveAssumption

LEMMA OlderIs ==
    ASSUME NEW age \in 0..Never, NEW d \in Delays
    PROVE  /\ Older(age, d) \in 0..Never
           /\ Older(age, d) = IF age + d <= Never THEN age + d ELSE Never
<1>1. Never \in Nat /\ d \in Nat /\ age \in Nat /\ age <= Never
  BY Windows DEF Never
<1>2. Older(age, d) = IF age + d <= Never THEN age + d ELSE Never
  BY <1>1, MinOfTwo DEF Older
<1> QED BY <1>1, <1>2

(* There is another provider.                                              *)
LEMMA OtherProvider ==
    ASSUME NEW p \in Providers
    PROVE  (CHOOSE q \in Providers : q # p) \in Providers
<1>1. ASSUME \A q \in Providers : q = p PROVE FALSE
  <2>1. Providers = {p}
    BY <1>1
  <2>2. Cardinality(Providers) = 1
    BY <2>1, FS_Singleton
  <2>3. Cardinality(Providers) = 2
    BY AdaptiveAssumption
  <2> QED BY <2>2, <2>3
<1> QED BY <1>1

(* The entries of the table that a request and its completion use.         *)
LEMMA Table ==
    /\ "DEGRADING" \in ValidTransitions["STABLE"]
    /\ "DEGRADING" \in ValidTransitions["STABLE_ON_ALTERNATE"]
    /\ "DEGRADING" \notin ValidTransitions["PRECHECK"]
    /\ "FAILOVER_CANDIDATE" \in ValidTransitions["DEGRADING"]
    /\ "FAILOVER_CANDIDATE" \in ValidTransitions["PRECHECK"]
    /\ "APPROVAL_REQUIRED" \in ValidTransitions["FAILOVER_CANDIDATE"]
    /\ "PRECHECK" \in ValidTransitions["APPROVAL_REQUIRED"]
    /\ "EXECUTING" \in ValidTransitions["PRECHECK"]
    /\ "VERIFYING" \in ValidTransitions["EXECUTING"]
    /\ "STABLE_ON_ALTERNATE" \in ValidTransitions["VERIFYING"]
BY DEF ValidTransitions

(* The four transitions of a request end in PRECHECK from wherever the     *)
(* machine rests, although its table refuses some of them.                 *)
LEMMA RequestedIs ==
    ASSUME NEW m, m.state \in {"STABLE", "PRECHECK", "STABLE_ON_ALTERNATE"}
    PROVE  Requested(m).state = "PRECHECK" /\ Requested(m).active = m.active
<1> DEFINE degrading == TransitionTo(m, "DEGRADING", "")
           candidate == TransitionTo(degrading, "FAILOVER_CANDIDATE", "")
           approval  == TransitionTo(candidate, "APPROVAL_REQUIRED", "")
<1>0. Requested(m) = TransitionTo(approval, "PRECHECK", "")
  BY DEF Requested
<1>1. degrading.state \in {"DEGRADING", "PRECHECK"} /\ degrading.active = m.active
  <2>1. CASE m.state = "PRECHECK"
    BY <2>1, Table DEF TransitionTo
  <2>2. CASE m.state \in {"STABLE", "STABLE_ON_ALTERNATE"}
    BY <2>2, Table DEF TransitionTo
  <2> QED BY <2>1, <2>2
<1> HIDE DEF degrading
<1>2. candidate.state = "FAILOVER_CANDIDATE" /\ candidate.active = m.active
  BY <1>1, Table DEF TransitionTo
<1> HIDE DEF candidate
<1>3. approval.state = "APPROVAL_REQUIRED" /\ approval.active = m.active
  BY <1>2, Table DEF TransitionTo
<1> HIDE DEF approval
<1> QED BY <1>0, <1>3, Table DEF TransitionTo

LEMMA CompletedIs ==
    ASSUME NEW m, m.state = "PRECHECK", NEW provider \in Providers
    PROVE  Completed(m, provider) = [state |-> "STABLE_ON_ALTERNATE", active |-> provider]
<1> DEFINE executing == TransitionTo(m, "EXECUTING", "")
           verifying == TransitionTo(executing, "VERIFYING", "")
<1>1. executing.state = "EXECUTING"
  BY Table DEF TransitionTo
<1> HIDE DEF executing
<1>2. verifying.state = "VERIFYING"
  BY <1>1, Table DEF TransitionTo
<1>3. Completed(m, provider) = TransitionTo(verifying, "STABLE_ON_ALTERNATE", provider)
  BY DEF Completed, executing
<1> HIDE DEF verifying
<1>4. provider # ""
  BY AdaptiveAssumption
<1> QED BY <1>2, <1>3, <1>4, Table DEF TransitionTo

(* What is not forced has passed the hourly limit and the hold time.       *)
LEMMA UnforcedHasWaited ==
    ASSUME NEW p, NEW x, NEW degradation,
           EvaluateTrigger(p, x, degradation) = "REQUEST_FAILOVER", ~x.hard
    PROVE  ~(RecentTransitions(p) >= MaxPerHour) /\ ~(last[p] < Hold)
<1>1. HysteresisPassed(p, degradation, x.hard, 0)
  BY DEF EvaluateTrigger
<1>2. ~Oscillates(p) /\ ~(last[p] < Hold)
  BY <1>1 DEF HysteresisPassed
<1> QED BY <1>2 DEF Oscillates, EvaluateOscillationRisk

LEMMA HardIsBoolean == ASSUME NEW x \in Assessments PROVE x.hard \in BOOLEAN
<1>1. PICK a, c \in Snapshots : x = Assess(a, c)
  BY AssessmentOf
<1> DEFINE hard == DetectDegradation(a) /\ IsHardFailure(a)
           low == a.health < 8000
           better == CandidateIsBetter(a, c)
           healthy == a.state = "HEALTHY"
           f == [r \in Recoveries |-> [osc \in BOOLEAN |->
                    [active |-> EvaluateFailback(a, r, osc),
                     candidate |-> EvaluateFailback(c, r, osc)]]]
<1>2. x = [degraded |-> DetectDegradation(a), hard |-> hard, low |-> low,
           healthy |-> healthy, candidateIsBetter |-> better, failback |-> f]
  BY <1>1, Zenon DEF Assess
<1>3. hard \in BOOLEAN
  OBVIOUS
<1> HIDE DEF hard, low, better, healthy, f
<1> QED BY <1>2, <1>3

----------------------------------------------------------------------------
(* The steps.                                                              *)

LEMMA InitInvariant == Init => IInv
<1> SUFFICES ASSUME Init PROVE IInv
  OBVIOUS
<1> USE DEF Init
<1>1. Never \in Nat /\ Never \in 0..Never
  BY Windows DEF Never
<1>2. TypeOK
  <2>1. Primary \in Providers
    BY AdaptiveAssumption
  <2>2. machine \in [state : {"STABLE", "PRECHECK", "STABLE_ON_ALTERNATE"}, active : Providers]
    BY <2>1
  <2>3. last \in [Providers -> 0..Never]
    BY <1>1
  <2>4. history \in Seq([from : Providers, to : Providers, hard : BOOLEAN, age : 0..Hour])
        /\ Len(history) <= MaxRecords
    BY Windows
  <2> QED BY <2>1, <2>2, <2>3, <2>4 DEF TypeOK
<1>3. StampsAreRecent /\ OldestFirst /\ NoFlapping
  BY DEF StampsAreRecent, OldestFirst, NoFlapping
<1>4. MachineFollowsRecords
  BY DEF MachineFollowsRecords
<1> QED BY <1>2, <1>3, <1>4 DEF IInv

LEMMA NotDoneStep ==
    ASSUME IInv, NEW p, NEW x, NEW degradation, FailoverNotDone(p, x, degradation)
    PROVE  IInv'
<1>1. machine \in [state : {"STABLE", "PRECHECK", "STABLE_ON_ALTERNATE"}, active : Providers]
  BY DEF IInv, TypeOK
<1>2. machine' = Requested(machine) /\ UNCHANGED <<history, last, memory>>
  BY DEF FailoverNotDone
<1>3. machine'.state = "PRECHECK" /\ machine'.active = machine.active
  BY <1>1, <1>2, RequestedIs
<1>4. machine' = [state |-> "PRECHECK", active |-> machine.active]
  BY <1>1, <1>2, <1>3 DEF Requested, TransitionTo
<1>5. TypeOK'
  BY <1>1, <1>2, <1>4 DEF IInv, TypeOK
<1>6. (StampsAreRecent /\ OldestFirst /\ NoFlapping)'
  BY <1>2 DEF IInv, StampsAreRecent, OldestFirst, NoFlapping, Involves
<1>7. MachineFollowsRecords'
  BY <1>2, <1>3 DEF IInv, MachineFollowsRecords
<1> QED BY <1>5, <1>6, <1>7 DEF IInv

(* A new record changes nothing about the earlier ones.                    *)
LEMMA RecordStep ==
    ASSUME IInv, NEW from \in Providers, NEW to \in Providers, NEW hard \in BOOLEAN,
           RecordTransition(from, to, hard), Len(history) < MaxRecords,
           ~hard => ~(RecentTransitions(from) >= MaxPerHour) /\ ~(last[from] < Hold)
    PROVE  /\ history' \in Seq(Record) /\ Len(history') <= MaxRecords
           /\ last' \in [Providers -> 0..Never]
           /\ (StampsAreRecent /\ OldestFirst /\ NoFlapping)'
<1> DEFINE n == Len(history)
           r == [from |-> from, to |-> to, hard |-> hard, age |-> 0]
<1>1. history \in Seq(Record) /\ n \in Nat /\ DOMAIN history = 1..n
  BY DEF IInv, TypeOK, Record
<1>2. last \in [Providers -> 0..Never] /\ Never \in Nat /\ 0 \in 0..Never
  BY Windows DEF IInv, TypeOK, Never
<1>3. r \in Record
  BY Windows DEF Record
<1>4. history' = Append(history, r)
  BY DEF RecordTransition
<1>5. /\ history' \in Seq(Record) /\ Len(history') = n + 1 /\ DOMAIN history' = 1..(n + 1)
      /\ history'[n + 1] = r
      /\ \A i \in 1..n : history'[i] = history[i]
  BY <1>1, <1>3, <1>4
<1>6. \A i \in 1..n : history[i] \in Record /\ history[i].age \in Nat
  <2>1. \A i \in 1..n : history[i] \in Record
    BY <1>1
  <2> QED BY <2>1, Windows DEF Record
<1>7. \A q \in Providers : last'[q] = IF q \in {from, to} THEN 0 ELSE last[q]
  BY <1>2 DEF RecordTransition
<1>8. last' \in [Providers -> 0..Never]
  BY <1>2 DEF RecordTransition
<1>9. r.age = 0 /\ r.from = from /\ r.to = to /\ r.hard = hard
  OBVIOUS
<1> HIDE DEF r, n
<1>10. StampsAreRecent'
  <2> SUFFICES ASSUME NEW i \in 1..(n + 1), NEW q \in Providers, Involves(history'[i], q)
               PROVE  last'[q] <= history'[i].age
    BY <1>5 DEF StampsAreRecent, Involves
  <2>1. CASE i = n + 1
    BY <2>1, <1>5, <1>7, <1>9 DEF Involves
  <2>2. CASE i \in 1..n
    <3>1. last[q] <= history[i].age
      BY <2>2, <1>1, <1>5 DEF IInv, StampsAreRecent, Involves
    <3> QED BY <3>1, <2>2, <1>5, <1>6, <1>7
  <2> QED BY <2>1, <2>2, <1>1
<1>11. OldestFirst'
  <2> SUFFICES ASSUME NEW i \in 1..(n + 1), NEW j \in 1..(n + 1), i <= j
               PROVE  history'[i].age >= history'[j].age
    BY <1>5 DEF OldestFirst
  <2>1. CASE j \in 1..n
    BY <2>1, <1>1, <1>5 DEF IInv, OldestFirst
  <2>2. CASE j = n + 1
    BY <2>2, <1>1, <1>5, <1>6, <1>9
  <2> QED BY <2>1, <2>2, <1>1
<1>12. NoFlapping'
  <2> SUFFICES ASSUME NEW j \in 1..(n + 1), ~history'[j].hard
               PROVE  LET before == {i \in 1..(j - 1) : Involves(history'[i], history'[j].from)}
                      IN  /\ \A i \in before : history'[i].age - history'[j].age >= Hold
                          /\ Cardinality(before) < MaxPerHour
    BY <1>5 DEF NoFlapping, Involves
  <2>1. CASE j \in 1..n
    <3> DEFINE old == {i \in 1..(j - 1) : Involves(history[i], history[j].from)}
               new == {i \in 1..(j - 1) : Involves(history'[i], history'[j].from)}
    <3>1. \A i \in 1..(j - 1) : i \in 1..n
      BY <2>1, <1>1
    <3>2. new = old
      BY <3>1, <2>1, <1>5
    <3>3. /\ \A i \in old : history[i].age - history[j].age >= Hold
          /\ Cardinality(old) < MaxPerHour
      BY <2>1, <1>1, <1>5 DEF IInv, NoFlapping
    <3>4. \A i \in new : history'[i].age - history'[j].age >= Hold
      BY <2>1, <3>1, <3>2, <3>3, <1>5
    <3> QED BY <3>2, <3>3, <3>4
  <2>2. CASE j = n + 1
    <3> DEFINE old == {i \in DOMAIN history : Involves(history[i], from)}
               new == {i \in 1..(j - 1) : Involves(history'[i], history'[j].from)}
    <3>1. 1..(j - 1) = 1..n
      BY <2>2, <1>1
    <3>2. history'[j].from = from /\ history'[j].age = 0 /\ history'[j].hard = hard
      BY <2>2, <1>5, <1>9
    <3>3. new = old
      BY <3>1, <3>2, <1>1, <1>5
    <3>4. ~(RecentTransitions(from) >= MaxPerHour) /\ ~(last[from] < Hold)
      BY <3>2
    <3>5. RecentTransitions(from) \in Nat
      <4>1. IsFiniteSet(1..n)
        BY <1>1, FS_Interval
      <4>2. IsFiniteSet(old)
        BY <4>1, <1>1, FS_Subset
      <4> QED BY <4>2, FS_CardinalityType DEF RecentTransitions
    <3>6. Cardinality(new) < MaxPerHour
      <4>1. Cardinality(new) = RecentTransitions(from)
        BY <3>3 DEF RecentTransitions
      <4> QED BY <4>1, <3>4, <3>5, Windows
    <3>7. last[from] \in Nat
      BY <1>2
    <3>8. \A i \in old : last[from] <= history[i].age
      BY DEF IInv, StampsAreRecent
    <3>9. \A i \in new : history'[i].age - history'[j].age >= Hold
      BY <3>1, <3>2, <3>3, <3>4, <3>7, <3>8, <1>1, <1>5, <1>6, Windows
    <3> QED BY <3>6, <3>9
  <2> QED BY <2>1, <2>2, <1>1
<1>13. Len(history') <= MaxRecords
  BY <1>1, <1>5, Windows DEF n
<1> QED BY <1>5, <1>8, <1>10, <1>11, <1>12, <1>13

LEMMA DoneStep ==
    ASSUME IInv, NEW p \in Providers, NEW x \in Assessments, NEW degradation,
           FailoverDone(p, x, degradation)
    PROVE  IInv'
<1> DEFINE candidate == CHOOSE q \in Providers : q # p
           target == IF x.candidateIsBetter THEN candidate ELSE p
<1>1. target \in Providers
  BY OtherProvider
<1>2. /\ EvaluateTrigger(p, x, degradation) = "REQUEST_FAILOVER"
      /\ Len(history) < MaxRecords
      /\ machine' = Completed(Requested(machine), target)
      /\ RecordTransition(p, target, x.hard)
      /\ memory' = target
  BY DEF FailoverDone
<1> HIDE DEF target
<1>3. Requested(machine).state = "PRECHECK"
  BY RequestedIs DEF IInv, TypeOK
<1>4. machine' = [state |-> "STABLE_ON_ALTERNATE", active |-> target]
  BY <1>1, <1>2, <1>3, CompletedIs
<1>5. ~x.hard => ~(RecentTransitions(p) >= MaxPerHour) /\ ~(last[p] < Hold)
  BY <1>2, UnforcedHasWaited
<1>6. x.hard \in BOOLEAN
  BY HardIsBoolean
<1>7. /\ history' \in Seq(Record) /\ Len(history') <= MaxRecords
      /\ last' \in [Providers -> 0..Never]
      /\ (StampsAreRecent /\ OldestFirst /\ NoFlapping)'
  BY <1>1, <1>2, <1>5, <1>6, RecordStep
<1>8. TypeOK'
  BY <1>1, <1>2, <1>4, <1>7 DEF TypeOK, Record
<1>9. MachineFollowsRecords'
  BY <1>2, <1>4 DEF MachineFollowsRecords
<1> QED BY <1>7, <1>8, <1>9 DEF IInv

(* The records that leave the hour are the first ones.                     *)
LEMMA ForgottenAreFirst ==
    ASSUME IInv, NEW d \in Delays
    PROVE  LET forgotten == Cardinality({i \in DOMAIN history : history[i].age + d > Hour})
           IN  /\ forgotten \in Nat /\ forgotten <= Len(history)
               /\ \A i \in 1..Len(history) : i > forgotten => history[i].age + d <= Hour
<1> DEFINE n == Len(history)
           out == {i \in DOMAIN history : history[i].age + d > Hour}
           k == Cardinality(out)
<1>1. history \in Seq(Record) /\ n \in Nat /\ DOMAIN history = 1..n
  BY DEF IInv, TypeOK, Record
<1>2. \A i \in 1..n : history[i] \in Record /\ history[i].age \in Nat
  <2>1. \A i \in 1..n : history[i] \in Record
    BY <1>1
  <2> QED BY <2>1, Windows DEF Record
<1>3. IsFiniteSet(1..n) /\ Cardinality(1..n) = n
  BY <1>1, FS_Interval
<1>4. IsFiniteSet(out) /\ k <= n /\ k \in Nat
  BY <1>1, <1>3, FS_Subset, FS_CardinalityType
<1>5. ASSUME NEW i \in 1..n, i > k, history[i].age + d > Hour PROVE FALSE
  <2>1. \A j \in 1..i : j \in out
    <3> TAKE j \in 1..i
    <3>1. j \in 1..n /\ j <= i
      BY <1>1
    <3>2. history[j].age >= history[i].age
      BY <1>1, <3>1 DEF IInv, OldestFirst
    <3>3. history[j].age + d > Hour
      BY <1>2, <1>5, <3>1, <3>2, Windows
    <3> QED BY <1>1, <3>1, <3>3
  <2>2. IsFiniteSet(1..i) /\ Cardinality(1..i) = i
    BY FS_Interval
  <2>3. Cardinality(1..i) <= k
    BY <1>4, <2>1, FS_Subset
  <2> QED BY <1>4, <1>5, <2>2, <2>3
<1>6. \A i \in 1..n : i > k => history[i].age + d <= Hour
  BY <1>2, <1>5, Windows
<1> QED BY <1>4, <1>6

LEMMA ElapseStep ==
    ASSUME IInv, Elapse
    PROVE  IInv'
<1>1. PICK d \in Delays :
        LET forgotten == Cardinality({i \in DOMAIN history : history[i].age + d > Hour})
        IN  /\ history' = [i \in 1..(Len(history) - forgotten) |->
                              [history[i + forgotten] EXCEPT !.age = @ + d]]
            /\ last' = [p \in Providers |-> Older(last[p], d)]
            /\ UNCHANGED <<machine, memory>>
  BY DEF Elapse
<1> DEFINE n == Len(history)
           k == Cardinality({i \in DOMAIN history : history[i].age + d > Hour})
<1>2. history \in Seq(Record) /\ n \in Nat /\ DOMAIN history = 1..n /\ n <= MaxRecords
  BY DEF IInv, TypeOK, Record
<1>3. k \in Nat /\ k <= n /\ \A i \in 1..n : i > k => history[i].age + d <= Hour
  BY ForgottenAreFirst
<1>4. /\ history' = [i \in 1..(n - k) |-> [history[i + k] EXCEPT !.age = @ + d]]
      /\ last' = [p \in Providers |-> Older(last[p], d)]
      /\ UNCHANGED <<machine, memory>>
  BY <1>1
<1>5. d \in Nat
  BY Windows
<1> HIDE DEF n, k
<1>6. \A i \in 1..(n - k) : i + k \in 1..n /\ i + k > k
  BY <1>2, <1>3
<1>7. \A i \in 1..n : history[i] \in Record
  BY <1>2
<1>8. ASSUME NEW i \in 1..(n - k)
      PROVE  /\ history'[i] \in Record
             /\ history'[i].age = history[i + k].age + d
             /\ history'[i].from = history[i + k].from
             /\ history'[i].to = history[i + k].to
             /\ history'[i].hard = history[i + k].hard
  <2>1. history'[i] = [history[i + k] EXCEPT !.age = @ + d]
    BY <1>4
  <2>2. history[i + k] \in Record /\ history[i + k].age + d <= Hour
    BY <1>3, <1>6, <1>7
  <2> QED BY <2>1, <2>2, <1>5, Windows DEF Record
<1>9. /\ history' \in Seq(Record) /\ Len(history') = n - k /\ DOMAIN history' = 1..(n - k)
  <2>1. n - k \in Nat
    BY <1>2, <1>3
  <2>2. history' \in [1..(n - k) -> Record]
    BY <1>4, <1>8
  <2> QED BY <2>1, <2>2
<1>10. \A q \in Providers : last[q] \in 0..Never /\ last'[q] = Older(last[q], d)
  BY <1>4 DEF IInv, TypeOK
<1>11. \A q \in Providers :
        /\ last'[q] \in 0..Never
        /\ last'[q] = IF last[q] + d <= Never THEN last[q] + d ELSE Never
  BY <1>10, OlderIs
<1>12. TypeOK'
  <2>1. last' \in [Providers -> 0..Never]
    BY <1>4, <1>11
  <2> QED BY <2>1, <1>2, <1>3, <1>4, <1>9, Windows DEF IInv, TypeOK, Record
<1>13. StampsAreRecent'
  <2> SUFFICES ASSUME NEW i \in 1..(n - k), NEW q \in Providers, Involves(history'[i], q)
               PROVE  last'[q] <= history'[i].age
    BY <1>9 DEF StampsAreRecent, Involves
  <2>1. last[q] <= history[i + k].age
    BY <1>2, <1>6, <1>8 DEF IInv, StampsAreRecent, Involves
  <2>2. history[i + k].age \in Nat /\ history[i + k].age + d <= Hour
    BY <1>3, <1>6, <1>7, Windows DEF Record
  <2>3. last[q] \in Nat
    BY <1>10, Windows DEF Never
  <2> QED BY <2>1, <2>2, <2>3, <1>5, <1>8, <1>11, Windows DEF Never
<1>14. OldestFirst'
  <2> SUFFICES ASSUME NEW i \in 1..(n - k), NEW j \in 1..(n - k), i <= j
               PROVE  history'[i].age >= history'[j].age
    BY <1>9 DEF OldestFirst
  <2>1. history[i + k].age >= history[j + k].age
    BY <1>2, <1>3, <1>6 DEF IInv, OldestFirst
  <2>2. history[i + k].age \in Nat /\ history[j + k].age \in Nat
    BY <1>6, <1>7, Windows DEF Record
  <2> QED BY <2>1, <2>2, <1>5, <1>8
<1>15. NoFlapping'
  <2> SUFFICES ASSUME NEW j \in 1..(n - k), ~history'[j].hard
               PROVE  LET before == {i \in 1..(j - 1) : Involves(history'[i], history'[j].from)}
                      IN  /\ \A i \in before : history'[i].age - history'[j].age >= Hold
                          /\ Cardinality(before) < MaxPerHour
    BY <1>9 DEF NoFlapping, Involves
  <2>0. PICK h \in DOMAIN history : h = j + k
    BY <1>2, <1>6
  <2> DEFINE old == {i \in 1..(h - 1) : Involves(history[i], history[h].from)}
             new == {i \in 1..(j - 1) : Involves(history'[i], history'[j].from)}
  <2>1. h \in 1..n /\ ~history[h].hard
    BY <1>2, <1>8, <2>0
  <2>2. /\ \A i \in old : history[i].age - history[h].age >= Hold
        /\ Cardinality(old) < MaxPerHour
    BY <2>1 DEF IInv, NoFlapping
  <2>3. \A i \in 1..(j - 1) : i \in 1..(n - k) /\ i + k \in 1..(h - 1)
    BY <1>2, <1>3, <2>0
  <2>4. \A i \in new : i + k \in old
    BY <2>0, <2>3, <1>8 DEF Involves
  <2>5. \A i \in new : history'[i].age - history'[j].age >= Hold
    <3> TAKE i \in new
    <3>1. i \in 1..(n - k) /\ history[i + k].age - history[h].age >= Hold
      BY <2>2, <2>3, <2>4
    <3>2. history[i + k].age \in Nat /\ history[h].age \in Nat
      BY <3>1, <1>6, <1>7, <2>1, Windows DEF Record
    <3> QED BY <3>1, <3>2, <1>5, <1>8, <2>0, Windows
  <2>6. Cardinality(new) <= Cardinality(old)
    <3>1. IsFiniteSet(1..(h - 1))
      <4>1. h - 1 \in Int /\ j - 1 \in Int
        BY <1>2, <2>1
      <4> QED BY <4>1, FS_Interval
    <3>2. IsFiniteSet(old)
      BY <3>1, FS_Subset
    <3> DEFINE f == [i \in new |-> i + k]
    <3>3. f \in Injection(new, old)
      <4>1. f \in [new -> old]
        BY <2>4
      <4>2. \A a, b \in new : f[a] = f[b] => a = b
        BY <1>3
      <4> QED BY <4>1, <4>2 DEF Injection, IsInjective
    <3> HIDE DEF f, new, old
    <3>4. Cardinality(new) <= Cardinality(old)
      BY <3>2, <3>3, FS_Injection
    <3> QED BY <3>4
  <2>7. Cardinality(new) \in Nat /\ Cardinality(old) \in Nat
    <3>1. IsFiniteSet(1..(h - 1)) /\ IsFiniteSet(1..(j - 1))
      <4>1. h - 1 \in Int /\ j - 1 \in Int
        BY <1>2, <2>1
      <4> QED BY <4>1, FS_Interval
    <3>2. IsFiniteSet(old) /\ IsFiniteSet(new)
      BY <3>1, FS_Subset
    <3> QED BY <3>2, FS_CardinalityType
  <2> HIDE DEF old, new
  <2>8. Cardinality(new) < MaxPerHour
    BY <2>2, <2>6, <2>7, Windows
  <2> QED BY <2>5, <2>8 DEF new
<1>16. MachineFollowsRecords'
  BY <1>4 DEF IInv, MachineFollowsRecords
<1> QED BY <1>12, <1>13, <1>14, <1>15, <1>16 DEF IInv

LEMMA StepInvariant == IInv /\ [Next]_vars => IInv'
<1> SUFFICES ASSUME IInv, [Next]_vars PROVE IInv'
  OBVIOUS
<1>1. CASE UNCHANGED vars
  BY <1>1 DEF vars, IInv, TypeOK, StampsAreRecent, OldestFirst, NoFlapping,
              MachineFollowsRecords, Involves
<1>2. CASE Elapse
  BY <1>2, ElapseStep
<1>3. CASE Cycle
  <2>1. PICK p \in Providers, x \in Assessments, degradation \in Durations :
          \/ Watch(p, x, degradation)
          \/ FailoverNotDone(p, x, degradation)
          \/ FailoverDone(p, x, degradation)
    BY <1>3 DEF Cycle
  <2>2. CASE Watch(p, x, degradation)
    BY <2>2 DEF Watch, vars, IInv, TypeOK, StampsAreRecent, OldestFirst, NoFlapping,
                MachineFollowsRecords, Involves
  <2> QED BY <2>1, <2>2, NotDoneStep, DoneStep
<1> QED BY <1>1, <1>2, <1>3 DEF Next

(* The inductive invariant: types, the stamps and the order of the         *)
(* records, and the two properties.                                        *)
THEOREM Invariance == Spec => []IInv
BY InitInvariant, StepInvariant, PTL DEF Spec

(* Every variable holds a value of its kind.                               *)
THEOREM TypeCorrect == Spec => []TypeOK
<1>1. IInv => TypeOK
  BY DEF IInv
<1> QED BY Invariance, <1>1, PTL

(* However cycles name the providers, no unforced failover leaves one      *)
(* within the hold time or above the hourly limit.                         *)
THEOREM HysteresisHolds == Spec => []NoFlapping
<1>1. IInv => NoFlapping
  BY DEF IInv
<1> QED BY Invariance, <1>1, PTL

(* The state machine, whose table may refuse, and the transition memory    *)
(* name the same provider after every cycle.                               *)
THEOREM MachineAndMemoryAgree == Spec => []MachineFollowsRecords
<1>1. IInv => MachineFollowsRecords
  BY DEF IInv
<1> QED BY Invariance, <1>1, PTL

(* For all measurements and pasts, not only those of the checked grid: a   *)
(* provider the monitor calls HEALTHY is left alone.                       *)
THEOREM HealthyProviderIsLeftAlone == Spec => []HealthyIsLeftAlone
BY HealthyHolds, PTL

(* For all measurements and pasts: no cycle asks to leave the primary and  *)
(* to return to it.                                                        *)
THEOREM AdviceIsConsistent == Spec => []NoContradictoryAdvice
BY NoContradiction, PTL
=============================================================================
