---------------------------- MODULE CollectorProofs ----------------------------
(***************************************************************************)
(* What the collectors' switches promise for any collectors, threads,      *)
(* retries and number of attempts named at once.                           *)
(***************************************************************************)
EXTENDS CollectorScheduler, FiniteSetTheorems, TLAPS

SourceModes == {"SIMULATION", "LIVE", "HYBRID", "FAILOVER"}

Health == [state : CollectorState, enabled : BOOLEAN, failures : 0 .. FailedAfter, healthy : BOOLEAN]

(* The fields of the collectors and of the manager hold values of their    *)
(* kind.                                                                   *)
Kinds ==
    /\ health \in [Collectors -> Health]
    /\ mode \in SourceModes
    /\ failoverActive \in BOOLEAN
    /\ liveFailures \in 0 .. FailoverAfter
    /\ pending \subseteq Collectors

IInv == Kinds /\ EnabledMatchesMode /\ RunningIsCollecting

----------------------------------------------------------------------------
(* What the operations of one collector return.                            *)

LEMMA ModeEnablesType ==
    ASSUME NEW m \in SourceModes, NEW active \in BOOLEAN, NEW c
    PROVE  ModeEnables(m, active, c) \in BOOLEAN
<1>2. CASE m = "SIMULATION"
  BY <1>2 DEF ModeEnables
<1>3. CASE m = "LIVE"
  BY <1>3 DEF ModeEnables
<1>4. CASE m = "HYBRID"
  BY <1>4 DEF ModeEnables
<1>5. CASE m = "FAILOVER"
  <2>1. CASE active
    BY <1>5, <2>1 DEF ModeEnables
  <2>2. CASE ~active
    BY <1>5, <2>2 DEF ModeEnables
  <2> QED BY <2>1, <2>2
<1> QED BY <1>2, <1>3, <1>4, <1>5 DEF SourceModes

(* A switch never makes a collector RUNNING.                               *)
LEMMA SetEnabledFacts ==
    ASSUME NEW h \in Health, NEW enabled \in BOOLEAN
    PROVE  /\ SetEnabled(h, enabled) \in Health
           /\ SetEnabled(h, enabled).enabled = enabled
           /\ SetEnabled(h, enabled).state = "RUNNING" => h.state = "RUNNING"
BY DEF SetEnabled, Health, CollectorState

LEMMA NoneCounted == 0 \in 0 .. FailedAfter /\ 0 \in 0 .. FailoverAfter
BY ManagerAssumption

LEMMA CountedType ==
    ASSUME NEW k \in {FailedAfter, FailoverAfter}, NEW n \in 0 .. k
    PROVE  Counted(n, k) \in 0 .. k
BY ManagerAssumption DEF Counted

(* A result ends the RUNNING state and touches no switch.                  *)
LEMMA RecordFacts ==
    ASSUME NEW h \in Health, NEW g \in {RecordSuccess(h), RecordFailure(h)}
    PROVE  g \in Health /\ g.enabled = h.enabled /\ g.state # "RUNNING"
<1>1. Counted(h.failures, FailedAfter) \in 0 .. FailedAfter
  BY CountedType DEF Health
<1>2. CASE g = RecordSuccess(h)
  BY <1>2, NoneCounted DEF RecordSuccess, Health, CollectorState
<1>3. CASE g = RecordFailure(h)
  <2> DEFINE n == Counted(h.failures, FailedAfter)
  <2>1. (h.healthy /\ n < FailedAfter) \in BOOLEAN
    OBVIOUS
  <2>2. g = [h EXCEPT !.failures = n, !.healthy = h.healthy /\ n < FailedAfter,
                      !.state = IF n >= FailedAfter THEN "FAILED" ELSE "DEGRADED"]
    BY <1>3 DEF RecordFailure
  <2> HIDE DEF n
  <2> QED BY <2>1, <2>2, <1>1 DEF Health, CollectorState, n
<1> QED BY <1>2, <1>3

(* Two jobs are one only when they are of the same kind and collector.     *)
LEMMA JobsDiffer ==
    ASSUME NEW l, NEW m, NEW c, NEW d, NEW f, NEW g
    PROVE  /\ CollectJob(m, d, f) # TriggerJob(l, c)
           /\ CollectJob(m, d, f) = CollectJob(l, c, g) => m = l /\ d = c /\ f = g
           /\ TriggerJob(m, d) = TriggerJob(l, c) => m = l /\ d = c
<1>1. CollectJob(m, d, f).kind # TriggerJob(l, c).kind
  BY DEF CollectJob, TriggerJob
<1>2. CollectJob(m, d, f).of = d /\ CollectJob(l, c, g).of = c
  BY DEF CollectJob
<1>3. CollectJob(m, d, f).future = f /\ CollectJob(l, c, g).future = g
  BY DEF CollectJob
<1>4. CollectJob(m, d, f).loop = m /\ CollectJob(l, c, g).loop = l
  BY DEF CollectJob
<1>5. TriggerJob(m, d).of = d /\ TriggerJob(l, c).of = c /\ TriggerJob(m, d).loop = m /\ TriggerJob(l, c).loop = l
  BY DEF TriggerJob
<1> QED BY <1>1, <1>2, <1>3, <1>4, <1>5

----------------------------------------------------------------------------
(* A step keeps the invariant when it keeps switches and mode together and *)
(* starts and ends the RUNNING state with the collections.                 *)

(* A switch begins: it has every collector still to reach.                 *)
LEMMA SwitchBegins ==
    ASSUME IInv, mode' \in SourceModes, failoverActive' \in BOOLEAN, liveFailures' \in 0 .. FailoverAfter,
           pending' = Collectors, UNCHANGED health,
           \A m \in Loops, c \in Collectors, f \in Futures :
               CollectJob(m, c, f) \in working => CollectJob(m, c, f) \in working'
    PROVE  IInv'
BY DEF IInv, Kinds, EnabledMatchesMode, RunningIsCollecting

(* A switch reaches one collector.                                         *)
LEMMA SwitchStep ==
    ASSUME IInv, NEW c \in Collectors, SwitchCollector(c)
    PROVE  IInv'
<1> DEFINE e == ModeEnables(mode, failoverActive, c)
           h == SetEnabled(health[c], e)
<1>1. /\ health' = [health EXCEPT ![c] = h] /\ pending' = pending \ {c}
      /\ UNCHANGED <<mode, failoverActive, liveFailures, working>>
  BY DEF SwitchCollector, ApplyModeTo
<1>2. e \in BOOLEAN /\ health[c] \in Health
  BY ModeEnablesType DEF IInv, Kinds
<1>3. h \in Health /\ h.enabled = e /\ (h.state = "RUNNING" => health[c].state = "RUNNING")
  BY <1>2, SetEnabledFacts
<1> HIDE DEF h
<1>4. \A d \in Collectors : health'[d] = IF d = c THEN h ELSE health[d]
  BY <1>1 DEF IInv, Kinds
<1>5. Kinds'
  BY <1>1, <1>3 DEF IInv, Kinds
<1>6. EnabledMatchesMode'
  BY <1>1, <1>3, <1>4 DEF IInv, EnabledMatchesMode
<1>7. RunningIsCollecting'
  BY <1>1, <1>3, <1>4 DEF IInv, RunningIsCollecting
<1> QED BY <1>5, <1>6, <1>7 DEF IInv

(* The record of one collector is changed outside the switches.            *)
LEMMA OneCollectorStep ==
    ASSUME IInv, NEW c \in Collectors, NEW h \in Health,
           h.enabled = health[c].enabled,
           h.state = "RUNNING" => \E m \in Loops, f \in Futures : CollectJob(m, c, f) \in working',
           health' = [health EXCEPT ![c] = h],
           mode' = mode, failoverActive' = failoverActive, liveFailures' = liveFailures, pending' = pending,
           \A m \in Loops, d \in Collectors \ {c}, f \in Futures :
               CollectJob(m, d, f) \in working => CollectJob(m, d, f) \in working'
    PROVE  IInv'
<1>1. Kinds'
  BY DEF IInv, Kinds
<1>2. \A d \in Collectors : health'[d] = IF d = c THEN h ELSE health[d]
  BY DEF IInv, Kinds
<1>3. EnabledMatchesMode'
  BY <1>2 DEF IInv, EnabledMatchesMode
<1>4. RunningIsCollecting'
  BY <1>2 DEF IInv, RunningIsCollecting
<1> QED BY <1>1, <1>3, <1>4 DEF IInv

(* Nothing but threads, triggers and the queue changes.                    *)
LEMMA QuietStep ==
    ASSUME IInv, UNCHANGED <<health, mode, failoverActive, pending>>, liveFailures' \in 0 .. FailoverAfter,
           \A m \in Loops, c \in Collectors, f \in Futures :
               CollectJob(m, c, f) \in working => CollectJob(m, c, f) \in working'
    PROVE  IInv'
BY DEF IInv, Kinds, EnabledMatchesMode, RunningIsCollecting

(* Triggers come and go; collections stay.                                 *)
LEMMA TriggersOnly ==
    ASSUME NEW l, NEW c, NEW w,
           w \in {working, working \ {TriggerJob(l, c)}, working \cup {TriggerJob(l, c)}},
           NEW m, NEW d, NEW f, CollectJob(m, d, f) \in working
    PROVE  CollectJob(m, d, f) \in w
BY JobsDiffer

----------------------------------------------------------------------------
LEMMA InitInvariant == Init => IInv
<1> SUFFICES ASSUME Init PROVE IInv
  OBVIOUS
<1>1. InitialMode \in SourceModes
  BY ManagerAssumption DEF SourceModes
<1>2. \A c \in Collectors : ModeEnables(InitialMode, FALSE, c) \in BOOLEAN
  BY <1>1, ModeEnablesType
<1>3. /\ mode = InitialMode /\ failoverActive = FALSE /\ liveFailures = 0 /\ pending = {}
      /\ health = [c \in Collectors |->
                    [state |-> "READY", enabled |-> ModeEnables(InitialMode, FALSE, c),
                     failures |-> 0, healthy |-> TRUE]]
  BY DEF Init, ManagerInit
<1>4. Kinds
  BY NoneCounted, <1>1, <1>2, <1>3 DEF Kinds, Health, CollectorState
<1>5. EnabledMatchesMode
  BY <1>3 DEF EnabledMatchesMode
<1>6. RunningIsCollecting
  BY <1>3 DEF RunningIsCollecting
<1> QED BY <1>4, <1>5, <1>6 DEF IInv

LEMMA CallbackStep ==
    ASSUME IInv, NEW l \in Loops, NEW c \in Collectors,
           AttemptReturned(l, c) \/ CallbackReturns(l, c)
    PROVE  IInv'
<1>1. \A m \in Loops, d \in Collectors, f \in Futures :
        CollectJob(m, d, f) \in working => CollectJob(m, d, f) \in working'
  BY TriggersOnly DEF AttemptReturned, CallbackReturns, TriggerReturns
<1>2. liveFailures' \in {0, liveFailures} /\ UNCHANGED <<health, mode, failoverActive, pending>>
  BY DEF AttemptReturned, CallbackReturns, managerVars
<1>3. liveFailures' \in 0 .. FailoverAfter
  BY NoneCounted, <1>2 DEF IInv, Kinds
<1> QED BY <1>1, <1>2, <1>3, QuietStep

(* The callback may fail over to the simulation: then a switch begins.     *)
LEMMA CountStep ==
    ASSUME IInv, NEW l \in Loops, NEW c \in Collectors, CallbackCounts(l, c)
    PROVE  IInv'
<1>1. \A m \in Loops, d \in Collectors, f \in Futures :
        CollectJob(m, d, f) \in working => CollectJob(m, d, f) \in working'
  BY TriggersOnly DEF CallbackCounts, TriggerReturns
<1> DEFINE n == Counted(liveFailures, FailoverAfter)
<1>2. n \in 0 .. FailoverAfter
  BY CountedType DEF IInv, Kinds
<1> HIDE DEF n
<1>3. /\ liveFailures' = n /\ failoverActive' = (failoverActive \/ FailoverDue)
      /\ pending' = IF FailoverDue THEN Collectors ELSE pending
      /\ UNCHANGED <<health, mode>>
  BY DEF CallbackCounts, CheckAndHandleLiveFailures, n
<1>4. mode \in SourceModes /\ failoverActive \in BOOLEAN
  BY DEF IInv, Kinds
<1>5. CASE FailoverDue
  <2>1. failoverActive' = TRUE /\ pending' = Collectors
    BY <1>3, <1>5
  <2> QED BY <2>1, <1>1, <1>2, <1>3, <1>4, SwitchBegins
<1>6. CASE ~FailoverDue
  <2>1. UNCHANGED <<health, mode, failoverActive, pending>>
    BY <1>3, <1>4, <1>6, Zenon
  <2> QED BY <2>1, <1>1, <1>2, <1>3, QuietStep
<1> QED BY <1>5, <1>6

LEMMA TimeoutStep ==
    ASSUME IInv, NEW l \in Loops, NEW c \in Collectors, AttemptTimedOut(l, c)
    PROVE  IInv'
<1>1. \A m \in Loops, d \in Collectors, f \in Futures :
        CollectJob(m, d, f) \in working => CollectJob(m, d, f) \in working'
  BY TriggersOnly DEF AttemptTimedOut, GiveUpOrSleep, TriggerReturns
<1> DEFINE h == RecordFailure(health[c])
<1>2. h \in Health /\ h.enabled = health[c].enabled /\ h.state # "RUNNING"
  BY RecordFacts DEF IInv, Kinds
<1>3. health' = [health EXCEPT ![c] = h] /\ UNCHANGED <<mode, failoverActive, liveFailures, pending>>
  BY DEF AttemptTimedOut
<1> HIDE DEF h
<1> QED BY <1>1, <1>2, <1>3, OneCollectorStep

LEMMA StartCollectionStep ==
    ASSUME IInv, NEW l \in Loops, NEW c \in Collectors, NEW f \in Futures, StartCollection(l, c, f)
    PROVE  IInv'
<1>1. CASE health[c].enabled
  <2> DEFINE h == [health[c] EXCEPT !.state = "RUNNING"]
  <2>1. h \in Health /\ h.enabled = health[c].enabled
    BY DEF IInv, Kinds, Health, CollectorState
  <2>2. /\ health' = [health EXCEPT ![c] = h]
        /\ working' = working \cup {CollectJob(l, c, f)}
        /\ UNCHANGED <<mode, failoverActive, liveFailures, pending>>
    BY <1>1 DEF StartCollection
  <2>3. CollectJob(l, c, f) \in working'
    BY <2>2
  <2> HIDE DEF h
  <2> QED BY <2>1, <2>2, <2>3, OneCollectorStep
<1>2. CASE ~health[c].enabled
  BY <1>2, QuietStep DEF StartCollection, IInv, Kinds
<1> QED BY <1>1, <1>2

LEMMA CollectionEndsStep ==
    ASSUME IInv, NEW l \in Loops, NEW c \in Collectors, NEW f \in Futures, CollectionEnds(l, c, f)
    PROVE  IInv'
<1>1. PICK h \in {RecordSuccess(health[c]), RecordFailure(health[c])} :
        health' = [health EXCEPT ![c] = h]
  BY DEF CollectionEnds
<1>2. h \in Health /\ h.enabled = health[c].enabled /\ h.state # "RUNNING"
  BY RecordFacts DEF IInv, Kinds
<1>3. \A m \in Loops, d \in Collectors \ {c}, g \in Futures :
        CollectJob(m, d, g) \in working => CollectJob(m, d, g) \in working'
  BY JobsDiffer DEF CollectionEnds
<1>4. UNCHANGED <<mode, failoverActive, liveFailures, pending>>
  BY DEF CollectionEnds
<1> QED BY <1>1, <1>2, <1>3, <1>4, OneCollectorStep

LEMMA StepInvariant == IInv /\ [Next]_vars => IInv'
<1> SUFFICES ASSUME IInv, [Next]_vars PROVE IInv'
  OBVIOUS
<1> USE DEF managerVars
<1>0. liveFailures \in 0 .. FailoverAfter
  BY DEF IInv, Kinds
<1>1. ASSUME NEW l \in Loops, Start(l) \/ LoopStep(l)
      PROVE  IInv'
  BY <1>0, <1>1, QuietStep DEF Start, LoopStep, LoopEnds, BeginCycle, EndCycle
<1>2. CASE Stop
  BY <1>0, <1>2, QuietStep DEF Stop
<1>3. CASE ChangeMode
  <2>1. PICK m \in Modes : SetSourceMode(m)
    BY <1>3 DEF ChangeMode
  <2>2. /\ mode' = m /\ failoverActive' = FALSE /\ liveFailures' = 0 /\ pending' = Collectors
        /\ UNCHANGED <<health, working>>
    BY <1>3, <2>1 DEF SetSourceMode, ChangeMode
  <2>3. m \in SourceModes
    BY ManagerAssumption DEF SourceModes
  <2> QED BY NoneCounted, <2>2, <2>3, SwitchBegins
<1>4. CASE PoolTakes
  <2>1. ASSUME NEW l \in Loops, NEW c \in Collectors, StartTrigger(l, c)
        PROVE  IInv'
    BY <1>0, <2>1, TriggersOnly, QuietStep DEF StartTrigger, TriggerReturns
  <2> QED BY <1>4, <2>1, StartCollectionStep DEF PoolTakes
<1>5. ASSUME NEW c \in Collectors, NEW l \in Loops, TriggerStep(l, c)
      PROVE  IInv'
  <2>1. CASE LookAgain(l, c) \/ SubmitNext(l, c) \/ WakeUp(l, c)
    BY <1>0, <2>1, QuietStep DEF LookAgain, SubmitNext, WakeUp
  <2>2. CASE AttemptRaised(l, c)
    BY <1>0, <2>2, TriggersOnly, QuietStep DEF AttemptRaised, GiveUpOrSleep, TriggerReturns
  <2> QED BY <1>5, <2>1, <2>2, CallbackStep, CountStep, TimeoutStep DEF TriggerStep
<1>6. CASE UNCHANGED vars
  BY <1>0, <1>6, QuietStep DEF vars
<1> QED BY <1>1, <1>2, <1>3, <1>4, <1>5, <1>6, SwitchStep, CollectionEndsStep DEF Next

(* The inductive invariant: the switches are those of the mode, and the    *)
(* RUNNING state comes and goes with the collections.                      *)
THEOREM Invariance == Spec => []IInv
BY InitInvariant, StepInvariant, PTL DEF Spec

(* However modes are switched, by operators or by the failover, every      *)
(* collector that the latest switch has reached is enabled exactly when    *)
(* the mode in force lets it work: no switch runs into another.            *)
THEOREM SwitchesMatchMode == Spec => []EnabledMatchesMode
<1>1. IInv => EnabledMatchesMode
  BY DEF IInv
<1> QED BY Invariance, <1>1, PTL

(* A collector shown as RUNNING has a collection on a thread of the pool,  *)
(* whatever results came late and whatever was switched or timed out.      *)
THEOREM RunningCollects == Spec => []RunningIsCollecting
<1>1. IInv => RunningIsCollecting
  BY DEF IInv
<1> QED BY Invariance, <1>1, PTL

(* A collection starts on a collector that the mode in force keeps still   *)
(* only while the switch to that mode has not reached the collector: the   *)
(* second look at its switch, on the pool's thread, is what makes it so.   *)
THEOREM ModeGovernsCollections == Spec => OnlyTheModeCollects
<1> DEFINE A == \A l \in Loops, c \in Collectors, f \in Futures :
                    CollectJob(l, c, f) \in working' \ working =>
                        ModeEnables(mode, failoverActive, c) \/ c \in pending
<1>1. ASSUME IInv, [Next]_vars PROVE [A]_vars
  <2> SUFFICES ASSUME NEW n \in Loops, NEW c \in Collectors, NEW f \in Futures,
                      CollectJob(n, c, f) \in working', CollectJob(n, c, f) \notin working
               PROVE  ModeEnables(mode, failoverActive, c) \/ c \in pending
    OBVIOUS
  <2>1. PICK m \in Loops, d \in Collectors, g \in Futures :
          StartCollection(m, d, g) /\ working' = working \cup {CollectJob(m, d, g)} /\ health[d].enabled
    <3>1. ASSUME working' \subseteq working PROVE FALSE
      BY <3>1
    <3>2. ASSUME NEW l, NEW d, working' \subseteq working \cup {TriggerJob(l, d)} PROVE FALSE
      BY <3>2, JobsDiffer
    <3>3. CASE \E l \in Loops : Start(l) \/ LoopStep(l)
      BY <3>1, <3>3 DEF Start, LoopStep, LoopEnds, BeginCycle, EndCycle
    <3>4. CASE Stop \/ ChangeMode \/ UNCHANGED vars \/ \E d \in Collectors : SwitchCollector(d)
      BY <3>1, <3>4 DEF Stop, ChangeMode, SwitchCollector, vars
    <3>5. ASSUME NEW d \in Collectors, NEW l \in Loops, StartTrigger(l, d) \/ TriggerStep(l, d)
          PROVE  FALSE
      BY <3>2, <3>5 DEF StartTrigger, TriggerStep, LookAgain, SubmitNext, AttemptReturned,
            CallbackCounts, CallbackReturns, AttemptRaised, AttemptTimedOut, WakeUp,
            GiveUpOrSleep, TriggerReturns, managerVars
    <3>6. ASSUME NEW m \in Loops, NEW d \in Collectors, NEW g \in Futures, CollectionEnds(m, d, g) PROVE FALSE
      BY <3>1, <3>6 DEF CollectionEnds
    <3>7. CASE \E m \in Loops, d \in Collectors, g \in Futures : StartCollection(m, d, g)
      BY <3>1, <3>7 DEF StartCollection
    <3> QED BY <1>1, <3>3, <3>4, <3>5, <3>6, <3>7 DEF Next, PoolTakes
  <2>2. c = d
    BY <2>1, JobsDiffer
  <2> QED BY <1>1, <2>1, <2>2 DEF IInv, EnabledMatchesMode
<1>2. IInv /\ [Next]_vars => [A]_vars
  BY <1>1
<1>3. Spec => [][A]_vars
  BY Invariance, <1>2, PTL DEF Spec
<1> QED BY <1>3 DEF OnlyTheModeCollects

----------------------------------------------------------------------------
(* The pool: its queue, its threads and the attempts of each trigger.      *)

Jobs == {TriggerJob(l, c) : l \in Loops, c \in Collectors}
        \cup {CollectJob(l, c, f) : l \in Loops, c \in Collectors, f \in Futures}

HasTrigger(q, l, c) == \E i \in DOMAIN q : q[i] = TriggerJob(l, c)
Waiting(q, l, c) == {f \in Futures : \E i \in DOMAIN q : q[i] = CollectJob(l, c, f)}

(* Behind a trigger there is neither the same one nor an attempt of it.    *)
LinedUp(q) ==
    \A l \in Loops, c \in Collectors : \A i, j \in DOMAIN q :
        q[i] = TriggerJob(l, c) /\ i < j =>
            q[j] # TriggerJob(l, c) /\ \A f \in Futures : q[j] # CollectJob(l, c, f)

LEMMA TailLinedUp ==
    ASSUME NEW q \in Seq(Jobs), q # <<>>, LinedUp(q)
    PROVE  /\ Tail(q) \in Seq(Jobs) /\ LinedUp(Tail(q))
           /\ \A l \in Loops, c \in Collectors :
                /\ Waiting(Tail(q), l, c) \subseteq Waiting(q, l, c)
                /\ HasTrigger(Tail(q), l, c) => HasTrigger(q, l, c)
                /\ Head(q) = TriggerJob(l, c) =>
                      HasTrigger(q, l, c) /\ ~HasTrigger(Tail(q), l, c) /\ Waiting(q, l, c) = {}
<1>1. /\ Tail(q) \in Seq(Jobs) /\ Len(q) \in Nat /\ Len(q) > 0
      /\ DOMAIN q = 1 .. Len(q) /\ DOMAIN Tail(q) = 1 .. Len(q) - 1
      /\ \A i \in DOMAIN Tail(q) : i + 1 \in DOMAIN q /\ Tail(q)[i] = q[i + 1]
      /\ 1 \in DOMAIN q /\ Head(q) = q[1]
  OBVIOUS
<1> DEFINE p == Tail(q)
<1> HIDE DEF p
<1>2. /\ p \in Seq(Jobs) /\ DOMAIN p = 1 .. Len(q) - 1
      /\ \A i \in DOMAIN p : i + 1 \in DOMAIN q /\ p[i] = q[i + 1]
  BY <1>1 DEF p
<1>3. LinedUp(p)
  <2> SUFFICES ASSUME NEW l \in Loops, NEW c \in Collectors, NEW i \in DOMAIN p, NEW j \in DOMAIN p,
                      p[i] = TriggerJob(l, c), i < j
               PROVE  p[j] # TriggerJob(l, c) /\ \A f \in Futures : p[j] # CollectJob(l, c, f)
    BY DEF LinedUp
  <2>1. i + 1 < j + 1 /\ i + 1 \in DOMAIN q /\ j + 1 \in DOMAIN q /\ p[i] = q[i + 1] /\ p[j] = q[j + 1]
    BY <1>1, <1>2
  <2> QED BY <2>1 DEF LinedUp
<1>4. ASSUME NEW l \in Loops, NEW c \in Collectors
      PROVE  /\ Waiting(p, l, c) \subseteq Waiting(q, l, c)
             /\ HasTrigger(p, l, c) => HasTrigger(q, l, c)
             /\ Head(q) = TriggerJob(l, c) =>
                      HasTrigger(q, l, c) /\ ~HasTrigger(p, l, c) /\ Waiting(q, l, c) = {}
  <2>1. Waiting(p, l, c) \subseteq Waiting(q, l, c)
    BY <1>2 DEF Waiting
  <2>2. HasTrigger(p, l, c) => HasTrigger(q, l, c)
    BY <1>2 DEF HasTrigger
  <2>3. ASSUME Head(q) = TriggerJob(l, c)
        PROVE  HasTrigger(q, l, c) /\ ~HasTrigger(p, l, c) /\ Waiting(q, l, c) = {}
    <3>1. q[1] = TriggerJob(l, c) /\ HasTrigger(q, l, c)
      BY <1>1, <2>3 DEF HasTrigger
    <3>2. \A j \in DOMAIN q : 1 < j => q[j] # TriggerJob(l, c) /\ \A f \in Futures : q[j] # CollectJob(l, c, f)
      BY <1>1, <3>1 DEF LinedUp
    <3>3. \A i \in DOMAIN p : 1 < i + 1
      BY <1>1, <1>2
    <3>4. ~HasTrigger(p, l, c)
      BY <1>2, <3>2, <3>3 DEF HasTrigger
    <3>5. \A j \in DOMAIN q : \A f \in Futures : q[j] # CollectJob(l, c, f)
      <4>1. \A j \in DOMAIN q : j = 1 \/ 1 < j
        BY <1>1
      <4> QED BY <3>1, <3>2, <4>1, JobsDiffer
    <3> QED BY <3>1, <3>4, <3>5 DEF Waiting
  <2> QED BY <2>1, <2>2, <2>3
<1> QED BY <1>1, <1>3, <1>4 DEF p

LEMMA AppendLinedUp ==
    ASSUME NEW q \in Seq(Jobs), LinedUp(q), NEW l \in Loops, NEW c \in Collectors, NEW f \in Futures,
           ~HasTrigger(q, l, c)
    PROVE  LET p == Append(q, CollectJob(l, c, f)) IN
           /\ p \in Seq(Jobs) /\ LinedUp(p)
           /\ \A m \in Loops, d \in Collectors :
                /\ HasTrigger(p, m, d) => HasTrigger(q, m, d)
                /\ Waiting(p, m, d) = IF m = l /\ d = c THEN Waiting(q, m, d) \cup {f} ELSE Waiting(q, m, d)
<1> DEFINE e == CollectJob(l, c, f)
           p == Append(q, e)
           n == Len(q) + 1
<1>1. e \in Jobs
  BY DEF Jobs
<1> HIDE DEF e
<1>0. n > 0
  OBVIOUS
<1>2. /\ p \in Seq(Jobs) /\ n \in Nat /\ DOMAIN q = 1 .. n - 1 /\ DOMAIN p = 1 .. n
      /\ p[n] = e /\ \A i \in DOMAIN q : p[i] = q[i] /\ i < n
  BY <1>1
<1> HIDE DEF p, n
<1>3. n \in DOMAIN p /\ DOMAIN q \subseteq DOMAIN p /\ \A i \in DOMAIN p : i = n \/ (i \in DOMAIN q /\ p[i] = q[i] /\ i < n)
  <2>1. n > 0 /\ \A i \in 1 .. n : i = n \/ i \in 1 .. n - 1
    BY <1>2, <1>0
  <2>2. 1 .. n - 1 \subseteq 1 .. n /\ n \in 1 .. n
    BY <1>2, <2>1
  <2> QED BY <1>2, <2>1, <2>2
<1>4. \A m, d, g : e # TriggerJob(m, d) /\ (e = CollectJob(m, d, g) <=> m = l /\ d = c /\ g = f)
  BY JobsDiffer DEF e
<1>5. LinedUp(p)
  <2> SUFFICES ASSUME NEW m \in Loops, NEW d \in Collectors, NEW i \in DOMAIN p, NEW j \in DOMAIN p,
                      p[i] = TriggerJob(m, d), i < j
               PROVE  p[j] # TriggerJob(m, d) /\ \A g \in Futures : p[j] # CollectJob(m, d, g)
    BY DEF LinedUp
  <2>1. i \in DOMAIN q /\ q[i] = TriggerJob(m, d) /\ i # n
    BY <1>2, <1>3, <1>4
  <2>2. CASE j = n
    <3>1. HasTrigger(q, m, d)
      BY <2>1 DEF HasTrigger
    <3>2. m # l \/ d # c
      BY <3>1
    <3>3. \A g \in Futures : e # CollectJob(m, d, g)
      BY <1>4, <3>2
    <3> QED BY <1>2, <1>4, <2>2, <3>3
  <2>3. CASE j \in DOMAIN q /\ p[j] = q[j]
    BY <2>1, <2>3 DEF LinedUp
  <2> QED BY <1>3, <2>2, <2>3
<1>6. ASSUME NEW m \in Loops, NEW d \in Collectors
      PROVE  /\ HasTrigger(p, m, d) => HasTrigger(q, m, d)
             /\ Waiting(p, m, d) = IF m = l /\ d = c THEN Waiting(q, m, d) \cup {f} ELSE Waiting(q, m, d)
  <2>1. HasTrigger(p, m, d) => HasTrigger(q, m, d)
    BY <1>2, <1>3, <1>4 DEF HasTrigger
  <2>2. \A g \in Futures : g \in Waiting(p, m, d) <=> g \in Waiting(q, m, d) \/ (m = l /\ d = c /\ g = f)
    BY <1>2, <1>3, <1>4 DEF Waiting
  <2>3. Waiting(p, m, d) \subseteq Futures /\ Waiting(q, m, d) \subseteq Futures
    BY DEF Waiting
  <2> QED BY <2>1, <2>2, <2>3
<1> QED BY <1>2, <1>5, <1>6 DEF p, e

LEMMA AppendTriggerLinedUp ==
    ASSUME NEW q \in Seq(Jobs), LinedUp(q), NEW l \in Loops, NEW c \in Collectors,
           ~HasTrigger(q, l, c), NEW p, p = Append(q, TriggerJob(l, c))
    PROVE  /\ p \in Seq(Jobs) /\ LinedUp(p)
           /\ \A m \in Loops, d \in Collectors :
                /\ m # l \/ d # c => (HasTrigger(p, m, d) => HasTrigger(q, m, d))
                /\ Waiting(p, m, d) \subseteq Waiting(q, m, d)
<1> DEFINE e == TriggerJob(l, c)
           n == Len(q) + 1
<1>1. e \in Jobs
  BY DEF Jobs
<1> HIDE DEF e
<1>2. /\ p \in Seq(Jobs) /\ n \in Nat /\ DOMAIN q = 1 .. n - 1 /\ DOMAIN p = 1 .. n
      /\ p[n] = e /\ \A i \in DOMAIN q : p[i] = q[i] /\ i < n
  <2>1. p = Append(q, e)
    BY DEF e
  <2> QED BY <1>1, <2>1
<1>0. n > 0
  OBVIOUS
<1> HIDE DEF n
<1>3. \A i \in DOMAIN p : i = n \/ (i \in DOMAIN q /\ p[i] = q[i] /\ i < n)
  <2>1. \A i \in 1 .. n : i = n \/ i \in 1 .. n - 1
    BY <1>2, <1>0
  <2> QED BY <1>2, <2>1
<1>4. \A m, d, g : e # CollectJob(m, d, g) /\ (e = TriggerJob(m, d) => m = l /\ d = c)
  BY JobsDiffer DEF e
<1>5. LinedUp(p)
  <2> SUFFICES ASSUME NEW m \in Loops, NEW d \in Collectors, NEW i \in DOMAIN p, NEW j \in DOMAIN p,
                      p[i] = TriggerJob(m, d), i < j
               PROVE  p[j] # TriggerJob(m, d) /\ \A g \in Futures : p[j] # CollectJob(m, d, g)
    BY DEF LinedUp
  <2>1. i \in DOMAIN q /\ q[i] = TriggerJob(m, d)
    <3>1. i # n
      BY <1>2, <1>3
    <3> QED BY <1>3, <3>1
  <2>2. CASE j = n
    <3>1. HasTrigger(q, m, d)
      BY <2>1 DEF HasTrigger
    <3>2. e # TriggerJob(m, d)
      BY <1>4, <3>1
    <3> QED BY <1>2, <1>4, <2>2, <3>2
  <2>3. CASE j \in DOMAIN q /\ p[j] = q[j]
    BY <2>1, <2>3 DEF LinedUp
  <2> QED BY <1>3, <2>2, <2>3
<1>6. ASSUME NEW m \in Loops, NEW d \in Collectors
      PROVE  /\ m # l \/ d # c => (HasTrigger(p, m, d) => HasTrigger(q, m, d))
             /\ Waiting(p, m, d) \subseteq Waiting(q, m, d)
  <2>1. m # l \/ d # c => (HasTrigger(p, m, d) => HasTrigger(q, m, d))
    BY <1>2, <1>3, <1>4 DEF HasTrigger
  <2>2. \A g \in Futures : g \in Waiting(p, m, d) => g \in Waiting(q, m, d)
    BY <1>2, <1>3, <1>4 DEF Waiting
  <2> QED BY <2>1, <2>2 DEF Waiting
<1> QED BY <1>2, <1>5, <1>6

(* The stages in which a trigger has made no attempt.                      *)
Idle == {"none", "listed", "due", "queued"}

(* The stages in which a trigger holds a result or handles it.             *)
Answered == {"packets", "empty", "raised", "counting", "switching"}

Trigger == [stage : Idle \cup Answered \cup {"waiting", "asleep"},
            attempt : 0 .. MaxRetries + 1, future : Futures \cup {0}]

PoolKinds ==
    /\ queue \in Seq(Jobs)
    /\ IsFiniteSet(working) /\ Cardinality(working) <= MaxWorkers
    /\ loop \in [Loops -> {"dead", "between", "cycle"}]
    /\ trigger \in [Loops -> [Collectors -> Trigger]]

(* A trigger in the stage t of a loop in the state at, of which n attempts *)
(* wait in the queue and which itself waits there or not.                  *)
Fits(t, at, n, inLine) ==
    /\ t.stage \in Idle => t.attempt = 0 /\ t.future = 0
    /\ t.stage = "asleep" => t.attempt <= MaxRetries /\ t.future = 0
    /\ at # "cycle" => t.stage = "none"
    /\ inLine => t.stage = "queued"
    /\ n <= IF t.stage \in Idle THEN MaxRetries + 1 ELSE t.attempt

Tries(l, c) ==
    Fits(trigger[l][c], loop[l], Cardinality(Waiting(queue, l, c)), HasTrigger(queue, l, c))

Pool == PoolKinds /\ LinedUp(queue) /\ \A l \in Loops, c \in Collectors : Tries(l, c)

LEMMA WaitingFacts ==
    ASSUME NEW p, NEW q, NEW l, NEW c
    PROVE  /\ IsFiniteSet(Waiting(p, l, c)) /\ Cardinality(Waiting(p, l, c)) \in Nat
           /\ Waiting(q, l, c) \subseteq Waiting(p, l, c) =>
                 Cardinality(Waiting(q, l, c)) <= Cardinality(Waiting(p, l, c))
           /\ \A f \in Futures : Waiting(q, l, c) = Waiting(p, l, c) \cup {f} =>
                 Cardinality(Waiting(q, l, c)) <= Cardinality(Waiting(p, l, c)) + 1
<1>1. IsFiniteSet(Futures) /\ Waiting(p, l, c) \subseteq Futures /\ Waiting(q, l, c) \subseteq Futures
  BY FuturesAssumption DEF Waiting
<1>2. IsFiniteSet(Waiting(p, l, c)) /\ IsFiniteSet(Waiting(q, l, c))
  BY <1>1, FS_Subset
<1>3. Cardinality(Waiting(p, l, c)) \in Nat
  BY <1>2, FS_CardinalityType
<1> QED BY <1>2, <1>3, FS_Subset, FS_AddElement

LEMMA WorkingFacts ==
    ASSUME Pool, NEW j, NEW w,
           w = working \/ w = working \ {j} \/ (w = working \cup {j} /\ Cardinality(working) < MaxWorkers)
    PROVE  IsFiniteSet(w) /\ Cardinality(w) <= MaxWorkers
<1>1. IsFiniteSet(working) /\ Cardinality(working) <= MaxWorkers /\ Cardinality(working) \in Nat
  BY FS_CardinalityType DEF Pool, PoolKinds
<1>2. MaxWorkers \in Nat
  BY SchedulerAssumption
<1>3. CASE w = working \ {j}
  BY <1>1, <1>2, <1>3, FS_Subset, FS_CardinalityType
<1>4. CASE w = working \cup {j} /\ Cardinality(working) < MaxWorkers
  BY <1>1, <1>2, <1>4, FS_AddElement
<1> QED BY <1>1, <1>3, <1>4

(* A trigger that keeps its stage still fits in a shorter queue.           *)
LEMMA FitsShorter ==
    ASSUME NEW t \in Trigger, NEW at, NEW p, NEW q, NEW l, NEW c,
           HasTrigger(p, l, c) => HasTrigger(q, l, c), Waiting(p, l, c) \subseteq Waiting(q, l, c),
           Fits(t, at, Cardinality(Waiting(q, l, c)), HasTrigger(q, l, c))
    PROVE  Fits(t, at, Cardinality(Waiting(p, l, c)), HasTrigger(p, l, c))
<1> DEFINE n == Cardinality(Waiting(q, l, c))
           k == Cardinality(Waiting(p, l, c))
<1>1. k \in Nat /\ n \in Nat /\ k <= n
  BY WaitingFacts
<1>2. t.attempt \in Nat /\ MaxRetries \in Nat
  BY SchedulerAssumption DEF Trigger
<1> HIDE DEF n, k
<1>3. Fits(t, at, n, HasTrigger(q, l, c))
  BY DEF n
<1>4. Fits(t, at, k, HasTrigger(p, l, c))
  BY <1>1, <1>2, <1>3 DEF Fits
<1> QED BY <1>4 DEF k

(* One trigger changes, and no other one's place in the queue.             *)
LEMMA OneTriggerStep ==
    ASSUME Pool, NEW l \in Loops, NEW c \in Collectors, NEW t \in Trigger,
           trigger' = [trigger EXCEPT ![l][c] = t], UNCHANGED loop,
           IsFiniteSet(working'), Cardinality(working') <= MaxWorkers,
           queue' \in Seq(Jobs), LinedUp(queue'),
           \A m \in Loops, d \in Collectors : m # l \/ d # c =>
                /\ HasTrigger(queue', m, d) => HasTrigger(queue, m, d)
                /\ Waiting(queue', m, d) \subseteq Waiting(queue, m, d),
           Fits(t, loop[l], Cardinality(Waiting(queue', l, c)), HasTrigger(queue', l, c))
    PROVE  Pool'
<1>1. trigger \in [Loops -> [Collectors -> Trigger]]
  BY DEF Pool, PoolKinds
<1>2. /\ trigger' \in [Loops -> [Collectors -> Trigger]]
      /\ \A m \in Loops, d \in Collectors : trigger'[m][d] = IF m = l /\ d = c THEN t ELSE trigger[m][d]
  BY <1>1
<1>3. PoolKinds'
  BY <1>2 DEF Pool, PoolKinds
<1>4. ASSUME NEW m \in Loops, NEW d \in Collectors PROVE Tries(m, d)'
  <2>1. CASE m = l /\ d = c
    BY <1>2, <2>1 DEF Tries
  <2>2. CASE m # l \/ d # c
    <3>1. Fits(trigger[m][d], loop[m], Cardinality(Waiting(queue, m, d)), HasTrigger(queue, m, d))
          /\ trigger[m][d] \in Trigger /\ trigger'[m][d] = trigger[m][d]
      BY <1>1, <1>2, <2>2 DEF Pool, Tries
    <3>2. /\ HasTrigger(queue', m, d) => HasTrigger(queue, m, d)
          /\ Waiting(queue', m, d) \subseteq Waiting(queue, m, d)
      BY <2>2
    <3> QED BY <3>1, <3>2, FitsShorter DEF Tries
  <2> QED BY <2>1, <2>2
<1> QED BY <1>3, <1>4 DEF Pool

(* Nothing but what runs and how the loops stand.                          *)
LEMMA OneLoopStep ==
    ASSUME Pool, NEW l \in Loops, NEW at \in {"dead", "between"},
           loop' = [loop EXCEPT ![l] = at], UNCHANGED <<trigger, queue, working>>,
           \A c \in Collectors : trigger[l][c].stage = "none"
    PROVE  Pool'
<1>1. loop \in [Loops -> {"dead", "between", "cycle"}]
  BY DEF Pool, PoolKinds
<1>2. /\ loop' \in [Loops -> {"dead", "between", "cycle"}]
      /\ \A m \in Loops : loop'[m] = IF m = l THEN at ELSE loop[m]
  BY <1>1
<1>3. PoolKinds' /\ LinedUp(queue')
  BY <1>2 DEF Pool, PoolKinds
<1>4. ASSUME NEW m \in Loops, NEW c \in Collectors PROVE Tries(m, c)'
  BY <1>2 DEF Pool, Tries, Fits
<1> QED BY <1>3, <1>4 DEF Pool

(* Jobs leave the queue, and triggers and loops stay as they are.          *)
LEMMA QueueStep ==
    ASSUME Pool, UNCHANGED <<trigger, loop>>,
           IsFiniteSet(working'), Cardinality(working') <= MaxWorkers,
           queue' \in Seq(Jobs), LinedUp(queue'),
           \A m \in Loops, d \in Collectors :
                /\ HasTrigger(queue', m, d) => HasTrigger(queue, m, d)
                /\ Waiting(queue', m, d) \subseteq Waiting(queue, m, d)
    PROVE  Pool'
<1>1. PoolKinds'
  BY DEF Pool, PoolKinds
<1>2. ASSUME NEW m \in Loops, NEW d \in Collectors PROVE Tries(m, d)'
  <2>1. Fits(trigger[m][d], loop[m], Cardinality(Waiting(queue, m, d)), HasTrigger(queue, m, d))
        /\ trigger[m][d] \in Trigger
    BY DEF Pool, PoolKinds, Tries
  <2> QED BY <2>1, FitsShorter DEF Tries
<1> QED BY <1>1, <1>2 DEF Pool

(* What is known of one trigger.                                           *)
LEMMA TriggerFacts ==
    ASSUME Pool, NEW l \in Loops, NEW c \in Collectors, NEW t, t = trigger[l][c]
    PROVE  /\ t \in Trigger /\ t.attempt \in Nat /\ t.attempt <= MaxRetries + 1 /\ MaxRetries \in Nat
           /\ Fits(t, loop[l], Cardinality(Waiting(queue, l, c)), HasTrigger(queue, l, c))
           /\ Cardinality(Waiting(queue, l, c)) \in Nat
           /\ Cardinality(Waiting(queue, l, c)) <= MaxRetries + 1
<1>1. t \in Trigger /\ t.attempt \in Nat /\ t.attempt <= MaxRetries + 1 /\ MaxRetries \in Nat
  BY SchedulerAssumption DEF Pool, PoolKinds, Trigger
<1>2. Fits(t, loop[l], Cardinality(Waiting(queue, l, c)), HasTrigger(queue, l, c))
  BY DEF Pool, Tries
<1>3. Cardinality(Waiting(queue, l, c)) \in Nat
  BY WaitingFacts
<1> QED BY <1>1, <1>2, <1>3 DEF Fits

LEMMA SubmitStep ==
    ASSUME Pool, NEW l \in Loops, NEW c \in Collectors, NEW q \in Seq(Jobs), LinedUp(q),
           ~HasTrigger(q, l, c),
           \A m \in Loops, d \in Collectors :
                /\ HasTrigger(q, m, d) => HasTrigger(queue, m, d)
                /\ Waiting(q, m, d) \subseteq Waiting(queue, m, d),
           Cardinality(Waiting(q, l, c)) <= trigger[l][c].attempt, trigger[l][c].attempt <= MaxRetries,
           loop[l] = "cycle", Submit(l, c, q), UNCHANGED loop,
           IsFiniteSet(working'), Cardinality(working') <= MaxWorkers
    PROVE  Pool'
<1> DEFINE a == trigger[l][c].attempt
           n == Cardinality(Waiting(q, l, c))
           k == Cardinality(Waiting(queue', l, c))
<1>1. PICK f \in FreeFutures(l, c) :
        /\ trigger' = [trigger EXCEPT ![l][c] = [stage |-> "waiting", attempt |-> @.attempt + 1, future |-> f]]
        /\ queue' = Append(q, CollectJob(l, c, f))
  BY DEF Submit
<1>2. f \in Futures
  BY DEF FreeFutures
<1> DEFINE t == [stage |-> "waiting", attempt |-> a + 1, future |-> f]
<1>3. trigger' = [trigger EXCEPT ![l][c] = t]
  BY <1>1
<1>4. a \in Nat /\ MaxRetries \in Nat
  BY TriggerFacts
<1>5. t \in Trigger
  BY <1>2, <1>4 DEF Trigger
<1>6. /\ queue' \in Seq(Jobs) /\ LinedUp(queue')
      /\ \A m \in Loops, d \in Collectors :
            /\ HasTrigger(queue', m, d) => HasTrigger(q, m, d)
            /\ Waiting(queue', m, d) = IF m = l /\ d = c THEN Waiting(q, m, d) \cup {f} ELSE Waiting(q, m, d)
  BY <1>1, <1>2, AppendLinedUp
<1>7. k <= n + 1 /\ n \in Nat /\ k \in Nat
  BY <1>2, <1>6, WaitingFacts
<1>8. ~HasTrigger(queue', l, c)
  BY <1>6
<1>9. Fits(t, loop[l], k, HasTrigger(queue', l, c))
  <2> HIDE DEF a, n, k
  <2>1. n <= a
    BY DEF a, n
  <2> QED BY <2>1, <1>4, <1>7, <1>8 DEF Fits, Idle
<1> HIDE DEF t
<1>10. \A m \in Loops, d \in Collectors : m # l \/ d # c =>
                /\ HasTrigger(queue', m, d) => HasTrigger(queue, m, d)
                /\ Waiting(queue', m, d) \subseteq Waiting(queue, m, d)
  BY <1>6
<1>11. queue' \in Seq(Jobs) /\ LinedUp(queue')
  BY <1>6
<1> QED BY <1>3, <1>5, <1>9, <1>10, <1>11, OneTriggerStep

LEMMA ReturnStep ==
    ASSUME Pool, NEW l \in Loops, NEW c \in Collectors, TriggerReturns(l, c), UNCHANGED loop,
           queue' \in Seq(Jobs), LinedUp(queue'), ~HasTrigger(queue', l, c),
           \A m \in Loops, d \in Collectors :
                /\ HasTrigger(queue', m, d) => HasTrigger(queue, m, d)
                /\ Waiting(queue', m, d) \subseteq Waiting(queue, m, d)
    PROVE  Pool'
<1>1. NoTrigger \in Trigger
  BY SchedulerAssumption DEF NoTrigger, Trigger, Idle
<1>2. trigger' = [trigger EXCEPT ![l][c] = NoTrigger]
  BY DEF TriggerReturns
<1>3. IsFiniteSet(working') /\ Cardinality(working') <= MaxWorkers
  BY WorkingFacts DEF TriggerReturns
<1> DEFINE k == Cardinality(Waiting(queue', l, c))
           n == Cardinality(Waiting(queue, l, c))
<1>4. k \in Nat /\ n \in Nat /\ k <= n /\ n <= MaxRetries + 1 /\ MaxRetries \in Nat
  BY WaitingFacts, TriggerFacts
<1>5. Fits(NoTrigger, loop[l], k, HasTrigger(queue', l, c))
  <2> HIDE DEF k, n
  <2> QED BY <1>4 DEF Fits, NoTrigger, Idle
<1>6. \A m \in Loops, d \in Collectors : m # l \/ d # c =>
                /\ HasTrigger(queue', m, d) => HasTrigger(queue, m, d)
                /\ Waiting(queue', m, d) \subseteq Waiting(queue, m, d)
  OBVIOUS
<1> QED BY <1>1, <1>2, <1>3, <1>5, <1>6, OneTriggerStep

LEMMA SettleStep ==
    ASSUME Pool, NEW l \in Loops, NEW c \in Collectors, trigger[l][c].stage \notin Idle,
           TriggerReturns(l, c) \/ GiveUpOrSleep(l, c), UNCHANGED <<queue, loop>>
    PROVE  Pool'
<1> DEFINE t == [trigger[l][c] EXCEPT !.stage = "asleep", !.future = 0]
           n == Cardinality(Waiting(queue, l, c))
<1>1. queue \in Seq(Jobs) /\ LinedUp(queue) /\ IsFiniteSet(working) /\ Cardinality(working) <= MaxWorkers
  BY DEF Pool, PoolKinds
<1>2. /\ trigger[l][c] \in Trigger /\ Fits(trigger[l][c], loop[l], n, HasTrigger(queue, l, c))
  BY TriggerFacts
<1>3. ~HasTrigger(queue, l, c)
  BY <1>2 DEF Fits, Idle
<1>4. CASE TriggerReturns(l, c)
  BY <1>1, <1>3, <1>4, ReturnStep
<1>5. CASE ~TriggerReturns(l, c)
  <2>1. /\ trigger[l][c].attempt <= MaxRetries /\ working' = working
        /\ trigger' = [trigger EXCEPT ![l][c].stage = "asleep", ![l][c].future = 0]
    BY <1>5 DEF GiveUpOrSleep
  <2>2. trigger' = [trigger EXCEPT ![l][c] = t]
    <3>1. trigger \in [Loops -> [Collectors -> Trigger]]
      BY DEF Pool, PoolKinds
    <3> QED BY <2>1, <3>1
  <2>3. t \in Trigger /\ t.stage = "asleep" /\ t.future = 0 /\ t.attempt = trigger[l][c].attempt
    BY <1>2 DEF Trigger
  <2> HIDE DEF t
  <2>4. Fits(t, loop[l], n, HasTrigger(queue, l, c))
    BY <1>2, <1>3, <2>1, <2>3 DEF Fits, Idle
  <2>5. /\ queue' \in Seq(Jobs) /\ LinedUp(queue') /\ IsFiniteSet(working') /\ Cardinality(working') <= MaxWorkers
        /\ Fits(t, loop[l], Cardinality(Waiting(queue', l, c)), HasTrigger(queue', l, c))
    BY <1>1, <2>1, <2>4
  <2>6. \A m \in Loops, d \in Collectors : m # l \/ d # c =>
                /\ HasTrigger(queue', m, d) => HasTrigger(queue, m, d)
                /\ Waiting(queue', m, d) \subseteq Waiting(queue, m, d)
    OBVIOUS
  <2> QED BY <2>2, <2>3, <2>5, <2>6, OneTriggerStep
<1> QED BY <1>4, <1>5

LEMMA StageStep ==
    ASSUME Pool, NEW l \in Loops, NEW c \in Collectors, NEW result \in Answered,
           trigger[l][c].stage \notin Idle,
           trigger' = [trigger EXCEPT ![l][c].stage = result], UNCHANGED loop,
           IsFiniteSet(working'), Cardinality(working') <= MaxWorkers,
           queue' \in Seq(Jobs), LinedUp(queue'),
           \A m \in Loops, d \in Collectors :
                /\ HasTrigger(queue', m, d) => HasTrigger(queue, m, d)
                /\ Waiting(queue', m, d) \subseteq Waiting(queue, m, d)
    PROVE  Pool'
<1> DEFINE t == [trigger[l][c] EXCEPT !.stage = result]
           k == Cardinality(Waiting(queue', l, c))
<1>1. trigger' = [trigger EXCEPT ![l][c] = t]
  BY DEF Pool, PoolKinds
<1>2. trigger[l][c] \in Trigger
      /\ Fits(trigger[l][c], loop[l], Cardinality(Waiting(queue, l, c)), HasTrigger(queue, l, c))
  BY TriggerFacts
<1>3. t \in Trigger /\ t.stage = result /\ t.attempt = trigger[l][c].attempt
  BY <1>2 DEF Trigger
<1>4. Fits(trigger[l][c], loop[l], k, HasTrigger(queue', l, c))
  BY <1>2, FitsShorter
<1> HIDE DEF t, k
<1>5. Fits(t, loop[l], k, HasTrigger(queue', l, c))
  BY <1>3, <1>4 DEF Fits, Idle, Answered
<1>6. \A m \in Loops, d \in Collectors : m # l \/ d # c =>
                /\ HasTrigger(queue', m, d) => HasTrigger(queue, m, d)
                /\ Waiting(queue', m, d) \subseteq Waiting(queue, m, d)
  OBVIOUS
<1>7. t \in Trigger /\ Fits(t, loop[l], Cardinality(Waiting(queue', l, c)), HasTrigger(queue', l, c))
  BY <1>3, <1>5 DEF k
<1>8. UNCHANGED loop /\ queue' \in Seq(Jobs) /\ LinedUp(queue')
  OBVIOUS
<1> HIDE DEF k
<1> QED BY <1>1, <1>6, <1>7, <1>8, OneTriggerStep

LEMMA ResolveStep ==
    ASSUME Pool, NEW l \in Loops, NEW c \in Collectors, NEW f,
           NEW result \in {"packets", "empty", "raised"}, Resolve(l, c, f, result), UNCHANGED loop,
           IsFiniteSet(working'), Cardinality(working') <= MaxWorkers,
           queue' \in Seq(Jobs), LinedUp(queue'),
           \A m \in Loops, d \in Collectors :
                /\ HasTrigger(queue', m, d) => HasTrigger(queue, m, d)
                /\ Waiting(queue', m, d) \subseteq Waiting(queue, m, d)
    PROVE  Pool'
<1>1. CASE UNCHANGED trigger
  BY <1>1, QueueStep
<1>2. CASE trigger[l][c].stage = "waiting" /\ trigger' = [trigger EXCEPT ![l][c].stage = result]
  <2>1. trigger[l][c].stage \notin Idle /\ result \in Answered
    BY <1>2 DEF Idle, Answered
  <2> QED BY <1>2, <2>1, StageStep
<1> QED BY <1>1, <1>2 DEF Resolve

(* Of the attempts of a trigger, those that run hold a thread each; so not *)
(* every future is taken as long as one more attempt may be queued.        *)
LEMMA Room ==
    ASSUME Pool, NEW l \in Loops, NEW c \in Collectors, trigger[l][c].future = 0,
           Cardinality(Waiting(queue, l, c)) <= MaxRetries
    PROVE  FreeFutures(l, c) # {}
<1> DEFINE W == Waiting(queue, l, c)
           R == {f \in Futures : CollectJob(l, c, f) \in working}
           job == [f \in R |-> CollectJob(l, c, f)]
<1>1. IsFiniteSet(working) /\ Cardinality(working) <= MaxWorkers /\ Cardinality(working) \in Nat
  BY FS_CardinalityType DEF Pool, PoolKinds
<1>2. IsFiniteSet(R) /\ Cardinality(R) <= Cardinality(working)
  <2>1. \A f, g : CollectJob(l, c, f) = CollectJob(l, c, g) => f = g
    BY JobsDiffer
  <2>2. job \in Injection(R, working)
    BY <2>1 DEF Injection, IsInjective
  <2> HIDE DEF job, R
  <2> QED BY <1>1, <2>2, FS_Injection
<1>3. IsFiniteSet(W) /\ Cardinality(W) <= MaxRetries
  BY WaitingFacts
<1>4. Unfinished(l, c) = W \cup R
  BY DEF Unfinished, Waiting, Queued
<1> HIDE DEF W, R
<1>5. IsFiniteSet(W \cup R) /\ Cardinality(W \cup R) <= MaxRetries + MaxWorkers /\ Cardinality(W \cup R) \in Nat
  <2>1. /\ IsFiniteSet(W \cup R) /\ IsFiniteSet(W \cap R)
        /\ Cardinality(W \cup R) = Cardinality(W) + Cardinality(R) - Cardinality(W \cap R)
    BY <1>2, <1>3, FS_Union, FS_Subset
  <2>2. Cardinality(W) \in Nat /\ Cardinality(R) \in Nat /\ Cardinality(W \cap R) \in Nat /\ Cardinality(W \cup R) \in Nat
    BY <1>2, <1>3, <2>1, FS_CardinalityType
  <2> QED BY <1>1, <1>2, <1>3, <2>1, <2>2, SchedulerAssumption
<1>6. ~(Futures \subseteq W \cup R)
  <2> SUFFICES ASSUME Futures \subseteq W \cup R PROVE FALSE
    OBVIOUS
  <2>1. Cardinality(Futures) <= Cardinality(W \cup R) /\ Cardinality(Futures) \in Nat
    BY <1>5, FS_Subset, FS_CardinalityType, FuturesAssumption
  <2> QED BY <1>5, <2>1, FuturesAssumption, SchedulerAssumption
<1>7. 0 \notin Futures
  BY FuturesAssumption
<1> QED BY <1>4, <1>6, <1>7 DEF FreeFutures

----------------------------------------------------------------------------
(* The pool keeps its invariant.                                           *)

LEMMA StartTriggerPool ==
    ASSUME Pool, NEW l \in Loops, NEW c \in Collectors, StartTrigger(l, c)
    PROVE  Pool'
<1> DEFINE q == Tail(queue)
<1>1. queue \in Seq(Jobs) /\ queue # <<>> /\ LinedUp(queue) /\ Head(queue) = TriggerJob(l, c)
  BY DEF StartTrigger, Pool, PoolKinds
<1>2. /\ q \in Seq(Jobs) /\ LinedUp(q)
      /\ \A m \in Loops, d \in Collectors :
            /\ HasTrigger(q, m, d) => HasTrigger(queue, m, d)
            /\ Waiting(q, m, d) \subseteq Waiting(queue, m, d)
      /\ HasTrigger(queue, l, c) /\ ~HasTrigger(q, l, c) /\ Waiting(queue, l, c) = {}
  BY <1>1, TailLinedUp
<1>3. UNCHANGED loop /\ Cardinality(working) < MaxWorkers
  BY DEF StartTrigger
<1>4. CASE health[c].enabled
  <2>1. Submit(l, c, q) /\ working' = working \cup {TriggerJob(l, c)}
    BY <1>4 DEF StartTrigger
  <2>2. IsFiniteSet(working') /\ Cardinality(working') <= MaxWorkers
    BY <1>3, <2>1, WorkingFacts
  <2>3. trigger[l][c].stage = "queued" /\ trigger[l][c].attempt = 0 /\ loop[l] = "cycle" /\ MaxRetries \in Nat
    BY <1>2, TriggerFacts DEF Fits, Idle
  <2>4. Cardinality(Waiting(q, l, c)) = 0
    <3>1. Waiting(q, l, c) = {}
      BY <1>2
    <3> QED BY <3>1, FS_EmptySet
  <2>5. Cardinality(Waiting(q, l, c)) <= trigger[l][c].attempt /\ trigger[l][c].attempt <= MaxRetries
    BY <2>3, <2>4
  <2> HIDE DEF q
  <2> QED BY <1>2, <1>3, <2>1, <2>2, <2>3, <2>5, SubmitStep
<1>5. CASE ~health[c].enabled
  <2>1. TriggerReturns(l, c) /\ queue' = q
    BY <1>5 DEF StartTrigger
  <2>2. /\ queue' \in Seq(Jobs) /\ LinedUp(queue') /\ ~HasTrigger(queue', l, c)
        /\ \A m \in Loops, d \in Collectors :
            /\ HasTrigger(queue', m, d) => HasTrigger(queue, m, d)
            /\ Waiting(queue', m, d) \subseteq Waiting(queue, m, d)
    BY <1>2, <2>1
  <2> QED BY <1>3, <2>1, <2>2, ReturnStep
<1> QED BY <1>4, <1>5

LEMMA WakeUpPool ==
    ASSUME Pool, NEW l \in Loops, NEW c \in Collectors, WakeUp(l, c)
    PROVE  Pool'
<1>1. /\ trigger[l][c].stage = "asleep" /\ Submit(l, c, queue) /\ UNCHANGED <<loop, working>>
  BY DEF WakeUp
<1>2. Fits(trigger[l][c], loop[l], Cardinality(Waiting(queue, l, c)), HasTrigger(queue, l, c))
  BY TriggerFacts
<1>3. /\ ~HasTrigger(queue, l, c) /\ loop[l] = "cycle" /\ trigger[l][c].attempt <= MaxRetries
      /\ Cardinality(Waiting(queue, l, c)) <= trigger[l][c].attempt
  BY <1>1, <1>2 DEF Fits, Idle
<1>4. /\ queue \in Seq(Jobs) /\ LinedUp(queue) /\ IsFiniteSet(working') /\ Cardinality(working') <= MaxWorkers
  BY <1>1 DEF Pool, PoolKinds
<1> QED BY <1>1, <1>3, <1>4, SubmitStep

LEMMA CollectionPool ==
    ASSUME Pool, NEW l \in Loops, NEW c \in Collectors, NEW f \in Futures,
           StartCollection(l, c, f) \/ CollectionEnds(l, c, f)
    PROVE  Pool'
<1>1. UNCHANGED loop /\ queue \in Seq(Jobs) /\ LinedUp(queue)
  BY DEF StartCollection, CollectionEnds, Pool, PoolKinds
<1>2. CASE StartCollection(l, c, f)
  <2>1. queue # <<>> /\ queue' = Tail(queue) /\ Cardinality(working) < MaxWorkers
    BY <1>2 DEF StartCollection
  <2>2. /\ queue' \in Seq(Jobs) /\ LinedUp(queue')
        /\ \A m \in Loops, d \in Collectors :
            /\ HasTrigger(queue', m, d) => HasTrigger(queue, m, d)
            /\ Waiting(queue', m, d) \subseteq Waiting(queue, m, d)
    BY <1>1, <2>1, TailLinedUp
  <2>3. working' = working \/ working' = working \cup {CollectJob(l, c, f)}
    BY <1>2 DEF StartCollection
  <2>4. IsFiniteSet(working') /\ Cardinality(working') <= MaxWorkers
    BY <2>1, <2>3, WorkingFacts
  <2>5. UNCHANGED trigger \/ Resolve(l, c, f, "empty")
    BY <1>2 DEF StartCollection
  <2> QED BY <1>1, <2>2, <2>4, <2>5, QueueStep, ResolveStep
<1>3. CASE CollectionEnds(l, c, f)
  <2>1. PICK result \in {"packets", "empty", "raised"} : Resolve(l, c, f, result)
    BY <1>3 DEF CollectionEnds
  <2>2. queue' = queue /\ working' = working \ {CollectJob(l, c, f)}
    BY <1>3 DEF CollectionEnds
  <2>3. IsFiniteSet(working') /\ Cardinality(working') <= MaxWorkers
    BY <2>2, WorkingFacts
  <2>4. /\ queue' \in Seq(Jobs) /\ LinedUp(queue')
        /\ \A m \in Loops, d \in Collectors :
            /\ HasTrigger(queue', m, d) => HasTrigger(queue, m, d)
            /\ Waiting(queue', m, d) \subseteq Waiting(queue, m, d)
    BY <1>1, <2>2
  <2> QED BY <1>1, <2>1, <2>3, <2>4, ResolveStep
<1> QED BY <1>2, <1>3

LEMMA BeginCyclePool ==
    ASSUME Pool, NEW l \in Loops, BeginCycle(l)
    PROVE  Pool'
<1> DEFINE t(c) == IF c \in Enabled THEN [NoTrigger EXCEPT !.stage = "listed"] ELSE NoTrigger
<1>1. /\ loop[l] = "between" /\ loop' = [loop EXCEPT ![l] = "cycle"] /\ UNCHANGED <<queue, working>>
      /\ trigger' = [trigger EXCEPT ![l] = [c \in Collectors |-> t(c)]]
  BY DEF BeginCycle
<1>2. /\ loop \in [Loops -> {"dead", "between", "cycle"}] /\ trigger \in [Loops -> [Collectors -> Trigger]]
  BY DEF Pool, PoolKinds
<1>3. \A c : t(c) \in Trigger /\ t(c).attempt = 0 /\ t(c).future = 0 /\ t(c).stage \in {"listed", "none"}
  BY SchedulerAssumption DEF NoTrigger, Trigger, Idle
<1> HIDE DEF t
<1>4. /\ trigger' \in [Loops -> [Collectors -> Trigger]]
      /\ \A m \in Loops, c \in Collectors : trigger'[m][c] = IF m = l THEN t(c) ELSE trigger[m][c]
  BY <1>1, <1>2, <1>3
<1>5. /\ loop' \in [Loops -> {"dead", "between", "cycle"}]
      /\ \A m \in Loops : loop'[m] = IF m = l THEN "cycle" ELSE loop[m]
  BY <1>1, <1>2
<1>6. PoolKinds' /\ LinedUp(queue')
  BY <1>1, <1>4, <1>5 DEF Pool, PoolKinds
<1>7. ASSUME NEW m \in Loops, NEW c \in Collectors PROVE Tries(m, c)'
  <2> DEFINE k == Cardinality(Waiting(queue, m, c))
  <2>1. k <= MaxRetries + 1 /\ k \in Nat /\ MaxRetries \in Nat
    BY TriggerFacts
  <2>2. Fits(trigger[m][c], loop[m], k, HasTrigger(queue, m, c))
    BY TriggerFacts
  <2>3. CASE m = l
    <3>1. trigger'[m][c] = t(c) /\ loop'[m] = "cycle" /\ queue' = queue
      BY <1>1, <1>4, <1>5, <2>3
    <3>2. ~HasTrigger(queue, m, c)
      <4> HIDE DEF k
      <4> QED BY <1>1, <2>2, <2>3 DEF Fits
    <3>3. Fits(t(c), "cycle", k, HasTrigger(queue, m, c))
      <4> HIDE DEF k
      <4> QED BY <1>3, <2>1, <3>2 DEF Fits, Idle
    <3> QED BY <3>1, <3>3 DEF Tries
  <2>4. CASE m # l
    <3>1. trigger'[m][c] = trigger[m][c] /\ loop'[m] = loop[m] /\ queue' = queue
      BY <1>1, <1>4, <1>5, <2>4
    <3> QED BY <2>2, <3>1 DEF Tries
  <2> QED BY <2>3, <2>4
<1> QED BY <1>6, <1>7 DEF Pool

LEMMA ListPool ==
    ASSUME Pool, NEW l \in Loops, NEW c \in Collectors, LookAgain(l, c) \/ SubmitNext(l, c)
    PROVE  Pool'
<1> DEFINE s == CASE LookAgain(l, c) -> IF c \in Enabled THEN "due" ELSE "none"
                  [] OTHER -> "queued"
           t == [trigger[l][c] EXCEPT !.stage = s]
           k == Cardinality(Waiting(queue, l, c))
           n == Cardinality(Waiting(queue', l, c))
<1>1. /\ trigger[l][c].stage \in {"listed", "due"} /\ trigger' = [trigger EXCEPT ![l][c].stage = s]
      /\ UNCHANGED <<loop, working>>
  BY DEF LookAgain, SubmitNext
<1>2. /\ trigger[l][c] \in Trigger /\ Fits(trigger[l][c], loop[l], k, HasTrigger(queue, l, c))
      /\ k \in Nat /\ k <= MaxRetries + 1
  BY TriggerFacts
<1>3. s \in {"due", "none", "queued"} /\ (~LookAgain(l, c) => s = "queued")
  OBVIOUS
<1>4. queue \in Seq(Jobs) /\ LinedUp(queue) /\ IsFiniteSet(working) /\ Cardinality(working) <= MaxWorkers
  BY DEF Pool, PoolKinds
<1>5. trigger' = [trigger EXCEPT ![l][c] = t]
  BY <1>1 DEF Pool, PoolKinds
<1> HIDE DEF s
<1>6. t \in Trigger /\ t.stage = s /\ t.attempt = trigger[l][c].attempt /\ t.future = trigger[l][c].future
  BY <1>2, <1>3 DEF Trigger, Idle
<1> HIDE DEF t
<1>7. ~HasTrigger(queue, l, c) /\ loop[l] = "cycle"
  <2> HIDE DEF k
  <2> QED BY <1>1, <1>2 DEF Fits
<1>8. /\ queue' \in Seq(Jobs) /\ LinedUp(queue')
      /\ \A m \in Loops, d \in Collectors :
            /\ m # l \/ d # c => (HasTrigger(queue', m, d) => HasTrigger(queue, m, d))
            /\ Waiting(queue', m, d) \subseteq Waiting(queue, m, d)
      /\ HasTrigger(queue', l, c) => s = "queued"
  <2>1. CASE LookAgain(l, c)
    BY <1>4, <1>7, <2>1 DEF LookAgain
  <2>2. CASE ~LookAgain(l, c)
    <3>1. queue' = Append(queue, TriggerJob(l, c))
      BY <2>2 DEF SubmitNext
    <3> QED BY <1>3, <1>4, <1>7, <2>2, <3>1, AppendTriggerLinedUp
  <2> QED BY <2>1, <2>2
<1>9. n \in Nat /\ n <= k
  BY <1>8, WaitingFacts
<1>10. Fits(t, loop[l], n, HasTrigger(queue', l, c))
  <2>1. MaxRetries \in Nat
    BY SchedulerAssumption
  <2> HIDE DEF n, k
  <2> QED BY <1>1, <1>2, <1>3, <1>6, <1>7, <1>8, <1>9, <2>1 DEF Fits, Idle
<1>11. IsFiniteSet(working') /\ Cardinality(working') <= MaxWorkers
  BY <1>1, <1>4
<1>12. \A m \in Loops, d \in Collectors : m # l \/ d # c =>
                /\ HasTrigger(queue', m, d) => HasTrigger(queue, m, d)
                /\ Waiting(queue', m, d) \subseteq Waiting(queue, m, d)
  BY <1>8
<1>13. queue' \in Seq(Jobs) /\ LinedUp(queue')
  BY <1>8
<1>14. UNCHANGED loop
  BY <1>1
<1> QED BY <1>5, <1>6, <1>10, <1>11, <1>12, <1>13, <1>14, OneTriggerStep

LEMMA InitPool == Init => Pool
<1> SUFFICES ASSUME Init PROVE Pool
  OBVIOUS
<1>1. /\ loop = [l \in Loops |-> "dead"] /\ queue = <<>> /\ working = {}
      /\ trigger = [l \in Loops |-> [c \in Collectors |-> NoTrigger]]
  BY DEF Init
<1>2. NoTrigger \in Trigger
  BY SchedulerAssumption DEF NoTrigger, Trigger, Idle
<1>3. PoolKinds
  BY <1>1, <1>2, FS_EmptySet, SchedulerAssumption DEF PoolKinds
<1>4. LinedUp(queue)
  BY <1>1 DEF LinedUp
<1>5. ASSUME NEW l \in Loops, NEW c \in Collectors PROVE Tries(l, c)
  <2>1. Waiting(queue, l, c) = {} /\ ~HasTrigger(queue, l, c)
    BY <1>1 DEF Waiting, HasTrigger
  <2>2. Cardinality(Waiting(queue, l, c)) = 0
    BY <2>1, FS_EmptySet
  <2>3. trigger[l][c] = NoTrigger /\ MaxRetries \in Nat
    BY <1>1, SchedulerAssumption
  <2> QED BY <2>1, <2>2, <2>3 DEF Tries, Fits, NoTrigger, Idle
<1> QED BY <1>3, <1>4, <1>5 DEF Pool

LEMMA StepPool == Pool /\ IInv /\ [Next]_vars => Pool'
<1> SUFFICES ASSUME Pool, IInv, [Next]_vars PROVE Pool'
  OBVIOUS
<1>1. ASSUME NEW l \in Loops, loop[l] # "cycle"
      PROVE  \A c \in Collectors : trigger[l][c].stage = "none"
  BY <1>1 DEF Pool, Tries, Fits
<1>2. ASSUME NEW l \in Loops, Start(l) PROVE Pool'
  <2>1. \A c \in Collectors : trigger[l][c].stage = "none"
    BY <1>1, <1>2 DEF Start
  <2> QED BY <1>2, <2>1, OneLoopStep DEF Start
<1>3. ASSUME NEW l \in Loops, LoopEnds(l) PROVE Pool'
  <2>1. \A c \in Collectors : trigger[l][c].stage = "none"
    BY <1>1, <1>3 DEF LoopEnds
  <2> QED BY <1>3, <2>1, OneLoopStep DEF LoopEnds
<1>4. ASSUME NEW l \in Loops, EndCycle(l) PROVE Pool'
  BY <1>4, OneLoopStep DEF EndCycle
<1>5. ASSUME NEW l \in Loops, BeginCycle(l) PROVE Pool'
  BY <1>5, BeginCyclePool
<1>6. ASSUME UNCHANGED <<loop, trigger, queue, working>> PROVE Pool'
  BY <1>6 DEF Pool, PoolKinds, Tries
<1>7. CASE Stop \/ ChangeMode \/ UNCHANGED vars \/ \E c \in Collectors : SwitchCollector(c)
  BY <1>6, <1>7 DEF Stop, ChangeMode, SwitchCollector, vars
<1>8. ASSUME NEW l \in Loops, NEW c \in Collectors, TriggerStep(l, c) PROVE Pool'
  <2>1. ASSUME /\ trigger[l][c].stage \notin Idle /\ UNCHANGED <<queue, loop>>
               /\ \/ TriggerReturns(l, c) \/ GiveUpOrSleep(l, c)
                  \/ /\ \E stage \in Answered : trigger' = [trigger EXCEPT ![l][c].stage = stage]
                     /\ UNCHANGED working
        PROVE  Pool'
    <3>1. CASE TriggerReturns(l, c) \/ GiveUpOrSleep(l, c)
      BY <2>1, <3>1, SettleStep
    <3>2. CASE /\ \E stage \in Answered : trigger' = [trigger EXCEPT ![l][c].stage = stage]
               /\ UNCHANGED working
      <4>1. PICK stage \in Answered : trigger' = [trigger EXCEPT ![l][c].stage = stage]
        BY <3>2
      <4>2. /\ queue' \in Seq(Jobs) /\ LinedUp(queue') /\ queue' = queue
            /\ IsFiniteSet(working') /\ Cardinality(working') <= MaxWorkers
        BY <2>1, <3>2 DEF Pool, PoolKinds
      <4> QED BY <2>1, <4>1, <4>2, StageStep
    <3> QED BY <2>1, <3>1, <3>2
  <2>2. CASE AttemptReturned(l, c)
    BY <2>1, <2>2 DEF AttemptReturned, Idle, Answered
  <2>3. CASE CallbackCounts(l, c)
    BY <2>1, <2>3 DEF CallbackCounts, Idle, Answered
  <2>4. CASE CallbackReturns(l, c) \/ AttemptRaised(l, c) \/ AttemptTimedOut(l, c)
    BY <2>1, <2>4 DEF CallbackReturns, AttemptRaised, AttemptTimedOut, Idle
  <2> QED BY <1>8, <2>2, <2>3, <2>4, ListPool, WakeUpPool DEF TriggerStep
<1>9. CASE PoolTakes
  BY <1>9, StartTriggerPool, CollectionPool DEF PoolTakes
<1> QED BY <1>2, <1>3, <1>4, <1>5, <1>7, <1>8, <1>9, CollectionPool DEF Next, LoopStep

(* The pool runs no more jobs than it has threads, a trigger makes no more *)
(* attempts than the retries allow, and a name is free for each: its older *)
(* attempts run on threads of the pool or wait in a queue in which at most *)
(* one per retry of this cycle or the last is left.                        *)
THEOREM TypesCorrect == Spec => []TypeOK
<1>1. Init => IInv /\ Pool
  BY InitInvariant, InitPool
<1>2. IInv /\ Pool /\ [Next]_vars => (IInv /\ Pool)'
  BY StepInvariant, StepPool
<1>3. IInv /\ Pool => TypeOK
  <2> SUFFICES ASSUME IInv, Pool PROVE TypeOK
    OBVIOUS
  <2>1. /\ health \in [Collectors -> [state : CollectorState, enabled : BOOLEAN,
                                       failures : 0 .. FailedAfter, healthy : BOOLEAN]]
        /\ mode \in {"SIMULATION", "LIVE", "HYBRID", "FAILOVER"}
        /\ failoverActive \in BOOLEAN /\ liveFailures \in 0 .. FailoverAfter /\ pending \subseteq Collectors
    BY DEF IInv, Kinds, Health, SourceModes
  <2>2. loop \in [Loops -> {"dead", "between", "cycle"}] /\ Cardinality(working) <= MaxWorkers
    BY DEF Pool, PoolKinds
  <2>3. \A l \in Loops, c \in Collectors : trigger[l][c].attempt \in 0 .. (MaxRetries + 1)
    BY DEF Pool, PoolKinds, Trigger
  <2>4. ASSUME NEW l \in Loops, NEW c \in Collectors,
               trigger[l][c].stage = "asleep" \/ (Len(queue) > 0 /\ Head(queue) = TriggerJob(l, c))
        PROVE  FreeFutures(l, c) # {}
    <3> DEFINE n == Cardinality(Waiting(queue, l, c))
    <3>1. /\ Fits(trigger[l][c], loop[l], n, HasTrigger(queue, l, c)) /\ n \in Nat /\ MaxRetries \in Nat
          /\ trigger[l][c].attempt \in Nat
      BY TriggerFacts
    <3>2. CASE trigger[l][c].stage = "asleep"
      <4>1. trigger[l][c].future = 0 /\ n <= MaxRetries
        <5> HIDE DEF n
        <5> QED BY <3>1, <3>2 DEF Fits, Idle
      <4> QED BY <4>1, Room
    <3>3. CASE Len(queue) > 0 /\ Head(queue) = TriggerJob(l, c)
      <4>1. queue \in Seq(Jobs) /\ queue # <<>> /\ LinedUp(queue)
        BY <3>3 DEF Pool, PoolKinds
      <4>2. HasTrigger(queue, l, c) /\ Waiting(queue, l, c) = {}
        BY <3>3, <4>1, TailLinedUp
      <4>3. n = 0
        BY <4>2, FS_EmptySet
      <4>4. trigger[l][c].future = 0 /\ n <= MaxRetries
        BY <3>1, <4>2, <4>3 DEF Fits, Idle
      <4> QED BY <4>4, Room
    <3> QED BY <2>4, <3>2, <3>3
  <2> QED BY <2>1, <2>2, <2>3, <2>4 DEF TypeOK
<1> QED BY <1>1, <1>2, <1>3, PTL DEF Spec
=============================================================================
