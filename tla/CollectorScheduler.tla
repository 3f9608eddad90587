-------------------------- MODULE CollectorScheduler --------------------------
(***************************************************************************)
(* collector_scheduler.py: polling loops that trigger every enabled        *)
(* collector in one thread pool, and triggers that submit each attempt to  *)
(* the same pool, wait for it with a timeout and try again.                *)
(*                                                                         *)
(* An attempt that timed out is not cancelled: it stays queued or goes on, *)
(* and records its own result when it ends.  A loop told to stop ends at   *)
(* its next look at the stop event; stop waits three seconds for it, then  *)
(* returns, so a later start can find it alive.                            *)
(***************************************************************************)
EXTENDS CollectorManager

CONSTANTS
    Priority,        (* per collector, 1 the most urgent                   *)
    Loops,           (* bound: polling threads alive at once               *)
    MaxWorkers,      (* ThreadPoolExecutor's max_workers                   *)
    MaxRetries,
    Futures          (* names for the attempts of one trigger              *)

ASSUME SchedulerAssumption ==
    /\ MaxWorkers \in Nat \ {0} /\ MaxRetries \in Nat
    /\ IsFiniteSet(Collectors) /\ Priority \in [Collectors -> Nat]

(* Old attempts hold the pool's threads at most, new ones wait in the      *)
(* queue at most as often as the trigger is tried again.                   *)
ASSUME FuturesAssumption ==
    /\ IsFiniteSet(Futures) /\ Futures \subseteq Nat \ {0}
    /\ Cardinality(Futures) > MaxWorkers + MaxRetries

VARIABLES
    running, stopEvent,     (* the scheduler's fields                      *)
    loop,       (* per thread: "dead", "between" two cycles or in a "cycle" *)
    trigger,    (* per thread and collector: the call of trigger_collector *)
    queue,      (* the pool's queue of jobs                                *)
    working     (* jobs on the pool's threads                              *)

vars == <<managerVars, running, stopEvent, loop, trigger, queue, working>>

NoTrigger == [stage |-> "none", attempt |-> 0, future |-> 0]

TriggerJob(l, c) == [kind |-> "trigger", loop |-> l, of |-> c]
CollectJob(l, c, f) == [kind |-> "collect", loop |-> l, future |-> f, of |-> c]

Queued == {queue[i] : i \in DOMAIN queue}
Unfinished(l, c) == {f \in Futures : CollectJob(l, c, f) \in Queued \cup working}

(* A future is named until its attempt has ended and nobody waits for it.  *)
FreeFutures(l, c) == Futures \ (Unfinished(l, c) \cup {trigger[l][c].future})

Init ==
    /\ ManagerInit
    /\ running = FALSE /\ stopEvent = FALSE
    /\ loop = [l \in Loops |-> "dead"]
    /\ trigger = [l \in Loops |-> [c \in Collectors |-> NoTrigger]]
    /\ queue = <<>> /\ working = {}

----------------------------------------------------------------------------
(* The polling loop.                                                       *)

Start(l) ==
    /\ ~running /\ loop[l] = "dead"
    /\ running' = TRUE /\ stopEvent' = FALSE
    /\ loop' = [loop EXCEPT ![l] = "between"]
    /\ UNCHANGED <<managerVars, trigger, queue, working>>

(* A variant that lowers the flag and not the event.                       *)
LowerFlagOnly ==
    /\ running
    /\ running' = FALSE
    /\ UNCHANGED <<managerVars, stopEvent, loop, trigger, queue, working>>

Stop ==
    /\ running
    /\ running' = FALSE /\ stopEvent' = TRUE
    /\ UNCHANGED <<managerVars, loop, trigger, queue, working>>

(* The loop sees the stop event.                                           *)
LoopEnds(l) ==
    /\ loop[l] = "between" /\ stopEvent
    /\ loop' = [loop EXCEPT ![l] = "dead"]
    /\ UNCHANGED <<managerVars, running, stopEvent, trigger, queue, working>>

(* The manager's lock is free unless a switch is under way, an operator's  *)
(* or that of a callback, which holds it until it returns.                 *)
LockFree ==
    pending = {} /\ \A l \in Loops, c \in Collectors : trigger[l][c].stage # "switching"

Enabled == {c \in Collectors : health[c].enabled}

(* get_active_collectors lists the enabled collectors under the manager's  *)
(* lock.                                                                   *)
BeginCycle(l) ==
    /\ loop[l] = "between" /\ ~stopEvent /\ LockFree /\ Enabled # {}
    /\ loop' = [loop EXCEPT ![l] = "cycle"]
    /\ trigger' = [trigger EXCEPT ![l] =
            [c \in Collectors |-> IF c \in Enabled THEN [NoTrigger EXCEPT !.stage = "listed"]
                                                   ELSE NoTrigger]]
    /\ UNCHANGED <<managerVars, running, stopEvent, queue, working>>

(* run_collection_cycle looks at every listed switch again, without it.    *)
LookAgain(l, c) ==
    /\ trigger[l][c].stage = "listed"
    /\ trigger' = [trigger EXCEPT ![l][c].stage = IF c \in Enabled THEN "due" ELSE "none"]
    /\ UNCHANGED <<managerVars, running, stopEvent, loop, queue, working>>

(* Submitted one at a time, the most urgent first; the code breaks a tie   *)
(* by order of registration.                                               *)
SubmitNext(l, c) ==
    /\ trigger[l][c].stage = "due"
    /\ \A d \in Collectors :
        /\ trigger[l][d].stage # "listed"
        /\ trigger[l][d].stage = "due" => Priority[c] <= Priority[d]
    /\ trigger' = [trigger EXCEPT ![l][c].stage = "queued"]
    /\ queue' = Append(queue, TriggerJob(l, c))
    /\ UNCHANGED <<managerVars, running, stopEvent, loop, working>>

EndCycle(l) ==
    /\ loop[l] = "cycle"
    /\ \A c \in Collectors : trigger[l][c].stage = "none"
    /\ loop' = [loop EXCEPT ![l] = "between"]
    /\ UNCHANGED <<managerVars, running, stopEvent, trigger, queue, working>>

----------------------------------------------------------------------------
(* trigger_collector on a thread of the pool.                              *)

TriggerReturns(l, c) ==
    /\ trigger' = [trigger EXCEPT ![l][c] = NoTrigger]
    /\ working' = working \ {TriggerJob(l, c)}

(* The next attempt is queued behind whatever the pool still has to do.    *)
Submit(l, c, q) ==
    \E f \in FreeFutures(l, c) :
        /\ \A g \in FreeFutures(l, c) : f <= g
        /\ trigger' = [trigger EXCEPT ![l][c] =
                [stage |-> "waiting", attempt |-> @.attempt + 1, future |-> f]]
        /\ queue' = Append(q, CollectJob(l, c, f))

StartTrigger(l, c) ==
    /\ queue # <<>> /\ Head(queue) = TriggerJob(l, c)
    /\ Cardinality(working) < MaxWorkers
    /\ IF health[c].enabled
       THEN /\ Submit(l, c, Tail(queue))
            /\ working' = working \cup {TriggerJob(l, c)}
       ELSE /\ TriggerReturns(l, c)
            /\ queue' = Tail(queue)
    /\ UNCHANGED <<managerVars, running, stopEvent, loop>>

(* future.result returns; the callback runs in this thread.  Packets of a  *)
(* live collector reset the count under the manager's lock.  For none the  *)
(* mode is looked at without it, and counting takes it.                    *)
AttemptReturned(l, c) ==
    /\ \/ /\ trigger[l][c].stage = "packets" /\ c \notin Simulation
          /\ LockFree
          /\ liveFailures' = 0
          /\ TriggerReturns(l, c)
       \/ /\ trigger[l][c].stage = "empty" /\ c \notin Simulation /\ mode \in {"LIVE", "FAILOVER"}
          /\ trigger' = [trigger EXCEPT ![l][c].stage = "counting"]
          /\ UNCHANGED <<liveFailures, working>>
       \/ /\ trigger[l][c].stage \in {"packets", "empty"}
          /\ c \in Simulation \/ (trigger[l][c].stage = "empty" /\ mode \notin {"LIVE", "FAILOVER"})
          /\ TriggerReturns(l, c)
          /\ UNCHANGED liveFailures
    /\ UNCHANGED <<health, mode, failoverActive, pending, running, stopEvent, loop, queue>>

(* The count, and the failover it may start, under the manager's lock.     *)
CallbackCounts(l, c) ==
    /\ trigger[l][c].stage = "counting" /\ LockFree
    /\ CheckAndHandleLiveFailures
    /\ IF FailoverDue
       THEN /\ trigger' = [trigger EXCEPT ![l][c].stage = "switching"]
            /\ UNCHANGED working
       ELSE TriggerReturns(l, c)
    /\ UNCHANGED <<running, stopEvent, loop, queue>>

CallbackReturns(l, c) ==
    /\ trigger[l][c].stage = "switching" /\ pending = {}
    /\ TriggerReturns(l, c)
    /\ UNCHANGED <<managerVars, running, stopEvent, loop, queue>>

(* A variant that counts the retries from one attempt too late.            *)
SleepOnceMore(l, c) ==
    IF trigger[l][c].attempt <= MaxRetries + 1
    THEN /\ trigger' = [trigger EXCEPT ![l][c].stage = "asleep", ![l][c].future = 0]
         /\ UNCHANGED working
    ELSE TriggerReturns(l, c)

GiveUpOrSleep(l, c) ==
    IF trigger[l][c].attempt <= MaxRetries
    THEN /\ trigger' = [trigger EXCEPT ![l][c].stage = "asleep", ![l][c].future = 0]
         /\ UNCHANGED working
    ELSE TriggerReturns(l, c)

AttemptRaised(l, c) ==
    /\ trigger[l][c].stage = "raised"
    /\ GiveUpOrSleep(l, c)
    /\ UNCHANGED <<managerVars, running, stopEvent, loop, queue>>

(* A variant that waits without a timeout.                                 *)
NeverTimesOut(l, c) == FALSE /\ UNCHANGED vars

AttemptTimedOut(l, c) ==
    /\ trigger[l][c].stage = "waiting"
    /\ health' = [health EXCEPT ![c] = RecordFailure(@)]
    /\ GiveUpOrSleep(l, c)
    /\ UNCHANGED <<mode, failoverActive, liveFailures, pending, running, stopEvent, loop, queue>>

WakeUp(l, c) ==
    /\ trigger[l][c].stage = "asleep"
    /\ Submit(l, c, queue)
    /\ UNCHANGED <<managerVars, running, stopEvent, loop, working>>

----------------------------------------------------------------------------
(* execute_collection on a thread of the pool.                             *)

(* The future gets its result; whoever still waits for it will see it.     *)
Resolve(l, c, f, result) ==
    IF trigger[l][c].stage = "waiting" /\ trigger[l][c].future = f
    THEN trigger' = [trigger EXCEPT ![l][c].stage = result]
    ELSE UNCHANGED trigger

(* A variant that leaves the question to the trigger.                      *)
RunAnyway(l, c, f) ==
    /\ queue # <<>> /\ Head(queue) = CollectJob(l, c, f)
    /\ Cardinality(working) < MaxWorkers
    /\ queue' = Tail(queue)
    /\ health' = [health EXCEPT ![c].state = "RUNNING"]
    /\ working' = working \cup {CollectJob(l, c, f)}
    /\ UNCHANGED <<trigger, mode, failoverActive, liveFailures, pending, running, stopEvent, loop>>

(* A collector disabled in the meantime returns no packets and records     *)
(* nothing.                                                                *)
StartCollection(l, c, f) ==
    /\ queue # <<>> /\ Head(queue) = CollectJob(l, c, f)
    /\ Cardinality(working) < MaxWorkers
    /\ queue' = Tail(queue)
    /\ IF health[c].enabled
       THEN /\ health' = [health EXCEPT ![c].state = "RUNNING"]
            /\ working' = working \cup {CollectJob(l, c, f)}
            /\ UNCHANGED trigger
       ELSE Resolve(l, c, f, "empty") /\ UNCHANGED <<health, working>>
    /\ UNCHANGED <<mode, failoverActive, liveFailures, pending, running, stopEvent, loop>>

CollectionEnds(l, c, f) ==
    /\ CollectJob(l, c, f) \in working
    /\ working' = working \ {CollectJob(l, c, f)}
    /\ \E result \in {"packets", "empty", "raised"} :
        /\ Resolve(l, c, f, result)
        /\ health' = [health EXCEPT ![c] =
                IF result = "raised" THEN RecordFailure(@) ELSE RecordSuccess(@)]
    /\ UNCHANGED <<mode, failoverActive, liveFailures, pending, running, stopEvent, loop, queue>>

(* An operator's set_source_mode, and the loop of any switch.              *)
ChangeMode ==
    /\ LockFree
    /\ \E m \in Modes : SetSourceMode(m)
    /\ UNCHANGED <<running, stopEvent, loop, trigger, queue, working>>

SwitchCollector(c) ==
    /\ ApplyModeTo(c)
    /\ UNCHANGED <<running, stopEvent, loop, trigger, queue, working>>

LoopStep(l) == LoopEnds(l) \/ BeginCycle(l) \/ EndCycle(l)

(* Of a thread that runs run_collection_cycle or trigger_collector.        *)
TriggerStep(l, c) ==
    \/ LookAgain(l, c) \/ SubmitNext(l, c)
    \/ AttemptReturned(l, c) \/ CallbackCounts(l, c) \/ CallbackReturns(l, c)
    \/ AttemptRaised(l, c) \/ AttemptTimedOut(l, c) \/ WakeUp(l, c)

(* The pool takes the first job of its queue, whatever it is.              *)
PoolTakes ==
    \E l \in Loops, c \in Collectors :
        StartTrigger(l, c) \/ \E f \in Futures : StartCollection(l, c, f)

Next ==
    \/ \E l \in Loops : Start(l) \/ LoopStep(l)
    \/ Stop
    \/ ChangeMode
    \/ \E c \in Collectors : SwitchCollector(c)
    \/ PoolTakes
    \/ \E l \in Loops, c \in Collectors :
          TriggerStep(l, c) \/ \E f \in Futures : CollectionEnds(l, c, f)

Spec == Init /\ [][Next]_vars

(* Threads go on: the pool starts what it can start, attempts that run end *)
(* (the drivers bound their own input and output), waits and sleeps are    *)
(* bounded by timers, a switch begun is gone through with.  A thread that  *)
(* waits for the manager's lock gets it if it is free again and again.     *)
(* Nobody has to start, stop or switch anything.                           *)
Fairness ==
    /\ WF_vars(\E c \in Collectors : SwitchCollector(c))
    /\ WF_vars(PoolTakes)
    /\ \A l \in Loops : SF_vars(LoopStep(l))
    /\ \A l \in Loops, c \in Collectors :
        SF_vars(TriggerStep(l, c)) /\ WF_vars(\E f \in Futures : CollectionEnds(l, c, f))

FairSpec == Spec /\ Fairness

----------------------------------------------------------------------------
(* Properties.                                                             *)

(* Every variable holds a value of its kind; the pool runs no more jobs    *)
(* than it has threads, and an attempt that could not be named would be    *)
(* missed, so a name is always free when a trigger needs one.              *)
TypeOK ==
    /\ health \in [Collectors -> [state : CollectorState, enabled : BOOLEAN,
                                  failures : 0..FailedAfter, healthy : BOOLEAN]]
    /\ mode \in {"SIMULATION", "LIVE", "HYBRID", "FAILOVER"}
    /\ failoverActive \in BOOLEAN /\ liveFailures \in 0..FailoverAfter
    /\ pending \subseteq Collectors
    /\ loop \in [Loops -> {"dead", "between", "cycle"}]
    /\ \A l \in Loops, c \in Collectors : trigger[l][c].attempt \in 0..(MaxRetries + 1)
    /\ Cardinality(working) <= MaxWorkers
    /\ \A l \in Loops, c \in Collectors :
        (\/ trigger[l][c].stage = "asleep"
         \/ Len(queue) > 0 /\ Head(queue) = TriggerJob(l, c)) => FreeFutures(l, c) # {}

(* What a dashboard shows as RUNNING is collecting: neither a late result, *)
(* a disabled collector, a timeout nor a second attempt of the same        *)
(* collector leaves the state behind when the last collection has ended.   *)
RunningIsCollecting ==
    \A c \in Collectors : health[c].state = "RUNNING" =>
        \E l \in Loops, f \in Futures : CollectJob(l, c, f) \in working

(* Source modes are switched by operators and by the failover while jobs   *)
(* are queued, attempts run, triggers sleep and callbacks wait for the     *)
(* lock: a collection only ever starts on a collector the mode in force    *)
(* lets work, or one that the switch to that mode is still to reach.       *)
OnlyTheModeCollects ==
    [][\A l \in Loops, c \in Collectors, f \in Futures :
        CollectJob(l, c, f) \in working' \ working =>
            ModeEnables(mode, failoverActive, c) \/ c \in pending]_vars

(* Triggers hold the threads their own attempts need; a cycle ends even    *)
(* when there are as many collectors as threads, thanks to the timeout.    *)
CyclesEnd == \A l \in Loops : loop[l] = "cycle" ~> loop[l] = "between"

(* Whatever was queued, timed out or asleep when the scheduler was stopped *)
(* for good, its threads end and the pool has nothing left to do.          *)
StoppedIsQuiet ==
    (<>[]~running) => <>[](queue = <<>> /\ working = {} /\ \A l \in Loops : loop[l] = "dead")
=============================================================================
