--------------------------- MODULE CollectorManager ---------------------------
(***************************************************************************)
(* The telemetry collectors (agents/collectors/collector_base.py) and the  *)
(* manager that enables them by source mode and fails over to the          *)
(* simulation (collector_manager.py).                                      *)
(*                                                                         *)
(* A collector's operations hold the collector's own lock.  A switch of    *)
(* the source mode holds the manager's lock: it writes the mode and then   *)
(* goes through the collectors one at a time, and collections look at      *)
(* their collector's switch in between.  Operators only: who calls them,   *)
(* and who holds the manager's lock, is said in CollectorScheduler.        *)
(***************************************************************************)
EXTENDS Naturals, Sequences, FiniteSets

CONSTANTS
    Collectors,
    Simulation,       (* the collectors of source type "simulation"        *)
    InitialMode,      (* source_mode of the constructor                    *)
    FailedAfter,      (* consecutive failures that make a collector FAILED *)
    FailoverAfter,    (* empty live results that start the failover        *)
    Modes             (* source modes operators ask for                    *)

ASSUME ManagerAssumption ==
    /\ Simulation \subseteq Collectors
    /\ FailedAfter \in Nat \ {0} /\ FailoverAfter \in Nat \ {0}
    /\ Modes \cup {InitialMode} \subseteq {"SIMULATION", "LIVE", "HYBRID", "FAILOVER"}

VARIABLES
    health,       (* CollectorBase._health and _schedule.enabled           *)
    mode, failoverActive, liveFailures,    (* the manager's fields         *)
    pending       (* the collectors a switch under way has not reached     *)

managerVars == <<health, mode, failoverActive, liveFailures, pending>>

CollectorState == {"READY", "RUNNING", "PAUSED", "DEGRADED", "FAILED"}

(* Beyond its threshold all counts are alike.                              *)
Counted(n, threshold) == IF n < threshold THEN n + 1 ELSE n

SetEnabled(h, enabled) ==
    [h EXCEPT !.enabled = enabled,
              !.state = CASE ~enabled /\ h.state = "RUNNING" -> "PAUSED"
                          [] enabled /\ h.state = "PAUSED"   -> "READY"
                          [] OTHER                           -> h.state]

RecordSuccess(h) == [h EXCEPT !.failures = 0, !.healthy = TRUE, !.state = "READY"]

(* A variant that leaves the state to the next collection.                 *)
CountFailureOnly(h) ==
    LET n == Counted(h.failures, FailedAfter)
    IN  [h EXCEPT !.failures = n, !.healthy = h.healthy /\ n < FailedAfter]

RecordFailure(h) ==
    LET n == Counted(h.failures, FailedAfter)
    IN  [h EXCEPT !.failures = n,
                  !.healthy = h.healthy /\ n < FailedAfter,
                  !.state = IF n >= FailedAfter THEN "FAILED" ELSE "DEGRADED"]

ModeEnables(m, active, c) ==
    CASE m = "SIMULATION" -> c \in Simulation
      [] m = "LIVE"       -> c \notin Simulation
      [] m = "HYBRID"     -> TRUE
      [] m = "FAILOVER"   -> IF active THEN c \in Simulation ELSE c \notin Simulation

(* register_default_collectors: each collector is initialized, then the    *)
(* mode of the constructor is applied, before anything is scheduled.       *)
ManagerInit ==
    /\ mode = InitialMode /\ failoverActive = FALSE /\ liveFailures = 0
    /\ pending = {}
    /\ health = [c \in Collectors |->
                    [state |-> "READY", enabled |-> ModeEnables(InitialMode, FALSE, c),
                     failures |-> 0, healthy |-> TRUE]]

SetSourceMode(m) ==
    /\ m # mode
    /\ mode' = m /\ failoverActive' = FALSE /\ liveFailures' = 0
    /\ pending' = Collectors
    /\ UNCHANGED health

(* A variant that goes through the collectors with the flag of before.     *)
ApplyStaleMode(c) ==
    /\ c \in pending
    /\ pending' = pending \ {c}
    /\ health' = [health EXCEPT ![c] = SetEnabled(@, ModeEnables(mode, FALSE, c))]
    /\ UNCHANGED <<mode, failoverActive, liveFailures>>

(* The loop of a switch reaches one more collector; the code's order is    *)
(* that of the registry, here it is any.                                   *)
ApplyModeTo(c) ==
    /\ c \in pending
    /\ pending' = pending \ {c}
    /\ health' = [health EXCEPT ![c] = SetEnabled(@, ModeEnables(mode, failoverActive, c))]
    /\ UNCHANGED <<mode, failoverActive, liveFailures>>

FailoverDue == mode = "FAILOVER" /\ ~failoverActive /\ Counted(liveFailures, FailoverAfter) >= FailoverAfter

CheckAndHandleLiveFailures ==
    /\ liveFailures' = Counted(liveFailures, FailoverAfter)
    /\ failoverActive' = (failoverActive \/ FailoverDue)
    /\ pending' = IF FailoverDue THEN Collectors ELSE pending
    /\ UNCHANGED <<health, mode>>

(* Which collectors the mode in force lets work; the switch that brings    *)
(* the mode in force may still have to reach some.                         *)
EnabledMatchesMode ==
    \A c \in Collectors \ pending :
        health[c].enabled = ModeEnables(mode, failoverActive, c)
=============================================================================
