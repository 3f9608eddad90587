-------------------------- MODULE TopologyRepository --------------------------
(***************************************************************************)
(* The cache of agents/topology/topology_repository.py: the graph made of  *)
(* topology.clab.yml, the modification time it is thought to be of, and    *)
(* the statistics computed from it, shared by threads while the file is    *)
(* edited.  A version of the file stands for its content, for the graph    *)
(* and the statistics made of it, and for its modification time.           *)
(***************************************************************************)
EXTENDS Integers

CONSTANTS
    Threads,
    MaxEdits,   \* bound on the edits of the file
    None        \* no graph, no statistics, a lock nobody holds

VARIABLES
    file,                               \* version on disk
    graph, lastMtime, statistics,       \* _graph, _last_mtime, _statistics
    lock,                               \* who holds _lock
    pc, call, parsed, got               \* per thread; got is the graph get_graph returned

cache == <<graph, lastMtime, statistics>>
vars == <<file, cache, lock, pc, call, parsed, got>>

Versions == 1 .. MaxEdits + 1

TypeOK ==
    /\ file \in Versions
    /\ graph \in Versions \cup {None} /\ lastMtime \in Versions \cup {0}
    /\ statistics \in Versions \cup {None}
    /\ lock \in Threads \cup {None}
    /\ pc \in [Threads -> {"idle", "get", "stamp", "compute"}]
    /\ call \in [Threads -> {"graph", "statistics", "reload"}]
    /\ parsed \in [Threads -> Versions \cup {None}]
    /\ got \in [Threads -> Versions \cup {None}]

Init ==
    /\ file = 1
    /\ graph = None /\ lastMtime = 0 /\ statistics = None
    /\ lock = None
    /\ pc = [t \in Threads |-> "idle"] /\ call = [t \in Threads |-> "graph"]
    /\ parsed = [t \in Threads |-> None] /\ got = [t \in Threads |-> None]

(* Someone writes topology.clab.yml.                                       *)
Edit ==
    /\ file <= MaxEdits
    /\ file' = file + 1
    /\ UNCHANGED <<cache, lock, pc, call, parsed, got>>

Call(t, op) ==
    /\ pc[t] = "idle" /\ op \in {"graph", "statistics"}
    /\ pc' = [pc EXCEPT ![t] = "get"] /\ call' = [call EXCEPT ![t] = op]
    /\ UNCHANGED <<file, cache, lock, parsed, got>>

(* reload() empties the cache under the lock and calls get_graph after it. *)
Reload(t) ==
    /\ pc[t] = "idle" /\ lock = None
    /\ graph' = None /\ lastMtime' = 0 /\ statistics' = None
    /\ pc' = [pc EXCEPT ![t] = "get"] /\ call' = [call EXCEPT ![t] = "reload"]
    /\ UNCHANGED <<file, lock, parsed, got>>

(* What a caller of get_graph does with the graph it was given.            *)
AfterGet(t) == IF call[t] = "statistics" THEN "compute" ELSE "idle"

GetCached(t) ==
    /\ pc[t] = "get" /\ lock = None
    /\ graph # None /\ lastMtime = file
    /\ got' = [got EXCEPT ![t] = graph]
    /\ pc' = [pc EXCEPT ![t] = AfterGet(t)]
    /\ UNCHANGED <<file, cache, lock, call, parsed>>

(* The file is read while the lock is held, *)
Parse(t) ==
    /\ pc[t] = "get" /\ lock = None
    /\ graph = None \/ lastMtime # file
    /\ lock' = t /\ parsed' = [parsed EXCEPT ![t] = file]
    /\ pc' = [pc EXCEPT ![t] = "stamp"]
    /\ UNCHANGED <<file, cache, call, got>>

(* and its modification time after that.                                   *)
Stamp(t) ==
    /\ pc[t] = "stamp"
    /\ graph' = parsed[t] /\ lastMtime' = file /\ statistics' = None
    /\ lock' = None
    /\ got' = [got EXCEPT ![t] = parsed[t]] /\ parsed' = [parsed EXCEPT ![t] = None]
    /\ pc' = [pc EXCEPT ![t] = AfterGet(t)]
    /\ UNCHANGED <<file, call>>

(* get_statistics takes the lock again for the graph it got before.        *)
Compute(t) ==
    /\ pc[t] = "compute" /\ lock = None
    /\ statistics' = IF statistics # None THEN statistics ELSE got[t]
    /\ pc' = [pc EXCEPT ![t] = "idle"]
    /\ UNCHANGED <<file, graph, lastMtime, lock, call, parsed, got>>

Next ==
    \/ Edit
    \/ \E t \in Threads :
        \/ Reload(t) \/ GetCached(t) \/ Parse(t) \/ Stamp(t) \/ Compute(t)
        \/ \E op \in {"graph", "statistics"} : Call(t, op)

Spec == Init /\ [][Next]_vars

-----------------------------------------------------------------------------
(* When every call has returned, the statistics kept are those of the graph*)
(* kept ("populated from the current graph", topology_repository.py:163;   *)
(* "invalidate cached statistics", :267).  A thread that got its graph     *)
(* before another thread loaded a newer one stores statistics of the old   *)
(* graph over the invalidation, and they stay.                             *)
StatisticsFollowGraph ==
    (\A t \in Threads : pc[t] = "idle") => statistics \in {None, graph}
=============================================================================
