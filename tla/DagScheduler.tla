----------------------------- MODULE DagScheduler -----------------------------
(***************************************************************************)
(* One investigation as OrchestrationService.orchestrate runs it: the DAG  *)
(* of agents built from the plan (execution_graph.py), executed layer by   *)
(* layer on a thread pool (scheduler.py) under the eyes of the monitor     *)
(* (execution_monitor.py).                                                 *)
(*                                                                         *)
(* The scheduler's thread submits a layer and waits for all of it; the     *)
(* workers of a layer run concurrently.  Graph and monitor have a lock     *)
(* each: a thread writes a node's status into the one and reports it to    *)
(* the other in two steps, and whoever looks in between sees the two       *)
(* disagree.                                                               *)
(*                                                                         *)
(* A node's level does not depend on statuses, so the levels that          *)
(* get_execution_levels precomputes are computed here as they are reached. *)
(***************************************************************************)
EXTENDS Naturals, FiniteSets

CONSTANTS
    Nodes,         (* agent names                                          *)
    Graphs,        (* the graphs from_plan may build                       *)
    MaxRetries,    (* retry_count of the plan's agents                     *)
    MaxWorkers     (* max_workers of the scheduler                         *)

(* from_plan raises on a cycle: every set of nodes has one that depends on *)
(* none of the others.  A dependency on an agent outside the plan is no    *)
(* edge and is never waited for.                                           *)
IsDag(g) ==
    /\ g.nodes \subseteq Nodes
    /\ g.mandatory \subseteq g.nodes
    /\ g.deps \in [g.nodes -> SUBSET g.nodes]
    /\ \A S \in SUBSET g.nodes :
           S # {} => \E n \in S : g.deps[n] \cap S = {}

ASSUME DagAssumption ==
    /\ \A g \in Graphs : IsDag(g)
    /\ MaxRetries \in Nat
    /\ MaxWorkers \in Nat \ {0}
    /\ IsFiniteSet(Nodes)

VARIABLES
    graph,       (* nodes, edges and mandatory flags: never change         *)
    status,      (* ExecutionNode.status                                   *)
    attempts,    (* attempts of the agent made so far                      *)
    worker,      (* where the thread is that works on each node            *)
    layered,     (* nodes of the layers submitted so far                   *)
    phase,       (* where execute_graph is                                 *)
    confident,   (* the latest confidence sample is at or over the target  *)
    monitor      (* the node sets of the ExecutionMonitor                  *)

vars == <<graph, status, attempts, worker, layered, phase, confident, monitor>>

PlanStatus == {"PENDING", "RUNNING", "COMPLETED", "FAILED", "SKIPPED"}

Dependencies(n) == graph.deps[n]
Mandatory(n) == n \in graph.mandatory
Successors(n) == {m \in graph.nodes : n \in Dependencies(m)}

Init ==
    /\ graph \in Graphs
    /\ status = [n \in graph.nodes |-> "PENDING"]
    /\ attempts = [n \in graph.nodes |-> 0]
    /\ worker = [n \in graph.nodes |-> "none"]
    /\ layered = {}
    /\ phase = "between"
    /\ confident = FALSE
    /\ monitor = [running |-> {}, completed |-> {}, failed |-> {}, skipped |-> {}]

-----------------------------------------------------------------------------
(* The scheduler's thread.                                                 *)

(* Variant of NextLayer: one dependency in the layers so far is enough.    *)
NextLayerAny ==
    {n \in graph.nodes \ layered :
        Dependencies(n) # {} => Dependencies(n) \cap layered # {}}

(* Kahn's in-degrees: a node is in the next layer when its last dependency *)
(* was in the layers so far.                                               *)
NextLayer == {n \in graph.nodes \ layered : Dependencies(n) \subseteq layered}

BeginLayer ==
    /\ phase = "between"
    /\ NextLayer # {}
    /\ layered' = layered \cup NextLayer
    /\ LET pending == {n \in NextLayer : status[n] = "PENDING"}
       IN  /\ phase' = IF pending = {} THEN "between" ELSE "layer"
           /\ worker' = [n \in graph.nodes |->
                            IF n \in pending THEN "queued" ELSE worker[n]]
    /\ UNCHANGED <<graph, status, attempts, confident, monitor>>

(* Variant of Joined: nodes that were not submitted are waited for too.    *)
JoinedAll == \A n \in layered : worker[n] = "done"

Joined == \A n \in graph.nodes : worker[n] \in {"none", "done"}

(* The early-stopping check once the layer has joined, which the last      *)
(* layer is spared.                                                        *)
EndLayer ==
    /\ phase = "layer"
    /\ Joined
    /\ phase' = IF confident /\ NextLayer # {} THEN "stopping" ELSE "between"
    /\ UNCHANGED <<graph, status, attempts, worker, layered, confident, monitor>>

(* What early stopping skips, and two variants: the next layer only, and   *)
(* everything that did not complete.                                       *)
RemainingNext == {n \in NextLayer : status[n] = "PENDING"}
RemainingFailed == {n \in graph.nodes : status[n] \notin {"COMPLETED", "SKIPPED"}}

Remaining == {n \in graph.nodes \ layered : status[n] = "PENDING"}

(* One turn of the loop over the remaining layers: in the graph first, in  *)
(* the monitor (OnNodeSkipped) before the next turn.                       *)
SkipRemaining(n) ==
    /\ phase = "stopping"
    /\ Joined
    /\ n \in Remaining
    /\ \A d \in Dependencies(n) : status[d] # "PENDING"
    /\ status' = [status EXCEPT ![n] = "SKIPPED"]
    /\ worker' = [worker EXCEPT ![n] = "skipping"]
    /\ UNCHANGED <<graph, attempts, layered, phase, confident, monitor>>

StopEarly ==
    /\ phase = "stopping"
    /\ Joined
    /\ Remaining = {}
    /\ phase' = "stopped"
    /\ UNCHANGED <<graph, status, attempts, worker, layered, confident, monitor>>

Finish ==
    /\ phase = "between"
    /\ NextLayer = {}
    /\ phase' = "finished"
    /\ UNCHANGED <<graph, status, attempts, worker, layered, confident, monitor>>

-----------------------------------------------------------------------------
(* The workers.                                                            *)

(* Nodes whose _execute_single_node is past the start of the node and not  *)
(* at its end.                                                             *)
Executing(n) == worker[n] \in {"starting", "active", "completing"}

Busy == {n \in graph.nodes : worker[n] \notin {"none", "queued", "done"}}

Blocked(n) ==
    /\ Mandatory(n)
    /\ \E d \in Dependencies(n) : status[d] \in {"FAILED", "SKIPPED"}

(* The thread writes the node's status and goes on to report it.           *)
Write(n, newStatus, next) ==
    /\ status' = [status EXCEPT ![n] = newStatus]
    /\ worker' = [worker EXCEPT ![n] = next]
    /\ UNCHANGED <<graph, layered, phase, confident, monitor>>

(* A free worker takes the node from the pool's queue.                     *)
SkipNode(n) ==
    /\ worker[n] = "queued"
    /\ Cardinality(Busy) < MaxWorkers
    /\ Blocked(n)
    /\ Write(n, "SKIPPED", "skipping")
    /\ UNCHANGED attempts

StartNode(n) ==
    /\ worker[n] = "queued"
    /\ Cardinality(Busy) < MaxWorkers
    /\ ~Blocked(n)
    /\ Write(n, "RUNNING", "starting")
    /\ UNCHANGED attempts

(* The agent is not to be found in registry or container.                  *)
Unresolved(n) ==
    /\ worker[n] = "active"
    /\ attempts[n] = 0
    /\ Write(n, "FAILED", "failing")
    /\ UNCHANGED attempts

(* The agent's execute has returned.                                       *)
Complete(n) ==
    /\ worker[n] = "active"
    /\ Write(n, "COMPLETED", "completing")
    /\ UNCHANGED attempts

(* Variant of RetriesLeft: attempts counted from one too late.             *)
RetriesLeftMore(n) == attempts[n] <= MaxRetries

RetriesLeft(n) == attempts[n] + 1 <= MaxRetries

(* An attempt raises: in the agent, or in the extraction of confidence and *)
(* evidence, when the node is COMPLETED already.                           *)
Raises(n) == worker[n] \in {"active", "completing"}

Exhaust(n) ==
    /\ Raises(n)
    /\ ~RetriesLeft(n)
    /\ attempts' = [attempts EXCEPT ![n] = @ + 1]
    /\ Write(n, "FAILED", "failing")

OpenSuccessors(n) == {m \in Successors(n) : status[m] \in {"PENDING", "RUNNING"}}

(* Variants of Propagated: direct successors only; every pending node.     *)
PropagatedDirect(n) == OpenSuccessors(n)
PropagatedAll(n) == {m \in graph.nodes : status[m] = "PENDING"}

(* propagate_failure: what its search reaches from n through nodes that    *)
(* are still open, as the least set closed under its step.                 *)
Propagated(n) ==
    {m \in graph.nodes : \A S \in SUBSET graph.nodes :
        /\ OpenSuccessors(n) \subseteq S
        /\ \A k \in S : OpenSuccessors(k) \subseteq S
        => m \in S}

PropagateFailure(n) ==
    /\ worker[n] = "propagating"
    /\ status' = [m \in graph.nodes |->
                     IF m \in Propagated(n) THEN "SKIPPED" ELSE status[m]]
    /\ worker' = [worker EXCEPT ![n] = "done"]
    /\ UNCHANGED <<graph, attempts, layered, phase, confident, monitor>>

-----------------------------------------------------------------------------
(* The monitor.                                                            *)

(* What on_node_failed leaves in the monitor; the variant forgets to ask   *)
(* whether the agent is tried again.                                       *)
FailedForGood(n, isRetry) ==
    [monitor EXCEPT !.running = @ \ {n}, !.failed = @ \cup {n}]

WithFailure(n, isRetry) ==
    IF isRetry THEN monitor
    ELSE [monitor EXCEPT !.running = @ \ {n}, !.failed = @ \cup {n}]

(* The thread at n, past the write of its status, makes the report.        *)
Report(n, from, to) ==
    /\ worker[n] = from
    /\ worker' = [worker EXCEPT ![n] = to]
    /\ UNCHANGED <<graph, status, layered, phase>>

OnNodeSkipped(n) ==
    /\ Report(n, "skipping", "done")
    /\ monitor' = [monitor EXCEPT !.running = @ \ {n}, !.skipped = @ \cup {n}]
    /\ UNCHANGED <<attempts, confident>>

OnNodeStarted(n) ==
    /\ Report(n, "starting", "active")
    /\ monitor' = [monitor EXCEPT !.running = @ \cup {n}]
    /\ UNCHANGED <<attempts, confident>>

(* The agent's confidence sample becomes the latest one, whichever worker  *)
(* of the layer it comes from.                                             *)
OnNodeCompleted(n) ==
    /\ Report(n, "completing", "done")
    /\ attempts' = [attempts EXCEPT ![n] = @ + 1]
    /\ confident' \in BOOLEAN
    /\ monitor' = [monitor EXCEPT !.running = @ \ {n}, !.completed = @ \cup {n}]

OnNodeFailed(n) ==
    /\ Report(n, "failing", IF Mandatory(n) THEN "propagating" ELSE "done")
    /\ monitor' = WithFailure(n, FALSE)
    /\ UNCHANGED <<attempts, confident>>

(* Nothing is written into the graph but the number of retries.            *)
Retry(n) ==
    /\ Raises(n)
    /\ RetriesLeft(n)
    /\ Report(n, worker[n], "active")
    /\ attempts' = [attempts EXCEPT ![n] = @ + 1]
    /\ monitor' = WithFailure(n, TRUE)
    /\ UNCHANGED confident

-----------------------------------------------------------------------------
WorkerStep(n) ==
    \/ SkipNode(n) \/ StartNode(n) \/ Unresolved(n) \/ Complete(n)
    \/ Exhaust(n) \/ PropagateFailure(n) \/ Retry(n)
    \/ OnNodeSkipped(n) \/ OnNodeStarted(n) \/ OnNodeCompleted(n) \/ OnNodeFailed(n)

Scheduler ==
    \/ BeginLayer \/ EndLayer \/ StopEarly \/ Finish
    \/ \E n \in graph.nodes : SkipRemaining(n)

Next == Scheduler \/ \E n \in graph.nodes : WorkerStep(n)

Spec == Init /\ [][Next]_vars

(* The scheduler's thread and the pool's threads run; an agent's execute   *)
(* comes back (there is no timeout on it in the code).                     *)
FairSpec ==
    /\ Spec
    /\ WF_vars(Scheduler)
    /\ \A n \in Nodes : WF_vars(n \in graph.nodes /\ WorkerStep(n))

Over == phase \in {"stopped", "finished"}

(* Variant of FinalStatus: FAILED only when all mandatory agents failed.   *)
FinalStatusAll ==
    IF \A n \in graph.mandatory : status[n] = "FAILED"
      THEN "FAILED" ELSE "COMPLETED"

(* orchestrate: the investigation's status.                                *)
FinalStatus ==
    IF \E n \in graph.mandatory : status[n] = "FAILED"
      THEN "FAILED" ELSE "COMPLETED"

-----------------------------------------------------------------------------
(* Properties.                                                             *)

Settled == {"COMPLETED", "FAILED", "SKIPPED"}

(* Every variable has its type.                                            *)
TypeOK ==
    /\ graph \in Graphs
    /\ status \in [graph.nodes -> PlanStatus]
    /\ attempts \in [graph.nodes -> 0..(MaxRetries + 1)]
    /\ worker \in [graph.nodes ->
                     {"none", "queued", "skipping", "starting", "active", "completing",
                      "failing", "propagating", "done"}]
    /\ layered \subseteq graph.nodes
    /\ phase \in {"between", "layer", "stopping", "stopped", "finished"}
    /\ confident \in BOOLEAN
    /\ monitor \in [{"running", "completed", "failed", "skipped"}
                       -> SUBSET graph.nodes]

(* An agent executes only when all it depends on is settled, and what did  *)
(* not complete is excused: a mandatory agent has every dependency         *)
(* COMPLETED, an optional one runs past a skipped dependency or a failed   *)
(* optional one, never past a failed mandatory one (execute_graph's layers *)
(* and the dependency check of _execute_single_node together).             *)
DependencyOrder ==
    \A n \in graph.nodes : Executing(n) =>
        \A d \in Dependencies(n) :
            /\ ~Executing(d)
            /\ \/ status[d] = "COMPLETED"
               \/ ~Mandatory(n) /\ status[d] = "SKIPPED"
               \/ ~Mandatory(n) /\ ~Mandatory(d) /\ status[d] = "FAILED"

(* "Mark all downstream dependent nodes of a mandatory failed node as      *)
(* SKIPPED": all of them, however far, although the search of              *)
(* propagate_failure stops at nodes that are no longer open, and from the  *)
(* moment on that the failed node's worker is done.                        *)
Descendants(n) ==
    {m \in graph.nodes : \A S \in SUBSET graph.nodes :
        /\ Successors(n) \subseteq S
        /\ \A k \in S : Successors(k) \subseteq S
        => m \in S}

FailureContained ==
    \A n \in graph.mandatory : status[n] = "FAILED" /\ worker[n] = "done" =>
        \A m \in Descendants(n) : status[m] = "SKIPPED"

(* No agent is skipped for nothing: unless the investigation was stopped   *)
(* early, a skipped agent depends on one that failed or was skipped.       *)
SkipJustified ==
    \A n \in graph.nodes :
        /\ status[n] = "SKIPPED"
        /\ phase \notin {"stopping", "stopped"}
        => \E d \in Dependencies(n) : status[d] \in {"FAILED", "SKIPPED"}

(* When execute_graph returns, every agent of the plan is settled and no   *)
(* worker is left, whichever way the run ended.                            *)
NothingLeftBehind ==
    Over => \A n \in graph.nodes :
                /\ status[n] \in Settled
                /\ worker[n] \in {"none", "done"}

(* Whoever reads the summary at any moment is told of each agent what the  *)
(* graph says, and of one whose thread is between the two locks what the   *)
(* graph said before; a retry is not reported as a failure, a failure is   *)
(* not left running.  Only skips by propagate_failure are never reported.  *)
BetweenLocks(n) == worker[n] \in {"skipping", "starting", "completing", "failing"}

MonitorAgrees ==
    \A n \in graph.nodes :
        /\ n \in monitor.running <=>
              \/ worker[n] = "active"
              \/ BetweenLocks(n) /\ status[n] \in {"COMPLETED", "FAILED"}
        /\ n \in monitor.completed <=> status[n] = "COMPLETED" /\ worker[n] = "done"
        /\ n \in monitor.failed <=> status[n] = "FAILED" /\ ~BetweenLocks(n)
        /\ n \in monitor.skipped <=> status[n] = "SKIPPED" /\ worker[n] = "done"

(* An investigation that ran to its end and is reported COMPLETED ran      *)
(* every mandatory agent to completion, unless an optional agent upstream  *)
(* of the missing one failed.                                              *)
CompletedIsExplained ==
    phase = "finished" /\ FinalStatus = "COMPLETED" =>
        \A n \in graph.mandatory :
            \/ status[n] = "COMPLETED"
            \/ \E d \in graph.nodes \ graph.mandatory :
                  status[d] = "FAILED" /\ n \in Descendants(d)

(* No step takes back a failure or a skip, and a completion only gives way *)
(* to the failure of the very agent that is still being retried.           *)
SettledStaysSettled ==
    [][\A n \in graph.nodes :
          /\ status[n] \in {"FAILED", "SKIPPED"} => status'[n] = status[n]
          /\ status[n] = "COMPLETED" /\ status'[n] # "COMPLETED" =>
                Raises(n) /\ status'[n] = "FAILED"]_vars

(* Every investigation ends.                                               *)
Terminates == <>Over

=============================================================================
