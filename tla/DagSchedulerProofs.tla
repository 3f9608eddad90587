-------------------------- MODULE DagSchedulerProofs --------------------------
(***************************************************************************)
(* For every set of graphs, number of retries and size of the pool: types, *)
(* the order of execution, the reach of failures, what is left when an     *)
(* investigation ends, and what no step takes back.                        *)
(***************************************************************************)
EXTENDS DagScheduler, TLAPS

(* Layers are submitted bottom up and joined before the next; outside them *)
(* only early stopping works on nodes.                                     *)
Layers ==
    \A n \in graph.nodes :
        /\ n \in layered => \A d \in Dependencies(n) :
                               d \in layered /\ worker[d] \in {"none", "done"}
        /\ n \notin layered /\ phase \notin {"stopping", "stopped"} => worker[n] = "none"
        /\ n \notin layered => worker[n] \in {"none", "skipping", "done"}
        /\ n \in layered /\ phase # "layer" => worker[n] \in {"none", "done"}
        /\ phase \notin {"layer", "stopping"} => worker[n] \in {"none", "done"}

(* What the state of a node's worker says about the node.                  *)
StoryAt(n) ==
    /\ worker[n] = "none" =>
          /\ status[n] \in {"PENDING", "SKIPPED"}
          /\ n \in layered => status[n] = "SKIPPED"
    /\ worker[n] = "queued" => status[n] = "PENDING"
    /\ worker[n] = "skipping" => status[n] = "SKIPPED"
    /\ worker[n] = "starting" => status[n] = "RUNNING"
    /\ worker[n] = "active" => status[n] \in {"RUNNING", "COMPLETED"}
    /\ worker[n] = "completing" => status[n] = "COMPLETED"
    /\ worker[n] \in {"failing", "propagating"} => status[n] = "FAILED"
    /\ worker[n] = "propagating" => Mandatory(n)
    /\ worker[n] = "done" => status[n] \in Settled
    /\ n \notin layered => status[n] \in {"PENDING", "SKIPPED"}
    /\ worker[n] \notin {"failing", "propagating", "done"} => attempts[n] <= MaxRetries

Story == \A n \in graph.nodes : StoryAt(n)

(* How the run can be over.                                                *)
Ends ==
    /\ phase = "stopped" =>
          \A n \in graph.nodes \ layered : status[n] = "SKIPPED"
    /\ phase = "finished" => graph.nodes \subseteq layered

(* A mandatory agent that runs has all it depends on.                      *)
Supplied ==
    \A n \in graph.mandatory : Executing(n) =>
        \A d \in Dependencies(n) : status[d] = "COMPLETED"

(* Nodes skipped without ever having been submitted.  With one of them all *)
(* that depends on it is doomed, and with the failure of a mandatory node  *)
(* all that depends on that.                                               *)
Doomed == {n \in graph.nodes : status[n] = "SKIPPED" /\ worker[n] = "none"}

Contained ==
    /\ \A n \in Doomed : Successors(n) \subseteq Doomed
    /\ \A n \in graph.mandatory :
          status[n] = "FAILED" /\ worker[n] = "done" => Successors(n) \subseteq Doomed

IInv == TypeOK /\ Layers /\ Story /\ Ends /\ Supplied /\ Contained

-----------------------------------------------------------------------------
(* The graph.                                                              *)

LEMMA GraphFacts ==
    ASSUME TypeOK
    PROVE  /\ graph.mandatory \subseteq graph.nodes
           /\ \A n \in graph.nodes : Dependencies(n) \subseteq graph.nodes
           /\ \A S \in SUBSET graph.nodes :
                S # {} => \E n \in S : Dependencies(n) \cap S = {}
           /\ MaxRetries \in Nat
  BY DagAssumption DEF TypeOK, IsDag, Dependencies

(* No successor of a node that is at work, or of one that is in no layer   *)
(* yet, is in a layer.                                                     *)
LEMMA SuccessorsLater ==
    ASSUME TypeOK, Layers, NEW n \in graph.nodes,
           n \notin layered \/ worker[n] \notin {"none", "done"}
    PROVE  Successors(n) \cap layered = {}
  BY DEF Layers, Successors

LEMMA ReachedClosed ==
    ASSUME TypeOK, NEW n \in graph.nodes
    PROVE  /\ Propagated(n) \subseteq graph.nodes
           /\ OpenSuccessors(n) \subseteq Propagated(n)
           /\ \A k \in Propagated(n) : OpenSuccessors(k) \subseteq Propagated(n)
           /\ \A S \in SUBSET graph.nodes :
                /\ OpenSuccessors(n) \subseteq S
                /\ \A k \in S : OpenSuccessors(k) \subseteq S
                => Propagated(n) \subseteq S
  BY DEF Propagated, OpenSuccessors, Successors

(* propagate_failure touches nothing that was submitted.                   *)
LEMMA ReachedLater ==
    ASSUME TypeOK, Layers, NEW n \in graph.nodes, worker[n] \notin {"none", "done"}
    PROVE  Propagated(n) \subseteq graph.nodes \ layered
  <1> DEFINE S == graph.nodes \ layered
  <1>1. OpenSuccessors(n) \subseteq S
    BY SuccessorsLater DEF OpenSuccessors, Successors
  <1>2. \A k \in S : OpenSuccessors(k) \subseteq S
    BY SuccessorsLater DEF OpenSuccessors, Successors
  <1>3. S \in SUBSET graph.nodes
    OBVIOUS
  <1> QED
    BY <1>1, <1>2, <1>3, ReachedClosed

(* An unfinished graph has a next layer.                                   *)
LEMMA NextLayerExists ==
    ASSUME TypeOK, NextLayer = {}
    PROVE  graph.nodes \subseteq layered
  <1> SUFFICES ASSUME graph.nodes \ layered # {} PROVE FALSE
    OBVIOUS
  <1> PICK n \in graph.nodes \ layered : Dependencies(n) \cap (graph.nodes \ layered) = {}
    BY GraphFacts
  <1> QED
    BY GraphFacts DEF NextLayer

-----------------------------------------------------------------------------
LEMMA InvInit == Init => IInv
  <1> SUFFICES ASSUME Init PROVE IInv
    OBVIOUS
  <1>1. TypeOK
    <2>1. attempts \in [graph.nodes -> 0..(MaxRetries + 1)]
      BY DagAssumption DEF Init
    <2>2. monitor \in [{"running", "completed", "failed", "skipped"}
                           -> SUBSET graph.nodes]
      BY DEF Init
    <2> QED
      BY <2>1, <2>2 DEF Init, TypeOK, PlanStatus
  <1>2. Layers /\ Ends /\ Supplied
    BY <1>1, GraphFacts DEF Init, Layers, Ends, Supplied, Executing
  <1>3. Story
    BY <1>1, GraphFacts DEF Init, Story, StoryAt, Mandatory
  <1>4. Contained
    BY <1>1, GraphFacts DEF Init, Contained, Doomed
  <1> QED
    BY <1>1, <1>2, <1>3, <1>4 DEF IInv

LEMMA ContainedNext ==
    ASSUME graph' = graph,
           \A n \in Doomed' : Successors(n) \subseteq Doomed',
           \A n \in graph.mandatory :
              status'[n] = "FAILED" /\ worker'[n] = "done" => Successors(n) \subseteq Doomed'
    PROVE  Contained'
  BY DEF Contained, Successors, Dependencies

(* The scheduler's thread.                                                 *)
LEMMA InvBeginLayer ==
    ASSUME IInv, BeginLayer
    PROVE  IInv'
  <1> USE DEF IInv, BeginLayer
  <1>1. TypeOK'
    BY DEF TypeOK, NextLayer
  <1>2. Layers'
    BY GraphFacts DEF TypeOK, Layers, NextLayer, Dependencies
  <1>3. Story'
    BY DEF TypeOK, Layers, Story, StoryAt, NextLayer, Mandatory
  <1>4. Ends'
    BY DEF TypeOK, Ends
  <1>5. Supplied'
    BY GraphFacts DEF TypeOK, Supplied, Layers, NextLayer, Dependencies, Executing
  <1>6. Doomed' = Doomed
    BY DEF TypeOK, Doomed, NextLayer
  <1>7. Contained'
    <2>1. \A n \in graph.nodes : worker'[n] = "done" => worker[n] = "done"
      BY DEF TypeOK
    <2>2. graph' = graph /\ status' = status
      OBVIOUS
    <2>3. \A n \in graph.mandatory :
             status'[n] = "FAILED" /\ worker'[n] = "done" => Successors(n) \subseteq Doomed'
      BY <1>6, <2>1, <2>2, GraphFacts DEF Contained
    <2>4. \A n \in Doomed' : Successors(n) \subseteq Doomed'
      BY <1>6 DEF Contained
    <2> QED
      BY <2>2, <2>3, <2>4, ContainedNext
  <1> QED
    BY <1>1, <1>2, <1>3, <1>4, <1>5, <1>7

LEMMA InvEndLayer ==
    ASSUME IInv, EndLayer
    PROVE  IInv'
  <1> USE DEF IInv, EndLayer
  <1>1. TypeOK' /\ Story' /\ Supplied'
    BY GraphFacts DEF TypeOK, Story, StoryAt, Supplied, Dependencies, Mandatory, Executing
  <1>2. Layers'
    BY DEF TypeOK, Layers, Joined, Dependencies
  <1>3. Ends'
    BY DEF Ends
  <1>4. Contained'
    BY DEF Contained, Doomed, Successors, Dependencies
  <1> QED
    BY <1>1, <1>2, <1>3, <1>4

LEMMA InvSkipRemaining ==
    ASSUME IInv, NEW n \in graph.nodes, SkipRemaining(n)
    PROVE  IInv'
  <1> USE DEF IInv, SkipRemaining
  <1>1. n \notin layered /\ status[n] = "PENDING" /\ worker[n] = "none"
    BY DEF Remaining, Joined, Story, StoryAt, Settled
  <1>2. TypeOK'
    BY DEF TypeOK, PlanStatus
  <1>3. Layers'
    BY <1>1, GraphFacts DEF TypeOK, Layers, Dependencies
  <1>4. Story'
    BY <1>1 DEF TypeOK, Story, StoryAt, Mandatory
  <1>5. Ends'
    BY DEF Ends
  <1>6. Supplied'
    BY <1>1, GraphFacts DEF TypeOK, Supplied, Dependencies, Executing
  <1>7. Doomed' = Doomed
    BY <1>1 DEF TypeOK, Doomed
  <1>8. Contained'
    BY <1>1, <1>7, GraphFacts, ContainedNext DEF TypeOK, Contained
  <1> QED
    BY <1>2, <1>3, <1>4, <1>5, <1>6, <1>8

LEMMA InvStopEarly ==
    ASSUME IInv, StopEarly
    PROVE  IInv'
  <1> USE DEF IInv, StopEarly
  <1>1. TypeOK' /\ Story' /\ Supplied'
    BY GraphFacts DEF TypeOK, Story, StoryAt, Supplied, Dependencies, Mandatory, Executing
  <1>2. Layers'
    BY DEF TypeOK, Layers, Joined, Dependencies
  <1>3. Ends'
    BY DEF Ends, Remaining, Story, StoryAt
  <1>4. Contained'
    BY DEF Contained, Doomed, Successors, Dependencies
  <1> QED
    BY <1>1, <1>2, <1>3, <1>4

LEMMA InvFinish ==
    ASSUME IInv, Finish
    PROVE  IInv'
  <1> USE DEF IInv, Finish
  <1>1. TypeOK' /\ Layers' /\ Story' /\ Supplied'
    BY GraphFacts DEF TypeOK, Layers, Story, StoryAt, Supplied, Dependencies, Mandatory, Executing
  <1>2. Ends'
    BY NextLayerExists DEF Ends
  <1>3. Contained'
    BY DEF Contained, Doomed, Successors, Dependencies
  <1> QED
    BY <1>1, <1>2, <1>3

(* A worker's step that touches its own node only: all but that of         *)
(* PropagateFailure.                                                       *)
NodeMoves(n, s, w) ==
    /\ status' = [status EXCEPT ![n] = s]
    /\ worker' = [worker EXCEPT ![n] = w]
    /\ \A m \in graph.nodes \ {n} : attempts'[m] = attempts[m]
    /\ UNCHANGED <<graph, layered, phase>>

LEMMA NodeStep ==
    ASSUME IInv, TypeOK', NEW n \in graph.nodes, NEW s, NEW w, NodeMoves(n, s, w),
           StoryAt(n)',
           worker[n] \notin {"none", "done"}, w \notin {"none", "queued"},
           worker[n] = "skipping" => w = "done",
           w = "done" /\ Mandatory(n) => s # "FAILED",
           w \in {"starting", "active", "completing"} /\ Mandatory(n) =>
              Executing(n) \/ \A d \in Dependencies(n) : status[d] = "COMPLETED"
    PROVE  IInv'
  <1>1. /\ \A m \in graph.nodes \ {n} : status'[m] = status[m] /\ worker'[m] = worker[m]
        /\ status'[n] = s /\ worker'[n] = w
        /\ graph' = graph /\ layered' = layered /\ phase' = phase
    BY DEF IInv, TypeOK, NodeMoves
  <1>2. \/ n \in layered /\ phase = "layer"
        \/ n \notin layered /\ phase = "stopping" /\ worker[n] = "skipping"
    BY DEF IInv, Layers
  <1>3. Layers'
    BY <1>1, <1>2, GraphFacts DEF IInv, Layers, Dependencies
  <1>4. Story'
    <2> SUFFICES ASSUME NEW m \in graph.nodes \ {n} PROVE StoryAt(m)'
      BY <1>1 DEF Story
    <2>1. StoryAt(m) /\ attempts'[m] = attempts[m]
      BY DEF IInv, Story, NodeMoves
    <2> QED
      BY <1>1, <2>1 DEF StoryAt, Mandatory
  <1>5. Ends'
    BY <1>1, <1>2 DEF IInv, Ends
  <1>6. Supplied'
    <2> SUFFICES ASSUME NEW m \in graph.mandatory, Executing(m)', NEW d \in Dependencies(m)
                 PROVE  status'[d] = "COMPLETED"
      BY <1>1 DEF Supplied, Dependencies
    <2>1. m \in graph.nodes /\ d \in graph.nodes
      BY GraphFacts DEF IInv
    <2>2. m \in layered
      BY <1>1, <1>2, <2>1 DEF IInv, Layers, Executing
    <2>3. d # n
      BY <2>1, <2>2 DEF IInv, Layers
    <2>4. status[d] = "COMPLETED"
      <3>1. CASE m = n
        BY <1>1, <3>1 DEF IInv, Supplied, Mandatory, Executing
      <3>2. CASE m # n
        BY <1>1, <2>1, <3>2 DEF IInv, Supplied, Executing
      <3> QED
        BY <3>1, <3>2
    <2> QED
      BY <1>1, <2>1, <2>3, <2>4
  <1>7. Doomed' = Doomed
    BY <1>1 DEF Doomed
  <1>8. Contained'
    <2>1. ASSUME NEW k \in graph.mandatory, status'[k] = "FAILED", worker'[k] = "done"
          PROVE  Successors(k) \subseteq Doomed'
      BY <1>1, <1>7, <2>1, GraphFacts DEF IInv, Contained, Mandatory
    <2>2. \A k \in Doomed' : Successors(k) \subseteq Doomed'
      BY <1>7 DEF IInv, Contained
    <2> QED
      BY <1>1, <2>1, <2>2, ContainedNext
  <1> QED
    BY <1>3, <1>4, <1>5, <1>6, <1>8 DEF IInv

(* The writes of a status.                                                 *)
LEMMA WriteMoves ==
    ASSUME IInv, NEW n \in graph.nodes, NEW s \in PlanStatus,
           NEW w \in {"skipping", "starting", "completing", "failing"}, Write(n, s, w),
           attempts' \in [graph.nodes -> 0..(MaxRetries + 1)],
           \A m \in graph.nodes \ {n} : attempts'[m] = attempts[m]
    PROVE  /\ NodeMoves(n, s, w) /\ TypeOK'
           /\ status'[n] = s /\ worker'[n] = w /\ layered' = layered
  BY DEF IInv, TypeOK, Write, NodeMoves

LEMMA InvSkipNode ==
    ASSUME IInv, NEW n \in graph.nodes, SkipNode(n)
    PROVE  IInv'
  <1>1. Write(n, "SKIPPED", "skipping") /\ worker[n] = "queued" /\ attempts' = attempts
    BY DEF SkipNode
  <1>2. /\ NodeMoves(n, "SKIPPED", "skipping") /\ TypeOK'
        /\ status'[n] = "SKIPPED" /\ worker'[n] = "skipping" /\ layered' = layered
    BY <1>1, WriteMoves DEF IInv, TypeOK, PlanStatus
  <1>3. StoryAt(n)'
    BY <1>1, <1>2 DEF IInv, Story, StoryAt
  <1> QED
    BY <1>1, <1>2, <1>3, NodeStep

LEMMA InvStartNode ==
    ASSUME IInv, NEW n \in graph.nodes, StartNode(n)
    PROVE  IInv'
  <1>1. Write(n, "RUNNING", "starting") /\ worker[n] = "queued" /\ attempts' = attempts
    BY DEF StartNode
  <1>2. /\ NodeMoves(n, "RUNNING", "starting") /\ TypeOK'
        /\ status'[n] = "RUNNING" /\ worker'[n] = "starting" /\ layered' = layered
    BY <1>1, WriteMoves DEF IInv, TypeOK, PlanStatus
  <1>3. n \in layered
    BY <1>1 DEF IInv, Layers
  <1>4. StoryAt(n)'
    BY <1>1, <1>2, <1>3 DEF IInv, Story, StoryAt
  <1>5. ASSUME Mandatory(n), NEW d \in Dependencies(n)
        PROVE  status[d] = "COMPLETED"
    <2>1. d \in graph.nodes /\ d \in layered /\ worker[d] \in {"none", "done"}
      BY <1>3, GraphFacts DEF IInv, Layers
    <2>2. status[d] \in Settled
      BY <2>1 DEF IInv, Story, StoryAt, Settled
    <2> QED
      BY <1>5, <2>2 DEF StartNode, Blocked, Settled
  <1> QED
    BY <1>1, <1>2, <1>4, <1>5, NodeStep

LEMMA InvComplete ==
    ASSUME IInv, NEW n \in graph.nodes, Complete(n)
    PROVE  IInv'
  <1>1. Write(n, "COMPLETED", "completing") /\ worker[n] = "active" /\ attempts' = attempts
    BY DEF Complete
  <1>2. /\ NodeMoves(n, "COMPLETED", "completing") /\ TypeOK'
        /\ status'[n] = "COMPLETED" /\ worker'[n] = "completing" /\ layered' = layered
    BY <1>1, WriteMoves DEF IInv, TypeOK, PlanStatus
  <1>3. n \in layered
    BY <1>1 DEF IInv, Layers
  <1>4. StoryAt(n)'
    BY <1>1, <1>2, <1>3 DEF IInv, Story, StoryAt
  <1> QED
    BY <1>1, <1>2, <1>4, NodeStep DEF Executing

(* Unresolved and Exhaust.                                                 *)
LEMMA InvFail ==
    ASSUME IInv, NEW n \in graph.nodes, worker[n] \in {"active", "completing"},
           Write(n, "FAILED", "failing"),
           attempts' \in [graph.nodes -> 0..(MaxRetries + 1)],
           \A m \in graph.nodes \ {n} : attempts'[m] = attempts[m]
    PROVE  IInv'
  <1>2. /\ NodeMoves(n, "FAILED", "failing") /\ TypeOK'
        /\ status'[n] = "FAILED" /\ worker'[n] = "failing" /\ layered' = layered
    BY WriteMoves DEF PlanStatus
  <1>3. n \in layered
    BY DEF IInv, Layers
  <1>4. StoryAt(n)'
    BY <1>2, <1>3 DEF StoryAt
  <1> QED
    BY <1>2, <1>4, NodeStep

LEMMA Counting ==
    ASSUME IInv, NEW n \in graph.nodes, worker[n] \in {"active", "completing"},
           attempts' = [attempts EXCEPT ![n] = @ + 1]
    PROVE  /\ attempts' \in [graph.nodes -> 0..(MaxRetries + 1)]
           /\ \A m \in graph.nodes \ {n} : attempts'[m] = attempts[m]
           /\ attempts'[n] = attempts[n] + 1
  <1>1. attempts[n] \in Nat /\ attempts[n] <= MaxRetries /\ MaxRetries \in Nat
    BY GraphFacts DEF IInv, TypeOK, Story, StoryAt
  <1> QED
    BY <1>1 DEF IInv, TypeOK

(* The reports.                                                            *)
LEMMA ReportMoves ==
    ASSUME IInv, NEW n \in graph.nodes, NEW v,
           NEW w \in {"active", "propagating", "done"}, Report(n, v, w),
           \A m \in graph.nodes \ {n} : attempts'[m] = attempts[m]
    PROVE  /\ NodeMoves(n, status[n], w)
           /\ status' = status /\ worker'[n] = w /\ layered' = layered /\ graph' = graph
           /\ phase' = phase
           /\ worker' \in [graph.nodes ->
                     {"none", "queued", "skipping", "starting", "active", "completing",
                      "failing", "propagating", "done"}]
  BY DEF IInv, TypeOK, Report, NodeMoves

LEMMA InvOnNodeSkipped ==
    ASSUME IInv, NEW n \in graph.nodes, OnNodeSkipped(n)
    PROVE  IInv'
  <1>1. Report(n, "skipping", "done") /\ worker[n] = "skipping" /\ attempts' = attempts
    BY DEF OnNodeSkipped, Report
  <1>2. NodeMoves(n, status[n], "done")
    BY <1>1, ReportMoves
  <1>3. /\ status' = status /\ worker'[n] = "done" /\ layered' = layered
        /\ status[n] = "SKIPPED"
    BY <1>1, ReportMoves DEF IInv, Story, StoryAt
  <1>4. TypeOK'
    BY <1>1, ReportMoves DEF IInv, TypeOK, OnNodeSkipped
  <1>5. StoryAt(n)'
    BY <1>3 DEF StoryAt, Settled
  <1> QED
    BY <1>1, <1>2, <1>3, <1>4, <1>5, NodeStep

LEMMA InvOnNodeStarted ==
    ASSUME IInv, NEW n \in graph.nodes, OnNodeStarted(n)
    PROVE  IInv'
  <1>1. Report(n, "starting", "active") /\ worker[n] = "starting" /\ attempts' = attempts
    BY DEF OnNodeStarted, Report
  <1>2. NodeMoves(n, status[n], "active")
    BY <1>1, ReportMoves
  <1>3. /\ status' = status /\ worker'[n] = "active" /\ layered' = layered
        /\ status[n] = "RUNNING" /\ attempts'[n] <= MaxRetries /\ n \in layered
    BY <1>1, ReportMoves DEF IInv, Story, StoryAt, Layers
  <1>4. TypeOK'
    BY <1>1, ReportMoves DEF IInv, TypeOK, OnNodeStarted
  <1>5. StoryAt(n)'
    BY <1>3 DEF StoryAt
  <1> QED
    BY <1>1, <1>2, <1>4, <1>5, NodeStep DEF Executing

LEMMA InvOnNodeCompleted ==
    ASSUME IInv, NEW n \in graph.nodes, OnNodeCompleted(n)
    PROVE  IInv'
  <1>1. Report(n, "completing", "done") /\ worker[n] = "completing"
    BY DEF OnNodeCompleted, Report
  <1>2. /\ attempts' \in [graph.nodes -> 0..(MaxRetries + 1)]
        /\ \A m \in graph.nodes \ {n} : attempts'[m] = attempts[m]
    BY <1>1, Counting DEF OnNodeCompleted
  <1>3. NodeMoves(n, status[n], "done")
    BY <1>1, <1>2, ReportMoves
  <1>4. /\ status' = status /\ worker'[n] = "done" /\ layered' = layered
        /\ status[n] = "COMPLETED" /\ n \in layered
    BY <1>1, <1>2, ReportMoves DEF IInv, Story, StoryAt, Layers
  <1>5. TypeOK'
    BY <1>1, <1>2, ReportMoves DEF IInv, TypeOK, OnNodeCompleted
  <1>6. StoryAt(n)'
    BY <1>4 DEF StoryAt, Settled
  <1> QED
    BY <1>1, <1>3, <1>4, <1>5, <1>6, NodeStep

LEMMA InvOnNodeFailed ==
    ASSUME IInv, NEW n \in graph.nodes, OnNodeFailed(n)
    PROVE  IInv'
  <1> DEFINE w == IF Mandatory(n) THEN "propagating" ELSE "done"
  <1>1. Report(n, "failing", w) /\ worker[n] = "failing" /\ attempts' = attempts
    BY DEF OnNodeFailed, Report
  <1>2. NodeMoves(n, status[n], w)
    BY <1>1, ReportMoves
  <1>3. /\ status' = status /\ worker'[n] = w /\ layered' = layered /\ graph' = graph
        /\ status[n] = "FAILED" /\ n \in layered
    BY <1>1, ReportMoves DEF IInv, Story, StoryAt, Layers
  <1>4. TypeOK'
    BY <1>1, ReportMoves DEF IInv, TypeOK, OnNodeFailed, WithFailure
  <1>5. StoryAt(n)'
    BY <1>3 DEF StoryAt, Settled, Mandatory
  <1> QED
    BY <1>1, <1>2, <1>4, <1>5, NodeStep

LEMMA InvRetry ==
    ASSUME IInv, NEW n \in graph.nodes, Retry(n)
    PROVE  IInv'
  <1>1. Report(n, worker[n], "active") /\ worker[n] \in {"active", "completing"}
    BY DEF Retry, Raises
  <1>2. /\ attempts' \in [graph.nodes -> 0..(MaxRetries + 1)]
        /\ \A m \in graph.nodes \ {n} : attempts'[m] = attempts[m]
        /\ attempts'[n] <= MaxRetries
    BY <1>1, Counting DEF Retry, RetriesLeft
  <1>3. NodeMoves(n, status[n], "active")
    BY <1>1, <1>2, ReportMoves
  <1>4. /\ status' = status /\ worker'[n] = "active" /\ layered' = layered
        /\ status[n] \in {"RUNNING", "COMPLETED"} /\ n \in layered
    BY <1>1, <1>2, ReportMoves DEF IInv, Story, StoryAt, Layers
  <1>5. TypeOK'
    BY <1>1, <1>2, ReportMoves DEF IInv, TypeOK, Retry, WithFailure
  <1>6. StoryAt(n)'
    BY <1>2, <1>4 DEF StoryAt
  <1> QED
    BY <1>1, <1>3, <1>5, <1>6, NodeStep DEF Executing

(* The failed node is done, and what is reached from it is skipped.        *)
LEMMA InvPropagateFailure ==
    ASSUME IInv, NEW n \in graph.nodes, PropagateFailure(n)
    PROVE  IInv'
  <1> USE DEF IInv
  <1>1. /\ n \in layered /\ phase = "layer" /\ Mandatory(n)
        /\ worker[n] = "propagating" /\ status[n] = "FAILED"
    BY DEF PropagateFailure, Layers, Story, StoryAt
  <1>2. Propagated(n) \subseteq graph.nodes \ layered
    BY <1>1, ReachedLater
  <1>3. /\ \A m \in graph.nodes \ {n} :
             /\ worker'[m] = worker[m]
             /\ status'[m] = IF m \in Propagated(n) THEN "SKIPPED" ELSE status[m]
        /\ status'[n] = "FAILED" /\ worker'[n] = "done"
        /\ graph' = graph /\ layered' = layered /\ phase' = phase
        /\ attempts' = attempts /\ confident' = confident /\ monitor' = monitor
    BY <1>1, <1>2 DEF TypeOK, PropagateFailure
  <1>4. TypeOK'
    BY <1>3 DEF TypeOK, PropagateFailure, PlanStatus
  <1>5. Layers'
    BY <1>1, <1>3, GraphFacts DEF Layers, Dependencies
  <1>6. Story'
    <2> SUFFICES ASSUME NEW m \in graph.nodes PROVE StoryAt(m)'
      BY <1>3 DEF Story
    <2>1. StoryAt(m)
      BY DEF Story
    <2>2. m \notin layered => worker[m] = "none"
      BY <1>1 DEF Layers
    <2> QED
      BY <1>1, <1>2, <1>3, <2>1, <2>2 DEF StoryAt, Settled, Mandatory
  <1>7. Ends'
    BY <1>1, <1>3 DEF Ends
  <1>8. Supplied'
    <2> SUFFICES ASSUME NEW m \in graph.mandatory, Executing(m)', NEW d \in Dependencies(m)
                 PROVE  status'[d] = "COMPLETED"
      BY <1>3 DEF Supplied, Dependencies
    <2>1. m \in graph.nodes /\ d \in graph.nodes
      BY GraphFacts
    <2>2. m # n /\ Executing(m)
      BY <1>3, <2>1 DEF Executing
    <2>3. status[d] = "COMPLETED"
      BY <2>2 DEF Supplied
    <2>4. m \in layered
      BY <1>1, <2>1, <2>2 DEF Layers, Executing
    <2>5. d \in layered
      BY <2>1, <2>4 DEF Layers
    <2> QED
      BY <1>1, <1>2, <1>3, <2>1, <2>3, <2>5
  <1>9. Doomed' = Doomed \cup Propagated(n)
    BY <1>1, <1>2, <1>3 DEF Doomed, Layers
  <1>10. Contained'
    <2>1. \A k \in graph.nodes : k = n \/ k \notin layered =>
             Successors(k) \subseteq OpenSuccessors(k) \cup Doomed
      <3> SUFFICES ASSUME NEW k \in graph.nodes, k = n \/ k \notin layered,
                          NEW m \in Successors(k)
                   PROVE  m \in OpenSuccessors(k) \cup Doomed
        OBVIOUS
      <3>1. m \in graph.nodes /\ m \notin layered
        BY <1>1, SuccessorsLater DEF Successors
      <3>2. worker[m] = "none" /\ status[m] \in {"PENDING", "SKIPPED"}
        BY <1>1, <3>1 DEF Layers, Story, StoryAt
      <3> QED
        BY <3>1, <3>2 DEF OpenSuccessors, Doomed
    <2>2. Successors(n) \subseteq Doomed'
      BY <1>9, <2>1, ReachedClosed
    <2>3. ASSUME NEW k \in Doomed'
          PROVE  Successors(k) \subseteq Doomed'
      BY <1>2, <1>9, <2>1, ReachedClosed DEF Contained
    <2>4. ASSUME NEW k \in graph.mandatory, status'[k] = "FAILED", worker'[k] = "done"
          PROVE  Successors(k) \subseteq Doomed'
      BY <1>3, <1>9, <2>2, <2>4, GraphFacts DEF Contained
    <2> QED
      BY <1>3, <2>3, <2>4, ContainedNext
  <1> QED
    BY <1>4, <1>5, <1>6, <1>7, <1>8, <1>10

LEMMA InvStep ==
    ASSUME IInv, [Next]_vars
    PROVE  IInv'
  <1>1. ASSUME NEW n \in graph.nodes, Unresolved(n)
        PROVE  IInv'
    BY <1>1, InvFail DEF IInv, TypeOK, Unresolved
  <1>2. ASSUME NEW n \in graph.nodes, Exhaust(n)
        PROVE  IInv'
    BY <1>2, Counting, InvFail DEF Exhaust, Raises
  <1>3. CASE UNCHANGED vars
    BY <1>3
    DEF vars, IInv, TypeOK, Layers, Story, StoryAt, Ends, Supplied, Contained, Doomed,
        Dependencies, Successors, Mandatory, Executing
  <1> QED
    BY <1>1, <1>2, <1>3, InvBeginLayer, InvEndLayer, InvSkipRemaining, InvStopEarly,
       InvFinish, InvSkipNode, InvStartNode, InvComplete, InvRetry, InvPropagateFailure,
       InvOnNodeSkipped, InvOnNodeStarted, InvOnNodeCompleted, InvOnNodeFailed
    DEF Next, Scheduler, WorkerStep

-----------------------------------------------------------------------------
(* IInv, the types, the layers, the story of each node, how a run ends and *)
(* the two reasons for which FailureContained and DependencyOrder hold, is *)
(* kept by every step of execute_graph and of its workers.                 *)
THEOREM Invariance == Spec => []IInv
  BY InvInit, InvStep, PTL DEF Spec

(* Every variable of an investigation keeps its type; in particular no     *)
(* agent is attempted more than MaxRetries + 1 times.                      *)
THEOREM TypeCorrect == Spec => []TypeOK
  <1>1. IInv => TypeOK
    BY DEF IInv
  <1> QED
    BY <1>1, Invariance, PTL

LEMMA OrderHolds == IInv => DependencyOrder
  <1> SUFFICES ASSUME IInv, NEW n \in graph.nodes, Executing(n),
                      NEW d \in Dependencies(n)
               PROVE  /\ ~Executing(d)
                      /\ \/ status[d] = "COMPLETED"
                         \/ ~Mandatory(n) /\ status[d] = "SKIPPED"
                         \/ ~Mandatory(n) /\ ~Mandatory(d) /\ status[d] = "FAILED"
    BY DEF DependencyOrder
  <1>1. d \in graph.nodes /\ n \in Successors(d)
    BY GraphFacts DEF IInv, Successors
  <1>2. d \in layered /\ worker[d] \in {"none", "done"}
    BY DEF IInv, Layers, Executing
  <1>3. status[d] \in Settled
    BY <1>1, <1>2 DEF IInv, Story, StoryAt, Settled
  <1>4. CASE Mandatory(n)
    BY <1>2, <1>4 DEF IInv, Supplied, Mandatory, Executing
  <1>5. ~(Mandatory(d) /\ status[d] = "FAILED")
    <2>1. status[d] = "FAILED" => worker[d] = "done"
      BY <1>1, <1>2 DEF IInv, Story, StoryAt
    <2> QED
      BY <1>1, <2>1 DEF IInv, Contained, Doomed, Mandatory, Executing
  <1> QED
    BY <1>2, <1>3, <1>4, <1>5 DEF Settled, Executing

(* _execute_single_node never starts an agent before all it depends on is  *)
(* settled, nor past a failure of a mandatory agent, nor a mandatory agent *)
(* past anything that did not complete.                                    *)
THEOREM Order == Spec => []DependencyOrder
  BY OrderHolds, Invariance, PTL

LEMMA ContainmentHolds == IInv => FailureContained
  <1> SUFFICES ASSUME IInv, NEW n \in graph.mandatory, status[n] = "FAILED",
                      worker[n] = "done"
               PROVE  Descendants(n) \subseteq Doomed
    BY DEF FailureContained, Doomed
  <1>1. Doomed \in SUBSET graph.nodes
    BY DEF Doomed
  <1>2. Successors(n) \subseteq Doomed /\ \A k \in Doomed : Successors(k) \subseteq Doomed
    BY DEF IInv, Contained
  <1> QED
    BY <1>1, <1>2 DEF Descendants

(* propagate_failure reaches all that depends on a failed mandatory agent, *)
(* in every graph: its search stops at nodes that are not open, and what   *)
(* lies behind those was skipped before.                                   *)
THEOREM Containment == Spec => []FailureContained
  BY ContainmentHolds, Invariance, PTL

LEMMA CompletenessHolds == IInv => NothingLeftBehind
  <1> SUFFICES ASSUME IInv, Over, NEW n \in graph.nodes
               PROVE  status[n] \in Settled /\ worker[n] \in {"none", "done"}
    BY DEF NothingLeftBehind
  <1>1. worker[n] \in {"none", "done"}
    BY DEF IInv, Layers, Over
  <1>2. n \notin layered => status[n] = "SKIPPED"
    BY DEF IInv, Ends, Over
  <1> QED
    BY <1>1, <1>2 DEF IInv, Story, StoryAt, Settled

(* Whether execute_graph ran out of layers or stopped early, no agent is   *)
(* left pending or running when it returns.                                *)
THEOREM Completeness == Spec => []NothingLeftBehind
  BY CompletenessHolds, Invariance, PTL

LEMMA SettledStep ==
    ASSUME IInv, [Next]_vars, NEW n \in graph.nodes
    PROVE  /\ status[n] \in {"FAILED", "SKIPPED"} => status'[n] = status[n]
           /\ status[n] = "COMPLETED" /\ status'[n] # "COMPLETED" =>
                 Raises(n) /\ status'[n] = "FAILED"
  <1> DEFINE Kept == /\ status[n] \in {"FAILED", "SKIPPED"} => status'[n] = status[n]
                     /\ status[n] = "COMPLETED" /\ status'[n] # "COMPLETED" =>
                           Raises(n) /\ status'[n] = "FAILED"
  <1> USE DEF IInv, TypeOK
  <1>1. CASE UNCHANGED status
    BY <1>1
  <1>2. ASSUME NEW m \in graph.nodes, SkipRemaining(m)
        PROVE  Kept
    BY <1>2 DEF SkipRemaining, Remaining
  <1>3. ASSUME NEW m \in graph.nodes, SkipNode(m)
        PROVE  Kept
    BY <1>3 DEF SkipNode, Write, Story, StoryAt
  <1>4. ASSUME NEW m \in graph.nodes, StartNode(m)
        PROVE  Kept
    BY <1>4 DEF StartNode, Write, Story, StoryAt
  <1>5. ASSUME NEW m \in graph.nodes, Complete(m)
        PROVE  Kept
    BY <1>5 DEF Complete, Write, Story, StoryAt
  <1>6. ASSUME NEW m \in graph.nodes, Raises(m), Write(m, "FAILED", "failing")
        PROVE  Kept
    BY <1>6 DEF Raises, Write, Story, StoryAt
  <1>7. ASSUME NEW m \in graph.nodes, PropagateFailure(m)
        PROVE  Kept
    <2>1. worker[m] = "propagating"
      BY <1>7 DEF PropagateFailure
    <2>2. \A k \in Propagated(m) : status[k] \in {"PENDING", "SKIPPED"}
      BY <2>1, ReachedLater DEF Story, StoryAt
    <2> QED
      BY <1>7, <2>2 DEF PropagateFailure
  <1> QED
    BY <1>1, <1>2, <1>3, <1>4, <1>5, <1>6, <1>7
    DEF Next, Scheduler, WorkerStep, BeginLayer, EndLayer, StopEarly, Finish, Unresolved,
        Exhaust, Raises, OnNodeSkipped, OnNodeStarted, OnNodeCompleted, OnNodeFailed, Retry,
        Report, vars

(* No step of any thread takes back a failure or a skip; a completion only *)
(* gives way to the failure of the agent that is being retried after it.   *)
THEOREM Durability == Spec => SettledStaysSettled
  <1>1. IInv /\ [Next]_vars =>
          [\A n \in graph.nodes :
              /\ status[n] \in {"FAILED", "SKIPPED"} => status'[n] = status[n]
              /\ status[n] = "COMPLETED" /\ status'[n] # "COMPLETED" =>
                    Raises(n) /\ status'[n] = "FAILED"]_vars
    BY SettledStep
  <1> QED
    BY <1>1, Invariance, PTL DEF Spec, SettledStaysSettled

-----------------------------------------------------------------------------
(* Why agents are skipped, and what the monitor and the final status say.  *)

(* Unless the run is stopped, what is skipped lies behind a failure.       *)
Stopping == phase \in {"stopping", "stopped"}

Caused ==
    \A n \in graph.nodes : status[n] = "SKIPPED" /\ ~Stopping =>
        \E f \in graph.nodes : status[f] = "FAILED" /\ n \in Descendants(f)

LEMMA DescendantsClosed ==
    ASSUME TypeOK, NEW n \in graph.nodes
    PROVE  /\ Descendants(n) \subseteq graph.nodes
           /\ Successors(n) \subseteq Descendants(n)
           /\ \A k \in Descendants(n) : Successors(k) \subseteq Descendants(n)
  BY DEF Descendants, Successors

(* The search of propagate_failure stays among the descendants, and comes  *)
(* to each node over an edge from one it has been at.                      *)
LEMMA ReachedDescend ==
    ASSUME TypeOK, NEW n \in graph.nodes
    PROVE  /\ Propagated(n) \subseteq Descendants(n)
           /\ \A m \in Propagated(n) : \E k \in Propagated(n) \cup {n} : k \in Dependencies(m)
  <1>1. Propagated(n) \subseteq Descendants(n)
    BY ReachedClosed, DescendantsClosed DEF OpenSuccessors
  <1>2. \A m \in Propagated(n) : \E k \in Propagated(n) \cup {n} : k \in Dependencies(m)
    <2> DEFINE S == {m \in Propagated(n) : \E k \in Propagated(n) \cup {n} : k \in Dependencies(m)}
    <2>1. S \in SUBSET graph.nodes
      BY ReachedClosed
    <2>2. OpenSuccessors(n) \subseteq S
      BY ReachedClosed DEF OpenSuccessors, Successors
    <2>3. \A k \in S : OpenSuccessors(k) \subseteq S
      BY ReachedClosed DEF OpenSuccessors, Successors
    <2>4. Propagated(n) \subseteq S
      BY <2>1, <2>2, <2>3, ReachedClosed
    <2> QED
      BY <2>4
  <1> QED
    BY <1>1, <1>2

(* The step skips nodes of M only, for a reason, or stops the run.         *)
SkipsWithReason(M) ==
    /\ \A n \in graph.nodes \ M : status'[n] = "SKIPPED" => status[n] = "SKIPPED"
    /\ ~Stopping' => \A n \in M :
          /\ \E d \in Dependencies(n) : status'[d] \in {"FAILED", "SKIPPED"}
          /\ \E f \in graph.nodes : status'[f] = "FAILED" /\ n \in Descendants(f)

(* What had a reason keeps it.                                             *)
LEMMA ReasonsKept ==
    ASSUME IInv, SkipJustified, Caused, [Next]_vars, NEW M, SkipsWithReason(M)
    PROVE  SkipJustified' /\ Caused'
  <1>1. /\ graph' = graph
        /\ ~Stopping' => ~Stopping
    BY DEF Stopping, Next, Scheduler, WorkerStep, BeginLayer, EndLayer, StopEarly, Finish,
           SkipRemaining, SkipNode, StartNode, Unresolved, Complete, Exhaust, Write,
           PropagateFailure, Report, OnNodeSkipped, OnNodeStarted, OnNodeCompleted,
           OnNodeFailed, Retry, vars
  <1>2. \A n \in graph.nodes : status[n] \in {"FAILED", "SKIPPED"} => status'[n] = status[n]
    BY SettledStep
  <1>3. \A n : Descendants(n)' = Descendants(n)
    BY <1>1 DEF Descendants, Successors, Dependencies
  <1>4. ASSUME NEW n \in graph.nodes, status'[n] = "SKIPPED", ~Stopping'
        PROVE  /\ \E d \in Dependencies(n) : status'[d] \in {"FAILED", "SKIPPED"}
               /\ \E f \in graph.nodes : status'[f] = "FAILED" /\ n \in Descendants(f)
    <2>1. CASE n \in M
      BY <1>1, <1>4, <2>1 DEF SkipsWithReason
    <2>2. CASE n \notin M
      BY <1>1, <1>2, <1>4, <2>2, GraphFacts DEF IInv, SkipJustified, Caused, SkipsWithReason, Stopping
    <2> QED
      BY <2>1, <2>2
  <1> QED
    BY <1>1, <1>3, <1>4 DEF SkipJustified, Caused, Dependencies, Stopping

LEMMA ReasonsStep ==
    ASSUME IInv, SkipJustified, Caused, [Next]_vars
    PROVE  \E M : SkipsWithReason(M)
  <1> USE DEF IInv, TypeOK
  <1>1. CASE \A n \in graph.nodes : status'[n] = "SKIPPED" => status[n] = "SKIPPED"
    <2>1. SkipsWithReason({})
      BY <1>1 DEF SkipsWithReason
    <2> QED
      BY <2>1
  <1>2. ASSUME NEW m \in graph.nodes, SkipRemaining(m)
        PROVE  \E M : SkipsWithReason(M)
    <2>1. SkipsWithReason(graph.nodes)
      BY <1>2 DEF SkipsWithReason, SkipRemaining, Stopping
    <2> QED
      BY <2>1
  <1>3. ASSUME NEW m \in graph.nodes, SkipNode(m)
        PROVE  \E M : SkipsWithReason(M)
    <2>1. status' = [status EXCEPT ![m] = "SKIPPED"] /\ status[m] = "PENDING"
      BY <1>3 DEF SkipNode, Write, Story, StoryAt
    <2> PICK d \in Dependencies(m) : status[d] \in {"FAILED", "SKIPPED"}
      BY <1>3 DEF SkipNode, Blocked
    <2>2. d \in graph.nodes /\ d # m /\ m \in Successors(d)
      BY <2>1, GraphFacts DEF Successors
    <2>3. ~Stopping
      BY <1>3 DEF SkipNode, Layers, Stopping
    <2>4. \E f \in graph.nodes : status[f] = "FAILED" /\ m \in Descendants(f)
      <3>1. CASE status[d] = "FAILED"
        BY <2>2, <3>1, DescendantsClosed
      <3>2. CASE status[d] = "SKIPPED"
        BY <2>2, <2>3, <3>2, DescendantsClosed DEF Caused
      <3> QED
        BY <3>1, <3>2
    <2>5. /\ \E e \in Dependencies(m) : status'[e] \in {"FAILED", "SKIPPED"}
          /\ \E f \in graph.nodes : status'[f] = "FAILED" /\ m \in Descendants(f)
      BY <2>1, <2>2, <2>4
    <2>6. SkipsWithReason({m})
      BY <2>1, <2>5 DEF SkipsWithReason
    <2> QED
      BY <2>6
  <1>4. ASSUME NEW m \in graph.nodes, PropagateFailure(m)
        PROVE  \E M : SkipsWithReason(M)
    <2>1. /\ worker[m] = "propagating" /\ status[m] = "FAILED"
          /\ m \in layered
      BY <1>4 DEF PropagateFailure, Layers, Story, StoryAt
    <2>5. Propagated(m) \subseteq graph.nodes \ layered
      BY <2>1, ReachedLater
    <2>2. /\ \A n \in graph.nodes \ {m} :
                status'[n] = IF n \in Propagated(m) THEN "SKIPPED" ELSE status[n]
          /\ status'[m] = "FAILED"
      BY <1>4, <2>1, <2>5 DEF PropagateFailure
    <2>3. ASSUME NEW n \in Propagated(m)
          PROVE  /\ \E d \in Dependencies(n) : status'[d] \in {"FAILED", "SKIPPED"}
                 /\ n \in Descendants(m)
      BY <2>1, <2>2, <2>5, ReachedDescend
    <2>4. SkipsWithReason(Propagated(m))
      BY <2>2, <2>3 DEF SkipsWithReason
    <2> QED
      BY <2>4
  <1> QED
    BY <1>1, <1>2, <1>3, <1>4
    DEF Next, Scheduler, WorkerStep, BeginLayer, EndLayer, StopEarly, Finish, StartNode,
        Unresolved, Complete, Exhaust, Write, Report, OnNodeSkipped, OnNodeStarted,
        OnNodeCompleted, OnNodeFailed, Retry, vars

(* What the monitor says of one node.                                      *)
Told(n) ==
    /\ n \in monitor.running <=>
          \/ worker[n] = "active"
          \/ BetweenLocks(n) /\ status[n] \in {"COMPLETED", "FAILED"}
    /\ n \in monitor.completed <=> status[n] = "COMPLETED" /\ worker[n] = "done"
    /\ n \in monitor.failed <=> status[n] = "FAILED" /\ ~BetweenLocks(n)
    /\ n \in monitor.skipped <=> status[n] = "SKIPPED" /\ worker[n] = "done"

(* A step that leaves a node alone leaves what the monitor says of it.     *)
LEMMA ToldKept ==
    ASSUME NEW n, Told(n), worker'[n] = worker[n], status'[n] = status[n],
           \A x \in {"running", "completed", "failed", "skipped"} :
              n \in monitor'[x] <=> n \in monitor[x]
    PROVE  Told(n)'
  BY DEF Told, BetweenLocks

LEMMA ToldOthers ==
    ASSUME IInv, IInv', MonitorAgrees, NEW n \in graph.nodes, graph' = graph,
           \A m \in graph.nodes \ {n} :
              /\ worker'[m] = worker[m] /\ status'[m] = status[m]
              /\ \A x \in {"running", "completed", "failed", "skipped"} :
                    m \in monitor'[x] <=> m \in monitor[x],
           Told(n)'
    PROVE  MonitorAgrees'
  <1>1. \A m \in graph.nodes \ {n} : Told(m)'
    BY ToldKept DEF MonitorAgrees, Told
  <1> QED
    BY <1>1 DEF MonitorAgrees, Told

LEMMA ToldWrite ==
    ASSUME IInv, IInv', MonitorAgrees, NEW n \in graph.nodes, NEW s, NEW w, Write(n, s, w),
           \/ worker[n] \in {"none", "queued"} /\ s = "SKIPPED" /\ w = "skipping"
           \/ worker[n] \in {"none", "queued"} /\ s = "RUNNING" /\ w = "starting"
           \/ worker[n] = "active" /\ s = "COMPLETED" /\ w = "completing"
           \/ worker[n] \in {"active", "completing"} /\ s = "FAILED" /\ w = "failing"
    PROVE  MonitorAgrees'
  <1>1. /\ status'[n] = s /\ worker'[n] = w /\ graph' = graph /\ monitor' = monitor
        /\ \A m \in graph.nodes \ {n} : worker'[m] = worker[m] /\ status'[m] = status[m]
    BY DEF IInv, TypeOK, Write
  <1>2. Told(n) /\ StoryAt(n)
    BY DEF MonitorAgrees, Told, IInv, Story
  <1>3. Told(n)'
    BY <1>1, <1>2 DEF Told, BetweenLocks, StoryAt
  <1> QED
    BY <1>1, <1>3, ToldOthers

LEMMA ToldReport ==
    ASSUME IInv, IInv', MonitorAgrees, NEW n \in graph.nodes, NEW v, NEW w, Report(n, v, w),
           \/ /\ v = "skipping" /\ w = "done"
              /\ monitor' = [monitor EXCEPT !.running = @ \ {n}, !.skipped = @ \cup {n}]
           \/ /\ v = "starting" /\ w = "active"
              /\ monitor' = [monitor EXCEPT !.running = @ \cup {n}]
           \/ /\ v = "completing" /\ w = "done"
              /\ monitor' = [monitor EXCEPT !.running = @ \ {n}, !.completed = @ \cup {n}]
           \/ /\ v = "failing" /\ w \in {"propagating", "done"}
              /\ monitor' = [monitor EXCEPT !.running = @ \ {n}, !.failed = @ \cup {n}]
           \/ /\ v \in {"active", "completing"} /\ w = "active"
              /\ monitor' = monitor
    PROVE  MonitorAgrees'
  <1>1. /\ status' = status /\ worker[n] = v /\ worker'[n] = w /\ graph' = graph
        /\ \A m \in graph.nodes \ {n} : worker'[m] = worker[m]
    BY DEF IInv, TypeOK, Report
  <1>2. Told(n) /\ StoryAt(n)
    BY DEF MonitorAgrees, Told, IInv, Story
  <1>3. monitor \in [{"running", "completed", "failed", "skipped"} -> SUBSET graph.nodes]
    BY DEF IInv, TypeOK
  <1>4. Told(n)'
    BY <1>1, <1>2, <1>3 DEF Told, BetweenLocks, StoryAt
  <1>5. \A m \in graph.nodes \ {n} :
           \A x \in {"running", "completed", "failed", "skipped"} :
              m \in monitor'[x] <=> m \in monitor[x]
    BY <1>3
  <1> QED
    BY <1>1, <1>4, <1>5, ToldOthers

LEMMA ToldPropagation ==
    ASSUME IInv, IInv', MonitorAgrees, NEW n \in graph.nodes, PropagateFailure(n)
    PROVE  MonitorAgrees'
  <1>1. worker[n] = "propagating" /\ status[n] = "FAILED"
    BY DEF PropagateFailure, IInv, Story, StoryAt
  <1>2. \A m \in Propagated(n) : m # n /\ worker[m] = "none"
    BY <1>1, ReachedLater DEF IInv, Layers, PropagateFailure
  <1>3. /\ \A m \in graph.nodes \ {n} :
             /\ worker'[m] = worker[m]
             /\ status'[m] = IF m \in Propagated(n) THEN "SKIPPED" ELSE status[m]
        /\ status'[n] = "FAILED" /\ worker'[n] = "done"
        /\ graph' = graph /\ monitor' = monitor
    BY <1>1, <1>2 DEF IInv, TypeOK, PropagateFailure
  <1>4. ASSUME NEW m \in graph.nodes
        PROVE  Told(m)'
    <2>1. Told(m) /\ StoryAt(m)
      BY DEF MonitorAgrees, Told, IInv, Story
    <2>2. CASE m = n
      BY <1>1, <1>3, <2>1, <2>2 DEF Told, BetweenLocks
    <2>3. CASE m \in Propagated(n)
      BY <1>2, <1>3, <2>1, <2>3 DEF Told, BetweenLocks, StoryAt
    <2>4. CASE m # n /\ m \notin Propagated(n)
      BY <1>3, <2>1, <2>4 DEF Told, BetweenLocks
    <2> QED
      BY <2>2, <2>3, <2>4
  <1> QED
    BY <1>3, <1>4 DEF MonitorAgrees, Told

LEMMA MonitorStep ==
    ASSUME IInv, MonitorAgrees, [Next]_vars
    PROVE  MonitorAgrees'
  <1>0. IInv'
    BY InvStep
  <1>1. CASE BeginLayer
    <2> DEFINE pending == {n \in NextLayer : status[n] = "PENDING"}
    <2>3. /\ status' = status /\ monitor' = monitor /\ graph' = graph
          /\ worker' = [n \in graph.nodes |-> IF n \in pending THEN "queued" ELSE worker[n]]
      BY <1>1 DEF BeginLayer
    <2>1. \A n \in graph.nodes :
             \/ worker'[n] = worker[n]
             \/ worker'[n] = "queued" /\ status[n] = "PENDING"
      BY <2>3
    <2>2. ASSUME NEW n \in graph.nodes
          PROVE  Told(n)'
      <3>1. Told(n) /\ StoryAt(n)
        BY DEF MonitorAgrees, Told, IInv, Story
      <3>2. CASE worker'[n] = worker[n]
        BY <2>3, <3>1, <3>2 DEF Told, BetweenLocks
      <3>3. CASE worker'[n] = "queued" /\ status[n] = "PENDING"
        BY <2>3, <3>1, <3>3 DEF Told, BetweenLocks, StoryAt
      <3> QED
        BY <2>1, <3>2, <3>3
    <2> QED
      BY <2>3, <2>2 DEF MonitorAgrees, Told
  <1>2. CASE UNCHANGED <<graph, status, worker, monitor>>
    BY <1>2 DEF MonitorAgrees, BetweenLocks
  <1>3. ASSUME NEW n \in graph.nodes, SkipRemaining(n)
        PROVE  MonitorAgrees'
    <2>1. Write(n, "SKIPPED", "skipping") /\ worker[n] = "none"
      BY <1>3 DEF SkipRemaining, Write, Remaining, Joined, IInv, Story, StoryAt, Settled
    <2> QED
      BY <1>0, <2>1, ToldWrite
  <1>4. ASSUME NEW n \in graph.nodes,
               \/ SkipNode(n) \/ StartNode(n) \/ Unresolved(n) \/ Complete(n) \/ Exhaust(n)
        PROVE  MonitorAgrees'
    <2>1. CASE SkipNode(n)
      BY <1>0, <2>1, ToldWrite DEF SkipNode
    <2>2. CASE StartNode(n)
      BY <1>0, <2>2, ToldWrite DEF StartNode
    <2>3. CASE Unresolved(n)
      BY <1>0, <2>3, ToldWrite DEF Unresolved
    <2>4. CASE Complete(n)
      BY <1>0, <2>4, ToldWrite DEF Complete
    <2>5. CASE Exhaust(n)
      BY <1>0, <2>5, ToldWrite DEF Exhaust, Raises
    <2> QED
      BY <1>4, <2>1, <2>2, <2>3, <2>4, <2>5
  <1>5. ASSUME NEW n \in graph.nodes,
               \/ OnNodeSkipped(n) \/ OnNodeStarted(n) \/ OnNodeCompleted(n)
               \/ OnNodeFailed(n) \/ Retry(n)
        PROVE  MonitorAgrees'
    <2>1. CASE OnNodeSkipped(n)
      BY <1>0, <2>1, ToldReport DEF OnNodeSkipped
    <2>2. CASE OnNodeStarted(n)
      BY <1>0, <2>2, ToldReport DEF OnNodeStarted
    <2>3. CASE OnNodeCompleted(n)
      BY <1>0, <2>3, ToldReport DEF OnNodeCompleted
    <2>4. CASE OnNodeFailed(n)
      <3> DEFINE w == IF Mandatory(n) THEN "propagating" ELSE "done"
      <3>1. /\ Report(n, "failing", w) /\ w \in {"propagating", "done"}
            /\ monitor' = [monitor EXCEPT !.running = @ \ {n}, !.failed = @ \cup {n}]
        BY <2>4 DEF OnNodeFailed, WithFailure
      <3> QED
        BY <1>0, <3>1, ToldReport
    <2>5. CASE Retry(n)
      BY <1>0, <2>5, ToldReport DEF Retry, Raises, WithFailure
    <2> QED
      BY <1>5, <2>1, <2>2, <2>3, <2>4, <2>5
  <1>6. ASSUME NEW n \in graph.nodes, PropagateFailure(n)
        PROVE  MonitorAgrees'
    BY <1>0, <1>6, ToldPropagation
  <1> QED
    BY <1>1, <1>2, <1>3, <1>4, <1>5, <1>6
    DEF Next, Scheduler, WorkerStep, EndLayer, StopEarly, Finish, vars

THEOREM ReasonsInvariance == Spec => [](IInv /\ SkipJustified /\ Caused /\ MonitorAgrees)
  <1>1. Init => IInv /\ SkipJustified /\ Caused /\ MonitorAgrees
    <2> SUFFICES ASSUME Init PROVE IInv /\ SkipJustified /\ Caused /\ MonitorAgrees
      OBVIOUS
    <2>1. IInv
      BY InvInit
    <2>2. SkipJustified /\ Caused
      BY DEF Init, SkipJustified, Caused
    <2>3. MonitorAgrees
      BY DEF Init, MonitorAgrees, BetweenLocks
    <2> QED
      BY <2>1, <2>2, <2>3
  <1>2. /\ IInv /\ SkipJustified /\ Caused /\ MonitorAgrees
        /\ [Next]_vars
        => (IInv /\ SkipJustified /\ Caused /\ MonitorAgrees)'
    BY InvStep, ReasonsStep, ReasonsKept, MonitorStep
  <1> QED
    BY <1>1, <1>2, PTL DEF Spec

(* Nothing is skipped for nothing: neither propagate_failure nor the check *)
(* of a mandatory agent's dependencies skips an agent none of whose own    *)
(* dependencies failed or was skipped.                                     *)
THEOREM SkipsJustified == Spec => []SkipJustified
  BY ReasonsInvariance, PTL

(* The four sets of the monitor, which threads write under its lock after  *)
(* they wrote the graph under the graph's, are never further from the      *)
(* graph than the one report each thread has yet to make.                  *)
THEOREM MonitorCorrect == Spec => []MonitorAgrees
  BY ReasonsInvariance, PTL

LEMMA ExplanationHolds == IInv /\ Caused => CompletedIsExplained
  <1> SUFFICES ASSUME IInv, Caused, phase = "finished", FinalStatus = "COMPLETED",
                      NEW n \in graph.mandatory, status[n] # "COMPLETED"
               PROVE  \E d \in graph.nodes \ graph.mandatory :
                         status[d] = "FAILED" /\ n \in Descendants(d)
    BY DEF CompletedIsExplained
  <1>1. \A m \in graph.mandatory : status[m] # "FAILED"
    BY DEF FinalStatus
  <1>2. n \in graph.nodes /\ status[n] \in Settled
    BY CompletenessHolds, GraphFacts DEF IInv, NothingLeftBehind, Over
  <1>3. status[n] = "SKIPPED"
    BY <1>1, <1>2 DEF Settled
  <1>4. PICK f \in graph.nodes : status[f] = "FAILED" /\ n \in Descendants(f)
    BY <1>2, <1>3 DEF Caused, Stopping
  <1> QED
    BY <1>1, <1>4

(* An investigation reported COMPLETED at its end ran every mandatory      *)
(* agent, but those that depend, however far, on an optional one that      *)
(* failed.                                                                 *)
THEOREM CompletionExplained == Spec => []CompletedIsExplained
  BY ExplanationHolds, ReasonsInvariance, PTL
=============================================================================
