# Verification of NOC Copilot

TLA+ models of the parts of NOC Copilot in which several actors share state, the
TLC runs that check them on small instances, and theorems about them that the
TLA+ proof system checks for every value of the constants. Paths are relative to
the repository (`agents/...`).

## 1. The system

NOC Copilot watches network telemetry, predicts failures, investigates them with
a set of agents and proposes, or in a lab performs, a switch from one provider to
another. It is one Python process; its concurrency is threads, `RLock`s, thread
pools, an in-process event bus and operators who press buttons.

| Part | State it keeps | Operations | Interacts through |
|---|---|---|---|
| Approval registry (`failover/approval_manager.py`) | approvals, executed plan hashes | request, approve, reject, validate, mark executed | called by the pipeline, the user interface and operators; own lock |
| Failover pipeline (`failover/failover_service.py` and its validator, verifier, rollback engine, adapters) | executed results, adapters | `execute_failover_pipeline` | holds its own lock over a whole call; calls the registry, the adapters, the path decision, the event bus |
| Lab router (`failover/frr_control_plane.py`) | routes of the router (outside the process) | failover, failback, readiness, path verification | `docker exec vtysh` |
| Investigation scheduler (`orchestrator_ai/scheduler.py`, `execution_graph.py`, `execution_monitor.py`) | node statuses, monitor sets | `execute_graph`, worker per node | thread pool per layer, one lock each in graph, monitor, context |
| Orchestration (`orchestrator_ai/orchestration_service.py`, `planner_agent.py`) | none between calls | `orchestrate` | planner, scheduler, evidence registry |
| Adaptive failover (`adaptive_failover/`) | transition state, transition history, transition memory | `process_adaptive_failover_cycle` | own lock over a whole cycle; calls the pipeline synchronously |
| Collectors (`collectors/`) | health of each collector, source mode, failover flag, pool, polling thread | trigger, cycle, start, stop, mode change | one thread pool, callbacks to the manager |
| Incidents (`incident/`) | incident rows, timeline, sequence (SQLite) | process prediction, change status, shutdown | called back by the bus; several callers on one database |
| Recommendation and knowledge (`recommendation/`, `knowledge/`) | recommendations, explanations, sequences (SQLite), a cache | find or create a recommendation, explain it | called back by the bus, in the thread that published the incident |
| Agents (`base/base_agent.py`) | state, counters | initialize, execute, shutdown | concurrent callers |
| Event bus (`events/`) | subscriptions | subscribe, unsubscribe, publish | callbacks outside the lock |
| Investigation context (`orchestrator_ai/investigation_context.py`, `evidence_registry.py`) | outputs of agents, evidence | register, get | read by reasoning, trust and path decision |
| Reasoning, trust, path decision (`reasoning/`, `trust/`, `path_decision/`) | the last decision | one evaluation each | the context's evidence, telemetry; path decision calls reasoning and trust |
| Federated knowledge (`federated_intelligence/`) | pattern index and its file | export, import, search | files |
| Registry, container, metrics (`registry/`, `core/`) | maps | register, resolve | one lock each |
| Topology (`topology/`) | graph, its modification time, statistics | upstream, downstream, blast radius, routes, single points of failure; reload | one lock each in repository and graph; the file is edited from outside |
| Prediction, pre-mortem, retrieval, runtime, multi-site, engine, copilot, simulator, plugins, configuration, user interface | caches, models | sequential computations | called by the above |

`PROJECT.json` lists every part with its files and what is done about it, and the
hazards of the code line by line.

What is hard here:

- **interleavings**: threads in the pipeline against operators who hold a
  different lock; workers of one layer that fail into each other's nodes;
- **failure**: an adapter that raises, a router that takes half of its commands, a
  process that is lost while the router keeps its routes, an agent that raises
  after it was marked complete;
- **staleness**: approvals checked twice with gaps before, between and after; a
  stored result returned for a plan that was tried more than once;
- **order**: which worker's confidence sample is the latest when a layer ends;
- **progress**: a lock held over a whole pipeline, a scheduler that waits for all.

What makes each part correct:

- *registry and pipeline*: nothing is executed without consent to exactly that plan;
  a plan is executed at most once; what is recorded as executed has an answer; a
  reconfigured router has a record; a call returns. 
- *scheduler*: agents run after what they depend on; a failure of a mandatory agent
  reaches all its descendants and nothing else; every agent is settled when the
  run ends; the monitor is never further from the graph than the one report each
  thread has yet to make; every run ends.
- *adaptive failover*: the provider it names is the one of its newest record; unforced
  moves keep the hold time and the hourly limit; it never alarms at a healthy
  provider, nor asks in one cycle to leave the primary and to return to it.
- *collectors*: a cycle ends; a stopped scheduler falls silent; no collection starts that
  the mode in force forbids, but on a collector the switch has still to reach; what
  shows as RUNNING is collecting.
- *incidents*: a row's status has its entry in the timeline and is that of the newest
  one, but for a write-back of what another thread had changed; one repository object
  never hands out a number twice; a shutdown that no execution overlaps is final.
- *recommendation and knowledge*: each record refers to one that exists; an incident
  has one recommendation unless two threads are at it at once.
- *reasoning, trust, path decision*: an automatic action needs agreement and breadth of
  evidence; the worse path is never recommended.
- *topology*: what depends on a device is told exactly; routes are lightest and disjoint
  inside, and none but one past no device is told twice; single points of failure are the
  articulation points; statistics are those
  of the graph.

## 2. Plan

| Step | Modules | Runs | Theorems | State |
|---|---|---|---|---|
| 1 | `ApprovalManager`, `FRRControlPlane`, `FailoverService`, abstract `GovernedExecution` | `failover`, `failover_live` | types, consent, at most once, refinement | done |
| 2 | `DagScheduler`, `PlannerAgent` | `dag` | types, dependency order, containment of failures, completeness, durability | done |
| 3 | `ProviderHealth`, `AdaptiveFailover` over the pipeline's outcomes | `adaptive` | hysteresis, machine and memory, healthy providers, consistent advice | done |
| 4 | `CollectorManager`, `CollectorScheduler` | `collectors` | switches, running collectors, mode in force, types and bounds of the pool | done |
| 5 | `BaseAgent`, `IncidentService`, `IncidentAgent`, `RemediationChain` | `incidents` | types, status, numbering, support, one recommendation, shutdown | done |
| 6 | `Reasoning`, `TrustGate`, `PathDecision`, `DecisionPipeline` | `decisions` | scales, earned autonomy, no worse path | done |
| 7 | `TopologyGraph`, `TopologyRepository` | `topology`, `topology_cache` | exact search, lightest routes, articulation points | done |
| 8 | the remaining invariants of the pipeline and the scheduler | | `ExecutedHasAnswer`, `RouterChangeIsAccounted`, `SkipJustified`, `MonitorAgrees`, `CompletedIsExplained` | done |

Every module takes its parameters as CONSTANTS with named assumptions, has one
action per step of the code, and declares no RECURSIVE operator, so that it can be
proved about: reachability in a graph is the least closed set
(`DagScheduler!Propagated`), not a recursion.

## 3. Modules

### ApprovalManager
State: `approvals` is `_approvals`, `executedPlanHashes` is `_executed_plan_hashes`;
`consented` is a history variable, the approvals that were APPROVED at some moment.
A plan *is* its hash: two plans that `compute_plan_hash` does not tell apart are
one plan. Time is the flag `overdue`, set by `DeadlinePasses`, which stands for
`now > expires_at`. `RequestApproval` is `request_approval` and
`create_approval_request`; `ApproveRequest` is `approve_request`, which never looks
at the status it overwrites; `RejectRequest` is `reject_request` and
`reject_approval` with the key they are given; `ValidateApproval` is
`validate_approval` and `validate_approval_for_execution`, side effects included.

### FRRControlPlane
State: the administrative distances of the static default route via ISP-A. Two
commands go out together; `Reconfigure` applies any prefix of them. The driver
reports failure in its answer and does not raise.

### FailoverService
State: `lock`, the position `pc` and locals `call` of each thread, `results`
(`_executed_results`), and the history variable `applied`.

| Action | Code |
|---|---|
| `Invoke`, `Acquire` | call, `with self._lock`, the raise for production mode |
| `Decide` | path decision (which may raise), plan, idempotent answer or approval request |
| `AutoApprove` | `auto_approve` |
| `CheckStatus`, `CheckHash` | prechecks 11 and 12, with all others folded into `AllPassed` |
| `Execute` | `adapter.execute`, raising or returning |
| `RecordExecuted` | `mark_plan_executed` |
| `Verify`, `Rollback`, `Finish` | verification, rollback engine, audit and storing |
| `OperatorCreates`, `OperatorDecides`, `ClockAdvances` | other callers of the registry, time |
| `Restart` | loss of the process: all but the router is forgotten |

A call is cut where it enters or leaves the registry's lock or touches the router;
between two cuts nobody can see it. The verdict of the checks that look only at
the path decision is the choice `viable`, the readiness probe of the authorized
adapter is chosen anew each time it is made.

### GovernedExecution
What the subsystem promises about a plan without saying how: open, authorised,
ran, recorded; one plan in hand at a time; recorded is final unless the process
is lost. `FailoverService!Governed` maps a plan to its phase from `pc`, `call` and
`executedPlanHashes`.

### ApprovalDesk
The registry with operators alone, for one question: what an operator is told
against what the registry holds.

### DagScheduler, PlannerAgent
State: the graph, `status` and `attempts` per node, `worker` (the future of each
node), the layers submitted so far, the phase of `execute_graph`, whether the
latest confidence sample reaches the target, the four sets of the monitor.

| Action | Code |
|---|---|
| `BeginLayer`, `EndLayer`, `Finish` | the scheduler's thread: a layer submitted, joined, the last one joined |
| `SkipRemaining`, `StopEarly` | the loop of early stopping, one agent at a time, and its end |
| `SkipNode`, `StartNode`, `Unresolved`, `Complete`, `Exhaust` | `update_node_status`, under the graph's lock |
| `OnNodeSkipped`, `OnNodeStarted`, `OnNodeCompleted`, `OnNodeFailed`, `Retry` | the report to the monitor that follows, under the monitor's lock |
| `PropagateFailure` | `propagate_failure`, after the report of the failure |

Between the write and the report the other threads work on and whoever reads the
summary sees the two disagree; `worker` says where each thread is. `Retry` from
"completing" is an exception after the node was marked COMPLETED: nothing but the
count of attempts is written and the agent runs again. `PlannerAgent` gives the graphs of
the three plans, with agent names
shortened.

### ProviderHealth, AdaptiveFailover
`ProviderHealth` is arithmetic: the health index, rounded to one decimal as the monitor
does, its trend against the five newest entries (which count by their number and
their sum, an average being all the monitor takes of them), the monitor's class, the
detector's signals, the adaptive score with its
fifteen points for the active provider, the conditions of failback. Numbers are
exact integers in hundredths.

`AdaptiveFailover` keeps `machine` (state and active provider), `history`
(`_transition_history`, within the hour), `last` (`_last_transition_time`, as an
age) and `memory` (the newest record of `TransitionMemory`). A cycle holds the
service's lock from end to end and is one action: `Watch` asks for nothing,
`FailoverNotDone` and `FailoverDone` are the two outcomes of the pipeline. The four
transitions before the pipeline and the three after it go through `TransitionTo`,
refusals ignored as in the code. Which provider is active is an argument of the
call, so every provider is tried at every cycle. `Elapse` is time.

### CollectorManager, CollectorScheduler
`CollectorManager` holds what the manager and the collectors keep: `health` per
collector, `mode`, `failoverActive`, `liveFailures`, and `pending`, the collectors that
a switch of the mode under way has not reached. `CollectorScheduler` holds the
pool (`queue`, `working`), the polling loop, one `trigger` per loop and collector
and the futures of its attempts. The queue is sorted by priority as the code sorts
it, and where two priorities are equal the order is left open. A future is a name
that is taken again once its attempt has ended and no trigger waits for it.

| Action | Code |
|---|---|
| `Start`, `Stop`, `LoopEnds` | `start`, `stop`, the end of `scheduler_loop` |
| `BeginCycle`, `LookAgain`, `SubmitNext`, `EndCycle` | `run_collection_cycle`: the enabled collectors are listed, each is looked at again, the triggers are submitted one at a time, then all are joined |
| `StartTrigger` | `trigger_collector` gets a thread and submits its attempt to the same pool |
| `AttemptReturned`, `AttemptRaised`, `AttemptTimedOut` | the three ways `future.result` comes back; then `WakeUp` and the next attempt, or the end |
| `CallbackCounts`, `CallbackReturns` | the callback for an empty live result: the mode was looked at without the manager's lock, the count and the failover hold it |
| `StartCollection`, `CollectionEnds` | `execute_collection` in a thread of the pool, whether or not anyone still waits for it |
| `ChangeMode`, `SwitchCollector` | `set_source_mode` writes the mode, then `_apply_mode_to_collectors` goes through the collectors; the failover goes through them too |

The manager's lock is not a variable: it is held while `pending` is not empty or a
callback is "switching" (`LockFree`). What takes only a collector's own lock, an
attempt that gets a thread above all, goes on meanwhile.

### BaseAgent, IncidentService, IncidentAgent, RemediationChain
`BaseAgent` is the state an agent goes through in `execute` and `shutdown`.
`IncidentService` holds the tables (`rows`, `timeline`, the sequence) and what one
call of the repository, the rules and the state machine does to them.
`IncidentAgent` is what happens between the calls: each publisher of a prediction
is called back in its own thread and goes `Find`, `FindFallback`, then `WriteBack`
of the row it read, or `ReadSequence`, `WriteSequence`, `ReadClock`, `Insert`; operators go
`ReadIncident`, `ChangeStatus`; `Unsubscribe` and `Shutdown` are two steps, between
and after which an event that the bus had listed the agent for may still arrive. No lock
is held between two of these. The newest active incident is the one whose thread read
the clock last, which need not be the one with the highest number. `RemediationChain` goes
on in the same thread: the
recommendation (`FindAdvice`, `AmendAdvice` or `NumberAdvice` and `CreateAdvice`),
then its explanation (`LookUpCache`, `FindKnowledge`, `Generate`,
`NumberKnowledge`, `SaveKnowledge`, `CacheKnowledge`). Any call may raise; the handler logs and the
chain ends (`DatabaseRaises`, `ChainBreaks`). Which repository objects share the
database is part of `deployment`, chosen in `Init`.

### Reasoning, TrustGate, PathDecision, DecisionPipeline
The first three are the engines as operators: five competing causes scored from
validated evidence, contradictions and confidence; blast radius, adversarial
verification, counterfactuals and trust score under the autonomy policy; provider
health, path scores and the recommendation. `DecisionPipeline` is the state they
share, the investigation's evidence: `Register`, `Pass` (time), `Reason`, `Trust`
(which takes over the reasoning output it finds), `PathEvaluate` and
`PathConclude`, which reasons anew over the evidence it has itself registered, with
the confidence that the health of each provider leaves it.
`Names` stands for the strings of the evidence (agents, types, paths): the engines
only compare them. `PipelineAssumption` says of the inputs what the code sees to: a
report has a confidence within the scale (`EvidenceRegistry.register` clamps it), is new
when it is registered, and the readings of telemetry are natural numbers with an age and
a risk; which of the other metrics they carry is open.

### TopologyGraph
One call on one graph. A graph does not change once built and each method holds the
graph's lock from end to end, so a step is one turn of a loop and nothing
interleaves; what is nondeterministic is the order of adjacency lists, of Python
sets and of equal entries of the heap.

| State and actions | Code |
|---|---|
| `order`, `head`; `Visit`, `Expanded`, `Searched` | `get_upstream`, `get_downstream`: `order` is the list of results with the queue as its tail from `head` on |
| `dist`, `prev`, `heap`; `BeginPath`, `Relax`, `EndPath`, `SamePlace` | `find_shortest_path` and one turn of `find_redundant_paths` (`_dijkstra_with_blocked`) |
| `paths`, `blocked`; `NoMorePaths` | the loop of `find_redundant_paths` |
| `disc`, `low`, `parent`, `stack`; `Root`, `Descend`, `LookBack`, `Return`, `AllNumbered` | `_find_spofs_in_set`, a frame of `stack` for each call of `dfs` |
| `Searched` | also `calculate_blast_radius`, which searches first and then looks for single points of failure among what it found |

### TopologyRepository
The cache: `graph`, `lastMtime`, `statistics` under `lock`. `Parse` reads the file and
`Stamp`, with the lock still held, its modification time; `Edit` is someone writing
the file at any moment. `get_statistics` is a `get_graph` (`GetCached` or `Parse`,
`Stamp`) and then `Compute` under the lock taken anew.

### MC modules and proofs
`MCFailover`, `MCDag`, `MCAdaptive`, `MCCollectors`, `MCIncidents`, `MCDecisions` and
`MCTopology` give the constants their values. `FailoverProofs`,
`DagSchedulerProofs`, `AdaptiveProofs`, `CollectorProofs`, `RemediationProofs`,
`DecisionProofs` and `TopologyProofs` hold the proofs, `CountingLemmas` what several
of them need of naturals, finite sets and sums.

## 4. Runs

| Run | Shows | Instance |
|---|---|---|
| `failover` | `TypeOK`, `ExecutionIsGoverned`, `AtMostOnce`, `ExecutedHasAnswer`, `RouterChangeIsAccounted`, and that the pipeline implements `GovernedExecution` | 2 threads, 2 plans, 2 approvals, 2 requests, 1 restart; 125,712 states |
| `failover_live` | `EveryCallReturns` | 2 threads, 1 plan, 2 requests; 38,415 states |
| `dag` | the scheduler's seven invariants, `SettledStaysSettled`, `Terminates` | the planner's graphs, every DAG of 3 agents with every choice of mandatory ones, the diamond and two chains of 4; 1 retry, 2 workers; 121,768 states |
| `adaptive` | `NoFlapping`, `MachineFollowsRecords`, `NoContradictoryAdvice`, `HealthyIsLeftAlone` | 2 providers, 108 measurements against 3 pasts, windows of 1, 2 and 4 ticks, 2 unforced moves an hour, up to 3 moves in all; 17,957 states |
| `collectors` | `RunningIsCollecting`, `EnabledMatchesMode`, `OnlyTheModeCollects`, `CyclesEnd`, `StoppedIsQuiet`, types | 2 collectors, 2 threads, 1 polling loop, 1 retry, 2 modes to choose from; 206,326 states |
| `incidents` | `StatusIsExplained`, `OneRepositoryNeverCollides`, `ShutdownIsFinal`, `ChainIsSupported`, `OneAdviceUnlessCrowded` | 2 publishers, 1 operator, 3 deployments, up to 3 predictions and 2 changes, 2 incidents; 1,859,079 states |
| `decisions` | `AutoIsEarned`, `NoWorsePathRecommended`, types | 5 reports of four agents, 4 readings of a provider, one of them old and short of metrics, evidence fresh or 900 s old, 1 path decision; 248,731 states |
| `topology` | `SearchIsExact`, `RoutesAreLightest`, `SpofsAreArticulationPoints` | all networks of cables between 4 devices, all one-way networks of 3 devices with links of weight 1 or 3, two triangles with a common corner, a network with a device that only a link names; every query, every device, known or not, 3 routes; 172,042 states |
| `final_status`, `idempotent_answer`, `refusal`, `topology_cache` | where the code departs from what is written about it (section 7) | as small as the counterexample allows |

Why these bounds are enough: two threads are what it takes to race, since the lock
lets one in and the other waits; two requests are what it takes to submit a plan
again, to run a second plan between, or to have an operator's approval beside the
pipeline's own; one restart shows everything a restart forgets. A third request
only matters for a plan that fails, runs and is asked for again, which is the
instance of `idempotent_answer`. In `dag`, three agents make every shape of
layering up to two workers in a layer, the diamond gives a failure two ways to
reach an agent, two chains leave a layer half skipped, and COMPLEX has five
layers. One retry separates "retried" from "given up". Threads, plans and
approvals are interchangeable, so `failover` uses symmetry; the runs with liveness
do not.

In `adaptive` the measurements lie on both sides of every threshold and the windows
are shortened so that each blocks alone: two moves a hold time apart leave the hourly
limit, of two, as the only thing that stops a third, and the bound of three records has
room for that third, which a hard failure takes. In `collectors` two collectors on two
threads are the pool
that its triggers can fill; four futures are one more than two threads and one retry
(`FuturesAssumption`), so that a name is always free when an attempt needs one, which
`TypeOK` says and section 6 proves. The modes are the one that fails over and one that
lets both collectors work: every switch to or from them turns one collector, on or off,
and the failover turns both. In `incidents` two threads race, a third prediction
comes after, and three deployments separate what a shared repository object
protects from what two do not. In `decisions` there is one report for each fact a
rule looks at, and all subsets of them, of each age, in any order.

In `topology` a cable is the two links of weight 1 that the repository makes of it; the
one-way networks are where upstream and downstream, a light
detour and a heavy link differ; the triangles are where a device with two cycles
through it is a single point of failure that low numbers alone would miss. What a
route should be is read off all ways without a repeated node, which is why the
networks are small.

Deadlock is checked in `adaptive`, `decisions` and `topology`, where a query that got
stuck before its answer would be one. It is not elsewhere: a system whose requests are used
up, and an
investigation that has ended, do stop. That nothing stops before is
`EveryCallReturns`, `Terminates`, `CyclesEnd` and `StoppedIsQuiet`.

Each property is paired in `PROJECT.json` with a change to the code's model, such
as a lock not taken, a hash set overwritten or a propagation that stops at direct
successors, under which TLC finds it violated.

## 5. Fairness

`failover_live`: weak fairness of each thread's next step inside the pipeline, and
of getting the lock. The code blocks nowhere else: path decision is computation,
router commands have timeouts, approval is looked up and never awaited. An
`RLock` is not fair in Python; weak fairness is enough here because a thread that
holds it only waits for itself, and the number of calls is bounded. Operators,
the clock and restarts get no fairness.

`dag`: weak fairness of the scheduler's thread and of each worker. It includes the
assumption that an agent's `execute` returns or raises: the code puts no timeout
on it, and an agent that hangs hangs the investigation.

`collectors`: weak fairness of the pool's taking of its next job, of each collection's
end and of a switch of the mode once begun; strong fairness of the polling loop and
of each trigger, which compete for the manager's lock with operators: a thread that
asks for a lock that is free again and again gets it. A trigger's timeout is among
its steps: `future.result(timeout=...)` is given a
bound by the code, so a trigger comes back even when its collection never gets a
thread. A collection that runs is assumed to return in the end; the drivers that
reach over the network have timeouts of their own. Operators who start, stop and change
modes get none, and
`StoppedIsQuiet` speaks only of a scheduler that is not started again.

## 6. Proofs

`FailoverProofs`, for any finite or infinite sets of threads, plans and approvals,
any number of requests and restarts:

- `TypeCorrect`: `Spec => []TypeOK`
- `Governance`: `Spec => []ExecutionIsGoverned`
- `NoDoubleRun`: `Spec => []AtMostOnce`
- `AnswersKept`: `Spec => []ExecutedHasAnswer`
- `ChangesAccounted`: `Spec => []RouterChangeIsAccounted`
- `Refinement`: `Spec => ImplementsGovernedExecution`

From the assumptions `NoPlanAssumption` and `CallersAssumption` only (the special
values are none of the ordinary ones, the bounds are natural numbers). None but
the first is inductive. The invariant that is, `IInv`, adds:

- `LockHeld`: a thread inside the pipeline is the one that holds the lock. Hence the
  lemma `Alone`: what one call has established, no other call undoes.
- `Bound`: from the approval request on, the call's approval exists and is bound
  to the call's plan; nothing rebinds a record (`RegistryGrows`).
- `Granted`: a call whose check 11 passed, or that is past the prechecks, has an
  approval that was granted at some moment. The record may be REJECTED by now; the
  history cannot be.
- `RanOnce`: for each plan, the runs counted by `applied` are none or one, and
  one exactly when the hash is recorded or a call stands between run and record;
  a plan past check 12 and not yet run is not recorded.

The proof has one lemma per action saying what it changes (`...Effect`), one that
the invariant survives, and `Invariance` puts them together. The two properties of
the stored results speak of the moments between two calls; `Answered` and
`Accounted` say of every moment who owes the answer: a recorded plan has a stored
result of its execution or a call on its way to store one, and only one of them; a
reconfigured router has the stored result of an execution or a call past its
execution. A call whose adapter raised has rolled the router back by the time it
stores its failure (`AnswersInvariance`).

For `Refinement`, a call changes the phase of its own plan at four steps only, the
steps of all others leave every phase alone (`QuietSteps`, `PhaseKept`), and by
`Alone` no other plan is in hand.

`DagSchedulerProofs`, for any set of acyclic graphs over a finite set of agents,
any number of retries and any size of the pool (`DagAssumption`):

- `TypeCorrect`: `Spec => []TypeOK`
- `Order`: `Spec => []DependencyOrder`
- `Containment`: `Spec => []FailureContained`
- `Completeness`: `Spec => []NothingLeftBehind`
- `Durability`: `Spec => SettledStaysSettled`
- `SkipsJustified`: `Spec => []SkipJustified`
- `MonitorCorrect`: `Spec => []MonitorAgrees`
- `CompletionExplained`: `Spec => []CompletedIsExplained`

None of the invariants after the first is inductive: they look at statuses,
and what keeps the statuses right is where each worker and layer stands. `IInv`
adds:

- `Layers`: a submitted node's dependencies were submitted before and have joined;
  outside a layer nobody works but early stopping. Hence `SuccessorsLater`: what depends
  on a node at work has not been submitted, so `propagate_failure` touches nothing a
  worker holds (`ReachedLater`).
- `Story`: what the place of a node's thread, on its way between the graph's lock and
  the monitor's, says about its status, and that a node that has not failed has
  retries left.
- `Ends`: a stopped run has skipped all that was not submitted; a finished one has
  submitted everything (`NextLayerExists`: an acyclic graph always has a next
  layer).
- `Supplied`: a mandatory agent at work has only completed dependencies.
- `Contained`: the nodes skipped before submission are closed under successors, and
  hold the successors of every failed mandatory agent. `Descendants` is the least
  such set, so all descendants are among them. This is the point of the search that
  stops at closed nodes: what lies behind one is in the set already.

Acyclicity is used once, in `NextLayerExists`; `from_plan` raises on a cycle. The last
three theorems add `Caused`: unless the run was stopped, what is skipped lies behind
a failure in the graph (`ReasonsInvariance`). `MonitorAgrees` is shown node by node
(`Told`): a write to the graph leaves the monitor behind and moves the thread to where
it is allowed to be (`ToldWrite`), the report brings it up (`ToldReport`), a retry
reports nothing, and a propagation skips only nodes the monitor knows nothing of
(`ToldPropagation`). `SkipJustified` looks one edge back and
`Caused` all the way; `CompletedIsExplained` needs the second, since the final status
counts failures only.

`AdaptiveProofs`, for two providers, any sets of measurements and pasts, any windows with
`Cooldown <= Hold <= Hour` and any hourly limit (`HealthAssumption`,
`AdaptiveAssumption`):

- `HysteresisHolds`: `Spec => []NoFlapping`
- `MachineAndMemoryAgree`: `Spec => []MachineFollowsRecords`
- `HealthyProviderIsLeftAlone`: `Spec => []HealthyIsLeftAlone`
- `AdviceIsConsistent`: `Spec => []NoContradictoryAdvice`

`NoFlapping` compares records with records, the code compares stamps with now. What
joins the two is `StampsAreRecent` (the stamp of a provider is never older than a
record that names it) and `OldestFirst` (so that the records within the hour before
one are those the code counted when it was made). `MachineFollowsRecords` is
inductive with the types: whatever the transition table refuses on the way, the last
of its seven calls is reached from every state it can be in. The last two are facts
about the thresholds, proved from the bounds of each penalty for all measurements: a
provider at 85 points or more with the loss and risk of a HEALTHY one lacks the
second signal, and one that is fit for failback is above what the detector needs.

`CollectorProofs`, for any finite set of collectors with any priorities, any loops and
modes, any pool and any number of retries (`ManagerAssumption`, `SchedulerAssumption`,
`FuturesAssumption`):

- `SwitchesMatchMode`: `Spec => []EnabledMatchesMode`
- `RunningCollects`: `Spec => []RunningIsCollecting`
- `ModeGovernsCollections`: `Spec => OnlyTheModeCollects`
- `TypesCorrect`: `Spec => []TypeOK`

The first two are inductive together with the types of the manager's fields. Writing
the mode puts every collector among those still to be reached (`SwitchBegins`), each
turn of the loop takes one out as it brings its switch in line (`SwitchStep`), and
every operation of a collector touches its own record only (`OneCollectorStep`). The
third follows from the first and from the second look `execute_collection` takes at the
switch, once it has a thread: the only collection that starts against the mode in force
is one on a collector that the loop has not reached.

`TypesCorrect` needs an account of the pool, `Pool`. Behind a trigger in the queue
there is neither the same trigger nor an attempt of it (`LinedUp`), because a loop
queues its triggers only when those of the cycle before have ended; and of a trigger
no more attempts wait in the queue than it has made, or than the retries of the last
cycle left there (`Fits`). So when a trigger reaches the head of the queue none of
its older attempts waits any more, and those that still run hold a thread each: with
`Room`, at most `MaxWorkers + MaxRetries` are unfinished when the next is named,
however long attempts that timed out go on.

`RemediationProofs`, for any sets of publishers, operators, interfaces, types and
deployments and any bounds (`IncidentAssumption`,
`AgentAssumption`, `ChainAssumption`):

- `TypeCorrect`: `ChainSpec => []TypeOK`
- `StatusCorrect`: `ChainSpec => []StatusIsExplained`
- `SupportCorrect`: `ChainSpec => []ChainIsSupported`
- `OneAdviceCorrect`: `ChainSpec => []OneAdviceUnlessCrowded`
- `NumbersNeverCollide`: `ChainSpec => []OneRepositoryNeverCollides`
- `ShutdownCorrect`: `ChainSpec => []ShutdownIsFinal`

What makes them inductive:

- `StatusIsExplained` is two things. `EntriesExplain` says that what a row shows has its
  entries. `NewestIsShown` says that the newest entry is the status shown, unless a row
  was written back whose status another thread had changed since it was read: a
  write-back either carries the entry of the status it changes to or keeps the status
  it read (`UpdatedIsShown`).
- `WritingIsExplained`: the row a thread is about to write back, however stale, is
  explained by the timeline as it stands now, because the timeline only grows
  (`EntriesStay`, `MoreEntriesExplain`) and a transition writes its entry with the
  row (`ChangedIsExplained`, `WrittenBackIsExplained`).
- `HeldIsStored` and `ChainInv`: a thread on its way down the chain holds an incident,
  and later a recommendation, that is in its table; a number drawn and not yet used
  is above every number stored and belongs to one thread (`Unused`, `OwnNumbers`).
- `Alone`: as long as no two threads were at one incident, a thread that found no
  recommendation, or no explanation, finds none when it comes to create it; a
  thread that works alone repeats nothing after an error, since it searches again.
- `Numbering`: with one repository object at most one thread is between reading
  and writing the sequence, and what it read is what is there.
- `ShutdownIsFinal` is inductive with the types: a shutdown that finds no execution
  leaves nobody who could overwrite TERMINATED (`ShutdownChanges`), and while that state
  stands no callback, however long the bus has had it listed, gets in
  (`OnlyExecutingExecutes`). The subscription plays no part in it.

`DecisionProofs`, for any finite set of reports, any readings, ages and bounds
(`PipelineAssumption`):

- `AutonomyIsEarned`: `Spec => []AutoIsEarned`
- `TypeCorrect`: `Spec => []TypeOK`
- `NoWorsePath`: `Spec => []NoWorsePathRecommended`

The engines add, average and rank over sets of evidence of any size. The sums are those
of the community modules, recursive functions over a set; that they exist and what
bounds them (`CountingLemmas`: `SumExists`, `SumBounds`) is shown by induction in the form
of sets: a set
of naturals with 0 and the successor of each member is all of them (`Induction`), which
follows from the least member (`Least`). Averages and rounded quotients then stay on their
scale, and with them every score.

- `AutoIsEarned` rests on `Doubted`: two contradictions cost 40 points of confidence or
  more, so a conclusion that has them is at 60 or below, which leaves the trust score
  short of 85 with everything else at its best; so does evidence for two causes only,
  for the counterfactuals then lose the points they bring (`GateIsEarned`).
- `NoWorsePathRecommended` rests on monotony: each penalty, health, confidence,
  reliability and the weighted score move with the readings (`PathScoreOrdered`), so a
  backup that is no better in any reading does not score higher, and the primary wins a tie.

`TopologyProofs`, for any set of graphs over any set of devices (`GraphsAssumption`,
`NoNodeAssumption`); for the routes the graphs are finite, their weights naturals
(`FiniteAssumption`) and any number of routes may be asked for (`MaxPathsAssumption`):

- `SearchCorrect`: `Spec => []SearchIsExact`
- `RoutesCorrect`: `Spec => []RoutesAreLightest`
- `SpofsCorrect`: `Spec => []SpofsAreArticulationPoints`

For the searches the invariant has two halves that meet at the end: what was found lies in
every closed
set around the start (`FoundIsReachable`), and everything before `head` has been
expanded (`SearchOK`), so that with `head` behind the last the found are themselves
closed (`FoundIsClosed`). `Closure` is the least closed set, and needs no recursion.

For the routes (`RInv`, `Searching`) a node is settled once no entry of the heap holds
its cost. No settled node costs more than any entry, and all that may follow a settled
node has a cost at most one link above it (`Frontier`). So each way to the target that
is still open meets an entry that costs no more than the way (`WayMeetsFrontier`), and
the target's cost, when it is the lightest entry, is below every way. That it is the
cost of a way rests on the predecessors. They form a tree (`Tree`, stated as induction:
whatever holds the start and is closed under them is everything), so that the chain
from the start exists, is unique and repeats no node (`ChainExists`, `ChainUnique`,
`ChainInjective`), the route the code reads off is that chain (`HopsIsChain`), and its
links add up to the cost (`ChainCosts`). The chain passes settled nodes only, which the
target is not, so no blocked node (`HopsIsAWay`); a stale entry changes nothing, a fresh
one settles its node and cheapens no settled one (`RelaxStale`, `RelaxFresh`). Two routes
with inner nodes have none in common, so they differ; a direct link that was the
lightest once stays the lightest, and wins a tie with a longer route because its end is
reached from the start first (`Straight`, `Plain`, `RepeatedRoutes`).

For the single points of failure (`SInv`, `Depth`) reachability is turned into sets:
a node n `Cuts` when some set of nodes holds one neighbour of n and not another, and no
link leaves the set but to n (`Loose`); that is what the property says
(`CutsIsArticulation`), and it needs no walk. The invariant of the search keeps, frame
by frame: the stack is a branch of the tree (`Spine`); what came after a frame's node
hangs below it (`Nested`); what is finished has no link to the other side of a frame
(`Looked`); `low` is the number of a neighbour of what hangs below and none of those
has a lower one (`Lows`); the children counted are there (`Counted`); and what was
reported cuts, a finished node that was not reported does not, and what is finished
below a frame's node that was not reported lies with what is above it in every set
that is loose of the node (`Judged`). When a call returns, all that came after its node
is one piece of every such set (`Together`), so is the stack above the caller
(`Upwards`), and links lead from the piece only to the stack (`WaysOut`). A low value
that is not below the caller's number therefore leaves the piece loose of the caller
(`ReachesNothing`, `ReportedCuts`), a lower one ties it to the stack above
(`StaysTied`), and a node that returns unreported has all its neighbours on one side
(`FinishedCuts`).

Model-checked only, because out of the prover's reach: `EveryCallReturns`, `Terminates`,
`CyclesEnd`, `StoppedIsQuiet` (liveness under fairness).

## 7. Where the code and what is written about it part

1. `FinalStatusMatchesRouter`: a run ends COMPLETED or ROLLED_BACK whatever the
   router did. No telemetry reaches the verifier, the adapter's answer is filed
   unread, and the rollback's verification is the absence of an exception, while
   `agents/failover/README.md:89,103` speaks of fresh telemetry.
2. `AnswerIsTheExecution`: the idempotent answer is the oldest stored result of the
   hash, which may be a failed attempt (`failover_service.py:205-210`).
3. `RefusalIsBinding`: a refusal by request id is answered REJECTED and changes
   nothing (`approval_manager.py:131-140`).
4. `StatisticsFollowGraph`: `get_statistics` takes the graph and lets go of the lock; a
   reload in between, and the statistics of the old graph are cached beside the new
   one until the file changes again (`topology_repository.py:165-168`).

Met while modelling, and no run's subject:

*Pipeline, scheduler.* The mode does not choose the adapter: a DRY_RUN call that names
the authorized adapter reconfigures the router (`NETWORK_LAB_GUIDE.md:133` speaks of a
non-mutating simulation). "Target confidence achieved" is said of every completed
investigation, whatever its latest confidence (`orchestration_service.py:164-168`).

*Adaptive failover.* A hard failure passes the hold time, the cooldown and the hourly
limit as well, where the docstring speaks of the duration only
(`stability_engine.py:108,115-117`): the reason `NoFlapping` excepts forced moves. A
failover can be recorded from a provider to itself, when the detector asks to leave
the provider the score prefers. Failback is recommended and never executed, so
STABLE_ON_PRIMARY is never reached. An active provider below 80 points asks for
failover even when the detector found nothing (`failover_trigger.py`).

*Collectors.* A live collector that raises or times out never counts toward the
automatic failover, only one that returns nothing does. After the failover the live
collectors are disabled and not tried again until an operator sets a mode, and
setting FAILOVER again is a no-op. An attempt that timed out is recorded a second
time when it ends. While a switch of the mode goes through the collectors, one it has not
reached can still start a collection of the old mode (`collector_manager.py:117`,
`:134-144`; the exception in `OnlyTheModeCollects`), and an empty result of one mode
can be counted toward the failover of another, for the callback looks at the mode
before it takes the lock (`:264`).

*Incidents.* A stale prediction can write an active row over a CLOSED one. Two
predictions at once, or an operator who reopens, make two active incidents of an
interface; a prediction of another type on the interface is merged into the first.
Two repository objects on one database can draw one number; the second insert fails,
the error is logged and the execution counts as a success. The newest active incident
is the one with the latest `created_at`, a clock read after the number is drawn, so it
need not be the one with the highest number. The end of an execution under way at the
shutdown writes READY over TERMINATED, contrary to "transition to TERMINATED state"
(`base_agent.py:247`) and "Cannot execute terminated agent" (`:168`): an event the bus
had listed before is then executed. `ShutdownIsFinal` excepts just this.

*Recommendation and knowledge.* The recommendation agent does not subscribe to
`incident.severity_changed` and `incident.resolved`, which the incident agent publishes
instead of `incident.updated`: an escalation leaves the recommendation's priority as
it was. An explanation is found by its recommendation's number and never refreshed.

*Reasoning, trust, path decision.* An automatic action can rest on two pieces of
evidence and on one contradiction; `AutoIsEarned` is what does hold. The trust agent
takes the reasoning output it finds, whatever evidence came later. The path decision
registers its telemetry under a field the record does not have, so the evidence is
empty, counts as 0 % utilization in the rules for contradictions, and raises the
quality of the evidence as a source of its own. BLOCKED is out of `TrustService`'s
reach. Waiting can turn a refusal into an automatic action: with six agents' reports
(telemetry, prediction of a risk below 15 %, critical incident, topology, recommendation,
knowledge) WAN and HARDWARE tie at 36 while the evidence is fresh, WAN comes first, its
HIGH risk asks for a human; 672 seconds later WAN has 35, HARDWARE wins with LOW risk and
trust 85, which is AUTO_ELIGIBLE. No document says which it should be. Equal paths keep the
current one, and a missing reading counts as a good one.

*Topology.* `find_redundant_paths` promises "node-disjoint paths"
(`topology_graph.py:419`) and a "number of distinct paths" (`:427`). Between direct
neighbours there is no inner node to block, so the direct link is returned until there
are `max_paths` of it; `RoutesAreLightest` says so, and that nothing else is returned
twice. "Directly affected" has several meanings in `calculate_blast_radius`: "reachable
only through origin" (`:273`), "cannot reach any node outside the downstream set without
going through origin" (`:291-292`), "origin was its only upstream" (`:297`), and what the
code does, a device all of whose links come from the origin or from affected devices
(`:298-306`). On a ring, as on every
cabled network the repository builds, the last is every affected device, most of which
can be reached without the origin. The split is not modelled, since there is nothing
definite to check it against. The modification time is read after the file, so an edit
between the two is
never loaded. `analyze_device` takes the graph and the links by separate calls, each
of which may reload.

## 8. Not modelled

- A health index handed to the monitor from outside, which only tests do; the penalty for
  failed verifications that the transition memory keeps, for the service records every
  transition as verified (`adaptive_failover_service.py:194`).
- Texts (templates, prompts, explanations, summaries) and the numeric models behind
  prediction, pre-mortem and retrieval: what they compute is an input, chosen, where
  the models need it.
- Of topology: parsing and merging of the sources, the dependency tree, service impact
  and severity (lookups over the results modelled), the validator, the reports. Calls
  deep enough for Python's recursion limit.
- Multi-site, federated knowledge, workflow orchestrator: sequential
  computations over data of one caller. Their results are inputs of `TrustGate` and
  `PathDecision` (a link is down, a path has single points of failure), or nothing
  modelled reads them.
- Two polling loops at once, which a stop that gives up after three seconds and a
  start can leave: the instance is beyond what TLC finishes; the module has a set of
  loops for it.
- The second `initialize` of an agent and the counters of its executions.
- Continuous verification after an adaptive failover: its verdict is put into the
  cycle's report and nothing acts on it.
- Probes, drivers, HTTP facades, the user interface, data generators: input and output.
- The pipeline's event publication. A subscriber that calls the pipeline from its
  callback would re-enter the `RLock`; no subscriber in the repository does.
- A router command that takes effect after its timeout.
- Several `FailoverService` objects over one router, each with its own registry:
  replay protection is per object (listed under hazards).
- Custom adapters: `register_adapter` accepts them, check 14 refuses them by name;
  they are the name "Unlisted".
- The audit table, which nothing reads back.
