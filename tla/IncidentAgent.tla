----------------------------- MODULE IncidentAgent -----------------------------
(***************************************************************************)
(* Predictions published on the event bus reach the incident agent, which  *)
(* creates, updates or resolves incidents, while operators change their    *)
(* status and the agent is shut down (agents/incident/incident_agent.py on *)
(* agents/base/base_agent.py and agents/events/event_bus.py).              *)
(*                                                                         *)
(* The bus calls back in the publisher's thread, outside its lock, from a  *)
(* list taken under it.  Neither the agent nor the service holds a lock    *)
(* across a prediction: between two repository calls anything may happen.  *)
(* The agent's own events are published in the same thread; what listens   *)
(* to them is in RemediationChain.                                         *)
(***************************************************************************)
EXTENDS IncidentService, BaseAgent

CONSTANTS
    Publishers,       (* threads that publish predictions                  *)
    Operators,        (* threads that change statuses                      *)
    Risks,            (* risk scores predictions carry, in percent         *)
    Targets,          (* statuses operators ask for                        *)
    Deployments       (* what is set up and how long it is watched: which
                         repository object each publisher's agent uses on
                         the one database (repositoryOf), whether the
                         recommendation and knowledge agents listen
                         (remediation), and the bounds: predictions, changes *)

ASSUME AgentAssumption ==
    /\ Publishers \cap Operators = {}
    /\ Targets \subseteq IncidentStatus
    /\ \A d \in Deployments : {d.predictions, d.changes} \subseteq Nat
                               /\ d.remediation \in BOOLEAN

VARIABLES
    deployment,       (* one of Deployments, never changed                 *)
    agent,            (* BaseAgent._metrics                                *)
    stop,             (* how far the shutdown is: no, unsubscribed, down   *)
    overlapped,       (* history: it found an execution under way          *)
    clock,            (* the clock, in readings                            *)
    pc, local,        (* where each thread is, and its local variables     *)
    collided,         (* history: an id or the sequence's row was taken    *)
    predictions, changes     (* counters of the bounds                     *)

vars == <<incidentVars, deployment, agent, stop, overlapped, clock, pc, local,
          collided, predictions, changes>>

NoLocal == [interface |-> "none", type |-> "none", risk |-> 0, incident |-> 0, row |-> NoRow,
            next |-> 0, created |-> 0, advice |-> 0, knowledge |-> 0]

Executing == {"find", "fallback", "decide", "read", "number", "stamp", "insert", "end",
              "advise", "amend", "numberAdvice", "create", "explain", "lookup",
              "generate", "numberResult", "save", "cache"}

Threads == Publishers \cup Operators

Init ==
    /\ IncidentInit
    /\ deployment \in Deployments
    /\ agent = NewAgent /\ stop = "no" /\ overlapped = FALSE /\ clock = 0
    /\ pc = [t \in Threads |-> "idle"]
    /\ local = [t \in Threads |-> NoLocal]
    /\ collided = FALSE /\ predictions = 0 /\ changes = 0

Remember(t, l) == local' = [local EXCEPT ![t] = l]
Goto(t, stage) == pc' = [pc EXCEPT ![t] = stage]
Only(stays) == UNCHANGED <<deployment, stop, overlapped, clock, changes, stays>>

----------------------------------------------------------------------------
(* A prediction, from the publisher's publish to the end of the callback.  *)

(* The bus lists the subscribers.  Once the agent is unsubscribed, a       *)
(* prediction reaches nobody; one listed before is still called back.      *)
Publish(t) ==
    /\ pc[t] = "idle" /\ stop = "no" /\ predictions < deployment.predictions
    /\ \E iface \in Interfaces, ty \in Types, risk \in Risks :
        Remember(t, [NoLocal EXCEPT !.interface = iface, !.type = ty, !.risk = risk])
    /\ predictions' = predictions + 1
    /\ Goto(t, "notified")
    /\ Only(<<incidentVars, agent, collided>>)

ExecuteBegin(t) ==
    /\ pc[t] = "notified"
    /\ IF MayExecute(agent)
       THEN agent' = ExecuteBegins(agent) /\ Goto(t, "find")
       ELSE Goto(t, "idle") /\ UNCHANGED agent
    /\ Only(<<incidentVars, local, collided, predictions>>)

Take(t, found) ==
    \E i \in found : Remember(t, [local[t] EXCEPT !.incident = i, !.row = rows[i]])

Find(t) ==
    /\ pc[t] = "find"
    /\ LET found == FindActive(local[t].interface, {local[t].type})
       IN  \/ Take(t, found) /\ Goto(t, "decide")
           \/ found = {} /\ Goto(t, "fallback") /\ UNCHANGED local
    /\ Only(<<incidentVars, agent, collided, predictions>>)

(* Any type of the interface; without one, a low risk is ignored.  The     *)
(* sequence is read when a new incident is to be numbered.                 *)
FindFallback(t) ==
    /\ pc[t] = "fallback"
    /\ LET found == FindActive(local[t].interface, Types)
       IN  \/ Take(t, found) /\ Goto(t, "decide")
           \/ /\ found = {} /\ UNCHANGED local
              /\ Goto(t, IF ShouldCreate(local[t].risk) THEN "read" ELSE "end")
    /\ Only(<<incidentVars, agent, collided, predictions>>)

(* Who listens to the event of an incident: a changed severity and a       *)
(* resolution have topics of their own, to which nobody subscribes.        *)
Listening(topic) == deployment.remediation /\ topic \in {"created", "updated"}

(* Resolve or update what was read, whatever it has become.                *)
WriteBack(t) ==
    /\ pc[t] = "decide"
    /\ LET l     == local[t]
           heals == ShouldAutoResolve(l.risk)
           row   == IF heals THEN Transition(l.row, "RESOLVED")
                             ELSE [l.row EXCEPT !.severity = MapRiskToSeverity(l.risk)]
           topic == IF heals THEN "resolved"
                    ELSE IF row.severity # l.row.severity THEN "severity_changed"
                    ELSE "updated"
       IN  /\ UpdateIncident(l.incident, l.row, row, IF heals THEN {"RESOLVED"} ELSE {})
           /\ Remember(t, [l EXCEPT !.row = row])
           /\ Goto(t, IF Listening(topic) THEN "advise" ELSE "end")
    /\ Only(<<agent, collided, predictions>>)

(* A variant without the repository's lock.                                *)
UnlockedRead(t) ==
    /\ pc[t] = "read"
    /\ Remember(t, [local[t] EXCEPT !.next = seq])
    /\ Goto(t, "number")
    /\ Only(<<incidentVars, agent, collided, predictions>>)

(* generate_next_id up to its SELECT, with the repository's lock taken.    *)
ReadSequence(t) ==
    /\ pc[t] = "read"
    /\ \A u \in Publishers : pc[u] = "number" => deployment.repositoryOf[u] # deployment.repositoryOf[t]
    /\ Remember(t, [local[t] EXCEPT !.next = seq])
    /\ Goto(t, "number")
    /\ Only(<<incidentVars, agent, collided, predictions>>)

(* Its UPDATE, or the INSERT of the year's first number, which raises if   *)
(* another connection was first.                                           *)
WriteSequence(t) ==
    /\ pc[t] = "number" /\ local[t].next < MaxIncidents
    /\ LET taken == local[t].next = 0 /\ seq # 0
       IN  /\ seq' = IF taken THEN seq ELSE local[t].next + 1
           /\ Goto(t, IF taken THEN "end" ELSE "stamp")
           /\ collided' = (collided \/ taken)
    /\ Only(<<rows, timeline, newest, undone, agent, local, predictions>>)

(* The record is made between two calls: threads that create at once can   *)
(* read the clock in another order than they were numbered.                *)
ReadClock(t) ==
    /\ pc[t] = "stamp"
    /\ clock' = clock + 1
    /\ Remember(t, [local[t] EXCEPT !.created = clock'])
    /\ Goto(t, "insert")
    /\ UNCHANGED <<incidentVars, deployment, agent, stop, overlapped, collided,
                   predictions, changes>>

Insert(t) ==
    LET l == local[t]
        i == l.next + 1
        row == [interface |-> l.interface, type |-> l.type, status |-> "OPEN",
                severity |-> MapRiskToSeverity(l.risk), resolved |-> FALSE, closed |-> FALSE,
                created |-> l.created]
    IN  /\ pc[t] = "insert"
        /\ \/ /\ CreateIncident(i, row)
              /\ Remember(t, [l EXCEPT !.incident = i, !.row = row])
              /\ Goto(t, IF Listening("created") THEN "advise" ELSE "end")
              /\ UNCHANGED collided
           \/ /\ rows[i] # NoRow /\ collided' = TRUE
              /\ Goto(t, "end")
              /\ UNCHANGED <<incidentVars, local>>
        /\ Only(<<agent, predictions>>)

(* The database raises: the item is dropped, the execution goes on.        *)
DatabaseRaises(t) ==
    /\ pc[t] \in {"find", "fallback", "decide", "read", "number", "insert"}
    /\ Goto(t, "end")
    /\ Only(<<incidentVars, agent, local, collided, predictions>>)

(* Errors of an item are swallowed: the execution succeeds.                *)
ExecuteEnd(t) ==
    /\ pc[t] = "end"
    /\ agent' = ExecuteEnds(agent, TRUE)
    /\ Goto(t, "idle")
    /\ Remember(t, NoLocal)
    /\ Only(<<incidentVars, collided, predictions>>)

----------------------------------------------------------------------------
(* Operators and the agent's end.                                          *)

ReadIncident(t) ==
    /\ pc[t] = "idle" /\ changes < deployment.changes
    /\ \E i \in IncidentId :
        /\ rows[i] # NoRow
        /\ Remember(t, [local[t] EXCEPT !.incident = i, !.row = rows[i]])
    /\ changes' = changes + 1
    /\ Goto(t, "change")
    /\ UNCHANGED <<incidentVars, deployment, agent, stop, overlapped, clock, collided,
                   predictions>>

(* A transition to the status read is written back as it was read; an      *)
(* illegal one raises before anything is written.                          *)
ChangeStatus(t) ==
    /\ pc[t] = "change"
    /\ LET l == local[t]
       IN  \E to \in Targets :
            IF CanTransition(l.row.status, to)
            THEN UpdateIncident(l.incident, l.row, Transition(l.row, to), {to} \ {l.row.status})
            ELSE UNCHANGED incidentVars
    /\ Goto(t, "idle")
    /\ Remember(t, NoLocal)
    /\ Only(<<agent, collided, predictions>>)

(* The agent's shutdown drops the subscription, then the base class's      *)
(* terminates the agent, whatever it is doing.                             *)
Unsubscribe ==
    /\ stop = "no" /\ stop' = "unsubscribed"
    /\ UNCHANGED <<incidentVars, deployment, agent, overlapped, clock, pc, local, collided,
                   predictions, changes>>

Shutdown ==
    /\ stop = "unsubscribed" /\ stop' = "down"
    /\ agent' = Terminate(agent)
    /\ overlapped' = (\E t \in Publishers : pc[t] \in Executing)
    /\ UNCHANGED <<incidentVars, deployment, clock, pc, local, collided, predictions, changes>>

Next ==
    \/ \E t \in Publishers :
        \/ Publish(t) \/ ExecuteBegin(t) \/ Find(t) \/ FindFallback(t) \/ WriteBack(t)
        \/ ReadSequence(t) \/ WriteSequence(t) \/ ReadClock(t) \/ Insert(t)
        \/ DatabaseRaises(t) \/ ExecuteEnd(t)
    \/ \E t \in Operators : ReadIncident(t) \/ ChangeStatus(t)
    \/ Unsubscribe \/ Shutdown

Spec == Init /\ [][Next]_vars

----------------------------------------------------------------------------
(* Properties.                                                             *)

(* Every row is a whole incident; a thread that looks for one knows the    *)
(* interface and the type, one that inserts has a number to insert under,  *)
(* and past the search it holds the incident's number and a whole row.     *)
Local == [interface : Interfaces \cup {"none"}, type : Types \cup {"none"}, risk : Risks \cup {0},
          incident : IncidentId \cup {0}, row : Rows \cup {NoRow}, next : 0..MaxIncidents,
          created : Nat, advice : Nat, knowledge : Nat]
Holding == {"decide", "change", "advise", "amend", "numberAdvice", "create", "explain",
            "lookup", "generate", "numberResult", "save", "cache"}
Searching == {"notified", "find", "fallback", "read", "number", "stamp", "insert"}
Stage == Holding \cup Searching \cup {"idle", "end"}
TypeOK ==
    /\ rows \in [IncidentId -> Rows \cup {NoRow}]
    /\ timeline \in [IncidentId -> SUBSET IncidentStatus]
    /\ newest \in [IncidentId -> IncidentStatus \cup {"none"}]
    /\ seq \in 0..MaxIncidents /\ undone \subseteq IncidentId /\ clock \in Nat
    /\ deployment \in Deployments
    /\ pc \in [Threads -> Stage]
    /\ local \in [Threads -> Local]
    /\ \A t \in Threads :
        /\ pc[t] \in Searching => local[t].interface \in Interfaces /\ local[t].type \in Types
        /\ pc[t] \in {"stamp", "insert"} => local[t].next < MaxIncidents
        /\ pc[t] \in Holding => local[t].incident \in IncidentId /\ local[t].row \in Rows

(* The audit trail of transition and update_incident: however stale the    *)
(* rows that predictions and operators write over each other, the status,  *)
(* the resolution and the closing a row shows have their entry in the      *)
(* timeline.  And the status is that of the newest entry, unless a writer  *)
(* had read the row before another changed its status.                     *)
StatusIsExplained ==
    \A i \in IncidentId : rows[i] # NoRow =>
        /\ rows[i].status = "OPEN" \/ rows[i].status \in timeline[i]
        /\ rows[i].resolved => "RESOLVED" \in timeline[i]
        /\ rows[i].closed => "CLOSED" \in timeline[i]
        /\ i \in undone \/ rows[i].status = newest[i]

(* generate_next_id is "thread-safe" for the threads of one repository     *)
(* object, and only for them: no number and no prediction is lost there.   *)
OneRepositoryNeverCollides ==
    (\A t, u \in Publishers : deployment.repositoryOf[t] = deployment.repositoryOf[u]) => ~collided

(* "Cannot execute terminated agent": a shutdown that finds no execution   *)
(* under way is final, whatever events the bus had listed the agent for.   *)
(* One that does find one is not: the end of that execution puts the agent *)
(* back to READY, and a callback still to come is then let in.             *)
ShutdownIsFinal ==
    stop = "down" /\ ~overlapped =>
        agent.state = "TERMINATED" /\ \A t \in Publishers : pc[t] \notin Executing
=============================================================================
