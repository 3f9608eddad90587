---------------------------- MODULE IncidentService ----------------------------
(***************************************************************************)
(* The incidents database and what the service computes from it:           *)
(* agents/incident/incident_repository.py, incident_state_machine.py,      *)
(* incident_rules.py and incident_service.py.                              *)
(*                                                                         *)
(* Each repository call is one connection and one transaction, and one     *)
(* step; generate_next_id, which reads the sequence before its transaction *)
(* begins, is two.  A row is what its columns say.  Of the timeline only   *)
(* the status changes are kept, each by the status it leads to: entries    *)
(* are inserted with the row they explain and never removed.  created is   *)
(* the creating thread's clock, in the order the clocks were read.         *)
(***************************************************************************)
EXTENDS Naturals

CONSTANTS
    Interfaces, Types,
    MaxIncidents      (* bound: numbers the sequence hands out             *)

ASSUME IncidentAssumption == MaxIncidents \in Nat \ {0}

VARIABLES
    rows,       (* table incidents, by sequence number                     *)
    timeline,   (* table incident_timeline: statuses changed to, by incident *)
    newest,     (* the status its newest entry leads to                    *)
    seq,        (* table incident_sequence: 0 while the year has no row    *)
    undone      (* history: incidents written back with a status that had
                   changed since it was read                               *)

incidentVars == <<rows, timeline, newest, seq, undone>>

IncidentStatus == {"OPEN", "ACKNOWLEDGED", "IN_PROGRESS", "MITIGATED", "RESOLVED", "CLOSED"}

IncidentId == 1..MaxIncidents

NoRow == [status |-> "none"]

Severity == {"CRITICAL", "HIGH", "MEDIUM", "LOW", "INFO"}

Rows == [interface : Interfaces, type : Types, severity : Severity,
         status : IncidentStatus, resolved : BOOLEAN, closed : BOOLEAN,
         created : Nat]

IncidentInit ==
    /\ rows = [i \in IncidentId |-> NoRow]
    /\ timeline = [i \in IncidentId |-> {}]
    /\ newest = [i \in IncidentId |-> "none"]
    /\ seq = 0 /\ undone = {}

(* Risk is in percent.                                                     *)
MapRiskToSeverity(risk) ==
    IF risk >= 85 THEN "CRITICAL"
    ELSE IF risk >= 70 THEN "HIGH"
    ELSE IF risk >= 45 THEN "MEDIUM"
    ELSE IF risk >= 25 THEN "LOW"
    ELSE "INFO"

ShouldCreate(risk) == risk >= 25
ShouldAutoResolve(risk) == risk < 20

Allowed(status) ==
    CASE status = "OPEN" -> IncidentStatus \ {"OPEN"}
      [] status = "ACKNOWLEDGED" -> {"IN_PROGRESS", "MITIGATED", "RESOLVED", "CLOSED"}
      [] status = "IN_PROGRESS" -> {"MITIGATED", "RESOLVED", "CLOSED"}
      [] status = "MITIGATED" -> {"RESOLVED", "OPEN", "CLOSED"}
      [] status = "RESOLVED" -> {"CLOSED", "OPEN"}
      [] status = "CLOSED" -> {"OPEN"}

CanTransition(from, to) == from = to \/ to \in Allowed(from)

(* The first time an incident is resolved or closed is kept.               *)
Transition(row, to) ==
    [row EXCEPT !.status = to,
                !.resolved = @ \/ to = "RESOLVED",
                !.closed = @ \/ to = "CLOSED"]

Active(i) == rows[i].status \notin {"none", "RESOLVED", "CLOSED"}

(* The newest active incident of the interface with one of the types.  No  *)
(* element if there is none.                                               *)
FindActive(iface, types) ==
    LET found == {i \in IncidentId : Active(i) /\ rows[i].interface = iface
                                               /\ rows[i].type \in types}
    IN  {i \in found : \A j \in found : rows[j].created <= rows[i].created}

(* A variant that takes an incident that is no longer OPEN for one whose   *)
(* events are there already.                                               *)
RowFirst(i, read, row, changes) ==
    LET entries == IF rows[i].status = "OPEN" THEN changes ELSE {}
    IN  /\ rows' = [rows EXCEPT ![i] = row]
        /\ timeline' = [timeline EXCEPT ![i] = @ \cup entries]
        /\ newest' = [newest EXCEPT ![i] = IF row.status \in entries THEN row.status ELSE @]
        /\ undone' = IF rows[i].status = read.status THEN undone ELSE undone \cup {i}
        /\ UNCHANGED seq

(* The whole row is written back, whatever happened to it since it was     *)
(* read; the events it carries are inserted unless they are there.  What   *)
(* was read is compared with the row only for the history.                 *)
UpdateIncident(i, read, row, changes) ==
    /\ rows' = [rows EXCEPT ![i] = row]
    /\ timeline' = [timeline EXCEPT ![i] = @ \cup changes]
    /\ newest' = [newest EXCEPT ![i] = IF row.status \in changes THEN row.status ELSE @]
    /\ undone' = IF rows[i].status = read.status THEN undone ELSE undone \cup {i}
    /\ UNCHANGED seq

(* INSERT with a primary key: an id in use makes it raise.                 *)
CreateIncident(i, row) ==
    /\ rows[i] = NoRow
    /\ rows' = [rows EXCEPT ![i] = row]
    /\ newest' = [newest EXCEPT ![i] = row.status]
    /\ UNCHANGED <<timeline, seq, undone>>
=============================================================================
