--------------------------- MODULE ApprovalManager ---------------------------
(***************************************************************************)
(* The registry of operator approvals of agents/failover/approval_manager. *)
(*                                                                         *)
(* A plan stands for the SHA-256 hash of everything compute_plan_hash      *)
(* covers: two plans with the same hash are the same plan here.  The       *)
(* rollback plan is not hashed and is no part of a plan's identity.        *)
(*                                                                         *)
(* Every operation runs under the manager's own lock, so each is one       *)
(* step; the caller's lock (FailoverService) is a different one.           *)
(*                                                                         *)
(* Wall-clock time is abstracted to "overdue": now > expires_at.           *)
(***************************************************************************)

CONSTANTS
    ApprovalIds,   (* uuids that can be handed out                        *)
    Plans,         (* plan hashes                                         *)
    NoPlan         (* "no plan object was passed" / no hash bound         *)

ASSUME NoPlanAssumption == NoPlan \notin Plans

VARIABLES
    approvals,           (* _approvals                                     *)
    executedPlanHashes,  (* _executed_plan_hashes                          *)
    consented   (* history: approvals that were APPROVED at some moment    *)

approvalVars == <<approvals, executedPlanHashes, consented>>

(* CANCELLED exists in the enumeration but no operation ever sets it.      *)
ApprovalStatus ==
    {"PENDING_APPROVAL", "APPROVED", "REJECTED", "EXPIRED", "INVALIDATED"}

Approval == [status  : ApprovalStatus \cup {"ABSENT"},
             hash    : Plans \cup {NoPlan},
             overdue : BOOLEAN]

NoRecord == [status |-> "ABSENT", hash |-> NoPlan, overdue |-> FALSE]

Exists(id) == approvals[id].status # "ABSENT"

ApprovalInit ==
    /\ approvals = [id \in ApprovalIds |-> NoRecord]
    /\ executedPlanHashes = {}
    /\ consented = {}

SetStatus(id, st) == approvals' = [approvals EXCEPT ![id].status = st]

-----------------------------------------------------------------------------
(* request_approval and create_approval_request: a fresh PENDING record    *)
(* bound to the hash of the plan.                                          *)
RequestApproval(id, h) ==
    /\ ~Exists(id)
    /\ approvals' = [approvals EXCEPT ![id] =
           [status |-> "PENDING_APPROVAL", hash |-> h, overdue |-> FALSE]]
    /\ UNCHANGED <<executedPlanHashes, consented>>

(* What approve_request leaves in the record: a deadline that has passed,  *)
(* then a plan that differs from the one bound, then approval.  The status *)
(* the record had is not looked at.                                        *)
StatusAfterApproving(id, h) ==
    CASE approvals[id].overdue -> "EXPIRED"
      [] ~approvals[id].overdue /\ h \notin {NoPlan, approvals[id].hash}
           -> "INVALIDATED"
      [] OTHER -> "APPROVED"

(* approve_request(key, operator, plan): the key may be the approval's id  *)
(* or its request id, which name the same record.                          *)
ApproveRequest(id, h) ==
    /\ Exists(id)
    /\ SetStatus(id, StatusAfterApproving(id, h))
    /\ consented' = IF StatusAfterApproving(id, h) = "APPROVED"
                      THEN consented \cup {id} ELSE consented
    /\ UNCHANGED executedPlanHashes

(* reject_request and reject_approval look the record up by approval id    *)
(* only.  Given a request id they find nothing and return a made-up record *)
(* with status REJECTED, which the caller cannot tell from a real one.     *)
RejectRequest(id, key) ==
    /\ Exists(id)
    /\ IF key = "approval_id" THEN SetStatus(id, "REJECTED")
                              ELSE UNCHANGED approvals
    /\ UNCHANGED <<executedPlanHashes, consented>>

(* The checks that validate_approval and validate_approval_for_execution   *)
(* make, in order, and the status a failing one leaves behind.             *)
ApprovalValid(id, h) ==
    /\ approvals[id].status = "APPROVED"
    /\ ~approvals[id].overdue
    /\ h = approvals[id].hash
    /\ h \notin executedPlanHashes

StatusAfterValidating(id, h) ==
    CASE approvals[id].status # "APPROVED" -> approvals[id].status
      [] approvals[id].status = "APPROVED" /\ approvals[id].overdue
           -> "EXPIRED"
      [] approvals[id].status = "APPROVED" /\ ~approvals[id].overdue
           /\ h # approvals[id].hash -> "INVALIDATED"
      [] OTHER -> approvals[id].status

ValidateApproval(id, h) ==
    /\ Exists(id)
    /\ SetStatus(id, StatusAfterValidating(id, h))
    /\ UNCHANGED <<executedPlanHashes, consented>>

(* Variant of MarkPlanExecuted: only the last hash is remembered.          *)
MarkPlanExecutedLast(h) ==
    /\ executedPlanHashes' = {h}
    /\ UNCHANGED <<approvals, consented>>

MarkPlanExecuted(h) ==
    /\ executedPlanHashes' = executedPlanHashes \cup {h}
    /\ UNCHANGED <<approvals, consented>>

(* The approval's validity window closes.                                  *)
DeadlinePasses(id) ==
    /\ Exists(id)
    /\ ~approvals[id].overdue
    /\ approvals' = [approvals EXCEPT ![id].overdue = TRUE]
    /\ UNCHANGED <<executedPlanHashes, consented>>

ApprovalTypeOK ==
    /\ approvals \in [ApprovalIds -> Approval]
    /\ executedPlanHashes \subseteq Plans
    /\ consented \subseteq ApprovalIds
=============================================================================
