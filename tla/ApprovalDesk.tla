----------------------------- MODULE ApprovalDesk -----------------------------
(***************************************************************************)
(* The approval registry with operators alone: what they are told about a  *)
(* request, against what the registry holds.                               *)
(***************************************************************************)
EXTENDS ApprovalManager

VARIABLE
    refused   (* approvals whose operator was last answered REJECTED       *)

deskVars == <<approvalVars, refused>>

DeskInit == ApprovalInit /\ refused = {}

Create ==
    /\ \E id \in ApprovalIds, h \in Plans : RequestApproval(id, h)
    /\ UNCHANGED refused

Approve(id) ==
    /\ \E h \in Plans \cup {NoPlan} : ApproveRequest(id, h)
    /\ refused' = IF approvals'[id].status = "APPROVED"
                    THEN refused \ {id} ELSE refused

Reject(id) ==
    /\ \E key \in {"approval_id", "request_id"} : RejectRequest(id, key)
    /\ refused' = refused \cup {id}

Expire(id) == DeadlinePasses(id) /\ UNCHANGED refused

DeskNext ==
    \/ Create
    \/ \E id \in ApprovalIds : Approve(id) \/ Reject(id) \/ Expire(id)

DeskSpec == DeskInit /\ [][DeskNext]_deskVars

(* "REJECTED: Operator denied execution" (agents/failover/README.md:32):   *)
(* an approval whose operator was answered REJECTED is not APPROVED.       *)
RefusalIsBinding ==
    \A id \in refused : approvals[id].status # "APPROVED"
=============================================================================
