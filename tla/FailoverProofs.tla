---------------------------- MODULE FailoverProofs ----------------------------
(***************************************************************************)
(* Proofs about FailoverService, for any number of threads, plans,         *)
(* approvals, requests and restarts.                                       *)
(***************************************************************************)
EXTENDS FailoverService, TLAPS

(* The steps at which a call has a plan and an approval of its own.        *)
Started == {"approve", "status", "hash"} \cup Admitted

(* A call's approval is on record, bound to the call's plan.               *)
Bound ==
    \A c \in Callers : pc[c] \in Started =>
        /\ call[c].plan \in Plans
        /\ call[c].approval \in ApprovalIds
        /\ Exists(call[c].approval)
        /\ approvals[call[c].approval].hash = call[c].plan

(* Only the holder of the lock is in the pipeline.                         *)
LockHeld == \A c \in Callers : InCall(c) <=> lock = c

(* Whatever is APPROVED, or got past the prechecks, was granted.           *)
Granted ==
    /\ \A id \in ApprovalIds : approvals[id].status = "APPROVED" => id \in consented
    /\ \A c \in Callers : pc[c] \in Admitted => call[c].approval \in consented

(* A plan that ran is recorded, or about to be by the call that ran it; a  *)
(* plan about to run is not recorded.                                      *)
RanOnce ==
    /\ \A p \in Plans :
         \/ applied[p] = 0
         \/ applied[p] = 1 /\ \/ p \in executedPlanHashes
                              \/ \E c \in Callers : pc[c] = "mark" /\ call[c].plan = p
    /\ \A c \in Callers :
         /\ pc[c] = "execute" => call[c].plan \notin executedPlanHashes
         /\ pc[c] = "mark" => call[c].plan \notin executedPlanHashes

IInv == TypeOK /\ Bound /\ LockHeld /\ Granted /\ RanOnce

-----------------------------------------------------------------------------
(* The operations of the approval registry.                                *)

LEMMA RequestApprovalType ==
    ASSUME ApprovalTypeOK, NEW id \in ApprovalIds, NEW h \in Plans,
           RequestApproval(id, h)
    PROVE  ApprovalTypeOK'
  BY DEF ApprovalTypeOK, RequestApproval, Approval, ApprovalStatus

LEMMA ApproveRequestType ==
    ASSUME ApprovalTypeOK, NEW id \in ApprovalIds, NEW h, ApproveRequest(id, h)
    PROVE  ApprovalTypeOK'
  <1>1. StatusAfterApproving(id, h) \in ApprovalStatus
    BY DEF StatusAfterApproving, ApprovalStatus
  <1> QED
    BY <1>1 DEF ApprovalTypeOK, ApproveRequest, SetStatus, Approval

LEMMA RejectRequestType ==
    ASSUME ApprovalTypeOK, NEW id \in ApprovalIds, NEW key, RejectRequest(id, key)
    PROVE  ApprovalTypeOK'
  BY DEF ApprovalTypeOK, RejectRequest, SetStatus, Approval, ApprovalStatus

LEMMA ValidateApprovalType ==
    ASSUME ApprovalTypeOK, NEW id \in ApprovalIds, NEW h, ValidateApproval(id, h)
    PROVE  ApprovalTypeOK'
  <1>1. StatusAfterValidating(id, h) \in ApprovalStatus \cup {"ABSENT"}
    BY DEF StatusAfterValidating, ApprovalStatus, ApprovalTypeOK, Approval
  <1> QED
    BY <1>1 DEF ApprovalTypeOK, ValidateApproval, SetStatus, Approval

LEMMA DeadlineType ==
    ASSUME ApprovalTypeOK, NEW id \in ApprovalIds, DeadlinePasses(id)
    PROVE  ApprovalTypeOK'
  BY DEF ApprovalTypeOK, DeadlinePasses, Approval, ApprovalStatus

(* What every operation but a restart leaves of a record: its existence,   *)
(* its hash, and consent.                                                  *)
RegistryGrows ==
    /\ \A id \in ApprovalIds :
         Exists(id) => Exists(id)' /\ approvals'[id].hash = approvals[id].hash
    /\ consented \subseteq consented'
    /\ executedPlanHashes' = executedPlanHashes
    /\ \A id \in ApprovalIds : approvals'[id].status = "APPROVED" =>
         approvals[id].status = "APPROVED" \/ id \in consented'

LEMMA RegistryGrowing ==
    ASSUME ApprovalTypeOK, NEW id \in ApprovalIds,
           \/ \E h \in Plans : RequestApproval(id, h)
           \/ \E h \in Plans \cup {NoPlan} : ApproveRequest(id, h)
           \/ \E key \in {"approval_id", "request_id"} : RejectRequest(id, key)
           \/ \E h \in Plans : ValidateApproval(id, h)
           \/ DeadlinePasses(id)
    PROVE  RegistryGrows
  <1>1. CASE \E h \in Plans : RequestApproval(id, h)
    BY <1>1 DEF ApprovalTypeOK, RequestApproval, Approval, RegistryGrows, Exists
  <1>2. CASE \E h \in Plans \cup {NoPlan} : ApproveRequest(id, h)
    <2> PICK h \in Plans \cup {NoPlan} : ApproveRequest(id, h)
      BY <1>2
    <2>1. StatusAfterApproving(id, h) # "ABSENT"
      BY DEF StatusAfterApproving
    <2> QED
      BY <2>1 DEF ApprovalTypeOK, ApproveRequest, SetStatus, Approval,
                  RegistryGrows, Exists
  <1>3. CASE \E key \in {"approval_id", "request_id"} : RejectRequest(id, key)
    BY <1>3 DEF ApprovalTypeOK, RejectRequest, SetStatus, Approval,
                RegistryGrows, Exists
  <1>4. CASE \E h \in Plans : ValidateApproval(id, h)
    <2> PICK h \in Plans : ValidateApproval(id, h)
      BY <1>4
    <2>1. /\ StatusAfterValidating(id, h) # "ABSENT"
          /\ StatusAfterValidating(id, h) = "APPROVED" =>
               approvals[id].status = "APPROVED"
      BY DEF StatusAfterValidating, ValidateApproval, Exists
    <2> QED
      BY <2>1 DEF ApprovalTypeOK, ValidateApproval, SetStatus, Approval,
                  RegistryGrows, Exists
  <1>5. CASE DeadlinePasses(id)
    BY <1>5 DEF ApprovalTypeOK, DeadlinePasses, Approval, RegistryGrows, Exists
  <1> QED
    BY <1>1, <1>2, <1>3, <1>4, <1>5

-----------------------------------------------------------------------------
(* Type correctness.  Bound is what keeps a call's fields in their types   *)
(* when they are used as arguments.                                        *)

LEMMA RouterType ==
    ASSUME RouterTypeOK, FailoverProvider \/ FailbackProvider
    PROVE  RouterTypeOK'
  BY DEF RouterTypeOK, FailoverProvider, FailbackProvider, Reconfigure,
         AfterCommands

LEMMA UnchangedApprovals ==
    ASSUME UNCHANGED approvalVars
    PROVE  /\ ApprovalTypeOK => ApprovalTypeOK'
           /\ RegistryGrows
  BY DEF approvalVars, ApprovalTypeOK, RegistryGrows, Exists

LEMMA ReturnType ==
    ASSUME TypeOK, NEW c \in Callers, Return(c)
    PROVE  /\ lock' \in Callers \cup {Free}
           /\ pc' \in [Callers -> Stages]
           /\ call' \in [Callers -> Call]
  BY DEF TypeOK, Return, Goto, Stages, Call, NoCall, Modes, Adapters, FinalStatus

(* What a step inside the pipeline does to its own pc and variables.       *)
FieldSet(c) ==
    \/ \E m \in Modes : call' = [call EXCEPT ![c].mode = m]
    \/ \E a \in Adapters : call' = [call EXCEPT ![c].adapter = a]
    \/ \E p \in Plans, id \in ApprovalIds :
          call' = [call EXCEPT ![c].plan = p, ![c].approval = id]
    \/ \E b \in BOOLEAN : call' = [call EXCEPT ![c].statusOk = b]
    \/ call' = [call EXCEPT ![c].executed = TRUE]
    \/ \E f \in FinalStatus : call' = [call EXCEPT ![c].final = f]
    \/ UNCHANGED call

Inside(c) == FieldSet(c) /\ \E s \in Stages : Goto(c, s)

LEMMA InsideType ==
    ASSUME TypeOK, NEW c \in Callers, Inside(c)
    PROVE  call' \in [Callers -> Call] /\ pc' \in [Callers -> Stages]
  <1>1. call \in [Callers -> Call] /\ pc \in [Callers -> Stages]
    BY DEF TypeOK
  <1>2. pc' \in [Callers -> Stages]
    BY <1>1 DEF Inside, Goto
  <1>3. call' \in [Callers -> Call]
    <2>1. CASE \E m \in Modes : call' = [call EXCEPT ![c].mode = m]
      BY <1>1, <2>1 DEF Call
    <2>2. CASE \E a \in Adapters : call' = [call EXCEPT ![c].adapter = a]
      BY <1>1, <2>2 DEF Call
    <2>3. CASE \E p \in Plans, id \in ApprovalIds :
                 call' = [call EXCEPT ![c].plan = p, ![c].approval = id]
      <3> PICK p \in Plans, id \in ApprovalIds :
            call' = [call EXCEPT ![c].plan = p, ![c].approval = id]
        BY <2>3
      <3>1. [call[c] EXCEPT !.plan = p, !.approval = id] \in Call
        BY <1>1 DEF Call
      <3>2. call' = [call EXCEPT ![c] = [call[c] EXCEPT !.plan = p, !.approval = id]]
        BY <1>1
      <3> QED
        BY <1>1, <3>1, <3>2
    <2>4. CASE \E b \in BOOLEAN : call' = [call EXCEPT ![c].statusOk = b]
      BY <1>1, <2>4 DEF Call
    <2>5. CASE call' = [call EXCEPT ![c].executed = TRUE]
      BY <1>1, <2>5 DEF Call
    <2>6. CASE \E f \in FinalStatus : call' = [call EXCEPT ![c].final = f]
      BY <1>1, <2>6 DEF Call
    <2> QED
      BY <1>1, <2>1, <2>2, <2>3, <2>4, <2>5, <2>6 DEF Inside, FieldSet
  <1> QED
    BY <1>2, <1>3

LEMMA TypeInit == Init => TypeOK
  BY CallersAssumption
  DEF Init, ApprovalInit, RouterInit, TypeOK, ApprovalTypeOK, RouterTypeOK,
      Approval, NoRecord, Stages, Call, NoCall, Modes, Adapters, FinalStatus

LEMMA TypeStep ==
    ASSUME TypeOK, Bound, [Next]_vars
    PROVE  TypeOK'
  <1>1. ASSUME NEW c \in Callers, Invoke(c)
        PROVE  TypeOK'
    <2>1. Inside(c)
      BY <1>1 DEF Invoke, Inside, FieldSet, Stages
    <2> QED
      BY <1>1, <2>1, InsideType, UnchangedApprovals DEF TypeOK, Invoke, RouterTypeOK
  <1>2. ASSUME NEW c \in Callers, Acquire(c)
        PROVE  TypeOK'
    <2>1. Return(c) \/ (lock' = c /\ Inside(c))
      BY <1>2 DEF Acquire, Inside, FieldSet, Stages
    <2> QED
      BY <1>2, <2>1, UnchangedApprovals, ReturnType, InsideType
      DEF TypeOK, Acquire, RouterTypeOK
  <1>3. ASSUME NEW c \in Callers, Decide(c)
        PROVE  TypeOK'
    <2>1. CASE Return(c) /\ UNCHANGED approvalVars
      BY <1>3, <2>1, UnchangedApprovals, ReturnType
      DEF TypeOK, Decide, RouterTypeOK
    <2>2. ASSUME NEW p \in Plans, AskForApproval(c, p)
          PROVE  TypeOK'
      <3>1. Inside(c)
        BY <2>2 DEF AskForApproval, Inside, FieldSet, Stages
      <3>2. ApprovalTypeOK'
        BY <2>2, RequestApprovalType DEF TypeOK, AskForApproval
      <3> QED
        BY <1>3, <2>2, <3>1, <3>2, InsideType
        DEF TypeOK, Decide, AskForApproval, RouterTypeOK
    <2> QED
      BY <1>3, <2>1, <2>2 DEF Decide, DecisionRaises, AnswerFromPast
  <1>4. ASSUME NEW c \in Callers, AutoApprove(c)
        PROVE  TypeOK'
    <2>1. ApprovalTypeOK'
      BY <1>4, ApproveRequestType DEF TypeOK, AutoApprove, Bound, Started
    <2>2. Inside(c)
      BY <1>4 DEF AutoApprove, Inside, FieldSet, Stages
    <2> QED
      BY <1>4, <2>1, <2>2, InsideType DEF TypeOK, AutoApprove, RouterTypeOK
  <1>5. ASSUME NEW c \in Callers, CheckStatus(c)
        PROVE  TypeOK'
    <2>1. Inside(c)
      BY <1>5 DEF CheckStatus, Inside, FieldSet, Stages
    <2> QED
      BY <1>5, <2>1, InsideType, UnchangedApprovals DEF TypeOK, CheckStatus, RouterTypeOK
  <1>6. ASSUME NEW c \in Callers, CheckHash(c)
        PROVE  TypeOK'
    <2>1. ApprovalTypeOK'
      BY <1>6, ValidateApprovalType DEF TypeOK, CheckHash, Bound, Started
    <2>2. Return(c) \/ (UNCHANGED lock /\ Inside(c))
      BY <1>6 DEF CheckHash, Inside, FieldSet, Stages
    <2> QED
      BY <1>6, <2>1, <2>2, ReturnType, InsideType DEF TypeOK, CheckHash, RouterTypeOK
  <1>7. ASSUME NEW c \in Callers, Execute(c)
        PROVE  TypeOK'
    <2>1. RouterTypeOK'
      BY <1>7, RouterType
      DEF TypeOK, Execute, ExecuteRaises, ExecuteReturns, RouterTypeOK
    <2>2. applied' \in [Plans -> Nat]
      BY <1>7 DEF TypeOK, Execute, ExecuteRaises, ExecuteReturns, Bound, Started, Admitted
    <2>3. Inside(c)
      BY <1>7 DEF Execute, ExecuteRaises, ExecuteReturns, Inside, FieldSet, Stages
    <2> QED
      BY <1>7, <2>1, <2>2, <2>3, InsideType, UnchangedApprovals DEF TypeOK, Execute
  <1>8. ASSUME NEW c \in Callers, RecordExecuted(c)
        PROVE  TypeOK'
    <2>1. ApprovalTypeOK'
      BY <1>8 DEF TypeOK, RecordExecuted, MarkPlanExecuted, ApprovalTypeOK, Bound,
                  Started, Admitted
    <2>2. Inside(c)
      BY <1>8 DEF RecordExecuted, Inside, FieldSet, Stages
    <2> QED
      BY <1>8, <2>1, <2>2, InsideType DEF TypeOK, RecordExecuted, RouterTypeOK
  <1>9. ASSUME NEW c \in Callers, Verify(c)
        PROVE  TypeOK'
    <2>1. Inside(c)
      BY <1>9 DEF Verify, Inside, FieldSet, Stages, FinalStatus
    <2> QED
      BY <1>9, <2>1, InsideType, UnchangedApprovals DEF TypeOK, Verify, RouterTypeOK
  <1>10. ASSUME NEW c \in Callers, Rollback(c)
         PROVE  TypeOK'
    <2>1. RouterTypeOK'
      BY <1>10, RouterType DEF TypeOK, Rollback, RouterTypeOK
    <2>2. Inside(c)
      BY <1>10 DEF Rollback, Inside, FieldSet, Stages, FinalStatus
    <2> QED
      BY <1>10, <2>1, <2>2, InsideType, UnchangedApprovals DEF TypeOK, Rollback
  <1>11. ASSUME NEW c \in Callers, Finish(c)
         PROVE  TypeOK'
    <2>1. ResultOf(c) \in Result
      BY <1>11 DEF ResultOf, Result, Finish, TypeOK, Call, Bound, Started, Admitted
    <2> QED
      BY <1>11, <2>1, UnchangedApprovals, ReturnType
      DEF TypeOK, Finish, Stored, RouterTypeOK
  <1>12. ASSUME OperatorCreates
         PROVE  TypeOK'
    <2>1. ApprovalTypeOK'
      BY <1>12, RequestApprovalType DEF TypeOK, OperatorCreates
    <2> QED
      BY <1>12, <2>1 DEF TypeOK, OperatorCreates, RouterTypeOK
  <1>13. ASSUME OperatorDecides
         PROVE  TypeOK'
    <2>1. ApprovalTypeOK'
      BY <1>13, ApproveRequestType, RejectRequestType, ValidateApprovalType
      DEF TypeOK, OperatorDecides
    <2> QED
      BY <1>13, <2>1 DEF TypeOK, OperatorDecides, serviceVars, RouterTypeOK
  <1>14. ASSUME ClockAdvances
         PROVE  TypeOK'
    <2>1. ApprovalTypeOK'
      BY <1>14, DeadlineType DEF TypeOK, ClockAdvances
    <2> QED
      BY <1>14, <2>1 DEF TypeOK, ClockAdvances, serviceVars, RouterTypeOK
  <1>15. ASSUME Restart
         PROVE  TypeOK'
    <2>1. ApprovalTypeOK'
      BY <1>15 DEF Restart, ApprovalTypeOK, Approval, NoRecord
    <2>2. NoCall \in Call
      BY DEF NoCall, Call, Modes, Adapters, FinalStatus
    <2> QED
      BY <1>15, <2>1, <2>2 DEF TypeOK, Restart, RouterTypeOK, Stages
  <1>16. ASSUME UNCHANGED vars
         PROVE  TypeOK'
    BY <1>16, UnchangedApprovals DEF TypeOK, vars, serviceVars, RouterTypeOK
  <1> QED
    BY <1>1, <1>2, <1>3, <1>4, <1>5, <1>6, <1>7, <1>8, <1>9, <1>10, <1>11,
       <1>12, <1>13, <1>14, <1>15, <1>16 DEF Next, CallStep

-----------------------------------------------------------------------------
(* What each step does, in the terms the other invariants are stated in.   *)

(* Nobody but c moves.                                                     *)
Frame(c) == \A d \in Callers \ {c} : pc'[d] = pc[d] /\ call'[d] = call[d]

LEMMA InvokeEffect ==
    ASSUME TypeOK, NEW c \in Callers, Invoke(c)
    PROVE  /\ pc[c] = "idle" /\ pc'[c] = "waiting"
           /\ Frame(c) /\ RegistryGrows
           /\ UNCHANGED <<lock, applied>>
  BY UnchangedApprovals DEF TypeOK, Invoke, Goto, Frame

(* The ways out of the pipeline.                                           *)
Leaves(c) ==
    /\ pc[c] \notin {"execute", "mark"}
    /\ lock \in {Free, c}
    /\ lock' = Free /\ pc'[c] = "idle"
    /\ Frame(c) /\ RegistryGrows
    /\ UNCHANGED applied

LEMMA ReturnEffect ==
    ASSUME TypeOK, NEW c \in Callers, Return(c)
    PROVE  lock' = Free /\ pc'[c] = "idle" /\ Frame(c)
  BY DEF TypeOK, Return, Goto, Frame

LEMMA AcquireEffect ==
    ASSUME TypeOK, NEW c \in Callers, Acquire(c)
    PROVE  \/ Leaves(c)
           \/ /\ pc[c] = "waiting" /\ pc'[c] = "decide"
              /\ lock = Free /\ lock' = c
              /\ Frame(c) /\ RegistryGrows
              /\ UNCHANGED applied
  <1>1. RegistryGrows
    BY UnchangedApprovals DEF Acquire
  <1>2. CASE Return(c)
    BY <1>1, <1>2, ReturnEffect DEF Acquire, LockFree, Leaves
  <1>3. CASE ~Return(c)
    BY <1>1, <1>3 DEF TypeOK, Acquire, LockFree, Goto, Frame
  <1> QED
    BY <1>2, <1>3

LEMMA DecideEffect ==
    ASSUME TypeOK, LockHeld, NEW c \in Callers, Decide(c)
    PROVE  \/ Leaves(c)
           \/ /\ pc[c] = "decide" /\ pc'[c] \in {"approve", "status"}
              /\ call'[c].plan \in Plans
              /\ call'[c].approval \in ApprovalIds
              /\ approvals'[call'[c].approval].status # "ABSENT"
              /\ approvals'[call'[c].approval].hash = call'[c].plan
              /\ Frame(c) /\ RegistryGrows
              /\ UNCHANGED <<lock, applied>>
  <1>1. CASE DecisionRaises(c)
    BY <1>1, UnchangedApprovals, ReturnEffect
    DEF Decide, DecisionRaises, Leaves, LockHeld, InCall
  <1>2. ASSUME NEW p \in Plans, AnswerFromPast(c, p)
        PROVE  Leaves(c)
    BY <1>2, UnchangedApprovals, ReturnEffect
    DEF Decide, AnswerFromPast, Leaves, LockHeld, InCall
  <1>3. CASE \E p \in Plans : AskForApproval(c, p)
    <2> PICK p \in Plans : AskForApproval(c, p)
      BY <1>3
    <2> PICK id \in ApprovalIds, auto \in BOOLEAN :
          /\ RequestApproval(id, p)
          /\ call' = [call EXCEPT ![c].plan = p, ![c].approval = id]
          /\ Goto(c, IF auto THEN "approve" ELSE "status")
      BY DEF AskForApproval
    <2>1. call'[c].plan = p /\ call'[c].approval = id
      BY DEF TypeOK, Call
    <2>2. Frame(c) /\ pc[c] = "decide" /\ pc'[c] \in {"approve", "status"}
      BY DEF TypeOK, Decide, Goto, Frame
    <2>3. Exists(id)' /\ approvals'[id].hash = p
      BY DEF TypeOK, ApprovalTypeOK, RequestApproval, Exists
    <2>4. RegistryGrows
      BY RegistryGrowing DEF TypeOK
    <2> QED
      BY <2>1, <2>2, <2>3, <2>4 DEF Decide, AskForApproval, Exists
  <1> QED
    BY <1>1, <1>2, <1>3 DEF Decide

(* The steps that keep the call's plan and approval, from one stage to the *)
(* next, and leave the registry of executed plans alone.                   *)
Moves(c, from, to) ==
    /\ pc[c] \in from /\ pc'[c] \in to
    /\ call'[c].plan = call[c].plan
    /\ call'[c].approval = call[c].approval
    /\ Frame(c)
    /\ UNCHANGED lock

LEMMA ChecksEffect ==
    ASSUME TypeOK, Bound, NEW c \in Callers, AutoApprove(c) \/ CheckStatus(c)
    PROVE  /\ Moves(c, {"approve", "status"}, {"status", "hash"})
           /\ RegistryGrows /\ UNCHANGED applied
  <1>1. CASE AutoApprove(c)
    <2>1. RegistryGrows
      BY <1>1, RegistryGrowing DEF TypeOK, Bound, Started, AutoApprove
    <2> QED
      BY <1>1, <2>1 DEF TypeOK, AutoApprove, Moves, Goto, Frame
  <1>2. CASE CheckStatus(c)
    BY <1>2, UnchangedApprovals DEF TypeOK, CheckStatus, Moves, Goto, Frame, Call
  <1> QED
    BY <1>1, <1>2

LEMMA CheckHashEffect ==
    ASSUME TypeOK, Bound, LockHeld, NEW c \in Callers, CheckHash(c)
    PROVE  /\ RegistryGrows /\ UNCHANGED applied
           /\ \/ Leaves(c)
              \/ /\ Moves(c, {"hash"}, {"execute"})
                 /\ approvals[call[c].approval].status = "APPROVED"
                 /\ call[c].plan \notin executedPlanHashes
  <1>1. RegistryGrows
    BY RegistryGrowing DEF TypeOK, Bound, Started, CheckHash
  <1>2. CASE Return(c)
    BY <1>1, <1>2, ReturnEffect DEF CheckHash, Leaves, LockHeld, InCall
  <1>3. CASE ~Return(c)
    BY <1>1, <1>3 DEF TypeOK, CheckHash, AllPassed, ApprovalValid, Moves, Goto,
                      Frame, Call
  <1> QED
    BY <1>2, <1>3, <1>1 DEF CheckHash

LEMMA ExecuteEffect ==
    ASSUME TypeOK, Bound, NEW c \in Callers, Execute(c)
    PROVE  /\ RegistryGrows
           /\ \/ Moves(c, {"execute"}, {"rollback"}) /\ UNCHANGED applied
              \/ /\ Moves(c, {"execute"}, {"mark"})
                 /\ applied' = [applied EXCEPT ![call[c].plan] = @ + 1]
  BY UnchangedApprovals
  DEF TypeOK, Execute, ExecuteRaises, ExecuteReturns, Moves, Goto, Frame, Call

LEMMA RecordEffect ==
    ASSUME TypeOK, NEW c \in Callers, RecordExecuted(c)
    PROVE  /\ Moves(c, {"mark"}, {"verify"})
           /\ executedPlanHashes' = executedPlanHashes \cup {call[c].plan}
           /\ UNCHANGED <<approvals, consented, applied>>
  BY DEF TypeOK, RecordExecuted, MarkPlanExecuted, Moves, Goto, Frame

LEMMA AfterEffect ==
    ASSUME TypeOK, NEW c \in Callers, Verify(c) \/ Rollback(c)
    PROVE  /\ Moves(c, {"verify", "rollback"}, {"rollback", "finish"})
           /\ RegistryGrows /\ UNCHANGED applied
  <1>1. CASE Verify(c)
    BY <1>1, UnchangedApprovals DEF TypeOK, Verify, Moves, Goto, Frame, Call
  <1>2. CASE Rollback(c)
    BY <1>2, UnchangedApprovals DEF TypeOK, Rollback, Moves, Goto, Frame, Call
  <1> QED
    BY <1>1, <1>2

LEMMA FinishEffect ==
    ASSUME TypeOK, LockHeld, NEW c \in Callers, Finish(c)
    PROVE  Leaves(c)
  BY UnchangedApprovals, ReturnEffect DEF Finish, Leaves, LockHeld, InCall

LEMMA OthersEffect ==
    ASSUME TypeOK,
           OperatorCreates \/ OperatorDecides \/ ClockAdvances \/ UNCHANGED vars
    PROVE  RegistryGrows /\ UNCHANGED <<lock, pc, call, applied>>
  <1>1. CASE OperatorCreates
    BY <1>1, RegistryGrowing DEF TypeOK, OperatorCreates
  <1>2. CASE OperatorDecides
    BY <1>2, RegistryGrowing DEF TypeOK, OperatorDecides, serviceVars
  <1>3. CASE ClockAdvances
    BY <1>3, RegistryGrowing DEF TypeOK, ClockAdvances, serviceVars
  <1>4. CASE UNCHANGED vars
    BY <1>4, UnchangedApprovals DEF vars, serviceVars
  <1> QED
    BY <1>1, <1>2, <1>3, <1>4

-----------------------------------------------------------------------------
(* The four invariants.                                                    *)

LEMMA InvInit == Init => Bound /\ LockHeld /\ Granted /\ RanOnce
  BY CallersAssumption
  DEF Init, ApprovalInit, Bound, Started, Admitted, LockHeld, InCall, Granted,
      RanOnce, NoRecord

LEMMA RestartStep ==
    ASSUME Restart
    PROVE  Bound' /\ LockHeld' /\ Granted' /\ RanOnce'
  BY CallersAssumption
  DEF Restart, Bound, Started, Admitted, LockHeld, InCall, Granted, RanOnce,
      NoRecord, Exists

LEMMA OthersStep ==
    ASSUME IInv, RegistryGrows, UNCHANGED <<lock, pc, call, applied>>
    PROVE  Bound' /\ LockHeld' /\ Granted' /\ RanOnce'
  <1>1. Bound'
    BY DEF IInv, Bound, RegistryGrows, Exists
  <1>2. LockHeld'
    BY DEF IInv, LockHeld, InCall
  <1>3. Granted'
    BY DEF IInv, Granted, RegistryGrows
  <1>4. RanOnce'
    BY DEF IInv, RanOnce, RegistryGrows
  <1> QED
    BY <1>1, <1>2, <1>3, <1>4

LEMMA InvokeStep ==
    ASSUME IInv, NEW c \in Callers, Invoke(c)
    PROVE  Bound' /\ LockHeld' /\ Granted' /\ RanOnce'
  <1>1. /\ pc[c] = "idle" /\ pc'[c] = "waiting"
        /\ Frame(c) /\ RegistryGrows
        /\ UNCHANGED <<lock, applied>>
    BY InvokeEffect DEF IInv
  <1>2. Bound'
    BY <1>1 DEF IInv, Bound, RegistryGrows, Exists, Frame, Started, Admitted
  <1>3. LockHeld'
    BY <1>1 DEF IInv, LockHeld, InCall, Frame
  <1>4. Granted'
    BY <1>1 DEF IInv, Granted, RegistryGrows, Frame, Admitted
  <1>5. RanOnce'
    BY <1>1 DEF IInv, RanOnce, RegistryGrows, Frame
  <1> QED
    BY <1>2, <1>3, <1>4, <1>5

LEMMA LeavesStep ==
    ASSUME IInv, NEW c \in Callers, Leaves(c)
    PROVE  Bound' /\ LockHeld' /\ Granted' /\ RanOnce'
  <1>1. Bound'
    BY DEF Leaves, IInv, Bound, RegistryGrows, Exists, Frame, Started, Admitted
  <1>2. LockHeld'
    BY CallersAssumption DEF Leaves, IInv, LockHeld, InCall, Frame
  <1>3. Granted'
    BY DEF Leaves, IInv, Granted, RegistryGrows, Frame, Admitted
  <1>4. RanOnce'
    BY DEF Leaves, IInv, RanOnce, RegistryGrows, Frame
  <1> QED
    BY <1>1, <1>2, <1>3, <1>4

(* A call enters the pipeline, or leaves it, or gets its plan.             *)
LEMMA EntryStep ==
    ASSUME IInv, NEW c \in Callers, Acquire(c) \/ Decide(c)
    PROVE  Bound' /\ LockHeld' /\ Granted' /\ RanOnce'
  <1>1. CASE Leaves(c)
    BY <1>1, LeavesStep
  <1>2. CASE Acquire(c) /\ ~Leaves(c)
    <2>1. /\ pc[c] = "waiting" /\ pc'[c] = "decide"
          /\ lock = Free /\ lock' = c
          /\ Frame(c) /\ RegistryGrows
          /\ UNCHANGED applied
      BY <1>2, AcquireEffect DEF IInv
    <2>2. Bound'
      BY <2>1 DEF IInv, Bound, RegistryGrows, Exists, Frame, Started, Admitted
    <2>3. LockHeld'
      BY <2>1, CallersAssumption DEF IInv, LockHeld, InCall, Frame
    <2>4. Granted'
      BY <2>1 DEF IInv, Granted, RegistryGrows, Frame, Admitted
    <2>5. RanOnce'
      BY <2>1 DEF IInv, RanOnce, RegistryGrows, Frame
    <2> QED
      BY <2>2, <2>3, <2>4, <2>5
  <1>3. CASE Decide(c) /\ ~Leaves(c)
    <2>1. /\ pc[c] = "decide" /\ pc'[c] \in {"approve", "status"}
          /\ call'[c].plan \in Plans
          /\ call'[c].approval \in ApprovalIds
          /\ approvals'[call'[c].approval].status # "ABSENT"
          /\ approvals'[call'[c].approval].hash = call'[c].plan
          /\ Frame(c) /\ RegistryGrows
          /\ UNCHANGED <<lock, applied>>
      BY <1>3, DecideEffect DEF IInv
    <2>2. Bound'
      BY <2>1 DEF IInv, Bound, RegistryGrows, Exists, Frame, Started, Admitted
    <2>3. LockHeld'
      BY <2>1 DEF IInv, LockHeld, InCall, Frame
    <2>4. Granted'
      BY <2>1 DEF IInv, Granted, RegistryGrows, Frame, Admitted
    <2>5. RanOnce'
      BY <2>1 DEF IInv, RanOnce, RegistryGrows, Frame
    <2> QED
      BY <2>2, <2>3, <2>4, <2>5
  <1> QED
    BY <1>1, <1>2, <1>3

(* The steps between: the lock stays with c, so no other call is at any of *)
(* the stages the invariants speak of.                                     *)
LEMMA Alone ==
    ASSUME LockHeld, NEW c \in Callers, InCall(c)
    PROVE  \A d \in Callers : InCall(d) => d = c
  BY DEF LockHeld

LEMMA MovesBound ==
    ASSUME IInv, NEW c \in Callers, Moves(c, Started, Started),
           \A id \in ApprovalIds :
             Exists(id) => Exists(id)' /\ approvals'[id].hash = approvals[id].hash
    PROVE  Bound' /\ LockHeld'
  <1>1. Bound'
    BY DEF Moves, IInv, Bound, Exists, Frame
  <1>2. LockHeld'
    BY DEF Moves, IInv, LockHeld, InCall, Frame, Started, Admitted
  <1> QED
    BY <1>1, <1>2

LEMMA ChecksStep ==
    ASSUME IInv, NEW c \in Callers, AutoApprove(c) \/ CheckStatus(c) \/ CheckHash(c)
    PROVE  Bound' /\ LockHeld' /\ Granted' /\ RanOnce'
  <1>1. CASE AutoApprove(c) \/ CheckStatus(c)
    <2>1. /\ Moves(c, {"approve", "status"}, {"status", "hash"})
          /\ RegistryGrows /\ UNCHANGED applied
      BY <1>1, ChecksEffect DEF IInv
    <2>2. Bound' /\ LockHeld'
      BY <2>1, MovesBound DEF RegistryGrows, Moves, Started
    <2>3. Granted'
      BY <2>1 DEF IInv, Granted, RegistryGrows, Frame, Moves, Admitted
    <2>4. RanOnce'
      BY <2>1 DEF IInv, RanOnce, RegistryGrows, Frame, Moves
    <2> QED
      BY <2>2, <2>3, <2>4
  <1>2. CASE CheckHash(c)
    <2>1. CASE Leaves(c)
      BY <2>1, LeavesStep
    <2>2. CASE ~Leaves(c)
      <3>1. /\ Moves(c, {"hash"}, {"execute"})
            /\ RegistryGrows /\ UNCHANGED applied
            /\ approvals[call[c].approval].status = "APPROVED"
            /\ call[c].plan \notin executedPlanHashes
        BY <1>2, <2>2, CheckHashEffect DEF IInv
      <3>2. Bound' /\ LockHeld'
        BY <3>1, MovesBound DEF RegistryGrows, Moves, Started, Admitted
      <3>3. call[c].approval \in consented
        BY <3>1 DEF IInv, Granted, Bound, Started, Moves
      <3>4. Granted'
        BY <3>1, <3>3 DEF IInv, Granted, RegistryGrows, Frame, Moves, Admitted
      <3>5. RanOnce'
        BY <3>1 DEF IInv, RanOnce, RegistryGrows, Frame, Moves
      <3> QED
        BY <3>2, <3>4, <3>5
    <2> QED
      BY <2>1, <2>2
  <1> QED
    BY <1>1, <1>2

LEMMA ExecuteStep ==
    ASSUME IInv, NEW c \in Callers, Execute(c)
    PROVE  Bound' /\ LockHeld' /\ Granted' /\ RanOnce'
  <1>1. /\ Moves(c, {"execute"}, {"rollback", "mark"})
        /\ RegistryGrows
        /\ \/ pc'[c] = "rollback" /\ UNCHANGED applied
           \/ pc'[c] = "mark" /\ applied' = [applied EXCEPT ![call[c].plan] = @ + 1]
    BY ExecuteEffect DEF IInv, Moves
  <1>2. Bound' /\ LockHeld'
    BY <1>1, MovesBound DEF RegistryGrows, Moves, Started, Admitted
  <1>3. Granted'
    BY <1>1 DEF IInv, Granted, RegistryGrows, Frame, Moves, Admitted
  <1>4. /\ call[c].plan \in Plans
        /\ call[c].plan \notin executedPlanHashes
        /\ applied \in [Plans -> Nat]
    BY <1>1 DEF IInv, Bound, RanOnce, Moves, Started, Admitted, TypeOK
  <1>5. \A d \in Callers : pc[d] # "mark"
    BY <1>1, Alone DEF IInv, Moves, InCall
  <1>6. applied[call[c].plan] = 0
    BY <1>4, <1>5 DEF IInv, RanOnce
  <1>7. CASE pc'[c] = "rollback" /\ UNCHANGED applied
    <2>1. \A p \in Plans : applied[p] = 0 \/ (applied[p] = 1 /\ p \in executedPlanHashes)
      BY <1>5 DEF IInv, RanOnce
    <2>2. /\ \A d \in Callers : pc'[d] \notin {"execute", "mark"}
          /\ applied' = applied /\ executedPlanHashes' = executedPlanHashes
      <3>1. \A d \in Callers : pc[d] = "execute" => d = c
        BY <1>1, Alone DEF IInv, Moves, InCall
      <3> QED
        BY <1>1, <1>5, <1>7, <3>1 DEF Frame, Moves, RegistryGrows
    <2>3. RanOnce'
      BY <2>1, <2>2 DEF RanOnce
    <2> QED
      BY <1>2, <1>3, <2>3
  <1>8. CASE pc'[c] = "mark" /\ applied' = [applied EXCEPT ![call[c].plan] = @ + 1]
    <2>1. ASSUME NEW p \in Plans
          PROVE  \/ applied'[p] = 0
                 \/ applied'[p] = 1 /\ \/ p \in executedPlanHashes'
                                       \/ \E d \in Callers :
                                            pc'[d] = "mark" /\ call'[d].plan = p
      BY <1>1, <1>4, <1>5, <1>6, <1>8 DEF IInv, RanOnce, RegistryGrows, Moves
    <2>2. \A d \in Callers :
            /\ pc'[d] = "execute" => call'[d].plan \notin executedPlanHashes'
            /\ pc'[d] = "mark" => call'[d].plan \notin executedPlanHashes'
      BY <1>1, <1>4, <1>8 DEF IInv, RanOnce, RegistryGrows, Frame, Moves
    <2>3. \A p \in Plans :
            \/ applied'[p] = 0
            \/ applied'[p] = 1 /\ \/ p \in executedPlanHashes'
                                  \/ \E d \in Callers : pc'[d] = "mark" /\ call'[d].plan = p
      BY <2>1, Zenon
    <2>4. RanOnce'
      BY <2>2, <2>3, Zenon DEF RanOnce
    <2> QED
      BY <1>2, <1>3, <2>4
  <1> QED
    BY <1>1, <1>2, <1>3, <1>7, <1>8

LEMMA RecordStep ==
    ASSUME IInv, NEW c \in Callers, RecordExecuted(c)
    PROVE  Bound' /\ LockHeld' /\ Granted' /\ RanOnce'
  <1>1. /\ Moves(c, {"mark"}, {"verify"})
        /\ executedPlanHashes' = executedPlanHashes \cup {call[c].plan}
        /\ UNCHANGED <<approvals, consented, applied>>
    BY RecordEffect DEF IInv
  <1>2. Bound' /\ LockHeld'
    BY <1>1, MovesBound DEF Moves, Started, Admitted, Exists
  <1>3. Granted'
    BY <1>1 DEF IInv, Granted, Frame, Moves, Admitted
  <1>4. \A d \in Callers : pc[d] \in {"execute", "mark"} => d = c
    BY <1>1, Alone DEF IInv, Moves, InCall
  <1>5. RanOnce'
    BY <1>1, <1>4 DEF IInv, RanOnce, Frame, Moves
  <1> QED
    BY <1>2, <1>3, <1>5

LEMMA AfterStep ==
    ASSUME IInv, NEW c \in Callers, Verify(c) \/ Rollback(c)
    PROVE  Bound' /\ LockHeld' /\ Granted' /\ RanOnce'
  <1>1. /\ Moves(c, {"verify", "rollback"}, {"rollback", "finish"})
        /\ RegistryGrows /\ UNCHANGED applied
    BY AfterEffect DEF IInv
  <1>2. Bound' /\ LockHeld'
    BY <1>1, MovesBound DEF RegistryGrows, Moves, Started, Admitted
  <1>3. Granted'
    BY <1>1 DEF IInv, Granted, RegistryGrows, Frame, Moves, Admitted
  <1>4. RanOnce'
    BY <1>1 DEF IInv, RanOnce, RegistryGrows, Frame, Moves
  <1> QED
    BY <1>2, <1>3, <1>4

LEMMA InvStep ==
    ASSUME IInv, [Next]_vars
    PROVE  IInv'
  <1>1. TypeOK'
    BY TypeStep DEF IInv
  <1>2. ASSUME NEW c \in Callers, Invoke(c) \/ CallStep(c)
        PROVE  Bound' /\ LockHeld' /\ Granted' /\ RanOnce'
    <2>1. CASE Finish(c)
      BY <2>1, FinishEffect, LeavesStep DEF IInv
    <2> QED
      BY <1>2, <2>1, InvokeStep, EntryStep, ChecksStep, ExecuteStep, RecordStep,
         AfterStep DEF CallStep
  <1>3. ASSUME OperatorCreates \/ OperatorDecides \/ ClockAdvances \/ UNCHANGED vars
        PROVE  Bound' /\ LockHeld' /\ Granted' /\ RanOnce'
    BY <1>3, OthersEffect, OthersStep DEF IInv
  <1> QED
    BY <1>1, <1>2, <1>3, RestartStep DEF Next, IInv

THEOREM Invariance == Spec => []IInv
  <1>1. Init => IInv
    BY TypeInit, InvInit DEF IInv
  <1>2. IInv /\ [Next]_vars => IInv'
    BY InvStep
  <1> QED
    BY <1>1, <1>2, PTL DEF Spec

-----------------------------------------------------------------------------
(* The results.                                                            *)

(* Every variable of the service keeps its type.                           *)
THEOREM TypeCorrect == Spec => []TypeOK
  <1>1. IInv => TypeOK
    BY DEF IInv
  <1> QED
    BY <1>1, Invariance, PTL

(* However operators, the clock and restarts interfere with the records,   *)
(* a call past the prechecks of execute_failover_pipeline has an approval  *)
(* that was granted for the very plan it executes.                         *)
THEOREM Governance == Spec => []ExecutionIsGoverned
  <1>1. IInv => ExecutionIsGoverned
    BY DEF IInv, Bound, Granted, ExecutionIsGoverned, Started
  <1> QED
    BY <1>1, Invariance, PTL

(* Any number of threads submitting any plans: no plan runs to completion  *)
(* twice in the life of a process.                                         *)
THEOREM NoDoubleRun == Spec => []AtMostOnce
  <1>1. IInv => AtMostOnce
    BY DEF IInv, RanOnce, AtMostOnce, TypeOK
  <1> QED
    BY <1>1, Invariance, PTL

-----------------------------------------------------------------------------
(* Answers and router changes: what is stored, recorded and on the router. *)

(* The stages at which the call's adapter has not run.                     *)
Before == {"idle", "waiting", "decide", "approve", "status", "hash", "execute"}

(* The call's plan ran and is recorded, its result not stored yet.         *)
Delivering(c) == pc[c] \in {"verify", "rollback", "finish"} /\ call[c].executed

(* Where a call stands says whether its plan ran; a result that is about   *)
(* to be stored is the first one of its plan.                              *)
AnsweredCall(c) ==
    /\ pc[c] \in Before => ~call[c].executed
    /\ pc[c] \in {"mark", "verify"} => call[c].executed
    /\ Delivering(c) => /\ call[c].plan \in executedPlanHashes
                        /\ ExecutedResults(call[c].plan) = {}

(* What is recorded as executed has one result, or a call on its way to    *)
(* store one.                                                              *)
AnsweredPlan(p) ==
    /\ p \in executedPlanHashes =>
         \/ ExecutedResults(p) # {}
         \/ \E c \in Callers : Delivering(c) /\ call[c].plan = p
    /\ ExecutedResults(p) # {} => p \in executedPlanHashes
    /\ \A i, j \in ExecutedResults(p) : i = j

Answered ==
    /\ \A c \in Callers : AnsweredCall(c)
    /\ \A p \in Plans : AnsweredPlan(p)

(* A router found reconfigured was so by a call whose run is stored, or    *)
(* will be.                                                                *)
Accounted ==
    restarts = 0 /\ distancesA # {10} =>
        \/ \E i \in DOMAIN results : results[i].executed
        \/ \E c \in Callers : pc[c] \in Admitted /\ call[c].executed

LEMMA ResultsKept ==
    ASSUME UNCHANGED results, NEW p
    PROVE  ExecutedResults(p)' = ExecutedResults(p)
  BY DEF ExecutedResults, ResultsOf

(* What c's step leaves alone before its plan has run.                     *)
Prepares(c) ==
    /\ pc[c] \in Before /\ pc'[c] \in Before \cup {"rollback"}
    /\ ~call'[c].executed
    /\ Frame(c)
    /\ UNCHANGED <<results, executedPlanHashes, distancesA, restarts>>

LEMMA EarlyEffect ==
    ASSUME IInv, Answered, NEW c \in Callers,
           \/ Invoke(c) \/ Acquire(c) \/ Decide(c)
           \/ AutoApprove(c) \/ CheckStatus(c) \/ CheckHash(c)
    PROVE  Prepares(c)
  <1> USE DEF Before
  <1>0. /\ pc \in [Callers -> Stages] /\ call \in [Callers -> Call]
        /\ pc[c] \in Before => ~call[c].executed
        /\ ~NoCall.executed
    BY DEF IInv, TypeOK, Answered, AnsweredCall, NoCall
  <1>1. CASE Invoke(c)
    BY <1>0, <1>1 DEF Invoke, Goto, Prepares, Frame, approvalVars
  <1>2. CASE Acquire(c)
    <2>1. CASE Return(c)
      BY <1>0, <1>2, <2>1 DEF Acquire, Return, Goto, Prepares, Frame, approvalVars
    <2>2. CASE ~Return(c)
      BY <1>0, <1>2, <2>2 DEF Acquire, Goto, Prepares, Frame, approvalVars, Call
    <2> QED
      BY <2>1, <2>2
  <1>3. CASE Decide(c)
    <2>1. CASE Return(c) /\ UNCHANGED approvalVars
      BY <1>0, <1>3, <2>1 DEF Decide, Return, Goto, Prepares, Frame, approvalVars
    <2>2. ASSUME NEW p \in Plans, AskForApproval(c, p)
          PROVE  Prepares(c)
      <3>1. /\ \E s \in {"approve", "status"} : Goto(c, s)
            /\ UNCHANGED executedPlanHashes
            /\ \E id \in ApprovalIds :
                 call' = [call EXCEPT ![c].plan = p, ![c].approval = id]
        BY <2>2 DEF AskForApproval, RequestApproval
      <3>2. call'[c].executed = call[c].executed
        BY <1>0, <3>1 DEF Call
      <3> QED
        BY <1>0, <1>3, <3>1, <3>2 DEF Decide, Goto, Prepares, Frame
    <2> QED
      BY <1>3, <2>1, <2>2 DEF Decide, DecisionRaises, AnswerFromPast
  <1>4. CASE AutoApprove(c)
    BY <1>0, <1>4 DEF AutoApprove, ApproveRequest, Goto, Prepares, Frame
  <1>5. CASE CheckStatus(c)
    BY <1>0, <1>5 DEF CheckStatus, Goto, Prepares, Frame, approvalVars, Call
  <1>6. CASE CheckHash(c)
    <2>1. CASE Return(c)
      BY <1>0, <1>6, <2>1 DEF CheckHash, ValidateApproval, Return, Goto, Prepares, Frame
    <2>2. CASE ~Return(c)
      BY <1>0, <1>6, <2>2 DEF CheckHash, ValidateApproval, Goto, Prepares, Frame, Call
    <2> QED
      BY <2>1, <2>2
  <1> QED
    BY <1>1, <1>2, <1>3, <1>4, <1>5, <1>6

LEMMA AnsweredKept ==
    ASSUME Answered, UNCHANGED <<results, executedPlanHashes>>, NEW d \in Callers,
           pc'[d] = pc[d], call'[d] = call[d]
    PROVE  AnsweredCall(d)'
  BY DEF Answered, AnsweredCall, Delivering, ExecutedResults, ResultsOf

LEMMA PreparesStep ==
    ASSUME Answered, Accounted, NEW c \in Callers, Prepares(c)
    PROVE  Answered' /\ Accounted'
  <1>1. \A p \in Plans : ExecutedResults(p)' = ExecutedResults(p)
    BY ResultsKept DEF Prepares
  <1>2. ~Delivering(c) /\ ~Delivering(c)' /\ ~call[c].executed
    BY DEF Prepares, Delivering, Before, Answered, AnsweredCall
  <1>3. \A d \in Callers \ {c} :
          /\ pc'[d] = pc[d] /\ call'[d] = call[d]
          /\ Delivering(d)' <=> Delivering(d)
    BY DEF Prepares, Frame, Delivering
  <1>4. \A d \in Callers : AnsweredCall(d)'
    <2>1. AnsweredCall(c)'
      BY <1>2 DEF Prepares, Before, AnsweredCall
    <2> QED
      BY <1>3, <2>1, AnsweredKept DEF Prepares
  <1>5. \A p \in Plans : AnsweredPlan(p)'
    BY <1>1, <1>2, <1>3 DEF Answered, AnsweredPlan, Prepares
  <1>6. Answered'
    BY <1>4, <1>5 DEF Answered
  <1>7. Accounted'
    BY <1>2, <1>3 DEF Accounted, Prepares
  <1> QED
    BY <1>6, <1>7

(* The run of the plan: the adapter returns.                               *)
LEMMA RunStep ==
    ASSUME IInv, Answered, Accounted, NEW c \in Callers, Execute(c), ~ExecuteRaises(c)
    PROVE  Answered' /\ Accounted'
  <1>1. /\ pc[c] = "execute" /\ pc'[c] = "mark" /\ call'[c].executed
        /\ Frame(c)
        /\ UNCHANGED <<results, executedPlanHashes>>
    BY DEF IInv, TypeOK, Execute, ExecuteReturns, Goto, Frame, Call, approvalVars
  <1>2. ~Delivering(c) /\ ~Delivering(c)'
    BY <1>1 DEF Delivering
  <1>3. \A d \in Callers \ {c} :
          /\ pc'[d] = pc[d] /\ call'[d] = call[d]
          /\ Delivering(d)' <=> Delivering(d)
    BY <1>1 DEF Frame, Delivering
  <1>4. \A d \in Callers : AnsweredCall(d)'
    <2>1. AnsweredCall(c)'
      BY <1>1, <1>2 DEF Before, AnsweredCall
    <2> QED
      BY <1>1, <1>3, <2>1, AnsweredKept
  <1>5. \A p \in Plans : AnsweredPlan(p)'
    <2>1. \A p \in Plans : ExecutedResults(p)' = ExecutedResults(p)
      BY <1>1, ResultsKept
    <2> QED
      BY <1>1, <1>2, <1>3, <2>1 DEF Answered, AnsweredPlan
  <1>6. Accounted'
    BY <1>1 DEF Accounted, Admitted
  <1> QED
    BY <1>4, <1>5, <1>6 DEF Answered

(* The run is recorded: the hash had no result of an execution before.     *)
LEMMA RecordAnswered ==
    ASSUME IInv, Answered, Accounted, NEW c \in Callers, RecordExecuted(c)
    PROVE  Answered' /\ Accounted'
  <1>1. /\ Moves(c, {"mark"}, {"verify"})
        /\ executedPlanHashes' = executedPlanHashes \cup {call[c].plan}
        /\ UNCHANGED <<results, distancesA, restarts, call>>
    BY RecordEffect DEF IInv, RecordExecuted
  <1>2. /\ call[c].plan \in Plans
        /\ call[c].plan \notin executedPlanHashes
        /\ call[c].executed
    BY <1>1 DEF IInv, Bound, RanOnce, Answered, AnsweredCall, Moves, Started, Admitted
  <1>3. ExecutedResults(call[c].plan) = {}
    BY <1>2 DEF Answered, AnsweredPlan
  <1>4. \A d \in Callers \ {c} : pc'[d] = pc[d] /\ ~Delivering(d) /\ ~Delivering(d)'
    BY <1>1, Alone DEF IInv, Moves, Frame, InCall, Delivering
  <1>5. \A p \in Plans : ExecutedResults(p)' = ExecutedResults(p)
    BY <1>1, ResultsKept
  <1>6. \A d \in Callers : AnsweredCall(d)'
    <2>1. AnsweredCall(c)'
      BY <1>1, <1>2, <1>3 DEF Moves, Before, AnsweredCall, ExecutedResults, ResultsOf
    <2>2. ASSUME NEW d \in Callers \ {c}
          PROVE  AnsweredCall(d)'
      BY <1>1, <1>4 DEF Answered, AnsweredCall
    <2> QED
      BY <2>1, <2>2
  <1>7. \A p \in Plans : AnsweredPlan(p)'
    <2>1. Delivering(c)'
      BY <1>1, <1>2 DEF Moves, Delivering
    <2>2. ASSUME NEW p \in Plans
          PROVE  AnsweredPlan(p)'
      <3>1. CASE p = call[c].plan
        <4>1. p \in executedPlanHashes' /\ Delivering(c)' /\ call'[c].plan = p
          BY <1>1, <2>1, <3>1
        <4> QED
          BY <1>3, <1>5, <3>1, <4>1 DEF AnsweredPlan
      <3>2. CASE p # call[c].plan
        <4>1. ~Delivering(c)
          BY <1>1 DEF Moves, Delivering
        <4> QED
          BY <1>1, <1>4, <1>5, <3>2, <4>1 DEF Answered, AnsweredPlan
      <3> QED
        BY <3>1, <3>2
    <2> QED
      BY <2>2
  <1>8. Accounted'
    BY <1>1, <1>2 DEF Accounted, Admitted, Moves
  <1> QED
    BY <1>6, <1>7, <1>8 DEF Answered

(* Between record and result nothing is forgotten; a rollback of a run     *)
(* that raised finds the router as it was and leaves it so.                *)
LEMMA AfterRunStep ==
    ASSUME IInv, Answered, Accounted, NEW c \in Callers, Verify(c) \/ Rollback(c)
    PROVE  Answered' /\ Accounted'
  <1>1. /\ Moves(c, {"verify", "rollback"}, {"rollback", "finish"})
        /\ UNCHANGED <<results, executedPlanHashes, restarts>>
        /\ pc[c] = "verify" => UNCHANGED distancesA
    BY AfterEffect DEF IInv, Verify, Rollback, approvalVars
  <1>2. call'[c].executed = call[c].executed
    BY DEF IInv, TypeOK, Verify, Rollback, Call
  <1>3. \A d \in Callers :
          /\ Delivering(d)' <=> Delivering(d)
          /\ call'[d].plan = call[d].plan
    BY <1>1, <1>2 DEF Moves, Frame, Delivering
  <1>4. \A d \in Callers : AnsweredCall(d)'
    <2>1. AnsweredCall(c)'
      BY <1>1, <1>2, <1>3
      DEF Answered, AnsweredCall, Moves, Before, ExecutedResults, ResultsOf
    <2> QED
      BY <1>1, <2>1, AnsweredKept DEF Moves, Frame
  <1>5. \A p \in Plans : AnsweredPlan(p)'
    <2>1. \A p \in Plans : ExecutedResults(p)' = ExecutedResults(p)
      BY <1>1, ResultsKept
    <2> QED
      BY <1>1, <1>3, <2>1 DEF Answered, AnsweredPlan
  <1>6. Accounted'
    <2>1. CASE call[c].executed
      BY <1>1, <1>2, <2>1 DEF Accounted, Admitted, Moves
    <2>2. CASE ~call[c].executed
      <3>1. distancesA = {10} => distancesA' = {10}
        BY <1>1 DEF Verify, Rollback, FailbackProvider, Reconfigure, AfterCommands
      <3>2. \A d \in Callers : pc[d] \in Admitted /\ call[d].executed =>
              pc'[d] \in Admitted /\ call'[d].executed
        BY <1>1, <2>2 DEF Moves, Frame
      <3> QED
        BY <1>1, <3>1, <3>2 DEF Accounted
    <2> QED
      BY <2>1, <2>2
  <1> QED
    BY <1>4, <1>5, <1>6 DEF Answered

(* The result is stored: it becomes the one answer of its plan.            *)
LEMMA FinishStep ==
    ASSUME IInv, Answered, Accounted, NEW c \in Callers, Finish(c)
    PROVE  Answered' /\ Accounted'
  <1> DEFINE r == ResultOf(c)
             n == Len(results) + 1
  <1>1. /\ pc[c] = "finish" /\ pc'[c] = "idle" /\ ~call'[c].executed
        /\ Frame(c)
        /\ UNCHANGED <<executedPlanHashes, distancesA, restarts>>
    BY ReturnEffect DEF IInv, TypeOK, Finish, Return, NoCall, approvalVars
  <1>2. r \in Result /\ r.plan = call[c].plan /\ r.executed = call[c].executed
    BY <1>1 DEF ResultOf, Result, IInv, TypeOK, Call, Bound, Started, Admitted
  <1>3. /\ DOMAIN results' = DOMAIN results \cup {n}
        /\ n \notin DOMAIN results
        /\ results'[n] = r
        /\ \A i \in DOMAIN results : results'[i] = results[i]
    BY <1>2 DEF Finish, Stored, IInv, TypeOK
  <1> HIDE DEF r, n
  <1>4. \A p \in Plans :
          \/ /\ r.executed /\ p = r.plan
             /\ ExecutedResults(p)' = ExecutedResults(p) \cup {n}
          \/ /\ ~(r.executed /\ p = r.plan)
             /\ ExecutedResults(p)' = ExecutedResults(p)
    BY <1>3 DEF ExecutedResults, ResultsOf
  <1>5. r.executed => Delivering(c)
    BY <1>1, <1>2 DEF Delivering
  <1>6. /\ \A d \in Callers : ~Delivering(d)'
        /\ \A d \in Callers \ {c} : ~Delivering(d) /\ pc'[d] \notin {"mark", "verify"}
    BY <1>1, Alone DEF IInv, Frame, InCall, Delivering
  <1>7. \A d \in Callers : AnsweredCall(d)'
    BY <1>1, <1>6 DEF Answered, AnsweredCall, Frame
  <1>8. \A p \in Plans : AnsweredPlan(p)'
    <2>1. ASSUME NEW p \in Plans, r.executed, p = r.plan
          PROVE  AnsweredPlan(p)'
      <3>1. p \in executedPlanHashes /\ ExecutedResults(p) = {}
        BY <1>2, <1>5, <2>1 DEF Answered, AnsweredCall
      <3>2. ExecutedResults(p)' = {n}
        BY <1>4, <2>1, <3>1
      <3> QED
        BY <1>1, <3>1, <3>2 DEF AnsweredPlan
    <2>2. ASSUME NEW p \in Plans, ~(r.executed /\ p = r.plan)
          PROVE  AnsweredPlan(p)'
      <3>1. ExecutedResults(p)' = ExecutedResults(p)
        BY <1>4, <2>2
      <3>2. ~(Delivering(c) /\ call[c].plan = p)
        BY <1>2, <2>2 DEF Delivering
      <3>3. p \in executedPlanHashes => ExecutedResults(p) # {}
        BY <1>6, <3>2 DEF Answered, AnsweredPlan
      <3> QED
        BY <1>1, <3>1, <3>3 DEF Answered, AnsweredPlan
    <2> QED
      BY <2>1, <2>2
  <1>9. Accounted'
    <2>1. ASSUME restarts = 0, distancesA # {10}
          PROVE  \E i \in DOMAIN results' : results'[i].executed
      <3>1. CASE \E i \in DOMAIN results : results[i].executed
        BY <1>3, <3>1
      <3>2. CASE \E d \in Callers : pc[d] \in Admitted /\ call[d].executed
        <4>1. call[c].executed
          BY <1>1, <3>2, Alone DEF IInv, InCall, Admitted
        <4> QED
          BY <1>2, <1>3, <4>1
      <3> QED
        BY <2>1, <3>1, <3>2 DEF Accounted
    <2> QED
      BY <1>1, <2>1 DEF Accounted
  <1> QED
    BY <1>7, <1>8, <1>9 DEF Answered

LEMMA EnvironmentStep ==
    ASSUME IInv, Answered, Accounted,
           OperatorCreates \/ OperatorDecides \/ ClockAdvances \/ UNCHANGED vars
    PROVE  Answered' /\ Accounted'
  <1>1. UNCHANGED <<pc, call, results, executedPlanHashes, distancesA, restarts>>
    BY OthersEffect
    DEF IInv, OperatorCreates, OperatorDecides, ClockAdvances, vars, serviceVars,
        RegistryGrows
  <1> QED
    BY <1>1 DEF Answered, AnsweredCall, AnsweredPlan, Accounted, Delivering,
                ExecutedResults, ResultsOf

LEMMA RestartAnswered ==
    ASSUME IInv, Restart
    PROVE  Answered' /\ Accounted'
  <1>1. \A c \in Callers : pc'[c] = "idle" /\ call'[c] = NoCall
    BY DEF Restart
  <1>2. results' = <<>> /\ executedPlanHashes' = {} /\ restarts' # 0
    BY DEF Restart, IInv, TypeOK
  <1> QED
    BY <1>1, <1>2 DEF Answered, AnsweredCall, AnsweredPlan, Accounted, Delivering,
                      ExecutedResults, ResultsOf, Before, NoCall

THEOREM AnswersInvariance == Spec => [](IInv /\ Answered /\ Accounted)
  <1>1. Init => IInv /\ Answered /\ Accounted
    <2>1. Init => IInv
      BY TypeInit, InvInit DEF IInv
    <2>2. Init => Answered /\ Accounted
      BY DEF Init, ApprovalInit, RouterInit, Answered, AnsweredCall, AnsweredPlan,
             Accounted, Delivering, ExecutedResults, ResultsOf, Before, NoCall
    <2> QED
      BY <2>1, <2>2
  <1>2. IInv /\ Answered /\ Accounted /\ [Next]_vars => (IInv /\ Answered /\ Accounted)'
    <2> SUFFICES ASSUME IInv, Answered, Accounted, [Next]_vars
                 PROVE  IInv' /\ Answered' /\ Accounted'
      OBVIOUS
    <2>1. IInv'
      BY InvStep
    <2>2. ASSUME NEW c \in Callers, Invoke(c) \/ CallStep(c)
          PROVE  Answered' /\ Accounted'
      <3>1. CASE Execute(c) /\ ExecuteRaises(c)
        <4>1. Prepares(c)
          BY <3>1 DEF IInv, TypeOK, Execute, ExecuteRaises, Goto, Frame, Prepares,
                      Before, Answered, AnsweredCall, approvalVars
        <4> QED
          BY <4>1, PreparesStep
      <3>2. CASE Invoke(c) \/ Acquire(c) \/ Decide(c) \/ AutoApprove(c)
                  \/ CheckStatus(c) \/ CheckHash(c)
        BY <3>2, EarlyEffect, PreparesStep
      <3> QED
        BY <2>2, <3>1, <3>2, RunStep, RecordAnswered, AfterRunStep, FinishStep
        DEF CallStep
    <2> QED
      BY <2>1, <2>2, EnvironmentStep, RestartAnswered DEF Next
  <1> QED
    BY <1>1, <1>2, PTL DEF Spec

(* Between two calls, a plan is recorded as executed exactly when one      *)
(* stored result is of its execution: whoever submits it again is          *)
(* answered.                                                               *)
THEOREM AnswersKept == Spec => []ExecutedHasAnswer
  <1>1. IInv /\ Answered => ExecutedHasAnswer
    <2> SUFFICES ASSUME IInv, Answered, lock = Free, NEW p \in Plans
                 PROVE  /\ p \in executedPlanHashes <=> ExecutedResults(p) # {}
                        /\ \A i, j \in ExecutedResults(p) : i = j
      BY DEF ExecutedHasAnswer
    <2>1. \A c \in Callers : ~Delivering(c)
      BY CallersAssumption DEF IInv, LockHeld, InCall, Delivering
    <2> QED
      BY <2>1 DEF Answered, AnsweredPlan
  <1> QED
    BY <1>1, AnswersInvariance, PTL

(* As long as the process lives, a router found reconfigured between two   *)
(* calls has a stored result of an executed plan to explain it: a run that *)
(* raised, and the rollback after it, leave the router as they found it.   *)
THEOREM ChangesAccounted == Spec => []RouterChangeIsAccounted
  <1>1. IInv /\ Accounted => RouterChangeIsAccounted
    BY CallersAssumption
    DEF IInv, LockHeld, InCall, Admitted, Accounted, RouterChangeIsAccounted
  <1> QED
    BY <1>1, AnswersInvariance, PTL

-----------------------------------------------------------------------------
(* The refinement: each step of the pipeline is one step of the abstract   *)
(* life of a plan, or none.                                                *)

abstractPhase == [p \in Plans |-> PhaseOf(p)]

LEMMA PhaseCases ==
    ASSUME NEW p \in Plans
    PROVE  /\ p \in executedPlanHashes => PhaseOf(p) = "recorded"
           /\ p \notin executedPlanHashes =>
                /\ InStage("mark", p) => PhaseOf(p) = "ran"
                /\ ~InStage("mark", p) /\ InStage("execute", p) => PhaseOf(p) = "authorised"
                /\ ~InStage("mark", p) /\ ~InStage("execute", p) => PhaseOf(p) = "open"
  BY DEF PhaseOf

LEMMA PhaseCasesNext ==
    ASSUME NEW p \in Plans
    PROVE  /\ p \in executedPlanHashes' => PhaseOf(p)' = "recorded"
           /\ p \notin executedPlanHashes' =>
                /\ InStage("mark", p)' => PhaseOf(p)' = "ran"
                /\ ~InStage("mark", p)' /\ InStage("execute", p)' => PhaseOf(p)' = "authorised"
                /\ ~InStage("mark", p)' /\ ~InStage("execute", p)' => PhaseOf(p)' = "open"
  BY DEF PhaseOf

(* A step that moves no call to or from the two stages, nor the record.    *)
LEMMA PhaseKept ==
    ASSUME executedPlanHashes' = executedPlanHashes,
           \A p \in Plans : /\ InStage("execute", p)' <=> InStage("execute", p)
                            /\ InStage("mark", p)' <=> InStage("mark", p)
    PROVE  UNCHANGED abstractPhase
  <1>1. ASSUME NEW p \in Plans
        PROVE  PhaseOf(p)' = PhaseOf(p)
    BY PhaseCases, PhaseCasesNext
  <1> QED
    BY <1>1 DEF abstractPhase

(* One plan changes its phase.                                             *)
LEMMA PhaseChanged ==
    ASSUME NEW p \in Plans, NEW x,
           PhaseOf(p)' = x,
           \A q \in Plans \ {p} : PhaseOf(q)' = PhaseOf(q)
    PROVE  abstractPhase' = [abstractPhase EXCEPT ![p] = x]
  BY DEF abstractPhase

LEMMA QuietSteps ==
    ASSUME IInv, NEW c \in Callers,
           pc[c] \notin {"execute", "mark"}, pc'[c] \notin {"execute", "mark"},
           Frame(c), RegistryGrows
    PROVE  UNCHANGED abstractPhase
  <1>1. \A p \in Plans : /\ InStage("execute", p)' <=> InStage("execute", p)
                         /\ InStage("mark", p)' <=> InStage("mark", p)
    BY DEF InStage, Frame
  <1> QED
    BY <1>1, PhaseKept DEF RegistryGrows

(* While c is in the pipeline, it alone can have a plan in hand.           *)
LEMMA OnlyMine ==
    ASSUME IInv, NEW c \in Callers, NEW p \in Plans, InCall(c),
           NEW stage \in {"execute", "mark"}
    PROVE  InStage(stage, p) <=> pc[c] = stage /\ call[c].plan = p
  BY Alone DEF IInv, InStage, InCall

LEMMA OnlyMineNext ==
    ASSUME IInv, NEW c \in Callers, NEW p \in Plans, InCall(c), Frame(c),
           NEW stage \in {"execute", "mark"}
    PROVE  InStage(stage, p)' <=> pc'[c] = stage /\ call'[c].plan = p
  BY Alone DEF IInv, InStage, InCall, Frame

LEMMA RefinesInit == Init => Governed!Init
  BY DEF Init, ApprovalInit, Governed!Init, PhaseOf, InStage

(* A call with a plan in hand, or about to have it, takes a step.          *)
LEMMA InHandSteps ==
    ASSUME IInv, NEW c \in Callers,
           Moves(c, {"hash", "execute", "mark"}, Stages),
           NEW p, p = call[c].plan,
           \/ /\ pc[c] = "hash" /\ pc'[c] = "execute"
              /\ p \notin executedPlanHashes
              /\ executedPlanHashes' = executedPlanHashes
           \/ /\ pc[c] = "execute" /\ pc'[c] \in {"rollback", "mark"}
              /\ executedPlanHashes' = executedPlanHashes
           \/ /\ pc[c] = "mark" /\ pc'[c] = "verify"
              /\ executedPlanHashes' = executedPlanHashes \cup {p}
    PROVE  Governed!Next
  <1> USE DEF Governed!Next, Governed!Authorise, Governed!Abandon, Governed!Run,
              Governed!Record, Governed!InHand
  <1>1. p \in Plans /\ InCall(c) /\ Frame(c) /\ call'[c].plan = p
    BY DEF IInv, Moves, Bound, Started, Admitted, InCall
  <1>2. \A q \in Plans \ {p} :
          /\ PhaseOf(q) \notin {"authorised", "ran"}
          /\ PhaseOf(q)' = PhaseOf(q)
    <2> TAKE q \in Plans \ {p}
    <2>1. /\ ~InStage("execute", q) /\ ~InStage("mark", q)
          /\ ~InStage("execute", q)' /\ ~InStage("mark", q)'
      BY <1>1, OnlyMine, OnlyMineNext
    <2>2. q \in executedPlanHashes' <=> q \in executedPlanHashes
      OBVIOUS
    <2> QED
      BY <2>1, <2>2, PhaseCases, PhaseCasesNext
  <1>3. p \notin executedPlanHashes
    BY DEF IInv, RanOnce
  <1>4. CASE pc[c] = "hash" /\ pc'[c] = "execute"
    <2>1. PhaseOf(p) = "open" /\ PhaseOf(p)' = "authorised"
      BY <1>1, <1>3, <1>4, OnlyMine, OnlyMineNext, PhaseCases, PhaseCasesNext
    <2>2. abstractPhase' = [abstractPhase EXCEPT ![p] = "authorised"]
      BY <1>1, <1>2, <2>1, PhaseChanged
    <2>3. Governed!Authorise(p)
      BY <1>1, <1>2, <2>1, <2>2 DEF abstractPhase
    <2> QED
      BY <1>1, <2>3
  <1>5. CASE pc[c] = "execute" /\ pc'[c] = "rollback"
    <2>1. PhaseOf(p) = "authorised" /\ PhaseOf(p)' = "open"
      BY <1>1, <1>3, <1>5, OnlyMine, OnlyMineNext, PhaseCases, PhaseCasesNext
    <2>2. abstractPhase' = [abstractPhase EXCEPT ![p] = "open"]
      BY <1>1, <1>2, <2>1, PhaseChanged
    <2>3. Governed!Abandon(p)
      BY <1>1, <2>1, <2>2 DEF abstractPhase
    <2> QED
      BY <1>1, <2>3
  <1>6. CASE pc[c] = "execute" /\ pc'[c] = "mark"
    <2>1. PhaseOf(p) = "authorised" /\ PhaseOf(p)' = "ran"
      BY <1>1, <1>3, <1>6, OnlyMine, OnlyMineNext, PhaseCases, PhaseCasesNext
    <2>2. abstractPhase' = [abstractPhase EXCEPT ![p] = "ran"]
      BY <1>1, <1>2, <2>1, PhaseChanged
    <2>3. Governed!Run(p)
      BY <1>1, <2>1, <2>2 DEF abstractPhase
    <2> QED
      BY <1>1, <2>3
  <1>7. CASE pc[c] = "mark" /\ pc'[c] = "verify"
    <2>1. PhaseOf(p) = "ran" /\ PhaseOf(p)' = "recorded"
      BY <1>1, <1>3, <1>7, OnlyMine, PhaseCases, PhaseCasesNext
    <2>2. abstractPhase' = [abstractPhase EXCEPT ![p] = "recorded"]
      BY <1>1, <1>2, <2>1, PhaseChanged
    <2>3. Governed!Record(p)
      BY <1>1, <2>1, <2>2 DEF abstractPhase
    <2> QED
      BY <1>1, <2>3
  <1> QED
    BY <1>4, <1>5, <1>6, <1>7

LEMMA RefinesStep ==
    ASSUME IInv, [Next]_vars
    PROVE  Governed!Next \/ UNCHANGED abstractPhase
  <1>1. ASSUME NEW c \in Callers, Leaves(c)
        PROVE  UNCHANGED abstractPhase
    BY <1>1, QuietSteps DEF Leaves
  <1>2. ASSUME NEW c \in Callers, Invoke(c)
        PROVE  UNCHANGED abstractPhase
    BY <1>2, InvokeEffect, QuietSteps DEF IInv
  <1>3. ASSUME NEW c \in Callers, Acquire(c)
        PROVE  UNCHANGED abstractPhase
    BY <1>1, <1>3, AcquireEffect, QuietSteps DEF IInv
  <1>4. ASSUME NEW c \in Callers, Decide(c)
        PROVE  UNCHANGED abstractPhase
    BY <1>1, <1>4, DecideEffect, QuietSteps DEF IInv
  <1>5. ASSUME NEW c \in Callers, AutoApprove(c) \/ CheckStatus(c)
        PROVE  UNCHANGED abstractPhase
    BY <1>5, ChecksEffect, QuietSteps DEF IInv, Moves
  <1>6. ASSUME NEW c \in Callers, CheckHash(c)
        PROVE  Governed!Next \/ UNCHANGED abstractPhase
    <2>1. CASE Leaves(c)
      BY <1>1, <2>1
    <2>2. CASE ~Leaves(c)
      <3>1. /\ Moves(c, {"hash"}, {"execute"})
            /\ RegistryGrows
            /\ call[c].plan \notin executedPlanHashes
        BY <1>6, <2>2, CheckHashEffect DEF IInv
      <3> QED
        BY <3>1, InHandSteps DEF Moves, RegistryGrows, Stages
    <2> QED
      BY <2>1, <2>2
  <1>7. ASSUME NEW c \in Callers, Execute(c)
        PROVE  Governed!Next
    <2>1. Moves(c, {"execute"}, {"rollback", "mark"}) /\ RegistryGrows
      BY <1>7, ExecuteEffect DEF IInv, Moves
    <2> QED
      BY <2>1, InHandSteps DEF Moves, RegistryGrows, Stages
  <1>8. ASSUME NEW c \in Callers, RecordExecuted(c)
        PROVE  Governed!Next
    <2>1. /\ Moves(c, {"mark"}, {"verify"})
          /\ executedPlanHashes' = executedPlanHashes \cup {call[c].plan}
      BY <1>8, RecordEffect DEF IInv
    <2> QED
      BY <2>1, InHandSteps DEF Moves, Stages
  <1>9. ASSUME NEW c \in Callers, Verify(c) \/ Rollback(c)
        PROVE  UNCHANGED abstractPhase
    BY <1>9, AfterEffect, QuietSteps DEF IInv, Moves
  <1>10. ASSUME NEW c \in Callers, Finish(c)
         PROVE  UNCHANGED abstractPhase
    BY <1>1, <1>10, FinishEffect DEF IInv
  <1>11. ASSUME OperatorCreates \/ OperatorDecides \/ ClockAdvances \/ UNCHANGED vars
         PROVE  UNCHANGED abstractPhase
    <2>1. RegistryGrows /\ UNCHANGED <<lock, pc, call, applied>>
      BY <1>11, OthersEffect DEF IInv
    <2> QED
      BY <2>1, PhaseKept DEF InStage, RegistryGrows
  <1>12. ASSUME Restart
         PROVE  Governed!Next
    BY <1>12 DEF Restart, Governed!Next, Governed!ProcessLost, PhaseOf, InStage
  <1> QED
    BY <1>2, <1>3, <1>4, <1>5, <1>6, <1>7, <1>8, <1>9, <1>10, <1>11, <1>12
    DEF Next, CallStep

(* Whatever threads, operators and restarts do, a plan is authorised one   *)
(* at a time, and once run and recorded is never authorised again.         *)
THEOREM Refinement == Spec => ImplementsGovernedExecution
  <1>1. IInv /\ [Next]_vars => [Governed!Next]_abstractPhase
    BY RefinesStep
  <1> QED
    BY <1>1, RefinesInit, Invariance, PTL
    DEF Spec, ImplementsGovernedExecution, Governed!Spec, abstractPhase
=============================================================================
