--------------------------- MODULE FailoverService ---------------------------
(***************************************************************************)
(* execute_failover_pipeline of agents/failover/failover_service.py, run   *)
(* by several threads on one service object, with the approval registry it *)
(* shares with operators, the adapters and the router behind them.         *)
(*                                                                         *)
(* A call holds the service's lock from its first statement to its last,   *)
(* so calls exclude each other.  Operators, the clock, the router and the  *)
(* loss of the process are not bound by that lock: whatever the pipeline   *)
(* reads in one step may have changed by the next.  The steps of a call    *)
(* are therefore cut where it enters or leaves the approval registry or    *)
(* touches the router.                                                     *)
(*                                                                         *)
(* The arguments of a call and the results of its pure stages (path        *)
(* decision, plan, the prechecks that look at the decision only) are       *)
(* chosen at the step that first uses them.                                *)
(***************************************************************************)
EXTENDS ApprovalManager, FRRControlPlane, Sequences, FiniteSets

CONSTANTS
    Callers,       (* threads that call the pipeline                       *)
    Free,          (* "nobody holds the lock"                              *)
    NoApproval,
    MaxRequests,   (* bound: pipeline calls plus approvals created
                      outside the pipeline; no more than ApprovalIds       *)
    MaxRestarts    (* bound: process losses                                *)

ASSUME CallersAssumption ==
    /\ Free \notin Callers
    /\ NoApproval \notin ApprovalIds
    /\ MaxRequests \in Nat /\ MaxRestarts \in Nat

VARIABLES
    lock,      (* FailoverService._lock                                    *)
    pc,        (* where each thread is in the pipeline                     *)
    call,      (* the pipeline's local variables                           *)
    results,   (* _executed_results, in insertion order                    *)
    requests, restarts,        (* counters of the bounds                   *)
    applied    (* history: per plan, adapter runs that did not raise since
                  the process started                                      *)

serviceVars == <<lock, pc, call, results, requests, restarts, applied>>
vars == <<approvalVars, distancesA, serviceVars>>

Modes == {"DRY_RUN", "LAB_AUTHORIZED", "PRODUCTION_AUTHORIZED"}

(* Names a caller may ask for.  "Unlisted" stands for every other name,    *)
(* registered through register_adapter or not.                             *)
Adapters == {"DryRunExecutionAdapter", "AuthorizedNetworkAdapter", "Unlisted"}

FinalStatus == {"COMPLETED", "ROLLED_BACK", "ROLLBACK_FAILED"}

Stages == {"idle", "waiting", "decide", "approve", "status", "hash",
           "execute", "mark", "verify", "rollback", "finish"}

NoCall == [mode |-> "DRY_RUN", adapter |-> "DryRunExecutionAdapter",
           plan |-> NoPlan, approval |-> NoApproval, statusOk |-> FALSE,
           executed |-> FALSE, final |-> "COMPLETED"]

Call == [mode : Modes, adapter : Adapters, plan : Plans \cup {NoPlan},
         approval : ApprovalIds \cup {NoApproval}, statusOk : BOOLEAN,
         executed : BOOLEAN, final : FinalStatus]

Result == [plan : Plans, executed : BOOLEAN, final : FinalStatus]

Init ==
    /\ ApprovalInit
    /\ RouterInit
    /\ lock = Free
    /\ pc = [c \in Callers |-> "idle"]
    /\ call = [c \in Callers |-> NoCall]
    /\ results = <<>>
    /\ requests = 0 /\ restarts = 0
    /\ applied = [p \in Plans |-> 0]

Goto(c, stage) == pc' = [pc EXCEPT ![c] = stage]

(* Leaving the pipeline releases the lock; a variant that keeps it.        *)
ReturnLocked(c) ==
    /\ Goto(c, "idle")
    /\ call' = [call EXCEPT ![c] = NoCall]
    /\ UNCHANGED lock

Return(c) ==
    /\ lock' = Free
    /\ Goto(c, "idle")
    /\ call' = [call EXCEPT ![c] = NoCall]

ResultsOf(p) == {i \in DOMAIN results : results[i].plan = p}

(* next(r for r in _executed_results.values() if ...): the oldest one.     *)
IdempotentAnswer(p) ==
    results[CHOOSE i \in ResultsOf(p) : \A j \in ResultsOf(p) : i <= j]

-----------------------------------------------------------------------------
(* A thread calls the pipeline and blocks on the lock.                     *)
Invoke(c) ==
    /\ pc[c] = "idle"
    /\ requests < MaxRequests
    /\ requests' = requests + 1
    /\ Goto(c, "waiting")
    /\ UNCHANGED <<lock, call, results, restarts, applied>>
    /\ UNCHANGED <<approvalVars, distancesA>>

(* Entering "with self._lock", and a variant without it.                   *)
NoLock == TRUE

LockFree == lock = Free

(* PRODUCTION_AUTHORIZED raises inside the lock, which the raise releases; *)
(* the other modes are never looked at again.                              *)
Acquire(c) ==
    /\ pc[c] = "waiting"
    /\ LockFree
    /\ \E mode \in Modes :
           IF mode = "PRODUCTION_AUTHORIZED"
             THEN Return(c)
             ELSE /\ lock' = c
                  /\ Goto(c, "decide")
                  /\ call' = [call EXCEPT ![c].mode = mode]
    /\ UNCHANGED <<results, requests, restarts, applied>>
    /\ UNCHANGED <<approvalVars, distancesA>>

(* Path decision and plan.  Whatever the decision raises leaves the        *)
(* pipeline; the idempotency check returns an earlier result of the same   *)
(* plan; otherwise an approval is requested.                               *)
DecisionRaises(c) == Return(c) /\ UNCHANGED approvalVars

AnswerFromPast(c, p) ==
    /\ p \in executedPlanHashes
    /\ ResultsOf(p) # {}
    /\ Return(c)
    /\ UNCHANGED approvalVars

AskForApproval(c, p) ==
    /\ ~(p \in executedPlanHashes /\ ResultsOf(p) # {})
    /\ \E id \in ApprovalIds, auto \in BOOLEAN :
           /\ RequestApproval(id, p)
           /\ call' = [call EXCEPT ![c].plan = p, ![c].approval = id]
           /\ Goto(c, IF auto THEN "approve" ELSE "status")
    /\ UNCHANGED lock

Decide(c) ==
    /\ pc[c] = "decide"
    /\ \/ DecisionRaises(c)
       \/ \E p \in Plans : AnswerFromPast(c, p) \/ AskForApproval(c, p)
    /\ UNCHANGED <<results, requests, restarts, applied, distancesA>>

(* auto_approve: the pipeline approves its own request.                    *)
AutoApprove(c) ==
    /\ pc[c] = "approve"
    /\ ApproveRequest(call[c].approval, call[c].plan)
    /\ Goto(c, "status")
    /\ UNCHANGED <<lock, call, results, requests, restarts, applied, distancesA>>

(* Check 11 reads the approval record without the manager's lock.          *)
CheckStatus(c) ==
    /\ pc[c] = "status"
    /\ call' = [call EXCEPT ![c].statusOk =
           /\ approvals[call[c].approval].status = "APPROVED"
           /\ ~approvals[call[c].approval].overdue]
    /\ Goto(c, "hash")
    /\ UNCHANGED <<lock, results, requests, restarts, applied>>
    /\ UNCHANGED <<approvalVars, distancesA>>

AdapterAuthorized(a, ready) ==
    \/ a = "DryRunExecutionAdapter"
    \/ a = "AuthorizedNetworkAdapter" /\ ready

(* all_passed of the prechecks: checks 1, 2, 4 to 7 and 9 look at the      *)
(* decision only ("viable"), 11 and 12 at the approval, 14 at the adapter; *)
(* 3, 8, 10, 13, 15 and 16 pass for every call the pipeline makes.  In the *)
(* variant each check overwrites the outcome of the one before.            *)
LastCheckPassed(c, viable, adapter, ready) == AdapterAuthorized(adapter, ready)

AllPassed(c, viable, adapter, ready) ==
    /\ viable
    /\ call[c].statusOk
    /\ ApprovalValid(call[c].approval, call[c].plan)
    /\ AdapterAuthorized(adapter, ready)

(* Check 12 validates the approval again, under the manager's lock.  A     *)
(* failed precheck returns PRECHECK_FAILED, which is audited but not       *)
(* stored.                                                                 *)
CheckHash(c) ==
    /\ pc[c] = "hash"
    /\ ValidateApproval(call[c].approval, call[c].plan)
    /\ \E viable, ready \in BOOLEAN, adapter \in Adapters :
           IF AllPassed(c, viable, adapter, ready)
             THEN /\ Goto(c, "execute")
                  /\ call' = [call EXCEPT ![c].adapter = adapter]
                  /\ UNCHANGED lock
             ELSE Return(c)
    /\ UNCHANGED <<results, requests, restarts, applied, distancesA>>

(* Variant of ExecuteRaises: the adapter raises after it has acted.        *)
ExecuteRaisesLate(c) ==
    /\ IF call[c].adapter = "AuthorizedNetworkAdapter"
         THEN FailoverProvider
         ELSE UNCHANGED distancesA
    /\ UNCHANGED <<applied, call>>
    /\ Goto(c, "rollback")

(* adapter.execute of the plan's one step.  It raises when the target does *)
(* not pass validate_target or the router is not ready.  Otherwise the dry *)
(* run simulates and the authorized adapter reconfigures the router; the   *)
(* router's answer, success or not, is only filed in adapter_results.      *)
ExecuteRaises(c) ==
    /\ UNCHANGED <<distancesA, applied, call>>
    /\ Goto(c, "rollback")

ExecuteReturns(c) ==
    /\ IF call[c].adapter = "AuthorizedNetworkAdapter"
         THEN FailoverProvider
         ELSE UNCHANGED distancesA
    /\ applied' = [applied EXCEPT ![call[c].plan] = @ + 1]
    /\ call' = [call EXCEPT ![c].executed = TRUE]
    /\ Goto(c, "mark")

Execute(c) ==
    /\ pc[c] = "execute"
    /\ ExecuteRaises(c) \/ ExecuteReturns(c)
    /\ UNCHANGED <<lock, results, requests, restarts, approvalVars>>

RecordExecuted(c) ==
    /\ pc[c] = "mark"
    /\ MarkPlanExecuted(call[c].plan)
    /\ Goto(c, "verify")
    /\ UNCHANGED <<lock, call, results, requests, restarts, applied, distancesA>>

(* verify_execution: the pipeline passes no telemetry, so the defaults are *)
(* compared with the plan's limits and always pass; only a caller's        *)
(* override makes it fail.                                                 *)
Verify(c) ==
    /\ pc[c] = "verify"
    /\ \E overrideFails \in BOOLEAN :
           IF overrideFails
             THEN Goto(c, "rollback") /\ UNCHANGED call
             ELSE /\ Goto(c, "finish")
                  /\ call' = [call EXCEPT ![c].final = "COMPLETED"]
    /\ UNCHANGED <<lock, results, requests, restarts, applied>>
    /\ UNCHANGED <<approvalVars, distancesA>>

(* execute_rollback runs the plan's FAILBACK_PROVIDER step.  The adapter   *)
(* raises only when its probe finds the router not ready; what the router  *)
(* answers is not looked at.                                               *)
Rollback(c) ==
    /\ pc[c] = "rollback"
    /\ \E ready, overrideSuccess \in BOOLEAN :
           LET onRouter == call[c].adapter = "AuthorizedNetworkAdapter"
               raises   == onRouter /\ ~ready
           IN  /\ IF onRouter /\ ready THEN FailbackProvider
                                       ELSE UNCHANGED distancesA
               /\ call' = [call EXCEPT ![c].final =
                      IF ~raises /\ overrideSuccess THEN "ROLLED_BACK"
                                                    ELSE "ROLLBACK_FAILED"]
    /\ Goto(c, "finish")
    /\ UNCHANGED <<lock, results, requests, restarts, applied, approvalVars>>

(* _executed_results with the result of c's call, and a variant that       *)
(* stores completed ones only.                                             *)
ResultOf(c) == [plan |-> call[c].plan, executed |-> call[c].executed,
                final |-> call[c].final]

StoredIfCompleted(c) ==
    IF call[c].final = "COMPLETED" THEN Append(results, ResultOf(c)) ELSE results

Stored(c) == Append(results, ResultOf(c))

(* Audit, store the result, release the lock.                              *)
Finish(c) ==
    /\ pc[c] = "finish"
    /\ results' = Stored(c)
    /\ Return(c)
    /\ UNCHANGED <<requests, restarts, applied, approvalVars, distancesA>>

CallStep(c) ==
    \/ Acquire(c) \/ Decide(c) \/ AutoApprove(c) \/ CheckStatus(c)
    \/ CheckHash(c) \/ Execute(c) \/ RecordExecuted(c) \/ Verify(c)
    \/ Rollback(c) \/ Finish(c)

-----------------------------------------------------------------------------
(* Operators act on the registry at any time, also between two steps of a  *)
(* call.                                                                   *)
OperatorCreates ==
    /\ requests < MaxRequests
    /\ requests' = requests + 1
    /\ \E id \in ApprovalIds, h \in Plans : RequestApproval(id, h)
    /\ UNCHANGED <<lock, pc, call, results, restarts, applied, distancesA>>

OperatorDecides ==
    /\ \E id \in ApprovalIds :
           \/ \E h \in Plans \cup {NoPlan} : ApproveRequest(id, h)
           \/ \E key \in {"approval_id", "request_id"} : RejectRequest(id, key)
           \/ \E h \in Plans : ValidateApproval(id, h)
    /\ UNCHANGED <<serviceVars, distancesA>>

ClockAdvances ==
    /\ \E id \in ApprovalIds : DeadlinePasses(id)
    /\ UNCHANGED <<serviceVars, distancesA>>

(* The process is lost and started again.  Everything it knew was in       *)
(* memory; the router keeps its routes.                                    *)
Restart ==
    /\ restarts < MaxRestarts
    /\ restarts' = restarts + 1
    /\ lock' = Free
    /\ pc' = [c \in Callers |-> "idle"]
    /\ call' = [c \in Callers |-> NoCall]
    /\ results' = <<>>
    /\ applied' = [p \in Plans |-> 0]
    /\ approvals' = [id \in ApprovalIds |-> NoRecord]
    /\ executedPlanHashes' = {} /\ consented' = {}
    /\ UNCHANGED <<requests, distancesA>>

Next ==
    \/ \E c \in Callers : Invoke(c) \/ CallStep(c)
    \/ OperatorCreates \/ OperatorDecides \/ ClockAdvances
    \/ Restart

Spec == Init /\ [][Next]_vars

(* A thread inside the pipeline is never blocked except on the lock, and   *)
(* waits for no operator.  Operators, the clock and restarts are free to   *)
(* do nothing.                                                             *)
FairSpec == Spec /\ \A c \in Callers : WF_vars(CallStep(c))

-----------------------------------------------------------------------------
(* Properties.                                                             *)

InCall(c) == pc[c] \notin {"idle", "waiting"}

(* The steps at which the plan has passed its prechecks.                   *)
Admitted == {"execute", "mark", "verify", "rollback", "finish"}

(* Every variable has its type.                                            *)
TypeOK ==
    /\ ApprovalTypeOK
    /\ RouterTypeOK
    /\ lock \in Callers \cup {Free}
    /\ pc \in [Callers -> Stages]
    /\ call \in [Callers -> Call]
    /\ results \in Seq(Result)
    /\ requests \in Nat /\ restarts \in Nat
    /\ applied \in [Plans -> Nat]

(* No call gets past the prechecks of execute_failover_pipeline unless the *)
(* approval it asked for is bound to the very plan it executes and an      *)
(* approve_request granted it at some moment, whatever operators and the   *)
(* clock do to the record meanwhile.                                       *)
ExecutionIsGoverned ==
    \A c \in Callers : pc[c] \in Admitted =>
        /\ call[c].approval \in consented
        /\ approvals[call[c].approval].hash = call[c].plan

(* Within one process the adapter runs a plan to completion at most once,  *)
(* however many threads submit it (anti-replay of mark_plan_executed).     *)
AtMostOnce == \A p \in Plans : applied[p] <= 1

(* Whenever no call is in progress, a hash is recorded as executed exactly *)
(* when one stored result, and only one, is of its execution: an           *)
(* idempotent answer is always there to give.                              *)
ExecutedResults(p) == {i \in ResultsOf(p) : results[i].executed}

ExecutedHasAnswer ==
    lock = Free =>
        \A p \in Plans :
            /\ p \in executedPlanHashes <=> ExecutedResults(p) # {}
            /\ \A i, j \in ExecutedResults(p) : i = j

(* As long as the process lives, a router found reconfigured while no call *)
(* is in progress is explained by a stored result of an executed plan: a   *)
(* run that raised, or was stopped by a precheck, left it as it was.       *)
RouterChangeIsAccounted ==
    lock = Free /\ restarts = 0 /\ distancesA # {10} =>
        \E i \in DOMAIN results : results[i].executed

(* A call of the pipeline always returns and lets the next one in: it      *)
(* waits for no operator, and no path out of it keeps the lock.            *)
EveryCallReturns == \A c \in Callers : pc[c] # "idle" ~> pc[c] = "idle"

(* The pipeline implements GovernedExecution.                              *)
InStage(stage, p) == \E c \in Callers : pc[c] = stage /\ call[c].plan = p

PhaseOf(p) ==
    IF p \in executedPlanHashes     THEN "recorded"
    ELSE IF InStage("mark", p)      THEN "ran"
    ELSE IF InStage("execute", p)   THEN "authorised"
    ELSE "open"

Governed == INSTANCE GovernedExecution WITH
    phase <- [p \in Plans |-> PhaseOf(p)]

ImplementsGovernedExecution == Governed!Spec

-----------------------------------------------------------------------------
(* What the documentation says and the code does not do.                   *)

(* "collects fresh telemetry after execution", "collects fresh telemetry   *)
(* to verify restoration" (agents/failover/README.md:89,103): a run on the *)
(* router that ends COMPLETED has moved traffic to ISP-B, one that ends    *)
(* ROLLED_BACK has it back on ISP-A.                                       *)
FinalStatusMatchesRouter ==
    \A c \in Callers :
        pc[c] = "finish" /\ call[c].adapter = "AuthorizedNetworkAdapter" =>
            /\ call[c].final = "COMPLETED" => ActiveProvider = "ISP-B"
            /\ call[c].final = "ROLLED_BACK" => ActiveProvider = "ISP-A"

(* "if plan_hash already executed successfully, return previous result"    *)
(* (failover_service.py:205): the answer given is the result of that       *)
(* execution, not of an earlier attempt that failed.                       *)
AnswerIsTheExecution ==
    [][\A c \in Callers :
          \A p \in Plans :
            pc[c] = "decide" /\ AnswerFromPast(c, p) =>
              IdempotentAnswer(p).executed]_vars
===============================================================================
