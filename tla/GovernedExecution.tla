-------------------------- MODULE GovernedExecution --------------------------
(***************************************************************************)
(* What the controlled-failover subsystem promises about a plan, without   *)
(* saying how approvals, locks, adapters or verification work: one plan at *)
(* a time is under execution, a plan whose adapter run went through is     *)
(* recorded and never authorised again, and only the loss of the whole     *)
(* process forgets that.  (agents/failover/README.md, sections 2, 6, 9.)   *)
(***************************************************************************)
CONSTANT Plans
VARIABLE phase

Phase == {"open", "authorised", "ran", "recorded"}
TypeOK == phase \in [Plans -> Phase]

InHand(p) == phase[p] \in {"authorised", "ran"}

Init == phase = [p \in Plans |-> "open"]

Authorise(p) ==
    /\ phase[p] = "open"
    /\ \A q \in Plans : ~InHand(q)
    /\ phase' = [phase EXCEPT ![p] = "authorised"]

(* The adapter raised: nothing was executed, the plan may be tried again.  *)
Abandon(p) ==
    /\ phase[p] = "authorised"
    /\ phase' = [phase EXCEPT ![p] = "open"]

Run(p) ==
    /\ phase[p] = "authorised"
    /\ phase' = [phase EXCEPT ![p] = "ran"]

Record(p) ==
    /\ phase[p] = "ran"
    /\ phase' = [phase EXCEPT ![p] = "recorded"]

ProcessLost == phase' = [p \in Plans |-> "open"]

Next ==
    \/ \E p \in Plans : Authorise(p) \/ Abandon(p) \/ Run(p) \/ Record(p)
    \/ ProcessLost

Spec == Init /\ [][Next]_phase
=============================================================================
