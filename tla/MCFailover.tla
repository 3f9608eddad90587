------------------------------ MODULE MCFailover ------------------------------
(* FailoverService on a small instance: the constants are in the .cfg.     *)
EXTENDS FailoverService, TLC

(* Threads, plans and approval ids are interchangeable.                    *)
Symmetry ==
    Permutations(Callers) \cup Permutations(Plans) \cup Permutations(ApprovalIds)
=============================================================================
