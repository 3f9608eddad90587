------------------------------ MODULE MCIncidents ------------------------------
(* Two publishers and an operator; one repository object or two; the chain  *)
(* behind an incident's events, without an operator.                        *)
EXTENDS RemediationChain

Shared == [t \in Publishers |-> "shared"]

MCDeployments == {
    [repositoryOf |-> Shared, remediation |-> FALSE, predictions |-> 3, changes |-> 2],
    [repositoryOf |-> [t \in Publishers |-> t], remediation |-> FALSE, predictions |-> 2, changes |-> 1],
    [repositoryOf |-> Shared, remediation |-> TRUE, predictions |-> 2, changes |-> 0]}
=============================================================================
