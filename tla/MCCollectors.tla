----------------------------- MODULE MCCollectors -----------------------------
(* CollectorScheduler on the simulation and one live collector.            *)
EXTENDS CollectorScheduler

(* As the collectors set them.                                             *)
MCPriority == [c \in Collectors |-> IF c \in Simulation THEN 10 ELSE 20]
=============================================================================
