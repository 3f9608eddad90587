------------------------------- MODULE BaseAgent -------------------------------
(***************************************************************************)
(* The lifecycle of agents/base/base_agent.py as steps on one agent's      *)
(* metrics: each operator is what one critical section of the agent's lock *)
(* does to its state and counters.  What runs between two sections belongs *)
(* to the module that calls them.                                          *)
(***************************************************************************)
EXTENDS Naturals

AgentState == {"UNINITIALIZED", "INITIALIZING", "READY", "RUNNING", "FAILED", "TERMINATED"}

NewAgent == [state |-> "UNINITIALIZED", executions |-> 0, successes |-> 0, failures |-> 0]

(* A variant that lets every call in.                                     *)
AlwaysMayExecute(a) == TRUE

MayExecute(a) == a.state # "TERMINATED"

(* execute's first section.  An uninitialized agent is initialized inside  *)
(* it: no other thread sees the steps of that.                             *)
ExecuteBegins(a) == [a EXCEPT !.state = "RUNNING", !.executions = @ + 1]

(* execute's last section, and _record_failure.  Neither looks at the      *)
(* state it overwrites.                                                    *)
ExecuteEnds(a, ok) ==
    IF ok THEN [a EXCEPT !.state = "READY", !.successes = @ + 1]
          ELSE [a EXCEPT !.state = "FAILED", !.failures = @ + 1]

Terminate(a) == [a EXCEPT !.state = "TERMINATED"]
=============================================================================
