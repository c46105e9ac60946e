---------------------------- MODULE MCPersistence ----------------------------
(* Instances of Persistence for TLC. *)
EXTENDS Persistence

CONSTANTS i1, t1, t2, c1, c2, loop

\* One instance, two branches; an event-based gateway, then a task with a boundary timer.
BranchInstOf == [t \in {t1, t2} |-> i1]
TaskRoute    == <<"gateway", "task">>
BranchFirst  == (t1 :> 1) @@ (t2 :> 2)
\* The writes that fail are those of the instance and of the task that follows the gateway.
BranchFrail  == {i1} \cup {e \in Entry : e[1] = t1 /\ e[2] = 2}
=============================================================================
