---------------------------- MODULE MCServiceTask ----------------------------
(* Instances of ServiceTask for TLC. *)
EXTENDS ServiceTask, TLC

CONSTANTS i1, i2, k1, k2, t1, t2, t3, w1, w2, c1, c2, a, b

\* One instance forked into two branches.
ForkInstOf == [k \in {k1, k2} |-> i1]

\* One instance of one branch.
OneInstOf == [k \in {k1} |-> i1]

Symmetry == Permutations(Task) \cup Permutations(Worker) \cup Permutations(Call)
              \cup Permutations(Topic)
==============================================================================
