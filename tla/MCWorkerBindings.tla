-------------------------- MODULE MCWorkerBindings --------------------------
EXTENDS WorkerBindings, TLC
CONSTANTS a, b, w

(* Two tasks resolve to the same reusable worker session.                  *)
Shared == a :> w @@ b :> w
(* Parallel tasks have a worker session each, here named like its task.    *)
Apart == [t \in Task |-> t]
Alike == Permutations(Task)
=============================================================================
