--------------------------- MODULE MCParallelCompute ---------------------------
(* parallel_simulate on an AIG with two inputs and two or three AND nodes.  *)
(* Nodes 3 and 4 share the child 2, nodes 4 and 5 the child 3, so that two   *)
(* threads sleep on one condition variable; node 4 waits for two children.  *)
EXTENDS ParallelCompute, TLC

Pattern == [n \in {1, 2} |-> n = 1]

Fanin(n, c) == [node |-> n, complemented |-> c]

SmallChild ==
    (3 :> <<Fanin(1, FALSE), Fanin(2, TRUE)>>) @@
    (4 :> <<Fanin(2, TRUE), Fanin(3, FALSE)>>)

LargeChild == SmallChild @@ (5 :> <<Fanin(3, TRUE), Fanin(1, TRUE)>>)

SimulateInput(n) == Pattern[n]
SimulateAnd(v1, c1, v2, c2) == (v1 # c1) /\ (v2 # c2)
===============================================================================
