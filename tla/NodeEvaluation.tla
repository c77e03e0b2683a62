---------------------------- MODULE NodeEvaluation ----------------------------
(***************************************************************************)
(* What parallel_compute promises (classical/functions/parallel_compute.hpp *)
(* without threads): every node of the graph gets one value for good, an   *)
(* input from on_input, an AND node from on_and of its children's values,  *)
(* and the call returns when every node has its value.                     *)
(***************************************************************************)
EXTENDS Naturals

CONSTANTS Inputs, Ands, \* vertices; vertex 0 is the constant
          Child,        \* per AND: two records [node, complemented]
          OnInput(_), OnAnd(_, _, _, _), constant_result, Missing

Threads == Inputs \cup Ands
Nodes == {0} \cup Threads

VARIABLES result,       \* per node, its value, or Missing
          returned

evars == <<result, returned>>

EInit ==
    /\ result = [n \in Nodes |-> IF n = 0 THEN constant_result ELSE Missing]
    /\ returned = FALSE

ValueOf(n, values) ==
    IF n \in Inputs
    THEN OnInput(n)
    ELSE OnAnd(values[Child[n][1].node], Child[n][1].complemented,
               values[Child[n][2].node], Child[n][2].complemented)

Evaluate(n) ==
    /\ result[n] = Missing
    /\ n \in Ands => \A i \in 1..2 : result[Child[n][i].node] # Missing
    /\ result' = [result EXCEPT ![n] = ValueOf(n, result)]
    /\ UNCHANGED returned

Return ==
    /\ ~returned
    /\ \A n \in Nodes : result[n] # Missing
    /\ returned' = TRUE
    /\ UNCHANGED result

ENext == (\E n \in Threads : Evaluate(n)) \/ Return

ESafety == EInit /\ [][ENext]_evars

===============================================================================
