---------------------------- MODULE CircuitContract ----------------------------
(***************************************************************************)
(* What synthesis and optimisation of reversible circuits promise: to end   *)
(* with a circuit that computes the function it was asked for, and to leave *)
(* it alone then.  What the circuit computes before is nobody's concern.    *)
(***************************************************************************)
VARIABLES
    spec,       \* the function asked for
    result,     \* the function of the circuit, as its caller reads it
    done        \* the circuit has been returned

vars == <<spec, result, done>>

Init == done = FALSE

Work == ~done /\ done' = FALSE /\ UNCHANGED spec

Return == ~done /\ done' = TRUE /\ result' = spec /\ UNCHANGED spec

Spec == Init /\ [][Work \/ Return]_vars
===============================================================================
