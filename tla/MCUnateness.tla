------------------------------ MODULE MCUnateness ------------------------------
(* Three inputs and two outputs: rows and columns have different lengths.    *)
(* The functions have every kind of entry: constants, literals, unate in     *)
(* some inputs and independent of others, binate, and all three together.    *)
EXTENDS Unateness

TrueAt(P(_)) == {x \in Points : P(x)}

Sample ==
    {{}, Points,
     TrueAt(LAMBDA x : ~x[1]),
     TrueAt(LAMBDA x : x[0] /\ ~x[1]),
     TrueAt(LAMBDA x : x[0] # x[2]),
     TrueAt(LAMBDA x : IF x[0] THEN x[1] ELSE x[2]),
     TrueAt(LAMBDA x : x[0] \/ (x[1] /\ ~x[2]))}
===============================================================================
