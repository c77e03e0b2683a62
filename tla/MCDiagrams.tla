------------------------------ MODULE MCDiagrams ------------------------------
(* A behaviour is a sequence of calls of one package, BDDs or ZDDs.  Both    *)
(* have a manager; that of the package not chosen stays as it was made.      *)
EXTENDS BddManager

CONSTANT ZddOps

VARIABLES package, zdds, zdd_calls

Zdd == INSTANCE ZddManager WITH Ops <- ZddOps, mgr <- zdds, calls <- zdd_calls

allVars == <<package, vars, zdds, zdd_calls>>

MCInit == package \in {"bdd", "zdd"} /\ Init /\ Zdd!Init

MCNext ==
    \/ package = "bdd" /\ Next /\ UNCHANGED <<package, zdds, zdd_calls>>
    \/ package = "zdd" /\ Zdd!Next /\ UNCHANGED <<package, vars>>

MCSpec == MCInit /\ [][MCNext]_allVars

-------------------------------------------------------------------------------
(* Diagrams are ordered and equality of indices is equality of functions, or  *)
(* of families.                                                             *)
DiagramsAreCanonical == IF package = "bdd" THEN Canonical ELSE Zdd!Canonical

(* A result is what the operation promises, whatever was called before: cache *)
(* and unique table serve all operations.                                    *)
CallsAreCorrect == IF package = "bdd" THEN EveryCallCorrect ELSE Zdd!EveryCallCorrect

(* An index keeps its meaning while others are computed.                     *)
HandlesKeepMeaning == HandlesAreStable /\ Zdd!HandlesAreStable
===============================================================================
