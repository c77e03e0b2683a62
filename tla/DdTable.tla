-------------------------------- MODULE DdTable --------------------------------
(***************************************************************************)
(* The node store of cirkit::dd_manager on its own: its users call          *)
(* unique_create again and again with a variable and two children, whatever *)
(* they compute.  It is shown to give each node one index.                  *)
(***************************************************************************)
EXTENDS DdManager

CONSTANT Kind                 \* the package, which gives the reduction rule

ASSUME KindAssumption == Kind \in {"bdd", "zdd"}

VARIABLES mgr, answer

Full == NoIndex

tableVars == <<mgr, answer>>

Redundant(high, low) == IF Kind = "bdd" THEN high = low ELSE high = 0
Instead(high, low) == low

UniqueCreate(m, var, high, low) ==
    IF Kind = "bdd" THEN CreateBdd(m, var, high, low) ELSE CreateZdd(m, var, high, low)

TableInit ==
    /\ mgr = NewManager
    /\ answer = 0

(* The operations of both packages pass children below the variable, which  *)
(* the assertions of unique_create state.  A full table ends the program.   *)
Create(var, high, low) ==
    /\ mgr.failed = "no"
    /\ high \in Live(mgr) /\ low \in Live(mgr)
    /\ Ordered(mgr, var, high, low)
    /\ LET r == UniqueCreate(mgr, var, high, low) IN
        /\ mgr' = r.mgr
        /\ answer' = IF r.mgr.failed = "no" THEN r.index ELSE Full

TableNext == \E var \in Variables, high, low \in Indices : Create(var, high, low)

TableSpec == TableInit /\ [][TableNext]_tableVars

-------------------------------------------------------------------------------
(* The types of the tables. *)
TableTypes ==
    /\ mgr \in [nodes : [Indices -> [var : Int, high : Int, low : Int]],
                unique : [Indices -> SUBSET Indices],
                nnodes : nvars + 2..Capacity,
                cache : [Indices -> Int \X Int \X Int \X Int],
                failed : {"no", "capacity"}]
    /\ answer \in Indices \cup {Full}

(* Diagrams stay acyclic and ordered: a child is made before its parent and *)
(* tests a later variable.                                                  *)
TableOrdered == WellOrdered(mgr)

(* No node is stored twice, although only the chain of its hash value is    *)
(* searched and the nodes of the variables are in no chain.                 *)
TableUnique == Unique(mgr)

(* No made node is lost to later searches. *)
TableFindable == Findable(mgr)

(* A node that the package's rule removes is never stored. *)
TableReduced ==
    \A i \in Live(mgr) : i > 1 => ~Redundant(mgr.nodes[i].high, mgr.nodes[i].low)

(* The assignments, as sets of variables, that a BDD accepts, or the sets of a  *)
(* ZDD.  The children read what a variable leaves of an assignment, which a   *)
(* BDD is free to ignore and a ZDD is not.                                  *)
Meanings(m) ==
    LET meaning[i \in Live(m)] ==
            IF i = 0 THEN {}
            ELSE IF i = 1 THEN IF Kind = "bdd" THEN SUBSET Variables ELSE {{}}
            ELSE {a \in SUBSET Variables :
                    IF m.nodes[i].var \in a THEN a \ {m.nodes[i].var} \in meaning[m.nodes[i].high]
                    ELSE a \in meaning[m.nodes[i].low]}
    IN  meaning

(* Equality of indices, which is all that the packages compare, is equality   *)
(* of functions or of families.                                             *)
TableCanonical ==
    \A meaning \in {Meanings(mgr)} :
        \A f, g \in Live(mgr) : meaning[f] = meaning[g] => f = g

(* An index in use keeps its node: handles and parents hold plain indices.  *)
NodesAreFinal ==
    [][\A i \in Live(mgr) : i \in Live(mgr)' /\ mgr'.nodes[i] = mgr.nodes[i]]_tableVars

(* The store implements the one without hashing. *)
Interning == INSTANCE NodeInterning WITH
    Given <- [i \in 2..nvars + 1 |-> Node(i - 2, 1, 0)],
    Limit <- Capacity,
    table <- [i \in 2..mgr.nnodes - 1 |-> mgr.nodes[i]]

InternsNodes == Interning!ISpec
===============================================================================
