----------------------------- MODULE MCPagedCuts -----------------------------
(* A behaviour is one enumeration of cuts: in parallel on an AIG with three    *)
(* AND nodes, where the vector is reallocated while threads read it, or        *)
(* sequentially, complete or partial, on every graph of its kind up to a size. *)
EXTENDS PagedCuts, CutEnumeration, TLC

-------------------------------------------------------------------------------
(* Nodes 4 and 5 read the cuts of 3 and of inputs; both may append meanwhile. *)
Fanin(n, c) == [node |-> n, complemented |-> c]

MCChild ==
    (3 :> <<Fanin(1, FALSE), Fanin(2, FALSE)>>) @@
    (4 :> <<Fanin(2, FALSE), Fanin(3, TRUE)>>) @@
    (5 :> <<Fanin(3, FALSE), Fanin(1, TRUE)>>)

MCLevels == [n \in 0..5 |-> IF n < 3 THEN 0 ELSE IF n = 3 THEN 1 ELSE 2]

NoValue(n) == FALSE
NoValueOf(v1, c1, v2, c2) == FALSE

-------------------------------------------------------------------------------
(* Graphs on the inputs 1 and 2 whose nodes are numbered up to top.           *)
PairsBelow(n) == {<<a, b>> \in (1..n - 1) \X (1..n - 1) : a < b}
TriplesBelow(n) == {<<a, b, c>> \in (0..n - 1) \X (0..n - 1) \X (0..n - 1) : a < b /\ b < c}

ChildrenOf(kind, n) ==
    CASE kind = "aig" -> PairsBelow(n)
      [] kind = "mig" -> TriplesBelow(n)
      [] kind = "xmg" -> PairsBelow(n) \cup TriplesBelow(n)

Graphs(kind, top) ==
    LET graphs[n \in 2..top] ==
            IF n = 2 THEN {[m \in 0..2 |-> <<>>]}
            ELSE UNION {{[m \in 0..n |-> IF m = n THEN c ELSE g[m]] : c \in ChildrenOf(kind, n)} :
                            g \in graphs[n - 1]}
    IN  graphs[top]

Tops == [aig |-> 6, mig |-> 6, xmg |-> 5]

(* The start nodes of a partial enumeration: one, or two that may depend on    *)
(* each other, in either order.                                             *)
StartNodes(top) == {<<top>>, <<top - 1, top>>, <<top, top - 1>>}

(* A boundary of a partial enumeration separates a start node from the inputs. *)
Separates(children, root, boundary) ==
    LET below[m \in 0..root] ==
            \/ m \in boundary \cup {0}
            \/ children[m] # <<>> /\ \A i \in DOMAIN children[m] : below[children[m][i]]
    IN  below[root]

(* Nothing is enumerated in sequence: a graph without nodes. *)
Idle ==
    /\ graph = [kind |-> "none", children |-> <<>>, boundary |-> {}]
    /\ data = <<>> /\ cones = <<>> /\ work = <<>>

MCInit ==
    /\ CutsInit
    /\ \/ Idle
       \/ \E kind \in DOMAIN Tops : \E g \in Graphs(kind, Tops[kind]) :
            \/ \E size \in {2, 3, 4}, most \in {1, 8} : StartAll(kind, g, size, most)
            \/ \E start \in StartNodes(Tops[kind]), b \in SUBSET (1..Tops[kind] - 1) :
                /\ kind # "aig" /\ \A i \in DOMAIN start : Separates(g, start[i], b)
                /\ StartPartial(kind, g, 3, 8, start, b)

InSequence == graph.kind # "none"

Ended == work.todo = <<>> /\ work.stack = <<>> /\ work.leafs = <<>> /\ UNCHANGED enumerationVars

MCNext ==
    \/ ~InSequence /\ CutsNext /\ UNCHANGED enumerationVars
    \/ InSequence /\ (Enumerate \/ Ended) /\ UNCHANGED allVars

MCSpec == MCInit /\ [][MCNext]_<<allVars, enumerationVars>>
===============================================================================
