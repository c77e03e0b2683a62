---------------------------- MODULE MCPlimCompiler ----------------------------
(* Every graph of a few gates.  With two inputs the first gate has the        *)
(* constant, all inputs and any complements; later gates read what is left.  *)
EXTENDS PlimCompiler

Edges == [node : Nodes, complemented : BOOLEAN]

(* The children that mig_create_maj may leave a gate. *)
Triples(g) ==
    {t \in [1..3 -> {e \in Edges : e.node < g}] :
        t[1].node < t[2].node /\ t[2].node < t[3].node}

AllMigs ==
    {m \in [Gates -> UNION {Triples(g) : g \in Gates}] :
        /\ \A g \in Gates : m[g] \in Triples(g)
        /\ \A g, h \in Gates : m[g] = m[h] => g = h}

(* The sets of true inputs. *)
AllAssignments == SUBSET Inputs

TrueIn(x) == {a \in AllAssignments : x \in a}

Noise == {{}}
===============================================================================
