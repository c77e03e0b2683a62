------------------------ MODULE YoungSubgroupSynthesis ------------------------
(***************************************************************************)
(* young_subgroup_synthesis: line by line, a gate in front and a gate behind *)
(* make the rest of the function leave that line alone.  A table is the      *)
(* sequence of its rows, a row a function from the lines to 0, 1 and, where  *)
(* the value is still open, -1.                                             *)
(***************************************************************************)
EXTENDS ReversibleCircuit

(* work has start, the tables vf_in and vb_in, the ordering left, done.      *)

Open == -1
Row(x) == [l \in Lines |-> IF l \in x THEN 1 ELSE 0]
Opened(table, pos) == [i \in DOMAIN table |-> [table[i] EXCEPT ![pos] = Open]]

Find(table, row) ==
    CHOOSE i \in DOMAIN table : table[i] = row /\ \A j \in 1..i - 1 : table[j] # row

-------------------------------------------------------------------------------
(* Mutant: both rows that share the rest at the output side get a 1. *)
BuildShapeUnbalanced(vf_open, vb_open, pos) ==
    SeqExt!FoldLeft(
        LAMBDA t, n :
            LET free == {k \in t.j..Len(t.vf) : t.vf[k][pos] = Open} IN
            IF free = {} THEN t
            ELSE LET k == Min(free)
                     vf0 == [t.vf EXCEPT ![k][pos] = 0]
                     partner == Find(vf0, t.vf[k])
                     vb1 == [t.vb EXCEPT ![partner][pos] = 1]
                     back == Find(vb1, t.vb[partner])
                 IN  [vf |-> [vf0 EXCEPT ![partner][pos] = 1],
                      vb |-> [vb1 EXCEPT ![back][pos] = 1], j |-> back],
        [vf |-> vf_open, vb |-> vb_open, j |-> 1], vf_open)

(* build_shape: of two rows that agree but for pos, one gets 0 and one 1, at  *)
(* either side and the same one of each row; the next row is the one whose   *)
(* output was just decided.                                                 *)
BuildShape(vf_open, vb_open, pos) ==
    SeqExt!FoldLeft(
        LAMBDA t, n :
            LET free == {k \in t.j..Len(t.vf) : t.vf[k][pos] = Open} IN
            IF free = {} THEN t
            ELSE LET k == Min(free)
                     vf0 == [t.vf EXCEPT ![k][pos] = 0]
                     partner == Find(vf0, t.vf[k])
                     vb1 == [t.vb EXCEPT ![partner][pos] = 1]
                     back == Find(vb1, t.vb[partner])
                 IN  [vf |-> [vf0 EXCEPT ![partner][pos] = 1],
                      vb |-> [vb1 EXCEPT ![back][pos] = 0], j |-> back],
        [vf |-> vf_open, vb |-> vb_open, j |-> 1], vf_open)

(* The rows whose value of pos rises, as cubes over the other lines.         *)
ControlFunction(from, to, pos) ==
    {{<<l, from[i][l] = 1>> : l \in Lines \ {pos}} :
        i \in {j \in DOMAIN from : from[j][pos] = 0 /\ to[j][pos] = 1}}

(* esopmin is esop_minimization or exorcism_minimization, as the caller sets   *)
(* it: any exclusive sum with no more cubes than the function has minterms.  *)
Cubes(function, pos) ==
    ExclusiveSums({x \in SUBSET (Lines \ {pos}) : \E minterm \in function : Controlled(minterm, x)},
                  pos, Cardinality(function))

GatesFor(function, pos) ==
    {LET cubes == SeqExt!SetToSeq(s) IN [i \in DOMAIN cubes |-> Toffoli(cubes[i], pos)] :
        s \in Cubes(function, pos)}

-------------------------------------------------------------------------------
Start(f, ordering) ==
    /\ algorithm = "young"
    /\ spec = f
    /\ circ = <<>>
    /\ work = [start |-> 0, ordering |-> ordering, done |-> FALSE,
               vf_in |-> [i \in DOMAIN Rows |-> Row(Rows[i])],
               vb_in |-> [i \in DOMAIN Rows |-> Row(f[Rows[i]])]]

(* add_gates_for_line with basic_first_step or next_step. *)
AddGates ==
    /\ Len(work.ordering) > 1
    /\ \E pos \in {Head(work.ordering)} :
       \E shape \in {BuildShape(Opened(work.vf_in, pos), Opened(work.vb_in, pos), pos)} :
       \E front \in GatesFor(ControlFunction(work.vf_in, shape.vf, pos), pos),
          back \in GatesFor(ControlFunction(work.vb_in, shape.vb, pos), pos) :
        /\ circ' = InsertCircuit(circ, work.start, front \o back)
        /\ work' = [start |-> work.start + Len(front), ordering |-> Tail(work.ordering),
                    done |-> FALSE, vf_in |-> shape.vf, vb_in |-> shape.vb]
    /\ UNCHANGED <<algorithm, spec>>

AddLastGate ==
    /\ Len(work.ordering) = 1
    /\ \E pos \in {Head(work.ordering)} :
       \E gates \in GatesFor(ControlFunction(work.vf_in, work.vb_in, pos), pos) :
        /\ circ' = InsertCircuit(circ, work.start, gates)
        /\ work' = [work EXCEPT !.start = @ + Len(gates), !.ordering = <<>>, !.done = TRUE]
    /\ UNCHANGED <<algorithm, spec>>

-------------------------------------------------------------------------------
(* The tables are what is left between the gates in front and the gates       *)
(* behind, for every row, and agree on the lines that have been adjusted.    *)
TablesAreLeft ==
    algorithm = "young" /\ ~work.done =>
    LET Front == SubSeq(circ, 1, work.start)
        Back == SubSeq(circ, work.start + 1, Len(circ))
        Open01(row) == {l \in Lines : row[l] = 1}
    IN  \A i \in DOMAIN Rows :
            /\ SimulateCircuit(Front, Rows[i]) = Open01(work.vf_in[i])
            /\ SimulateCircuit(Back, Open01(work.vb_in[i])) = spec[Rows[i]]
            /\ \A l \in Lines : l \notin {work.ordering[k] : k \in DOMAIN work.ordering} =>
                    work.vf_in[i][l] = work.vb_in[i][l]
===============================================================================
