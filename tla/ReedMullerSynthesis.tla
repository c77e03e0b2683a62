-------------------------- MODULE ReedMullerSynthesis --------------------------
(***************************************************************************)
(* reed_muller_synthesis: the rows of the positive-polarity Reed-Muller      *)
(* spectrum of the function, and with the option bidirectional of those of  *)
(* its inverse, are made those of the identity.  Here line l is bit l of a   *)
(* row, and a row of a spectrum is the set of lines whose spectrum has it.   *)
(* A sum s is [circ, insert_at, funcs]; funcs[1] is of the function, funcs[2] *)
(* of the inverse.                                                          *)
(***************************************************************************)
EXTENDS ReversibleCircuit

(* work has insert_at, funcs, the index of the next row, the option, done.   *)

Bits(x) == MapThenSumSet(LAMBDA l : 2 ^ l, x)
RowOf == Sorted(Assignments, LAMBDA x, y : Bits(x) < Bits(y))

(* The butterflies, one line after the other. *)
Spectrum(f) ==
    SeqExt!FoldLeft(LAMBDA h, l : [r \in Assignments |->
                        IF l \in r THEN SymDiff(h[r], h[r \ {l}]) ELSE h[r]],
                    f, Upwards(Lines))

-------------------------------------------------------------------------------
(* The product of columns: two rows multiply to their union.                 *)
Times(m, f, column) ==
    {k \in Assignments :
        Cardinality({e \in m \X {r \in Assignments : column \in f[r]} :
                        e[1] \cup e[2] = k}) % 2 = 1}

MultiplyColumns(f, columns) ==
    LET order == Upwards(columns)
    IN  SeqExt!FoldLeft(LAMBDA m, l : Times(m, f, l),
                        {r \in Assignments : order[1] \in f[r]}, Tail(order))

ApplyNot(f, target) == [f EXCEPT ![{}] = @ \ {target}]

ApplyToffoli(f, controls, target) ==
    LET product == MultiplyColumns(f, controls)
    IN  [r \in Assignments |-> IF r \in product THEN Flip(f[r], target) ELSE f[r]]

(* apply_toffoli_front: every row with the target is added to the row that    *)
(* has the controls for it.                                                 *)
ApplyFront(f, controls, target) ==
    [k \in Assignments |->
        LET sources == {r \in Assignments : target \in r /\ (r \ {target}) \cup controls = k}
        IN  FoldSet(LAMBDA r, row : SymDiff(f[r], row), f[k], sources)]

(* Mutant: the other spectrum is left as it was. *)
ApplyGateOneSided(s, o, controls, target) ==
    [circ |-> InsertGate(s.circ, s.insert_at, Toffoli(Pos(controls), target)),
     insert_at |-> s.insert_at + (o - 1),
     funcs |-> [s.funcs EXCEPT ![o] = IF controls = {} THEN ApplyNot(@, target)
                                      ELSE ApplyToffoli(@, controls, target)]]

ApplyGate(s, o, controls, target) ==
    [circ |-> InsertGate(s.circ, s.insert_at, Toffoli(Pos(controls), target)),
     insert_at |-> s.insert_at + (o - 1),
     funcs |-> [i \in 1..2 |->
        IF i # o THEN ApplyFront(s.funcs[i], controls, target)
        ELSE IF controls = {} THEN ApplyNot(s.funcs[i], target)
             ELSE ApplyToffoli(s.funcs[i], controls, target)]]

(* One gate for each of the lines that the row still has when its turn comes. *)
Cleared(s, o, row, control, lines) ==
    SeqExt!FoldLeft(
        LAMBDA t, l : IF l \in t.funcs[o][row] THEN ApplyGate(t, o, {control}, l) ELSE t,
        s, Upwards(lines))

-------------------------------------------------------------------------------
(* Step A: row 0 is emptied; each line chooses its side.                     *)
StepA(s, bidirectional) ==
    SeqExt!FoldLeft(LAMBDA t, l :
        LET o == IF bidirectional
                    /\ Cardinality(t.funcs[2][{}]) < Cardinality(t.funcs[1][{}])
                 THEN 2 ELSE 1
        IN  IF l \in t.funcs[o][{}] THEN ApplyGate(t, o, {}, l) ELSE t,
        s, Upwards(Lines))

Side(s, row, bidirectional) ==
    IF bidirectional /\ Distance(row, s.funcs[2][{}]) < Distance(row, s.funcs[1][{}])
    THEN 2 ELSE 1

(* Step B, the row of one variable k: the variable itself first, from the    *)
(* highest line that has the row, then the other lines off.                 *)
MayB(s, o, row) == s.funcs[o][row] # {}

StepB(s, o, k) ==
    LET row == {k}
        first == IF k \in s.funcs[o][row] THEN s
                 ELSE ApplyGate(s, o, {Max(s.funcs[o][row])}, k)
    IN  Cleared(first, o, row, k, Lines \ {k})

(* Step C, any other row: all but one line off, the last one by a Toffoli     *)
(* gate on the variables of the row, and the lines back.                    *)
Columns(s, o, row) == s.funcs[o][row] \ row

StepC(s, o, row) ==
    LET column == Max(Columns(s, o, row))
        targets == s.funcs[o][row] \ {column}
        before == Cleared(s, o, row, column, Lines \ {column})
    IN  SeqExt!FoldLeft(LAMBDA t, l : ApplyGate(t, o, {column}, l),
                        ApplyGate(before, o, row, column), Upwards(targets))

-------------------------------------------------------------------------------
Empty(f, bidirectional) ==
    [circ |-> <<>>, insert_at |-> 0,
     funcs |-> <<Spectrum(f),
                 IF bidirectional THEN Spectrum([y \in Assignments |-> CHOOSE x \in Assignments : f[x] = y])
                 ELSE [r \in Assignments |-> {}]>>]

Enter(s, index, bidirectional, column_found) ==
    [insert_at |-> s.insert_at, funcs |-> s.funcs, index |-> index,
     bidirectional |-> bidirectional, column_found |-> column_found,
     done |-> index >= Len(RowOf)]

Start(f, bidirectional) ==
    \E s \in {StepA(Empty(f, bidirectional), bidirectional)} :
        /\ algorithm = "reed_muller"
        /\ spec = f
        /\ circ = s.circ
        /\ work = Enter(s, 2, bidirectional, TRUE)

Sum == [circ |-> circ, insert_at |-> work.insert_at, funcs |-> work.funcs]

(* The rows of index 1 to 2^n - 2; row i is RowOf[i + 1].  The assertion of   *)
(* step C ends the program.                                                 *)
AdjustRow ==
    /\ ~work.done /\ work.column_found
    /\ \E row \in {RowOf[work.index]}, o \in {Side(Sum, RowOf[work.index], work.bidirectional)} :
        \/ /\ Cardinality(row) = 1 /\ MayB(Sum, o, row)
           /\ \E s \in {StepB(Sum, o, CHOOSE k \in row : TRUE)} :
                /\ circ' = s.circ
                /\ work' = Enter(s, work.index + 1, work.bidirectional, TRUE)
        \/ /\ Cardinality(row) # 1 /\ work.funcs[o][row] = {}
           /\ work' = Enter(Sum, work.index + 1, work.bidirectional, TRUE)
           /\ UNCHANGED circ
        \/ /\ Cardinality(row) # 1 /\ Columns(Sum, o, row) # {}
           /\ \E s \in {StepC(Sum, o, row)} :
                /\ circ' = s.circ
                /\ work' = Enter(s, work.index + 1, work.bidirectional, TRUE)
        \/ /\ Cardinality(row) # 1 /\ work.funcs[o][row] # {} /\ Columns(Sum, o, row) = {}
           /\ work' = [work EXCEPT !.column_found = FALSE]
           /\ UNCHANGED circ
    /\ UNCHANGED <<algorithm, spec>>

-------------------------------------------------------------------------------
(* The spectrum that is kept for the function is always the spectrum of what  *)
(* the gates inserted so far leave to do, at either side.                   *)
Front == SubSeq(circ, 1, work.insert_at)
Back == SubSeq(circ, work.insert_at + 1, Len(circ))

SpectrumIsLeft ==
    algorithm = "reed_muller" => \A x \in Assignments :
        LET value == FoldSet(LAMBDA r, y : SymDiff(work.funcs[1][r], y), {},
                             SUBSET SimulateCircuit(Front, x))
        IN  SimulateCircuit(Back, value) = spec[x]

(* assert( s != n ): a row that is not empty has a line outside of it.        *)
ColumnIsFound == algorithm = "reed_muller" => work.column_found
===============================================================================
