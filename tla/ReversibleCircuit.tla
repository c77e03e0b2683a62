--------------------------- MODULE ReversibleCircuit ---------------------------
(***************************************************************************)
(* Gates and circuits of cirkit-addon-reversible and what they compute.  An *)
(* assignment of the lines is the set of lines that carry 1; a control is a *)
(* pair of a line and a polarity; a circuit is the sequence of its gates.   *)
(* Functions of a circuit that return another one are here as operators.    *)
(***************************************************************************)
EXTENDS Integers, Sequences, FiniteSets, FiniteSetsExt

CONSTANT num_lines

ASSUME LinesAssumption == num_lines \in Nat \ {0}

SeqExt == INSTANCE SequencesExt

(* The elements of a set in ascending order. *)
Sorted(S, Less(_, _)) ==
    [i \in 1..Cardinality(S) |->
        CHOOSE x \in S : Cardinality({y \in S : Less(y, x)}) = i - 1]

Lines == 0..num_lines - 1
Assignments == SUBSET Lines

Gate(type, controls, targets) ==
    [type |-> type, controls |-> controls, targets |-> targets]

Pos(lines) == {<<l, TRUE>> : l \in lines}

Toffoli(controls, target) == Gate("toffoli", controls, <<target>>)
Not(target) == Toffoli({}, target)
Cnot(control, target) == Toffoli(Pos({control}), target)
Fredkin(controls, target1, target2) == Gate("fredkin", controls, <<target1, target2>>)
Peres(control, target1, target2) == Gate("peres", Pos({control}), <<target1, target2>>)

(* The gates on some lines that can be undone: no target is a control.       *)
GatesOn(lines) ==
    {Toffoli(e[1], e[2]) :
        e \in {p \in (SUBSET (lines \X BOOLEAN)) \X lines : p[2] \notin {c[1] : c \in p[1]}}}
    \cup {Fredkin(Pos(e[1]), e[2], e[3]) :
        e \in {p \in (SUBSET lines) \X lines \X lines :
                p[2] \notin p[1] /\ p[3] \notin p[1] /\ p[2] # p[3]}}
    \cup {Peres(e[1], e[2], e[3]) :
        e \in {p \in lines \X lines \X lines : p[1] # p[2] /\ p[1] # p[3] /\ p[2] # p[3]}}

IsToffoli(g) == g.type = "toffoli"
ControlLines(g) == {c[1] : c \in g.controls}
GateLines(g) == ControlLines(g) \cup {g.targets[i] : i \in DOMAIN g.targets}

-------------------------------------------------------------------------------
(* Simulation. *)
Flip(x, line) == SymDiff(x, {line})
Swap(x, l1, l2) == IF (l1 \in x) = (l2 \in x) THEN x ELSE SymDiff(x, {l1, l2})

Controlled(controls, x) == \A c \in controls : (c[1] \in x) = c[2]

(* Fredkin gates and modules have positive controls only; a Peres gate looks  *)
(* at its control and not at its polarity.                                  *)
Simulate(g, x) ==
    CASE g.type = "toffoli" ->
            IF Controlled(g.controls, x) THEN Flip(x, g.targets[1]) ELSE x
      [] g.type = "fredkin" ->
            IF ControlLines(g) \subseteq x THEN Swap(x, g.targets[1], g.targets[2]) ELSE x
      [] g.type = "peres" ->
            IF ~(ControlLines(g) \subseteq x) THEN x
            ELSE IF g.targets[1] \in x THEN Flip(Flip(x, g.targets[1]), g.targets[2])
                 ELSE Flip(x, g.targets[1])

(* The union binds the assignment before a gate, so that it is evaluated once. *)
SimulateCircuit(circ, x) ==
    SeqExt!FoldLeft(LAMBDA y, g : UNION {Simulate(g, z) : z \in {y}}, x, circ)

FunctionOf(circ) == [x \in Assignments |-> SimulateCircuit(circ, x)]

-------------------------------------------------------------------------------
(* Lines as bits: line 0 is the most significant bit of a row number.        *)
Smaller(x, y) == \E l \in y \ x : \A k \in 0..l - 1 : (k \in x) = (k \in y)
Below(x) == {y \in Assignments : Smaller(y, x)}
Rows == Sorted(Assignments, Smaller)

(* The lines of a set in the order in which find_next meets their bits.      *)
Downwards(lines) == Sorted(lines, LAMBDA k, l : k > l)
Upwards(lines) == Sorted(lines, LAMBDA k, l : k < l)

Distance(x, y) == Cardinality(SymDiff(x, y))

-------------------------------------------------------------------------------
InsertCircuit(circ, pos, src) ==
    SubSeq(circ, 1, pos) \o src \o SubSeq(circ, pos + 1, Len(circ))

InsertGate(circ, pos, g) == InsertCircuit(circ, pos, <<g>>)

RemoveGates(circ, pos, count) ==
    SubSeq(circ, 1, pos) \o SubSeq(circ, pos + count + 1, Len(circ))

ReverseCircuit(circ) == SeqExt!Reverse(circ)

(* Controls and targets renamed by at, those outside of its domain left out. *)
Renamed(g, at) ==
    Gate(g.type, {<<at[c[1]], c[2]>> : c \in {d \in g.controls : d[1] \in DOMAIN at}},
         SeqExt!FoldLeft(LAMBDA ts, t : IF t \in DOMAIN at THEN Append(ts, at[t]) ELSE ts,
                         <<>>, g.targets))

Costs(circ) == Len(circ)

(* Every set of controls a gate with the target can have, as a cube.          *)
ControlSets(target) ==
    UNION {{{<<l, p[l]>> : l \in lines} : p \in [lines -> BOOLEAN]} :
                lines \in SUBSET (Lines \ {target})}

(* The exclusive sums of at most n cubes, on the lines besides the target, for *)
(* the function that is 1 at ones: what a minimiser may return.              *)
ExclusiveSums(ones, target, n) ==
    {s \in UNION {kSubset(k, ControlSets(target)) : k \in 0..n} :
        \A x \in SUBSET (Lines \ {target}) :
            (x \in ones) = (Cardinality({c \in s : Controlled(c, x)}) % 2 = 1)}

(* The functions a circuit can have: no two assignments have the same image.  *)
Permutations ==
    {f \in [Assignments -> Assignments] : \A x, y \in Assignments : f[x] = f[y] => x = y}

-------------------------------------------------------------------------------
(* One call of a function that makes a circuit or changes one.               *)
VARIABLES
    algorithm,  \* the function that was called
    spec,       \* the function to realise, or that of the circuit to change
    circ,       \* the circuit so far
    work        \* what else the call works on; work.done when it has returned

vars == <<algorithm, spec, circ, work>>

(* The two ways in which the code is known to return another function; these  *)
(* calls count as not returned.  simplify permutes the names of the outputs   *)
(* by gperm where its inverse is due, wrong when the two differ.             *)
Misnamed == algorithm = "simplify" /\ \E l \in Lines : work.gperm[work.gperm[l]] # l

(* In reed_muller_synthesis from both sides a gate for one spectrum undid a   *)
(* row of the other: when all rows but the last were adjusted, one of them is *)
(* not that of the identity.  See ColumnIsFound.                             *)
Undone ==
    /\ algorithm = "reed_muller" /\ work.bidirectional
    /\ \E row \in Assignments \ {Lines} :
            work.funcs[1][row] # (IF Cardinality(row) = 1 THEN row ELSE {})

Returned == work.done /\ ~Misnamed /\ ~Undone

(* The function of the circuit as its caller reads it: after simplify line l  *)
(* carries the output named outputs[l], after adding_lines the helper lines   *)
(* are garbage.                                                             *)
Result ==
    CASE ~Returned -> <<>>
      [] Returned /\ algorithm = "simplify" ->
            [x \in Assignments |-> {work.outputs[l] : l \in SimulateCircuit(circ, x)}]
      [] Returned /\ algorithm = "lines" ->
            [x \in DOMAIN spec |-> SimulateCircuit(circ, x) \cap (0..work.base_lines - 1)]
      [] OTHER -> FunctionOf(circ)

Contract == INSTANCE CircuitContract WITH result <- Result, done <- Returned

(* The circuit an algorithm returns computes the function it was given, with  *)
(* the names it gives the outputs, and is not touched any more.              *)
KeepsContract == Contract!Spec
===============================================================================
