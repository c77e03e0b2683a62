----------------------------- MODULE MCReversible -----------------------------
(* Every algorithm of this development that makes or changes a reversible     *)
(* circuit, one call of one of them per behaviour: synthesis of permutations  *)
(* of all rows on num_lines lines, optimisation of sample circuits.           *)
EXTENDS WindowOptimization, LineAddition, CircuitSimplification, TranspositionSynthesis

CONSTANTS
    Algorithms,     \* those that are run
    Swaps           \* a function to realise is a product of at most Swaps exchanges

Young == INSTANCE YoungSubgroupSynthesis
ReedMuller == INSTANCE ReedMullerSynthesis

-------------------------------------------------------------------------------
WithExchange(f) ==
    {[f EXCEPT ![x] = f[y], ![y] = f[x]] : x \in Assignments, y \in Assignments}

Functions[n \in 0..Swaps] ==
    IF n = 0 THEN {[x \in Assignments |-> x]} ELSE UNION {WithExchange(f) : f \in Functions[n - 1]}

Orderings == {<<0, 1, 2>>, <<2, 0, 1>>}

(* Pieces of the circuits to simplify: inverters, gates with negative         *)
(* controls, swaps, one of them visible after a round only, other gates.     *)
Pieces ==
    {<<Not(0)>>, <<Cnot(0, 1)>>, <<Toffoli({<<0, FALSE>>}, 1)>>,
     <<Toffoli({<<0, TRUE>>, <<1, FALSE>>}, 2)>>, <<Toffoli(Pos({0, 1}), 2)>>,
     <<Cnot(0, 1), Cnot(1, 0), Cnot(0, 1)>>, <<Cnot(2, 1), Cnot(1, 2), Cnot(2, 1)>>,
     <<Cnot(1, 2), Cnot(2, 1), Toffoli(Pos({0, 1}), 2), Toffoli(Pos({0, 2}), 1),
       Toffoli(Pos({0, 2}), 1), Toffoli(Pos({0, 1}), 2), Cnot(1, 2)>>,
     <<Fredkin(Pos({0}), 1, 2)>>, <<Peres(0, 1, 2)>>}

ToSimplify == {SeqExt!FlattenSeq(p) : p \in UNION {[1..n -> Pieces] : n \in 1..3}}

ToWindow ==
    UNION {[1..n -> {Not(0), Cnot(0, 1), Cnot(1, 0), Toffoli({<<0, TRUE>>, <<1, FALSE>>}, 2),
                     Toffoli(Pos({0, 1}), 2), Fredkin({}, 1, 2)}] : n \in 2..4}

(* Circuits on four lines for one helper line, on three lines for two.       *)
ToShare ==
    [1..4 -> {Not(2), Toffoli(Pos({0, 1, 2}), 3), Toffoli(Pos({0, 1, 3}), 2), Cnot(3, 0),
              Toffoli({<<0, FALSE>>, <<1, TRUE>>, <<2, TRUE>>}, 3), Fredkin({}, 1, 2)}]

ToShareTwice == [1..5 -> {Not(2), Toffoli(Pos({0, 1}), 2), Cnot(2, 0)}]

MCInit ==
    /\ algorithm \in Algorithms
    /\ \/ \E f \in Functions[Swaps] :
            \/ \E options \in Options : Start(f, options)
            \/ StartTranspositions(f)
            \/ \E ordering \in Orderings : Young!Start(f, ordering)
            \/ \E bidirectional \in BOOLEAN : ReedMuller!Start(f, bidirectional)
       \/ \E base \in ToSimplify, reverse_opt \in BOOLEAN,
             m \in {Methods, Methods \ {"nots"}} :
                StartSimplify(base, m, reverse_opt)
       \/ \E base \in ToWindow, length \in {2, 10}, offset \in 1..2 :
                StartWindows(base, length, offset)
       \/ \E cost_function \in {"transistor", "t"} :
            \/ \E base \in ToShare : StartLines(base, 4, 1, cost_function)
            \/ \E base \in ToShareTwice : StartLines(base, 3, 2, cost_function)

MCNext ==
    \/ algorithm = "transformation" /\ Adjust
    \/ algorithm = "transposition" /\ TakeCycle
    \/ algorithm = "transposition" /\ AppendTransposition
    \/ algorithm = "young" /\ Young!AddGates
    \/ algorithm = "young" /\ Young!AddLastGate
    \/ algorithm = "reed_muller" /\ ReedMuller!AdjustRow
    \/ algorithm = "simplify" /\ Simplify
    \/ algorithm = "windows" /\ WindowStep
    \/ algorithm = "lines" /\ AddLines

MCSpec == MCInit /\ [][MCNext]_vars

-------------------------------------------------------------------------------
(* In the middle of a call: synthesis by transpositions, by Young subgroups or *)
(* by Reed-Muller spectra has gates in front, cycles, tables or a spectrum    *)
(* that are left, and gates behind that make up the function; no pass of      *)
(* simplify, no window and no factor changes the function of the circuit.    *)
StepsAreRight ==
    /\ TranspositionsAreLeft /\ Young!TablesAreLeft /\ ReedMuller!SpectrumIsLeft
    /\ FunctionIsRelabelled
    /\ FunctionIsKept /\ BaseFunctionIsKept

(* reed_muller_synthesis.cpp:336, assert( s != n ): in a row that is not empty *)
(* there is a line that is no variable of the row.                          *)
ColumnIsFound == ReedMuller!ColumnIsFound

(* No optimisation makes a circuit dearer in the costs that it minimises.     *)
NeverWorse == SimplifiedIsNoLonger /\ NeverLonger /\ NeverDearer
===============================================================================
