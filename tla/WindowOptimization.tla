-------------------------- MODULE WindowOptimization --------------------------
(***************************************************************************)
(* window_optimization with shift_window_selection: a window of the circuit *)
(* that is being changed is synthesised anew from its truth table, by       *)
(* transformation_based_synthesis, and replaced if that has fewer gates.    *)
(***************************************************************************)
EXTENDS TransformationSynthesis

(* work has window_length, offset, pos, the gates before, done.              *)
StartWindows(base, window_length, offset) ==
    /\ algorithm = "windows"
    /\ spec = FunctionOf(base)
    /\ circ = base
    /\ work = [window_length |-> window_length, offset |-> offset, pos |-> 0,
               before |-> Len(base), done |-> FALSE]

(* subcircuit( base, pos, to ) *)
Window == SubSeq(circ, work.pos + 1, Min({work.pos + work.window_length, Len(circ)}))

(* Mutant: the new window takes the place of one gate less. *)
ReplacedShort(window) ==
    InsertCircuit(RemoveGates(circ, work.pos, Len(Window) - 1), work.pos, window)

(* s_size times remove_gate_at( s_from ), then insert_circuit.               *)
Replaced(window) ==
    InsertCircuit(RemoveGates(circ, work.pos, Len(Window)), work.pos, window)

(* Mutant: the new window is taken whatever it costs. *)
OptimizeAlways ==
    /\ ~work.done /\ work.pos < Len(circ)
    /\ circ' = Replaced(Synthesized(FunctionOf(Window)))
    /\ work' = [work EXCEPT !.pos = @ + work.offset]
    /\ UNCHANGED <<algorithm, spec>>

Optimize ==
    /\ ~work.done /\ work.pos < Len(circ)
    /\ \E window \in {Synthesized(FunctionOf(Window))} :
            circ' = IF Costs(window) < Costs(Window) THEN Replaced(window) ELSE circ
    /\ work' = [work EXCEPT !.pos = @ + work.offset]
    /\ UNCHANGED <<algorithm, spec>>

(* The position is reset for a second call, and the empty window ends this one. *)
Finish ==
    /\ ~work.done /\ work.pos >= Len(circ)
    /\ work' = [work EXCEPT !.pos = 0, !.done = TRUE]
    /\ UNCHANGED <<algorithm, spec, circ>>

WindowStep == Optimize \/ Finish

(* Any circuit, windows of any length, one offset apart or overlapping.       *)
WindowsInit ==
    \E base \in Seq(GatesOn(Lines)), window_length, offset \in Nat \ {0} :
        StartWindows(base, window_length, offset)

WindowsSpec == WindowsInit /\ [][WindowStep]_vars

-------------------------------------------------------------------------------
(* The function does not change whatever windows are replaced.               *)
FunctionIsKept == algorithm = "windows" => FunctionOf(circ) = spec

NeverLonger == algorithm = "windows" => Len(circ) <= work.before
===============================================================================
