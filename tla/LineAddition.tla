----------------------------- MODULE LineAddition -----------------------------
(***************************************************************************)
(* adding_lines: a helper line with constant input 0 takes the conjunction  *)
(* of a factor, controls that gates have in common, so that these gates     *)
(* need one control instead of the factor.  The helper lines come after the *)
(* lines of the circuit, of which there may be any number.  Controls are in  *)
(* ascending order, as boost::includes needs them, and stay so: a helper     *)
(* line is the last control of a gate.                                      *)
(***************************************************************************)
EXTENDS ReversibleCircuit

(* work has base_lines, additional_lines, cost_function, the helper line, the  *)
(* index, the last helper gate (0 if there is none), the costs before, done.  *)

TransistorCosts(g) == 8 * Cardinality(g.controls)

(* For up to three controls. *)
TCosts(g) == <<0, 0, 7, 22>>[Cardinality(g.controls) + 1]

GateCosts(g, cost_function) ==
    IF cost_function = "transistor" THEN TransistorCosts(g) ELSE TCosts(g)

CircuitCosts(c, cost_function) ==
    SeqExt!FoldLeft(LAMBDA n, g : n + GateCosts(g, cost_function), 0, c)

BaseAssignments(base_lines) == SUBSET (0..base_lines - 1)

(* add_line_to_circuit, for the first helper line too.                       *)
StartLines(base, base_lines, additional_lines, cost_function) ==
    /\ algorithm = "lines"
    /\ spec = [x \in BaseAssignments(base_lines) |-> SimulateCircuit(base, x)]
    /\ circ = base
    /\ work = [base_lines |-> base_lines, additional_lines |-> additional_lines,
               cost_function |-> cost_function, helper |-> base_lines,
               index |-> 1, last |-> 0,
               before |-> CircuitCosts(base, cost_function), done |-> FALSE]

-------------------------------------------------------------------------------
(* Mutant: a gate may change a line of the factor. *)
SuitableAny(index, factor) ==
    Min({j \in index..Len(circ) : ~IsToffoli(circ[j])} \cup {Len(circ) + 1})

(* find_suitable_gates: the first gate from index on that is no Toffoli gate  *)
(* or changes a line of the factor.                                         *)
FindSuitableGates(index, factor) ==
    Min({j \in index..Len(circ) :
            ~IsToffoli(circ[j]) \/ circ[j].targets[1] \in {c[1] : c \in factor}}
        \cup {Len(circ) + 1})

(* Mutant: the helper line does not become a control. *)
FactoredFree(g, factor) ==
    IF factor \subseteq g.controls THEN [g EXCEPT !.controls = @ \ factor] ELSE g

Factored(g, factor) ==
    IF factor \subseteq g.controls
    THEN [g EXCEPT !.controls = (@ \ factor) \cup Pos({work.helper})]
    ELSE g

HelperGate(factor) == Toffoli(factor, work.helper)

(* The gates from index to before j, with and between the helper gates.      *)
Segment(index, j, factor) ==
    <<HelperGate(factor)>> \o [i \in 1..j - index |-> Factored(circ[index + i - 1], factor)]
    \o <<HelperGate(factor)>>

(* Mutant: the costs of the helper gates are forgotten. *)
CostReductionFree(index, factor) ==
    LET j == FindSuitableGates(index, factor)
        gates == Segment(index, j, factor)
    IN  CircuitCosts(SubSeq(circ, index, j - 1), work.cost_function)
        - CircuitCosts(SubSeq(gates, 2, Len(gates) - 1), work.cost_function)

(* calculate_cost_reduction *)
CostReduction(index, factor) ==
    LET j == FindSuitableGates(index, factor)
    IN  CircuitCosts(SubSeq(circ, index, j - 1), work.cost_function)
        - CircuitCosts(Segment(index, j, factor), work.cost_function)

(* The factors of the current gate, and those that reduce the costs most.    *)
Factors == {f \in SUBSET circ[work.index].controls : Cardinality(f) > 1}

BestFactors ==
    {f \in Factors : /\ CostReduction(work.index, f) > 0
                     /\ \A e \in Factors : CostReduction(work.index, e)
                                           <= CostReduction(work.index, f)}

(* The code takes the best factor whose bits have the smallest number.       *)
ApplyFactor ==
    /\ ~work.done /\ work.index <= Len(circ)
    /\ \E f \in BestFactors :
        LET j == FindSuitableGates(work.index, f)
        IN  /\ circ' = InsertCircuit(RemoveGates(circ, work.index - 1, j - work.index),
                                     work.index - 1, Segment(work.index, j, f))
            /\ work' = [work EXCEPT !.index = j + 2, !.last = j + 1]
    /\ UNCHANGED <<algorithm, spec>>

NextGate ==
    /\ ~work.done /\ work.index <= Len(circ)
    /\ BestFactors = {}
    /\ work' = [work EXCEPT !.index = @ + 1]
    /\ UNCHANGED <<algorithm, spec, circ>>

(* The helper line is garbage, so its last gate goes; then the next line.     *)
EndLine ==
    /\ ~work.done /\ work.index > Len(circ)
    /\ circ' = IF work.last = 0 THEN circ ELSE RemoveGates(circ, work.last - 1, 1)
    /\ work' = IF work.helper + 1 = work.base_lines + work.additional_lines
               THEN [work EXCEPT !.done = TRUE]
               ELSE [work EXCEPT !.helper = @ + 1, !.index = 1, !.last = 0]
    /\ UNCHANGED <<algorithm, spec>>

AddLines == ApplyFactor \/ NextGate \/ EndLine

(* Any circuit whose gates t_costs has a number for.                         *)
LinesInit ==
    \E base_lines, additional_lines \in Nat \ {0}, cost_function \in {"transistor", "t"} :
        \E base \in Seq(GatesOn(0..base_lines - 1)) :
            /\ cost_function = "t" => \A i \in DOMAIN base : Cardinality(base[i].controls) <= 3
            /\ StartLines(base, base_lines, additional_lines, cost_function)

LinesSpec == LinesInit /\ [][AddLines]_vars

-------------------------------------------------------------------------------
(* With 0 on the helper lines the circuit computes on the others what the     *)
(* original computes.                                                        *)
BaseFunctionIsKept ==
    algorithm = "lines" => \A x \in BaseAssignments(work.base_lines) :
        SimulateCircuit(circ, x) \cap (0..work.base_lines - 1) = spec[x]

(* Before the current gate the helper line is 0 again.                       *)
HelperIsClear ==
    algorithm = "lines" /\ ~work.done => \A x \in BaseAssignments(work.base_lines) :
        work.helper \notin SimulateCircuit(SubSeq(circ, 1, work.index - 1), x)

NeverDearer ==
    algorithm = "lines" => CircuitCosts(circ, work.cost_function) <= work.before
===============================================================================
