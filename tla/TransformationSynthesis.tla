------------------------ MODULE TransformationSynthesis ------------------------
(***************************************************************************)
(* transformation_based_synthesis: the rows of the truth table are adjusted *)
(* one after the other, by gates at the output side or at the input side of *)
(* what is left; the gates of the input side come before position pos of    *)
(* the circuit.  The truth table, kept sorted by its inputs, is a function. *)
(* A sum s is [circ, pos, tt].  Options: bidirectional, fredkin, lookback.   *)
(***************************************************************************)
EXTENDS ReversibleCircuit

(* work has pos, tt, the index of the next row, the options, done.          *)

Options == [bidirectional : BOOLEAN, fredkin : BOOLEAN, lookback : BOOLEAN]

-------------------------------------------------------------------------------
(* Mutant: a gate at the input side does not move the middle. *)
InsertWithoutMove(s, g, dir) ==
    [circ |-> InsertGate(s.circ, s.pos, g), pos |-> s.pos,
     tt |-> IF dir = "back" THEN [x \in Assignments |-> Simulate(g, s.tt[x])]
            ELSE [x \in Assignments |-> s.tt[Simulate(g, x)]]]

(* insert_toffoli_gate and insert_fredkin_gate. *)
Insert(s, g, dir) ==
    [circ |-> InsertGate(s.circ, s.pos, g),
     pos |-> IF dir = "back" THEN s.pos ELSE s.pos + 1,
     tt |-> [x \in Assignments |-> IF dir = "back" THEN Simulate(g, s.tt[x])
                                   ELSE s.tt[Simulate(g, x)]]]

(* The pairs of lines whose exchange leaves the rows before the goal alone:  *)
(* their controls are above the goal or, looked at harder, no row below the  *)
(* goal that has the controls has different values on the two lines.        *)
(* Mutant: the harder look forgets the controls that are to be reset.       *)
MayExchangeBelow(w, l1, l2, goal, lookback) ==
    LET controls == w.mask \ {l1, l2} IN
    \/ Smaller(goal, controls)
    \/ lookback /\ \A y \in Below(goal) : ~(controls \subseteq y /\ {l1, l2} \subseteq y)

MayExchange(w, l1, l2, goal, lookback) ==
    LET controls == w.mask \ {l1, l2} IN
    \/ Smaller(goal, controls)
    \/ lookback /\ \A y \in Below(goal) :
                        controls \subseteq y => ((l1 \in y) = (l2 \in y))

(* The first pair, bits in ascending order. *)
Exchange(w, goal, dir, lookback) ==
    LET pairs == {e \in w.p \X w.q : MayExchange(w, e[1], e[2], goal, lookback)}
    IN  IF pairs = {} THEN w
        ELSE LET l1 == Max({e[1] : e \in pairs})
                 l2 == Max({e[2] : e \in {f \in pairs : f[1] = l1}})
             IN  [s |-> Insert(w.s, Fredkin(Pos(w.mask \ {l1, l2}), l1, l2), dir),
                  p |-> w.p \ {l1}, q |-> w.q \ {l2},
                  mask |-> (w.mask \cup {l1}) \ {l2}]

(* For as long as there is such a pair. *)
Exchanges(w, goal, dir, lookback) ==
    SeqExt!FoldLeft(LAMBDA v, i : Exchange(v, goal, dir, lookback),
                    w, [i \in 1..Cardinality(w.p) |-> i])

(* change 0 -> 1, with all ones of the row as controls. *)
Raise(w, dir) ==
    SeqExt!FoldLeft(LAMBDA v, l : [v EXCEPT !.s = Insert(@, Toffoli(Pos(v.mask), l), dir),
                                            !.mask = @ \cup {l}],
                    w, Downwards(w.p))

(* change 1 -> 0, with the ones that remain. *)
Lower(w, dir) ==
    SeqExt!FoldLeft(LAMBDA v, l : [v EXCEPT !.s = Insert(@, Toffoli(Pos(v.mask \ {l}), l), dir),
                                            !.mask = @ \ {l}],
                    w, Downwards(w.q))

(* adjust_line: afterwards row in maps to itself, or is the input of itself.  *)
AdjustLine(s, in, dir, options) ==
    LET out == s.tt[in]
        goal == IF dir = "back" THEN in ELSE out
        mask == IF dir = "back" THEN out ELSE in
        start == [s |-> s, p |-> goal \ mask, q |-> mask \ goal, mask |-> mask]
        swapped == IF options.fredkin THEN Exchanges(start, goal, dir, options.lookback)
                   ELSE start
    IN  Lower(Raise(swapped, dir), dir).s

(* basic_first_step: row 0 by inverters at the output side. *)
FirstStep(s) ==
    SeqExt!FoldLeft(LAMBDA t, l : Insert(t, Not(l), "back"), s, Downwards(s.tt[{}]))

(* The row whose output is x; it is adjusted at the input side if that takes  *)
(* fewer bits.                                                              *)
AdjustRow(s, x, options) ==
    LET other == CHOOSE y \in Assignments : s.tt[y] = x
        front == options.bidirectional /\ Distance(other, s.tt[other]) < Distance(x, s.tt[x])
    IN  IF s.tt[x] = x THEN s
        ELSE IF front THEN AdjustLine(s, other, "front", options)
             ELSE AdjustLine(s, x, "back", options)

Empty(f) == [circ |-> <<>>, pos |-> 0, tt |-> f]

(* Step 1 and the first row of step 2. *)
Begin(f, options) == IF options.bidirectional THEN Empty(f) ELSE FirstStep(Empty(f))
FirstRow(options) == IF options.bidirectional THEN 1 ELSE 2

(* The whole call with its default options, for callers that are modelled as *)
(* one step.                                                                *)
Synthesized(f) ==
    LET defaults == [bidirectional |-> TRUE, fredkin |-> FALSE, lookback |-> FALSE]
    IN  SeqExt!FoldLeft(LAMBDA s, x : AdjustRow(s, x, defaults), Begin(f, defaults), Rows).circ

-------------------------------------------------------------------------------
Enter(s, index, options) ==
    [pos |-> s.pos, tt |-> s.tt, index |-> index, options |-> options,
     done |-> index > Len(Rows)]

Start(f, options) ==
    /\ algorithm = "transformation"
    /\ spec = f
    /\ circ = Begin(f, options).circ
    /\ work = Enter(Begin(f, options), FirstRow(options), options)

Adjust ==
    /\ ~work.done
    /\ \E s \in {AdjustRow([circ |-> circ, pos |-> work.pos, tt |-> work.tt],
                           Rows[work.index], work.options)} :
        /\ circ' = s.circ
        /\ work' = Enter(s, work.index + 1, work.options)
    /\ UNCHANGED <<algorithm, spec>>

(* Any permutation can be asked for. *)
Init == \E f \in Permutations, options \in Options : Start(f, options)

Spec == Init /\ [][Adjust]_vars

-------------------------------------------------------------------------------
(* At every moment the gates before pos, the truth table that is left and    *)
(* the gates behind pos compute the specification.                          *)
MiddleIsLeft ==
    algorithm = "transformation" =>
    LET front == SubSeq(circ, 1, work.pos)
        back == SubSeq(circ, work.pos + 1, Len(circ))
    IN  \A x \in Assignments :
            spec[x] = SimulateCircuit(back, work.tt[SimulateCircuit(front, x)])

(* No gate for a later row disturbs a row that was adjusted.                 *)
AdjustedRowsStay ==
    algorithm = "transformation" => \A i \in 1..work.index - 1 : work.tt[Rows[i]] = Rows[i]
===============================================================================
