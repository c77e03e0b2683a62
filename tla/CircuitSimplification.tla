------------------------ MODULE CircuitSimplification ------------------------
(***************************************************************************)
(* simplify: passes over a circuit, forwards and, with reverse_opt, over   *)
(* the reversed circuit, repeated until a round removes no gate.  A pass    *)
(* reads one circuit and appends to another; each is a fold over the gates. *)
(* The swap pass relabels lines instead of emitting swaps: gperm says on    *)
(* which line of the circuit a line of the original is at the end.          *)
(***************************************************************************)
EXTENDS ReversibleCircuit

(* circ is tmp; work has the passes of a round, at, size, gperm, outputs,     *)
(* before, done.                                                            *)

Methods == {"merge", "nots", "adjacent", "exorcism", "swap"}

Target(g) == g.targets[1]
IsCnot(g) == IsToffoli(g) /\ \E l \in Lines : g.controls = Pos({l})

-------------------------------------------------------------------------------
(* simple_merge_heuristic.  The gates that follow gate i when those with its *)
(* target are moved to it: no gate on the way, the moved one included, may    *)
(* have a control on the target, and no gate that stays behind a target that  *)
(* the moved gate has as a control.                                         *)
Joining(c, i, moved) ==
    {j \in i + 1..Len(c) \ moved :
        /\ IsToffoli(c[i])
        /\ \A k \in i + 1..j \ moved : /\ IsToffoli(c[k])
                                       /\ Target(c[i]) \notin ControlLines(c[k])
        /\ Target(c[j]) = Target(c[i])
        /\ \A k \in i + 1..j - 1 \ moved :
                Target(c[k]) # Target(c[i]) => Target(c[k]) \notin ControlLines(c[j])}

(* Mutant: a gate that was moved stays where it was, too. *)
MergeMovedToo(c, s, i) ==
    LET joining == Joining(c, i, s.moved)
    IN  [circ |-> s.circ \o <<c[i]>> \o
                  [k \in 1..Cardinality(joining) |-> c[Upwards(joining)[k]]],
         moved |-> s.moved \cup joining]

Merge(c, s, i) ==
    IF i \in s.moved THEN s
    ELSE LET joining == Joining(c, i, s.moved)
         IN  [circ |-> s.circ \o <<c[i]>> \o
                       [k \in 1..Cardinality(joining) |-> c[Upwards(joining)[k]]],
              moved |-> s.moved \cup joining]

SimpleMerge(c) ==
    SeqExt!FoldLeft(LAMBDA s, i : Merge(c, s, i), [circ |-> <<>>, moved |-> {}],
                    [i \in 1..Len(c) |-> i]).circ

-------------------------------------------------------------------------------
(* simplify_not_gates: inverters are not copied but remembered; they flip     *)
(* the controls on their lines, merge with a gate of one control, or are      *)
(* appended at the end.                                                     *)
Flipped(controls, nots) == {<<c[1], c[2] # (c[1] \in nots)>> : c \in controls}

MoveNots(s, g) ==
    CASE g.controls = {} -> [s EXCEPT !.nots = Flip(@, Target(g))]
      [] Cardinality(g.controls) = 1 /\ Target(g) \in s.nots ->
            [circ |-> Append(s.circ, Toffoli({<<c[1], ~c[2]>> : c \in Flipped(g.controls, s.nots)},
                                             Target(g))),
             nots |-> s.nots \ {Target(g)}]
      [] OTHER -> [s EXCEPT !.circ = Append(@, Toffoli(Flipped(g.controls, s.nots), Target(g)))]

SimplifyNotGates(c) ==
    LET s == SeqExt!FoldLeft(MoveNots, [circ |-> <<>>, nots |-> {}], c)
    IN  s.circ \o [i \in 1..Cardinality(s.nots) |-> Not(Upwards(s.nots)[i])]

-------------------------------------------------------------------------------
(* simplify_adjacent: two neighbours with the same target whose controls      *)
(* differ on one line at most become one gate or none.  If the line has both  *)
(* polarities it goes; if it is a control of one gate only, the other polarity *)
(* takes its place.                                                         *)
Differing(g1, g2) == SymDiff(g1.controls, g2.controls)

Adjacent(g1, g2) ==
    /\ IsToffoli(g1) /\ IsToffoli(g2) /\ Target(g1) = Target(g2)
    /\ Cardinality({c[1] : c \in Differing(g1, g2)}) <= 1

JoinedGates(g1, g2) ==
    LET lines == {c[1] : c \in Differing(g1, g2)}
    IN  IF g1.controls = g2.controls THEN <<>>
        ELSE <<Toffoli((g1.controls \cap g2.controls)
                        \cup ((lines \X BOOLEAN) \ Differing(g1, g2)), Target(g1))>>

SimplifyAdjacent(c) ==
    LET from[i \in 1..Len(c) + 1] ==
            IF i > Len(c) THEN <<>>
            ELSE IF i < Len(c) /\ Adjacent(c[i], c[i + 1])
                 THEN JoinedGates(c[i], c[i + 1]) \o from[i + 2]
                 ELSE <<c[i]>> \o from[i + 1]
    IN  from[1]

-------------------------------------------------------------------------------
(* exorcism_merge_heuristic: a run of Toffoli gates on one target is an       *)
(* exclusive sum of cubes, which exorcism_minimization replaces by another    *)
(* one, with no more cubes.                                                 *)
InRun(runs, g) ==
    IF /\ runs # <<>> /\ IsToffoli(g) /\ IsToffoli(runs[Len(runs)][1])
       /\ Target(g) = Target(runs[Len(runs)][1])
    THEN [runs EXCEPT ![Len(runs)] = Append(@, g)]
    ELSE Append(runs, <<g>>)

Runs(c) == SeqExt!FoldLeft(InRun, <<>>, c)

(* exorcism_minimization hands the cubes to Abc_ExorcismMain, which is        *)
(* external, and calls back for each cube of its result.  That these are an   *)
(* exclusive sum of the same function, and no more, is assumed of it.        *)
Minimized(run) ==
    LET target == Target(run[1])
        ones == {x \in SUBSET (Lines \ {target}) :
                    Cardinality({i \in DOMAIN run : Controlled(run[i].controls, x)}) % 2 = 1}
    IN  {LET cubes == SeqExt!SetToSeq(s) IN [i \in DOMAIN cubes |-> Toffoli(cubes[i], target)] :
            s \in ExclusiveSums(ones, target, Len(run))}

(* The circuits that the choices of the minimiser lead to.                   *)
Replacements(run) == IF Len(run) = 1 THEN {run} ELSE Minimized(run)

WithRun(circuits, run) == {d \o r : d \in circuits, r \in Replacements(run)}

ExorcismMerged(c) == SeqExt!FoldLeft(WithRun, {<<>>}, Runs(c))

-------------------------------------------------------------------------------
(* simplify_swap_gates: prefix holds up to two controlled inverters that      *)
(* may be the first ones of a swap.                                         *)
ExchangedLines(perm, p) == [perm EXCEPT ![p[1]] = perm[p[2]], ![p[2]] = perm[p[1]]]

MovedCnot(perm, p) == Cnot(perm[p[1]], perm[p[2]])

(* Two of the three gates of a swap: swapped, with the third one in front.    *)
AddPrefix(s) ==
    LET p == s.prefix[1]
    IN  CASE s.prefix = <<>> -> s
          [] Len(s.prefix) = 1 ->
                [s EXCEPT !.circ = Append(@, MovedCnot(s.perm, p)), !.prefix = <<>>]
          [] Len(s.prefix) = 2 ->
                [s EXCEPT !.circ = Append(@, MovedCnot(s.perm, <<p[2], p[1]>>)),
                          !.perm = ExchangedLines(@, p), !.prefix = <<>>]

SwapGate(s, g) ==
    LET p == <<(CHOOSE c \in g.controls : TRUE)[1], Target(g)>>
        previous == IF Len(s.prefix) % 2 = 1 THEN <<p[2], p[1]>> ELSE p
        t == AddPrefix(s)
    IN  CASE ~IsCnot(g) -> [t EXCEPT !.circ = Append(@, Renamed(g, t.perm))]
          [] IsCnot(g) /\ s.prefix = <<>> -> [s EXCEPT !.prefix = <<p>>]
          [] IsCnot(g) /\ s.prefix # <<>> /\ s.prefix[1] # previous ->
                [t EXCEPT !.circ = Append(@, MovedCnot(t.perm, p))]
          [] IsCnot(g) /\ Len(s.prefix) = 1 /\ s.prefix[1] = previous ->
                [s EXCEPT !.prefix = Append(@, p)]
          [] IsCnot(g) /\ Len(s.prefix) = 2 /\ s.prefix[1] = previous ->
                [s EXCEPT !.perm = ExchangedLines(@, p), !.prefix = <<>>]

IdentityPermutation == [l \in Lines |-> l]

SimplifySwapGates(c) ==
    AddPrefix(SeqExt!FoldLeft(SwapGate,
                [circ |-> <<>>, perm |-> IdentityPermutation, prefix |-> <<>>], c))

(* permutation_multiply *)
Multiply(a, b) == [l \in Lines |-> b[a[l]]]

-------------------------------------------------------------------------------
(* The passes of one round.                                                  *)
Schedule(methods, reverse_opt) ==
    LET forwards == <<"merge", "nots", "adjacent", "exorcism", "swap">>
        backwards == <<"reverse", "merge", "nots", "adjacent", "exorcism", "reverse">>
    IN  SelectSeq(IF reverse_opt THEN forwards \o backwards ELSE forwards,
                  LAMBDA pass : pass \in methods \cup {"reverse"})

StartSimplify(base, methods, reverse_opt) ==
    /\ "nots" \in methods => \A i \in DOMAIN base : IsToffoli(base[i])
    /\ algorithm = "simplify"
    /\ spec = FunctionOf(base)
    /\ circ = base
    /\ work = [passes |-> Schedule(methods, reverse_opt), at |-> 1, size |-> Len(base),
               gperm |-> IdentityPermutation, outputs |-> IdentityPermutation,
               before |-> Len(base), done |-> FALSE]

Pass(name) == ~work.done /\ work.at <= Len(work.passes) /\ work.passes[work.at] = name

Gives(c) ==
    /\ circ' = c
    /\ work' = [work EXCEPT !.at = @ + 1]
    /\ UNCHANGED <<algorithm, spec>>

MergePass == Pass("merge") /\ Gives(SimpleMerge(circ))
NotsPass == Pass("nots") /\ Gives(SimplifyNotGates(circ))
AdjacentPass == Pass("adjacent") /\ Gives(SimplifyAdjacent(circ))
ExorcismPass == Pass("exorcism") /\ \E c \in ExorcismMerged(circ) : Gives(c)
ReversePass == Pass("reverse") /\ Gives(ReverseCircuit(circ))

(* Mutant: the permutations of the rounds are multiplied the other way round. *)
SwapPassReversed ==
    /\ Pass("swap")
    /\ \E s \in {SimplifySwapGates(circ)} :
        /\ circ' = s.circ
        /\ work' = [work EXCEPT !.at = @ + 1, !.gperm = Multiply(s.perm, @)]
    /\ UNCHANGED <<algorithm, spec>>

SwapPass ==
    /\ Pass("swap")
    /\ \E s \in {SimplifySwapGates(circ)} :
        /\ circ' = s.circ
        /\ work' = [work EXCEPT !.at = @ + 1, !.gperm = Multiply(@, s.perm)]
    /\ UNCHANGED <<algorithm, spec>>

(* Mutant: the outputs keep the names they had. *)
EndRoundUnnamed ==
    /\ ~work.done /\ work.at > Len(work.passes)
    /\ work' = IF Len(circ) < work.size
               THEN [work EXCEPT !.at = 1, !.size = Len(circ)]
               ELSE [work EXCEPT !.done = TRUE]
    /\ UNCHANGED <<algorithm, spec, circ>>

(* Another round if this one removed a gate; otherwise line l gets the name   *)
(* that the output gperm[l] had.                                            *)
EndRound ==
    /\ ~work.done /\ work.at > Len(work.passes)
    /\ work' = IF Len(circ) < work.size
               THEN [work EXCEPT !.at = 1, !.size = Len(circ)]
               ELSE [work EXCEPT !.done = TRUE,
                                 !.outputs = [l \in Lines |-> work.gperm[l]]]
    /\ UNCHANGED <<algorithm, spec, circ>>

Simplify ==
    \/ MergePass \/ NotsPass \/ AdjacentPass \/ ExorcismPass \/ SwapPass \/ ReversePass
    \/ EndRound

(* Any circuit; with inverters moved one of Toffoli gates. *)
SimplifyInit ==
    \E base \in Seq(GatesOn(Lines)), methods \in SUBSET Methods, reverse_opt \in BOOLEAN :
        StartSimplify(base, methods, reverse_opt)

SimplifySpec == SimplifyInit /\ [][Simplify]_vars

-------------------------------------------------------------------------------
Reversing == Cardinality({i \in 1..work.at - 1 : work.passes[i] = "reverse"}) % 2 = 1

(* The lines of an assignment of the original as lines of the circuit.       *)
Relabelled(x) == {work.gperm[l] : l \in x}

(* After every pass the circuit, or its reverse while it is reversed, maps an *)
(* assignment to what the original circuit maps it to, up to gperm.           *)
FunctionIsRelabelled ==
    algorithm = "simplify" =>
    LET c == IF Reversing THEN ReverseCircuit(circ) ELSE circ
    IN  \A x \in Assignments : SimulateCircuit(c, x) = Relabelled(spec[x])

SimplifiedIsNoLonger == algorithm = "simplify" => Len(circ) <= work.before
===============================================================================
