------------------------ MODULE TranspositionSynthesis ------------------------
(***************************************************************************)
(* transposition_based_synthesis: the permutation is taken apart into cycles, *)
(* a cycle into transpositions, and a circuit for each is appended.  The     *)
(* cycle is turned so that the most distant pair of neighbours needs none.  *)
(***************************************************************************)
EXTENDS ReversibleCircuit

(* work has values_map, the cycles left, done.                              *)

-------------------------------------------------------------------------------
(* The gates of transposition_to_circuit, from the bits in ascending order;  *)
(* every difference inverts its line and adds a gate with all other lines as *)
(* controls, and the last of them remains for the middle.                   *)
AllOthers(target) == Toffoli(Pos(Lines \ {target}), target)

Inverters(lines) ==
    LET order == Downwards(lines) IN [i \in DOMAIN order |-> Not(order[i])]

Moves(lines) ==
    SeqExt!FlattenSeq([i \in DOMAIN Downwards(lines) |->
        <<Not(Downwards(lines)[i]), AllOthers(Downwards(lines)[i])>>])

TranspositionCircuit(from, to) ==
    LET block_a == Inverters(Lines \ (from \cup to))
        falls == Inverters(from \ to)
        rises == Inverters(to \ from)
        block_b == IF Len(falls) < Len(rises) THEN falls ELSE rises
        differ == SymDiff(from, to)
        moves == Moves(differ)
        block_c == SubSeq(moves, 1, Len(moves) - 2)
        block_X == <<IF differ = {} THEN Not(0) ELSE AllOthers(Min(differ))>>
    IN  block_a \o block_b \o block_c \o block_X \o ReverseCircuit(block_c)
            \o block_b \o block_a

-------------------------------------------------------------------------------
First(S) == CHOOSE x \in S : \A y \in S : ~Smaller(y, x)

(* The cycle of start. *)
Follow(f, start, c) ==
    IF f[c[Len(c)]] = start THEN c ELSE Append(c, f[c[Len(c)]])

Cycle(f, start) ==
    SeqExt!FoldLeft(LAMBDA c, i : Follow(f, start, c), <<start>>,
                    [i \in 1..Cardinality(Assignments) |-> i])

Neighbour(c, i) == c[(i % Len(c)) + 1]

(* The first of the most distant neighbours. *)
MostDistant(c) ==
    CHOOSE i \in DOMAIN c :
        /\ \A j \in DOMAIN c : Distance(c[j], Neighbour(c, j)) <= Distance(c[i], Neighbour(c, i))
        /\ \A j \in 1..i - 1 : Distance(c[j], Neighbour(c, j)) < Distance(c[i], Neighbour(c, i))

(* Mutant: the cycle is turned and not reversed. *)
TurnedForwards(c) ==
    LET k == MostDistant(c) IN SubSeq(c, k + 1, Len(c)) \o SubSeq(c, 1, k)

Turned(c) ==
    LET k == MostDistant(c)
    IN  SeqExt!Reverse(SubSeq(c, k + 1, Len(c)) \o SubSeq(c, 1, k))

-------------------------------------------------------------------------------
StartTranspositions(f) ==
    /\ algorithm = "transposition"
    /\ spec = f
    /\ circ = <<>>
    /\ work = [values_map |-> f, cycles |-> <<>>, done |-> FALSE]

TakeCycle ==
    /\ DOMAIN work.values_map # {}
    /\ \E c \in {Cycle(spec, First(DOMAIN work.values_map))} :
        work' = [values_map |-> Restrict(work.values_map,
                                         DOMAIN work.values_map \ SeqExt!ToSet(c)),
                 cycles |-> Append(work.cycles, Turned(c)), done |-> FALSE]
    /\ UNCHANGED <<algorithm, spec, circ>>

(* The next transposition of the first cycle, or the next cycle. *)
AppendTransposition ==
    /\ DOMAIN work.values_map = {} /\ work.cycles # <<>>
    /\ \E c \in {Head(work.cycles)} :
        IF Len(c) = 1
        THEN /\ work' = [work EXCEPT !.cycles = Tail(@), !.done = Tail(work.cycles) = <<>>]
             /\ UNCHANGED circ
        ELSE /\ work' = [work EXCEPT !.cycles = <<Tail(c)>> \o Tail(@)]
             /\ circ' = circ \o TranspositionCircuit(c[1], c[2])
    /\ UNCHANGED <<algorithm, spec>>

(* Any permutation can be asked for. *)
TranspositionInit == \E f \in Permutations : StartTranspositions(f)

TranspositionSpec == TranspositionInit /\ [][TakeCycle \/ AppendTransposition]_vars

-------------------------------------------------------------------------------
(* What a cycle that is left will still do: its transpositions in order.     *)
ExchangedAt(c, y, i) ==
    IF y = c[i] THEN c[i + 1] ELSE IF y = c[i + 1] THEN c[i] ELSE y

Along(c, y) ==
    SeqExt!FoldLeft(LAMBDA z, i : ExchangedAt(c, z, i), y, [i \in 1..Len(c) - 1 |-> i])

RestOfCycles(x) == SeqExt!FoldLeft(LAMBDA y, c : Along(c, y), x, work.cycles)

(* When all cycles are known, the circuit so far and the transpositions that *)
(* are left make up the specification; every circuit appended exchanges two *)
(* rows and no others.                                                      *)
TranspositionsAreLeft ==
    algorithm = "transposition" /\ DOMAIN work.values_map = {} =>
        \A x \in Assignments : RestOfCycles(SimulateCircuit(circ, x)) = spec[x]
===============================================================================
