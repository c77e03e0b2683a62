-------------------------- MODULE IndexBacktrackingSet --------------------------
(***************************************************************************)
(* cirkit::index_backtracking_set (core/utils/index.hpp): a vector whose     *)
(* first real_size entries are the set, the position of each element in it, *)
(* and a stack of sizes in which equal sizes are counted.  An element is     *)
(* removed by exchanging it with the last one; a state is restored by        *)
(* bringing back the size alone.                                            *)
(***************************************************************************)
EXTENDS Integers, Sequences

CONSTANTS Elements,
          MaxSaves            \* bound on the count of an entry of the stack

ASSUME ElementsAssumption == MaxSaves \in Nat

VARIABLES values,
          positions,          \* index_map: 0 is its null value
          state_stack,        \* the top is the first entry
          real_size

vars == <<values, positions, state_stack, real_size>>

Entry(size, n) == [size |-> size, n |-> n]

Has(x) == positions[x] # 0 /\ positions[x] <= real_size

(* What begin() and end() enclose, and what a size saved earlier encloses. *)
Prefix(k) == {values[i] : i \in 1..k}

Init ==
    /\ values = <<>>
    /\ positions = [x \in Elements |-> 0]
    /\ state_stack = <<>>
    /\ real_size = 0

Insert(x) ==
    /\ state_stack = <<>> /\ real_size = Len(values)
    /\ UNCHANGED state_stack
    /\ IF Has(x) THEN UNCHANGED <<values, positions, real_size>>
       ELSE /\ values' = Append(values, x)
            /\ positions' = [positions EXCEPT ![x] = Len(values')]
            /\ real_size' = real_size + 1

(* Mutant: the element moved into the gap keeps its old position. *)
RemoveOneSided(x) ==
    /\ Has(x)
    /\ LET back == values[real_size] IN
        /\ positions' = [positions EXCEPT ![x] = real_size]
        /\ values' = [values EXCEPT ![positions[x]] = back, ![real_size] = x]
    /\ real_size' = real_size - 1
    /\ UNCHANGED state_stack

(* Mutant: the element is exchanged with the last one of the vector. *)
RemoveToEnd(x) ==
    /\ Has(x)
    /\ LET back == values[Len(values)] IN
        /\ positions' = [positions EXCEPT ![x] = positions[back], ![back] = positions[x]]
        /\ values' = [values EXCEPT ![positions[x]] = back, ![Len(values)] = x]
    /\ real_size' = real_size - 1
    /\ UNCHANGED state_stack

Remove(x) ==
    /\ Has(x)
    /\ LET back == values[real_size] IN
        /\ positions' = [positions EXCEPT ![x] = positions[back], ![back] = positions[x]]
        /\ values' = [values EXCEPT ![positions[x]] = back, ![real_size] = x]
    /\ real_size' = real_size - 1
    /\ UNCHANGED state_stack

MaySave == state_stack # <<>> => Head(state_stack).n < MaxSaves

(* Mutant: the last save is taken over when one element was removed. *)
SaveCounting ==
    /\ MaySave
    /\ IF state_stack # <<>> /\ Head(state_stack).size <= real_size + 1
       THEN state_stack' = [state_stack EXCEPT ![1].size = real_size, ![1].n = @ + 1]
       ELSE state_stack' = <<Entry(real_size, 1)>> \o state_stack
    /\ UNCHANGED <<values, positions, real_size>>

Save ==
    /\ MaySave
    /\ IF state_stack # <<>> /\ Head(state_stack).size = real_size
       THEN state_stack' = [state_stack EXCEPT ![1].n = @ + 1]
       ELSE state_stack' = <<Entry(real_size, 1)>> \o state_stack
    /\ UNCHANGED <<values, positions, real_size>>

Restore ==
    /\ state_stack # <<>>
    /\ real_size' = Head(state_stack).size
    /\ state_stack' = IF Head(state_stack).n > 1 THEN [state_stack EXCEPT ![1].n = @ - 1]
                      ELSE Tail(state_stack)
    /\ UNCHANGED <<values, positions>>

Next ==
    \/ \E x \in Elements : Insert(x) \/ Remove(x)
    \/ Save
    \/ Restore

Spec == Init /\ [][Next]_vars

-------------------------------------------------------------------------------
(* The types; a counted entry is in use. *)
TypeOK ==
    /\ values \in Seq(Elements)
    /\ positions \in [Elements -> 0..Len(values)]
    /\ state_stack \in Seq([size : 0..Len(values), n : Nat \ {0}])
    /\ real_size \in 0..Len(values)

(* The positions are the inverse of the vector, removed elements included,   *)
(* so that has() and the iteration from begin() to end() agree.             *)
PositionsInvert ==
    /\ \A i \in DOMAIN values : positions[values[i]] = i
    /\ \A x \in Elements : positions[x] # 0 => values[positions[x]] = x

(* The sizes grow from the current one down the stack: a size saved earlier *)
(* encloses all sets saved later, which is why a size stands for a set.     *)
SizesNest ==
    /\ \A e \in DOMAIN state_stack : real_size <= state_stack[e].size
    /\ \A d, e \in DOMAIN state_stack : d < e => state_stack[d].size < state_stack[e].size

(* A saved set is not changed by the removals made after it was saved, for   *)
(* all their exchanges of elements: the entry e from the bottom encloses the *)
(* same elements after every step that leaves it on the stack.              *)
FromBottom(s, e) == s[Len(s) - e]

SavedSetsSurvive ==
    [][\A e \in 0..Len(state_stack) - 1 : e < Len(state_stack') =>
            {values'[i] : i \in 1..FromBottom(state_stack', e).size} =
            {values[i] : i \in 1..FromBottom(state_stack, e).size}]_vars

SE == INSTANCE SequencesExt

(* It is the set with a stack of earlier sets that its comment describes.   *)
Plain == INSTANCE BacktrackingSet WITH
    set <- Prefix(real_size),
    all <- Prefix(Len(values)),
    saved <- SE!FlattenSeq([e \in DOMAIN state_stack |->
                [k \in 1..state_stack[e].n |-> Prefix(state_stack[e].size)]])

Backtracks == Plain!SSpec
===============================================================================
