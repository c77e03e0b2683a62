------------------------------ MODULE IndexedSet ------------------------------
(***************************************************************************)
(* What the set classes of core/utils/index.hpp promise their users: a set   *)
(* of indices; an insertion says whether the index was there.               *)
(***************************************************************************)
CONSTANT Indices

VARIABLES members, answer

Init == members = {} /\ answer = FALSE

Insert(i) == answer' = (i \in members) /\ members' = members \cup {i}

(* Not all classes tell whether the index was there. *)
Remove(i) == answer' \in {answer, (i \in members)} /\ members' = members \ {i}

Clear == members' = {} /\ UNCHANGED answer

Next == (\E i \in Indices : Insert(i) \/ Remove(i)) \/ Clear

SetSpec == Init /\ [][Next]_<<members, answer>>
===============================================================================
