---------------------------- MODULE BacktrackingSet ----------------------------
(***************************************************************************)
(* What the comment on cirkit::index_backtracking_set (core/utils/index.hpp) *)
(* promises: a set from which elements are removed, and a stack of earlier   *)
(* sets to which it can be brought back.                                    *)
(***************************************************************************)
EXTENDS Sequences, Integers

CONSTANT Elements

VARIABLES set, all, saved

svars == <<set, all, saved>>

Init ==
    /\ set = {}
    /\ all = {}               \* what the set holds with all removals undone
    /\ saved = <<>>           \* the sets to return to, the next one first

(* Insertions only before any removal or with the removals undone. *)
Insert(x) ==
    /\ saved = <<>> /\ set = all
    /\ set' = set \cup {x}
    /\ all' = set'
    /\ UNCHANGED saved

Remove(x) ==
    /\ x \in set
    /\ set' = set \ {x}
    /\ UNCHANGED <<all, saved>>

Save ==
    /\ saved' = <<set>> \o saved
    /\ UNCHANGED <<set, all>>

Restore ==
    /\ saved # <<>>
    /\ set' = Head(saved)
    /\ saved' = Tail(saved)
    /\ UNCHANGED all

Next ==
    \/ \E x \in Elements : Insert(x) \/ Remove(x)
    \/ Save
    \/ Restore

SSpec == Init /\ [][Next]_svars
===============================================================================
