----------------------------- MODULE NodeInterning -----------------------------
(***************************************************************************)
(* What the node store of a decision diagram package promises: every node  *)
(* has one index, kept for ever.  Asking for a node answers with its index, *)
(* with a new one if the node is new, or with Full.    There are no chains, *)
(* no hash values and no nodes set apart here.                              *)
(***************************************************************************)
EXTENDS Integers

CONSTANTS Given,              \* the nodes of the variables by their index
          Limit,              \* the number of indices, 0 and 1 are terminals
          Redundant(_, _),    \* the reduction rule: such a node is not made,
          Instead(_, _)       \* this index stands for it

VARIABLES table, answer

Full == -1                    \* no index

ivars == <<table, answer>>

Init ==
    /\ table = Given
    /\ answer = 0

(* A node with the two children as its first index and its second. *)
Reduce(high, low) ==
    /\ Redundant(high, low)
    /\ answer' = Instead(high, low)
    /\ UNCHANGED table

Find(n) ==
    /\ \E i \in DOMAIN table : table[i] = n /\ answer' = i
    /\ UNCHANGED table

Make(n) ==
    /\ \A i \in DOMAIN table : table[i] # n
    /\ \E i \in 2..Limit - 1 \ DOMAIN table :
        /\ table' = [j \in DOMAIN table \cup {i} |-> IF j = i THEN n ELSE table[j]]
        /\ answer' = i

Refuse(n) ==
    /\ \A i \in DOMAIN table : table[i] # n
    /\ 2..Limit - 1 \subseteq DOMAIN table
    /\ answer' = Full
    /\ UNCHANGED table

Next ==
    \E var, high, low \in 0..Limit - 1 :
        \/ Reduce(high, low)
        \/ ~Redundant(high, low) /\ LET n == [var |-> var, high |-> high, low |-> low] IN
                                    Find(n) \/ Make(n) \/ Refuse(n)

ISpec == Init /\ [][Next]_ivars
===============================================================================
