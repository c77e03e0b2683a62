------------------------------- MODULE IndexSets -------------------------------
(***************************************************************************)
(* index_set, index_bitset and index_set_monotone (core/utils/index.hpp).    *)
(* index_set has a vector and, as index_map, the position of every index in  *)
(* it, 0 for none; index_set_monotone a vector and an index_bitset.  A map    *)
(* or a bitset is a function on 0..n - 1, which grows as needed.              *)
(***************************************************************************)
EXTENDS Integers, Sequences, FiniteSets

CONSTANTS Indices,      \* base_index: 0 is the empty index
          Divisor       \* clear goes through the values if size < capacity / Divisor

VARIABLES class,        \* which class it is an object of
          values,       \* empty for index_bitset
          map,          \* positions, bitset or present
          answer        \* what insert or remove returned last

vars == <<class, values, map, answer>>

SeqExt == INSTANCE SequencesExt

NullOf == [index_set |-> 0, index_bitset |-> FALSE, index_set_monotone |-> FALSE]
Null == NullOf[class]

NoMap == [i \in {} |-> Null]
HasIndex(m, i) == i \in DOMAIN m
HasIn(m, i) == HasIndex(m, i) /\ m[i] # Null
Has(i) == HasIn(map, i)

Reserved(m, i) ==
    IF HasIndex(m, i) THEN m ELSE [j \in 0..i |-> IF j \in DOMAIN m THEN m[j] ELSE Null]

(* operator[] and insert of index_map, reserve and set of index_bitset. *)
Put(m, i, value) == [Reserved(m, i) EXCEPT ![i] = value]

(* A removal beyond the end leaves the map as short as it is. *)
Dropped(m, i) == IF HasIndex(m, i) THEN Put(m, i, Null) ELSE m

Init ==
    /\ class \in DOMAIN NullOf
    /\ values = <<>>
    /\ map = NoMap
    /\ answer = FALSE

(* Mutant: the position is the size before the insertion. *)
InsertBefore(i) ==
    /\ answer' = Has(i)
    /\ IF class # "index_bitset" /\ Has(i) THEN UNCHANGED <<values, map>>
       ELSE /\ values' = IF class = "index_bitset" THEN values ELSE Append(values, i)
            /\ map' = Put(map, i, IF class = "index_set" THEN Len(values) ELSE TRUE)
    /\ UNCHANGED class

Insert(i) ==
    /\ answer' = Has(i)
    /\ IF class # "index_bitset" /\ Has(i) THEN UNCHANGED <<values, map>>
       ELSE /\ values' = IF class = "index_bitset" THEN values ELSE Append(values, i)
            /\ map' = Put(map, i, IF class = "index_set" THEN Len(values') ELSE TRUE)
    /\ UNCHANGED class

(* The last value takes the place of the removed one, which it may be itself. *)
Remove(i) ==
    /\ class = "index_set"
    /\ answer' = Has(i)
    /\ IF ~Has(i) THEN UNCHANGED <<values, map>>
       ELSE /\ values' = SeqExt!Front([values EXCEPT ![map[i]] = SeqExt!Last(values)])
            /\ map' = Dropped(Put(map, SeqExt!Last(values), map[i]), i)
    /\ UNCHANGED class

RemoveBit(i) ==
    /\ class = "index_bitset"
    /\ map' = Dropped(map, i)
    /\ UNCHANGED <<class, values, answer>>

Clear ==
    /\ class # "index_set_monotone"
    /\ values' = <<>> /\ map' = NoMap
    /\ UNCHANGED <<class, answer>>

(* Mutant: the flags are removed after the values. *)
ClearMonotoneLate ==
    /\ class = "index_set_monotone"
    /\ values' = <<>>
    /\ map' = IF Len(values) < Cardinality(DOMAIN map) \div Divisor THEN map ELSE NoMap
    /\ UNCHANGED <<class, answer>>

(* Few values in a large bitset are removed one by one: it stays as long. *)
ClearMonotone ==
    /\ class = "index_set_monotone"
    /\ values' = <<>>
    /\ map' = IF Len(values) < Cardinality(DOMAIN map) \div Divisor
              THEN [i \in DOMAIN map |-> map[i] /\ \A k \in DOMAIN values : values[k] # i]
              ELSE NoMap
    /\ UNCHANGED <<class, answer>>

Next ==
    \/ \E i \in Indices : Insert(i) \/ Remove(i) \/ RemoveBit(i)
    \/ Clear \/ ClearMonotone

Spec == Init /\ [][Next]_vars

-------------------------------------------------------------------------------
Members == IF class = "index_bitset" THEN {i \in Indices : Has(i)}
           ELSE {values[i] : i \in DOMAIN values}

(* Each class is a set of indices: what the iterators go through is what was   *)
(* inserted, and has(), on which the answers rest, says the same.            *)
Set == INSTANCE IndexedSet WITH members <- Members

IsASet == Set!SetSpec
===============================================================================
