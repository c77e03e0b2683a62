------------------------------ MODULE MCContainers ------------------------------
(* A behaviour is the life of one object: a backtracking set or a set of one   *)
(* of the three other classes; the variables of the other module do not move. *)
EXTENDS IndexBacktrackingSet

CONSTANTS SetIndices, Divisor

(* They are std::size_t; the bitset of index 100 is beyond the threshold. *)
ASSUME IndicesAssumption == SetIndices \subseteq Nat

VARIABLES class, set_values, set_map, set_answer

Sets == INSTANCE IndexSets WITH
    Indices <- SetIndices, values <- set_values, map <- set_map, answer <- set_answer

setVars == <<class, set_values, set_map, set_answer>>

NoSet == class = "none" /\ set_values = <<>> /\ set_map = <<>> /\ set_answer = FALSE

MCInit == Init /\ (NoSet \/ Sets!Init)

MCNext ==
    \/ class = "none" /\ Next /\ UNCHANGED setVars
    \/ class # "none" /\ Sets!Next /\ UNCHANGED vars

MCSpec == MCInit /\ [][MCNext]_<<vars, setVars>>

-------------------------------------------------------------------------------
(* index_set, index_bitset and index_set_monotone are sets of indices: what    *)
(* they list, what has() says and what insert answers agree, whichever way    *)
(* they were cleared.                                                       *)
ClassesAreSets == Sets!IsASet
===============================================================================
