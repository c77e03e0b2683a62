------------------------------ MODULE PagedMemory ------------------------------
(***************************************************************************)
(* paged_memory (core/utils/paged_memory.hpp): for every index a list of    *)
(* sets, all in one vector.  A set is its size, additional values and its   *)
(* elements; offset says where the list of an index starts and count how    *)
(* many sets it has.  A memory is a record of the three and the capacity    *)
(* of the vector; addresses start at 0.                                     *)
(***************************************************************************)
EXTENDS Integers, Sequences, FiniteSets

Larger(a, b) == IF a > b THEN a ELSE b

(* A set in ascending order, as get_index_vector lists it. *)
Ascending(S) == [i \in 1..Cardinality(S) |->
                    CHOOSE x \in S : Cardinality({y \in S : y < x}) = i - 1]

(* paged_memory( n ), with k additional values. *)
Memory(n, k) ==
    [data |-> <<>>, capacity |-> 2 * n, additional |-> k,
     offset |-> [i \in 0..n - 1 |-> 0], count |-> [i \in 0..n - 1 |-> 0]]

(* Appends values to the vector, which at least doubles when it is full.     *)
Push(m, values) ==
    LET size == Len(m.data)
    IN  [m EXCEPT !.data = @ \o values,
                  !.capacity = IF size + Len(values) <= @ THEN @
                               ELSE size + Larger(size, Len(values))]

Starts(m, index) == [m EXCEPT !.offset[index] = Len(m.data)]

PushSet(m, elements, extra) ==
    Push(Push(Push(m, <<Len(elements)>>), extra), elements)

AssignEmpty(m, index, extra) ==
    [PushSet(Starts(m, index), <<>>, extra) EXCEPT !.count[index] = 1]

AssignSingleton(m, index, value, extra) ==
    [PushSet(Starts(m, index), <<value>>, extra) EXCEPT !.count[index] = 1]

AppendBegin(m, index) == Starts(m, index)

AppendSet(m, index, elements, extra) ==
    [PushSet(m, elements, extra) EXCEPT !.count[index] = @ + 1]

AppendSingleton(m, index, value, extra) == AppendSet(m, index, <<value>>, extra)

-------------------------------------------------------------------------------
At(m, address) == m.data[address + 1]

(* Where the sets of an index are, as the iterator steps through them.       *)
Addresses(m, index) ==
    LET address[j \in 1..m.count[index]] ==
            IF j = 1 THEN m.offset[index]
            ELSE address[j - 1] + At(m, address[j - 1]) + 1 + m.additional
    IN  address

Elements(m, address) ==
    {At(m, address + m.additional + i) : i \in 1..At(m, address)}

Extra(m, address, i) == At(m, address + 1 + i)

(* The sets of an index, in their order. *)
SetsOf(m, index) ==
    LET addresses == Addresses(m, index)
    IN  [j \in 1..m.count[index] |-> Elements(m, addresses[j])]
===============================================================================
