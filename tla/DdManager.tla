------------------------------- MODULE DdManager -------------------------------
(***************************************************************************)
(* cirkit::dd_manager (classical/dd/dd_manager.hpp, dd_manager.cpp): the    *)
(* node store, unique table and operation cache under the BDD and the ZDD  *)
(* package.  A manager is a record so that the recursive operations of the *)
(* packages can hand it on.  A chain of the open hash table is the set of  *)
(* its nodes: its order does not matter, for its entries differ.           *)
(***************************************************************************)
EXTENDS Integers

CONSTANTS nvars,
          Capacity      \* 2^log_max_objs

ASSUME SizeAssumption ==
    /\ nvars \in Nat /\ Capacity \in Nat \ {0}
    /\ nvars + 2 <= Capacity

Indices == 0..Capacity - 1
Variables == 0..nvars - 1
NoIndex == -1           \* -1u

Node(var, high, low) == [var |-> var, high |-> high, low |-> low]
Unused == Node(NoIndex, NoIndex, NoIndex)

(* Both tables have as many slots as there are nodes; & mask is a modulus. *)
Slot(a, b, c) == (12582917 * a + 4256249 * b + 741457 * c) % Capacity

NewManager ==
    [nodes  |-> [i \in Indices |->
                    IF i < 2 THEN Node(nvars, NoIndex, NoIndex)
                    ELSE IF i < nvars + 2 THEN Node(i - 2, 1, 0)
                    ELSE Unused],
     unique |-> [s \in Indices |-> {}],
     nnodes |-> nvars + 2,
     cache  |-> [s \in Indices |-> <<0, 0, 0, 0>>],
     failed |-> "no"]

(* What an operation returns: the manager after it and an index. *)
Result(m, index) == [mgr |-> m, index |-> index]

Chain(m, var, high, low) ==
    {q \in m.unique[Slot(var, high, low)] : m.nodes[q] = Node(var, high, low)}

(* Mutant: a full table starts again after the variables. *)
AddedWrapping(m, var, high, low) ==
    LET i == IF m.nnodes = nvars + 4 THEN nvars + 2 ELSE m.nnodes IN
    [m EXCEPT !.nodes[i] = Node(var, high, low),
              !.unique[Slot(var, high, low)] = @ \cup {i},
              !.nnodes = i + 1]

(* Mutant: the node is entered at the head of its chain, whose rest is lost. *)
AddedAtHead(m, var, high, low) ==
    [m EXCEPT !.nodes[m.nnodes] = Node(var, high, low),
              !.unique[Slot(var, high, low)] = {m.nnodes},
              !.nnodes = @ + 1]

Added(m, var, high, low) ==
    [m EXCEPT !.nodes[m.nnodes] = Node(var, high, low),
              !.unique[Slot(var, high, low)] = @ \cup {m.nnodes},
              !.nnodes = @ + 1]

(* Mutant: the chains are not searched. *)
UniqueLookupBlind(m, var, high, low) ==
    IF high = 1 /\ low = 0 THEN Result(m, var + 2)
    ELSE IF m.nnodes = Capacity THEN Result([m EXCEPT !.failed = "capacity"], 0)
    ELSE Result(Added(m, var, high, low), m.nnodes)

UniqueLookup(m, var, high, low) ==
    IF high = 1 /\ low = 0 THEN Result(m, var + 2)
    ELSE IF Chain(m, var, high, low) # {}
    THEN Result(m, CHOOSE q \in Chain(m, var, high, low) : TRUE)
    ELSE IF m.nnodes = Capacity THEN Result([m EXCEPT !.failed = "capacity"], 0)
    ELSE Result(Added(m, var, high, low), m.nnodes)

(* unique_create of a package: its assertions, its reduction rule, then the *)
(* table.                                                                   *)
Ordered(m, var, high, low) ==
    var < nvars /\ var < m.nodes[high].var /\ var < m.nodes[low].var

(* Mutants: the rule of the other package is used. *)
CreateBddByZdd(m, var, high, low) ==
    IF ~Ordered(m, var, high, low) THEN Result([m EXCEPT !.failed = "order"], 0)
    ELSE IF high = 0 THEN Result(m, low)
    ELSE UniqueLookup(m, var, high, low)

CreateZddByBdd(m, var, high, low) ==
    IF ~Ordered(m, var, high, low) THEN Result([m EXCEPT !.failed = "order"], 0)
    ELSE IF high = low THEN Result(m, high)
    ELSE UniqueLookup(m, var, high, low)

CreateBdd(m, var, high, low) ==
    IF ~Ordered(m, var, high, low) THEN Result([m EXCEPT !.failed = "order"], 0)
    ELSE IF high = low THEN Result(m, high)
    ELSE UniqueLookup(m, var, high, low)

CreateZdd(m, var, high, low) ==
    IF ~Ordered(m, var, high, low) THEN Result([m EXCEPT !.failed = "order"], 0)
    ELSE IF high = 0 THEN Result(m, low)
    ELSE UniqueLookup(m, var, high, low)

(* The cache has one entry per slot, which is valid if its whole key agrees; *)
(* a lookup returns the set of the results found, at most one.               *)
CacheLookup(m, a, b, op) ==
    LET entry == m.cache[Slot(a, b, op)] IN
    IF entry[1] = a /\ entry[2] = b /\ entry[3] = op THEN {entry[4]} ELSE {}

CacheInsert(m, a, b, op, res) ==
    [m EXCEPT !.cache[Slot(a, b, op)] = <<a, b, op, res>>]

-------------------------------------------------------------------------------
(* What both packages rely on, of any manager. *)

Live(m) == 0..m.nnodes - 1

(* Children come before their parents, in the table and in the variable    *)
(* order, so the diagrams are acyclic and ordered.                          *)
WellOrdered(m) ==
    \A i \in Live(m) : i > 1 =>
        /\ m.nodes[i].high < i /\ m.nodes[i].low < i
        /\ m.nodes[i].high \in Live(m) /\ m.nodes[i].low \in Live(m)
        /\ Ordered(m, m.nodes[i].var, m.nodes[i].high, m.nodes[i].low)

(* Two indices never hold the same node, which makes equality of diagrams   *)
(* the equality of indices that operator== and equals compare.             *)
Unique(m) ==
    \A i, j \in Live(m) : i > 1 /\ j > 1 /\ m.nodes[i] = m.nodes[j] => i = j

(* Every node made by an operation is in the chain where it is looked for.  *)
Findable(m) ==
    \A i \in Live(m) : i >= nvars + 2 =>
        i \in m.unique[Slot(m.nodes[i].var, m.nodes[i].high, m.nodes[i].low)]
===============================================================================
