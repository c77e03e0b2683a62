-------------------------- MODULE DataStructureProofs --------------------------
(***************************************************************************)
(* Proofs about the data structures: the node store of dd_manager.hpp, for   *)
(* any number of variables and any capacity, and the containers of          *)
(* core/utils/index.hpp, for any elements and any bound.                    *)
(***************************************************************************)
EXTENDS DdTable, MCContainers, SequenceTheorems, WellFoundedInduction, TLAPS

-------------------------------------------------------------------------------
(* Induction on natural numbers is by the least counterexample.             *)
LEMMA Least ==
    ASSUME NEW T, T \subseteq Nat, T # {}
    PROVE  \E n \in T : \A j \in T : n <= j
<1>1. PICK n \in T : \A j \in T : ~ <<j, n>> \in OpToRel(<, Nat)
    BY NatLessThanWellFounded, WFMin
<1>2. \A j \in T : ~ j < n
    BY <1>1 DEF OpToRel
<1> QED
    BY <1>2

-------------------------------------------------------------------------------
(* The node store. *)

(* The nodes that are in no chain. *)
GivenNodes ==
    /\ mgr.nodes[0].var = nvars /\ mgr.nodes[1].var = nvars
    /\ \A v \in Variables : mgr.nodes[v + 2] = Node(v, 1, 0)

(* The chains hold made nodes only, and no made node is a variable's.       *)
Chained ==
    /\ \A s \in Indices : \A q \in mgr.unique[s] : q \in nvars + 2..mgr.nnodes - 1
    /\ \A i \in nvars + 2..mgr.nnodes - 1 :
            ~(mgr.nodes[i].high = 1 /\ mgr.nodes[i].low = 0)

TableInv ==
    /\ TableTypes
    /\ GivenNodes
    /\ Chained
    /\ TableOrdered
    /\ TableUnique
    /\ TableFindable
    /\ TableReduced

-------------------------------------------------------------------------------
LEMMA SlotInRange ==
    ASSUME NEW a \in Int, NEW b \in Int, NEW c \in Int
    PROVE  Slot(a, b, c) \in Indices
<1> DEFINE h == 12582917 * a + 4256249 * b + 741457 * c
<1>1. h \in Int
    OBVIOUS
<1>2. Capacity \in Nat /\ Capacity > 0
    BY SizeAssumption
<1> HIDE DEF h
<1>3. h % Capacity \in 0..Capacity - 1
    BY <1>1, <1>2
<1> QED
    BY <1>3 DEF Slot, Indices, h

LEMMA TypeFacts ==
    ASSUME TableTypes
    PROVE  /\ nvars \in Nat /\ Capacity \in Nat /\ nvars + 2 <= Capacity
           /\ Variables \subseteq Int /\ Indices \subseteq Int
           /\ mgr.nodes \in [Indices -> [var : Int, high : Int, low : Int]]
           /\ mgr.unique \in [Indices -> SUBSET Indices]
           /\ mgr.nnodes \in Int /\ nvars + 2 <= mgr.nnodes /\ mgr.nnodes <= Capacity
           /\ \A i : i \in Live(mgr) <=> i \in Int /\ 0 <= i /\ i < mgr.nnodes
           /\ Live(mgr) \subseteq Indices
<1>1. nvars \in Nat /\ Capacity \in Nat /\ nvars + 2 <= Capacity
    BY SizeAssumption
<1>2. mgr.nodes \in [Indices -> [var : Int, high : Int, low : Int]] /\ mgr.nnodes \in nvars + 2..Capacity
    BY DEF TableTypes
<1>3. mgr.unique \in [Indices -> SUBSET Indices]
    BY DEF TableTypes
<1>4. mgr.nnodes \in Int /\ nvars + 2 <= mgr.nnodes /\ mgr.nnodes <= Capacity
    BY <1>1, <1>2
<1>5. \A i : i \in Live(mgr) <=> i \in Int /\ 0 <= i /\ i < mgr.nnodes
    BY <1>4 DEF Live
<1>6. Live(mgr) \subseteq Indices
    BY <1>1, <1>4 DEF Live, Indices
<1> QED
    BY <1>1, <1>2, <1>3, <1>4, <1>5, <1>6 DEF Variables, Indices

LEMMA AddedFields ==
    ASSUME TableTypes, NEW var \in Variables, NEW high \in Indices, NEW low \in Indices
    PROVE  /\ Added(mgr, var, high, low).nodes =
                    [mgr.nodes EXCEPT ![mgr.nnodes] = Node(var, high, low)]
           /\ Added(mgr, var, high, low).unique =
                    [mgr.unique EXCEPT ![Slot(var, high, low)] =
                        mgr.unique[Slot(var, high, low)] \cup {mgr.nnodes}]
           /\ Added(mgr, var, high, low).nnodes = mgr.nnodes + 1
           /\ Added(mgr, var, high, low).cache = mgr.cache
           /\ DOMAIN Added(mgr, var, high, low) = DOMAIN mgr
           /\ Added(mgr, var, high, low).failed = mgr.failed
<1>1. DOMAIN mgr = {"nodes", "unique", "nnodes", "cache", "failed"}
    BY DEF TableTypes
<1>2. Slot(var, high, low) \in DOMAIN mgr.unique
    BY SlotInRange, TypeFacts DEF TableTypes
<1> QED
    BY <1>1, <1>2 DEF Added

(* The node asked for is stored at i. *)
Holds(i, var, high, low) == i > 1 /\ i \in Live(mgr) /\ mgr.nodes[i] = Node(var, high, low)

(* What one call does, with the search of a chain turned into a search of   *)
(* all nodes: this is where TableFindable is needed.                        *)
Answered(var, high, low) ==
    /\ mgr' = mgr
    /\ \/ Redundant(high, low) /\ answer' = Instead(high, low)
       \/ ~Redundant(high, low) /\ Holds(answer', var, high, low)

Refused(var, high, low) ==
    /\ ~Redundant(high, low)
    /\ \A i \in Live(mgr) : ~Holds(i, var, high, low)
    /\ mgr.nnodes = Capacity
    /\ mgr' = [mgr EXCEPT !.failed = "capacity"]
    /\ answer' = Full

Made(var, high, low) ==
    /\ ~Redundant(high, low) /\ ~(high = 1 /\ low = 0)
    /\ \A i \in Live(mgr) : ~Holds(i, var, high, low)
    /\ mgr.nnodes < Capacity
    /\ mgr' = Added(mgr, var, high, low)
    /\ answer' = mgr.nnodes

LEMMA CallCases ==
    ASSUME TableInv, NEW var \in Variables, NEW high \in Indices, NEW low \in Indices,
           Create(var, high, low)
    PROVE  Answered(var, high, low) \/ Refused(var, high, low) \/ Made(var, high, low)
<1> DEFINE r == UniqueCreate(mgr, var, high, low)
           n == Node(var, high, low)
           found == Chain(mgr, var, high, low)
<1>0. nvars \in Nat /\ Capacity \in Nat /\ Variables \subseteq Int /\ Indices \subseteq Int
    BY SizeAssumption DEF Variables, Indices
<1>1. /\ mgr.failed = "no" /\ Ordered(mgr, var, high, low)
      /\ mgr' = r.mgr
      /\ answer' = IF r.mgr.failed = "no" THEN r.index ELSE Full
    BY DEF Create
<1>4. TableTypes
    BY DEF TableInv
<1>2. CASE Redundant(high, low)
    <2>1. r = Result(mgr, low)
        BY <1>1, <1>2, KindAssumption DEF UniqueCreate, CreateBdd, CreateZdd, Redundant
    <2> QED
        BY <1>1, <1>2, <2>1 DEF Answered, Result, Instead
<1>3. CASE ~Redundant(high, low)
    <2>1. r = UniqueLookup(mgr, var, high, low)
        BY <1>1, <1>3, KindAssumption DEF UniqueCreate, CreateBdd, CreateZdd, Redundant
    <2>2. CASE high = 1 /\ low = 0
        <3>1. r = Result(mgr, var + 2)
            BY <2>1, <2>2 DEF UniqueLookup
        <3>2. mgr' = mgr /\ answer' = var + 2
            BY <1>1, <3>1 DEF Result
        <3>3. mgr.nodes[var + 2] = n
            BY <2>2 DEF TableInv, GivenNodes
        <3>4. var + 2 > 1 /\ var + 2 \in Live(mgr)
            BY <1>0 DEF TableInv, TableTypes, Live, Variables
        <3> QED
            BY <1>3, <3>2, <3>3, <3>4 DEF Answered, Holds
    <2>3. CASE ~(high = 1 /\ low = 0) /\ found # {}
        <3>1. PICK q \in found : r = Result(mgr, q)
            BY <2>1, <2>3 DEF UniqueLookup
        <3>2. mgr' = mgr /\ answer' = q
            BY <1>1, <3>1 DEF Result
        <3>3. q \in mgr.unique[Slot(var, high, low)] /\ mgr.nodes[q] = n
            BY <3>1 DEF Chain
        <3>4. Slot(var, high, low) \in Indices
            BY SlotInRange, <1>0
        <3>5. q \in nvars + 2..mgr.nnodes - 1
            BY <3>3, <3>4 DEF TableInv, Chained
        <3>6. q > 1 /\ q \in Live(mgr)
            BY <3>5, <1>0 DEF TableInv, TableTypes, Live
        <3> QED
            BY <1>3, <3>2, <3>3, <3>6 DEF Answered, Holds
    <2>4. CASE ~(high = 1 /\ low = 0) /\ found = {}
        <3>1. ASSUME NEW i \in Live(mgr), Holds(i, var, high, low)
              PROVE  FALSE
            <4>1. mgr.nodes[i].var = var /\ mgr.nodes[i].high = high /\ mgr.nodes[i].low = low
                BY <3>1 DEF Holds, Node
            <4>2. i \in Int /\ i > 1 /\ mgr.nnodes \in Int
                BY <3>1 DEF Holds, Live, TableInv, TableTypes
            <4>3. CASE i >= nvars + 2
                <5>1. i \in mgr.unique[Slot(var, high, low)]
                    BY <4>1, <4>3 DEF TableInv, TableFindable, Findable
                <5> QED
                    BY <5>1, <3>1, <2>4 DEF Chain, Holds
            <4>4. CASE i < nvars + 2
                <5>1. i - 2 \in Variables /\ i = (i - 2) + 2
                    BY <4>2, <4>4, <1>0 DEF Variables
                <5>2. mgr.nodes[i] = Node(i - 2, 1, 0)
                    BY <5>1 DEF TableInv, GivenNodes
                <5> QED
                    BY <5>2, <4>1, <2>4 DEF Node
            <4> QED
                BY <4>2, <4>3, <4>4, <1>0
        <3>2. CASE mgr.nnodes = Capacity
            <4>1. r = Result([mgr EXCEPT !.failed = "capacity"], 0)
                BY <2>1, <2>4, <3>2 DEF UniqueLookup
            <4>2. mgr' = [mgr EXCEPT !.failed = "capacity"]
                BY <1>1, <4>1 DEF Result
            <4>3. r.mgr.failed = "capacity"
                BY <4>1 DEF Result, TableInv, TableTypes
            <4>4. answer' = Full
                BY <1>1, <4>3
            <4> QED
                BY <1>3, <3>1, <3>2, <4>2, <4>4 DEF Refused
        <3>3. CASE mgr.nnodes # Capacity
            <4>1. r = Result(Added(mgr, var, high, low), mgr.nnodes)
                BY <2>1, <2>4, <3>3 DEF UniqueLookup
            <4>2. mgr' = Added(mgr, var, high, low)
                BY <1>1, <4>1 DEF Result
            <4>3. r.mgr.failed = "no"
                <5>1. r.mgr = Added(mgr, var, high, low)
                    BY <4>1 DEF Result
                <5>2. Added(mgr, var, high, low).failed = mgr.failed
                    BY <1>4, AddedFields, ZenonT(60)
                <5>3. mgr.failed = "no"
                    BY <1>1
                <5> QED
                    BY <5>1, <5>2, <5>3
            <4>4. answer' = mgr.nnodes
                BY <1>1, <4>1, <4>3 DEF Result
            <4>5. mgr.nnodes < Capacity
                BY <3>3, <1>0 DEF TableInv, TableTypes
            <4> QED
                BY <1>3, <2>4, <3>1, <4>2, <4>4, <4>5 DEF Made
        <3> QED
            BY <3>2, <3>3
    <2> QED
        BY <2>2, <2>3, <2>4
<1> QED
    BY <1>2, <1>3

-------------------------------------------------------------------------------
LEMMA TableStart == TableInit => TableInv
<1> SUFFICES ASSUME TableInit PROVE TableInv
    OBVIOUS
<1> USE SizeAssumption
<1>1. nvars \in Nat /\ Capacity \in Nat /\ nvars + 2 <= Capacity /\ Capacity > 0
    OBVIOUS
<1>2. /\ mgr.nodes = [i \in Indices |->
                          IF i < 2 THEN Node(nvars, NoIndex, NoIndex)
                          ELSE IF i < nvars + 2 THEN Node(i - 2, 1, 0)
                          ELSE Unused]
      /\ mgr.unique = [s \in Indices |-> {}]
      /\ mgr.nnodes = nvars + 2
    BY DEF TableInit, NewManager
<1>3. 0 \in Indices /\ 1 \in Indices /\ \A i \in 0..nvars + 1 : i \in Indices
    BY <1>1 DEF Indices
<1>4. mgr.nodes[0].var = nvars /\ mgr.nodes[1].var = nvars
    BY <1>2, <1>3 DEF Node
<1>5. \A i \in 2..nvars + 1 : mgr.nodes[i] = Node(i - 2, 1, 0)
    BY <1>1, <1>2, <1>3
<1>6. TableTypes
    <2>1. \A i \in Indices : mgr.nodes[i] \in [var : Int, high : Int, low : Int]
        BY <1>1, <1>2 DEF Node, Unused, NoIndex, Indices
    <2>2. mgr.nodes \in [Indices -> [var : Int, high : Int, low : Int]]
        BY <1>2, <2>1
    <2>3. mgr = [nodes |-> mgr.nodes, unique |-> mgr.unique, nnodes |-> mgr.nnodes,
                 cache |-> [s \in Indices |-> <<0, 0, 0, 0>>], failed |-> "no"]
        BY DEF TableInit, NewManager
    <2>4. [s \in Indices |-> <<0, 0, 0, 0>>] \in [Indices -> Int \X Int \X Int \X Int]
        OBVIOUS
    <2>5. mgr.unique \in [Indices -> SUBSET Indices] /\ mgr.nnodes \in nvars + 2..Capacity
        BY <1>1, <1>2
    <2>6. mgr \in [nodes : [Indices -> [var : Int, high : Int, low : Int]],
                   unique : [Indices -> SUBSET Indices],
                   nnodes : nvars + 2..Capacity,
                   cache : [Indices -> Int \X Int \X Int \X Int],
                   failed : {"no", "capacity"}]
        BY <2>2, <2>3, <2>4, <2>5
    <2>7. answer \in Indices \cup {Full}
        BY <1>3 DEF TableInit
    <2> QED
        BY <2>6, <2>7 DEF TableTypes
<1>7. GivenNodes
    <2>1. ASSUME NEW v \in Variables PROVE mgr.nodes[v + 2] = Node(v, 1, 0)
        <3>1. v + 2 \in 2..nvars + 1 /\ (v + 2) - 2 = v
            BY <1>1 DEF Variables
        <3> QED
            BY <1>5, <3>1
    <2> QED
        BY <1>4, <2>1 DEF GivenNodes
<1>8. \A i \in Live(mgr) : i > 1 => /\ mgr.nodes[i] = [var |-> i - 2, high |-> 1, low |-> 0]
                                    /\ i \in Int /\ i < nvars + 2
    BY <1>1, <1>2, <1>5 DEF Live, Node
<1>a. \A i \in Live(mgr) : i > 1 => /\ mgr.nodes[i].var = i - 2
                                    /\ mgr.nodes[i].high = 1 /\ mgr.nodes[i].low = 0
                                    /\ i \in Int /\ i - 2 < nvars /\ i >= 0
    <2> SUFFICES ASSUME NEW i \in Live(mgr), i > 1
                 PROVE  /\ mgr.nodes[i].var = i - 2
                        /\ mgr.nodes[i].high = 1 /\ mgr.nodes[i].low = 0
                        /\ i \in Int /\ i - 2 < nvars /\ i >= 0
        OBVIOUS
    <2>1. mgr.nodes[i] = [var |-> i - 2, high |-> 1, low |-> 0] /\ i \in Int /\ i < nvars + 2
        BY <1>8
    <2>2. mgr.nodes[i].var = i - 2 /\ mgr.nodes[i].high = 1 /\ mgr.nodes[i].low = 0
        BY <2>1
    <2> QED
        BY <1>1, <2>1, <2>2
<1>b. 0 \in Live(mgr) /\ 1 \in Live(mgr)
    BY <1>1, <1>2 DEF Live
<1>9. Chained
    <2>1. nvars + 2..mgr.nnodes - 1 = {}
        BY <1>1, <1>2
    <2>2. \A s \in Indices : mgr.unique[s] = {}
        BY <1>2
    <2> QED
        BY <2>1, <2>2 DEF Chained
<1>10. TableOrdered
    BY <1>1, <1>4, <1>a, <1>b DEF TableOrdered, WellOrdered, Ordered
<1>11. TableUnique
    <2>1. ASSUME NEW i \in Live(mgr), NEW j \in Live(mgr), i > 1, j > 1,
                 mgr.nodes[i] = mgr.nodes[j]
          PROVE  i = j
        <3>1. mgr.nodes[i].var = mgr.nodes[j].var
            BY <2>1
        <3>2. i - 2 = j - 2 /\ i \in Int /\ j \in Int
            BY <1>a, <2>1, <3>1
        <3> QED
            BY <3>2
    <2> QED
        BY <2>1 DEF TableUnique, Unique
<1>12. TableFindable
    BY <1>1, <1>2 DEF TableFindable, Findable, Live
<1>13. TableReduced
    BY <1>a, KindAssumption DEF TableReduced, Redundant
<1> QED
    BY <1>6, <1>7, <1>9, <1>10, <1>11, <1>12, <1>13 DEF TableInv

(* A new node is put after all others and changes none of them. *)
LEMMA MadeNode ==
    ASSUME TableInv, NEW var \in Variables, NEW high \in Indices, NEW low \in Indices,
           Made(var, high, low)
    PROVE  /\ mgr.nnodes \in Indices
           /\ mgr'.nodes[mgr.nnodes] = Node(var, high, low)
           /\ \A i \in Live(mgr) : mgr'.nodes[i] = mgr.nodes[i] /\ i # mgr.nnodes
           /\ Live(mgr') = Live(mgr) \cup {mgr.nnodes}
           /\ mgr'.nnodes = mgr.nnodes + 1
           /\ mgr'.unique = [mgr.unique EXCEPT ![Slot(var, high, low)] =
                                mgr.unique[Slot(var, high, low)] \cup {mgr.nnodes}]
<1>0. TableTypes /\ mgr.nnodes < Capacity /\ mgr' = Added(mgr, var, high, low)
    BY DEF TableInv, Made
<1>1. /\ mgr'.nodes = [mgr.nodes EXCEPT ![mgr.nnodes] = Node(var, high, low)]
      /\ mgr'.unique = [mgr.unique EXCEPT ![Slot(var, high, low)] =
                            mgr.unique[Slot(var, high, low)] \cup {mgr.nnodes}]
      /\ mgr'.nnodes = mgr.nnodes + 1
    <2>1. var \in Int /\ high \in Int /\ low \in Int
        BY <1>0, TypeFacts
    <2> QED
        BY <1>0, <2>1, AddedFields
<1>2. mgr.nnodes \in Indices /\ mgr.nodes \in [Indices -> [var : Int, high : Int, low : Int]]
    BY <1>0, TypeFacts DEF Indices
<1>3. Live(mgr') = Live(mgr) \cup {mgr.nnodes}
    <2>1. mgr.nnodes \in Int /\ mgr.nnodes >= 0
        BY <1>0, TypeFacts
    <2>2. 0..(mgr.nnodes + 1) - 1 = 0..mgr.nnodes - 1 \cup {mgr.nnodes}
        BY <2>1
    <2> QED
        BY <1>1, <2>2 DEF Live
<1>4. \A i \in Live(mgr) : i \in Indices /\ i # mgr.nnodes
    BY <1>0, TypeFacts
<1> QED
    BY <1>1, <1>2, <1>3, <1>4

-------------------------------------------------------------------------------
LEMMA MadeInv ==
    ASSUME TableInv, NEW var \in Variables, NEW high \in Indices, NEW low \in Indices,
           Create(var, high, low), Made(var, high, low)
    PROVE  TableInv'
<1> DEFINE k == mgr.nnodes
           n == Node(var, high, low)
           slot == Slot(var, high, low)
<1>0. TableTypes /\ k < Capacity
    BY DEF TableInv, Made
<1>1. /\ k \in Indices /\ mgr'.nodes[k] = n
      /\ \A i \in Live(mgr) : mgr'.nodes[i] = mgr.nodes[i] /\ i # k
      /\ Live(mgr') = Live(mgr) \cup {k}
      /\ mgr'.nnodes = k + 1
      /\ mgr'.unique = [mgr.unique EXCEPT ![slot] = mgr.unique[slot] \cup {k}]
    BY MadeNode
<1>2. /\ nvars \in Nat /\ Capacity \in Nat /\ nvars + 2 <= k /\ k \in Int
      /\ \A i : i \in Live(mgr) <=> i \in Int /\ 0 <= i /\ i < k
      /\ var \in Int /\ high \in Int /\ low \in Int
      /\ 0 \in Live(mgr) /\ 1 \in Live(mgr)
    BY <1>0, TypeFacts
<1>3. /\ Ordered(mgr, var, high, low) /\ high \in Live(mgr) /\ low \in Live(mgr)
    BY DEF Create
<1>4. n.var = var /\ n.high = high /\ n.low = low
    BY DEF Node
<1>5. slot \in Indices
    BY <1>0, SlotInRange, TypeFacts
<1>6. TableTypes'
    <2>1. /\ mgr'.nodes = [mgr.nodes EXCEPT ![k] = n]
          /\ mgr'.cache = mgr.cache /\ mgr'.failed = mgr.failed
          /\ DOMAIN mgr' = DOMAIN mgr
        BY <1>0, AddedFields, ZenonT(60) DEF Made
    <2>2. mgr'.nodes \in [Indices -> [var : Int, high : Int, low : Int]]
        <3>1. n \in [var : Int, high : Int, low : Int]
            BY <1>2 DEF Node
        <3> QED
            BY <1>0, <2>1, <3>1, TypeFacts, ZenonT(60)
    <2>3. mgr'.unique \in [Indices -> SUBSET Indices]
        BY <1>0, <1>1, <1>5, TypeFacts
    <2>4. mgr'.nnodes \in nvars + 2..Capacity
        BY <1>0, <1>1, <1>2
    <2>5. mgr'.cache \in [Indices -> Int \X Int \X Int \X Int] /\ mgr'.failed \in {"no", "capacity"}
        BY <1>0, <2>1 DEF TableTypes
    <2>6. mgr' = [nodes |-> mgr'.nodes, unique |-> mgr'.unique, nnodes |-> mgr'.nnodes,
                  cache |-> mgr'.cache, failed |-> mgr'.failed]
        BY <1>0, <2>1 DEF TableTypes, Made, Added
    <2>7. answer' \in Indices \cup {Full}
        BY <1>1 DEF Made
    <2> QED
        BY <2>2, <2>3, <2>4, <2>5, <2>6, <2>7 DEF TableTypes
<1>7. GivenNodes'
    <2>1. \A v \in Variables : v + 2 \in Live(mgr)
        BY <1>2 DEF Variables
    <2> QED
        BY <1>1, <1>2, <2>1 DEF TableInv, GivenNodes
<1>8. Chained'
    <2>1. ASSUME NEW s \in Indices, NEW q \in mgr'.unique[s]
          PROVE  q \in nvars + 2..mgr'.nnodes - 1
        <3>1. CASE q = k
            BY <1>1, <1>2, <3>1
        <3>2. CASE q # k
            <4>1. q \in mgr.unique[s]
                BY <1>0, <1>1, <1>5, <2>1, <3>2, TypeFacts
            <4>2. q \in nvars + 2..k - 1
                BY <4>1 DEF TableInv, Chained
            <4> QED
                BY <1>1, <1>2, <4>2
        <3> QED
            BY <3>1, <3>2
    <2>2. ASSUME NEW i \in nvars + 2..mgr'.nnodes - 1
          PROVE  ~(mgr'.nodes[i].high = 1 /\ mgr'.nodes[i].low = 0)
        <3>1. CASE i = k
            BY <1>1, <1>4, <3>1 DEF Made
        <3>2. CASE i # k
            <4>1. i \in nvars + 2..k - 1 /\ i \in Live(mgr)
                BY <1>1, <1>2, <2>2, <3>2
            <4> QED
                BY <1>1, <4>1 DEF TableInv, Chained
        <3> QED
            BY <3>1, <3>2
    <2> QED
        BY <2>1, <2>2 DEF Chained
<1>9. \A i \in Live(mgr') : i = k \/ i \in Live(mgr)
    BY <1>1
<1>10. TableOrdered'
    <2>1. ASSUME NEW i \in Live(mgr'), i > 1
          PROVE  /\ mgr'.nodes[i].high < i /\ mgr'.nodes[i].low < i
                 /\ mgr'.nodes[i].high \in Live(mgr) /\ mgr'.nodes[i].low \in Live(mgr)
                 /\ Ordered(mgr, mgr'.nodes[i].var, mgr'.nodes[i].high, mgr'.nodes[i].low)
        <3>1. CASE i = k
            BY <1>1, <1>2, <1>3, <1>4, <3>1
        <3>2. CASE i # k
            <4>1. i \in Live(mgr) /\ mgr'.nodes[i] = mgr.nodes[i]
                BY <1>1, <1>9, <3>2
            <4> QED
                BY <4>1, <2>1 DEF TableInv, TableOrdered, WellOrdered
        <3> QED
            BY <3>1, <3>2
    <2>2. ASSUME NEW v, NEW h \in Live(mgr), NEW l \in Live(mgr), Ordered(mgr, v, h, l)
          PROVE  Ordered(mgr', v, h, l)
        BY <1>1, <2>2 DEF Ordered
    <2>3. \A i \in Live(mgr') : i > 1 =>
            /\ mgr'.nodes[i].high < i /\ mgr'.nodes[i].low < i
            /\ mgr'.nodes[i].high \in Live(mgr') /\ mgr'.nodes[i].low \in Live(mgr')
            /\ Ordered(mgr', mgr'.nodes[i].var, mgr'.nodes[i].high, mgr'.nodes[i].low)
        BY <1>1, <2>1, <2>2
    <2> QED
        BY <2>3 DEF TableOrdered, WellOrdered
<1>11. TableUnique'
    <2>1. ASSUME NEW i \in Live(mgr), i > 1, mgr.nodes[i] = n
          PROVE  FALSE
        BY <2>1 DEF Made, Holds
    <2>2. ASSUME NEW i \in Live(mgr'), NEW j \in Live(mgr'), i > 1, j > 1,
                 mgr'.nodes[i] = mgr'.nodes[j]
          PROVE  i = j
        <3>1. CASE i = k /\ j = k
            BY <3>1
        <3>2. CASE i = k /\ j # k
            BY <1>1, <1>9, <2>1, <2>2, <3>2
        <3>3. CASE i # k /\ j = k
            BY <1>1, <1>9, <2>1, <2>2, <3>3
        <3>4. CASE i # k /\ j # k
            <4>1. i \in Live(mgr) /\ j \in Live(mgr) /\ mgr.nodes[i] = mgr.nodes[j]
                BY <1>1, <1>9, <2>2, <3>4
            <4> QED
                BY <2>2, <4>1 DEF TableInv, TableUnique, Unique
        <3> QED
            BY <3>1, <3>2, <3>3, <3>4
    <2> QED
        BY <2>2 DEF TableUnique, Unique
<1>12. TableFindable'
    <2>1. ASSUME NEW i \in Live(mgr'), i >= nvars + 2
          PROVE  i \in mgr'.unique[Slot(mgr'.nodes[i].var, mgr'.nodes[i].high, mgr'.nodes[i].low)]
        <3>1. CASE i = k
            <4>1. slot = Slot(mgr'.nodes[i].var, mgr'.nodes[i].high, mgr'.nodes[i].low)
                BY <1>1, <1>4, <3>1
            <4>2. k \in mgr'.unique[slot]
                BY <1>0, <1>1, <1>5, TypeFacts
            <4> QED
                BY <3>1, <4>1, <4>2
        <3>2. CASE i # k
            <4> DEFINE s == Slot(mgr.nodes[i].var, mgr.nodes[i].high, mgr.nodes[i].low)
            <4>1. i \in Live(mgr) /\ mgr'.nodes[i] = mgr.nodes[i]
                BY <1>1, <1>9, <3>2
            <4>2. i \in mgr.unique[s]
                BY <2>1, <4>1 DEF TableInv, TableFindable, Findable
            <4>3. s \in Indices
                <5>1. mgr.nodes[i] \in [var : Int, high : Int, low : Int]
                    BY <1>0, <4>1, TypeFacts
                <5> QED
                    BY <5>1, SlotInRange
            <4>4. mgr.unique[s] \subseteq mgr'.unique[s]
                BY <1>0, <1>1, <1>5, <4>3, TypeFacts
            <4> QED
                BY <4>1, <4>2, <4>4
        <3> QED
            BY <3>1, <3>2
    <2> QED
        BY <2>1 DEF TableFindable, Findable
<1>13. TableReduced'
    <2>1. ASSUME NEW i \in Live(mgr'), i > 1
          PROVE  ~Redundant(mgr'.nodes[i].high, mgr'.nodes[i].low)
        <3>1. CASE i = k
            BY <1>1, <1>4, <3>1 DEF Made
        <3>2. CASE i # k
            BY <1>1, <1>9, <2>1, <3>2 DEF TableInv, TableReduced
        <3> QED
            BY <3>1, <3>2
    <2> QED
        BY <2>1 DEF TableReduced
<1> QED
    BY <1>6, <1>7, <1>8, <1>10, <1>11, <1>12, <1>13 DEF TableInv

LEMMA AnsweredInv ==
    ASSUME TableInv, NEW var \in Variables, NEW high \in Indices, NEW low \in Indices,
           Create(var, high, low), Answered(var, high, low)
    PROVE  TableInv'
<1>1. mgr' = mgr
    BY DEF Answered
<1>2. answer' \in Indices
    <2>1. Live(mgr) \subseteq Indices
        BY TypeFacts DEF TableInv
    <2> QED
        BY <2>1 DEF Answered, Instead, Holds
<1>3. TableTypes'
    BY <1>1, <1>2 DEF TableInv, TableTypes
<1>4. GivenNodes' /\ Chained'
    BY <1>1 DEF TableInv, GivenNodes, Chained
<1>5. TableOrdered' /\ TableUnique' /\ TableFindable' /\ TableReduced'
    BY <1>1 DEF TableInv, TableOrdered, TableUnique, TableFindable, TableReduced
<1> QED
    BY <1>3, <1>4, <1>5 DEF TableInv

LEMMA RefusedInv ==
    ASSUME TableInv, NEW var \in Variables, NEW high \in Indices, NEW low \in Indices,
           Refused(var, high, low)
    PROVE  TableInv'
<1>1. /\ mgr'.nodes = mgr.nodes /\ mgr'.unique = mgr.unique /\ mgr'.nnodes = mgr.nnodes
    BY DEF Refused, TableInv, TableTypes
<1>2. TableTypes'
    BY DEF Refused, TableInv, TableTypes
<1>3. Live(mgr') = Live(mgr)
    BY <1>1 DEF Live
<1>4. GivenNodes' /\ Chained'
    BY <1>1 DEF TableInv, GivenNodes, Chained
<1>5. TableOrdered'
    BY <1>1, <1>3 DEF TableInv, TableOrdered, WellOrdered, Ordered
<1>6. TableUnique'
    BY <1>1, <1>3 DEF TableInv, TableUnique, Unique
<1>7. TableFindable'
    BY <1>1, <1>3 DEF TableInv, TableFindable, Findable
<1>8. TableReduced'
    BY <1>1, <1>3 DEF TableInv, TableReduced
<1> QED
    BY <1>2, <1>4, <1>5, <1>6, <1>7, <1>8 DEF TableInv

LEMMA TableStep == TableInv /\ [TableNext]_tableVars => TableInv'
<1> SUFFICES ASSUME TableInv, [TableNext]_tableVars PROVE TableInv'
    OBVIOUS
<1>1. CASE TableNext
    <2>1. PICK var \in Variables, high \in Indices, low \in Indices : Create(var, high, low)
        BY <1>1 DEF TableNext
    <2> QED
        BY <2>1, CallCases, AnsweredInv, RefusedInv, MadeInv
<1>2. CASE UNCHANGED tableVars
    <2>1. mgr' = mgr /\ answer' = answer
        BY <1>2 DEF tableVars
    <2>2. TableTypes' /\ GivenNodes' /\ Chained'
        BY <2>1 DEF TableInv, TableTypes, GivenNodes, Chained
    <2>3. TableOrdered' /\ TableUnique' /\ TableFindable' /\ TableReduced'
        BY <2>1 DEF TableInv, TableOrdered, TableUnique, TableFindable, TableReduced
    <2> QED
        BY <2>2, <2>3 DEF TableInv
<1> QED
    BY <1>1, <1>2

(* The inductive invariant holds in every execution. *)
THEOREM TableInductive == TableSpec => []TableInv
<1>1. TableInit => TableInv
    BY TableStart
<1>2. TableInv /\ [TableNext]_tableVars => TableInv'
    BY TableStep
<1> QED
    BY <1>1, <1>2, PTL DEF TableSpec

(* The tables keep their types, also when the table is full. *)
THEOREM TableTypesHold == TableSpec => []TableTypes
<1>1. TableInv => TableTypes
    BY DEF TableInv
<1> QED
    BY <1>1, TableInductive, PTL

(* Diagrams are ordered and acyclic. *)
THEOREM DiagramsAreOrdered == TableSpec => []TableOrdered
<1>1. TableInv => TableOrdered
    BY DEF TableInv
<1> QED
    BY <1>1, TableInductive, PTL

(* No node is stored twice and none that the reduction rule removes is      *)
(* stored at all: with the order, what makes diagrams canonical.            *)
THEOREM DiagramsAreReduced == TableSpec => [](TableUnique /\ TableReduced)
<1>1. TableInv => TableUnique /\ TableReduced
    BY DEF TableInv
<1> QED
    BY <1>1, TableInductive, PTL

(* Every made node stays in the chain of its hash value. *)
THEOREM NothingIsLost == TableSpec => []TableFindable
<1>1. TableInv => TableFindable
    BY DEF TableInv
<1> QED
    BY <1>1, TableInductive, PTL

(* An index never changes its node. *)
THEOREM IndicesAreFinal == TableSpec => NodesAreFinal
<1> DEFINE Kept == \A i \in Live(mgr) : i \in Live(mgr)' /\ mgr'.nodes[i] = mgr.nodes[i]
<1>1. TableInv /\ [TableNext]_tableVars => [Kept]_tableVars
    <2> SUFFICES ASSUME TableInv, TableNext PROVE Kept
        OBVIOUS
    <2>1. PICK var \in Variables, high \in Indices, low \in Indices : Create(var, high, low)
        BY DEF TableNext
    <2>2. CASE Answered(var, high, low)
        BY <2>2 DEF Answered
    <2>3. CASE Refused(var, high, low)
        <3>1. mgr'.nodes = mgr.nodes /\ mgr'.nnodes = mgr.nnodes
            BY <2>3 DEF Refused, TableInv, TableTypes
        <3> QED
            BY <3>1 DEF Live
    <2>4. CASE Made(var, high, low)
        BY <2>4, MadeNode
    <2> QED
        BY <2>1, <2>2, <2>3, <2>4, CallCases
<1>2. TableSpec => [][Kept]_tableVars
    BY <1>1, TableInductive, PTL DEF TableSpec
<1> QED
    BY <1>2 DEF NodesAreFinal

-------------------------------------------------------------------------------
(* The store with its hash chains answers as the one without: a call that   *)
(* searches one chain finds a node if and only if it is stored anywhere.    *)
THEOREM TableInterns == TableSpec => InternsNodes
<1> DEFINE shown == [i \in 2..mgr.nnodes - 1 |-> mgr.nodes[i]]
<1>0. nvars \in Nat /\ Capacity \in Nat /\ nvars + 2 <= Capacity
    BY SizeAssumption
<1>1. TableInit => Interning!Init
    <2> SUFFICES ASSUME TableInit PROVE Interning!Init
        OBVIOUS
    <2>1. mgr.nnodes = nvars + 2 /\ answer = 0
        BY DEF TableInit, NewManager
    <2>2. \A i \in 2..nvars + 1 : mgr.nodes[i] = Node(i - 2, 1, 0)
        BY <1>0 DEF TableInit, NewManager, Indices
    <2>3. 2..mgr.nnodes - 1 = 2..nvars + 1
        BY <1>0, <2>1
    <2>4. shown = [i \in 2..nvars + 1 |-> Node(i - 2, 1, 0)]
        BY <2>2, <2>3
    <2> QED
        BY <2>1, <2>4 DEF Interning!Init
<1>2. TableInv /\ [TableNext]_tableVars => [Interning!Next]_Interning!ivars
    <2> SUFFICES ASSUME TableInv, [TableNext]_tableVars
                 PROVE  [Interning!Next]_Interning!ivars
        OBVIOUS
    <2>1. CASE UNCHANGED tableVars
        BY <2>1 DEF tableVars, Interning!ivars
    <2>2. CASE TableNext
        <3>1. PICK var \in Variables, high \in Indices, low \in Indices : Create(var, high, low)
            BY <2>2 DEF TableNext
        <3> DEFINE n == [var |-> var, high |-> high, low |-> low]
        <3>2. var \in 0..Capacity - 1 /\ high \in 0..Capacity - 1 /\ low \in 0..Capacity - 1
            BY <1>0 DEF Variables, Indices
        <3>3. TableTypes /\ n = Node(var, high, low)
            BY DEF TableInv, Node
        <3>4. DOMAIN shown = 2..mgr.nnodes - 1
            OBVIOUS
        <3>5. \A i : i \in 2..mgr.nnodes - 1 <=> i > 1 /\ i \in Live(mgr)
            BY <3>3, TypeFacts
        <3>6. CASE Answered(var, high, low)
            <4>1. shown' = shown
                BY <3>6 DEF Answered
            <4>2. Redundant(high, low) => Interning!Reduce(high, low)
                BY <3>6, <4>1 DEF Answered, Holds, Interning!Reduce
            <4>3. ~Redundant(high, low) => Interning!Find(n)
                <5> SUFFICES ASSUME ~Redundant(high, low) PROVE Interning!Find(n)
                    OBVIOUS
                <5>1. answer' \in 2..mgr.nnodes - 1 /\ mgr.nodes[answer'] = n
                    BY <3>3, <3>5, <3>6 DEF Answered, Holds
                <5> QED
                    BY <3>4, <4>1, <5>1 DEF Interning!Find
            <4> QED
                BY <3>2, <4>2, <4>3 DEF Interning!Next
        <3>7. ASSUME \A i \in Live(mgr) : ~Holds(i, var, high, low)
              PROVE  \A i \in DOMAIN shown : shown[i] # n
            BY <3>3, <3>4, <3>5, <3>7 DEF Holds
        <3>8. CASE Refused(var, high, low)
            <4>1. shown' = shown
                BY <3>8 DEF Refused, TableInv, TableTypes
            <4>2. 2..Capacity - 1 \subseteq DOMAIN shown
                BY <3>4, <3>8 DEF Refused
            <4>3. Interning!Refuse(n)
                BY <3>7, <3>8, <4>1, <4>2 DEF Refused, Interning!Refuse, Full, Interning!Full, NoIndex
            <4> QED
                BY <3>2, <3>8, <4>3 DEF Refused, Interning!Next
        <3>9. CASE Made(var, high, low)
            <4> DEFINE k == mgr.nnodes
            <4>1. /\ k \in Indices /\ mgr'.nodes[k] = n /\ mgr'.nnodes = k + 1
                  /\ \A i \in Live(mgr) : mgr'.nodes[i] = mgr.nodes[i] /\ i # k
                <5>1. /\ k \in Indices
                      /\ mgr'.nodes[k] = Node(var, high, low)
                      /\ \A i \in Live(mgr) : mgr'.nodes[i] = mgr.nodes[i] /\ i # k
                      /\ Live(mgr') = Live(mgr) \cup {k}
                      /\ mgr'.nnodes = k + 1
                      /\ mgr'.unique = [mgr.unique EXCEPT ![Slot(var, high, low)] =
                                            mgr.unique[Slot(var, high, low)] \cup {k}]
                    BY <3>9, MadeNode
                <5> QED
                    BY <3>3, <5>1
            <4>2. k \in Int /\ k >= 2
                BY <1>0, <3>3, TypeFacts
            <4>3. 2..mgr'.nnodes - 1 = 2..k - 1 \cup {k}
                BY <4>1, <4>2
            <4>4. shown' = [j \in DOMAIN shown \cup {k} |-> IF j = k THEN n ELSE shown[j]]
                BY <3>4, <3>5, <4>1, <4>3
            <4>5. k \in 2..Capacity - 1 \ DOMAIN shown
                BY <3>4, <4>1, <4>2 DEF Indices
            <4>6. Interning!Make(n)
                BY <3>7, <3>9, <4>4, <4>5 DEF Made, Interning!Make
            <4> QED
                BY <3>2, <3>9, <4>6 DEF Made, Interning!Next
        <3> QED
            BY <3>1, <3>6, <3>8, <3>9, CallCases
    <2> QED
        BY <2>1, <2>2
<1> QED
    BY <1>1, <1>2, TableInductive, PTL DEF TableSpec, InternsNodes, Interning!ISpec
-------------------------------------------------------------------------------
(* Diagrams are canonical. *)
(* Every node tests a variable. *)
NodesTest == \A i \in Live(mgr) : i > 1 => mgr.nodes[i].var \in Variables

CInv == TableInv /\ NodesTest

LEMMA InitCInv == TableInit => CInv
<1> SUFFICES ASSUME TableInit PROVE CInv
    OBVIOUS
<1>1. TableInv
    BY TableStart
<1>2. nvars \in Nat /\ Capacity \in Nat /\ nvars + 2 <= Capacity
    BY SizeAssumption
<1>3. mgr.nnodes = nvars + 2
    BY DEF TableInit, NewManager
<1>4. ASSUME NEW i \in Live(mgr), i > 1
      PROVE  mgr.nodes[i].var \in Variables
    <2>1. i \in Int /\ i < nvars + 2 /\ i - 2 \in Variables /\ (i - 2) + 2 = i
        BY <1>2, <1>3, <1>4 DEF Live, Variables
    <2>2. mgr.nodes[(i - 2) + 2] = Node(i - 2, 1, 0)
        BY <1>1, <2>1 DEF TableInv, GivenNodes
    <2> QED
        BY <2>1, <2>2 DEF Node
<1> QED
    BY <1>1, <1>4 DEF CInv, NodesTest

LEMMA StepCInv == CInv /\ [TableNext]_tableVars => CInv'
<1> SUFFICES ASSUME CInv, [TableNext]_tableVars PROVE CInv'
    OBVIOUS
<1>3. TableInv
    BY DEF CInv
<1>0. TableInv /\ TableInv'
    BY TableStep DEF CInv
<1>1. CASE UNCHANGED tableVars
    BY <1>0, <1>1 DEF CInv, NodesTest, tableVars
<1>2. CASE TableNext
    <2>1. PICK var \in Variables, high \in Indices, low \in Indices : Create(var, high, low)
        BY <1>2 DEF TableNext
    <2>2. CASE Answered(var, high, low)
        BY <1>0, <2>2 DEF CInv, NodesTest, Answered
    <2>3. CASE Refused(var, high, low)
        <3>1. mgr'.nodes = mgr.nodes /\ mgr'.nnodes = mgr.nnodes
            BY <1>0, <2>3 DEF Refused, TableInv, TableTypes
        <3> QED
            BY <1>0, <3>1 DEF CInv, NodesTest, Live
    <2>4. CASE Made(var, high, low)
        <3>1. /\ mgr'.nodes[mgr.nnodes] = Node(var, high, low)
              /\ \A i \in Live(mgr) : mgr'.nodes[i] = mgr.nodes[i]
              /\ Live(mgr') = Live(mgr) \cup {mgr.nnodes}
            <4>1. /\ mgr.nnodes \in Indices
                  /\ mgr'.nodes[mgr.nnodes] = Node(var, high, low)
                  /\ \A i \in Live(mgr) : mgr'.nodes[i] = mgr.nodes[i] /\ i # mgr.nnodes
                  /\ Live(mgr') = Live(mgr) \cup {mgr.nnodes}
                  /\ mgr'.nnodes = mgr.nnodes + 1
                  /\ mgr'.unique = [mgr.unique EXCEPT ![Slot(var, high, low)] =
                                        mgr.unique[Slot(var, high, low)] \cup {mgr.nnodes}]
                BY <1>3, <2>4, MadeNode
            <4> QED
                BY <4>1
        <3>2. Node(var, high, low).var = var
            BY DEF Node
        <3>3. NodesTest'
            BY <3>1, <3>2 DEF CInv, NodesTest
        <3> QED
            BY <1>0, <3>3 DEF CInv
    <2> QED
        BY <1>0, <2>1, <2>2, <2>3, <2>4, CallCases
<1> QED
    BY <1>1, <1>2

Given(i, a) == i = 1 /\ (Kind = "bdd" \/ a = {})

(* The equation that Meanings solves, for one assignment at a time.           *)
Means(f) ==
    /\ f \in [Live(mgr) -> SUBSET (SUBSET Variables)]
    /\ \A i \in Live(mgr), a \in SUBSET Variables :
            a \in f[i] <=>
                \/ Given(i, a)
                \/ /\ i > 1
                   /\ IF mgr.nodes[i].var \in a
                      THEN a \ {mgr.nodes[i].var} \in f[mgr.nodes[i].high]
                      ELSE a \in f[mgr.nodes[i].low]

LEMMA NodeFacts ==
    ASSUME CInv, NEW i \in Live(mgr), i > 1
    PROVE  /\ mgr.nodes[i].var \in Variables /\ mgr.nodes[i].var \in Int
           /\ mgr.nodes[i].high \in Live(mgr) /\ mgr.nodes[i].low \in Live(mgr)
           /\ mgr.nodes[i].high < i /\ mgr.nodes[i].low < i
           /\ mgr.nodes[i].var < mgr.nodes[mgr.nodes[i].high].var
           /\ mgr.nodes[i].var < mgr.nodes[mgr.nodes[i].low].var
<1>1. /\ mgr.nodes[i].high < i /\ mgr.nodes[i].low < i
      /\ mgr.nodes[i].high \in Live(mgr) /\ mgr.nodes[i].low \in Live(mgr)
      /\ Ordered(mgr, mgr.nodes[i].var, mgr.nodes[i].high, mgr.nodes[i].low)
    BY DEF CInv, TableInv, TableOrdered, WellOrdered
<1>2. mgr.nodes[i].var \in Int
    BY TypeFacts DEF CInv, TableInv
<1>3. mgr.nodes[i].var \in Variables
    BY DEF CInv, NodesTest
<1> QED
    BY <1>1, <1>2, <1>3 DEF Ordered

(* The pairs of a node and an assignment that every set closed under the       *)
(* equation has are a solution.                                             *)
LEMMA MeaningsMean ==
    ASSUME CInv
    PROVE  Means(Meanings(mgr))
<1> DEFINE N == Live(mgr)
           A == SUBSET Variables
           var(i) == mgr.nodes[i].var
           high(i) == mgr.nodes[i].high
           low(i) == mgr.nodes[i].low
           Reads(S, i, a) ==
                \/ Given(i, a)
                \/ i > 1 /\ IF var(i) \in a THEN <<high(i), a \ {var(i)}>> \in S ELSE <<low(i), a>> \in S
           Closed(S) == \A i \in N, a \in A : Reads(S, i, a) => <<i, a>> \in S
           K == {p \in N \X A : \A S \in SUBSET (N \X A) : Closed(S) => p \in S}
           f == [i \in N |-> {a \in A : <<i, a>> \in K}]
           Body(g, i) ==
                IF i = 0 THEN {}
                ELSE IF i = 1 THEN IF Kind = "bdd" THEN SUBSET Variables ELSE {{}}
                ELSE {a \in SUBSET Variables :
                        IF mgr.nodes[i].var \in a THEN a \ {mgr.nodes[i].var} \in g[mgr.nodes[i].high]
                        ELSE a \in g[mgr.nodes[i].low]}
           Is(g) == g = [i \in N |-> Body(g, i)]
<1>1. \A S, T, i, a : S \subseteq T /\ Reads(S, i, a) => Reads(T, i, a)
    OBVIOUS
<1>2. \A S \in SUBSET (N \X A) : Closed(S) => K \subseteq S
    OBVIOUS
<1>3. Closed(K)
    <2> SUFFICES ASSUME NEW i \in N, NEW a \in A, Reads(K, i, a),
                        NEW S \in SUBSET (N \X A), Closed(S)
                 PROVE  <<i, a>> \in S
        OBVIOUS
    <2>1. K \subseteq S
        BY <1>2, SMTT(40)
    <2> HIDE DEF K
    <2>2. Reads(S, i, a)
        BY <1>1, <2>1
    <2> HIDE DEF Reads
    <2> QED
        BY <2>2
<1>4. \A i \in N, a \in A : <<i, a>> \in K => Reads(K, i, a)
    <2> SUFFICES ASSUME NEW i \in N, NEW a \in A, <<i, a>> \in K, ~Reads(K, i, a) PROVE FALSE
        OBVIOUS
    <2> DEFINE S == K \ {<<i, a>>}
    <2>1. S \in SUBSET (N \X A) /\ S \subseteq K /\ <<i, a>> \notin S
        OBVIOUS
    <2>2. Closed(S)
        <3> SUFFICES ASSUME NEW j \in N, NEW b \in A, Reads(S, j, b) PROVE <<j, b>> \in S
            OBVIOUS
        <3>1. Reads(K, j, b)
            <4> HIDE DEF K
            <4> QED
                BY <1>1
        <3>2. <<j, b>> \in K /\ <<j, b>> # <<i, a>>
            <4> HIDE DEF Reads, K
            <4> QED
                BY <1>3, <3>1
        <3> QED
            BY <3>2
    <2>3. K \subseteq S
        <3> HIDE DEF Closed, K
        <3> QED
            BY <1>2, <2>1, <2>2
    <2> QED
        BY <2>1, <2>3
<1> HIDE DEF K
<1>5. ASSUME NEW i \in N
      PROVE  f[i] = Body(f, i)
    <2>1. \A a \in A : a \in f[i] <=> Reads(K, i, a)
        <3> HIDE DEF Reads
        <3> QED
            BY <1>3, <1>4
    <2>2. CASE i = 0
        BY <2>1, <2>2 DEF Given
    <2>3. CASE i = 1
        BY <2>1, <2>3, KindAssumption DEF Given
    <2>4. CASE i > 1
        <3>1. high(i) \in N /\ low(i) \in N
            BY <2>4, NodeFacts
        <3>2. \A a \in A : a \in f[i] <=> IF var(i) \in a THEN a \ {var(i)} \in f[high(i)] ELSE a \in f[low(i)]
            BY <2>1, <2>4, <3>1 DEF Given
        <3> QED
            BY <2>4, <3>2, SMTT(40)
    <2> QED
        BY <2>2, <2>3, <2>4 DEF Live
<1>6. Is(f)
    <2> HIDE DEF Body
    <2> QED
        BY <1>5
<1> DEFINE g == CHOOSE h : Is(h)
<1>7. Is(g)
    <2> HIDE DEF Is, f
    <2> QED
        BY <1>6
<1>8. Meanings(mgr) = g
    BY DEF Meanings
<1> HIDE DEF g
<1>9. ASSUME NEW i \in N
      PROVE  /\ g[i] \in SUBSET A
             /\ \A a \in A : a \in g[i] <=>
                    \/ Given(i, a)
                    \/ i > 1 /\ IF var(i) \in a THEN a \ {var(i)} \in g[high(i)] ELSE a \in g[low(i)]
    <2>1. g[i] = Body(g, i)
        <3> HIDE DEF Body
        <3> QED
            BY <1>7
    <2>2. CASE i = 0
        BY <2>1, <2>2 DEF Given
    <2>3. CASE i = 1
        BY <2>1, <2>3, KindAssumption DEF Given
    <2>4. CASE i > 1
        BY <2>1, <2>4 DEF Given
    <2>5. i = 0 \/ i = 1 \/ i > 1
        <3>1. i \in Int /\ 0 <= i
            BY <1>9, TypeFacts DEF CInv, TableInv
        <3> QED
            BY <3>1
    <2> QED
        BY <2>2, <2>3, <2>4, <2>5
<1>10. DOMAIN g = N
    <2> HIDE DEF Body
    <2> QED
        BY <1>7
<1>11. g \in [N -> SUBSET A]
    <2>1. g = [i \in N |-> g[i]]
        <3> HIDE DEF Body
        <3> QED
            BY <1>7, <1>10
    <2> QED
        BY <1>9, <2>1
<1> QED
    BY <1>8, <1>9, <1>11 DEF Means

(* A variable that is not read: free in a BDD, absent from a ZDD.             *)
Above(S, v) ==
    /\ Kind = "bdd" => \A a \in SUBSET Variables : a \ {v} \in S <=> a \in S
    /\ Kind = "zdd" => \A a \in S : v \notin a

LEMMA MeaningAbove ==
    ASSUME CInv, NEW f, Means(f), NEW v \in Variables
    PROVE  \A i \in Live(mgr) : v < mgr.nodes[i].var => Above(f[i], v)
<1> DEFINE T == {i \in Live(mgr) : v < mgr.nodes[i].var /\ ~Above(f[i], v)}
<1> SUFFICES ASSUME T # {} PROVE FALSE
    OBVIOUS
<1>1. T \subseteq Nat
    BY DEF Live
<1>2. PICK i \in T : \A j \in T : i <= j
    BY <1>1, Least, Zenon
<1>3. /\ i \in Live(mgr) /\ v < mgr.nodes[i].var /\ i \in Nat
      /\ f[i] \in SUBSET (SUBSET Variables)
      /\ \A a \in SUBSET Variables : a \in f[i] <=>
                \/ Given(i, a)
                \/ i > 1 /\ IF mgr.nodes[i].var \in a THEN a \ {mgr.nodes[i].var} \in f[mgr.nodes[i].high]
                            ELSE a \in f[mgr.nodes[i].low]
    BY <1>1 DEF Means
<1>4. CASE i <= 1
    <2>0. ~(i > 1)
        BY <1>3, <1>4
    <2>1. \A a \in SUBSET Variables : a \in f[i] <=> Given(i, a)
        BY <1>3, <2>0
    <2>2. \A a \in SUBSET Variables : a \ {v} \in SUBSET Variables
        OBVIOUS
    <2>3. Kind = "bdd" => \A a \in SUBSET Variables : a \ {v} \in f[i] <=> a \in f[i]
        BY <2>1, <2>2 DEF Given
    <2>4. Kind = "zdd" => \A a \in f[i] : v \notin a
        BY <1>3, <2>1 DEF Given
    <2>5. Above(f[i], v)
        BY <2>3, <2>4 DEF Above
    <2> QED
        BY <2>5
<1>5. CASE i > 1
    <2> DEFINE w == mgr.nodes[i].var
               h == mgr.nodes[i].high
               l == mgr.nodes[i].low
    <2>1. /\ w \in Int /\ v \in Int /\ v # w /\ h \in Live(mgr) /\ l \in Live(mgr) /\ h < i /\ l < i
          /\ v < mgr.nodes[h].var /\ v < mgr.nodes[l].var
        <3>1. /\ w \in Int /\ v \in Int /\ w < mgr.nodes[h].var /\ w < mgr.nodes[l].var
              /\ h \in Live(mgr) /\ l \in Live(mgr) /\ h < i /\ l < i
            BY <1>3, <1>5, NodeFacts DEF Variables
        <3>2. mgr.nodes[h].var \in Int /\ mgr.nodes[l].var \in Int
            BY <3>1, TypeFacts DEF CInv, TableInv
        <3> HIDE DEF w, h, l
        <3>3. v < w
            BY <1>3 DEF w
        <3> QED
            BY <3>1, <3>2, <3>3
    <2>2. h \notin T /\ l \notin T
        BY <1>1, <1>2, <2>1 DEF Live
    <2>3. Above(f[h], v) /\ Above(f[l], v)
        BY <2>1, <2>2
    <2>4. \A a \in SUBSET Variables : a \in f[i] <=> IF w \in a THEN a \ {w} \in f[h] ELSE a \in f[l]
        <3>1. \A a : ~Given(i, a)
            BY <1>3, <1>5 DEF Given
        <3> QED
            BY <1>3, <1>5, <3>1
    <2> HIDE DEF w, h, l
    <2>5. ASSUME Kind = "bdd", NEW a \in SUBSET Variables
          PROVE  a \ {v} \in f[i] <=> a \in f[i]
        <3>1. a \ {v} \in SUBSET Variables /\ a \ {w} \in SUBSET Variables /\ (a \ {v}) \ {w} = (a \ {w}) \ {v}
            OBVIOUS
        <3>2. (w \in a \ {v}) <=> w \in a
            BY <2>1
        <3> QED
            BY <2>3, <2>4, <2>5, <3>1, <3>2 DEF Above
    <2>6. ASSUME Kind = "zdd", NEW a \in f[i]
          PROVE  v \notin a
        <3>1. a \in SUBSET Variables
            BY <1>3
        <3>2. CASE w \in a
            <4>1. a \ {w} \in f[h]
                BY <2>4, <3>1, <3>2
            <4>2. v \notin a \ {w}
                BY <2>3, <2>6, <4>1 DEF Above
            <4> QED
                BY <2>1, <4>2
        <3>3. CASE w \notin a
            <4>1. a \in f[l]
                BY <2>4, <3>1, <3>3
            <4> QED
                BY <2>3, <2>6, <4>1 DEF Above
        <3> QED
            BY <3>2, <3>3
    <2>7. Above(f[i], v)
        BY <2>5, <2>6 DEF Above
    <2> QED
        BY <2>7
<1> QED
    BY <1>3, <1>4, <1>5

(* Two meanings that do not read a variable and agree without it are equal.    *)
LEMMA SameWithout ==
    ASSUME NEW S \in SUBSET (SUBSET Variables), NEW T \in SUBSET (SUBSET Variables), NEW v,
           Above(S, v), Above(T, v), \A a \in SUBSET Variables : v \notin a => (a \in S <=> a \in T)
    PROVE  S = T
<1>1. CASE Kind = "bdd"
    <2> SUFFICES ASSUME NEW a \in SUBSET Variables PROVE a \in S <=> a \in T
        OBVIOUS
    <2>1. a \ {v} \in SUBSET Variables /\ v \notin a \ {v}
        OBVIOUS
    <2> QED
        BY <1>1, <2>1 DEF Above
<1>2. CASE Kind = "zdd"
    BY <1>2 DEF Above
<1> QED
    BY <1>1, <1>2, KindAssumption

(* The meanings of the children, from that of the node.                       *)
LEMMA Cofactors ==
    ASSUME CInv, NEW f, Means(f), NEW i \in Live(mgr), i > 1
    PROVE  LET v == mgr.nodes[i].var
               h == mgr.nodes[i].high
               l == mgr.nodes[i].low
           IN  /\ f[i] \in SUBSET (SUBSET Variables)
               /\ f[h] \in SUBSET (SUBSET Variables) /\ Above(f[h], v)
               /\ f[l] \in SUBSET (SUBSET Variables) /\ Above(f[l], v)
               /\ \A a \in SUBSET Variables : v \notin a => /\ (a \in f[h] <=> a \cup {v} \in f[i])
                                                            /\ (a \in f[l] <=> a \in f[i])
<1> DEFINE v == mgr.nodes[i].var
           h == mgr.nodes[i].high
           l == mgr.nodes[i].low
<1>1. /\ v \in Variables /\ h \in Live(mgr) /\ l \in Live(mgr)
      /\ v < mgr.nodes[h].var /\ v < mgr.nodes[l].var
    BY NodeFacts
<1>2. Above(f[h], v) /\ Above(f[l], v)
    <2> HIDE DEF v, h, l
    <2> QED
        BY <1>1, MeaningAbove
<1>3. f[i] \in SUBSET (SUBSET Variables) /\ f[h] \in SUBSET (SUBSET Variables) /\ f[l] \in SUBSET (SUBSET Variables)
    BY <1>1 DEF Means
<1>4. \A a \in SUBSET Variables : a \in f[i] <=> IF v \in a THEN a \ {v} \in f[h] ELSE a \in f[l]
    <2>1. \A a : ~Given(i, a)
        BY DEF Given
    <2> QED
        BY <2>1 DEF Means
<1> HIDE DEF v, h, l
<1>5. ASSUME NEW a \in SUBSET Variables, v \notin a
      PROVE  (a \in f[h] <=> a \cup {v} \in f[i]) /\ (a \in f[l] <=> a \in f[i])
    <2>1. a \cup {v} \in SUBSET Variables /\ (a \cup {v}) \ {v} = a
        BY <1>1, <1>5
    <2> QED
        BY <1>4, <1>5, <2>1
<1> QED
    BY <1>2, <1>3, <1>5 DEF v, h, l

(* A node whose variable its meaning does not read would be redundant.         *)
LEMMA VariableIsRead ==
    ASSUME CInv, NEW f, Means(f), NEW i \in Live(mgr), i > 1,
           \A p, q \in Live(mgr) : p < i /\ q < i /\ f[p] = f[q] => p = q
    PROVE  ~Above(f[i], mgr.nodes[i].var)
<1> DEFINE v == mgr.nodes[i].var
           h == mgr.nodes[i].high
           l == mgr.nodes[i].low
<1>1. /\ v \in Variables /\ h \in Live(mgr) /\ l \in Live(mgr) /\ h < i /\ l < i /\ 0 \in Live(mgr) /\ 0 < i
    <2>1. 0 \in Live(mgr)
        BY TypeFacts DEF CInv, TableInv
    <2>2. 0 < i
        BY TypeFacts DEF CInv, TableInv
    <2> QED
        BY <2>1, <2>2, NodeFacts
<1>2. /\ f[i] \in SUBSET (SUBSET Variables)
      /\ f[h] \in SUBSET (SUBSET Variables) /\ Above(f[h], v)
      /\ f[l] \in SUBSET (SUBSET Variables) /\ Above(f[l], v)
      /\ \A a \in SUBSET Variables : v \notin a => /\ (a \in f[h] <=> a \cup {v} \in f[i])
                                                   /\ (a \in f[l] <=> a \in f[i])
    BY Cofactors
<1>3. ~Redundant(h, l)
    BY DEF CInv, TableInv, TableReduced
<1>4. f[0] = {}
    <2>1. f[0] \in SUBSET (SUBSET Variables) /\ \A a \in SUBSET Variables : ~Given(0, a)
        BY <1>1 DEF Means, Given
    <2>2. \A a \in SUBSET Variables : a \notin f[0]
        <3>1. ~(0 > 1)
            OBVIOUS
        <3>2. \A a \in SUBSET Variables : a \in f[0] => Given(0, a) \/ 0 > 1
            BY <1>1 DEF Means
        <3> QED
            BY <2>1, <3>1, <3>2
    <2> QED
        BY <2>1, <2>2
<1> HIDE DEF v, h, l
<1> SUFFICES ASSUME Above(f[i], v) PROVE FALSE
    BY DEF v
<1>5. CASE Kind = "bdd"
    <2>1. ASSUME NEW a \in SUBSET Variables, v \notin a
          PROVE  a \in f[h] <=> a \in f[l]
        <3>1. a \cup {v} \in SUBSET Variables /\ (a \cup {v}) \ {v} = a
            BY <1>1, <2>1
        <3> QED
            BY <1>2, <1>5, <2>1, <3>1 DEF Above
    <2>2. f[h] = f[l]
        BY <1>2, <2>1, SameWithout
    <2> QED
        BY <1>1, <1>3, <1>5, <2>2 DEF Redundant
<1>6. CASE Kind = "zdd"
    <2>1. ASSUME NEW a \in f[h]
          PROVE  FALSE
        <3>1. a \in SUBSET Variables /\ v \notin a
            BY <1>2, <1>6 DEF Above
        <3>2. a \cup {v} \in f[i] /\ v \in a \cup {v}
            BY <1>2, <3>1
        <3> QED
            BY <1>6, <3>2 DEF Above
    <2>2. f[h] = f[0]
        BY <1>4, <2>1
    <2> QED
        BY <1>1, <1>3, <1>6, <2>2 DEF Redundant
<1> QED
    BY <1>5, <1>6, KindAssumption

LEMMA EqualMeanings ==
    ASSUME CInv, NEW f, Means(f)
    PROVE  \A p, q \in Live(mgr) : f[p] = f[q] => p = q
<1> DEFINE T == {n \in Live(mgr) : \E m \in Live(mgr) : m < n /\ f[m] = f[n]}
<1>0. Live(mgr) \subseteq Nat
    BY DEF Live
<1> SUFFICES ASSUME T # {} PROVE FALSE
    BY <1>0
<1>1. PICK n \in T : \A j \in T : n <= j
    <2>1. T \subseteq Nat
        BY <1>0
    <2> QED
        BY <2>1, Least, Zenon
<1>2. PICK m \in Live(mgr) : m < n /\ f[m] = f[n]
    OBVIOUS
<1>3. n \in Nat /\ m \in Nat /\ n \in Live(mgr)
    BY <1>0
<1>4. \A p, q \in Live(mgr) : p < n /\ q < n /\ f[p] = f[q] => p = q
    BY <1>0, <1>1
<1> HIDE DEF T
<1>5. n > 1
    <2> SUFFICES ASSUME n = 1, m = 0 PROVE FALSE
        BY <1>2, <1>3
    <2>1. {} \in SUBSET Variables /\ Given(n, {}) /\ ~Given(m, {}) /\ ~(m > 1)
        BY DEF Given
    <2>2. {} \in f[n] /\ {} \notin f[m]
        BY <1>2, <1>3, <2>1 DEF Means
    <2> QED
        BY <1>2, <2>2
<1> DEFINE v == mgr.nodes[n].var
           w == mgr.nodes[m].var
<1>6. v \in Variables /\ v \in Int /\ w \in Int /\ v < nvars /\ nvars \in Int
    <2>1. v \in Variables /\ v \in Int
        BY <1>3, <1>5, NodeFacts
    <2>2. w \in Int /\ nvars \in Int
        BY TypeFacts DEF CInv, TableInv
    <2> QED
        BY <2>1, <2>2 DEF Variables
<1>7. m <= 1 => w = nvars
    BY <1>3 DEF CInv, TableInv, GivenNodes
<1>8. CASE v < w
    BY <1>2, <1>3, <1>4, <1>5, <1>6, <1>8, MeaningAbove, VariableIsRead
<1>9. CASE w < v
    <2>1. m > 1
        BY <1>3, <1>6, <1>7, <1>9
    <2>2. w \in Variables
        BY <2>1, NodeFacts
    <2>3. Above(f[m], w)
        BY <1>2, <1>3, <1>9, <2>2, MeaningAbove
    <2>4. \A p, q \in Live(mgr) : p < m /\ q < m /\ f[p] = f[q] => p = q
        BY <1>0, <1>2, <1>3, <1>4
    <2> QED
        BY <2>1, <2>3, <2>4, VariableIsRead
<1>10. CASE v = w
    <2>1. m > 1
        BY <1>3, <1>6, <1>7, <1>10
    <2> DEFINE h == mgr.nodes[n].high
               l == mgr.nodes[n].low
               hh == mgr.nodes[m].high
               ll == mgr.nodes[m].low
    <2>2. /\ f[h] \in SUBSET (SUBSET Variables) /\ Above(f[h], v)
          /\ f[l] \in SUBSET (SUBSET Variables) /\ Above(f[l], v)
          /\ \A a \in SUBSET Variables : v \notin a => /\ (a \in f[h] <=> a \cup {v} \in f[n])
                                                       /\ (a \in f[l] <=> a \in f[n])
        BY <1>3, <1>5, Cofactors
    <2>3. /\ f[hh] \in SUBSET (SUBSET Variables) /\ Above(f[hh], w)
          /\ f[ll] \in SUBSET (SUBSET Variables) /\ Above(f[ll], w)
          /\ \A a \in SUBSET Variables : w \notin a => /\ (a \in f[hh] <=> a \cup {w} \in f[m])
                                                       /\ (a \in f[ll] <=> a \in f[m])
        BY <2>1, Cofactors
    <2>4. /\ h \in Live(mgr) /\ h < n /\ l \in Live(mgr) /\ l < n
          /\ hh \in Live(mgr) /\ hh < m /\ ll \in Live(mgr) /\ ll < m
        BY <1>3, <1>5, <2>1, NodeFacts
    <2>5. mgr.nodes[n] = Node(v, h, l) /\ mgr.nodes[m] = Node(w, hh, ll)
        BY <1>3, TypeFacts DEF CInv, TableInv, Node
    <2> HIDE DEF h, l, hh, ll, v, w
    <2>6. f[h] = f[hh] /\ f[l] = f[ll]
        BY <1>2, <1>10, <2>2, <2>3, SameWithout
    <2>7. h = hh /\ l = ll
        BY <1>0, <1>2, <1>3, <1>4, <2>4, <2>6
    <2> QED
        BY <1>2, <1>3, <1>5, <1>10, <2>1, <2>5, <2>7 DEF CInv, TableInv, TableUnique, Unique
<1> QED
    BY <1>6, <1>8, <1>9, <1>10

(* Two indices have the same meaning, as functions of a BDD or as families of  *)
(* a ZDD, only if they are the same: what the packages compare is equality.    *)
THEOREM TableIsCanonical == TableSpec => []TableCanonical
<1>1. CInv => TableCanonical
    BY MeaningsMean, EqualMeanings DEF TableCanonical
<1> QED
    BY <1>1, InitCInv, StepCInv, PTL DEF TableSpec

-------------------------------------------------------------------------------
(* The containers. *)

IndInv == TypeOK /\ PositionsInvert /\ SizesNest

-------------------------------------------------------------------------------
LEMMA InitInv == Init => IndInv
<1> SUFFICES ASSUME Init PROVE IndInv
    OBVIOUS
<1>1. values = <<>> /\ state_stack = <<>> /\ real_size = 0 /\ positions = [x \in Elements |-> 0]
    BY DEF Init
<1>2. TypeOK
    BY <1>1 DEF TypeOK
<1>3. PositionsInvert /\ SizesNest
    BY <1>1 DEF PositionsInvert, SizesNest
<1> QED
    BY <1>2, <1>3 DEF IndInv

LEMMA StackEntries ==
    ASSUME TypeOK
    PROVE  /\ Len(state_stack) \in Nat /\ DOMAIN state_stack = 1..Len(state_stack)
           /\ Len(values) \in Nat
           /\ \A e \in DOMAIN state_stack :
                /\ state_stack[e] \in [size : 0..Len(values), n : Nat \ {0}]
                /\ state_stack[e].size \in Int /\ 0 <= state_stack[e].size
                /\ state_stack[e].size <= Len(values)
                /\ state_stack[e].n \in Nat /\ state_stack[e].n >= 1
<1>1. state_stack \in Seq([size : 0..Len(values), n : Nat \ {0}])
    BY DEF TypeOK
<1>2. Len(values) \in Nat
    BY DEF TypeOK
<1>3. ASSUME NEW e \in DOMAIN state_stack
      PROVE  state_stack[e] \in [size : 0..Len(values), n : Nat \ {0}]
    <2> DEFINE T == [size : 0..Len(values), n : Nat \ {0}]
    <2>1. state_stack \in Seq(T) /\ e \in DOMAIN state_stack
        BY <1>1
    <2> HIDE DEF T
    <2>2. state_stack[e] \in T
        BY <2>1
    <2> QED
        BY <2>2 DEF T
<1>4. ASSUME NEW e \in DOMAIN state_stack
      PROVE  /\ state_stack[e].size \in Int /\ 0 <= state_stack[e].size
             /\ state_stack[e].size <= Len(values)
             /\ state_stack[e].n \in Nat /\ state_stack[e].n >= 1
    BY <1>2, <1>3
<1>5. Len(state_stack) \in Nat /\ DOMAIN state_stack = 1..Len(state_stack)
    BY <1>1
<1> QED
    BY <1>2, <1>3, <1>4, <1>5

LEMMA InsertInv ==
    ASSUME IndInv, NEW x \in Elements, Insert(x)
    PROVE  IndInv'
<1>0. TypeOK /\ PositionsInvert /\ SizesNest
    BY DEF IndInv
<1>1. state_stack = <<>> /\ state_stack' = <<>> /\ real_size = Len(values)
    BY DEF Insert
<1>2. CASE Has(x)
    <2>1. UNCHANGED vars
        BY <1>2, <1>1 DEF Insert, vars
    <2> QED
        BY <1>0, <2>1 DEF vars, IndInv, TypeOK, PositionsInvert, SizesNest
<1>3. CASE ~Has(x)
    <2> DEFINE n == Len(values)
    <2>1. /\ values' = Append(values, x)
          /\ positions' = [positions EXCEPT ![x] = Len(values')]
          /\ real_size' = real_size + 1
        BY <1>3 DEF Insert
    <2>2. n \in Nat /\ values \in Seq(Elements) /\ positions \in [Elements -> 0..n]
        BY <1>0 DEF TypeOK
    <2>3. values' \in Seq(Elements) /\ Len(values') = n + 1
        BY <2>1, <2>2
    <2>4. positions[x] = 0
        BY <1>1, <1>3, <2>2 DEF Has
    <2>5. TypeOK'
        <3>1. positions' \in [Elements -> 0..n + 1]
            BY <2>1, <2>2, <2>3
        <3>2. real_size' \in 0..n + 1
            BY <1>1, <2>1, <2>2
        <3>3. state_stack' \in Seq([size : 0..n + 1, n : Nat \ {0}])
            BY <1>1
        <3> QED
            BY <2>3, <3>1, <3>2, <3>3 DEF TypeOK
    <2>6. PositionsInvert'
        <3>1. \A i \in 1..n : values'[i] = values[i]
            BY <2>1, <2>2
        <3>2. values'[n + 1] = x
            BY <2>1, <2>2
        <3>3. ASSUME NEW i \in 1..n + 1 PROVE positions'[values'[i]] = i
            <4>1. CASE i = n + 1
                BY <2>1, <2>2, <2>3, <3>2, <4>1
            <4>2. CASE i # n + 1
                <5>1. i \in 1..n /\ i \in DOMAIN values
                    BY <2>2, <4>2
                <5>2. positions[values[i]] = i /\ values[i] \in Elements
                    BY <1>0, <2>2, <5>1 DEF PositionsInvert
                <5>3. values[i] # x
                    BY <2>4, <5>1, <5>2
                <5> QED
                    BY <2>1, <2>2, <3>1, <5>1, <5>2, <5>3
            <4> QED
                BY <4>1, <4>2
        <3>4. ASSUME NEW y \in Elements, positions'[y] # 0
              PROVE  values'[positions'[y]] = y
            <4>1. CASE y = x
                BY <2>1, <2>2, <2>3, <3>2, <4>1
            <4>2. CASE y # x
                <5>1. positions'[y] = positions[y] /\ positions[y] \in 1..n
                    BY <2>1, <2>2, <3>4, <4>2
                <5> QED
                    BY <1>0, <3>1, <5>1 DEF PositionsInvert
            <4> QED
                BY <4>1, <4>2
        <3>5. DOMAIN values' = 1..n + 1
            BY <2>2, <2>3
        <3> QED
            BY <3>3, <3>4, <3>5 DEF PositionsInvert
    <2>7. SizesNest'
        BY <1>1 DEF SizesNest
    <2> QED
        BY <2>5, <2>6, <2>7 DEF IndInv
<1> QED
    BY <1>2, <1>3

(* What a removal does: it exchanges the entries p and real_size, which both *)
(* are in the part that is in use.                                          *)
LEMMA RemoveExchanges ==
    ASSUME IndInv, NEW x \in Elements, Remove(x)
    PROVE  \E p \in 1..real_size :
            /\ real_size \in 1..Len(values) /\ p \in 1..Len(values)
            /\ values[p] = x /\ positions[x] = p
            /\ values[real_size] \in Elements /\ positions[values[real_size]] = real_size
            /\ values' = [values EXCEPT ![p] = values[real_size], ![real_size] = x]
            /\ positions' = [positions EXCEPT ![x] = real_size, ![values[real_size]] = p]
            /\ real_size' = real_size - 1 /\ state_stack' = state_stack
<1>0. TypeOK /\ PositionsInvert
    BY DEF IndInv
<1>1. /\ values \in Seq(Elements) /\ Len(values) \in Nat
      /\ positions \in [Elements -> 0..Len(values)] /\ real_size \in 0..Len(values)
    BY <1>0 DEF TypeOK
<1>2. positions[x] \in 1..real_size
    BY <1>1 DEF Remove, Has
<1>3. real_size \in 1..Len(values) /\ positions[x] \in 1..Len(values)
    BY <1>1, <1>2
<1>4. values[real_size] \in Elements /\ positions[values[real_size]] = real_size
    BY <1>0, <1>1, <1>3 DEF PositionsInvert
<1>5. values[positions[x]] = x
    BY <1>0, <1>3 DEF PositionsInvert
<1> QED
    BY <1>2, <1>3, <1>4, <1>5 DEF Remove

LEMMA RemoveInv ==
    ASSUME IndInv, NEW x \in Elements, Remove(x)
    PROVE  IndInv'
<1>0. TypeOK /\ PositionsInvert /\ SizesNest
    BY DEF IndInv
<1>1. PICK p \in 1..real_size :
            /\ real_size \in 1..Len(values) /\ p \in 1..Len(values)
            /\ values[p] = x /\ positions[x] = p
            /\ values[real_size] \in Elements /\ positions[values[real_size]] = real_size
            /\ values' = [values EXCEPT ![p] = values[real_size], ![real_size] = x]
            /\ positions' = [positions EXCEPT ![x] = real_size, ![values[real_size]] = p]
            /\ real_size' = real_size - 1 /\ state_stack' = state_stack
    BY RemoveExchanges
<1> DEFINE n == Len(values)
           r == real_size
           back == values[real_size]
<1>2. n \in Nat /\ values \in Seq(Elements) /\ positions \in [Elements -> 0..n] /\ r \in 1..n
    BY <1>0, <1>1 DEF TypeOK
<1>3. values' \in Seq(Elements) /\ Len(values') = n /\ DOMAIN values' = 1..n /\ DOMAIN values = 1..n
    BY <1>1, <1>2
<1>4. TypeOK'
    <2>1. positions' \in [Elements -> 0..n]
        BY <1>1, <1>2
    <2>2. state_stack' \in Seq([size : 0..n, n : Nat \ {0}])
        BY <1>0, <1>1 DEF TypeOK
    <2>3. real_size' \in 0..n
        BY <1>1, <1>2
    <2> QED
        BY <1>3, <2>1, <2>2, <2>3 DEF TypeOK
<1>5. PositionsInvert'
    <2>1. /\ \A i \in 1..n : i # p /\ i # r => values'[i] = values[i]
          /\ values'[r] = x /\ (p # r => values'[p] = back)
        BY <1>1, <1>2
    <2>2. /\ \A y \in Elements : y # x /\ y # back => positions'[y] = positions[y]
          /\ positions'[back] = p /\ (x # back => positions'[x] = r)
        BY <1>1, <1>2
    <2>3. x = back <=> p = r
        BY <1>1
    <2>4. ASSUME NEW i \in 1..n PROVE positions'[values'[i]] = i
        <3>1. CASE i = r
            BY <2>1, <2>2, <2>3, <3>1
        <3>2. CASE i = p /\ i # r
            BY <2>1, <2>2, <3>2
        <3>3. CASE i # p /\ i # r
            <4>1. values'[i] = values[i] /\ positions[values[i]] = i /\ values[i] \in Elements
                <5>1. i \in DOMAIN values /\ values[i] \in Elements
                    BY <1>2, <1>3
                <5>2. positions[values[i]] = i
                    BY <1>0, <5>1 DEF PositionsInvert
                <5> QED
                    BY <2>1, <3>3, <5>1, <5>2
            <4>2. values[i] # x /\ values[i] # back
                BY <1>1, <3>3, <4>1
            <4> QED
                BY <2>2, <4>1, <4>2
        <3> QED
            BY <3>1, <3>2, <3>3
    <2>5. ASSUME NEW y \in Elements, positions'[y] # 0
          PROVE  values'[positions'[y]] = y
        <3>1. CASE y = back
            BY <2>1, <2>2, <2>3, <3>1
        <3>2. CASE y = x /\ y # back
            BY <2>1, <2>2, <3>2
        <3>3. CASE y # x /\ y # back
            <4>1. positions'[y] = positions[y] /\ positions[y] \in 1..n /\ values[positions[y]] = y
                BY <1>0, <1>2, <2>2, <2>5, <3>3 DEF PositionsInvert
            <4>2. positions[y] # p /\ positions[y] # r
                BY <1>1, <3>3, <4>1
            <4> QED
                BY <2>1, <4>1, <4>2
        <3> QED
            BY <3>1, <3>2, <3>3
    <2> QED
        BY <1>3, <2>4, <2>5 DEF PositionsInvert
<1>6. SizesNest'
    <2>1. \A e \in DOMAIN state_stack : state_stack[e].size \in Int
        BY <1>0, StackEntries
    <2> QED
        BY <1>0, <1>1, <1>2, <2>1 DEF SizesNest
<1> QED
    BY <1>4, <1>5, <1>6 DEF IndInv

(* Only the top of the stack changes, and by its count alone. *)
LEMMA SaveCases ==
    ASSUME TypeOK, Save
    PROVE  \/ /\ state_stack # <<>> /\ Len(state_stack') = Len(state_stack)
              /\ state_stack' \in Seq([size : 0..Len(values), n : Nat \ {0}])
              /\ \A e \in 1..Len(state_stack) : state_stack'[e].size = state_stack[e].size
           \/ /\ state_stack # <<>> => state_stack[1].size # real_size
              /\ Len(state_stack') = Len(state_stack) + 1
              /\ state_stack' \in Seq([size : 0..Len(values), n : Nat \ {0}])
              /\ state_stack'[1].size = real_size
              /\ \A e \in 1..Len(state_stack) : state_stack'[e + 1] = state_stack[e]
<1> DEFINE T == [size : 0..Len(values), n : Nat \ {0}]
<1>1. state_stack \in Seq(T) /\ real_size \in 0..Len(values)
    BY DEF TypeOK
<1>2. CASE state_stack # <<>> /\ Head(state_stack).size = real_size
    <2>1. state_stack' = [state_stack EXCEPT ![1].n = state_stack[1].n + 1]
        BY <1>2 DEF Save
    <2>2. 1 \in DOMAIN state_stack /\ DOMAIN state_stack = 1..Len(state_stack)
        BY <1>1, <1>2
    <2>3. state_stack[1] \in T
        BY <2>2, StackEntries
    <2> DEFINE top == [state_stack[1] EXCEPT !.n = state_stack[1].n + 1]
    <2>4. top \in T /\ top.size = state_stack[1].size
        BY <2>3
    <2>5. state_stack' = [state_stack EXCEPT ![1] = top]
        BY <2>1
    <2> HIDE DEF top, T
    <2>6. state_stack' \in Seq(T) /\ Len(state_stack') = Len(state_stack)
        BY <1>1, <2>2, <2>4, <2>5
    <2>7. \A e \in 1..Len(state_stack) : state_stack'[e].size = state_stack[e].size
        BY <1>1, <2>2, <2>4, <2>5
    <2> QED
        BY <1>2, <2>6, <2>7 DEF T
<1>3. CASE ~(state_stack # <<>> /\ Head(state_stack).size = real_size)
    <2> DEFINE new == Entry(real_size, 1)
    <2>1. state_stack' = <<new>> \o state_stack
        BY <1>3 DEF Save
    <2>2. new \in T /\ new.size = real_size
        BY <1>1 DEF Entry
    <2> HIDE DEF new, T
    <2>3. state_stack' \in Seq(T) /\ Len(state_stack') = Len(state_stack) + 1 /\ state_stack'[1] = new
        BY <1>1, <2>1, <2>2
    <2>4. \A e \in 1..Len(state_stack) : state_stack'[e + 1] = state_stack[e]
        BY <1>1, <2>1, <2>2
    <2>5. state_stack # <<>> => state_stack[1].size # real_size
        BY <1>1, <1>3
    <2> QED
        BY <2>2, <2>3, <2>4, <2>5 DEF T
<1> QED
    BY <1>2, <1>3

LEMMA SaveInv ==
    ASSUME IndInv, Save
    PROVE  IndInv'
<1>0. TypeOK /\ PositionsInvert /\ SizesNest
    BY DEF IndInv
<1>1. values' = values /\ positions' = positions /\ real_size' = real_size
    BY DEF Save
<1>2. state_stack' \in Seq([size : 0..Len(values), n : Nat \ {0}])
    BY <1>0, SaveCases
<1>3. TypeOK'
    BY <1>0, <1>1, <1>2 DEF TypeOK
<1>4. PositionsInvert'
    BY <1>0, <1>1 DEF PositionsInvert
<1>5. DOMAIN state_stack' = 1..Len(state_stack') /\ DOMAIN state_stack = 1..Len(state_stack)
    BY <1>0, <1>2, StackEntries
<1>6. /\ real_size \in Int /\ Len(state_stack) \in Nat
      /\ \A e \in 1..Len(state_stack) : state_stack[e].size \in Int /\ real_size <= state_stack[e].size
      /\ \A d, e \in 1..Len(state_stack) : d < e => state_stack[d].size < state_stack[e].size
    <2>1. Len(values) \in Nat /\ Len(state_stack) \in Nat
        BY <1>0, StackEntries
    <2>2. real_size \in 0..Len(values)
        BY <1>0 DEF TypeOK
    <2>3. \A e \in 1..Len(state_stack) : state_stack[e].size \in Int
        BY <1>0, <1>5, StackEntries
    <2>4. /\ \A e \in 1..Len(state_stack) : real_size <= state_stack[e].size
          /\ \A d, e \in 1..Len(state_stack) : d < e => state_stack[d].size < state_stack[e].size
        BY <1>0, <1>5 DEF SizesNest
    <2> QED
        BY <2>1, <2>2, <2>3, <2>4
<1>7. SizesNest'
    <2>1. CASE /\ Len(state_stack') = Len(state_stack)
               /\ \A e \in 1..Len(state_stack) : state_stack'[e].size = state_stack[e].size
        BY <1>1, <1>5, <1>6, <2>1 DEF SizesNest
    <2>2. CASE /\ state_stack # <<>> => state_stack[1].size # real_size
               /\ Len(state_stack') = Len(state_stack) + 1
               /\ state_stack'[1].size = real_size
               /\ \A e \in 1..Len(state_stack) : state_stack'[e + 1] = state_stack[e]
        <3>1. \A e \in 1..Len(state_stack) : real_size < state_stack[e].size
            <4>1. Len(state_stack) > 0 => state_stack # <<>>
                OBVIOUS
            <4>2. Len(state_stack) > 0 => 1 \in 1..Len(state_stack)
                BY <1>6
            <4> QED
                BY <1>6, <2>2, <4>1, <4>2
        <3>2. \A e \in 1..Len(state_stack) + 1 : e # 1 =>
                e - 1 \in 1..Len(state_stack) /\ state_stack'[e] = state_stack[e - 1]
            BY <1>6, <2>2
        <3>3. \A e \in 1..Len(state_stack) + 1 : e # 1 =>
                state_stack'[e].size = state_stack[e - 1].size /\ real_size < state_stack'[e].size
            BY <3>1, <3>2
        <3>4. \A e \in DOMAIN state_stack' : real_size' <= state_stack'[e].size
            BY <1>1, <1>5, <1>6, <2>2, <3>3, SMTT(40)
        <3>5. ASSUME NEW d \in DOMAIN state_stack', NEW e \in DOMAIN state_stack', d < e
              PROVE  state_stack'[d].size < state_stack'[e].size
            <4>1. d \in 1..Len(state_stack) + 1 /\ e \in 1..Len(state_stack) + 1 /\ e # 1
                BY <1>5, <1>6, <2>2, <3>5
            <4>2. CASE d = 1
                BY <2>2, <3>3, <4>1, <4>2
            <4>3. CASE d # 1
                <5>1. d - 1 \in 1..Len(state_stack) /\ e - 1 \in 1..Len(state_stack) /\ d - 1 < e - 1
                    BY <1>6, <3>5, <4>1, <4>3
                <5> QED
                    BY <1>6, <3>3, <4>1, <4>3, <5>1
            <4> QED
                BY <4>2, <4>3
        <3> QED
            BY <3>4, <3>5 DEF SizesNest
    <2> QED
        BY <1>0, <2>1, <2>2, SaveCases
<1> QED
    BY <1>3, <1>4, <1>7 DEF IndInv

LEMMA RestoreCases ==
    ASSUME TypeOK, Restore
    PROVE  /\ state_stack # <<>> /\ 1 \in 1..Len(state_stack)
           /\ real_size' = state_stack[1].size
           /\ state_stack' \in Seq([size : 0..Len(values), n : Nat \ {0}])
           /\ \/ /\ Len(state_stack') = Len(state_stack)
                 /\ \A e \in 1..Len(state_stack) : state_stack'[e].size = state_stack[e].size
              \/ /\ Len(state_stack') = Len(state_stack) - 1
                 /\ \A e \in 1..Len(state_stack) - 1 : state_stack'[e] = state_stack[e + 1]
<1> DEFINE T == [size : 0..Len(values), n : Nat \ {0}]
<1>1. state_stack \in Seq(T) /\ state_stack # <<>>
    BY DEF TypeOK, Restore
<1> HIDE DEF T
<1>2. 1 \in 1..Len(state_stack) /\ Head(state_stack) = state_stack[1]
    BY <1>1
<1>3. /\ 1 \in DOMAIN state_stack /\ DOMAIN state_stack = 1..Len(state_stack)
      /\ state_stack[1] \in T
      /\ state_stack[1].n \in Nat /\ state_stack[1].n >= 1
    BY <1>2, StackEntries DEF T
<1>4. real_size' = state_stack[1].size
    BY <1>2 DEF Restore
<1>5. CASE state_stack[1].n > 1
    <2> DEFINE top == [state_stack[1] EXCEPT !.n = state_stack[1].n - 1]
    <2>1. state_stack' = [state_stack EXCEPT ![1] = top]
        BY <1>2, <1>5 DEF Restore
    <2>2. top \in T /\ top.size = state_stack[1].size
        BY <1>3, <1>5 DEF T
    <2> HIDE DEF top
    <2>3. state_stack' \in Seq(T) /\ Len(state_stack') = Len(state_stack)
        BY <1>1, <1>3, <2>1, <2>2
    <2>4. \A e \in 1..Len(state_stack) : state_stack'[e].size = state_stack[e].size
        BY <1>1, <1>3, <2>1, <2>2
    <2> QED
        BY <1>1, <1>2, <1>4, <2>3, <2>4 DEF T
<1>6. CASE ~(state_stack[1].n > 1)
    <2>1. state_stack' = Tail(state_stack)
        BY <1>2, <1>6 DEF Restore
    <2>2. state_stack' \in Seq(T) /\ Len(state_stack') = Len(state_stack) - 1
        BY <1>1, <2>1
    <2>3. \A e \in 1..Len(state_stack) - 1 : state_stack'[e] = state_stack[e + 1]
        BY <1>1, <2>1
    <2> QED
        BY <1>1, <1>2, <1>4, <2>2, <2>3 DEF T
<1> QED
    BY <1>5, <1>6

LEMMA RestoreInv ==
    ASSUME IndInv, Restore
    PROVE  IndInv'
<1>0. TypeOK /\ PositionsInvert /\ SizesNest
    BY DEF IndInv
<1>1. values' = values /\ positions' = positions
    BY DEF Restore
<1> DEFINE L == Len(state_stack)
<1>2. /\ 1 \in 1..L /\ real_size' = state_stack[1].size
      /\ state_stack' \in Seq([size : 0..Len(values), n : Nat \ {0}])
    BY <1>0, RestoreCases
<1>3. DOMAIN state_stack' = 1..Len(state_stack') /\ DOMAIN state_stack = 1..L /\ L \in Nat
    BY <1>0, <1>2, StackEntries
<1>4. /\ \A e \in 1..L : state_stack[e].size \in 0..Len(values)
      /\ \A e \in 1..L : state_stack[e].size \in Int /\ state_stack[1].size <= state_stack[e].size
      /\ \A d, e \in 1..L : d < e => state_stack[d].size < state_stack[e].size
    <2>1. \A e \in 1..L : state_stack[e].size \in 0..Len(values) /\ state_stack[e].size \in Int
        BY <1>0, <1>3, StackEntries
    <2>2. \A d, e \in 1..L : d < e => state_stack[d].size < state_stack[e].size
        BY <1>0, <1>3 DEF SizesNest
    <2>3. \A e \in 1..L : e = 1 \/ 1 < e
        BY <1>3
    <2> QED
        BY <1>2, <2>1, <2>2, <2>3, SMTT(40)
<1>5. TypeOK'
    BY <1>0, <1>1, <1>2, <1>4 DEF TypeOK
<1>6. PositionsInvert'
    BY <1>0, <1>1 DEF PositionsInvert
<1>7. SizesNest'
    <2>1. CASE Len(state_stack') = L /\ \A e \in 1..L : state_stack'[e].size = state_stack[e].size
        BY <1>2, <1>3, <1>4, <2>1, SMTT(40) DEF SizesNest
    <2>2. CASE Len(state_stack') = L - 1 /\ \A e \in 1..L - 1 : state_stack'[e] = state_stack[e + 1]
        <3>1. \A e \in DOMAIN state_stack' :
                e \in Int /\ e + 1 \in 1..L /\ state_stack'[e].size = state_stack[e + 1].size
            BY <1>3, <2>2
        <3>2. \A e \in DOMAIN state_stack' : real_size' <= state_stack'[e].size
            BY <1>2, <1>4, <3>1
        <3>3. ASSUME NEW d \in DOMAIN state_stack', NEW e \in DOMAIN state_stack', d < e
              PROVE  state_stack'[d].size < state_stack'[e].size
            <4>1. d + 1 \in 1..L /\ e + 1 \in 1..L /\ d + 1 < e + 1
                BY <3>1, <3>3
            <4>2. state_stack[d + 1].size < state_stack[e + 1].size
                BY <1>4, <4>1
            <4> QED
                BY <3>1, <4>2
        <3> QED
            BY <3>2, <3>3 DEF SizesNest
    <2> QED
        BY <1>0, <2>1, <2>2, RestoreCases
<1> QED
    BY <1>5, <1>6, <1>7 DEF IndInv

LEMMA StepInv == IndInv /\ [Next]_vars => IndInv'
<1> SUFFICES ASSUME IndInv, [Next]_vars PROVE IndInv'
    OBVIOUS
<1>1. CASE UNCHANGED vars
    BY <1>1 DEF vars, IndInv, TypeOK, PositionsInvert, SizesNest
<1>2. ASSUME NEW x \in Elements, Insert(x) \/ Remove(x)
      PROVE  IndInv'
    BY <1>2, InsertInv, RemoveInv
<1>3. CASE Save
    BY <1>3, SaveInv
<1>4. CASE Restore
    BY <1>4, RestoreInv
<1> QED
    BY <1>1, <1>2, <1>3, <1>4 DEF Next

(* The inductive invariant holds in every execution. *)
THEOREM Inductive == Spec => []IndInv
<1>1. Init => IndInv
    BY InitInv
<1>2. IndInv /\ [Next]_vars => IndInv'
    BY StepInv
<1> QED
    BY <1>1, <1>2, PTL DEF Spec

(* The types hold for any elements, and no counted entry is ever zero. *)
THEOREM TypeCorrect == Spec => []TypeOK
<1>1. IndInv => TypeOK
    BY DEF IndInv
<1> QED
    BY <1>1, Inductive, PTL

(* has() and the iteration agree: the positions invert the vector. *)
THEOREM PositionsAreInverse == Spec => []PositionsInvert
<1>1. IndInv => PositionsInvert
    BY DEF IndInv
<1> QED
    BY <1>1, Inductive, PTL

(* The saved sizes grow down the stack, strictly. *)
THEOREM SizesAreNested == Spec => []SizesNest
<1>1. IndInv => SizesNest
    BY DEF IndInv
<1> QED
    BY <1>1, Inductive, PTL

-------------------------------------------------------------------------------
Kept ==
    \A e \in 0..Len(state_stack) - 1 : e < Len(state_stack') =>
        {values'[i] : i \in 1..FromBottom(state_stack', e).size} =
        {values[i] : i \in 1..FromBottom(state_stack, e).size}

(* An exchange inside the first r entries leaves every longer part the same *)
(* set.                                                                     *)
LEMMA ExchangeKeepsParts ==
    ASSUME NEW n \in Nat, NEW S, NEW v \in Seq(S), Len(v) = n,
           NEW r \in 1..n, NEW p \in 1..r, NEW k \in r..n,
           NEW w, w = [v EXCEPT ![p] = v[r], ![r] = v[p]]
    PROVE  {w[i] : i \in 1..k} = {v[i] : i \in 1..k}
<1>1. p \in 1..k /\ r \in 1..k /\ \A i \in 1..k : i \in 1..n
    OBVIOUS
<1>2. w[r] = v[p] /\ (p # r => w[p] = v[r]) /\ (p = r => v[p] = v[r])
    BY <1>1
<1>3. \A i \in 1..k : i # p /\ i # r => w[i] = v[i]
    BY <1>1
<1>4. ASSUME NEW i \in 1..k PROVE w[i] \in {v[j] : j \in 1..k}
    BY <1>1, <1>2, <1>3
<1>5. ASSUME NEW i \in 1..k PROVE v[i] \in {w[j] : j \in 1..k}
    BY <1>1, <1>2, <1>3
<1> QED
    BY <1>4, <1>5

(* What was saved is what a restore brings back, whatever was removed since. *)
THEOREM SavedSetsAreKept == Spec => SavedSetsSurvive
<1>1. IndInv /\ [Next]_vars => [Kept]_vars
    <2> SUFFICES ASSUME IndInv, Next PROVE Kept
        OBVIOUS
    <2>0. TypeOK /\ SizesNest
        BY DEF IndInv
    <2> DEFINE L == Len(state_stack)
    <2>1. /\ L \in Nat /\ DOMAIN state_stack = 1..L /\ Len(values) \in Nat
          /\ \A e \in 1..L : state_stack[e].size \in Int /\ state_stack[e].size <= Len(values)
        BY <2>0, StackEntries
    <2>2. ASSUME values' = values,
                 \A e \in 0..L - 1 : e < Len(state_stack') =>
                    FromBottom(state_stack', e).size = FromBottom(state_stack, e).size
          PROVE  Kept
        BY <2>2 DEF Kept
    <2>3. ASSUME NEW x \in Elements, Insert(x)
          PROVE  Kept
        <3>1. L = 0
            BY <2>3 DEF Insert
        <3>2. 0..L - 1 = {}
            BY <3>1
        <3> QED
            BY <3>2 DEF Kept
    <2>4. ASSUME NEW x \in Elements, Remove(x)
          PROVE  Kept
        <3>1. PICK p \in 1..real_size :
                /\ real_size \in 1..Len(values)
                /\ values[p] = x
                /\ values' = [values EXCEPT ![p] = values[real_size], ![real_size] = x]
                /\ state_stack' = state_stack
            BY <2>4, RemoveExchanges
        <3>2. values \in Seq(Elements)
            BY <2>0 DEF TypeOK
        <3>3. ASSUME NEW e \in 0..L - 1
              PROVE  {values'[i] : i \in 1..FromBottom(state_stack, e).size} =
                     {values[i] : i \in 1..FromBottom(state_stack, e).size}
            <4> DEFINE k == state_stack[L - e].size
            <4>1. L - e \in 1..L
                BY <2>1
            <4>2. k \in Int /\ real_size <= k /\ k <= Len(values)
                BY <2>0, <2>1, <4>1 DEF SizesNest
            <4> HIDE DEF k
            <4>3. k \in real_size..Len(values)
                BY <3>1, <4>2
            <4>4. values' = [values EXCEPT ![p] = values[real_size], ![real_size] = values[p]]
                BY <3>1
            <4>5. {values'[i] : i \in 1..k} = {values[i] : i \in 1..k}
                BY <2>1, <3>1, <3>2, <4>3, <4>4, ExchangeKeepsParts, SMTT(40)
            <4> QED
                BY <4>5 DEF FromBottom, k
        <3> QED
            BY <3>1, <3>3 DEF Kept
    <2>5. CASE Save
        <3>1. values' = values
            BY <2>5 DEF Save
        <3>2. CASE /\ Len(state_stack') = L
                   /\ \A e \in 1..L : state_stack'[e].size = state_stack[e].size
            BY <2>1, <2>2, <3>1, <3>2 DEF FromBottom
        <3>3. CASE /\ Len(state_stack') = L + 1
                   /\ \A e \in 1..L : state_stack'[e + 1] = state_stack[e]
            <4>1. ASSUME NEW e \in 0..L - 1
                  PROVE  FromBottom(state_stack', e) = FromBottom(state_stack, e)
                <5>1. L - e \in 1..L /\ (L + 1) - e = (L - e) + 1
                    BY <2>1
                <5> QED
                    BY <3>3, <5>1 DEF FromBottom
            <4> QED
                BY <2>2, <3>1, <4>1
        <3> QED
            BY <2>0, <2>5, <3>2, <3>3, SaveCases
    <2>6. CASE Restore
        <3>1. values' = values
            BY <2>6 DEF Restore
        <3>2. CASE /\ Len(state_stack') = L
                   /\ \A e \in 1..L : state_stack'[e].size = state_stack[e].size
            BY <2>1, <2>2, <3>1, <3>2 DEF FromBottom
        <3>3. CASE /\ Len(state_stack') = L - 1
                   /\ \A e \in 1..L - 1 : state_stack'[e] = state_stack[e + 1]
            <4>1. ASSUME NEW e \in 0..L - 1, e < L - 1
                  PROVE  FromBottom(state_stack', e) = FromBottom(state_stack, e)
                <5>0. L \in Nat /\ e \in Int /\ 0 <= e /\ e < L - 1
                    BY <2>1, <4>1
                <5>1. (L - 1) - e \in 1..L - 1 /\ L - e = ((L - 1) - e) + 1
                    <6> HIDE DEF L
                    <6> QED
                        BY <5>0
                <5> QED
                    BY <3>3, <5>1 DEF FromBottom
            <4> QED
                BY <2>2, <3>1, <3>3, <4>1
        <3> QED
            BY <2>0, <2>6, <3>2, <3>3, RestoreCases
    <2> QED
        BY <2>3, <2>4, <2>5, <2>6 DEF Next
<1>2. Spec => [][Kept]_vars
    BY <1>1, Inductive, PTL DEF Spec
<1> QED
    BY <1>2 DEF SavedSetsSurvive, Kept

-------------------------------------------------------------------------------
(* FlattenSeq joins from the left. *)

(* What the joins of the first parts are. *)
Joins(s, f) ==
    f = [i \in 1..Len(s) |-> IF i = 1 THEN s[i] ELSE f[i - 1] \o s[i]]

LEMMA JoinsExist ==
    ASSUME NEW S, NEW s \in Seq(Seq(S))
    PROVE  \E f : Joins(s, f)
<1> DEFINE N == Len(s)
           E(n) == \E f : f = [i \in 1..n |-> IF i = 1 THEN s[i] ELSE f[i - 1] \o s[i]]
           T == {n \in Nat : ~E(n)}
<1>1. N \in Nat
    OBVIOUS
<1>2. E(0)
    <2> DEFINE f == [i \in 1..0 |-> s[i]]
    <2>1. f = [i \in 1..0 |-> IF i = 1 THEN s[i] ELSE f[i - 1] \o s[i]]
        OBVIOUS
    <2> QED
        BY <2>1
<1>3. ASSUME NEW n \in Nat, E(n)
      PROVE  E(n + 1)
    <2>1. PICK f : f = [i \in 1..n |-> IF i = 1 THEN s[i] ELSE f[i - 1] \o s[i]]
        BY <1>3
    <2> DEFINE g == [i \in 1..n + 1 |-> IF i \in 1..n THEN f[i]
                                        ELSE IF i = 1 THEN s[i] ELSE f[i - 1] \o s[i]]
    <2>2. ASSUME NEW i \in 1..n + 1
          PROVE  g[i] = IF i = 1 THEN s[i] ELSE g[i - 1] \o s[i]
        <3>1. CASE i \in 1..n
            <4>1. f[i] = IF i = 1 THEN s[i] ELSE f[i - 1] \o s[i]
                BY <2>1, <3>1
            <4>2. i # 1 => i - 1 \in 1..n /\ i - 1 \in 1..n + 1
                BY <3>1
            <4> QED
                BY <3>1, <4>1, <4>2
        <3>2. CASE i \notin 1..n
            <4>1. i = n + 1 /\ (i # 1 => i - 1 \in 1..n /\ i - 1 \in 1..n + 1)
                BY <3>2
            <4> QED
                BY <3>2, <4>1
        <3> QED
            BY <3>1, <3>2
    <2> HIDE DEF g
    <2>3. g = [i \in 1..n + 1 |-> g[i]]
        BY DEF g
    <2>4. g = [i \in 1..n + 1 |-> IF i = 1 THEN s[i] ELSE g[i - 1] \o s[i]]
        BY <2>2, <2>3
    <2> QED
        BY <2>4
<1> HIDE DEF E
<1>4. T = {}
    <2> SUFFICES ASSUME T # {} PROVE FALSE
        OBVIOUS
    <2>1. PICK n \in T : \A k \in T : n <= k
        BY Least
    <2>2. n \in Nat /\ ~E(n) /\ n # 0 /\ n - 1 \in Nat /\ (n - 1) + 1 = n
        BY <1>2
    <2>3. E(n - 1)
        BY <2>1, <2>2
    <2> QED
        BY <1>3, <2>2, <2>3
<1> QED
    BY <1>1, <1>4 DEF E, Joins

LEMMA JoinsHold ==
    ASSUME NEW S, NEW s \in Seq(Seq(S)), s # <<>>
    PROVE  \E f : /\ Joins(s, f)
                  /\ \A i \in 1..Len(s) : f[i] \in Seq(S)
                  /\ SE!FlattenSeq(s) = f[Len(s)]
<1> DEFINE N == Len(s)
           f == CHOOSE f : f = [i \in 1..N |-> IF i = 1 THEN s[i] ELSE f[i - 1] \o s[i]]
<1>1. N \in Nat /\ N # 0 /\ \A i \in 1..N : s[i] \in Seq(S)
    OBVIOUS
<1>2. SE!FlattenSeq(s) = f[N]
    BY <1>1, Zenon DEF SE!FlattenSeq
<1>3. f = [i \in 1..N |-> IF i = 1 THEN s[i] ELSE f[i - 1] \o s[i]]
    <2>1. \E g : g = [i \in 1..N |-> IF i = 1 THEN s[i] ELSE g[i - 1] \o s[i]]
        BY JoinsExist DEF Joins
    <2> QED
        BY <2>1, Zenon
<1> HIDE DEF f
<1>4. \A i \in 1..N : f[i] = IF i = 1 THEN s[i] ELSE f[i - 1] \o s[i]
    BY <1>3
<1> DEFINE T == {i \in 1..N : f[i] \notin Seq(S)}
<1>5. T = {}
    <2> SUFFICES ASSUME T # {} PROVE FALSE
        OBVIOUS
    <2>0. T \subseteq Nat
        BY <1>1
    <2>1. PICK n \in T : \A k \in T : n <= k
        BY <2>0, Least, Zenon
    <2>2. n # 1
        BY <1>1, <1>4
    <2>3. n \in 1..N /\ n - 1 \in 1..N /\ ~ n <= n - 1
        BY <1>1, <2>2
    <2>4. f[n - 1] \in Seq(S)
        BY <2>1, <2>3
    <2>5. f[n] = f[n - 1] \o s[n]
        BY <1>4, <2>2, <2>3
    <2>6. f[n - 1] \o s[n] \in Seq(S)
        BY <1>1, <2>3, <2>4
    <2> QED
        BY <2>1, <2>5, <2>6
<1> QED
    BY <1>2, <1>3, <1>5 DEF Joins

LEMMA FrontAssociative ==
    ASSUME NEW S, NEW x \in S, NEW a \in Seq(S), NEW b \in Seq(S)
    PROVE  (<<x>> \o a) \o b = <<x>> \o (a \o b)
<1>1. <<x>> \in Seq(S)
    OBVIOUS
<1> QED
    BY <1>1, ConcatAssociative

(* An element put in front of the first part is put in front of the whole.    *)
Grown(s, t, x) ==
    Len(t) = Len(s) /\ t[1] = <<x>> \o s[1] /\ \A i \in 2..Len(s) : t[i] = s[i]

LEMMA FlattenGrows ==
    ASSUME NEW S, NEW s \in Seq(Seq(S)), NEW t \in Seq(Seq(S)), NEW x \in S,
           s # <<>>, Grown(s, t, x)
    PROVE  SE!FlattenSeq(t) = <<x>> \o SE!FlattenSeq(s)
<1> DEFINE N == Len(s)
<1>0. Len(t) = N /\ t[1] = <<x>> \o s[1] /\ \A i \in 2..N : t[i] = s[i]
    BY DEF Grown
<1>1. N \in Nat /\ N # 0 /\ t # <<>> /\ \A i \in 1..N : s[i] \in Seq(S) /\ t[i] \in Seq(S)
    BY <1>0
<1>2. PICK f : /\ Joins(s, f) /\ \A i \in 1..N : f[i] \in Seq(S)
               /\ SE!FlattenSeq(s) = f[N]
    BY JoinsHold
<1>3. PICK g : Joins(t, g) /\ SE!FlattenSeq(t) = g[N]
    BY <1>0, <1>1, JoinsHold, ZenonT(60)
<1>4. \A i \in 1..N : /\ f[i] = IF i = 1 THEN s[i] ELSE f[i - 1] \o s[i]
                      /\ g[i] = IF i = 1 THEN t[i] ELSE g[i - 1] \o t[i]
    BY <1>0, <1>2, <1>3 DEF Joins
<1> DEFINE T == {i \in 1..N : g[i] # <<x>> \o f[i]}
<1>5. T = {}
    <2> SUFFICES ASSUME T # {} PROVE FALSE
        OBVIOUS
    <2>0. T \subseteq Nat
        BY <1>1
    <2>1. PICK n \in T : \A k \in T : n <= k
        BY <2>0, Least, Zenon
    <2>2. n # 1
        BY <1>0, <1>1, <1>4
    <2>3. n \in 1..N /\ n - 1 \in 1..N /\ ~ n <= n - 1 /\ n \in 2..N
        BY <1>1, <2>2
    <2>4. g[n - 1] = <<x>> \o f[n - 1]
        BY <2>1, <2>3
    <2>5. g[n] = (<<x>> \o f[n - 1]) \o s[n]
        BY <1>0, <1>4, <2>2, <2>3, <2>4
    <2>6. <<x>> \in Seq(S) /\ f[n - 1] \in Seq(S) /\ s[n] \in Seq(S)
        BY <1>1, <1>2, <2>3
    <2>7. (<<x>> \o f[n - 1]) \o s[n] = <<x>> \o (f[n - 1] \o s[n])
        <3> DEFINE a == f[n - 1]
                   b == s[n]
        <3>1. a \in Seq(S) /\ b \in Seq(S)
            BY <2>6
        <3> HIDE DEF T, a, b
        <3>2. (<<x>> \o a) \o b = <<x>> \o (a \o b)
            BY <3>1, FrontAssociative, SMTT(40)
        <3> QED
            BY <3>2 DEF a, b
    <2>8. f[n] = f[n - 1] \o s[n]
        BY <1>4, <2>2, <2>3
    <2> QED
        BY <2>1, <2>5, <2>7, <2>8
<1>6. g[N] = <<x>> \o f[N]
    <2>1. N \in 1..N
        BY <1>1
    <2>2. N \notin T
        BY <1>5
    <2> QED
        BY <2>1, <2>2
<1> QED
    BY <1>2, <1>3, <1>6

(* So is a first part of one element. *)
LEMMA FlattenPush ==
    ASSUME NEW S, NEW s \in Seq(Seq(S)), NEW t \in Seq(Seq(S)), NEW x \in S,
           Len(t) = Len(s) + 1, t[1] = <<x>>, \A i \in 1..Len(s) : t[i + 1] = s[i]
    PROVE  SE!FlattenSeq(t) = <<x>> \o SE!FlattenSeq(s)
<1> DEFINE N == Len(s)
<1>1. N \in Nat /\ t # <<>> /\ \A i \in 1..N : s[i] \in Seq(S)
    OBVIOUS
<1>2. PICK g : Joins(t, g) /\ SE!FlattenSeq(t) = g[N + 1]
    BY <1>1, JoinsHold
<1>3. \A i \in 1..N + 1 : g[i] = IF i = 1 THEN t[i] ELSE g[i - 1] \o t[i]
    BY <1>2 DEF Joins
<1>4. CASE s = <<>>
    <2>1. SE!FlattenSeq(s) = <<>>
        BY <1>4 DEF SE!FlattenSeq
    <2>2. N = 0 /\ g[1] = <<x>>
        BY <1>3, <1>4
    <2>3. <<x>> \o <<>> = <<x>>
        OBVIOUS
    <2> QED
        BY <1>2, <2>1, <2>2, <2>3
<1>5. CASE s # <<>>
    <2>0. N # 0
        BY <1>5
    <2>1. PICK f : /\ Joins(s, f) /\ \A i \in 1..N : f[i] \in Seq(S)
                   /\ SE!FlattenSeq(s) = f[N]
        BY <1>5, JoinsHold
    <2>2. \A i \in 1..N : f[i] = IF i = 1 THEN s[i] ELSE f[i - 1] \o s[i]
        BY <2>1 DEF Joins
    <2> DEFINE T == {i \in 1..N : g[i + 1] # <<x>> \o f[i]}
    <2>3. T = {}
        <3> SUFFICES ASSUME T # {} PROVE FALSE
            OBVIOUS
        <3>0. T \subseteq Nat
            BY <1>1
        <3>1. PICK n \in T : \A k \in T : n <= k
            BY <3>0, Least, Zenon
        <3>2. n \in 1..N /\ n + 1 \in 1..N + 1 /\ n + 1 # 1 /\ (n + 1) - 1 = n
            BY <1>1, <3>1
        <3>3. g[n + 1] = g[n] \o s[n]
            <4>1. t[n + 1] = s[n]
                BY <3>2
            <4> QED
                BY <1>3, <3>2, <4>1
        <3>4. n # 1
            <4> SUFFICES ASSUME n = 1 PROVE FALSE
                OBVIOUS
            <4>0. 1 \in 1..N /\ 1 \in 1..N + 1
                BY <1>1, <2>0
            <4>1. g[1] = <<x>> /\ f[1] = s[1]
                BY <1>3, <2>2, <4>0
            <4> QED
                BY <3>1, <3>3, <4>1
        <3>5. n - 1 \in 1..N /\ (n - 1) + 1 = n /\ ~ n <= n - 1
            BY <1>1, <3>2, <3>4
        <3>6. g[n] = <<x>> \o f[n - 1]
            BY <3>1, <3>5
        <3>7. <<x>> \in Seq(S) /\ f[n - 1] \in Seq(S) /\ s[n] \in Seq(S)
            BY <1>1, <2>1, <3>2, <3>5
        <3>8. (<<x>> \o f[n - 1]) \o s[n] = <<x>> \o (f[n - 1] \o s[n])
            <4> DEFINE a == f[n - 1]
                       b == s[n]
            <4>1. a \in Seq(S) /\ b \in Seq(S)
                BY <3>7
            <4> HIDE DEF T, a, b
            <4>2. (<<x>> \o a) \o b = <<x>> \o (a \o b)
                BY <4>1, FrontAssociative, SMTT(40)
            <4> QED
                BY <4>2 DEF a, b
        <3>9. f[n] = f[n - 1] \o s[n]
            BY <2>2, <3>2, <3>4
        <3> QED
            BY <3>1, <3>3, <3>6, <3>8, <3>9
    <2>4. g[N + 1] = <<x>> \o f[N]
        <3>1. N \in 1..N
            BY <1>1, <2>0
        <3>2. N \notin T
            BY <2>3
        <3> QED
            BY <3>1, <3>2
    <2> QED
        BY <1>2, <2>1, <2>4
<1> QED
    BY <1>4, <1>5

-------------------------------------------------------------------------------
(* The stack of counted sizes stands for a stack of sets: each entry for a run *)
(* of equal sets, the runs joined.                                           *)
PrefixOf(v, k) == {v[i] : i \in 1..k}

RunOf(v, entry) == [k \in 1..entry.n |-> PrefixOf(v, entry.size)]

RunsOf(v, s) == [e \in DOMAIN s |-> RunOf(v, s[e])]

SavedOf(v, s) == SE!FlattenSeq(RunsOf(v, s))

EntriesOf(v) == [size : 0..Len(v), n : Nat \ {0}]

(* One set more is one more of the top or a new entry. *)
OneMore(a, b) ==
    \/ /\ a # <<>> /\ Len(b) = Len(a)
       /\ b[1].size = a[1].size /\ b[1].n = a[1].n + 1
       /\ \A e \in 2..Len(a) : b[e] = a[e]
    \/ /\ Len(b) = Len(a) + 1 /\ b[1].n = 1
       /\ \A e \in 1..Len(a) : b[e + 1] = a[e]

LEMMA RunTyped ==
    ASSUME NEW v \in Seq(Elements), NEW entry \in EntriesOf(v)
    PROVE  /\ RunOf(v, entry) \in Seq(SUBSET Elements)
           /\ PrefixOf(v, entry.size) \in SUBSET Elements
<1>1. entry.size \in 0..Len(v) /\ entry.n \in Nat /\ Len(v) \in Nat
    BY DEF EntriesOf
<1>2. \A i \in 1..entry.size : v[i] \in Elements
    BY <1>1
<1> DEFINE P == PrefixOf(v, entry.size)
<1>3. P \in SUBSET Elements
    BY <1>2 DEF PrefixOf
<1> HIDE DEF P
<1>4. [k \in 1..entry.n |-> P] \in Seq(SUBSET Elements)
    BY <1>1, <1>3
<1> QED
    BY <1>3, <1>4 DEF P, RunOf

LEMMA RunsTyped ==
    ASSUME NEW v \in Seq(Elements), NEW s \in Seq(EntriesOf(v))
    PROVE  /\ RunsOf(v, s) \in Seq(Seq(SUBSET Elements)) /\ Len(RunsOf(v, s)) = Len(s)
           /\ \A e \in 1..Len(s) : RunsOf(v, s)[e] = RunOf(v, s[e])
<1>1. DOMAIN s = 1..Len(s) /\ Len(s) \in Nat /\ \A e \in 1..Len(s) : s[e] \in EntriesOf(v)
    OBVIOUS
<1>2. \A e \in 1..Len(s) : RunOf(v, s[e]) \in Seq(SUBSET Elements)
    BY <1>1, RunTyped
<1> DEFINE T == Seq(SUBSET Elements)
<1>3. RunsOf(v, s) = [e \in 1..Len(s) |-> RunOf(v, s[e])]
    BY <1>1 DEF RunsOf
<1>4. \A e \in 1..Len(s) : RunOf(v, s[e]) \in T
    BY <1>2
<1> HIDE DEF T
<1>5. RunsOf(v, s) \in Seq(T) /\ Len(RunsOf(v, s)) = Len(s)
    BY <1>1, <1>3, <1>4
<1> QED
    BY <1>3, <1>5 DEF T

LEMMA RunGrows ==
    ASSUME NEW v \in Seq(Elements), NEW a \in EntriesOf(v), NEW b \in EntriesOf(v),
           b.size = a.size, b.n = a.n + 1
    PROVE  RunOf(v, b) = <<PrefixOf(v, b.size)>> \o RunOf(v, a)
<1> DEFINE P == PrefixOf(v, a.size)
<1>1. a.n \in Nat /\ RunOf(v, a) = [k \in 1..a.n |-> P] /\ RunOf(v, b) = [k \in 1..a.n + 1 |-> P]
    BY DEF RunOf, EntriesOf
<1>2. P \in SUBSET Elements
    BY RunTyped
<1> HIDE DEF P
<1>3. [k \in 1..a.n + 1 |-> P] = <<P>> \o [k \in 1..a.n |-> P]
    <2> DEFINE f == [k \in 1..a.n |-> P]
               g == [k \in 1..a.n + 1 |-> P]
    <2>1. f \in Seq({P}) /\ Len(f) = a.n /\ g \in Seq({P}) /\ Len(g) = a.n + 1 /\ <<P>> \in Seq({P})
        BY <1>1
    <2>2. <<P>> \o f \in Seq({P}) /\ Len(<<P>> \o f) = a.n + 1
        BY <1>1, <2>1
    <2>3. \A h \in Seq({P}) : \A i \in 1..Len(h) : h[i] = P
        OBVIOUS
    <2> HIDE DEF f, g
    <2>4. \A i \in 1..a.n + 1 : g[i] = P /\ (<<P>> \o f)[i] = P
        BY <2>1, <2>2, <2>3
    <2>5. g = <<P>> \o f
        BY <1>1, <2>1, <2>2, <2>4, SeqEqual
    <2> QED
        BY <2>5 DEF f, g
<1> QED
    BY <1>1, <1>3 DEF P

LEMMA SavedGrows ==
    ASSUME NEW v \in Seq(Elements), NEW a \in Seq(EntriesOf(v)), NEW b \in Seq(EntriesOf(v)),
           OneMore(a, b)
    PROVE  SavedOf(v, b) = <<PrefixOf(v, b[1].size)>> \o SavedOf(v, a)
<1> DEFINE s == RunsOf(v, a)
           t == RunsOf(v, b)
           x == PrefixOf(v, b[1].size)
<1>1. /\ s \in Seq(Seq(SUBSET Elements)) /\ Len(s) = Len(a)
      /\ \A e \in 1..Len(a) : s[e] = RunOf(v, a[e])
    BY RunsTyped
<1>2. /\ t \in Seq(Seq(SUBSET Elements)) /\ Len(t) = Len(b)
      /\ \A e \in 1..Len(b) : t[e] = RunOf(v, b[e])
    BY RunsTyped
<1>3. Len(a) \in Nat /\ Len(b) \in Nat /\ 1 \in 1..Len(b)
    BY DEF OneMore
<1>4. b[1] \in EntriesOf(v) /\ x \in SUBSET Elements
    BY <1>3, RunTyped
<1> HIDE DEF s, t
<1>5. CASE /\ a # <<>> /\ Len(b) = Len(a)
           /\ b[1].size = a[1].size /\ b[1].n = a[1].n + 1
           /\ \A e \in 2..Len(a) : b[e] = a[e]
    <2>1. 1 \in 1..Len(a) /\ a[1] \in EntriesOf(v)
        BY <1>3, <1>5
    <2>2. RunOf(v, b[1]) = <<x>> \o RunOf(v, a[1])
        BY <1>4, <1>5, <2>1, RunGrows
    <2>3. t[1] = <<x>> \o s[1]
        BY <1>1, <1>2, <1>3, <2>1, <2>2
    <2>4. \A e \in 2..Len(s) : t[e] = s[e]
        BY <1>1, <1>2, <1>3, <1>5
    <2>5. Grown(s, t, x) /\ s # <<>>
        BY <1>1, <1>2, <1>5, <2>1, <2>3, <2>4 DEF Grown
    <2> HIDE DEF x
    <2>6. SE!FlattenSeq(t) = <<x>> \o SE!FlattenSeq(s)
        BY <1>1, <1>2, <1>4, <2>5, FlattenGrows
    <2> QED
        BY <2>6 DEF s, t, x, SavedOf
<1>6. CASE /\ Len(b) = Len(a) + 1 /\ b[1].n = 1
           /\ \A e \in 1..Len(a) : b[e + 1] = a[e]
    <2>1. t[1] = <<x>>
        <3>1. t[1] = [k \in 1..1 |-> x]
            BY <1>2, <1>3, <1>6 DEF RunOf
        <3> QED
            BY <3>1
    <2>2. \A e \in 1..Len(s) : t[e + 1] = s[e]
        <3> TAKE e \in 1..Len(s)
        <3>1. e \in 1..Len(a) /\ e + 1 \in 1..Len(b)
            BY <1>1, <1>3, <1>6
        <3> QED
            BY <1>1, <1>2, <1>6, <3>1
    <2> HIDE DEF x
    <2>3. SE!FlattenSeq(t) = <<x>> \o SE!FlattenSeq(s)
        <3>1. Len(t) = Len(s) + 1
            BY <1>1, <1>2, <1>6
        <3> QED
            BY <1>1, <1>2, <1>4, <2>1, <2>2, <3>1, FlattenPush
    <2> QED
        BY <2>3 DEF s, t, x, SavedOf
<1> QED
    BY <1>5, <1>6 DEF OneMore

LEMMA SaveMore ==
    ASSUME TypeOK, Save
    PROVE  OneMore(state_stack, state_stack') /\ state_stack'[1].size = real_size
<1>0. state_stack \in Seq(EntriesOf(values)) /\ real_size \in 0..Len(values)
    BY DEF TypeOK, EntriesOf
<1>1. CASE state_stack # <<>> /\ Head(state_stack).size = real_size
    <2>1. 1 \in DOMAIN state_stack /\ state_stack[1] \in EntriesOf(values)
          /\ state_stack[1].size = real_size
        BY <1>0, <1>1
    <2> DEFINE top == [state_stack[1] EXCEPT !.n = state_stack[1].n + 1]
    <2>2. state_stack' = [state_stack EXCEPT ![1] = top]
        BY <1>1 DEF Save
    <2>3. top.size = state_stack[1].size /\ top.n = state_stack[1].n + 1
        BY <2>1 DEF EntriesOf
    <2> HIDE DEF top
    <2>4. /\ Len(state_stack') = Len(state_stack) /\ state_stack'[1] = top
          /\ \A e \in 2..Len(state_stack) : state_stack'[e] = state_stack[e]
        BY <1>0, <2>1, <2>2
    <2> QED
        BY <1>1, <2>1, <2>3, <2>4 DEF OneMore
<1>2. CASE ~(state_stack # <<>> /\ Head(state_stack).size = real_size)
    <2> DEFINE new == Entry(real_size, 1)
    <2>1. state_stack' = <<new>> \o state_stack
        BY <1>2 DEF Save
    <2>2. new \in EntriesOf(values) /\ new.size = real_size /\ new.n = 1
        BY <1>0 DEF Entry, EntriesOf
    <2> HIDE DEF new
    <2>3. /\ Len(state_stack') = Len(state_stack) + 1 /\ state_stack'[1] = new
          /\ \A e \in 1..Len(state_stack) : state_stack'[e + 1] = state_stack[e]
        BY <1>0, <2>1, <2>2
    <2> QED
        BY <2>2, <2>3 DEF OneMore
<1> QED
    BY <1>1, <1>2

LEMMA RestoreMore ==
    ASSUME TypeOK, Restore
    PROVE  OneMore(state_stack', state_stack) /\ real_size' = state_stack[1].size
<1>0. /\ state_stack \in Seq(EntriesOf(values)) /\ state_stack # <<>>
      /\ real_size' = state_stack[1].size /\ 1 \in 1..Len(state_stack)
    BY RestoreCases DEF TypeOK, EntriesOf
<1>1. /\ state_stack[1] \in EntriesOf(values) /\ Head(state_stack) = state_stack[1]
      /\ state_stack[1].n \in Nat /\ state_stack[1].n >= 1 /\ 1 \in DOMAIN state_stack
    <2>1. state_stack[1] \in EntriesOf(values) /\ Head(state_stack) = state_stack[1]
          /\ 1 \in DOMAIN state_stack
        BY <1>0
    <2> QED
        BY <2>1 DEF EntriesOf
<1>2. CASE state_stack[1].n > 1
    <2> DEFINE top == [state_stack[1] EXCEPT !.n = state_stack[1].n - 1]
    <2>1. state_stack' = [state_stack EXCEPT ![1] = top]
        BY <1>1, <1>2 DEF Restore
    <2>2. top.size = state_stack[1].size /\ top.n = state_stack[1].n - 1
        BY <1>1 DEF EntriesOf
    <2> HIDE DEF top
    <2>3. /\ Len(state_stack') = Len(state_stack) /\ state_stack'[1] = top /\ state_stack' # <<>>
          /\ \A e \in 2..Len(state_stack) : state_stack'[e] = state_stack[e]
        BY <1>0, <1>1, <2>1
    <2>4. state_stack[1].n = state_stack'[1].n + 1 /\ state_stack[1].size = state_stack'[1].size
        BY <1>1, <2>2, <2>3
    <2>5. \A e \in 2..Len(state_stack') : state_stack[e] = state_stack'[e]
        BY <2>3
    <2>6. Len(state_stack) = Len(state_stack')
        BY <2>3
    <2> QED
        BY <1>0, <2>3, <2>4, <2>5, <2>6, Zenon DEF OneMore
<1>3. CASE ~(state_stack[1].n > 1)
    <2>1. state_stack' = Tail(state_stack) /\ state_stack[1].n = 1
        BY <1>1, <1>3 DEF Restore
    <2>2. /\ Len(state_stack) = Len(state_stack') + 1
          /\ \A e \in 1..Len(state_stack') : state_stack[e + 1] = state_stack'[e]
        BY <1>0, <2>1
    <2> QED
        BY <1>0, <2>1, <2>2, Zenon DEF OneMore
<1> QED
    BY <1>2, <1>3

LEMMA SavedTyped ==
    ASSUME NEW v \in Seq(Elements), NEW s \in Seq(EntriesOf(v))
    PROVE  SavedOf(v, s) \in Seq(SUBSET Elements) /\ SavedOf(v, <<>>) = <<>>
<1>1. SavedOf(v, <<>>) = <<>>
    <2>1. RunsOf(v, <<>>) = <<>>
        BY DEF RunsOf
    <2> QED
        BY <2>1 DEF SavedOf, SE!FlattenSeq
<1> DEFINE t == RunsOf(v, s)
<1>2. t \in Seq(Seq(SUBSET Elements))
    BY RunsTyped
<1>3. CASE t = <<>>
    <2>1. SE!FlattenSeq(t) = <<>>
        BY <1>3 DEF SE!FlattenSeq
    <2> QED
        BY <1>1, <2>1 DEF SavedOf
<1>4. CASE t # <<>>
    <2> HIDE DEF t
    <2>1. PICK f : /\ \A i \in 1..Len(t) : f[i] \in Seq(SUBSET Elements)
                   /\ SE!FlattenSeq(t) = f[Len(t)]
        BY <1>2, <1>4, JoinsHold
    <2>2. Len(t) \in 1..Len(t)
        BY <1>2, <1>4
    <2>3. SE!FlattenSeq(t) \in Seq(SUBSET Elements)
        BY <2>1, <2>2
    <2> QED
        BY <1>1, <2>3 DEF SavedOf, t
<1> QED
    BY <1>3, <1>4

LEMMA InsertAdds ==
    ASSUME IndInv, NEW x \in Elements, Insert(x)
    PROVE  /\ SavedOf(values, state_stack) = <<>> /\ SavedOf(values', state_stack') = <<>>
           /\ PrefixOf(values, real_size) = PrefixOf(values, Len(values))
           /\ PrefixOf(values', real_size') = PrefixOf(values, real_size) \cup {x}
           /\ PrefixOf(values', Len(values')) = PrefixOf(values', real_size')
<1>1. /\ values \in Seq(Elements) /\ positions \in [Elements -> 0..Len(values)]
      /\ PositionsInvert /\ IndInv'
    BY InsertInv DEF IndInv, TypeOK
<1>2. state_stack = <<>> /\ state_stack' = <<>> /\ real_size = Len(values)
    BY DEF Insert
<1>3. values' \in Seq(Elements)
    BY <1>1 DEF IndInv, TypeOK
<1>4. SavedOf(values, state_stack) = <<>> /\ SavedOf(values', state_stack') = <<>>
    <2>1. <<>> \in Seq(EntriesOf(values)) /\ <<>> \in Seq(EntriesOf(values'))
        OBVIOUS
    <2> QED
        BY <1>1, <1>2, <1>3, <2>1, SavedTyped
<1>5. CASE Has(x)
    <2>1. values' = values /\ real_size' = real_size
        BY <1>5 DEF Insert
    <2>2. positions[x] \in 1..real_size /\ values[positions[x]] = x
        BY <1>1, <1>2, <1>5 DEF Has, PositionsInvert
    <2> QED
        BY <1>2, <1>4, <2>1, <2>2 DEF PrefixOf
<1>6. CASE ~Has(x)
    <2>1. values' = Append(values, x) /\ real_size' = real_size + 1
        BY <1>6 DEF Insert
    <2>2. /\ Len(values) \in Nat /\ Len(values') = Len(values) + 1
          /\ \A i \in 1..Len(values) : values'[i] = values[i]
          /\ values'[Len(values) + 1] = x
        BY <1>1, <2>1
    <2>3. \A i \in 1..Len(values) + 1 : i \in 1..Len(values) \/ i = Len(values) + 1
        BY <2>2
    <2>4. \A i \in 1..Len(values) : i \in 1..Len(values) + 1
        BY <2>2
    <2>5. Len(values) + 1 \in 1..Len(values) + 1
        BY <2>2
    <2> QED
        BY <1>2, <1>4, <2>1, <2>2, <2>3, <2>4, <2>5 DEF PrefixOf
<1> QED
    BY <1>5, <1>6

LEMMA RemoveDeletes ==
    ASSUME IndInv, NEW x \in Elements, Remove(x)
    PROVE  /\ x \in PrefixOf(values, real_size)
           /\ PrefixOf(values', real_size') = PrefixOf(values, real_size) \ {x}
           /\ PrefixOf(values', Len(values')) = PrefixOf(values, Len(values))
           /\ SavedOf(values', state_stack') = SavedOf(values, state_stack)
<1>0. TypeOK /\ PositionsInvert /\ SizesNest
    BY DEF IndInv
<1>1. PICK p \in 1..real_size :
            /\ real_size \in 1..Len(values) /\ p \in 1..Len(values)
            /\ values[p] = x /\ positions[x] = p
            /\ values' = [values EXCEPT ![p] = values[real_size], ![real_size] = x]
            /\ real_size' = real_size - 1 /\ state_stack' = state_stack
    BY RemoveExchanges
<1> DEFINE n == Len(values)
           r == real_size
<1>2. n \in Nat /\ values \in Seq(Elements) /\ DOMAIN values = 1..n /\ Len(values') = n
    BY <1>0, <1>1 DEF TypeOK
<1>3. \A k \in r..n : PrefixOf(values', k) = PrefixOf(values, k)
    <2> TAKE k \in r..n
    <2>1. values' = [values EXCEPT ![p] = values[r], ![r] = values[p]]
        BY <1>1
    <2>2. {values'[i] : i \in 1..k} = {values[i] : i \in 1..k}
        BY <1>1, <1>2, <2>1, ExchangeKeepsParts
    <2> QED
        BY <2>2 DEF PrefixOf
<1>4. x \in PrefixOf(values, r)
    BY <1>1 DEF PrefixOf
<1>5. PrefixOf(values', real_size') = PrefixOf(values, r) \ {x}
    <2>1. \A i, j \in 1..n : values[i] = values[j] => i = j
        <3>1. \A i \in 1..n : positions[values[i]] = i
            BY <1>0, <1>2 DEF PositionsInvert
        <3> QED
            BY <3>1
    <2>2. /\ \A i \in 1..r - 1 : i # p => values'[i] = values[i]
          /\ p \in 1..r - 1 => values'[p] = values[r]
        BY <1>1, <1>2
    <2>3. \A i \in 1..r - 1 : i \in 1..r /\ i \in 1..n /\ i # r
        BY <1>1, <1>2
    <2>4. \A i \in 1..r : i \in 1..n /\ (i # r => i \in 1..r - 1)
        BY <1>1, <1>2
    <2>5. p \in 1..n /\ r \in 1..n /\ r \in 1..r /\ p \in 1..r
        BY <1>1, <1>2
    <2>6. ASSUME NEW i \in 1..r - 1
          PROVE  \E j \in 1..r : values'[i] = values[j] /\ values[j] # x
        <3>1. CASE i = p
            BY <1>1, <2>1, <2>2, <2>3, <2>5, <3>1
        <3>2. CASE i # p
            BY <1>1, <2>1, <2>2, <2>3, <2>5, <3>2
        <3> QED
            BY <3>1, <3>2
    <2>7. ASSUME NEW j \in 1..r, values[j] # x
          PROVE  \E i \in 1..r - 1 : values[j] = values'[i]
        <3>1. CASE j = r
            <4>1. p \in 1..r - 1
                BY <1>1, <2>4, <2>5, <2>7, <3>1
            <4> QED
                BY <2>2, <3>1, <4>1
        <3>2. CASE j # r
            <4>1. j \in 1..r - 1 /\ j # p
                BY <1>1, <2>4, <2>7, <3>2
            <4> QED
                BY <2>2, <4>1
        <3> QED
            BY <3>1, <3>2
    <2>8. {values'[i] : i \in 1..r - 1} = {values[i] : i \in 1..r} \ {x}
        BY <2>6, <2>7
    <2> QED
        BY <1>1, <2>8 DEF PrefixOf
<1>6. PrefixOf(values', Len(values')) = PrefixOf(values, n)
    <2>1. n \in r..n
        BY <1>1, <1>2
    <2> QED
        BY <1>2, <1>3, <2>1
<1>7. SavedOf(values', state_stack') = SavedOf(values, state_stack)
    <2>1. ASSUME NEW e \in DOMAIN state_stack
          PROVE  RunOf(values', state_stack[e]) = RunOf(values, state_stack[e])
        <3> DEFINE k == state_stack[e].size
        <3>1. k \in Int /\ r <= k /\ k <= n
            BY <1>0, StackEntries DEF SizesNest
        <3> HIDE DEF k
        <3>2. k \in r..n
            BY <1>1, <1>2, <3>1
        <3>3. PrefixOf(values', k) = PrefixOf(values, k)
            BY <1>3, <3>2
        <3> QED
            BY <3>3 DEF RunOf, k
    <2>2. RunsOf(values', state_stack) = RunsOf(values, state_stack)
        BY <2>1 DEF RunsOf
    <2> QED
        BY <1>1, <2>2 DEF SavedOf
<1> QED
    BY <1>4, <1>5, <1>6, <1>7

(* What the refinement maps to the set, to all elements and to the saved sets. *)
LEMMA TheMapping ==
    /\ Prefix(real_size) = PrefixOf(values, real_size)
    /\ Prefix(Len(values)) = PrefixOf(values, Len(values))
    /\ SE!FlattenSeq([e \in DOMAIN state_stack |->
            [k \in 1..state_stack[e].n |-> Prefix(state_stack[e].size)]])
       = SavedOf(values, state_stack)
<1>1. \A k : Prefix(k) = PrefixOf(values, k)
    BY DEF Prefix, PrefixOf
<1>2. [e \in DOMAIN state_stack |-> [k \in 1..state_stack[e].n |-> Prefix(state_stack[e].size)]]
      = RunsOf(values, state_stack)
    BY DEF RunsOf, RunOf, Prefix, PrefixOf
<1> QED
    BY <1>1, <1>2 DEF SavedOf

LEMMA TheMappingNext ==
    /\ Prefix(real_size)' = PrefixOf(values', real_size')
    /\ Prefix(Len(values))' = PrefixOf(values', Len(values'))
    /\ SE!FlattenSeq([e \in DOMAIN state_stack |->
            [k \in 1..state_stack[e].n |-> Prefix(state_stack[e].size)]])'
       = SavedOf(values', state_stack')
<1>1. /\ Prefix(real_size)' = PrefixOf(values', real_size')
      /\ Prefix(Len(values))' = PrefixOf(values', Len(values'))
    BY DEF Prefix, PrefixOf
<1>2. [e \in DOMAIN state_stack |-> [k \in 1..state_stack[e].n |-> Prefix(state_stack[e].size)]]'
      = RunsOf(values', state_stack')
    BY DEF RunsOf, RunOf, Prefix, PrefixOf
<1> QED
    BY <1>1, <1>2 DEF SavedOf

LEMMA InitRefines == Init => Plain!Init
<1> SUFFICES ASSUME Init PROVE Plain!Init
    OBVIOUS
<1>1. values = <<>> /\ state_stack = <<>> /\ real_size = 0
    BY DEF Init
<1>2. PrefixOf(values, real_size) = {} /\ PrefixOf(values, Len(values)) = {}
    BY <1>1 DEF PrefixOf
<1>3. SavedOf(values, state_stack) = <<>>
    <2>1. values \in Seq(Elements) /\ <<>> \in Seq(EntriesOf(values))
        BY <1>1
    <2> QED
        BY <1>1, <2>1, SavedTyped
<1> QED
    BY <1>2, <1>3, TheMapping DEF Plain!Init

LEMMA StepRefines == IndInv /\ [Next]_vars => [Plain!Next]_(Plain!svars)
<1> SUFFICES ASSUME IndInv, [Next]_vars PROVE [Plain!Next]_(Plain!svars)
    OBVIOUS
<1>0. /\ TypeOK /\ values \in Seq(Elements)
      /\ state_stack \in Seq(EntriesOf(values)) /\ real_size \in 0..Len(values)
    BY DEF IndInv, TypeOK, EntriesOf
<1>1. CASE UNCHANGED vars
    <2>1. /\ PrefixOf(values', real_size') = PrefixOf(values, real_size)
          /\ PrefixOf(values', Len(values')) = PrefixOf(values, Len(values))
          /\ SavedOf(values', state_stack') = SavedOf(values, state_stack)
        BY <1>1 DEF vars
    <2> QED
        BY <2>1, TheMapping, TheMappingNext DEF Plain!svars
<1>2. ASSUME NEW x \in Elements, Insert(x)
      PROVE  Plain!Insert(x)
    BY <1>2, InsertAdds, TheMapping, TheMappingNext DEF Plain!Insert
<1>3. ASSUME NEW x \in Elements, Remove(x)
      PROVE  Plain!Remove(x)
    BY <1>3, RemoveDeletes, TheMapping, TheMappingNext DEF Plain!Remove
<1>4. ASSUME Save
      PROVE  Plain!Save
    <2>1. values' = values /\ real_size' = real_size
        BY <1>4 DEF Save
    <2>2. state_stack' \in Seq(EntriesOf(values))
        BY <1>0, <1>4, SaveCases DEF EntriesOf
    <2>3. OneMore(state_stack, state_stack') /\ state_stack'[1].size = real_size
        BY <1>0, <1>4, SaveMore
    <2>4. SavedOf(values, state_stack') =
          <<PrefixOf(values, state_stack'[1].size)>> \o SavedOf(values, state_stack)
        BY <1>0, <2>2, <2>3, SavedGrows
    <2>5. SavedOf(values', state_stack') =
          <<PrefixOf(values, real_size)>> \o SavedOf(values, state_stack)
        BY <2>1, <2>3, <2>4
    <2> QED
        BY <2>1, <2>5, TheMapping, TheMappingNext DEF Plain!Save
<1>5. ASSUME Restore
      PROVE  Plain!Restore
    <2>1. values' = values
        BY <1>5 DEF Restore
    <2>2. state_stack' \in Seq(EntriesOf(values))
        BY <1>0, <1>5, RestoreCases DEF EntriesOf
    <2>3. OneMore(state_stack', state_stack) /\ real_size' = state_stack[1].size
        BY <1>0, <1>5, RestoreMore
    <2> DEFINE P == PrefixOf(values, real_size')
               rest == SavedOf(values', state_stack')
    <2>4. SavedOf(values, state_stack) = <<P>> \o rest
        BY <1>0, <2>1, <2>2, <2>3, SavedGrows
    <2>5. rest \in Seq(SUBSET Elements)
        BY <1>0, <2>1, <2>2, SavedTyped
    <2>6. PrefixOf(values', real_size') = P /\ PrefixOf(values', Len(values')) = PrefixOf(values, Len(values))
        BY <2>1
    <2>7. P \in SUBSET Elements
        <3>1. real_size' \in 0..Len(values')
            <4>1. IndInv'
                BY <1>5, RestoreInv
            <4> QED
                BY <4>1 DEF IndInv, TypeOK
        <3> QED
            BY <1>0, <2>1, <3>1 DEF PrefixOf
    <2> HIDE DEF P, rest
    <2>8. <<P>> \o rest # <<>> /\ Head(<<P>> \o rest) = P /\ Tail(<<P>> \o rest) = rest
        BY <2>5, <2>7
    <2> DEFINE s == SavedOf(values, state_stack)
    <2>9. s # <<>> /\ PrefixOf(values', real_size') = Head(s) /\ SavedOf(values', state_stack') = Tail(s)
        BY <2>4, <2>6, <2>8 DEF rest
    <2> QED
        BY <2>6, <2>9, TheMapping, TheMappingNext DEF Plain!Restore
<1> QED
    BY <1>1, <1>2, <1>3, <1>4, <1>5 DEF Next, Plain!Next

(* The vector with its stack of counted sizes is the set with a stack of earlier *)
(* sets that its comment describes: a restore brings back the set of the last  *)
(* save that was not restored, whatever was exchanged since.                 *)
THEOREM IsABacktrackingSet == Spec => Backtracks
<1>1. Init => Plain!Init
    BY InitRefines
<1>2. IndInv /\ [Next]_vars => [Plain!Next]_(Plain!svars)
    BY StepRefines
<1> QED
    BY <1>1, <1>2, Inductive, PTL DEF Spec, Backtracks, Plain!SSpec

-------------------------------------------------------------------------------
(* The three set classes.  A map or a bitset has all indices below its capacity. *)
Classes == {"index_set", "index_bitset", "index_set_monotone"}

MapShape(m) ==
    /\ m = [i \in DOMAIN m |-> m[i]]
    /\ DOMAIN m \subseteq Nat
    /\ \A i \in DOMAIN m : \A j \in Nat : j <= i => j \in DOMAIN m

Listed(v, x) == \E k \in 1..Len(v) : v[k] = x

FlagsTell(v, m) ==
    \A x \in SetIndices : (x \in DOMAIN m /\ m[x] # FALSE) <=> Listed(v, x)

PlacesInvert(v, m) ==
    /\ \A x \in DOMAIN m : m[x] \in 0..Len(v) /\ (m[x] # 0 => v[m[x]] = x)
    /\ \A k \in 1..Len(v) : v[k] \in DOMAIN m /\ m[v[k]] = k

SetsInv ==
    /\ class \in Classes \cup {"none"}
    /\ set_values \in Seq(SetIndices)
    /\ class = "none" => set_values = <<>>
    /\ class # "none" => MapShape(set_map)
    /\ class = "index_set_monotone" => FlagsTell(set_values, set_map)
    /\ class = "index_set" => PlacesInvert(set_values, set_map)

LEMMA NullIs ==
    /\ class = "index_set" => Sets!Null = 0
    /\ class \in {"index_bitset", "index_set_monotone"} => Sets!Null = FALSE
BY DEF Sets!Null, Sets!NullOf

LEMMA HasIsMember ==
    ASSUME SetsInv, class # "none", NEW x \in SetIndices
    PROVE  Sets!Has(x) <=> x \in Sets!Members
<1>0. /\ class \in Classes /\ set_values \in Seq(SetIndices) /\ MapShape(set_map)
      /\ DOMAIN set_values = 1..Len(set_values) /\ Len(set_values) \in Nat
    BY DEF SetsInv
<1>1. CASE class = "index_bitset"
    BY <1>1 DEF Sets!Members
<1>2. CASE class = "index_set_monotone"
    <2>1. Sets!Has(x) <=> Listed(set_values, x)
        BY <1>2, NullIs DEF SetsInv, FlagsTell, Sets!Has, Sets!HasIn, Sets!HasIndex
    <2>2. x \in Sets!Members <=> Listed(set_values, x)
        BY <1>0, <1>2 DEF Sets!Members, Listed
    <2> QED
        BY <2>1, <2>2
<1>3. CASE class = "index_set"
    <2>1. Sets!Has(x) <=> x \in DOMAIN set_map /\ set_map[x] # 0
        BY <1>3, NullIs DEF Sets!Has, Sets!HasIn, Sets!HasIndex
    <2>2. x \in Sets!Members <=> Listed(set_values, x)
        BY <1>0, <1>3 DEF Sets!Members, Listed
    <2>3. PlacesInvert(set_values, set_map)
        BY <1>3 DEF SetsInv
    <2>4. x \in DOMAIN set_map /\ set_map[x] # 0 => Listed(set_values, x)
        BY <1>0, <2>3 DEF PlacesInvert, Listed
    <2>5. Listed(set_values, x) => x \in DOMAIN set_map /\ set_map[x] # 0
        BY <1>0, <2>3 DEF PlacesInvert, Listed
    <2> QED
        BY <2>1, <2>2, <2>4, <2>5
<1> QED
    BY <1>0, <1>1, <1>2, <1>3 DEF Classes

LEMMA MembersAreIndices ==
    ASSUME SetsInv
    PROVE  Sets!Members \subseteq SetIndices
<1>1. \A k \in DOMAIN set_values : set_values[k] \in SetIndices
    BY DEF SetsInv
<1> QED
    BY <1>1 DEF Sets!Members

(* Writing a map makes it as long as needed and changes one entry. *)
LEMMA PutFacts ==
    ASSUME NEW m, MapShape(m), NEW i \in Nat, NEW value
    PROVE  /\ MapShape(Sets!Put(m, i, value))
           /\ i \in DOMAIN Sets!Put(m, i, value) /\ Sets!Put(m, i, value)[i] = value
           /\ \A j \in DOMAIN m : j \in DOMAIN Sets!Put(m, i, value)
           /\ \A j \in DOMAIN Sets!Put(m, i, value) : j # i =>
                Sets!Put(m, i, value)[j] = IF j \in DOMAIN m THEN m[j] ELSE Sets!Null
<1> DEFINE r == Sets!Reserved(m, i)
           null == Sets!Null
<1>1. /\ r = [j \in DOMAIN r |-> IF j \in DOMAIN m THEN m[j] ELSE null]
      /\ DOMAIN r \subseteq Nat /\ i \in DOMAIN r /\ DOMAIN m \subseteq DOMAIN r
      /\ \A k \in DOMAIN r : \A j \in Nat : j <= k => j \in DOMAIN r
    <2>1. CASE i \in DOMAIN m
        <3>1. r = m
            BY <2>1 DEF Sets!Reserved, Sets!HasIndex
        <3> QED
            BY <2>1, <3>1 DEF MapShape
    <2>2. CASE i \notin DOMAIN m
        <3>1. r = [j \in 0..i |-> IF j \in DOMAIN m THEN m[j] ELSE null]
            BY <2>2 DEF Sets!Reserved, Sets!HasIndex
        <3>2. ASSUME NEW j \in DOMAIN m PROVE j \in 0..i
            <4>1. j \in Nat /\ (i <= j => i \in DOMAIN m)
                BY <3>2 DEF MapShape
            <4> QED
                BY <2>2, <4>1
        <3> HIDE DEF null, r
        <3> QED
            BY <3>1, <3>2
    <2> QED
        BY <2>1, <2>2
<1>2. Sets!Put(m, i, value) = [r EXCEPT ![i] = value]
    BY DEF Sets!Put
<1> HIDE DEF r, null
<1>3. Sets!Put(m, i, value) =
        [j \in DOMAIN r |-> IF j = i THEN value ELSE IF j \in DOMAIN m THEN m[j] ELSE null]
    BY <1>1, <1>2
<1> QED
    BY <1>1, <1>3 DEF MapShape, null

LEMMA DroppedFacts ==
    ASSUME NEW m, MapShape(m), NEW i \in Nat
    PROVE  /\ MapShape(Sets!Dropped(m, i)) /\ DOMAIN Sets!Dropped(m, i) = DOMAIN m
           /\ i \in DOMAIN m => Sets!Dropped(m, i)[i] = Sets!Null
           /\ \A j \in DOMAIN m : j # i => Sets!Dropped(m, i)[j] = m[j]
<1>1. CASE i \notin DOMAIN m
    BY <1>1 DEF Sets!Dropped, Sets!HasIndex
<1>2. CASE i \in DOMAIN m
    <2> DEFINE null == Sets!Null
    <2>1. Sets!Dropped(m, i) = [m EXCEPT ![i] = null]
        BY <1>2 DEF Sets!Dropped, Sets!Put, Sets!Reserved, Sets!HasIndex
    <2> HIDE DEF null
    <2>2. Sets!Dropped(m, i) = [j \in DOMAIN m |-> IF j = i THEN null ELSE m[j]]
        BY <2>1 DEF MapShape
    <2> QED
        BY <1>2, <2>2 DEF MapShape, null
<1> QED
    BY <1>1, <1>2

NullFor(c) == IF c = "index_set" THEN 0 ELSE FALSE

HasOf(c, m, x) == x \in DOMAIN m /\ m[x] # NullFor(c)

(* The members are the indices for which has() is true. *)
MembersHave == class # "none" => Sets!Members = {x \in SetIndices : HasOf(class, set_map, x)}

LEMMA MembersAre == SetsInv => MembersHave
<1> SUFFICES ASSUME SetsInv, class # "none"
             PROVE  Sets!Members = {x \in SetIndices : HasOf(class, set_map, x)}
    BY DEF MembersHave
<1>1. class \in Classes
    BY DEF SetsInv
<1>2. \A x : Sets!Has(x) <=> HasOf(class, set_map, x)
    BY <1>1, NullIs DEF Classes, Sets!Has, Sets!HasIn, Sets!HasIndex, HasOf, NullFor
<1>3. \A x \in SetIndices : HasOf(class, set_map, x) <=> x \in Sets!Members
    BY <1>2, HasIsMember
<1> QED
    BY <1>3, MembersAreIndices

LEMMA SetsInitInv == NoSet \/ Sets!Init => SetsInv
<1>1. ASSUME NoSet PROVE SetsInv
    BY <1>1 DEF NoSet, SetsInv
<1>2. ASSUME Sets!Init PROVE SetsInv
    <2>1. class \in Classes /\ set_values = <<>> /\ DOMAIN set_map = {} /\ MapShape(set_map)
        BY <1>2 DEF Sets!Init, Sets!NullOf, Classes, Sets!NoMap, MapShape
    <2>2. FlagsTell(set_values, set_map) /\ PlacesInvert(set_values, set_map)
        BY <2>1 DEF FlagsTell, PlacesInvert, Listed
    <2> QED
        BY <2>1, <2>2 DEF SetsInv, Classes
<1> QED
    BY <1>1, <1>2

LEMMA SetsInsert ==
    ASSUME SetsInv, class # "none", NEW i \in SetIndices, Sets!Insert(i)
    PROVE  /\ SetsInv' /\ class' = class
           /\ \A x \in SetIndices : HasOf(class, set_map', x) <=> HasOf(class, set_map, x) \/ x = i
<1>0. /\ class \in Classes /\ class' = class /\ MapShape(set_map)
      /\ set_values \in Seq(SetIndices) /\ Len(set_values) \in Nat /\ i \in Nat
    BY IndicesAssumption DEF SetsInv, Sets!Insert
<1>1. Sets!Has(i) <=> HasOf(class, set_map, i)
    BY <1>0, NullIs DEF Classes, Sets!Has, Sets!HasIn, Sets!HasIndex, HasOf, NullFor
<1>2. CASE class # "index_bitset" /\ Sets!Has(i)
    <2>1. UNCHANGED <<set_values, set_map>>
        BY <1>2 DEF Sets!Insert
    <2> QED
        BY <1>0, <1>1, <1>2, <2>1 DEF SetsInv
<1>3. CASE class = "index_bitset" \/ ~Sets!Has(i)
    <2> DEFINE value == IF class = "index_set" THEN Len(set_values') ELSE TRUE
               m == Sets!Put(set_map, i, value)
    <2>1. /\ set_values' = IF class = "index_bitset" THEN set_values ELSE Append(set_values, i)
          /\ set_map' = m
        BY <1>3 DEF Sets!Insert
    <2>2. /\ MapShape(m) /\ i \in DOMAIN m /\ m[i] = value
          /\ \A j \in DOMAIN set_map : j \in DOMAIN m
          /\ \A j \in DOMAIN m : j # i =>
                m[j] = IF j \in DOMAIN set_map THEN set_map[j] ELSE Sets!Null
        <3> HIDE DEF value
        <3> QED
            BY <1>0, PutFacts
    <2>3. /\ Len(Append(set_values, i)) = Len(set_values) + 1
          /\ Append(set_values, i) \in Seq(SetIndices)
          /\ \A k \in 1..Len(set_values) : Append(set_values, i)[k] = set_values[k]
          /\ Append(set_values, i)[Len(set_values) + 1] = i
        BY <1>0
    <2>4. Sets!Null = NullFor(class)
        BY <1>0, NullIs DEF NullFor, Classes
    <2>5. value # NullFor(class) /\ (class = "index_set" => value = Len(set_values) + 1)
        <3>1. CASE class = "index_set"
            <4>1. value = Len(set_values) + 1 /\ NullFor(class) = 0
                BY <2>1, <2>3, <3>1 DEF NullFor
            <4>2. Len(set_values) + 1 # 0
                BY <1>0
            <4> HIDE DEF value
            <4> QED
                BY <4>1, <4>2
        <3>2. CASE class # "index_set"
            <4>1. value = TRUE /\ NullFor(class) = FALSE
                BY <3>2 DEF NullFor
            <4> QED
                BY <3>2, <4>1
        <3> QED
            BY <3>1, <3>2
    <2> HIDE DEF m, value
    <2>6. \A x \in SetIndices : HasOf(class, m, x) <=> HasOf(class, set_map, x) \/ x = i
        BY <2>2, <2>4, <2>5 DEF HasOf
    <2>7. CASE class = "index_bitset"
        BY <1>0, <2>1, <2>2, <2>6, <2>7 DEF SetsInv
    <2>8. CASE class = "index_set_monotone"
        <3>1. /\ \A x : Listed(set_values', x) <=> Listed(set_values, x) \/ x = i
              /\ set_values' \in Seq(SetIndices)
            BY <1>0, <2>1, <2>3, <2>8 DEF Listed
        <3>2. FlagsTell(set_values, set_map)
            BY <2>8 DEF SetsInv
        <3>3. \A x \in SetIndices : HasOf(class, set_map, x) <=> Listed(set_values, x)
            BY <2>8, <3>2 DEF FlagsTell, HasOf, NullFor
        <3>4. \A x \in SetIndices : HasOf(class, m, x) <=> Listed(set_values', x)
            BY <2>6, <3>1, <3>3
        <3>5. FlagsTell(set_values', m)
            BY <2>8, <3>4 DEF FlagsTell, HasOf, NullFor
        <3> QED
            BY <1>0, <2>1, <2>2, <2>6, <2>8, <3>1, <3>5 DEF SetsInv
    <2>9. CASE class = "index_set"
        <3>1. PlacesInvert(set_values, set_map) /\ ~HasOf(class, set_map, i)
            BY <1>1, <1>3, <2>9 DEF SetsInv
        <3>2. set_values' = Append(set_values, i) /\ value = Len(set_values) + 1 /\ NullFor(class) = 0
            BY <2>1, <2>5, <2>9 DEF NullFor
        <3>3. i \in DOMAIN set_map => set_map[i] = 0
            BY <3>1, <3>2 DEF HasOf
        <3>4. ASSUME NEW x \in DOMAIN m
              PROVE  m[x] \in 0..Len(set_values) + 1 /\ (m[x] # 0 => set_values'[m[x]] = x)
            <4>1. CASE x = i
                BY <1>0, <2>2, <2>3, <3>2, <4>1
            <4>2. CASE x # i /\ x \notin DOMAIN set_map
                BY <1>0, <2>2, <2>4, <3>2, <4>2
            <4>3. CASE x # i /\ x \in DOMAIN set_map
                <5>1. m[x] = set_map[x] /\ m[x] \in 0..Len(set_values)
                      /\ (m[x] # 0 => set_values[m[x]] = x)
                    BY <2>2, <3>1, <4>3 DEF PlacesInvert
                <5>2. m[x] # 0 => m[x] \in 1..Len(set_values)
                    BY <1>0, <5>1
                <5>3. m[x] \in 0..Len(set_values) + 1
                    BY <1>0, <5>1
                <5> QED
                    BY <2>3, <3>2, <5>1, <5>2, <5>3
            <4> QED
                BY <4>1, <4>2, <4>3
        <3>5. ASSUME NEW k \in 1..Len(set_values) + 1
              PROVE  set_values'[k] \in DOMAIN m /\ m[set_values'[k]] = k
            <4>1. CASE k = Len(set_values) + 1
                BY <2>2, <2>3, <3>2, <4>1
            <4>2. CASE k # Len(set_values) + 1
                <5>1. k \in 1..Len(set_values) /\ k # 0
                    BY <1>0, <4>2
                <5>2. set_values'[k] = set_values[k] /\ set_values[k] \in DOMAIN set_map
                      /\ set_map[set_values[k]] = k
                    BY <2>3, <3>1, <3>2, <5>1 DEF PlacesInvert
                <5>3. set_values[k] # i
                    BY <3>3, <5>1, <5>2
                <5> QED
                    BY <2>2, <5>2, <5>3
            <4> QED
                BY <4>1, <4>2
        <3>6. PlacesInvert(set_values', m)
            BY <2>3, <3>2, <3>4, <3>5 DEF PlacesInvert
        <3> QED
            BY <1>0, <2>1, <2>2, <2>3, <2>6, <2>9, <3>2, <3>6 DEF SetsInv
    <2> QED
        BY <1>0, <2>7, <2>8, <2>9 DEF Classes
<1> QED
    BY <1>2, <1>3

LEMMA SetsRemove ==
    ASSUME SetsInv, NEW i \in SetIndices, Sets!Remove(i)
    PROVE  /\ SetsInv' /\ class' = class
           /\ \A x \in SetIndices : HasOf(class, set_map', x) <=> HasOf(class, set_map, x) /\ x # i
<1> DEFINE n == Len(set_values)
<1>0. /\ class = "index_set" /\ class' = class /\ MapShape(set_map)
      /\ set_values \in Seq(SetIndices) /\ n \in Nat /\ i \in Nat /\ SetIndices \subseteq Nat
      /\ PlacesInvert(set_values, set_map) /\ NullFor(class) = 0 /\ Sets!Null = 0
    BY IndicesAssumption, NullIs DEF SetsInv, Sets!Remove, NullFor
<1>1. Sets!Has(i) <=> HasOf(class, set_map, i)
    BY <1>0 DEF Sets!Has, Sets!HasIn, Sets!HasIndex, HasOf
<1>2. CASE ~Sets!Has(i)
    <2>1. UNCHANGED <<set_values, set_map>>
        BY <1>2 DEF Sets!Remove
    <2> QED
        BY <1>0, <1>1, <1>2, <2>1 DEF SetsInv
<1>3. CASE Sets!Has(i)
    <2> DEFINE p == set_map[i]
               last == set_values[n]
               m == Sets!Put(set_map, last, p)
               d == Sets!Dropped(m, i)
    <2>1. i \in DOMAIN set_map /\ p \in 1..n /\ n \in 1..n /\ set_values[p] = i
        BY <1>0, <1>1, <1>3 DEF HasOf, PlacesInvert
    <2>2. Sets!SeqExt!Last(set_values) = last /\ last \in SetIndices /\ last \in Nat
        <3>1. Sets!SeqExt!Last(set_values) = last
            BY DEF Sets!SeqExt!Last
        <3>2. last \in SetIndices
            BY <1>0, <2>1
        <3> QED
            BY <1>0, <3>1, <3>2
    <2>3. set_map' = d /\ set_values' = Sets!SeqExt!Front([set_values EXCEPT ![p] = last])
        BY <1>3, <2>2 DEF Sets!Remove
    <2>4. /\ set_values' \in Seq(SetIndices) /\ Len(set_values') = n - 1
          /\ \A k \in 1..n - 1 : set_values'[k] = IF k = p THEN last ELSE set_values[k]
        <3> DEFINE v == [set_values EXCEPT ![p] = last]
        <3>1. v \in Seq(SetIndices) /\ Len(v) = n
              /\ \A k \in 1..n : v[k] = IF k = p THEN last ELSE set_values[k]
            BY <1>0, <2>1, <2>2
        <3> HIDE DEF v, last
        <3>2. Sets!SeqExt!Front(v) = SubSeq(v, 1, n - 1)
            BY <3>1 DEF Sets!SeqExt!Front
        <3>3. /\ SubSeq(v, 1, n - 1) \in Seq(SetIndices) /\ Len(SubSeq(v, 1, n - 1)) = n - 1
              /\ \A k \in 1..n - 1 : SubSeq(v, 1, n - 1)[k] = v[k] /\ k \in 1..n
            BY <1>0, <2>1, <3>1
        <3>4. set_values' = SubSeq(v, 1, n - 1)
            BY <2>3, <3>2 DEF v
        <3> QED
            BY <3>1, <3>3, <3>4
    <2>5. last \in DOMAIN set_map /\ set_map[last] = n
        BY <1>0, <2>1 DEF PlacesInvert
    <2> HIDE DEF p, last
    <2>6. /\ MapShape(m) /\ m[last] = p
          /\ \A j \in DOMAIN set_map : j \in DOMAIN m
          /\ \A j \in DOMAIN m : j # last => m[j] = IF j \in DOMAIN set_map THEN set_map[j] ELSE 0
        BY <1>0, <2>2, PutFacts
    <2> HIDE DEF m
    <2>7. /\ MapShape(d) /\ DOMAIN d = DOMAIN m /\ d[i] = 0
          /\ \A j \in DOMAIN m : j # i => d[j] = m[j]
        BY <1>0, <2>1, <2>6, DroppedFacts
    <2> HIDE DEF d
    <2>8. \A j \in DOMAIN d : d[j] = IF j = i THEN 0 ELSE IF j = last THEN p
                                     ELSE IF j \in DOMAIN set_map THEN set_map[j] ELSE 0
        BY <2>6, <2>7
    <2>9. p # 0 /\ n # 0 /\ (i # last => p # n) /\ (i = last => p = n)
        BY <2>1, <2>5 DEF p, last
    <2>10. \A x \in SetIndices : HasOf(class, d, x) <=> HasOf(class, set_map, x) /\ x # i
        BY <1>0, <2>5, <2>6, <2>7, <2>8, <2>9 DEF HasOf
    <2>11. ASSUME NEW x \in DOMAIN d
           PROVE  d[x] \in 0..n - 1 /\ (d[x] # 0 => set_values'[d[x]] = x)
        <3>1. CASE x = i \/ (x # last /\ x \notin DOMAIN set_map)
            <4>1. d[x] = 0
                BY <2>8, <3>1
            <4> QED
                BY <1>0, <2>1, <4>1
        <3>2. CASE x # i /\ x = last
            <4>1. d[x] = p /\ p # n
                BY <2>8, <2>9, <3>2
            <4>2. p \in 1..n - 1 /\ p \in 0..n - 1
                BY <1>0, <2>1, <4>1
            <4> QED
                BY <2>4, <3>2, <4>1, <4>2
        <3>3. CASE x # i /\ x # last /\ x \in DOMAIN set_map
            <4>1. d[x] = set_map[x]
                BY <2>8, <3>3
            <4>2. set_map[x] \in 0..n /\ (set_map[x] # 0 => set_values[set_map[x]] = x)
                BY <1>0, <3>3 DEF PlacesInvert
            <4>3. set_map[x] # 0 => set_map[x] # n /\ set_map[x] # p
                BY <2>1, <3>3, <4>2 DEF last
            <4>4. set_map[x] \in 0..n - 1 /\ (set_map[x] # 0 => set_map[x] \in 1..n - 1)
                BY <1>0, <2>1, <4>2, <4>3
            <4> QED
                BY <2>4, <4>1, <4>2, <4>3, <4>4
        <3> QED
            BY <3>1, <3>2, <3>3
    <2>12. ASSUME NEW k \in 1..n - 1
           PROVE  set_values'[k] \in DOMAIN d /\ d[set_values'[k]] = k
        <3>0. k \in 1..n /\ k # n
            BY <1>0
        <3>1. CASE k = p
            <4>1. set_values'[k] = last /\ last # i
                BY <2>4, <2>9, <3>0, <3>1
            <4> QED
                BY <2>5, <2>6, <2>7, <2>8, <3>1, <4>1
        <3>2. CASE k # p
            <4>1. set_values'[k] = set_values[k]
                BY <2>4, <3>2
            <4>2. set_values[k] \in DOMAIN set_map /\ set_map[set_values[k]] = k
                BY <1>0, <3>0 DEF PlacesInvert
            <4>3. set_values[k] # i /\ set_values[k] # last
                BY <2>5, <3>0, <3>2, <4>2 DEF p
            <4> QED
                BY <2>6, <2>7, <2>8, <4>1, <4>2, <4>3
        <3> QED
            BY <3>1, <3>2
    <2>13. PlacesInvert(set_values', d)
        BY <2>4, <2>11, <2>12 DEF PlacesInvert
    <2> QED
        BY <1>0, <2>3, <2>4, <2>7, <2>10, <2>13 DEF SetsInv
<1> QED
    BY <1>2, <1>3

LEMMA SetsRemoveBit ==
    ASSUME SetsInv, NEW i \in SetIndices, Sets!RemoveBit(i)
    PROVE  /\ SetsInv' /\ class' = class
           /\ \A x \in SetIndices : HasOf(class, set_map', x) <=> HasOf(class, set_map, x) /\ x # i
<1>0. /\ class = "index_bitset" /\ class' = class /\ set_values' = set_values
      /\ MapShape(set_map) /\ i \in Nat
      /\ NullFor(class) = FALSE /\ Sets!Null = FALSE
    BY IndicesAssumption, NullIs DEF SetsInv, Sets!RemoveBit, NullFor
<1> DEFINE d == Sets!Dropped(set_map, i)
<1>1. set_map' = d
    BY DEF Sets!RemoveBit
<1>2. /\ MapShape(d) /\ DOMAIN d = DOMAIN set_map
      /\ i \in DOMAIN set_map => d[i] = FALSE
      /\ \A j \in DOMAIN set_map : j # i => d[j] = set_map[j]
    BY <1>0, DroppedFacts
<1> HIDE DEF d
<1>3. \A x \in SetIndices : HasOf(class, d, x) <=> HasOf(class, set_map, x) /\ x # i
    BY <1>0, <1>2 DEF HasOf
<1> QED
    BY <1>0, <1>1, <1>2, <1>3 DEF SetsInv

LEMMA SetsClear ==
    ASSUME SetsInv, class # "none", Sets!Clear
    PROVE  /\ SetsInv' /\ class' = class
           /\ \A x \in SetIndices : ~HasOf(class, set_map', x)
<1>1. class' = class /\ set_values' = <<>> /\ DOMAIN set_map' = {} /\ MapShape(set_map')
    BY DEF Sets!Clear, Sets!NoMap, MapShape
<1>2. FlagsTell(set_values', set_map') /\ PlacesInvert(set_values', set_map')
    BY <1>1 DEF FlagsTell, PlacesInvert, Listed
<1> QED
    BY <1>1, <1>2 DEF SetsInv, HasOf

LEMMA SetsClearMonotone ==
    ASSUME SetsInv, Sets!ClearMonotone
    PROVE  /\ SetsInv' /\ class' = class
           /\ \A x \in SetIndices : ~HasOf(class, set_map', x)
<1>0. /\ class = "index_set_monotone" /\ class' = class /\ set_values' = <<>>
      /\ MapShape(set_map) /\ FlagsTell(set_values, set_map) /\ set_values \in Seq(SetIndices)
      /\ NullFor(class) = FALSE
    BY DEF SetsInv, Sets!ClearMonotone, NullFor
<1> DEFINE kept(i) == set_map[i] /\ \A k \in DOMAIN set_values : set_values[k] # i
           d == [i \in DOMAIN set_map |-> kept(i)]
<1>1. set_map' = d \/ set_map' = Sets!NoMap
    BY DEF Sets!ClearMonotone
<1>2. CASE set_map' = d
    <2>1. ASSUME NEW i \in SetIndices, i \in DOMAIN set_map
          PROVE  kept(i) = FALSE
        <3>1. set_map[i] # FALSE <=> Listed(set_values, i)
            BY <1>0, <2>1 DEF FlagsTell
        <3>2. CASE Listed(set_values, i)
            <4>1. ~(\A k \in DOMAIN set_values : set_values[k] # i)
                BY <1>0, <3>2 DEF Listed
            <4> QED
                BY <4>1
        <3>3. CASE set_map[i] = FALSE
            BY <3>3
        <3> QED
            BY <3>1, <3>2, <3>3
    <2> HIDE DEF kept
    <2>2. MapShape(d)
        BY <1>0 DEF MapShape
    <2>3. \A i \in SetIndices : i \in DOMAIN d => d[i] = FALSE
        BY <2>1
    <2> HIDE DEF d
    <2>4. FlagsTell(<<>>, d)
        <3>1. \A x : ~Listed(<<>>, x)
            BY DEF Listed
        <3>2. \A x \in SetIndices : ~(x \in DOMAIN d /\ d[x] # FALSE)
            BY <2>3
        <3> QED
            BY <3>1, <3>2, Zenon DEF FlagsTell
    <2>5. \A x \in SetIndices : ~HasOf(class, set_map', x)
        BY <1>0, <1>2, <2>3 DEF HasOf
    <2>6. SetsInv'
        BY <1>0, <1>2, <2>2, <2>4 DEF SetsInv
    <2> QED
        BY <1>0, <2>5, <2>6
<1>3. CASE set_map' = Sets!NoMap
    <2>1. DOMAIN set_map' = {} /\ MapShape(set_map')
        BY <1>3 DEF Sets!NoMap, MapShape
    <2>2. FlagsTell(<<>>, set_map')
        BY <2>1 DEF FlagsTell, Listed
    <2> QED
        BY <1>0, <2>1, <2>2 DEF SetsInv, HasOf
<1> QED
    BY <1>1, <1>2, <1>3

LEMMA SetsStep ==
    SetsInv /\ [MCNext]_<<vars, setVars>> =>
        SetsInv' /\ [Sets!Set!Next]_<<Sets!Members, set_answer>>
<1> SUFFICES ASSUME SetsInv, [MCNext]_<<vars, setVars>>
             PROVE  SetsInv' /\ [Sets!Set!Next]_<<Sets!Members, set_answer>>
    OBVIOUS
<1>0. MembersHave /\ (SetsInv => MembersHave)'
    <2>1. (SetsInv => MembersHave)'
        BY MembersAre, PTL
    <2> QED
        BY <2>1, MembersAre
<1>1. CASE UNCHANGED setVars
    <2>1. SetsInv'
        BY <1>1 DEF setVars, SetsInv
    <2>2. Sets!Members' = Sets!Members /\ set_answer' = set_answer
        BY <1>1 DEF setVars, Sets!Members, Sets!Has, Sets!HasIn, Sets!HasIndex, Sets!Null, Sets!NullOf
    <2> QED
        BY <2>1, <2>2
<1>2. CASE class # "none" /\ Sets!Next
    <2> DEFINE M == Sets!Members
               have(x) == HasOf(class, set_map, x)
    <2>1. M = {x \in SetIndices : have(x)}
        BY <1>0, <1>2 DEF MembersHave
    <2>2. ASSUME SetsInv', class' = class
          PROVE  Sets!Members' = {x \in SetIndices : HasOf(class, set_map', x)}
        <3>1. MembersHave'
            BY <1>0, <2>2
        <3>2. class' # "none" => Sets!Members' = {x \in SetIndices : HasOf(class', set_map', x)}
            BY <3>1 DEF MembersHave
        <3> QED
            BY <1>2, <2>2, <3>2
    <2>3. ASSUME NEW i \in SetIndices
          PROVE  Sets!Has(i) = (i \in M)
        <3>1. Sets!Has(i) <=> i \in M
            BY <1>2, HasIsMember
        <3>2. Sets!Has(i) \in BOOLEAN
            BY DEF Sets!Has, Sets!HasIn, Sets!HasIndex
        <3> QED
            BY <3>1, <3>2
    <2>4. ASSUME NEW i \in SetIndices, Sets!Insert(i)
          PROVE  SetsInv' /\ Sets!Set!Insert(i)
        <3>1. /\ SetsInv' /\ class' = class
              /\ \A x \in SetIndices : HasOf(class, set_map', x) <=> have(x) \/ x = i
            BY <1>2, <2>4, SetsInsert
        <3> HIDE DEF have
        <3>2. Sets!Members' = M \cup {i}
            BY <2>1, <2>2, <3>1
        <3>3. set_answer' = (i \in M)
            BY <2>3, <2>4 DEF Sets!Insert
        <3> QED
            BY <3>1, <3>2, <3>3 DEF Sets!Set!Insert
    <2>5. ASSUME NEW i \in SetIndices, Sets!Remove(i)
          PROVE  SetsInv' /\ Sets!Set!Remove(i)
        <3>1. /\ SetsInv' /\ class' = class
              /\ \A x \in SetIndices : HasOf(class, set_map', x) <=> have(x) /\ x # i
            BY <2>5, SetsRemove
        <3> HIDE DEF have
        <3>2. Sets!Members' = M \ {i}
            BY <2>1, <2>2, <3>1
        <3>3. set_answer' = (i \in M)
            BY <2>3, <2>5 DEF Sets!Remove
        <3> QED
            BY <3>1, <3>2, <3>3 DEF Sets!Set!Remove
    <2>6. ASSUME NEW i \in SetIndices, Sets!RemoveBit(i)
          PROVE  SetsInv' /\ Sets!Set!Remove(i)
        <3>1. /\ SetsInv' /\ class' = class
              /\ \A x \in SetIndices : HasOf(class, set_map', x) <=> have(x) /\ x # i
            BY <2>6, SetsRemoveBit
        <3> HIDE DEF have
        <3>2. Sets!Members' = M \ {i}
            BY <2>1, <2>2, <3>1
        <3>3. set_answer' = set_answer
            BY <2>6 DEF Sets!RemoveBit
        <3> QED
            BY <3>1, <3>2, <3>3 DEF Sets!Set!Remove
    <2>7. ASSUME Sets!Clear \/ Sets!ClearMonotone
          PROVE  SetsInv' /\ Sets!Set!Clear
        <3>1. /\ SetsInv' /\ class' = class
              /\ \A x \in SetIndices : ~HasOf(class, set_map', x)
            BY <1>2, <2>7, SetsClear, SetsClearMonotone
        <3>2. Sets!Members' = {}
            BY <2>2, <3>1
        <3>3. set_answer' = set_answer
            BY <2>7 DEF Sets!Clear, Sets!ClearMonotone
        <3> QED
            BY <3>1, <3>2, <3>3 DEF Sets!Set!Clear
    <2> HIDE DEF M, have
    <2>8. SetsInv' /\ Sets!Set!Next
        BY <1>2, <2>4, <2>5, <2>6, <2>7 DEF Sets!Next, Sets!Set!Next
    <2> QED
        BY <2>8
<1> QED
    BY <1>1, <1>2 DEF MCNext

LEMMA SetsInit == NoSet \/ Sets!Init => Sets!Set!Init
<1>1. ASSUME NoSet \/ Sets!Init
      PROVE  Sets!Members = {} /\ set_answer = FALSE
    <2>1. set_values = <<>> /\ set_answer = FALSE /\ (class = "index_bitset" => set_map = Sets!NoMap)
        BY <1>1 DEF NoSet, Sets!Init
    <2>2. class = "index_bitset" => \A i : ~Sets!Has(i)
        BY <2>1 DEF Sets!Has, Sets!HasIn, Sets!HasIndex, Sets!NoMap
    <2> QED
        BY <2>1, <2>2 DEF Sets!Members
<1> QED
    BY <1>1 DEF Sets!Set!Init

(* index_set, index_bitset and index_set_monotone are sets of indices: has(),   *)
(* the iterators and the answers of insert and remove agree, for any indices,  *)
(* and either way of clearing leaves the empty set.                          *)
THEOREM ClassesAreSetsOfIndices == MCSpec => ClassesAreSets
<1>1. MCInit => SetsInv /\ Sets!Set!Init
    BY SetsInitInv, SetsInit DEF MCInit
<1>2. SetsInv /\ [MCNext]_<<vars, setVars>> => SetsInv' /\ [Sets!Set!Next]_<<Sets!Members, set_answer>>
    BY SetsStep
<1> QED
    BY <1>1, <1>2, PTL DEF MCSpec, ClassesAreSets, Sets!IsASet, Sets!Set!SetSpec
===============================================================================
