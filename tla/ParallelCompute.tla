---------------------------- MODULE ParallelCompute ----------------------------
(***************************************************************************)
(* cirkit::parallel_compute and parallel_process                           *)
(* (classical/functions/parallel_compute.hpp, parallel_compute.cpp): one   *)
(* thread per AIG node, which waits for the threads of its two children.   *)
(*                                                                         *)
(* "computed" is a dynamic_bitset: set(n) loads a block and stores it back. *)
(* Writers hold vector_mutex; the waiting threads read the bit of a child  *)
(* under that child's guard_lock only, and on_and reads the children's     *)
(* values under no lock.  These reads are unsynchronised: the two stores   *)
(* of a publication may become visible in either order if MayReorder.      *)
(* parallel_process is the case of callbacks without a value.              *)
(***************************************************************************)
EXTENDS Naturals

CONSTANTS Inputs, Ands, Child, OnInput(_), OnAnd(_, _, _, _), constant_result,
          Blank,        \* what computed_values holds before it is written
          Values,       \* the type T
          Missing,      \* not a value
          Nobody,       \* holder of a free mutex
          MayReorder

Threads == Inputs \cup Ands
Nodes == {0} \cup Threads

ASSUME GraphAssumption ==
    /\ Threads \subseteq Nat \ {0}
    /\ Inputs \cap Ands = {}
    /\ Child \in [Ands -> [1..2 -> [node : Nodes, complemented : BOOLEAN]]]
    /\ \A n \in Ands, i \in 1..2 : Child[n][i].node < n

ASSUME ValueAssumption ==
    /\ constant_result \in Values /\ Blank \in Values /\ Missing \notin Values
    /\ \A n \in Inputs : OnInput(n) \in Values
    /\ \A a, b \in Values, p, q \in BOOLEAN : OnAnd(a, p, b, q) \in Values

ASSUME MutexAssumption == Nobody \notin Threads /\ MayReorder \in BOOLEAN

VARIABLES computed_values, computed,
          vector_mutex, \* its holder
          guard_locks,  \* per node, the holder of its mutex
          pc,           \* per thread, its next step
          at,           \* per AND thread, the child it waits for: 1 or 2
          v,            \* per thread, the local result
          block,        \* per thread, the block loaded by computed.set
          todo,         \* per thread, what is left of its publication
          returned      \* every worker has been joined

vars == <<computed_values, computed, vector_mutex, guard_locks,
          pc, at, v, block, todo, returned>>

Init ==
    /\ computed_values = [n \in Nodes |-> IF n = 0 THEN constant_result ELSE Blank]
    /\ computed = {0}
    /\ vector_mutex = Nobody
    /\ guard_locks = [n \in Nodes |-> Nobody]
    /\ pc = [n \in Threads |-> "none"]
    /\ at = [n \in Threads |-> 1]
    /\ v = [n \in Threads |-> Blank]
    /\ block = [n \in Threads |-> {}]
    /\ todo = [n \in Threads |-> {}]
    /\ returned = FALSE

Goto(n, label) == pc' = [pc EXCEPT ![n] = label]

(* The child whose bit an AND thread is looking at. *)
Awaited(n) == Child[n][at[n]].node

-------------------------------------------------------------------------------
(* The calling thread. *)

(* Children have smaller indices than their parents, so topological_sort   *)
(* lists the vertices in the order of their indices.                       *)
Spawn(n) ==
    /\ pc[n] = "none"
    /\ \A m \in Threads : m < n => pc[m] # "none"
    /\ Goto(n, IF n \in Inputs THEN "call" ELSE "lock")
    /\ UNCHANGED <<computed_values, computed, vector_mutex, guard_locks,
                   at, v, block, todo, returned>>

JoinAll ==
    /\ ~returned
    /\ \A n \in Threads : pc[n] = "done"
    /\ returned' = TRUE
    /\ UNCHANGED <<computed_values, computed, vector_mutex, guard_locks,
                   pc, at, v, block, todo>>

-------------------------------------------------------------------------------
(* An AND thread waits for one child, then for the other. *)

Lock(n) ==
    /\ pc[n] = "lock"
    /\ guard_locks[Awaited(n)] = Nobody
    /\ guard_locks' = [guard_locks EXCEPT ![Awaited(n)] = n]
    /\ Goto(n, "test")
    /\ UNCHANGED <<computed_values, computed, vector_mutex,
                   at, v, block, todo, returned>>

(* Mutant: the second child is not waited for. *)
TestFirstOnly(n) ==
    /\ pc[n] = "test"
    /\ Awaited(n) \in computed
    /\ guard_locks' = [guard_locks EXCEPT ![Awaited(n)] = Nobody]
    /\ Goto(n, "call")
    /\ UNCHANGED <<computed_values, computed, vector_mutex, at,
                   v, block, todo, returned>>

TestSet(n) ==
    /\ pc[n] = "test"
    /\ Awaited(n) \in computed
    /\ guard_locks' = [guard_locks EXCEPT ![Awaited(n)] = Nobody]
    /\ at' = [at EXCEPT ![n] = 2]
    /\ Goto(n, IF at[n] = 1 THEN "lock" ELSE "call")
    /\ UNCHANGED <<computed_values, computed, vector_mutex,
                   v, block, todo, returned>>

(* The bit is clear; it may be set before the thread sleeps. *)
TestClear(n) ==
    /\ pc[n] = "test"
    /\ Awaited(n) \notin computed
    /\ Goto(n, "sleep")
    /\ UNCHANGED <<computed_values, computed, vector_mutex, guard_locks,
                   at, v, block, todo, returned>>

(* guards[c].wait releases the lock and sleeps in one step. *)
Sleep(n) ==
    /\ pc[n] = "sleep"
    /\ guard_locks' = [guard_locks EXCEPT ![Awaited(n)] = Nobody]
    /\ Goto(n, "waiting")
    /\ UNCHANGED <<computed_values, computed, vector_mutex,
                   at, v, block, todo, returned>>

SpuriousWake(n) ==
    /\ pc[n] = "waiting"
    /\ Goto(n, "lock")
    /\ UNCHANGED <<computed_values, computed, vector_mutex, guard_locks,
                   at, v, block, todo, returned>>

-------------------------------------------------------------------------------
(* Every thread computes and publishes its value. *)

ValueOf(n, values) ==
    IF n \in Inputs
    THEN OnInput(n)
    ELSE OnAnd(values[Child[n][1].node], Child[n][1].complemented,
               values[Child[n][2].node], Child[n][2].complemented)

Call(n) ==
    /\ pc[n] = "call"
    /\ v' = [v EXCEPT ![n] = ValueOf(n, computed_values)]
    /\ Goto(n, "publish")
    /\ UNCHANGED <<computed_values, computed, vector_mutex, guard_locks,
                   at, block, todo, returned>>

(* Mutant: vector_mutex is not taken. *)
LockNothing(n) ==
    /\ pc[n] = "publish"
    /\ todo' = [todo EXCEPT ![n] = {"value", "load", "store"}]
    /\ Goto(n, "stores")
    /\ UNCHANGED <<computed_values, computed, vector_mutex, guard_locks,
                   at, v, block, returned>>

LockVector(n) ==
    /\ pc[n] = "publish"
    /\ vector_mutex = Nobody
    /\ vector_mutex' = n
    /\ todo' = [todo EXCEPT ![n] = {"value", "load", "store"}]
    /\ Goto(n, "stores")
    /\ UNCHANGED <<computed_values, computed, guard_locks,
                   at, v, block, returned>>

StoreValue(n) ==
    /\ "value" \in todo[n]
    /\ computed_values' = [computed_values EXCEPT ![n] = v[n]]
    /\ todo' = [todo EXCEPT ![n] = @ \ {"value"}]
    /\ UNCHANGED <<computed, vector_mutex, guard_locks, pc, at, v, block, returned>>

(* Mutant: the bit is set first. *)
LoadBlockEarly(n) ==
    /\ "load" \in todo[n]
    /\ block' = [block EXCEPT ![n] = computed]
    /\ todo' = [todo EXCEPT ![n] = @ \ {"load"}]
    /\ UNCHANGED <<computed_values, computed, vector_mutex, guard_locks,
                   pc, at, v, returned>>

LoadBlock(n) ==
    /\ "load" \in todo[n]
    /\ "value" \in todo[n] => MayReorder
    /\ block' = [block EXCEPT ![n] = computed]
    /\ todo' = [todo EXCEPT ![n] = @ \ {"load"}]
    /\ UNCHANGED <<computed_values, computed, vector_mutex, guard_locks,
                   pc, at, v, returned>>

StoreBlock(n) ==
    /\ "store" \in todo[n] /\ "load" \notin todo[n]
    /\ computed' = block[n] \cup {n}
    /\ todo' = [todo EXCEPT ![n] = @ \ {"store"}]
    /\ UNCHANGED <<computed_values, vector_mutex, guard_locks,
                   pc, at, v, block, returned>>

UnlockVector(n) ==
    /\ pc[n] = "stores" /\ todo[n] = {}
    /\ vector_mutex' = Nobody
    /\ Goto(n, "notify")
    /\ UNCHANGED <<computed_values, computed, guard_locks,
                   at, v, block, todo, returned>>

Sleepers(n) == {m \in Ands : pc[m] = "waiting" /\ Awaited(m) = n}

(* Mutant: the lock of the node is not taken around notify_all. *)
NotifyUnlocked(n) ==
    /\ pc[n] = "notify"
    /\ pc' = [m \in Threads |-> IF m = n THEN "done"
                                ELSE IF m \in Sleepers(n) THEN "lock" ELSE pc[m]]
    /\ UNCHANGED <<computed_values, computed, vector_mutex, guard_locks,
                   at, v, block, todo, returned>>

(* Nothing happens between lck and its release, so both are in one step. *)
Notify(n) ==
    /\ pc[n] = "notify"
    /\ guard_locks[n] = Nobody
    /\ pc' = [m \in Threads |-> IF m = n THEN "done"
                                ELSE IF m \in Sleepers(n) THEN "lock" ELSE pc[m]]
    /\ UNCHANGED <<computed_values, computed, vector_mutex, guard_locks,
                   at, v, block, todo, returned>>

-------------------------------------------------------------------------------
Wakes(n) == Lock(n) \/ TestSet(n) \/ TestClear(n) \/ Sleep(n)

Publishes(n) ==
    \/ Call(n) \/ LockVector(n)
    \/ StoreValue(n) \/ LoadBlock(n) \/ StoreBlock(n)
    \/ UnlockVector(n) \/ Notify(n)

Terminated == returned /\ UNCHANGED vars

Next ==
    \/ \E n \in Ands : Wakes(n) \/ SpuriousWake(n)
    \/ \E n \in Threads : Spawn(n) \/ Publishes(n)
    \/ JoinAll
    \/ Terminated

(* Every thread that can run runs, and a thread that waits for a mutex which *)
(* is free again and again gets it (spurious wake-ups may repeat for ever).  *)
(* No fairness for spurious wake-ups.                                        *)
Fairness ==
    /\ \A n \in Ands : SF_vars(Lock(n)) /\ WF_vars(Wakes(n))
    /\ \A n \in Threads : /\ WF_vars(Spawn(n)) /\ WF_vars(Publishes(n))
                          /\ SF_vars(LockVector(n)) /\ SF_vars(Notify(n))
    /\ WF_vars(JoinAll)

Spec == Init /\ [][Next]_vars /\ Fairness

-------------------------------------------------------------------------------
Steps == {"none", "lock", "test", "sleep", "waiting", "call",
          "publish", "stores", "notify", "done"}

TypeOK ==
    /\ computed_values \in [Nodes -> Values]
    /\ computed \subseteq Nodes
    /\ vector_mutex \in Threads \cup {Nobody}
    /\ guard_locks \in [Nodes -> Ands \cup {Nobody}]
    /\ pc \in [Threads -> Steps]
    /\ at \in [Threads -> 1..2]
    /\ v \in [Threads -> Values]
    /\ block \in [Threads -> SUBSET Nodes]
    /\ todo \in [Threads -> SUBSET {"value", "load", "store"}]
    /\ returned \in BOOLEAN

(* No update of the bitset is lost to a concurrent one. *)
NoLostBit == \A n \in Threads : pc[n] \in {"notify", "done"} => n \in computed

(* A thread that sleeps will be woken: the thread it waits for has its     *)
(* notification still to send.  The bit may be set already.                *)
NoLostWakeup ==
    \A n \in Ands : pc[n] = "waiting" => pc[Awaited(n)] # "done"

(* on_and is called when the callbacks of both children have returned, which *)
(* is what the callbacks of parallel_process rely on.                        *)
ChildrenFirst ==
    \A n \in Ands : pc[n] \in {"call", "publish", "stores", "notify", "done"} =>
        \A i \in 1..2 : Child[n][i].node \in computed

(* A published value is the value of the node for the published values of  *)
(* its children: nothing stale was read.                                   *)
Correct ==
    \A n \in computed \ {0} : computed_values[n] = ValueOf(n, computed_values)

(* When the call returns every node is published. *)
Complete == returned => computed = Nodes

(* Every published value is final. *)
PublishedForGood ==
    [][\A n \in computed : n \in computed' /\ computed_values'[n] = computed_values[n]]_vars

(* The call returns: no thread waits for ever. *)
Returns == <>returned

-------------------------------------------------------------------------------
(* The inductive invariants behind the safety properties. *)

(* The bit of n is in the bitset from its StoreBlock on. *)
Published(n) ==
    pc[n] \in {"notify", "done"} \/ (pc[n] = "stores" /\ "store" \notin todo[n])

Holders ==
    /\ \A n \in Threads : pc[n] = "stores" <=> vector_mutex = n
    /\ \A n \in Ands, m \in Nodes :
          guard_locks[m] = n <=> pc[n] \in {"test", "sleep"} /\ Awaited(n) = m

Stores ==
    \A n \in Threads :
        /\ pc[n] # "stores" => todo[n] = {}
        /\ "load" \in todo[n] => "store" \in todo[n]
        /\ "load" \notin todo[n] /\ "store" \in todo[n] => block[n] = computed

BitsArePublished == computed = {0} \cup {n \in Threads : Published(n)}

(* Neither falling asleep nor sleeping outlasts the child's notification. *)
WakeupToCome ==
    \A n \in Ands : pc[n] \in {"sleep", "waiting"} =>
        Awaited(n) # 0 /\ pc[Awaited(n)] # "done"

(* Only AND nodes take the steps before "call". *)
InputsDoNotWait ==
    \A n \in Inputs : pc[n] \notin {"lock", "test", "sleep", "waiting"}

Waited == \A n \in Ands : at[n] = 2 => Child[n][1].node \in computed

ReturnedLast == returned => \A n \in Threads : pc[n] = "done"

IInv ==
    /\ TypeOK /\ Holders /\ Stores /\ BitsArePublished
    /\ WakeupToCome /\ InputsDoNotWait /\ Waited /\ ChildrenFirst /\ ReturnedLast

(* The values, for a build that keeps the two stores in order. *)
ValueBeforeBit ==
    \A n \in Threads :
        /\ "value" \in todo[n] => "load" \in todo[n]
        /\ Published(n) => computed_values[n] = v[n]
        /\ pc[n] = "stores" /\ "value" \notin todo[n] => computed_values[n] = v[n]

LocalValue ==
    \A n \in Threads : pc[n] \in {"publish", "stores", "notify", "done"} =>
        v[n] = ValueOf(n, computed_values)

VInv == ValueBeforeBit /\ LocalValue

-------------------------------------------------------------------------------
(* Threads and locks implement the sequential evaluation; a node has its   *)
(* value when its bit becomes visible.                                     *)
Resolved == [n \in Nodes |-> IF n \in computed THEN computed_values[n] ELSE Missing]

Evaluation == INSTANCE NodeEvaluation WITH result <- Resolved

ImplementsEvaluation == Evaluation!ESafety
===============================================================================
