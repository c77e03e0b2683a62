------------------------------- MODULE PagedCuts -------------------------------
(***************************************************************************)
(* paged_aig_cuts::enumerate_parallel: parallel_process whose callbacks      *)
(* store the cuts of their node in one paged_memory.  They append under a    *)
(* mutex; on_and reads the cuts of the children without it, so that another  *)
(* thread's append may reallocate the vector meanwhile.  Callbacks have no    *)
(* value: what ParallelCompute stores for them is constant.                 *)
(***************************************************************************)
EXTENDS ParallelCompute, PagedMemory, LocalCuts

CONSTANTS
    k, priority,
    NodeLevels      \* _levels, which the constructor computes

(* The vertices of an AIG are numbered from 0. *)
ASSUME CutsAssumption ==
    /\ k \in Nat /\ priority \in Nat \ {0} /\ NodeLevels \in [Nodes -> Nat]
    /\ IsFiniteSet(Nodes) /\ Nodes = 0..Cardinality(Nodes) - 1

VARIABLES
    memory,     \* data
    mutex,      \* its holder
    callback,   \* per thread, how far its callback is
    local_cuts, \* per AND thread, what is left to append
    torn        \* AND threads whose read was overtaken by a reallocation

cutVars == <<memory, mutex, callback, local_cuts, torn>>
allVars == <<vars, cutVars>>

CutsInit ==
    /\ Init
    /\ memory = AssignEmpty(Memory(Cardinality(Nodes), 0), 0, <<>>)
    /\ mutex = Nobody
    /\ callback = [n \in Threads |-> IF n \in Inputs THEN "ready" ELSE "called"]
    /\ local_cuts = [n \in Ands |-> <<>>]
    /\ torn = {}

(* The thread is in its callback and this is the next thing it does.         *)
In(n, step) == pc[n] = "call" /\ callback[n] = step

Continue(n, step) == callback' = [callback EXCEPT ![n] = step]

(* The memory changes; threads that are reading lose what they read from if   *)
(* the vector is moved.                                                      *)
Write(m) ==
    /\ memory' = m
    /\ torn' = IF m.capacity = memory.capacity THEN torn
               ELSE torn \cup {n \in Ands : In(n, "reading")}

-------------------------------------------------------------------------------
(* enumerate_local_cuts, from its first read to its last one. *)

LocalCutsFrom(sets1, sets2) ==
    LocalCutsOf(<<[i \in DOMAIN sets1 |-> [cut |-> sets1[i], cone |-> {}]],
                  [i \in DOMAIN sets2 |-> [cut |-> sets2[i], cone |-> {}]]>>,
                k, priority, FALSE, NodeLevels)

SetsAt(m, n) ==
    LET cuts == LocalCutsFrom(SetsOf(m, Child[n][1].node), SetsOf(m, Child[n][2].node))
    IN  [i \in DOMAIN cuts |-> cuts[i].cut]

BeginRead(n) ==
    /\ In(n, "called")
    /\ Continue(n, "reading")
    /\ UNCHANGED <<memory, mutex, local_cuts, torn>>

(* If the vector was moved the old one may still have the values or not: an    *)
(* overwritten size of 0 is one of the things it may have.                   *)
EndRead(n) ==
    /\ In(n, "reading")
    /\ \E cuts \in {SetsAt(memory, n)} \cup (IF n \in torn THEN {<<>>} ELSE {}) :
            local_cuts' = [local_cuts EXCEPT ![n] = cuts]
    /\ Continue(n, "ready")
    /\ UNCHANGED <<memory, mutex, torn>>

-------------------------------------------------------------------------------
(* Appending, under the mutex. *)

(* Mutant: the mutex is not taken. *)
LockNone(n) ==
    /\ In(n, "ready")
    /\ Continue(n, "locked")
    /\ UNCHANGED <<memory, mutex, local_cuts, torn>>

LockData(n) ==
    /\ In(n, "ready")
    /\ mutex = Nobody
    /\ mutex' = n
    /\ Continue(n, "locked")
    /\ UNCHANGED <<memory, local_cuts, torn>>

AssignInput(n) ==
    /\ n \in Inputs /\ In(n, "locked")
    /\ Write(AssignSingleton(memory, n, n, <<>>))
    /\ Continue(n, "written")
    /\ UNCHANGED <<mutex, local_cuts>>

BeginNode(n) ==
    /\ n \in Ands /\ In(n, "locked")
    /\ Write(AppendBegin(memory, n))
    /\ Continue(n, "begun")
    /\ UNCHANGED <<mutex, local_cuts>>

AppendCut(n) ==
    /\ n \in Ands /\ In(n, "begun") /\ local_cuts[n] # <<>>
    /\ Write(AppendSet(memory, n, Ascending(Head(local_cuts[n])), <<>>))
    /\ local_cuts' = [local_cuts EXCEPT ![n] = Tail(@)]
    /\ UNCHANGED <<mutex, callback>>

AppendOwn(n) ==
    /\ n \in Ands /\ In(n, "begun") /\ local_cuts[n] = <<>>
    /\ Write(AppendSingleton(memory, n, n, <<>>))
    /\ Continue(n, "written")
    /\ UNCHANGED <<mutex, local_cuts>>

UnlockData(n) ==
    /\ In(n, "written")
    /\ mutex' = Nobody
    /\ Continue(n, "returned")
    /\ UNCHANGED <<memory, local_cuts, torn>>

Callback(n) ==
    \/ BeginRead(n) \/ EndRead(n) \/ LockData(n) \/ AssignInput(n)
    \/ BeginNode(n) \/ AppendCut(n) \/ AppendOwn(n) \/ UnlockData(n)

-------------------------------------------------------------------------------
(* A thread goes on when its callback has returned. *)
CutsNext ==
    \/ \E n \in Threads : Callback(n) /\ UNCHANGED vars
    \/ \E n \in Ands : (Wakes(n) \/ SpuriousWake(n)) /\ UNCHANGED cutVars
    \/ \E n \in Threads :
            /\ Spawn(n) \/ (Publishes(n) /\ callback[n] = "returned")
            /\ UNCHANGED cutVars
    \/ (JoinAll \/ Terminated) /\ UNCHANGED cutVars

CutsSpec == CutsInit /\ [][CutsNext]_allVars

-------------------------------------------------------------------------------
Returned(n) == n = 0 \/ callback[n] = "returned"

(* The cuts of a node are those that the sequential enumeration finds, from    *)
(* the cuts of its children as they are in the memory, unless its read was     *)
(* overtaken.                                                               *)
ParallelIsSequential ==
    \A n \in Nodes : Returned(n) /\ n \notin torn =>
        SetsOf(memory, n) =
            IF n = 0 THEN <<{}>> ELSE IF n \in Inputs THEN <<{n}>>
            ELSE Append(SetsAt(memory, n), {n})
===============================================================================
