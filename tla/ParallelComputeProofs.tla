------------------------- MODULE ParallelComputeProofs -------------------------
(***************************************************************************)
(* Proofs about ParallelCompute for every graph, every pair of callbacks   *)
(* and every schedule.  IInv needs nothing of the order of the two stores  *)
(* of a publication; VInv, on the values, needs MayReorder to be FALSE.    *)
(* On top of IInv, proofs about PagedCuts, whose callbacks share a memory:   *)
(* first what LocalCuts and PagedMemory compute, then CInv.                *)
(***************************************************************************)
EXTENDS PagedCuts, CutEnumeration, FiniteSetTheorems, SequenceTheorems, TLAPS

USE DEF Threads, Nodes

(* A child is a node below its parent, and the constant is not a thread. *)
LEMMA ChildIsNode ==
    ASSUME NEW n \in Ands, NEW i \in 1..2
    PROVE  /\ Child[n][i].node \in Nodes /\ Child[n][i].node # n
           /\ Child[n][i].complemented \in BOOLEAN
           /\ 0 \notin Threads /\ n \in Threads
  BY GraphAssumption

LEMMA AwaitedIsNode ==
    ASSUME TypeOK, NEW n \in Ands
    PROVE  Awaited(n) \in Nodes /\ Awaited(n) # n
  BY ChildIsNode DEF TypeOK, Awaited

LEMMA NodesAreNot == 0 \notin Threads /\ Nobody \notin Threads /\ Inputs \cap Ands = {}
  BY GraphAssumption, MutexAssumption

(* The callbacks return values of type T. *)
LEMMA ValueIsTyped ==
    ASSUME NEW n \in Threads, NEW values \in [Nodes -> Values]
    PROVE  ValueOf(n, values) \in Values
<1>1. CASE n \in Inputs
  BY <1>1, ValueAssumption DEF ValueOf
<1>2. CASE n \in Ands
  <2>1. \A i \in 1..2 : /\ values[Child[n][i].node] \in Values
                       /\ Child[n][i].complemented \in BOOLEAN
    BY <1>2, ChildIsNode
  <2>2. n \notin Inputs
    BY <1>2, NodesAreNot
  <2>3. \A i \in {1, 2} : /\ values[Child[n][i].node] \in Values
                         /\ Child[n][i].complemented \in BOOLEAN
    BY <2>1
  <2>4. /\ values[Child[n][1].node] \in Values /\ Child[n][1].complemented \in BOOLEAN
        /\ values[Child[n][2].node] \in Values /\ Child[n][2].complemented \in BOOLEAN
    BY <2>3
  <2>5. OnAnd(values[Child[n][1].node], Child[n][1].complemented,
              values[Child[n][2].node], Child[n][2].complemented) \in Values
    BY <2>4, ValueAssumption, Zenon
  <2> QED
    BY <2>2, <2>5 DEF ValueOf
<1> QED
  BY <1>1, <1>2

-------------------------------------------------------------------------------
LEMMA InitIInv == Init => IInv
<1> SUFFICES ASSUME Init PROVE IInv
  OBVIOUS
<1> USE DEF Init
<1>1. TypeOK
  <2>1. /\ computed_values \in [Nodes -> Values]
        /\ v \in [Threads -> Values]
    BY ValueAssumption
  <2>2. /\ guard_locks \in [Nodes -> Ands \cup {Nobody}]
        /\ pc \in [Threads -> Steps]
        /\ at \in [Threads -> 1..2]
    BY DEF Steps
  <2>3. /\ block \in [Threads -> SUBSET Nodes]
        /\ todo \in [Threads -> SUBSET {"value", "load", "store"}]
    OBVIOUS
  <2> QED
    BY <2>1, <2>2, <2>3 DEF TypeOK
<1>2. Holders /\ Stores
  BY NodesAreNot DEF Holders, Stores
<1>3. BitsArePublished /\ WakeupToCome /\ InputsDoNotWait /\ Waited /\ ReturnedLast
  BY DEF BitsArePublished, WakeupToCome, InputsDoNotWait, Waited, ReturnedLast, Published
<1>4. ChildrenFirst
  BY DEF ChildrenFirst
<1> QED
  BY <1>1, <1>2, <1>3, <1>4 DEF IInv

(* Each step of a thread preserves the invariant. *)
LEMMA SpawnPreserves ==
    ASSUME NEW n \in Threads, IInv, Spawn(n)
    PROVE  IInv'
<1> USE DEF Spawn
<1>0. TypeOK
  BY DEF IInv
<1>1. \A m \in Threads : pc'[m] = IF m = n THEN (IF n \in Inputs THEN "call" ELSE "lock") ELSE pc[m]
  BY <1>0 DEF TypeOK, Goto
<1>10. TypeOK'
  BY <1>0, <1>1, NodesAreNot DEF TypeOK, Steps, Goto
<1>11. Holders'
  BY <1>0, <1>1, NodesAreNot DEF IInv, Holders, TypeOK, Awaited
<1>12. Stores'
  BY <1>0, <1>1, NodesAreNot DEF IInv, Stores, TypeOK
<1>13. BitsArePublished'
  BY <1>0, <1>1, NodesAreNot DEF IInv, BitsArePublished, Published, TypeOK
<1>14. WakeupToCome'
  BY <1>0, <1>1, AwaitedIsNode DEF IInv, WakeupToCome, Awaited
<1>15. InputsDoNotWait'
  BY <1>0, <1>1, NodesAreNot DEF IInv, InputsDoNotWait
<1>16. Waited'
  BY <1>0, <1>1, NodesAreNot DEF IInv, Waited
<1>17. ChildrenFirst'
  BY <1>0, <1>1, NodesAreNot DEF IInv, ChildrenFirst
<1>18. ReturnedLast'
  BY <1>0, <1>1, NodesAreNot DEF IInv, ReturnedLast
<1> QED
  BY <1>10, <1>11, <1>12, <1>13, <1>14, <1>15, <1>16, <1>17, <1>18 DEF IInv

LEMMA LockPreserves ==
    ASSUME NEW n \in Ands, IInv, Lock(n)
    PROVE  IInv'
<1> USE DEF Lock
<1>0. TypeOK
  BY DEF IInv
<1>1. \A m \in Threads : pc'[m] = IF m = n THEN "test" ELSE pc[m]
  BY <1>0 DEF TypeOK, Goto
<1>10. TypeOK'
  BY <1>0, <1>1, NodesAreNot, AwaitedIsNode DEF TypeOK, Steps, Goto
<1>11. Holders'
  BY <1>0, <1>1, NodesAreNot, AwaitedIsNode DEF IInv, Holders, TypeOK, Awaited
<1>12. Stores'
  BY <1>0, <1>1, NodesAreNot DEF IInv, Stores, TypeOK
<1>13. BitsArePublished'
  BY <1>0, <1>1, NodesAreNot DEF IInv, BitsArePublished, Published, TypeOK
<1>14. WakeupToCome'
  BY <1>0, <1>1, NodesAreNot, AwaitedIsNode DEF IInv, WakeupToCome, Awaited
<1>15. InputsDoNotWait'
  BY <1>0, <1>1, NodesAreNot DEF IInv, InputsDoNotWait
<1>16. Waited'
  BY <1>0, <1>1, NodesAreNot DEF IInv, Waited
<1>17. ChildrenFirst'
  BY <1>0, <1>1, NodesAreNot DEF IInv, ChildrenFirst
<1>18. ReturnedLast'
  BY <1>0, <1>1, NodesAreNot DEF IInv, ReturnedLast
<1> QED
  BY <1>10, <1>11, <1>12, <1>13, <1>14, <1>15, <1>16, <1>17, <1>18 DEF IInv

LEMMA TestSetPreserves ==
    ASSUME NEW n \in Ands, IInv, TestSet(n)
    PROVE  IInv'
<1> USE DEF TestSet
<1>0. TypeOK
  BY DEF IInv
<1>1. \A m \in Threads : pc'[m] = IF m = n THEN (IF at[n] = 1 THEN "lock" ELSE "call") ELSE pc[m]
  BY <1>0 DEF TypeOK, Goto
<1>2. /\ at[n] = 1 => Child[n][1].node \in computed
      /\ at[n] # 1 => at[n] = 2 /\ Child[n][1].node \in computed /\ Child[n][2].node \in computed
  BY <1>0 DEF IInv, Waited, TypeOK, Awaited
<1>3. \A m \in Threads : at'[m] = IF m = n THEN 2 ELSE at[m]
  BY <1>0 DEF TypeOK
<1>10. TypeOK'
  BY <1>0, <1>1, NodesAreNot, AwaitedIsNode DEF TypeOK, Steps, Goto
<1>11. Holders'
  BY <1>0, <1>1, NodesAreNot, AwaitedIsNode DEF IInv, Holders, TypeOK, Awaited
<1>12. Stores'
  BY <1>0, <1>1, NodesAreNot DEF IInv, Stores, TypeOK
<1>13. BitsArePublished'
  BY <1>0, <1>1, NodesAreNot DEF IInv, BitsArePublished, Published, TypeOK
<1>14. WakeupToCome'
  BY <1>0, <1>1, NodesAreNot, AwaitedIsNode, <1>3 DEF IInv, WakeupToCome, Awaited
<1>15. InputsDoNotWait'
  BY <1>0, <1>1, NodesAreNot DEF IInv, InputsDoNotWait
<1>16. Waited'
  BY <1>0, <1>2, <1>3, NodesAreNot DEF IInv, Waited
<1>17. ChildrenFirst'
  BY <1>0, <1>1, <1>2, NodesAreNot DEF IInv, ChildrenFirst
<1>18. ReturnedLast'
  BY <1>0, <1>1, NodesAreNot DEF IInv, ReturnedLast
<1> QED
  BY <1>10, <1>11, <1>12, <1>13, <1>14, <1>15, <1>16, <1>17, <1>18 DEF IInv

LEMMA TestClearPreserves ==
    ASSUME NEW n \in Ands, IInv, TestClear(n)
    PROVE  IInv'
<1> USE DEF TestClear
<1>0. TypeOK
  BY DEF IInv
<1>1. \A m \in Threads : pc'[m] = IF m = n THEN "sleep" ELSE pc[m]
  BY <1>0 DEF TypeOK, Goto
<1>2. Awaited(n) # 0 /\ pc[Awaited(n)] # "done" /\ Awaited(n) # n /\ Awaited(n) \in Threads
  BY <1>0, AwaitedIsNode DEF IInv, BitsArePublished, Published
<1>10. TypeOK'
  BY <1>0, <1>1, NodesAreNot DEF TypeOK, Steps, Goto
<1>11. Holders'
  BY <1>0, <1>1, NodesAreNot, AwaitedIsNode DEF IInv, Holders, TypeOK, Awaited
<1>12. Stores'
  BY <1>0, <1>1, NodesAreNot DEF IInv, Stores, TypeOK
<1>13. BitsArePublished'
  BY <1>0, <1>1, NodesAreNot DEF IInv, BitsArePublished, Published, TypeOK
<1>14. WakeupToCome'
  BY <1>0, <1>1, NodesAreNot, AwaitedIsNode, <1>2 DEF IInv, WakeupToCome, Awaited
<1>15. InputsDoNotWait'
  BY <1>0, <1>1, NodesAreNot DEF IInv, InputsDoNotWait
<1>16. Waited'
  BY <1>0, <1>1, NodesAreNot DEF IInv, Waited
<1>17. ChildrenFirst'
  BY <1>0, <1>1, NodesAreNot DEF IInv, ChildrenFirst
<1>18. ReturnedLast'
  BY <1>0, <1>1, NodesAreNot DEF IInv, ReturnedLast
<1> QED
  BY <1>10, <1>11, <1>12, <1>13, <1>14, <1>15, <1>16, <1>17, <1>18 DEF IInv

LEMMA SleepPreserves ==
    ASSUME NEW n \in Ands, IInv, Sleep(n)
    PROVE  IInv'
<1> USE DEF Sleep
<1>0. TypeOK
  BY DEF IInv
<1>1. \A m \in Threads : pc'[m] = IF m = n THEN "waiting" ELSE pc[m]
  BY <1>0 DEF TypeOK, Goto
<1>10. TypeOK'
  BY <1>0, <1>1, NodesAreNot, AwaitedIsNode DEF TypeOK, Steps, Goto
<1>11. Holders'
  BY <1>0, <1>1, NodesAreNot, AwaitedIsNode DEF IInv, Holders, TypeOK, Awaited
<1>12. Stores'
  BY <1>0, <1>1, NodesAreNot DEF IInv, Stores, TypeOK
<1>13. BitsArePublished'
  BY <1>0, <1>1, NodesAreNot DEF IInv, BitsArePublished, Published, TypeOK
<1>14. WakeupToCome'
  BY <1>0, <1>1, NodesAreNot, AwaitedIsNode DEF IInv, WakeupToCome, Awaited
<1>15. InputsDoNotWait'
  BY <1>0, <1>1, NodesAreNot DEF IInv, InputsDoNotWait
<1>16. Waited'
  BY <1>0, <1>1, NodesAreNot DEF IInv, Waited
<1>17. ChildrenFirst'
  BY <1>0, <1>1, NodesAreNot DEF IInv, ChildrenFirst
<1>18. ReturnedLast'
  BY <1>0, <1>1, NodesAreNot DEF IInv, ReturnedLast
<1> QED
  BY <1>10, <1>11, <1>12, <1>13, <1>14, <1>15, <1>16, <1>17, <1>18 DEF IInv

LEMMA SpuriousWakePreserves ==
    ASSUME NEW n \in Ands, IInv, SpuriousWake(n)
    PROVE  IInv'
<1> USE DEF SpuriousWake
<1>0. TypeOK
  BY DEF IInv
<1>1. \A m \in Threads : pc'[m] = IF m = n THEN "lock" ELSE pc[m]
  BY <1>0 DEF TypeOK, Goto
<1>10. TypeOK'
  BY <1>0, <1>1, NodesAreNot DEF TypeOK, Steps, Goto
<1>11. Holders'
  BY <1>0, <1>1, NodesAreNot DEF IInv, Holders, TypeOK, Awaited
<1>12. Stores'
  BY <1>0, <1>1, NodesAreNot DEF IInv, Stores, TypeOK
<1>13. BitsArePublished'
  BY <1>0, <1>1, NodesAreNot DEF IInv, BitsArePublished, Published, TypeOK
<1>14. WakeupToCome'
  BY <1>0, <1>1, NodesAreNot, AwaitedIsNode DEF IInv, WakeupToCome, Awaited
<1>15. InputsDoNotWait'
  BY <1>0, <1>1, NodesAreNot DEF IInv, InputsDoNotWait
<1>16. Waited'
  BY <1>0, <1>1, NodesAreNot DEF IInv, Waited
<1>17. ChildrenFirst'
  BY <1>0, <1>1, NodesAreNot DEF IInv, ChildrenFirst
<1>18. ReturnedLast'
  BY <1>0, <1>1, NodesAreNot DEF IInv, ReturnedLast
<1> QED
  BY <1>10, <1>11, <1>12, <1>13, <1>14, <1>15, <1>16, <1>17, <1>18 DEF IInv

LEMMA CallPreserves ==
    ASSUME NEW n \in Threads, IInv, Call(n)
    PROVE  IInv'
<1> USE DEF Call
<1>0. TypeOK
  BY DEF IInv
<1>1. \A m \in Threads : pc'[m] = IF m = n THEN "publish" ELSE pc[m]
  BY <1>0 DEF TypeOK, Goto
<1>2. ValueOf(n, computed_values) \in Values
  BY <1>0, ValueIsTyped DEF TypeOK
<1>10. TypeOK'
  BY <1>0, <1>1, <1>2, NodesAreNot DEF TypeOK, Steps, Goto
<1>11. Holders'
  BY <1>0, <1>1, NodesAreNot DEF IInv, Holders, TypeOK, Awaited
<1>12. Stores'
  BY <1>0, <1>1, NodesAreNot DEF IInv, Stores, TypeOK
<1>13. BitsArePublished'
  BY <1>0, <1>1, NodesAreNot DEF IInv, BitsArePublished, Published, TypeOK
<1>14. WakeupToCome'
  BY <1>0, <1>1, NodesAreNot, AwaitedIsNode DEF IInv, WakeupToCome, Awaited
<1>15. InputsDoNotWait'
  BY <1>0, <1>1, NodesAreNot DEF IInv, InputsDoNotWait
<1>16. Waited'
  BY <1>0, <1>1, NodesAreNot DEF IInv, Waited
<1>17. ChildrenFirst'
  BY <1>0, <1>1, NodesAreNot DEF IInv, ChildrenFirst
<1>18. ReturnedLast'
  BY <1>0, <1>1, NodesAreNot DEF IInv, ReturnedLast
<1> QED
  BY <1>10, <1>11, <1>12, <1>13, <1>14, <1>15, <1>16, <1>17, <1>18 DEF IInv

LEMMA LockVectorPreserves ==
    ASSUME NEW n \in Threads, IInv, LockVector(n)
    PROVE  IInv'
<1> USE DEF LockVector
<1>0. TypeOK
  BY DEF IInv
<1>1. \A m \in Threads : pc'[m] = IF m = n THEN "stores" ELSE pc[m]
  BY <1>0 DEF TypeOK, Goto
<1>10. TypeOK'
  BY <1>0, <1>1, NodesAreNot DEF TypeOK, Steps, Goto
<1>11. Holders'
  BY <1>0, <1>1, NodesAreNot DEF IInv, Holders, TypeOK, Awaited
<1>12. Stores'
  BY <1>0, <1>1, NodesAreNot DEF IInv, Stores, TypeOK
<1>13. BitsArePublished'
  BY <1>0, <1>1, NodesAreNot DEF IInv, BitsArePublished, Published, TypeOK
<1>14. WakeupToCome'
  BY <1>0, <1>1, NodesAreNot, AwaitedIsNode DEF IInv, WakeupToCome, Awaited
<1>15. InputsDoNotWait'
  BY <1>0, <1>1, NodesAreNot DEF IInv, InputsDoNotWait
<1>16. Waited'
  BY <1>0, <1>1, NodesAreNot DEF IInv, Waited
<1>17. ChildrenFirst'
  BY <1>0, <1>1, NodesAreNot DEF IInv, ChildrenFirst
<1>18. ReturnedLast'
  BY <1>0, <1>1, NodesAreNot DEF IInv, ReturnedLast
<1> QED
  BY <1>10, <1>11, <1>12, <1>13, <1>14, <1>15, <1>16, <1>17, <1>18 DEF IInv

LEMMA StoreValuePreserves ==
    ASSUME NEW n \in Threads, IInv, StoreValue(n)
    PROVE  IInv'
<1> USE DEF StoreValue
<1>0. TypeOK
  BY DEF IInv
<1>1. pc' = pc
  OBVIOUS
<1>10. TypeOK'
  BY <1>0, <1>1, NodesAreNot DEF TypeOK, Steps, Goto
<1>11. Holders'
  BY <1>0, <1>1, NodesAreNot DEF IInv, Holders, TypeOK, Awaited
<1>12. Stores'
  BY <1>0, <1>1, NodesAreNot DEF IInv, Stores, TypeOK
<1>13. BitsArePublished'
  BY <1>0, <1>1, NodesAreNot DEF IInv, BitsArePublished, Published, TypeOK
<1>14. WakeupToCome'
  BY <1>0, <1>1, NodesAreNot DEF IInv, WakeupToCome, Awaited
<1>15. InputsDoNotWait'
  BY <1>0, <1>1, NodesAreNot DEF IInv, InputsDoNotWait
<1>16. Waited'
  BY <1>0, <1>1, NodesAreNot DEF IInv, Waited
<1>17. ChildrenFirst'
  BY <1>0, <1>1, NodesAreNot DEF IInv, ChildrenFirst
<1>18. ReturnedLast'
  BY <1>0, <1>1, NodesAreNot DEF IInv, ReturnedLast
<1> QED
  BY <1>10, <1>11, <1>12, <1>13, <1>14, <1>15, <1>16, <1>17, <1>18 DEF IInv

LEMMA LoadBlockPreserves ==
    ASSUME NEW n \in Threads, IInv, LoadBlock(n)
    PROVE  IInv'
<1> USE DEF LoadBlock
<1>0. TypeOK
  BY DEF IInv
<1>1. pc' = pc
  OBVIOUS
<1>10. TypeOK'
  BY <1>0, <1>1, NodesAreNot DEF TypeOK, Steps, Goto
<1>11. Holders'
  BY <1>0, <1>1, NodesAreNot DEF IInv, Holders, TypeOK, Awaited
<1>12. Stores'
  BY <1>0, <1>1, NodesAreNot DEF IInv, Stores, TypeOK
<1>13. BitsArePublished'
  BY <1>0, <1>1, NodesAreNot DEF IInv, BitsArePublished, Published, TypeOK
<1>14. WakeupToCome'
  BY <1>0, <1>1, NodesAreNot DEF IInv, WakeupToCome, Awaited
<1>15. InputsDoNotWait'
  BY <1>0, <1>1, NodesAreNot DEF IInv, InputsDoNotWait
<1>16. Waited'
  BY <1>0, <1>1, NodesAreNot DEF IInv, Waited
<1>17. ChildrenFirst'
  BY <1>0, <1>1, NodesAreNot DEF IInv, ChildrenFirst
<1>18. ReturnedLast'
  BY <1>0, <1>1, NodesAreNot DEF IInv, ReturnedLast
<1> QED
  BY <1>10, <1>11, <1>12, <1>13, <1>14, <1>15, <1>16, <1>17, <1>18 DEF IInv

LEMMA StoreBlockPreserves ==
    ASSUME NEW n \in Threads, IInv, StoreBlock(n)
    PROVE  IInv'
<1> USE DEF StoreBlock
<1>0. TypeOK
  BY DEF IInv
<1>1. pc' = pc
  OBVIOUS
<1>2. pc[n] = "stores" /\ block[n] = computed /\ computed' = computed \cup {n}
  BY DEF IInv, Stores
<1>3. \A m \in Threads : pc[m] = "stores" => m = n
  BY <1>2 DEF IInv, Holders
<1>4. \A m \in Threads : todo'[m] = IF m = n THEN todo[n] \ {"store"} ELSE todo[m]
  BY <1>0 DEF TypeOK
<1>10. TypeOK'
  BY <1>0, <1>2 DEF TypeOK, Steps, Goto
<1>11. Holders'
  BY <1>0, <1>1, NodesAreNot DEF IInv, Holders, TypeOK, Awaited
<1>12. Stores'
  BY <1>0, <1>2, <1>3, <1>4 DEF IInv, Stores, TypeOK
<1>13. BitsArePublished'
  BY <1>0, <1>1, <1>2, <1>4, NodesAreNot DEF IInv, BitsArePublished, Published, TypeOK
<1>14. WakeupToCome'
  BY <1>0, <1>1, NodesAreNot DEF IInv, WakeupToCome, Awaited
<1>15. InputsDoNotWait'
  BY <1>0, <1>1, NodesAreNot DEF IInv, InputsDoNotWait
<1>16. Waited'
  BY <1>0, <1>2 DEF IInv, Waited
<1>17. ChildrenFirst'
  BY <1>0, <1>1, <1>2 DEF IInv, ChildrenFirst
<1>18. ReturnedLast'
  BY <1>0, <1>1, NodesAreNot DEF IInv, ReturnedLast
<1> QED
  BY <1>10, <1>11, <1>12, <1>13, <1>14, <1>15, <1>16, <1>17, <1>18 DEF IInv

LEMMA UnlockVectorPreserves ==
    ASSUME NEW n \in Threads, IInv, UnlockVector(n)
    PROVE  IInv'
<1> USE DEF UnlockVector
<1>0. TypeOK
  BY DEF IInv
<1>1. \A m \in Threads : pc'[m] = IF m = n THEN "notify" ELSE pc[m]
  BY <1>0 DEF TypeOK, Goto
<1>10. TypeOK'
  BY <1>0, <1>1, NodesAreNot DEF TypeOK, Steps, Goto
<1>11. Holders'
  BY <1>0, <1>1, NodesAreNot DEF IInv, Holders, TypeOK, Awaited
<1>12. Stores'
  BY <1>0, <1>1, NodesAreNot DEF IInv, Stores, TypeOK
<1>13. BitsArePublished'
  BY <1>0, <1>1, NodesAreNot DEF IInv, BitsArePublished, Published, TypeOK
<1>14. WakeupToCome'
  BY <1>0, <1>1, NodesAreNot, AwaitedIsNode DEF IInv, WakeupToCome, Awaited
<1>15. InputsDoNotWait'
  BY <1>0, <1>1, NodesAreNot DEF IInv, InputsDoNotWait
<1>16. Waited'
  BY <1>0, <1>1, NodesAreNot DEF IInv, Waited
<1>17. ChildrenFirst'
  BY <1>0, <1>1, NodesAreNot DEF IInv, ChildrenFirst
<1>18. ReturnedLast'
  BY <1>0, <1>1, NodesAreNot DEF IInv, ReturnedLast
<1> QED
  BY <1>10, <1>11, <1>12, <1>13, <1>14, <1>15, <1>16, <1>17, <1>18 DEF IInv

LEMMA NotifyPreserves ==
    ASSUME NEW n \in Threads, IInv, Notify(n)
    PROVE  IInv'
<1> USE DEF Notify
<1>0. TypeOK
  BY DEF IInv
<1>1. \A m \in Threads : pc'[m] = IF m = n THEN "done" ELSE IF m \in Sleepers(n) THEN "lock" ELSE pc[m]
  BY <1>0 DEF TypeOK, Goto
<1>2. \A m \in Sleepers(n) : m \in Ands /\ pc[m] = "waiting" /\ Awaited(m) = n
  BY DEF Sleepers
<1>3. \A m \in Ands : pc[m] = "sleep" => Awaited(m) # n
  <2> SUFFICES ASSUME NEW m \in Ands, pc[m] = "sleep", Awaited(m) = n PROVE FALSE
    OBVIOUS
  <2>1. guard_locks[n] = m
    BY DEF IInv, Holders
  <2> QED
    BY <2>1, NodesAreNot
<1>4. \A m \in Ands : pc[m] = "waiting" /\ Awaited(m) = n => m \in Sleepers(n)
  BY DEF Sleepers
<1>10. TypeOK'
  BY <1>0, <1>1, <1>2, NodesAreNot DEF TypeOK, Steps, Goto
<1>11. Holders'
  BY <1>0, <1>1, <1>2, NodesAreNot DEF IInv, Holders, TypeOK, Awaited
<1>12. Stores'
  BY <1>0, <1>1, <1>2, NodesAreNot DEF IInv, Stores, TypeOK
<1>13. BitsArePublished'
  BY <1>0, <1>1, <1>2, NodesAreNot DEF IInv, BitsArePublished, Published, TypeOK
<1>14. WakeupToCome'
  BY <1>0, <1>1, NodesAreNot, AwaitedIsNode, <1>2, <1>3, <1>4 DEF IInv, WakeupToCome, Awaited
<1>15. InputsDoNotWait'
  BY <1>0, <1>1, <1>2, NodesAreNot DEF IInv, InputsDoNotWait
<1>16. Waited'
  BY <1>0, <1>1, <1>2, NodesAreNot DEF IInv, Waited
<1>17. ChildrenFirst'
  BY <1>0, <1>1, <1>2, NodesAreNot DEF IInv, ChildrenFirst
<1>18. ReturnedLast'
  BY <1>0, <1>1, <1>2, NodesAreNot DEF IInv, ReturnedLast
<1> QED
  BY <1>10, <1>11, <1>12, <1>13, <1>14, <1>15, <1>16, <1>17, <1>18 DEF IInv

LEMMA StutterIInv ==
    ASSUME IInv, UNCHANGED vars
    PROVE  IInv'
<1> USE DEF vars
<1>1. TypeOK' /\ Holders' /\ Stores'
  BY DEF IInv, TypeOK, Holders, Stores, Awaited
<1>2. BitsArePublished' /\ WakeupToCome' /\ InputsDoNotWait'
  BY DEF IInv, BitsArePublished, WakeupToCome, InputsDoNotWait, Published, Awaited
<1>3. Waited' /\ ChildrenFirst' /\ ReturnedLast'
  BY DEF IInv, Waited, ChildrenFirst, ReturnedLast
<1> QED
  BY <1>1, <1>2, <1>3 DEF IInv

LEMMA JoinAllPreserves ==
    ASSUME IInv, JoinAll
    PROVE  IInv'
<1> USE DEF JoinAll
<1>1. TypeOK' /\ Holders' /\ Stores'
  BY DEF IInv, TypeOK, Holders, Stores, Awaited
<1>2. BitsArePublished' /\ WakeupToCome' /\ InputsDoNotWait'
  BY DEF IInv, BitsArePublished, WakeupToCome, InputsDoNotWait, Published, Awaited
<1>3. Waited' /\ ChildrenFirst' /\ ReturnedLast'
  BY DEF IInv, Waited, ChildrenFirst, ReturnedLast
<1> QED
  BY <1>1, <1>2, <1>3 DEF IInv

LEMMA NextIInv == IInv /\ [Next]_vars => IInv'
<1> SUFFICES ASSUME IInv, [Next]_vars PROVE IInv'
  OBVIOUS
<1>1. ASSUME NEW n \in Ands, Wakes(n) \/ SpuriousWake(n) PROVE IInv'
  BY <1>1, LockPreserves, TestSetPreserves, TestClearPreserves, SleepPreserves,
     SpuriousWakePreserves DEF Wakes
<1>2. ASSUME NEW n \in Threads, Spawn(n) \/ Publishes(n) PROVE IInv'
  BY <1>2, SpawnPreserves, CallPreserves, LockVectorPreserves, StoreValuePreserves,
     LoadBlockPreserves, StoreBlockPreserves, UnlockVectorPreserves, NotifyPreserves
     DEF Publishes
<1> QED
  BY <1>1, <1>2, JoinAllPreserves, StutterIInv DEF Next, Terminated

(* The protocol of mutexes and condition variables keeps its invariant in  *)
(* every execution, in whatever order the stores become visible.           *)
THEOREM Inductive == Spec => []IInv
  BY InitIInv, NextIInv, PTL DEF Spec

(* Every variable keeps its type. *)
THEOREM TypeCorrect == Spec => []TypeOK
<1>1. IInv => TypeOK
  BY DEF IInv
<1> QED
  BY <1>1, Inductive, PTL

(* No thread loses the bit of another in the bitset they share. *)
THEOREM BitsetKeepsEveryNode == Spec => []NoLostBit
<1>1. IInv => NoLostBit
  BY DEF IInv, BitsArePublished, Published, NoLostBit
<1> QED
  BY <1>1, Inductive, PTL

(* No parent sleeps on a child whose notification is over. *)
THEOREM NoParentSleepsOn == Spec => []NoLostWakeup
<1>1. IInv => NoLostWakeup
  BY DEF IInv, WakeupToCome, NoLostWakeup
<1> QED
  BY <1>1, Inductive, PTL

(* The callback of an AND node runs after those of both its children. *)
THEOREM CallbacksInOrder == Spec => []ChildrenFirst
<1>1. IInv => ChildrenFirst
  BY DEF IInv
<1> QED
  BY <1>1, Inductive, PTL

(* When parallel_compute returns every node has been published. *)
THEOREM NothingLeftOut == Spec => []Complete
<1>1. IInv => Complete
  BY DEF IInv, ReturnedLast, BitsArePublished, Published, Complete
<1> QED
  BY <1>1, Inductive, PTL

-------------------------------------------------------------------------------
(* The values. *)

(* The value of a node depends on its children only. *)
LEMMA ValueOfChildren ==
    ASSUME NEW n \in Threads, NEW f, NEW g,
           n \in Ands => \A i \in 1..2 : f[Child[n][i].node] = g[Child[n][i].node]
    PROVE  ValueOf(n, f) = ValueOf(n, g)
  BY DEF ValueOf

(* The children of a thread that has called its callback are published. *)
LEMMA ChildrenPublished ==
    ASSUME IInv, NEW n \in Threads, n \in Ands,
           pc[n] \in {"call", "publish", "stores", "notify", "done"}, NEW i \in 1..2
    PROVE  Child[n][i].node \in computed
  BY DEF IInv, ChildrenFirst

LEMMA InitVInv == Init => VInv
  BY DEF Init, VInv, ValueBeforeBit, LocalValue, Published

(* A step that writes no value and publishes nothing. *)
LEMMA NoStoreVInv ==
    ASSUME IInv, VInv, UNCHANGED <<computed_values, v>>,
           \A m \in Threads :
              /\ pc'[m] \in {"publish", "stores", "notify", "done"} =>
                    pc[m] \in {"publish", "stores", "notify", "done"}
              /\ "value" \in todo'[m] => "load" \in todo'[m]
              /\ (Published(m))' => Published(m)
              /\ pc'[m] = "stores" /\ "value" \notin todo'[m] =>
                    pc[m] = "stores" /\ "value" \notin todo[m]
    PROVE  VInv'
<1>1. ValueBeforeBit'
  BY DEF VInv, ValueBeforeBit
<1>2. LocalValue'
  BY DEF VInv, LocalValue, ValueOf
<1> QED
  BY <1>1, <1>2 DEF VInv

(* Steps that touch neither values nor the publication. *)
LEMMA QuietVInv ==
    ASSUME IInv, VInv, UNCHANGED <<computed_values, v, todo>>,
           \A m \in Threads :
              pc'[m] \in {"publish", "stores", "notify", "done"} => pc'[m] = pc[m]
    PROVE  VInv'
  BY NoStoreVInv DEF Published, VInv, ValueBeforeBit

LEMMA CallVInv ==
    ASSUME IInv, VInv, NEW n \in Threads, Call(n)
    PROVE  VInv'
<1> USE DEF Call
<1>1. \A m \in Threads : /\ pc'[m] = IF m = n THEN "publish" ELSE pc[m]
                         /\ v'[m] = IF m = n THEN ValueOf(n, computed_values) ELSE v[m]
  BY DEF IInv, TypeOK, Goto
<1>2. ValueBeforeBit'
  BY <1>1 DEF VInv, ValueBeforeBit, Published, IInv, Stores
<1>3. LocalValue'
  BY <1>1 DEF VInv, LocalValue, ValueOf
<1> QED
  BY <1>2, <1>3 DEF VInv

LEMMA LockVectorVInv ==
    ASSUME IInv, VInv, NEW n \in Threads, LockVector(n)
    PROVE  VInv'
<1> USE DEF LockVector
<1>1. \A m \in Threads :
         /\ pc'[m] = IF m = n THEN "stores" ELSE pc[m]
         /\ todo'[m] = IF m = n THEN {"value", "load", "store"} ELSE todo[m]
  BY DEF IInv, TypeOK, Goto
<1>2. \A m \in Threads : (Published(m))' => Published(m)
  BY <1>1 DEF Published
<1> QED
  BY <1>1, <1>2, NoStoreVInv DEF VInv, ValueBeforeBit

(* The value is written while the bit is clear, so nobody has read it. *)
LEMMA StoreValueVInv ==
    ASSUME IInv, VInv, NEW n \in Threads, StoreValue(n)
    PROVE  VInv'
<1> USE DEF StoreValue
<1>0. pc[n] = "stores" /\ "store" \in todo[n]
  BY DEF IInv, Stores, VInv, ValueBeforeBit
<1>1. n \notin computed
  BY <1>0, NodesAreNot DEF IInv, BitsArePublished, Published
<1>2. /\ computed_values'[n] = v[n]
      /\ \A m \in Nodes : m # n => computed_values'[m] = computed_values[m]
  BY DEF IInv, TypeOK
<1>3. \A m \in Threads : todo'[m] = IF m = n THEN todo[n] \ {"value"} ELSE todo[m]
  BY DEF IInv, TypeOK
<1>4. ValueBeforeBit'
  BY <1>2, <1>3 DEF VInv, ValueBeforeBit, Published
<1>5. LocalValue'
  <2> SUFFICES ASSUME NEW m \in Threads, pc[m] \in {"publish", "stores", "notify", "done"}
               PROVE  v[m] = ValueOf(m, computed_values')
    BY DEF LocalValue, ValueOf
  <2>1. m \in Ands =>
           \A i \in 1..2 : computed_values'[Child[m][i].node] = computed_values[Child[m][i].node]
    BY <1>1, <1>2, ChildrenPublished, ChildIsNode
  <2>2. ValueOf(m, computed_values') = ValueOf(m, computed_values)
    BY <2>1 DEF ValueOf
  <2> QED
    BY <2>2 DEF VInv, LocalValue
<1> QED
  BY <1>4, <1>5 DEF VInv

(* The bit is written after the value if the order of the stores is kept. *)
LEMMA BitVInv ==
    ASSUME ~MayReorder, IInv, VInv, NEW n \in Threads,
           LoadBlock(n) \/ StoreBlock(n) \/ UnlockVector(n)
    PROVE  VInv'
<1>1. UNCHANGED <<computed_values, v>>
  BY DEF LoadBlock, StoreBlock, UnlockVector
<1>2. LocalValue'
  BY <1>1 DEF LoadBlock, StoreBlock, UnlockVector, VInv, LocalValue, ValueOf,
              IInv, TypeOK, Goto
<1>3. ValueBeforeBit'
  <2>1. CASE LoadBlock(n)
    BY <1>1, <2>1 DEF LoadBlock, VInv, ValueBeforeBit, Published, IInv, TypeOK
  <2>2. CASE StoreBlock(n)
    <3>1. pc[n] = "stores" /\ "value" \notin todo[n]
      BY <2>2 DEF StoreBlock, IInv, Stores, VInv, ValueBeforeBit
    <3> QED
      BY <1>1, <2>2, <3>1 DEF StoreBlock, VInv, ValueBeforeBit, Published, IInv, TypeOK
  <2>3. CASE UnlockVector(n)
    BY <1>1, <2>3 DEF UnlockVector, VInv, ValueBeforeBit, Published, IInv, TypeOK, Goto
  <2> QED
    BY <2>1, <2>2, <2>3
<1> QED
  BY <1>2, <1>3 DEF VInv

LEMMA NotifyVInv ==
    ASSUME IInv, VInv, NEW n \in Threads, Notify(n)
    PROVE  VInv'
<1> USE DEF Notify
<1>1. \A m \in Threads : Published(m)' => Published(m)
  BY DEF Published, Sleepers
<1>2. \A m \in Threads : /\ pc'[m] = "stores" => pc[m] = "stores"
                         /\ pc'[m] \in {"publish", "stores", "notify", "done"} =>
                               pc[m] \in {"publish", "stores", "notify", "done"}
  OBVIOUS
<1> QED
  BY <1>1, <1>2, NoStoreVInv DEF VInv, ValueBeforeBit

LEMMA NextVInv ==
    ASSUME ~MayReorder
    PROVE  IInv /\ VInv /\ [Next]_vars => VInv'
<1> SUFFICES ASSUME IInv, VInv, [Next]_vars PROVE VInv'
  OBVIOUS
<1>1. ASSUME NEW n \in Ands, Wakes(n) \/ SpuriousWake(n) PROVE VInv'
  <2>1. UNCHANGED <<computed_values, v, todo>>
    BY <1>1 DEF Wakes, Lock, TestSet, TestClear, Sleep, SpuriousWake
  <2>2. \A m \in Threads :
           pc'[m] \in {"publish", "stores", "notify", "done"} => pc'[m] = pc[m]
    BY <1>1 DEF Wakes, Lock, TestSet, TestClear, Sleep, SpuriousWake, Goto, IInv, TypeOK
  <2> QED
    BY <2>1, <2>2, QuietVInv
<1>2. ASSUME NEW n \in Threads, Spawn(n) PROVE VInv'
  <2>1. \A m \in Threads :
           pc'[m] \in {"publish", "stores", "notify", "done"} => pc'[m] = pc[m]
    BY <1>2 DEF Spawn, Goto, IInv, TypeOK
  <2> QED
    BY <1>2, <2>1, QuietVInv DEF Spawn
<1>3. ASSUME NEW n \in Threads, Publishes(n) PROVE VInv'
  BY <1>3, CallVInv, LockVectorVInv, StoreValueVInv, BitVInv, NotifyVInv DEF Publishes
<1>4. CASE JoinAll \/ UNCHANGED vars
  <2>1. UNCHANGED <<computed_values, v, todo, pc>>
    BY <1>4 DEF JoinAll, vars
  <2> QED
    BY <2>1, QuietVInv
<1> QED
  BY <1>1, <1>2, <1>3, <1>4 DEF Next, Terminated

LEMMA ValuesInductive ==
    ASSUME ~MayReorder
    PROVE  Spec => [](IInv /\ VInv)
  BY InitIInv, NextIInv, InitVInv, NextVInv, PTL DEF Spec

LEMMA PublishedIsCorrect ==
    ASSUME IInv, VInv
    PROVE  Correct
<1> SUFFICES ASSUME NEW n \in computed \ {0}
             PROVE  computed_values[n] = ValueOf(n, computed_values)
  BY DEF Correct
<1>1. n \in Threads /\ Published(n)
  BY DEF IInv, BitsArePublished
<1> QED
  BY <1>1 DEF VInv, ValueBeforeBit, LocalValue, Published

(* In a build that keeps the stores in order every published value is that *)
(* of the node for the published values of its children, in every schedule. *)
THEOREM ValuesAreCorrect ==
    ASSUME ~MayReorder
    PROVE  Spec => []Correct
  BY PublishedIsCorrect, ValuesInductive, PTL

-------------------------------------------------------------------------------
(* The threads implement the sequential evaluation. *)

(* A step keeps what is published, or publishes one node. *)
LEMMA StepPublishes ==
    ASSUME ~MayReorder, IInv, VInv, [Next]_vars
    PROVE  \/ /\ computed' = computed
              /\ \A m \in computed : computed_values'[m] = computed_values[m]
           \/ \E n \in Threads : StoreBlock(n)
<1>1. CASE \E n \in Threads : StoreValue(n)
  <2> PICK n \in Threads : StoreValue(n)
    BY <1>1
  <2>1. "store" \in todo[n] /\ pc[n] = "stores"
    BY DEF StoreValue, IInv, Stores, VInv, ValueBeforeBit
  <2>2. n \notin computed
    BY <2>1, NodesAreNot DEF IInv, BitsArePublished, Published
  <2> QED
    BY <2>2 DEF StoreValue, IInv, TypeOK
<1>2. CASE UNCHANGED <<computed, computed_values>>
  BY <1>2
<1> QED
  BY <1>1, <1>2 DEF Next, Wakes, Publishes, Terminated, vars, Spawn, JoinAll, Lock, TestSet,
     TestClear, Sleep, SpuriousWake, Call, LockVector, LoadBlock, UnlockVector, Notify

LEMMA StoreBlockPublishes ==
    ASSUME ~MayReorder, IInv, VInv, NEW n \in Threads, StoreBlock(n)
    PROVE  /\ n \notin computed /\ computed' = computed \cup {n}
           /\ UNCHANGED <<computed_values, returned>>
           /\ computed_values[n] = ValueOf(n, computed_values)
           /\ n \in Ands => \A i \in 1..2 : Child[n][i].node \in computed
<1>1. pc[n] = "stores" /\ "value" \notin todo[n] /\ block[n] = computed
  BY DEF StoreBlock, IInv, Stores, VInv, ValueBeforeBit
<1>2. n \notin computed
  BY <1>1, NodesAreNot DEF StoreBlock, IInv, BitsArePublished, Published
<1>3. computed_values[n] = ValueOf(n, computed_values)
  BY <1>1 DEF VInv, ValueBeforeBit, LocalValue
<1>4. n \in Ands => \A i \in 1..2 : Child[n][i].node \in computed
  BY <1>1, ChildrenPublished
<1> QED
  BY <1>1, <1>2, <1>3, <1>4 DEF StoreBlock

(* No step withdraws or changes a published value. *)
THEOREM PublishedIsFinal ==
    ASSUME ~MayReorder
    PROVE  Spec => PublishedForGood
<1>1. IInv /\ VInv /\ [Next]_vars =>
         [\A n \in computed : n \in computed' /\ computed_values'[n] = computed_values[n]]_vars
  BY StepPublishes, StoreBlockPublishes
<1> QED
  BY <1>1, ValuesInductive, PTL DEF Spec, PublishedForGood

LEMMA StoreBlockEvaluates ==
    ASSUME ~MayReorder, IInv, VInv, NEW n \in Threads, StoreBlock(n)
    PROVE  Evaluation!Evaluate(n)
<1>0. TypeOK /\ computed \subseteq Nodes
  BY DEF IInv, TypeOK
<1>1. Resolved[n] = Missing
  BY StoreBlockPublishes DEF Resolved
<1>2. n \in Ands => \A i \in 1..2 :
         Resolved[Child[n][i].node] = computed_values[Child[n][i].node]
  BY StoreBlockPublishes, <1>0 DEF Resolved
<1>3. n \in Ands => \A i \in 1..2 : Resolved[Child[n][i].node] # Missing
  <2>1. Missing \notin Values
    BY ValueAssumption
  <2>2. n \in Ands => \A i \in 1..2 : computed_values[Child[n][i].node] \in Values
    BY <1>0, ChildIsNode DEF TypeOK
  <2> QED
    BY <1>2, <2>1, <2>2
<1>4. Evaluation!ValueOf(n, Resolved) = ValueOf(n, Resolved)
  BY DEF Evaluation!ValueOf, ValueOf
<1>5. ValueOf(n, Resolved) = computed_values[n]
  BY <1>2, StoreBlockPublishes DEF ValueOf
<1>6. Resolved' = [Resolved EXCEPT ![n] = computed_values[n]]
  BY <1>0, StoreBlockPublishes DEF Resolved
<1> QED
  BY <1>1, <1>3, <1>4, <1>5, <1>6, StoreBlockPublishes DEF Evaluation!Evaluate

LEMMA JoinAllReturns ==
    ASSUME IInv, JoinAll
    PROVE  Evaluation!Return
<1>1. computed = Nodes
  BY DEF JoinAll, IInv, BitsArePublished, Published
<1>2. \A n \in Nodes : Resolved[n] # Missing
  BY <1>1, ValueAssumption DEF Resolved, IInv, TypeOK
<1>3. Resolved' = Resolved
  BY DEF JoinAll, Resolved
<1> QED
  BY <1>2, <1>3 DEF Evaluation!Return, Evaluation!Nodes, Evaluation!Threads, JoinAll

(* Every step of the threads evaluates one node whose children have their  *)
(* values, returns when all have one, or changes nothing of the evaluation. *)
THEOREM ComputeRefinesEvaluation ==
    ASSUME ~MayReorder
    PROVE  Spec => ImplementsEvaluation
<1>1. Init => Evaluation!EInit
  BY DEF Init, Evaluation!EInit, Resolved, Evaluation!Nodes, Evaluation!Threads
<1>2. ASSUME IInv, VInv, [Next]_vars
      PROVE  [Evaluation!ENext]_(Evaluation!evars)
  <2>1. CASE \E n \in Threads : StoreBlock(n)
    BY <1>2, <2>1, StoreBlockEvaluates DEF Evaluation!ENext, Evaluation!Threads
  <2>2. CASE JoinAll
    BY <1>2, <2>2, JoinAllReturns DEF Evaluation!ENext
  <2>3. CASE /\ computed' = computed
             /\ \A m \in computed : computed_values'[m] = computed_values[m]
             /\ returned' = returned
    BY <2>3 DEF Evaluation!evars, Resolved
  <2>4. returned' = returned \/ JoinAll
    BY <1>2 DEF Next, Wakes, Publishes, Terminated, vars, Spawn, Lock, TestSet, TestClear,
       Sleep, SpuriousWake, Call, LockVector, StoreValue, LoadBlock, StoreBlock,
       UnlockVector, Notify
  <2> QED
    BY <1>2, <2>1, <2>2, <2>3, <2>4, StepPublishes
<1> QED
  BY <1>1, <1>2, ValuesInductive, PTL DEF Spec, ImplementsEvaluation, Evaluation!ESafety
-------------------------------------------------------------------------------
(* The cuts of one node.  Induction is by the least counterexample.          *)
LEMMA Least ==
    ASSUME NEW T, T \subseteq Nat, T # {}
    PROVE  \E n \in T : \A j \in T : n <= j
<1>1. PICK n \in T : \A j \in T : ~ <<j, n>> \in OpToRel(<, Nat)
  BY NatLessThanWellFounded, WFMin
<1>2. \A j \in T : ~ j < n
  BY <1>1 DEF OpToRel
<1> QED
  BY <1>2

(* The community modules fold a sequence over the subsets of its domain, the   *)
(* largest index last.                                                      *)
LEMMA MaxOf ==
    ASSUME NEW n \in Nat, NEW s \in SUBSET (1..n), s # {}
    PROVE  SeqExt!Max(s) \in s /\ \A i \in s : i <= SeqExt!Max(s)
<1> DEFINE T == {n - i : i \in s}
<1>0. \A i \in s : i \in 1..n /\ n - i \in Nat
  OBVIOUS
<1>1. T \subseteq Nat /\ T # {}
  BY <1>0
<1>2. PICK m \in T : \A j \in T : m <= j
  BY <1>1, Least, Zenon
<1>3. PICK j \in s : m = n - j
  BY <1>2
<1>4. \A i \in s : n - i \in T
  OBVIOUS
<1>5. \A i \in s : j >= i
  <2> TAKE i \in s
  <2>1. n - j <= n - i /\ i \in Int /\ j \in Int
    BY <1>2, <1>3, <1>4
  <2> QED
    BY <2>1
<1>6. \E j1 \in s : \A i \in s : j1 >= i
  BY <1>5
<1>7. SeqExt!Max(s) \in s /\ \A i \in s : SeqExt!Max(s) >= i
  BY <1>6, Zenon DEF SeqExt!Max
<1>8. s \subseteq Int
  OBVIOUS
<1> QED
  BY <1>7, <1>8

(* The prefix without the last element. *)
LEMMA MaxOfPrefix ==
    ASSUME NEW n \in Nat, NEW j \in 1..n
    PROVE  1..j \in SUBSET (1..n) /\ 1..j # {} /\ SeqExt!Max(1..j) = j /\ (1..j) \ {j} = 1..j - 1
<1>1. 1..j \in SUBSET (1..n) /\ j \in 1..j /\ j \in Nat
  OBVIOUS
<1>2. SeqExt!Max(1..j) \in 1..j /\ j <= SeqExt!Max(1..j)
  BY <1>1, MaxOf
<1> QED
  BY <1>1, <1>2

IsFold(it, F, base, n) ==
    it = [s \in SUBSET (1..n) |->
            IF s = {} THEN base ELSE F[<<SeqExt!Max(s), it[s \ {SeqExt!Max(s)}]>>]]

(* A left fold is the last of a sequence of intermediate values. *)
LEMMA FoldExists ==
    ASSUME NEW n \in Nat, NEW V, NEW base \in V, NEW F \in [(1..n) \X V -> V]
    PROVE  \E it \in [SUBSET (1..n) -> V] : IsFold(it, F, base, n)
<1> DEFINE E(i) == \E it \in [SUBSET (1..i) -> V] : IsFold(it, F, base, i)
           T == {i \in 0..n : ~E(i)}
<1>1. E(0)
  <2> DEFINE it == [s \in SUBSET (1..0) |-> base]
  <2>1. \A s \in SUBSET (1..0) : s = {}
    OBVIOUS
  <2>2. it = [s \in SUBSET (1..0) |->
                IF s = {} THEN base ELSE F[<<SeqExt!Max(s), it[s \ {SeqExt!Max(s)}]>>]]
    BY <2>1
  <2>3. it \in [SUBSET (1..0) -> V]
    OBVIOUS
  <2> QED
    BY <2>2, <2>3 DEF IsFold
<1>2. ASSUME NEW i \in 0..n - 1, E(i)
      PROVE  E(i + 1)
  <2>1. PICK it \in [SUBSET (1..i) -> V] : IsFold(it, F, base, i)
    BY <1>2
  <2>2. i \in Nat /\ i + 1 \in 1..n /\ i + 1 \in Nat
    OBVIOUS
  <2> DEFINE g == [s \in SUBSET (1..i + 1) |->
                      IF i + 1 \in s THEN F[<<i + 1, it[s \ {i + 1}]>>] ELSE it[s]]
  <2>3. ASSUME NEW s \in SUBSET (1..i + 1)
        PROVE  /\ i + 1 \notin s => s \in SUBSET (1..i)
               /\ s \ {i + 1} \in SUBSET (1..i)
               /\ i + 1 \in s => SeqExt!Max(s) = i + 1
    <3>1. i + 1 \in s => SeqExt!Max(s) = i + 1
      <4> SUFFICES ASSUME i + 1 \in s PROVE SeqExt!Max(s) = i + 1
        OBVIOUS
      <4>1. SeqExt!Max(s) \in s /\ i + 1 <= SeqExt!Max(s)
        BY <2>2, MaxOf
      <4>2. SeqExt!Max(s) \in 1..i + 1
        BY <4>1
      <4> QED
        BY <2>2, <4>1, <4>2
    <3> QED
      BY <2>2, <3>1
  <2>4. g \in [SUBSET (1..i + 1) -> V]
    <3> SUFFICES ASSUME NEW s \in SUBSET (1..i + 1) PROVE g[s] \in V
      OBVIOUS
    <3>1. CASE i + 1 \in s
      <4>1. it[s \ {i + 1}] \in V
        BY <2>1, <2>3
      <4> QED
        BY <2>2, <3>1, <4>1
    <3>2. CASE i + 1 \notin s
      BY <2>1, <2>3, <3>2
    <3> QED
      BY <3>1, <3>2
  <2>5. ASSUME NEW s \in SUBSET (1..i + 1)
        PROVE  g[s] = IF s = {} THEN base ELSE F[<<SeqExt!Max(s), g[s \ {SeqExt!Max(s)}]>>]
    <3>1. CASE i + 1 \in s
      <4>1. s # {} /\ SeqExt!Max(s) = i + 1 /\ g[s] = F[<<i + 1, it[s \ {i + 1}]>>]
        BY <2>3, <3>1
      <4>2. s \ {i + 1} \in SUBSET (1..i + 1) /\ i + 1 \notin s \ {i + 1}
        OBVIOUS
      <4>3. g[s \ {i + 1}] = it[s \ {i + 1}]
        BY <4>2
      <4> HIDE DEF g
      <4> QED
        BY <4>1, <4>3
    <3>2. CASE i + 1 \notin s
      <4>1. s \in SUBSET (1..i) /\ g[s] = it[s]
        BY <2>3, <3>2
      <4>2. it[s] = IF s = {} THEN base ELSE F[<<SeqExt!Max(s), it[s \ {SeqExt!Max(s)}]>>]
        BY <2>1, <4>1 DEF IsFold
      <4>3. s \ {SeqExt!Max(s)} \in SUBSET (1..i + 1) /\ i + 1 \notin s \ {SeqExt!Max(s)}
        BY <3>2
      <4>4. g[s \ {SeqExt!Max(s)}] = it[s \ {SeqExt!Max(s)}]
        BY <4>3
      <4> HIDE DEF g
      <4> QED
        BY <4>1, <4>2, <4>4
    <3> QED
      BY <3>1, <3>2
  <2>6. g = [s \in SUBSET (1..i + 1) |-> g[s]]
    OBVIOUS
  <2> HIDE DEF g
  <2>7. IsFold(g, F, base, i + 1)
    BY <2>5, <2>6 DEF IsFold
  <2> QED
    BY <2>4, <2>7
<1> HIDE DEF E
<1>3. T = {}
  <2> SUFFICES ASSUME T # {} PROVE FALSE
    OBVIOUS
  <2>0. T \subseteq Nat
    OBVIOUS
  <2>1. PICK i \in T : \A j \in T : i <= j
    BY <2>0, Least, Zenon
  <2>2. i \in 0..n /\ ~E(i) /\ i # 0
    BY <1>1
  <2>3. i - 1 \in 0..n - 1 /\ i - 1 \in 0..n /\ (i - 1) + 1 = i /\ ~ i <= i - 1
    BY <2>2
  <2>4. E(i - 1)
    BY <2>1, <2>3
  <2>5. E((i - 1) + 1)
    BY <1>2, <2>3, <2>4
  <2> QED
    BY <2>2, <2>3, <2>5
<1>4. E(n)
  <2>1. n \in 0..n /\ n \notin T
    BY <1>3
  <2> QED
    BY <2>1
<1> QED
  BY <1>4 DEF E

(* A fold whose value after i elements is in V[i].                           *)
LEMMA FoldAdvances ==
    ASSUME NEW n \in Nat, NEW V, NEW r, r[{}] \in V[0],
           \A i \in 1..n : r[1..i - 1] \in V[i - 1] => r[1..i] \in V[i]
    PROVE  r[1..n] \in V[n]
<1> DEFINE T == {i \in 0..n : r[1..i] \notin V[i]}
<1>1. T = {}
  <2> SUFFICES ASSUME T # {} PROVE FALSE
    OBVIOUS
  <2>0. T \subseteq Nat
    OBVIOUS
  <2>1. PICK i \in T : \A j \in T : i <= j
    BY <2>0, Least, Zenon
  <2>2. 1..0 = {}
    OBVIOUS
  <2>3. i \in 1..n /\ i - 1 \in 0..n /\ ~ i <= i - 1
    BY <2>1, <2>2
  <2>4. r[1..i - 1] \in V[i - 1]
    BY <2>1, <2>3
  <2>5. r[1..i] \in V[i]
    BY <2>3, <2>4
  <2> QED
    BY <2>1, <2>5
<1> QED
  BY <1>1

(* What is in V after each prefix is there at the end. *)
StaysIn(r, n, V) ==
    r[{}] \in V /\ \A i \in 1..n : r[1..i - 1] \in V => r[1..i] \in V

LEMMA FoldStays ==
    ASSUME NEW n \in Nat, NEW V, NEW r, StaysIn(r, n, V)
    PROVE  r[1..n] \in V
<1> DEFINE W == [i \in 0..n |-> V]
<1>1. /\ 0 \in 0..n /\ n \in 0..n
      /\ \A i \in 1..n : i \in 0..n /\ i - 1 \in 0..n
  OBVIOUS
<1>2. W[0] = V /\ W[n] = V /\ \A i \in 1..n : W[i] = V /\ W[i - 1] = V
  BY <1>1
<1> HIDE DEF W
<1>3. r[1..n] \in W[n]
  BY <1>2, FoldAdvances DEF StaysIn
<1> QED
  BY <1>2, <1>3

(* Sequences of any elements. *)
LEMMA Sequence ==
    ASSUME NEW X
    PROVE  /\ \A s \in Seq(X), t \in Seq(X) : s \o t \in Seq(X)
           /\ \A s \in Seq(X), x \in X : Append(s, x) \in Seq(X) /\ <<x>> \in Seq(X)
           /\ <<>> \in Seq(X)
           /\ \A s \in Seq(X) : Len(s) \in Nat /\ s \in [1..Len(s) -> X] /\ DOMAIN s = 1..Len(s)
           /\ \A s \in Seq(X), i, j \in Nat : 1 <= i /\ j <= Len(s) => SubSeq(s, i, j) \in Seq(X)
OBVIOUS

LEMMA IsASequence ==
    ASSUME NEW X, NEW n \in Nat, NEW f \in [1..n -> X]
    PROVE  f \in Seq(X)
OBVIOUS

(* All the sequences one after the other. *)
LEMMA FlattenTyped ==
    ASSUME NEW X, NEW s \in Seq(Seq(X))
    PROVE  SeqExt!FlattenSeq(s) \in Seq(X)
<1> DEFINE E(n) == \E f : f = [i \in 1..n |-> IF i = 1 THEN s[i] ELSE f[i - 1] \o s[i]]
           T == {n \in Nat : ~E(n)}
           N == Len(s)
           g == CHOOSE f : f = [i \in 1..N |-> IF i = 1 THEN s[i] ELSE f[i - 1] \o s[i]]
<1>1. CASE Len(s) = 0
  <2>1. s = <<>>
    BY <1>1
  <2>2. SeqExt!FlattenSeq(s) = s
    BY <1>1, Zenon DEF SeqExt!FlattenSeq
  <2>3. <<>> \in Seq(X)
    BY Sequence
  <2> QED
    BY <2>1, <2>2, <2>3, Zenon
<1>2. CASE Len(s) # 0
  <2>1. N \in Nat /\ N # 0 /\ \A i \in 1..N : s[i] \in Seq(X)
    BY <1>2
  <2>2. SeqExt!FlattenSeq(s) = g[N]
    BY <1>2, Zenon DEF SeqExt!FlattenSeq
  <2>3. E(0)
    <3> DEFINE f == [i \in 1..0 |-> s[i]]
    <3>1. f = [i \in 1..0 |-> IF i = 1 THEN s[i] ELSE f[i - 1] \o s[i]]
      OBVIOUS
    <3> QED
      BY <3>1
  <2>4. ASSUME NEW n \in Nat, E(n)
        PROVE  E(n + 1)
    <3>1. PICK f : f = [i \in 1..n |-> IF i = 1 THEN s[i] ELSE f[i - 1] \o s[i]]
      BY <2>4
    <3> DEFINE h == [i \in 1..n + 1 |-> IF i \in 1..n THEN f[i]
                                        ELSE IF i = 1 THEN s[i] ELSE f[i - 1] \o s[i]]
    <3>2. ASSUME NEW i \in 1..n + 1
          PROVE  h[i] = IF i = 1 THEN s[i] ELSE h[i - 1] \o s[i]
      <4>1. CASE i \in 1..n
        <5>1. f[i] = IF i = 1 THEN s[i] ELSE f[i - 1] \o s[i]
          BY <3>1, <4>1
        <5>2. i # 1 => i - 1 \in 1..n /\ i - 1 \in 1..n + 1
          BY <4>1
        <5> QED
          BY <4>1, <5>1, <5>2
      <4>2. CASE i \notin 1..n
        <5>1. i = n + 1 /\ (i # 1 => i - 1 \in 1..n /\ i - 1 \in 1..n + 1)
          BY <4>2
        <5> QED
          BY <4>2, <5>1
      <4> QED
        BY <4>1, <4>2
    <3>3. h = [i \in 1..n + 1 |-> h[i]]
      OBVIOUS
    <3> HIDE DEF h
    <3>4. h = [i \in 1..n + 1 |-> IF i = 1 THEN s[i] ELSE h[i - 1] \o s[i]]
      BY <3>2, <3>3
    <3> QED
      BY <3>4
  <2> HIDE DEF E
  <2>5. T = {}
    <3> SUFFICES ASSUME T # {} PROVE FALSE
      OBVIOUS
    <3>0. T \subseteq Nat
      OBVIOUS
    <3>1. PICK n \in T : \A j \in T : n <= j
      BY <3>0, Least, Zenon
    <3>2. n \in Nat /\ ~E(n) /\ n # 0
      BY <2>3
    <3>3. n - 1 \in Nat /\ (n - 1) + 1 = n /\ ~ n <= n - 1
      BY <3>2
    <3>4. E(n - 1)
      BY <3>1, <3>3
    <3> QED
      BY <2>4, <3>2, <3>3, <3>4
  <2>6. E(N)
    BY <2>1, <2>5
  <2>7. g = [i \in 1..N |-> IF i = 1 THEN s[i] ELSE g[i - 1] \o s[i]]
    BY <2>6, Zenon DEF E
  <2> HIDE DEF g, N
  <2>8. \A i \in 1..N : g[i] = IF i = 1 THEN s[i] ELSE g[i - 1] \o s[i]
    BY <2>7
  <2> DEFINE B == {i \in 1..N : g[i] \notin Seq(X)}
  <2>9. B = {}
    <3> SUFFICES ASSUME B # {} PROVE FALSE
      OBVIOUS
    <3>0. B \subseteq Nat
      BY <2>1
    <3>1. PICK n \in B : \A j \in B : n <= j
      BY <3>0, Least, Zenon
    <3>2. n # 1
      BY <2>1, <2>8
    <3>3. n \in 1..N /\ n - 1 \in 1..N /\ ~ n <= n - 1
      BY <2>1, <3>2
    <3>4. g[n - 1] \in Seq(X)
      BY <3>1, <3>3
    <3>5. g[n] = g[n - 1] \o s[n]
      BY <2>8, <3>2, <3>3
    <3>6. g[n - 1] \o s[n] \in Seq(X)
      BY <2>1, <3>3, <3>4
    <3> QED
      BY <3>1, <3>5, <3>6
  <2> QED
    BY <2>1, <2>2, <2>9
<1> QED
  BY <1>1, <1>2

(* Every choice is continued by every element of the list. *)
LEMMA ExtendedTyped ==
    ASSUME NEW A, NEW B, NEW choices \in Seq(A), NEW list, NEW n \in Nat, DOMAIN list = 1..n,
           \A a \in A, j \in 1..n : Append(a, list[j]) \in B
    PROVE  Extended(choices, list) \in Seq(B)
<1> DEFINE row(i) == [j \in DOMAIN list |-> Append(choices[i], list[j])]
           rows == [i \in DOMAIN choices |-> row(i)]
<1>1. ASSUME NEW i \in DOMAIN choices
      PROVE  row(i) \in Seq(B)
  <2>1. choices[i] \in A
    OBVIOUS
  <2>2. \A j \in 1..n : Append(choices[i], list[j]) \in B
    BY <2>1
  <2>3. row(i) \in [1..n -> B]
    BY <2>1, <2>2
  <2> HIDE DEF row
  <2> QED
    BY <2>1, <2>3, IsASequence, Zenon
<1> HIDE DEF row
<1>2. rows \in Seq(Seq(B))
  <2>1. Len(choices) \in Nat /\ DOMAIN choices = 1..Len(choices)
    OBVIOUS
  <2>2. rows \in [1..Len(choices) -> Seq(B)]
    BY <1>1, <2>1
  <2> HIDE DEF rows
  <2> QED
    BY <2>1, <2>2, IsASequence, Zenon
<1>3. Extended(choices, list) = SeqExt!FlattenSeq(rows)
  BY DEF Extended, row
<1> HIDE DEF rows
<1> QED
  BY <1>2, <1>3, FlattenTyped

(* Choices of an element of each of the first i lists.                        *)
Choices(X, lists, i) ==
    {c \in Seq(X) : Len(c) = i /\ \A m \in 1..i : \E j \in DOMAIN lists[m] : c[m] = lists[m][j]}

LEMMA ChoiceExtended ==
    ASSUME NEW X, NEW lists \in Seq(Seq(X)), NEW i \in 1..Len(lists),
           NEW a \in Choices(X, lists, i - 1), NEW j \in DOMAIN lists[i]
    PROVE  Append(a, lists[i][j]) \in Choices(X, lists, i)
<1> DEFINE x == lists[i][j]
           b == Append(a, x)
<1>1. a \in Seq(X) /\ Len(a) = i - 1 /\ x \in X /\ i - 1 \in Nat
  BY DEF Choices
<1> HIDE DEF x
<1>2. /\ b \in Seq(X) /\ Len(b) = i /\ b[i] = x
      /\ \A m \in 1..i - 1 : b[m] = a[m]
  BY <1>1
<1> HIDE DEF b
<1>3. ASSUME NEW m \in 1..i
      PROVE  \E l \in DOMAIN lists[m] : b[m] = lists[m][l]
  <2>1. CASE m = i
    BY <1>2, <2>1 DEF x
  <2>2. CASE m # i
    <3>1. m \in 1..i - 1
      BY <2>2
    <3>2. \E l \in DOMAIN lists[m] : a[m] = lists[m][l]
      BY <3>1, Zenon DEF Choices
    <3> QED
      BY <1>2, <3>1, <3>2
  <2> QED
    BY <2>1, <2>2
<1>4. b \in Choices(X, lists, i)
  BY <1>2, <1>3 DEF Choices
<1> QED
  BY <1>4 DEF b, x

(* A combination has one element of each list. *)
LEMMA CombinationsTyped ==
    ASSUME NEW X, NEW lists \in Seq(Seq(X))
    PROVE  Combinations(lists) \in Seq(Choices(X, lists, Len(lists)))
<1> DEFINE n == Len(lists)
           F == [e \in (1..n) \X Seq(Seq(X)) |-> Extended(e[2], lists[e[1]])]
           Is(it) == it = [s \in SUBSET (DOMAIN lists) |->
                            IF s = {} THEN <<<<>>>> ELSE Extended(it[s \ {SeqExt!Max(s)}], lists[SeqExt!Max(s)])]
           r == CHOOSE r : Is(r)
           V == [i \in 0..n |-> Seq(Choices(X, lists, i))]
<1>1. n \in Nat /\ DOMAIN lists = 1..n /\ <<<<>>>> \in Seq(Seq(X))
  OBVIOUS
<1>2. Combinations(lists) = r[DOMAIN lists]
  BY Zenon DEF Combinations, SeqExt!FoldLeft, SeqExt!MapThenFoldSet
<1>0. <<<<>>>> \in V[0]
  <2>1. <<>> \in Seq(X) /\ Len(<<>>) = 0 /\ 1..0 = {}
    OBVIOUS
  <2>2. <<>> \in Choices(X, lists, 0)
    BY <2>1 DEF Choices
  <2>3. <<<<>>>> \in Seq(Choices(X, lists, 0))
    BY <2>2
  <2> QED
    BY <1>1, <2>3
<1>3. \A i \in 1..n, w \in Seq(Seq(X)) : Extended(w, lists[i]) \in Seq(Seq(X))
  <2> TAKE i \in 1..n, w \in Seq(Seq(X))
  <2>1. lists[i] \in Seq(X) /\ Len(lists[i]) \in Nat /\ DOMAIN lists[i] = 1..Len(lists[i])
    BY <1>1
  <2>2. \A a \in Seq(X), j \in 1..Len(lists[i]) : Append(a, lists[i][j]) \in Seq(X)
    BY <2>1
  <2> HIDE DEF n
  <2> QED
    BY <2>1, <2>2, ExtendedTyped
<1>4. ASSUME NEW i \in 1..n, NEW w \in V[i - 1]
      PROVE  Extended(w, lists[i]) \in V[i]
  <2>1. lists[i] \in Seq(X) /\ Len(lists[i]) \in Nat /\ DOMAIN lists[i] = 1..Len(lists[i])
    BY <1>1
  <2>2. /\ i - 1 \in 0..n /\ i \in 0..n /\ V[i] = Seq(Choices(X, lists, i))
        /\ w \in Seq(Choices(X, lists, i - 1))
    BY <1>1, <1>4
  <2> HIDE DEF V
  <2>3. \A a \in Choices(X, lists, i - 1), j \in 1..Len(lists[i]) :
            Append(a, lists[i][j]) \in Choices(X, lists, i)
    BY <2>1, ChoiceExtended
  <2>4. Extended(w, lists[i]) \in Seq(Choices(X, lists, i))
    <3> HIDE DEF n
    <3> QED
      BY <2>1, <2>2, <2>3, ExtendedTyped
  <2> QED
    BY <2>2, <2>4
<1> HIDE DEF n, V
<1>5. F \in [(1..n) \X Seq(Seq(X)) -> Seq(Seq(X))]
  BY <1>3
<1>6. PICK it \in [SUBSET (1..n) -> Seq(Seq(X))] : IsFold(it, F, <<<<>>>>, n)
  <2> HIDE DEF F
  <2> QED
    BY <1>1, <1>5, FoldExists
<1>7. Is(it)
  <2>1. ASSUME NEW s \in SUBSET (1..n), s # {}
        PROVE  F[<<SeqExt!Max(s), it[s \ {SeqExt!Max(s)}]>>] = Extended(it[s \ {SeqExt!Max(s)}], lists[SeqExt!Max(s)])
    <3>1. SeqExt!Max(s) \in 1..n /\ it[s \ {SeqExt!Max(s)}] \in Seq(Seq(X))
      BY <1>1, <2>1, MaxOf
    <3> QED
      BY <3>1
  <2> HIDE DEF F
  <2> QED
    BY <1>1, <1>6, <2>1 DEF IsFold
<1>8. Is(r)
  <2> HIDE DEF Is
  <2> QED
    BY <1>7, Zenon
<1> HIDE DEF r
<1>9. ASSUME NEW i \in 1..n, r[1..i - 1] \in V[i - 1]
      PROVE  r[1..i] \in V[i]
  <2>1. 1..i \in SUBSET (1..n) /\ 1..i # {} /\ SeqExt!Max(1..i) = i /\ (1..i) \ {i} = 1..i - 1
    BY <1>1, MaxOfPrefix
  <2>2. 1..i \in SUBSET (DOMAIN lists)
    BY <1>1, <2>1
  <2>3. r[1..i] = Extended(r[(1..i) \ {SeqExt!Max(1..i)}], lists[SeqExt!Max(1..i)])
    BY <1>8, <2>1, <2>2, Zenon
  <2>4. r[1..i] = Extended(r[1..i - 1], lists[i])
    BY <2>1, <2>3, Zenon
  <2> QED
    BY <1>4, <1>9, <2>4
<1>10. r[{}] = <<<<>>>>
  <2>1. {} \in SUBSET (DOMAIN lists)
    OBVIOUS
  <2> QED
    BY <1>8, <2>1
<1>11. r[1..n] \in V[n]
  BY <1>0, <1>1, <1>9, <1>10, FoldAdvances
<1>12. V[n] = Seq(Choices(X, lists, n))
  BY <1>1 DEF V
<1> QED
  BY <1>1, <1>2, <1>11, <1>12 DEF n

(* Any set of local cuts is closed under the loop over the cuts found before. *)
Loops(R) == [cuts : Seq(R), l : Nat \ {0}, first : BOOLEAN, add : BOOLEAN, stopped : BOOLEAN]

LEMMA ReplacedTyped ==
    ASSUME NEW R, NEW q \in Seq(R), NEW i \in 1..Len(q), NEW new \in R
    PROVE  /\ [q EXCEPT ![i] = new] \in Seq(R)
           /\ Len([q EXCEPT ![i] = new]) = Len(q)
           /\ SeqExt!Front([q EXCEPT ![i] = new]) \in Seq(R)
           /\ Back(q) \in R
<1>1. Len(q) \in Nat /\ DOMAIN q = 1..Len(q) /\ Len(q) >= 1 /\ q \in [1..Len(q) -> R]
  OBVIOUS
<1> DEFINE p == [q EXCEPT ![i] = new]
<1>2. p \in [1..Len(q) -> R]
  BY <1>1
<1> HIDE DEF p
<1>3. p \in Seq(R) /\ Len(p) = Len(q)
  <2>1. p \in Seq(R)
    BY <1>1, <1>2, IsASequence, Zenon
  <2> QED
    BY <1>1, <1>2, <2>1
<1>4. SeqExt!Front(p) \in Seq(R)
  BY <1>1, <1>3, Sequence DEF SeqExt!Front
<1>5. Back(q) \in R
  BY <1>1 DEF Back
<1> QED
  BY <1>3, <1>4, <1>5 DEF p

(* The loop over the cuts keeps its state in Loops. *)
LEMMA CompareTyped ==
    ASSUME NEW R, NEW s \in Loops(R), NEW new \in R, NEW smaller
    PROVE  CompareAt(s, new, smaller) \in Loops(R)
<1> DEFINE old == s.cuts[s.l].cut
<1>1. /\ s.cuts \in Seq(R) /\ s.l \in Nat \ {0} /\ s.l + 1 \in Nat \ {0}
      /\ s.first \in BOOLEAN /\ s.add \in BOOLEAN /\ s.stopped \in BOOLEAN
  BY DEF Loops
<1>2. CASE s.stopped \/ s.l > Len(s.cuts)
  BY <1>2 DEF CompareAt
<1>3. CASE ~(s.stopped \/ s.l > Len(s.cuts))
  <2>1. s.l \in 1..Len(s.cuts) /\ Len(s.cuts) \in Nat
    BY <1>1, <1>3
  <2>2. CompareAt(s, new, smaller) =
            IF Subsumes(old, new.cut, smaller) THEN [s EXCEPT !.add = FALSE, !.stopped = TRUE]
            ELSE IF Subsumes(new.cut, old, smaller)
            THEN [s EXCEPT !.cuts = Overwritten(s, new), !.l = s.l + 1, !.first = FALSE,
                           !.add = FALSE]
            ELSE [s EXCEPT !.l = s.l + 1]
    BY <1>3 DEF CompareAt
  <2>3. Overwritten(s, new) \in Seq(R)
    <3>1. [s.cuts EXCEPT ![s.l] = new] \in Seq(R)
      BY <1>1, <2>1, ReplacedTyped
    <3>2. Back(s.cuts) \in R
      BY <1>1, <2>1, ReplacedTyped
    <3>3. SeqExt!Front([s.cuts EXCEPT ![s.l] = Back(s.cuts)]) \in Seq(R)
      BY <1>1, <2>1, <3>2, ReplacedTyped
    <3> QED
      BY <3>1, <3>3 DEF Overwritten
  <2>4. [s EXCEPT !.add = FALSE, !.stopped = TRUE] \in Loops(R)
    BY DEF Loops
  <2>5. [s EXCEPT !.l = s.l + 1] \in Loops(R)
    BY <1>1 DEF Loops
  <2>6. ASSUME NEW c \in Seq(R)
        PROVE  [s EXCEPT !.cuts = c, !.l = s.l + 1, !.first = FALSE, !.add = FALSE] \in Loops(R)
    BY <1>1 DEF Loops
  <2> HIDE DEF old
  <2> QED
    BY <2>2, <2>3, <2>4, <2>5, <2>6
<1> QED
  BY <1>2, <1>3

(* A cut that is subsumed by one of cuts, and all of old are. *)
Subsumed(cuts, cut, smaller) == \E i \in 1..Len(cuts) : Subsumes(cuts[i].cut, cut, smaller)

AllSubsumed(cuts, old, smaller) == \A i \in 1..Len(old) : Subsumed(cuts, old[i].cut, smaller)

LEMMA SubsumesIsOrder ==
    ASSUME NEW smaller
    PROVE  /\ \A a : Subsumes(a, a, smaller)
           /\ \A a, b, c : Subsumes(a, b, smaller) /\ Subsumes(b, c, smaller) => Subsumes(a, c, smaller)
BY DEF Subsumes

LEMMA AllSubsumedIsOrder ==
    ASSUME NEW smaller
    PROVE  /\ \A a : AllSubsumed(a, a, smaller)
           /\ \A a, b, x : AllSubsumed(a, b, smaller) /\ Subsumed(b, x, smaller) => Subsumed(a, x, smaller)
           /\ \A a, b, c : AllSubsumed(a, b, smaller) /\ AllSubsumed(b, c, smaller) => AllSubsumed(a, c, smaller)
<1>1. \A a : AllSubsumed(a, a, smaller)
  BY SubsumesIsOrder DEF AllSubsumed, Subsumed
<1>2. ASSUME NEW a, NEW b, NEW x, AllSubsumed(a, b, smaller), Subsumed(b, x, smaller)
      PROVE  Subsumed(a, x, smaller)
  <2>1. PICK i \in 1..Len(b) : Subsumes(b[i].cut, x, smaller)
    BY <1>2 DEF Subsumed
  <2>2. PICK j \in 1..Len(a) : Subsumes(a[j].cut, b[i].cut, smaller)
    BY <1>2 DEF AllSubsumed, Subsumed
  <2>3. Subsumes(a[j].cut, x, smaller)
    BY <2>1, <2>2, SubsumesIsOrder
  <2> QED
    BY <2>3 DEF Subsumed
<1> QED
  BY <1>1, <1>2, Zenon DEF AllSubsumed

(* What Overwritten does to the cuts q at the place l. *)
LEMMA OverwrittenIs ==
    ASSUME NEW R, NEW s \in Loops(R), NEW new \in R, s.l \in 1..Len(s.cuts), NEW r, r = Overwritten(s, new)
    PROVE  /\ s.first => /\ Len(r) = Len(s.cuts) /\ r[s.l] = new
                         /\ \A i \in 1..Len(s.cuts) : i # s.l => r[i] = s.cuts[i]
           /\ ~s.first => /\ Len(r) = Len(s.cuts) - 1
                          /\ \A i \in 1..Len(s.cuts) - 1 : i # s.l => r[i] = s.cuts[i]
                          /\ s.l < Len(s.cuts) => r[s.l] = s.cuts[Len(s.cuts)]
<1> DEFINE q == s.cuts
           l == s.l
           n == Len(s.cuts)
           p == [q EXCEPT ![l] = Back(q)]
<1>1. q \in Seq(R) /\ n \in Nat /\ q \in [1..n -> R] /\ DOMAIN q = 1..n /\ l \in 1..n /\ n = Len(q)
  BY DEF Loops
<1>2. /\ Len([q EXCEPT ![l] = new]) = n
      /\ Back(q) \in R /\ Back(q) = q[n]
  BY <1>1, ReplacedTyped DEF Back
<1>3. p \in Seq(R) /\ Len(p) = n
  BY <1>1, <1>2, ReplacedTyped
<1>4. p[l] = q[n] /\ \A i \in 1..n : i # l => p[i] = q[i]
  BY <1>1, <1>2
<1>5. /\ r = IF s.first THEN [q EXCEPT ![l] = new] ELSE SeqExt!Front(p)
  BY DEF Overwritten
<1>6. Len(SeqExt!Front(p)) = n - 1 /\ \A i \in 1..n - 1 : SeqExt!Front(p)[i] = p[i]
  <2> HIDE DEF p, n
  <2>1. 1 <= n /\ n \in Nat /\ SeqExt!Front(p) = SubSeq(p, 1, n - 1)
    BY <1>1, <1>3 DEF SeqExt!Front
  <2> QED
    BY <1>3, <2>1
<1> HIDE DEF p
<1>7. CASE s.first
  BY <1>1, <1>2, <1>5, <1>7
<1>8. CASE ~s.first
  BY <1>1, <1>4, <1>5, <1>6, <1>8
<1> QED
  BY <1>7, <1>8

(* The loop has put new in place of a cut behind it, or found one that subsumes *)
(* it, or will append it.                                                   *)
LoopKeeps(s, new, smaller) ==
    /\ ~s.first => \E j \in 1..Len(s.cuts) : j < s.l /\ s.cuts[j] = new
    /\ s.stopped => Subsumed(s.cuts, new.cut, smaller)
    /\ s.add \/ s.stopped \/ ~s.first

LEMMA CompareKeeps ==
    ASSUME NEW R, NEW s \in Loops(R), NEW new \in R, NEW smaller, LoopKeeps(s, new, smaller),
           NEW r, r = CompareAt(s, new, smaller)
    PROVE  LoopKeeps(r, new, smaller) /\ AllSubsumed(r.cuts, s.cuts, smaller)
<1> DEFINE l == s.l
           n == Len(s.cuts)
           old == s.cuts[l].cut
<1>1. /\ s.cuts \in Seq(R) /\ l \in Nat \ {0} /\ n \in Nat
      /\ s.first \in BOOLEAN /\ s.add \in BOOLEAN /\ s.stopped \in BOOLEAN
  BY DEF Loops
<1>2. CASE s.stopped \/ l > n
  <2>1. r = s
    BY <1>2 DEF CompareAt
  <2> QED
    BY <2>1, AllSubsumedIsOrder
<1>3. CASE ~(s.stopped \/ l > n)
  <2>1. l \in 1..n
    BY <1>1, <1>3
  <2>2. r = IF Subsumes(old, new.cut, smaller) THEN [s EXCEPT !.add = FALSE, !.stopped = TRUE]
            ELSE IF Subsumes(new.cut, old, smaller)
            THEN [s EXCEPT !.cuts = Overwritten(s, new), !.l = l + 1, !.first = FALSE, !.add = FALSE]
            ELSE [s EXCEPT !.l = l + 1]
    BY <1>3 DEF CompareAt
  <2>3. CASE Subsumes(old, new.cut, smaller)
    <3>1. /\ r.cuts = s.cuts /\ r.l = s.l /\ r.first = s.first /\ r.add = FALSE /\ r.stopped = TRUE
      BY <2>2, <2>3 DEF Loops
    <3>2. Subsumed(s.cuts, new.cut, smaller)
      BY <2>1, <2>3 DEF Subsumed
    <3> QED
      BY <3>1, <3>2, AllSubsumedIsOrder DEF LoopKeeps
  <2>4. CASE ~Subsumes(old, new.cut, smaller) /\ ~Subsumes(new.cut, old, smaller)
    <3>1. /\ r.cuts = s.cuts /\ r.l = l + 1 /\ r.first = s.first /\ r.add = s.add /\ r.stopped = s.stopped
      BY <2>2, <2>4 DEF Loops
    <3>2. \A j \in 1..n : j < l => j < l + 1
      BY <1>1
    <3> QED
      BY <3>1, <3>2, AllSubsumedIsOrder DEF LoopKeeps
  <2>5. CASE ~Subsumes(old, new.cut, smaller) /\ Subsumes(new.cut, old, smaller)
    <3> DEFINE q == Overwritten(s, new)
    <3>1. /\ r.cuts = q /\ r.l = l + 1 /\ r.first = FALSE /\ r.add = FALSE /\ r.stopped = s.stopped
      BY <2>2, <2>5 DEF Loops
    <3>2. /\ s.first => /\ Len(q) = n /\ q[l] = new
                        /\ \A i \in 1..n : i # l => q[i] = s.cuts[i]
          /\ ~s.first => /\ Len(q) = n - 1
                         /\ \A i \in 1..n - 1 : i # l => q[i] = s.cuts[i]
                         /\ l < n => q[l] = s.cuts[n]
      BY <2>1, OverwrittenIs
    <3> HIDE DEF q
    <3>3. PICK j \in 1..Len(q) : j < l + 1 /\ q[j] = new
      <4>1. CASE s.first
        BY <1>1, <2>1, <3>2, <4>1
      <4>2. CASE ~s.first
        <5>1. PICK j \in 1..n : j < l /\ s.cuts[j] = new
          BY <4>2 DEF LoopKeeps
        <5>2. j \in 1..n - 1 /\ j # l /\ j < l + 1
          BY <1>1, <2>1, <5>1
        <5> QED
          BY <3>2, <4>2, <5>1, <5>2
      <4> QED
        BY <4>1, <4>2
    <3>4. ASSUME NEW i \in 1..n
          PROVE  Subsumed(q, s.cuts[i].cut, smaller)
      <4>1. CASE i = l
        <5>1. Subsumes(q[j].cut, s.cuts[i].cut, smaller)
          BY <2>5, <3>3, <4>1
        <5> QED
          BY <5>1 DEF Subsumed
      <4>2. CASE i # l
        <5>1. \E m \in 1..Len(q) : q[m] = s.cuts[i]
          <6>1. CASE s.first \/ i < n
            <7>1. i \in 1..Len(q)
              BY <1>1, <3>2, <6>1
            <7>2. q[i] = s.cuts[i]
              BY <1>1, <3>2, <4>2, <6>1
            <7> QED
              BY <7>1, <7>2
          <6>2. CASE ~s.first /\ ~ i < n
            <7>1. i = n /\ l < n /\ l \in 1..n - 1
              BY <1>1, <2>1, <4>2, <6>2
            <7> QED
              BY <3>2, <6>2, <7>1
          <6> QED
            BY <6>1, <6>2
        <5> QED
          BY <5>1, SubsumesIsOrder DEF Subsumed
      <4> QED
        BY <4>1, <4>2
    <3>5. ~s.stopped
      BY <1>3
    <3>6. LoopKeeps(r, new, smaller)
      BY <3>1, <3>3, <3>5 DEF LoopKeeps
    <3> QED
      BY <3>1, <3>4, <3>6 DEF AllSubsumed
  <2> QED
    BY <2>3, <2>4, <2>5
<1> QED
  BY <1>2, <1>3

LEMMA ComparedTyped ==
    ASSUME NEW R, NEW cuts \in Seq(R), NEW new \in R, NEW smaller
    PROVE  /\ Compared(cuts, new, smaller) \in Loops(R)
           /\ LoopKeeps(Compared(cuts, new, smaller), new, smaller)
           /\ AllSubsumed(Compared(cuts, new, smaller).cuts, cuts, smaller)
<1> DEFINE start == [cuts |-> cuts, l |-> 1, first |-> TRUE, add |-> TRUE, stopped |-> FALSE]
<1> DEFINE n == Len(cuts)
           F == [e \in (1..n) \X Loops(R) |-> CompareAt(e[2], new, smaller)]
           Is(it) == it = [s \in SUBSET (DOMAIN cuts) |->
                            IF s = {} THEN start ELSE CompareAt(it[s \ {SeqExt!Max(s)}], new, smaller)]
           r == CHOOSE r : Is(r)
           Kept == {s \in Loops(R) : LoopKeeps(s, new, smaller) /\ AllSubsumed(s.cuts, cuts, smaller)}
<1>0. LoopKeeps(start, new, smaller) /\ AllSubsumed(start.cuts, cuts, smaller)
  BY AllSubsumedIsOrder DEF LoopKeeps
<1>1. n \in Nat /\ DOMAIN cuts = 1..n /\ start \in Loops(R)
  BY DEF Loops
<1>2. Compared(cuts, new, smaller) = r[DOMAIN cuts]
  BY Zenon DEF Compared, SeqExt!FoldLeft, SeqExt!MapThenFoldSet
<1> HIDE DEF n, start
<1>3. \A i \in 1..n, w \in Loops(R) : CompareAt(w, new, smaller) \in Loops(R)
  BY CompareTyped
<1>4. F \in [(1..n) \X Loops(R) -> Loops(R)]
  BY <1>3
<1>5. PICK it \in [SUBSET (1..n) -> Loops(R)] : IsFold(it, F, start, n)
  <2> HIDE DEF F
  <2> QED
    BY <1>1, <1>4, FoldExists
<1>6. Is(it)
  <2>1. ASSUME NEW s \in SUBSET (1..n), s # {}
        PROVE  F[<<SeqExt!Max(s), it[s \ {SeqExt!Max(s)}]>>] = CompareAt(it[s \ {SeqExt!Max(s)}], new, smaller)
    <3>1. SeqExt!Max(s) \in 1..n /\ it[s \ {SeqExt!Max(s)}] \in Loops(R)
      BY <1>1, <2>1, MaxOf
    <3> QED
      BY <3>1
  <2> HIDE DEF F
  <2> QED
    BY <1>1, <1>5, <2>1 DEF IsFold
<1>7. Is(r)
  <2> HIDE DEF Is
  <2> QED
    BY <1>6, Zenon
<1> HIDE DEF r
<1>8. ASSUME NEW i \in 1..n, r[1..i - 1] \in Kept
      PROVE  r[1..i] \in Kept
  <2>1. 1..i \in SUBSET (1..n) /\ 1..i # {} /\ SeqExt!Max(1..i) = i /\ (1..i) \ {i} = 1..i - 1
    BY <1>1, MaxOfPrefix
  <2>2. 1..i \in SUBSET (DOMAIN cuts)
    BY <1>1, <2>1
  <2>3. r[1..i] = CompareAt(r[(1..i) \ {SeqExt!Max(1..i)}], new, smaller)
    BY <1>7, <2>1, <2>2, Zenon
  <2> DEFINE a == r[1..i - 1]
             b == r[1..i]
  <2>4. b = CompareAt(a, new, smaller) /\ a \in Loops(R) /\ LoopKeeps(a, new, smaller) /\ AllSubsumed(a.cuts, cuts, smaller)
    BY <1>8, <2>1, <2>3, Zenon
  <2> HIDE DEF a, b
  <2>5. b \in Loops(R)
    BY <1>3, <1>8, <2>4, CompareTyped
  <2>6. LoopKeeps(b, new, smaller) /\ AllSubsumed(b.cuts, a.cuts, smaller)
    BY <2>4, CompareKeeps
  <2>7. AllSubsumed(b.cuts, cuts, smaller)
    BY <2>4, <2>6, AllSubsumedIsOrder
  <2>8. b \in Kept
    BY <2>5, <2>6, <2>7
  <2> QED
    BY <2>8 DEF b
<1>9. StaysIn(r, n, Kept)
  <2>1. r[{}] = start
    <3>1. {} \in SUBSET (DOMAIN cuts)
      OBVIOUS
    <3> QED
      BY <1>7, <3>1
  <2>2. r[{}] \in Kept
    BY <1>0, <1>1, <2>1
  <2> HIDE DEF Kept
  <2> QED
    BY <1>8, <2>2 DEF StaysIn
<1>10. r[1..n] \in Kept
  <2> HIDE DEF Kept
  <2> QED
    BY <1>1, <1>9, FoldStays
<1> QED
  BY <1>1, <1>2, <1>10

(* Merging a cut leaves cuts that were there or the new one, if it is small enough, *)
(* and loses none: each is subsumed by one that is kept.                     *)
LEMMA MergeTyped ==
    ASSUME NEW R, NEW cuts \in Seq(R), NEW new, NEW most, NEW smaller,
           Cardinality(new.cut) > most \/ new \in R
    PROVE  /\ MergeCut(cuts, new, most, smaller) \in Seq(R)
           /\ AllSubsumed(MergeCut(cuts, new, most, smaller), cuts, smaller)
           /\ Cardinality(new.cut) > most \/ Subsumed(MergeCut(cuts, new, most, smaller), new.cut, smaller)
<1> DEFINE s == Compared(cuts, new, smaller)
<1>1. MergeCut(cuts, new, most, smaller) =
        IF Cardinality(new.cut) > most THEN cuts
        ELSE IF s.add THEN Append(s.cuts, new) ELSE s.cuts
  BY DEF MergeCut
<1>2. CASE Cardinality(new.cut) > most
  BY <1>1, <1>2, AllSubsumedIsOrder
<1>3. CASE ~(Cardinality(new.cut) > most)
  <2>1. new \in R
    BY <1>3
  <2>2. s \in Loops(R) /\ LoopKeeps(s, new, smaller) /\ AllSubsumed(s.cuts, cuts, smaller)
    BY <2>1, ComparedTyped
  <2> HIDE DEF s
  <2> DEFINE q == s.cuts
  <2>3. q \in Seq(R) /\ Append(q, new) \in Seq(R) /\ Len(q) \in Nat
    BY <2>1, <2>2 DEF Loops
  <2>4. CASE s.add
    <3> DEFINE a == Append(q, new)
    <3>1. Len(a) = Len(q) + 1 /\ a[Len(q) + 1] = new /\ \A i \in 1..Len(q) : a[i] = q[i]
      BY <2>3
    <3> HIDE DEF a
    <3>2. Len(q) + 1 \in 1..Len(a) /\ \A i \in 1..Len(q) : i \in 1..Len(a)
      BY <2>3, <3>1
    <3>3. Subsumed(a, new.cut, smaller)
      BY <3>1, <3>2, SubsumesIsOrder DEF Subsumed
    <3>4. AllSubsumed(a, q, smaller)
      BY <3>1, <3>2, SubsumesIsOrder DEF AllSubsumed, Subsumed
    <3>5. AllSubsumed(a, cuts, smaller)
      BY <2>2, <3>4, AllSubsumedIsOrder
    <3>6. MergeCut(cuts, new, most, smaller) = a
      BY <1>1, <1>3, <2>4 DEF a
    <3>7. a \in Seq(R)
      BY <2>3 DEF a
    <3> QED
      BY <3>3, <3>5, <3>6, <3>7
  <2>5. CASE ~s.add
    <3>1. Subsumed(q, new.cut, smaller)
      <4>1. CASE s.stopped
        BY <2>2, <4>1 DEF LoopKeeps
      <4>2. CASE ~s.first
        <5>1. PICK j \in 1..Len(q) : q[j] = new
          BY <2>2, <4>2 DEF LoopKeeps
        <5> QED
          BY <5>1, SubsumesIsOrder DEF Subsumed
      <4> QED
        BY <2>2, <2>5, <4>1, <4>2 DEF LoopKeeps
    <3> QED
      BY <1>1, <1>3, <2>2, <2>3, <2>5, <3>1
  <2> QED
    BY <2>4, <2>5
<1> QED
  BY <1>2, <1>3

(* All merged cuts are joins of a choice that are small enough, and each of the *)
(* first i choices whose join is small enough is subsumed by one of them.     *)
Covering(cuts, all, i, most, smaller, level_of) ==
    \A j \in 1..i : \/ Cardinality(Joined(all[j], level_of).cut) > most
                   \/ Subsumed(cuts, Joined(all[j], level_of).cut, smaller)

LEMMA MergedTyped ==
    ASSUME NEW X, NEW lists \in Seq(Seq(X)), NEW most, NEW smaller, NEW level_of, NEW R,
           \A c \in Choices(X, lists, Len(lists)) :
                Cardinality(Joined(c, level_of).cut) > most \/ Joined(c, level_of) \in R
    PROVE  /\ Merged(lists, most, smaller, level_of) \in Seq(R)
           /\ Covering(Merged(lists, most, smaller, level_of), Combinations(lists),
                       Len(Combinations(lists)), most, smaller, level_of)
<1> DEFINE all == Combinations(lists)
           V == Seq(R)
<1> DEFINE n == Len(all)
           F == [e \in (1..n) \X V |-> MergeCut(e[2], Joined(all[e[1]], level_of), most, smaller)]
           Is(it) == it = [s \in SUBSET (DOMAIN all) |->
                            IF s = {} THEN <<>> ELSE MergeCut(it[s \ {SeqExt!Max(s)}], Joined(all[SeqExt!Max(s)], level_of), most, smaller)]
           r == CHOOSE r : Is(r)
           W == [i \in 0..n |-> {w \in Seq(R) : Covering(w, all, i, most, smaller, level_of)}]
<1>1. n \in Nat /\ DOMAIN all = 1..n /\ <<>> \in V
  <2>1. all \in Seq(Choices(X, lists, Len(lists)))
    BY CombinationsTyped
  <2> HIDE DEF all
  <2> QED
    BY <2>1, Sequence
<1>2. Merged(lists, most, smaller, level_of) = r[DOMAIN all]
  BY Zenon DEF Merged, SeqExt!FoldLeft, SeqExt!MapThenFoldSet
<1> HIDE DEF n, all, V
<1>3. \A i \in 1..n, w \in V :
        /\ MergeCut(w, Joined(all[i], level_of), most, smaller) \in V
        /\ AllSubsumed(MergeCut(w, Joined(all[i], level_of), most, smaller), w, smaller)
        /\ \/ Cardinality(Joined(all[i], level_of).cut) > most
           \/ Subsumed(MergeCut(w, Joined(all[i], level_of), most, smaller),
                       Joined(all[i], level_of).cut, smaller)
  <2> TAKE i \in 1..n, w \in V
  <2>1. all \in Seq(Choices(X, lists, Len(lists))) /\ n = Len(all)
    BY CombinationsTyped DEF n, all
  <2>2. all[i] \in Choices(X, lists, Len(lists))
    BY <2>1
  <2>3. Cardinality(Joined(all[i], level_of).cut) > most \/ Joined(all[i], level_of) \in R
    BY <2>2
  <2> QED
    BY <2>3, MergeTyped DEF V
<1>4. F \in [(1..n) \X V -> V]
  BY <1>3
<1>5. PICK it \in [SUBSET (1..n) -> V] : IsFold(it, F, <<>>, n)
  <2> HIDE DEF F
  <2> QED
    BY <1>1, <1>4, FoldExists
<1>6. Is(it)
  <2>1. ASSUME NEW s \in SUBSET (1..n), s # {}
        PROVE  F[<<SeqExt!Max(s), it[s \ {SeqExt!Max(s)}]>>] = MergeCut(it[s \ {SeqExt!Max(s)}], Joined(all[SeqExt!Max(s)], level_of), most, smaller)
    <3>1. SeqExt!Max(s) \in 1..n /\ it[s \ {SeqExt!Max(s)}] \in V
      BY <1>1, <2>1, MaxOf
    <3> QED
      BY <3>1
  <2> HIDE DEF F
  <2> QED
    BY <1>1, <1>5, <2>1 DEF IsFold
<1>7. Is(r)
  <2> HIDE DEF Is
  <2> QED
    BY <1>6, Zenon
<1> HIDE DEF r
<1>8. ASSUME NEW i \in 1..n, r[1..i - 1] \in W[i - 1]
      PROVE  r[1..i] \in W[i]
  <2>1. 1..i \in SUBSET (1..n) /\ 1..i # {} /\ SeqExt!Max(1..i) = i /\ (1..i) \ {i} = 1..i - 1
    BY <1>1, MaxOfPrefix
  <2>2. 1..i \in SUBSET (DOMAIN all)
    BY <1>1, <2>1
  <2>3. r[1..i] = MergeCut(r[(1..i) \ {SeqExt!Max(1..i)}], Joined(all[SeqExt!Max(1..i)], level_of), most, smaller)
    BY <1>7, <2>1, <2>2, Zenon
  <2> DEFINE a == r[1..i - 1]
             b == r[1..i]
             x(m) == Joined(all[m], level_of).cut
  <2>4. i \in 0..n /\ i - 1 \in 0..n
    BY <1>1
  <2>5. a \in V /\ Covering(a, all, i - 1, most, smaller, level_of)
    BY <1>8, <2>4 DEF V
  <2>6. b = MergeCut(a, Joined(all[i], level_of), most, smaller)
    BY <2>1, <2>3, Zenon
  <2> HIDE DEF a, b
  <2>7. b \in V /\ AllSubsumed(b, a, smaller) /\ (Cardinality(x(i)) > most \/ Subsumed(b, x(i), smaller))
    BY <1>3, <2>5, <2>6
  <2>8. ASSUME NEW m \in 1..i
        PROVE  Cardinality(x(m)) > most \/ Subsumed(b, x(m), smaller)
    <3>1. CASE m = i
      BY <2>7, <3>1
    <3>2. CASE m # i
      <4>1. m \in 1..i - 1
        BY <1>1, <3>2
      <4>2. Cardinality(x(m)) > most \/ Subsumed(a, x(m), smaller)
        BY <2>5, <4>1 DEF Covering
      <4> QED
        BY <2>7, <4>2, AllSubsumedIsOrder
    <3> QED
      BY <3>1, <3>2
  <2>9. Covering(b, all, i, most, smaller, level_of)
    BY <2>8 DEF Covering
  <2> QED
    BY <2>4, <2>7, <2>9 DEF b, V
<1>9. r[{}] \in W[0]
  <2>1. r[{}] = <<>>
    <3>1. {} \in SUBSET (DOMAIN all)
      OBVIOUS
    <3> QED
      BY <1>7, <3>1
  <2>2. Covering(<<>>, all, 0, most, smaller, level_of)
    <3>1. 1..0 = {}
      OBVIOUS
    <3> QED
      BY <3>1 DEF Covering
  <2>3. <<>> \in Seq(R) /\ 0 \in 0..n
    BY <1>1
  <2> QED
    BY <2>1, <2>2, <2>3
<1>10. r[1..n] \in W[n]
  <2> HIDE DEF W
  <2> QED
    BY <1>1, <1>8, <1>9, FoldAdvances
<1>11. r[1..n] \in Seq(R) /\ Covering(r[1..n], all, n, most, smaller, level_of)
  BY <1>1, <1>10
<1> QED
  BY <1>1, <1>2, <1>11 DEF n, all

(* Two sequences one after the other. *)
JoinIs(D, p, q, r) ==
    /\ r \in Seq(D) /\ Len(p) \in Nat /\ Len(q) \in Nat /\ Len(r) = Len(p) + Len(q)
    /\ \A i \in 1..Len(p) : r[i] = p[i]
    /\ \A i \in 1..Len(q) : r[Len(p) + i] = q[i]

LEMMA JoinedIndices ==
    ASSUME NEW D
    PROVE  \A p, q \in Seq(D) : JoinIs(D, p, q, p \o q)
BY DEF JoinIs

(* x and the first i of cuts are in r. *)
Has(r, x) == \E l \in 1..Len(r) : r[l] = x

HasAll(r, cuts, i) == \A j \in 1..i : Has(r, cuts[j])

(* Inserting at a place within or behind the sequence; nothing goes. *)
LEMMA PlacedTyped ==
    ASSUME NEW R, NEW s \in Seq(R), NEW c \in R
    PROVE  Placed(s, c) \in Seq(R) /\ HasAll(Placed(s, c), s, Len(s)) /\ Has(Placed(s, c), c)
<1> DEFINE S == {i \in DOMAIN s : ~Before(c, s[i])}
           j == Cardinality(S) + 1
<1>1. Len(s) \in Nat /\ DOMAIN s = 1..Len(s)
  OBVIOUS
<1>2. j \in Nat /\ 1 <= j /\ j - 1 \in Nat /\ j - 1 <= Len(s)
  <2> DEFINE n == Len(s)
  <2>1. n \in Nat /\ S \in SUBSET (1..n)
    BY <1>1
  <2> HIDE DEF n, S
  <2>2. IsFiniteSet(1..n) /\ Cardinality(1..n) = n
    <3>1. 1 \in Int /\ n \in Int
      BY <2>1
    <3>2. IsFiniteSet(1..n) /\ Cardinality(1..n) = IF 1 > n THEN 0 ELSE n - 1 + 1
      BY <3>1, FS_Interval, Zenon
    <3> QED
      BY <2>1, <3>2
  <2>3. IsFiniteSet(S) /\ Cardinality(S) <= n
    BY <2>1, <2>2, FS_Subset
  <2>4. Cardinality(S) \in Nat
    BY <2>3, FS_CardinalityType
  <2> QED
    BY <2>1, <2>3, <2>4 DEF n
<1>3. Placed(s, c) = SubSeq(s, 1, j - 1) \o <<c>> \o SubSeq(s, j, Len(s))
  BY DEF Placed, SeqExt!InsertAt
<1> HIDE DEF j, S
<1>4. SubSeq(s, 1, j - 1) \in Seq(R) /\ SubSeq(s, j, Len(s)) \in Seq(R) /\ <<c>> \in Seq(R)
  BY <1>1, <1>2, Sequence
<1>5. SubSeq(s, 1, j - 1) \o <<c>> \in Seq(R)
  BY <1>4, Sequence
<1>6. (SubSeq(s, 1, j - 1) \o <<c>>) \o SubSeq(s, j, Len(s)) \in Seq(R)
  BY <1>4, <1>5, Sequence
<1>7. ASSUME NEW a, NEW b, NEW r, a = SubSeq(s, 1, j - 1), b = SubSeq(s, j, Len(s)), r = (a \o <<c>>) \o b
      PROVE  HasAll(r, s, Len(s)) /\ Has(r, c)
  <2> DEFINE n == Len(s)
             x == <<c>>
             p == a \o x
  <2>0. a \in Seq(R) /\ b \in Seq(R) /\ x \in Seq(R) /\ Len(x) = 1 /\ x[1] = c /\ r = p \o b
    BY <1>4, <1>7
  <2>1. /\ n \in Nat /\ j \in 1..n + 1 /\ Len(a) = j - 1 /\ Len(b) = n - j + 1
        /\ \A i \in 1..j - 1 : a[i] = s[i]
        /\ \A i \in 1..n - j + 1 : b[i] = s[j - 1 + i]
    BY <1>1, <1>2, <1>7
  <2> HIDE DEF n, x
  <2>2. JoinIs(R, a, x, p)
    BY <2>0, JoinedIndices
  <2>3. p \in Seq(R) /\ Len(p) = j /\ p[j] = c /\ \A i \in 1..j - 1 : p[i] = s[i]
    <3>1. (j - 1) + 1 = j /\ 1 \in 1..1
      BY <2>1
    <3> QED
      BY <2>0, <2>1, <2>2, <3>1 DEF JoinIs
  <2> HIDE DEF p
  <2>4. JoinIs(R, p, b, r)
    BY <2>0, <2>3, JoinedIndices
  <2>5. /\ Len(r) = n + 1 /\ \A i \in 1..j : r[i] = p[i]
        /\ \A i \in 1..n - j + 1 : r[j + i] = b[i]
    BY <2>1, <2>3, <2>4 DEF JoinIs
  <2>6. ASSUME NEW i \in 1..n
        PROVE  Has(r, s[i])
    <3>1. CASE i < j
      <4>1. i \in 1..j - 1 /\ i \in 1..j /\ i \in 1..Len(r)
        BY <2>1, <2>5, <3>1
      <4> QED
        BY <2>3, <2>5, <4>1 DEF Has
    <3>2. CASE ~ i < j
      <4> DEFINE m == i - j + 1
      <4>1. m \in 1..n - j + 1 /\ j - 1 + m = i /\ j + m = i + 1 /\ i + 1 \in 1..Len(r)
        BY <2>1, <2>5, <3>2
      <4> HIDE DEF m
      <4>2. r[j + m] = b[m] /\ b[m] = s[j - 1 + m]
        BY <2>1, <2>5, <4>1
      <4> QED
        BY <4>1, <4>2 DEF Has
    <3> QED
      BY <3>1, <3>2
  <2>7. j \in 1..j /\ j \in 1..Len(r)
    BY <2>1, <2>5
  <2>8. Has(r, c)
    BY <2>3, <2>5, <2>7 DEF Has
  <2> QED
    BY <2>6, <2>8 DEF HasAll, n
<1>8. /\ HasAll((SubSeq(s, 1, j - 1) \o <<c>>) \o SubSeq(s, j, Len(s)), s, Len(s))
      /\ Has((SubSeq(s, 1, j - 1) \o <<c>>) \o SubSeq(s, j, Len(s)), c)
  BY <1>7
<1> QED
  BY <1>3, <1>6, <1>8

(* Sorting gives the same kind of cuts and loses none. *)
LEMMA OrderedTyped ==
    ASSUME NEW R, NEW cuts \in Seq(R)
    PROVE  Ordered(cuts) \in Seq(R) /\ HasAll(Ordered(cuts), cuts, Len(cuts))
<1> DEFINE n == Len(cuts)
           F == [e \in (1..n) \X Seq(R) |-> Placed(e[2], cuts[e[1]])]
           Is(it) == it = [s \in SUBSET (DOMAIN cuts) |->
                            IF s = {} THEN <<>> ELSE Placed(it[s \ {SeqExt!Max(s)}], cuts[SeqExt!Max(s)])]
           r == CHOOSE r : Is(r)
           W == [i \in 0..n |-> {w \in Seq(R) : HasAll(w, cuts, i)}]
<1>1. n \in Nat /\ DOMAIN cuts = 1..n /\ <<>> \in Seq(R)
  BY Sequence
<1>2. Ordered(cuts) = r[DOMAIN cuts]
  BY Zenon DEF Ordered, SeqExt!FoldLeft, SeqExt!MapThenFoldSet
<1> HIDE DEF n
<1>a. \A i \in 1..n : cuts[i] \in R
  BY <1>1
<1>3. \A i \in 1..n, w \in Seq(R) : Placed(w, cuts[i]) \in Seq(R)
  BY <1>a, PlacedTyped
<1>4. F \in [(1..n) \X Seq(R) -> Seq(R)]
  BY <1>3
<1>5. PICK it \in [SUBSET (1..n) -> Seq(R)] : IsFold(it, F, <<>>, n)
  <2> HIDE DEF F
  <2> QED
    BY <1>1, <1>4, FoldExists
<1>6. Is(it)
  <2>1. ASSUME NEW s \in SUBSET (1..n), s # {}
        PROVE  F[<<SeqExt!Max(s), it[s \ {SeqExt!Max(s)}]>>] = Placed(it[s \ {SeqExt!Max(s)}], cuts[SeqExt!Max(s)])
    <3>1. SeqExt!Max(s) \in 1..n /\ it[s \ {SeqExt!Max(s)}] \in Seq(R)
      BY <1>1, <2>1, MaxOf
    <3> QED
      BY <3>1
  <2> HIDE DEF F
  <2> QED
    BY <1>1, <1>5, <2>1 DEF IsFold
<1>7. Is(r)
  <2> HIDE DEF Is
  <2> QED
    BY <1>6, Zenon
<1> HIDE DEF r
<1>8. ASSUME NEW i \in 1..n, r[1..i - 1] \in W[i - 1]
      PROVE  r[1..i] \in W[i]
  <2>1. 1..i \in SUBSET (1..n) /\ 1..i # {} /\ SeqExt!Max(1..i) = i /\ (1..i) \ {i} = 1..i - 1
    BY <1>1, MaxOfPrefix
  <2>2. 1..i \in SUBSET (DOMAIN cuts)
    BY <1>1, <2>1
  <2>3. r[1..i] = Placed(r[(1..i) \ {SeqExt!Max(1..i)}], cuts[SeqExt!Max(1..i)])
    BY <1>7, <2>1, <2>2, Zenon
  <2> DEFINE a == r[1..i - 1]
             b == r[1..i]
  <2>4. i \in 0..n /\ i - 1 \in 0..n
    BY <1>1
  <2>5. a \in Seq(R) /\ HasAll(a, cuts, i - 1) /\ b = Placed(a, cuts[i])
    BY <1>8, <2>1, <2>3, <2>4
  <2> HIDE DEF a, b
  <2>6. b \in Seq(R) /\ HasAll(b, a, Len(a)) /\ Has(b, cuts[i])
    BY <1>a, <2>5, PlacedTyped
  <2>7. ASSUME NEW m \in 1..i
        PROVE  Has(b, cuts[m])
    <3>1. CASE m = i
      BY <2>6, <3>1
    <3>2. CASE m # i
      <4>1. m \in 1..i - 1
        BY <1>1, <3>2
      <4>2. PICK l \in 1..Len(a) : a[l] = cuts[m]
        BY <2>5, <4>1 DEF HasAll, Has
      <4> QED
        BY <2>6, <4>2 DEF HasAll
    <3> QED
      BY <3>1, <3>2
  <2>8. HasAll(b, cuts, i)
    BY <2>7 DEF HasAll
  <2> QED
    BY <2>4, <2>6, <2>8 DEF b
<1>9. r[{}] \in W[0]
  <2>1. r[{}] = <<>>
    <3>1. {} \in SUBSET (DOMAIN cuts)
      OBVIOUS
    <3> QED
      BY <1>7, <3>1
  <2>2. HasAll(<<>>, cuts, 0)
    <3>1. 1..0 = {}
      OBVIOUS
    <3> QED
      BY <3>1 DEF HasAll
  <2>3. <<>> \in Seq(R) /\ 0 \in 0..n
    BY <1>1
  <2> QED
    BY <2>1, <2>2, <2>3
<1>10. r[1..n] \in W[n]
  <2> HIDE DEF W
  <2> QED
    BY <1>1, <1>8, <1>9, FoldAdvances
<1>11. r[1..n] \in Seq(R) /\ HasAll(r[1..n], cuts, n)
  BY <1>1, <1>10
<1> QED
  BY <1>1, <1>2, <1>11 DEF n

(* Every local cut is a join of cuts of the children; no more than asked for stay. *)
(* If fewer stay, each join that is small enough is subsumed by one of them.  *)
LEMMA LocalCutsTyped ==
    ASSUME NEW X, NEW lists \in Seq(Seq(X)), NEW most, NEW number \in Nat,
           NEW smaller, NEW level_of, NEW R,
           \A c \in Choices(X, lists, Len(lists)) :
                Cardinality(Joined(c, level_of).cut) > most \/ Joined(c, level_of) \in R
    PROVE  /\ LocalCutsOf(lists, most, number, smaller, level_of) \in Seq(R)
           /\ Len(LocalCutsOf(lists, most, number, smaller, level_of)) <= number
           /\ Len(LocalCutsOf(lists, most, number, smaller, level_of)) < number =>
                Covering(LocalCutsOf(lists, most, number, smaller, level_of), Combinations(lists),
                         Len(Combinations(lists)), most, smaller, level_of)
<1> DEFINE merged == Merged(lists, most, smaller, level_of)
           cuts == Ordered(merged)
           all == Combinations(lists)
           m == SeqExt!Min({number, Len(cuts)})
<1>0. merged \in Seq(R) /\ Covering(merged, all, Len(all), most, smaller, level_of)
  BY MergedTyped
<1> HIDE DEF merged, all
<1>1. cuts \in Seq(R) /\ HasAll(cuts, merged, Len(merged))
  BY <1>0, OrderedTyped
<1>a. Covering(cuts, all, Len(all), most, smaller, level_of)
  <2> SUFFICES ASSUME NEW j \in 1..Len(all)
               PROVE  \/ Cardinality(Joined(all[j], level_of).cut) > most
                      \/ Subsumed(cuts, Joined(all[j], level_of).cut, smaller)
    BY DEF Covering
  <2> DEFINE x == Joined(all[j], level_of).cut
  <2>1. CASE Cardinality(x) > most
    BY <2>1
  <2>2. CASE Subsumed(merged, x, smaller)
    <3>1. PICK i \in 1..Len(merged) : Subsumes(merged[i].cut, x, smaller)
      BY <2>2 DEF Subsumed
    <3>2. PICK l \in 1..Len(cuts) : cuts[l] = merged[i]
      BY <1>1 DEF HasAll, Has
    <3> QED
      BY <3>1, <3>2 DEF Subsumed
  <2> QED
    BY <1>0, <2>1, <2>2 DEF Covering
<1>2. LocalCutsOf(lists, most, number, smaller, level_of) = SubSeq(cuts, 1, m)
  BY DEF LocalCutsOf, merged
<1> HIDE DEF cuts
<1>3. Len(cuts) \in Nat
  BY <1>1
<1>4. m \in Nat /\ m <= Len(cuts) /\ m <= number /\ (m < number => m = Len(cuts))
  <2>1. \E x \in {number, Len(cuts)} : \A y \in {number, Len(cuts)} : x =< y
    BY <1>3
  <2>2. m \in {number, Len(cuts)} /\ \A y \in {number, Len(cuts)} : m =< y
    BY <2>1, Zenon DEF SeqExt!Min
  <2> QED
    BY <1>3, <2>2
<1> HIDE DEF m
<1>5. SubSeq(cuts, 1, m) \in Seq(R)
  BY <1>1, <1>3, <1>4, Sequence
<1>6. Len(SubSeq(cuts, 1, m)) = m
  BY <1>1, <1>3, <1>4
<1>7. m < number => SubSeq(cuts, 1, m) = cuts
  BY <1>1, <1>3, <1>4
<1> QED
  BY <1>2, <1>4, <1>5, <1>6, <1>7, <1>a DEF all

(* What joins of cuts of the children may be. *)
CutsAmong(X) == [cut : SUBSET X, cone : {{}}]

Joins(X, level_of) == {Joined(choice, level_of) : choice \in Seq(CutsAmong(X))}

(* The nodes of a join are nodes of the cuts that are joined. *)
LEMMA JoinsAreAmong ==
    ASSUME NEW X, NEW level_of, NEW c \in Joins(X, level_of)
    PROVE  c.cut \in SUBSET X
<1>1. PICK choice \in Seq(CutsAmong(X)) : c = Joined(choice, level_of)
  BY DEF Joins
<1>2. \A i \in DOMAIN choice : choice[i].cut \in SUBSET X
  <2>1. \A i \in DOMAIN choice : choice[i] \in CutsAmong(X)
    OBVIOUS
  <2> QED
    BY <2>1 DEF CutsAmong
<1>3. c.cut = UNION {choice[i].cut : i \in DOMAIN choice}
  BY <1>1 DEF Joined
<1> QED
  BY <1>2, <1>3

-------------------------------------------------------------------------------
(* What a memory holds.  The elements of a set are listed by their ranks.     *)
LEMMA AscendingLists ==
    ASSUME NEW S, IsFiniteSet(S), S \subseteq Nat
    PROVE  /\ Cardinality(S) \in Nat /\ Ascending(S) \in [1..Cardinality(S) -> S]
           /\ \A x \in S : \E i \in 1..Cardinality(S) : Ascending(S)[i] = x
           /\ \A i, j \in 1..Cardinality(S) : Ascending(S)[i] = Ascending(S)[j] => i = j
           /\ \A i, j \in 1..Cardinality(S) : Ascending(S)[i] < Ascending(S)[j] => i < j
<1> DEFINE n == Cardinality(S)
           T == 0..n - 1
           below(x) == {y \in S : y < x}
           rank == [x \in S |-> Cardinality(below(x))]
<1>1. n \in Nat /\ IsFiniteSet(T) /\ Cardinality(T) = n
  <2>1. n \in Nat
    BY FS_CardinalityType
  <2>2. IsFiniteSet(0..n - 1) /\ Cardinality(0..n - 1) = IF 0 > n - 1 THEN 0 ELSE (n - 1) - 0 + 1
    <3>1. 0 \in Int /\ n - 1 \in Int
      BY <2>1
    <3> HIDE DEF n
    <3> QED
      BY <3>1, FS_Interval, Zenon
  <2> QED
    BY <2>1, <2>2
<1>2. ASSUME NEW A \in SUBSET S, NEW B \in SUBSET S, A \subseteq B, A # B
      PROVE  Cardinality(A) \in Nat /\ Cardinality(B) \in Nat /\ Cardinality(A) < Cardinality(B)
  <2>1. IsFiniteSet(B)
    BY FS_Subset
  <2>2. IsFiniteSet(A) /\ Cardinality(A) <= Cardinality(B) /\ Cardinality(A) # Cardinality(B)
    BY <1>2, <2>1, FS_Subset
  <2>3. Cardinality(A) \in Nat /\ Cardinality(B) \in Nat
    BY <2>1, <2>2, FS_CardinalityType
  <2> QED
    BY <2>2, <2>3
<1>3. ASSUME NEW x \in S
      PROVE  rank[x] \in T
  <2>1. below(x) \in SUBSET S /\ x \notin below(x) /\ S \in SUBSET S
    OBVIOUS
  <2>2. Cardinality(below(x)) \in Nat /\ Cardinality(below(x)) < n
    <3> HIDE DEF below
    <3> QED
      BY <1>2, <2>1
  <2> QED
    BY <1>1, <2>2
<1>a. ASSUME NEW a \in S, NEW b \in S, a < b
      PROVE  rank[a] < rank[b]
  <2>1. /\ below(a) \in SUBSET S /\ below(b) \in SUBSET S /\ below(a) \subseteq below(b)
        /\ a \in below(b) /\ a \notin below(a)
    <3>1. a \in Nat /\ b \in Nat /\ \A u \in S : u \in Nat
      OBVIOUS
    <3>2. \A u \in S : u < a => u < b
      BY <1>a, <3>1
    <3>3. ~ a < a
      BY <3>1
    <3> QED
      BY <1>a, <3>2, <3>3
  <2>2. Cardinality(below(a)) \in Nat /\ Cardinality(below(b)) \in Nat
        /\ Cardinality(below(a)) < Cardinality(below(b))
    <3> HIDE DEF below
    <3> QED
      BY <1>2, <2>1
  <2> QED
    BY <2>2
<1>4. ASSUME NEW x \in S, NEW y \in S, rank[x] = rank[y]
      PROVE  x = y
  <2>1. x \in Nat /\ y \in Nat
    OBVIOUS
  <2>2. rank[x] \in Int /\ rank[y] \in Int
    <3> HIDE DEF rank
    <3> QED
      BY <1>1, <1>3
  <2> HIDE DEF rank
  <2> QED
    BY <1>4, <1>a, <2>1, <2>2
<1>5. rank \in Surjection(S, T)
  <2>1. rank \in [S -> T]
    BY <1>3
  <2>2. rank \in Injection(S, T)
    <3> HIDE DEF rank, T
    <3> QED
      BY <1>4, <2>1 DEF Injection, IsInjective
  <2> HIDE DEF rank, T, n
  <2> QED
    BY <1>1, <2>2, FS_Injection DEF n
<1>6. ASSUME NEW i \in 1..n
      PROVE  Ascending(S)[i] \in S /\ rank[Ascending(S)[i]] = i - 1
  <2>1. i - 1 \in T
    BY <1>1
  <2>2. \E x \in S : rank[x] = i - 1
    <3> HIDE DEF rank, T
    <3> QED
      BY <1>5, <2>1 DEF Surjection
  <2>3. \E x \in S : Cardinality({y \in S : y < x}) = i - 1
    BY <2>2
  <2>4. Ascending(S)[i] = CHOOSE x \in S : Cardinality({y \in S : y < x}) = i - 1
    BY DEF Ascending
  <2>5. Ascending(S)[i] \in S /\ Cardinality({y \in S : y < Ascending(S)[i]}) = i - 1
    BY <2>3, <2>4, Zenon
  <2> QED
    BY <2>5
<1>7. Ascending(S) \in [1..n -> S]
  <2>1. DOMAIN Ascending(S) = 1..n /\ Ascending(S) = [i \in 1..n |-> Ascending(S)[i]]
    BY SMTT(30) DEF Ascending
  <2> QED
    BY <1>6, <2>1
<1>8. ASSUME NEW x \in S
      PROVE  \E i \in 1..n : Ascending(S)[i] = x
  <2>1. rank[x] \in T /\ rank[x] + 1 \in 1..n /\ (rank[x] + 1) - 1 = rank[x]
    BY <1>1, <1>3
  <2>2. /\ Ascending(S)[rank[x] + 1] \in S
        /\ rank[Ascending(S)[rank[x] + 1]] = rank[x]
    BY <1>6, <2>1
  <2> HIDE DEF rank
  <2> QED
    BY <1>4, <2>1, <2>2
<1>9. ASSUME NEW i \in 1..n, NEW j \in 1..n, Ascending(S)[i] = Ascending(S)[j]
      PROVE  i = j
  <2>1. rank[Ascending(S)[i]] = i - 1 /\ rank[Ascending(S)[j]] = j - 1
    BY <1>6
  <2>2. i - 1 = j - 1
    BY <1>9, <2>1, Zenon
  <2> QED
    BY <1>1, <2>2
<1>10. ASSUME NEW i \in 1..n, NEW j \in 1..n, Ascending(S)[i] < Ascending(S)[j]
       PROVE  i < j
  <2>1. /\ Ascending(S)[i] \in S /\ rank[Ascending(S)[i]] = i - 1
        /\ Ascending(S)[j] \in S /\ rank[Ascending(S)[j]] = j - 1
    BY <1>6
  <2> HIDE DEF rank
  <2>2. i - 1 < j - 1
    BY <1>10, <1>a, <2>1
  <2> QED
    BY <1>1, <2>2
<1> QED
  BY <1>1, <1>7, <1>8, <1>9, <1>10

(* The elements are listed completely: reading gives the set that was written. *)
LEMMA AscendingIs ==
    ASSUME NEW S, IsFiniteSet(S), S \subseteq Nat
    PROVE  Ascending(S) \in Seq(Nat) /\ S = {Ascending(S)[i] : i \in 1..Len(Ascending(S))}
<1> DEFINE es == Ascending(S)
           c == Cardinality(S)
<1>1. c \in Nat /\ es \in [1..c -> S] /\ \A x \in S : \E i \in 1..c : es[i] = x
  BY AscendingLists
<1> HIDE DEF es, c
<1>2. es \in [1..c -> Nat]
  BY <1>1
<1>3. es \in Seq(Nat)
  BY <1>1, <1>2, IsASequence, Zenon
<1>4. Len(es) = c
  BY <1>1, <1>2, <1>3
<1>5. S = {es[i] : i \in 1..Len(es)}
  BY <1>1, <1>4
<1> QED
  BY <1>3, <1>5 DEF es

(* A memory with lists for the indices X, z additional values for each set and    *)
(* values of D in its vector.                                                *)
MemoriesIn(X, z, D) ==
    [data : Seq(D), capacity : Nat, additional : {z}, offset : [X -> Nat], count : [X -> Nat]]

(* r is m with more values behind. *)
Extends(M, r, m, values) ==
    r \in M /\ r.data = m.data \o values /\ r.offset = m.offset /\ r.count = m.count

(* push_back changes the vector at its end only, whether it is reallocated or not. *)
LEMMA PushExtends ==
    ASSUME NEW X, NEW z, NEW D, NEW m \in MemoriesIn(X, z, D), NEW values \in Seq(D)
    PROVE  Extends(MemoriesIn(X, z, D), Push(m, values), m, values)
<1> DEFINE size == Len(m.data)
           c == IF size + Len(values) <= m.capacity THEN m.capacity
                ELSE size + Larger(size, Len(values))
           d == m.data \o values
<1>1. m.data \in Seq(D) /\ m.capacity \in Nat /\ size \in Nat /\ Len(values) \in Nat
  BY DEF MemoriesIn
<1>2. c \in Nat
  <2>1. Larger(size, Len(values)) \in {size, Len(values)}
    BY DEF Larger
  <2> HIDE DEF size
  <2> QED
    BY <1>1, <2>1
<1>3. d \in Seq(D)
  BY <1>1, Sequence
<1>4. Push(m, values) = [m EXCEPT !.data = d, !.capacity = c]
  BY DEF Push
<1> HIDE DEF c, d
<1>5. [m EXCEPT !.data = d, !.capacity = c] \in MemoriesIn(X, z, D)
  BY <1>2, <1>3 DEF MemoriesIn
<1>6. /\ [m EXCEPT !.data = d, !.capacity = c].data = d
      /\ [m EXCEPT !.data = d, !.capacity = c].offset = m.offset
      /\ [m EXCEPT !.data = d, !.capacity = c].count = m.count
  BY DEF MemoriesIn
<1> QED
  BY <1>4, <1>5, <1>6 DEF Extends, d

LEMMA JoinValues ==
    ASSUME NEW D
    PROVE  \A a, b, c \in Seq(D) : (a \o b) \o c = a \o (b \o c)
OBVIOUS

(* What a set is in the vector. *)
Entry(es, x) == (<<Len(es)>> \o x) \o es

(* Its size, its additional values and its elements. *)
EntryFits(D, es, x, w) ==
    /\ w \in Seq(D) /\ Len(es) \in Nat /\ Len(x) \in Nat
    /\ Len(w) = 1 + Len(x) + Len(es)
    /\ w[1] = Len(es)
    /\ \A i \in 1..Len(x) : w[1 + i] = x[i]
    /\ \A i \in 1..Len(es) : w[1 + Len(x) + i] = es[i]

LEMMA EntryIs ==
    ASSUME NEW D, Nat \subseteq D, NEW es \in Seq(D), NEW x \in Seq(D)
    PROVE  EntryFits(D, es, x, Entry(es, x))
<1> DEFINE h == <<Len(es)>>
           p == h \o x
           q == p \o es
<1>1. h \in Seq(D) /\ Len(h) = 1 /\ h[1] = Len(es) /\ Len(es) \in Nat /\ Len(x) \in Nat
  OBVIOUS
<1> HIDE DEF h
<1>2. /\ p \in Seq(D) /\ Len(p) = 1 + Len(x) /\ p[1] = Len(es)
      /\ \A i \in 1..Len(x) : p[1 + i] = x[i]
  <2>0. p = h \o x
    OBVIOUS
  <2> HIDE DEF p
  <2>1. /\ p \in Seq(D) /\ Len(p) = Len(h) + Len(x)
        /\ \A i \in 1..Len(h) : p[i] = h[i]
        /\ \A i \in 1..Len(x) : p[Len(h) + i] = x[i]
    <3>1. \A u, y \in Seq(D) : JoinIs(D, u, y, u \o y)
      BY JoinedIndices
    <3>2. JoinIs(D, h, x, p)
      BY <1>1, <2>0, <3>1, Zenon
    <3> QED
      BY <3>2 DEF JoinIs
  <2> QED
    BY <1>1, <2>1
<1> HIDE DEF p
<1>3. /\ q \in Seq(D) /\ Len(q) = Len(p) + Len(es)
      /\ \A i \in 1..Len(p) : q[i] = p[i]
      /\ \A i \in 1..Len(es) : q[Len(p) + i] = es[i]
  <2>1. q = p \o es
    OBVIOUS
  <2> HIDE DEF q
  <2>2. \A u, y \in Seq(D) : JoinIs(D, u, y, u \o y)
    BY JoinedIndices
  <2>3. JoinIs(D, p, es, q)
    BY <1>2, <2>1, <2>2, Zenon
  <2> QED
    BY <2>3 DEF JoinIs
<1>4. Entry(es, x) = q
  BY DEF Entry, q, p, h
<1> HIDE DEF q
<1>5. /\ Len(q) = 1 + Len(x) + Len(es) /\ q[1] = Len(es)
      /\ \A i \in 1..Len(x) : q[1 + i] = x[i]
      /\ \A i \in 1..Len(es) : q[1 + Len(x) + i] = es[i]
  <2>1. 1 \in 1..Len(p) /\ \A i \in 1..Len(x) : 1 + i \in 1..Len(p)
    BY <1>1, <1>2
  <2> QED
    BY <1>1, <1>2, <1>3, <2>1
<1> QED
  BY <1>1, <1>3, <1>4, <1>5 DEF EntryFits

(* A set is pushed as its entry. *)
LEMMA PushSetExtends ==
    ASSUME NEW X, NEW z, NEW D, Nat \subseteq D, NEW m \in MemoriesIn(X, z, D),
           NEW es \in Seq(D), NEW x \in Seq(D)
    PROVE  Extends(MemoriesIn(X, z, D), PushSet(m, es, x), m, Entry(es, x))
<1> DEFINE M == MemoriesIn(X, z, D)
           h == <<Len(es)>>
           a == Push(m, h)
           b == Push(a, x)
           c == Push(b, es)
<1>1. h \in Seq(D)
  OBVIOUS
<1>2. PushSet(m, es, x) = c /\ Entry(es, x) = (h \o x) \o es
  BY DEF PushSet, Entry
<1> HIDE DEF h
<1>3. Extends(M, a, m, h)
  BY <1>1, PushExtends
<1> HIDE DEF a
<1>4. Extends(M, b, a, x)
  <2>1. a \in MemoriesIn(X, z, D)
    BY <1>3 DEF Extends
  <2> QED
    BY <2>1, PushExtends
<1> HIDE DEF b
<1>5. Extends(M, c, b, es)
  <2>1. b \in MemoriesIn(X, z, D)
    BY <1>4 DEF Extends
  <2> QED
    BY <2>1, PushExtends
<1> HIDE DEF c
<1>6. a.data = m.data \o h /\ b.data = a.data \o x /\ c.data = b.data \o es
  BY <1>3, <1>4, <1>5 DEF Extends
<1>7. c.data = m.data \o ((h \o x) \o es)
  <2>1. m.data \in Seq(D) /\ h \o x \in Seq(D)
    BY <1>1, Sequence DEF MemoriesIn
  <2>2. \A u, y, w \in Seq(D) : (u \o y) \o w = u \o (y \o w)
    BY JoinValues, SMTT(30)
  <2>3. (m.data \o h) \o x = m.data \o (h \o x)
    BY <1>1, <2>1, <2>2, ZenonT(40)
  <2>4. (m.data \o (h \o x)) \o es = m.data \o ((h \o x) \o es)
    BY <2>1, <2>2, ZenonT(40)
  <2> QED
    BY <1>6, <2>3, <2>4, Zenon
<1>8. c \in M /\ c.offset = m.offset /\ c.count = m.count
  BY <1>3, <1>4, <1>5 DEF Extends
<1> QED
  BY <1>2, <1>7, <1>8 DEF Extends

(* r is m with w behind it; o are its offsets, and n has c sets. *)
IsStored(M, r, m, n, w, o, c) ==
    /\ r \in M /\ r.data = m.data \o w
    /\ r.offset = o /\ r.count = [m.count EXCEPT ![n] = c]

(* append_set. *)
LEMMA AppendSetIs ==
    ASSUME NEW X, NEW z, NEW D, Nat \subseteq D, NEW m \in MemoriesIn(X, z, D), NEW n \in X,
           NEW es \in Seq(D), NEW x \in Seq(D), NEW r, r = AppendSet(m, n, es, x)
    PROVE  IsStored(MemoriesIn(X, z, D), r, m, n, Entry(es, x), m.offset, m.count[n] + 1)
<1> DEFINE p == PushSet(m, es, x)
           c == [m.count EXCEPT ![n] = m.count[n] + 1]
<1>1. Extends(MemoriesIn(X, z, D), p, m, Entry(es, x))
  BY PushSetExtends
<1>2. r = [p EXCEPT !.count[n] = @ + 1]
  BY DEF AppendSet
<1> HIDE DEF p
<1>3. /\ p \in MemoriesIn(X, z, D) /\ p.data = m.data \o Entry(es, x)
      /\ p.offset = m.offset /\ p.count = m.count
  BY <1>1 DEF Extends
<1>4. [p EXCEPT !.count[n] = @ + 1] = [p EXCEPT !.count = c]
  BY <1>3 DEF MemoriesIn
<1>5. c \in [X -> Nat]
  BY DEF MemoriesIn
<1> HIDE DEF c
<1>6. [p EXCEPT !.count = c] \in MemoriesIn(X, z, D)
  BY <1>3, <1>5 DEF MemoriesIn
<1>7. /\ [p EXCEPT !.count = c].data = p.data /\ [p EXCEPT !.count = c].offset = p.offset
      /\ [p EXCEPT !.count = c].count = c
  BY <1>3 DEF MemoriesIn
<1> QED
  BY <1>2, <1>3, <1>4, <1>6, <1>7 DEF c, IsStored

(* append_begin. *)
LEMMA StartsIs ==
    ASSUME NEW X, NEW z, NEW D, NEW m \in MemoriesIn(X, z, D), NEW n \in X
    PROVE  LET r == Starts(m, n)
           IN  /\ r \in MemoriesIn(X, z, D) /\ r.data = m.data /\ r.count = m.count
               /\ r.offset = [m.offset EXCEPT ![n] = Len(m.data)]
<1> DEFINE o == [m.offset EXCEPT ![n] = Len(m.data)]
<1>1. Len(m.data) \in Nat
  BY DEF MemoriesIn
<1>2. o \in [X -> Nat]
  BY <1>1 DEF MemoriesIn
<1>3. Starts(m, n) = [m EXCEPT !.offset = o]
  BY DEF Starts, MemoriesIn
<1> HIDE DEF o
<1>4. [m EXCEPT !.offset = o] \in MemoriesIn(X, z, D)
  BY <1>2 DEF MemoriesIn
<1>5. /\ [m EXCEPT !.offset = o].data = m.data /\ [m EXCEPT !.offset = o].count = m.count
      /\ [m EXCEPT !.offset = o].offset = o
  BY DEF MemoriesIn
<1> QED
  BY <1>3, <1>4, <1>5 DEF o

(* assign_empty and assign_singleton: one set. *)
LEMMA AssignIs ==
    ASSUME NEW X, NEW z, NEW D, Nat \subseteq D, NEW m \in MemoriesIn(X, z, D), NEW n \in X,
           NEW es \in Seq(D), NEW x \in Seq(D), NEW r,
           r = [PushSet(Starts(m, n), es, x) EXCEPT !.count[n] = 1]
    PROVE  IsStored(MemoriesIn(X, z, D), r, m, n, Entry(es, x),
                    [m.offset EXCEPT ![n] = Len(m.data)], 1)
<1> DEFINE M == MemoriesIn(X, z, D)
           q == Starts(m, n)
           p == PushSet(q, es, x)
           c == [m.count EXCEPT ![n] = 1]
<1>0. r = [p EXCEPT !.count[n] = 1]
  OBVIOUS
<1>1. /\ q \in M /\ q.data = m.data /\ q.count = m.count
      /\ q.offset = [m.offset EXCEPT ![n] = Len(m.data)]
  BY StartsIs
<1> HIDE DEF q
<1>2. Extends(M, p, q, Entry(es, x))
  BY <1>1, PushSetExtends
<1> HIDE DEF p
<1>3. p \in M /\ p.data = m.data \o Entry(es, x) /\ p.offset = q.offset /\ p.count = m.count
  BY <1>1, <1>2 DEF Extends
<1>4. [p EXCEPT !.count[n] = 1] = [p EXCEPT !.count = c]
  BY <1>3 DEF MemoriesIn
<1>5. c \in [X -> Nat]
  BY DEF MemoriesIn
<1> HIDE DEF c
<1>6. [p EXCEPT !.count = c] \in M
  BY <1>3, <1>5 DEF MemoriesIn
<1>7. /\ [p EXCEPT !.count = c].data = p.data /\ [p EXCEPT !.count = c].offset = p.offset
      /\ [p EXCEPT !.count = c].count = c
  BY <1>3 DEF MemoriesIn
<1> QED
  BY <1>0, <1>1, <1>3, <1>4, <1>6, <1>7 DEF c, IsStored

(* The set S with the additional values x is at a, and b is behind it.       *)
IsPlaced(m, S, x, a, b) ==
    /\ At(m, a) \in Nat /\ b = a + At(m, a) + 1 + m.additional /\ b <= Len(m.data)
    /\ Elements(m, a) = S
    /\ \A i \in 0..m.additional - 1 : Extra(m, a, i) = x[i + 1]

(* The sets of n are those of L, their additional values those of E and their   *)
(* addresses adr; e is behind them.                                          *)
Places(m, n, L, E, e, adr) ==
    /\ adr \in [1..Len(L) + 1 -> Nat] /\ adr[1] = m.offset[n] /\ adr[Len(L) + 1] = e
    /\ e <= Len(m.data)
    /\ \A j \in 1..Len(L) : IsPlaced(m, L[j], E[j], adr[j], adr[j + 1])

HoldsIn(X, D, m, n, L, E, e) ==
    /\ L \in Seq(SUBSET X) /\ E \in Seq(Seq(D)) /\ Len(E) = Len(L) /\ m.count[n] = Len(L)
    /\ \E adr : Places(m, n, L, E, e, adr)

(* What a memory holds for a node is what its iterator finds. *)
LEMMA HoldsIsSets ==
    ASSUME NEW X, NEW z \in Nat, NEW D, NEW m \in MemoriesIn(X, z, D), NEW n \in X, NEW L, NEW E,
           NEW e, HoldsIn(X, D, m, n, L, E, e)
    PROVE  /\ SetsOf(m, n) = L
           /\ \A j \in 1..Len(L), i \in 0..z - 1 : Extra(m, Addresses(m, n)[j], i) = E[j][i + 1]
<1>1. PICK adr : Places(m, n, L, E, e, adr)
  BY DEF HoldsIn
<1> DEFINE c == m.count[n]
           Is(f) == f = [j \in 1..c |-> IF j = 1 THEN m.offset[n]
                                        ELSE f[j - 1] + At(m, f[j - 1]) + 1 + m.additional]
           r == CHOOSE f : Is(f)
           g == [j \in 1..c |-> adr[j]]
<1>2. L \in Seq(SUBSET X) /\ c = Len(L) /\ c \in Nat /\ m.additional = z
  BY DEF HoldsIn, MemoriesIn
<1>3. Addresses(m, n) = r
  BY DEF Addresses
<1>4. SetsOf(m, n) = [j \in 1..c |-> Elements(m, r[j])]
  BY <1>3 DEF SetsOf
<1> HIDE DEF c
<1>5. ASSUME NEW j \in 1..c
      PROVE  adr[j] = IF j = 1 THEN m.offset[n]
                      ELSE adr[j - 1] + At(m, adr[j - 1]) + 1 + m.additional
  <2>1. CASE j = 1
    BY <1>1, <2>1 DEF Places
  <2>2. CASE j # 1
    <3>1. j - 1 \in 1..Len(L) /\ (j - 1) + 1 = j
      BY <1>2, <2>2
    <3>2. IsPlaced(m, L[j - 1], E[j - 1], adr[j - 1], adr[(j - 1) + 1])
      BY <1>1, <3>1 DEF Places
    <3>3. adr[(j - 1) + 1] = adr[j - 1] + At(m, adr[j - 1]) + 1 + m.additional
      BY <3>2, Zenon DEF IsPlaced
    <3> QED
      BY <2>2, <3>1, <3>3
  <2> QED
    BY <2>1, <2>2
<1>6. Is(g)
  <2>1. ASSUME NEW j \in 1..c
        PROVE  g[j] = IF j = 1 THEN m.offset[n]
                      ELSE g[j - 1] + At(m, g[j - 1]) + 1 + m.additional
    <3>1. j # 1 => j - 1 \in 1..c
      BY <1>2
    <3> QED
      BY <1>5, <3>1
  <2>2. g = [j \in 1..c |-> g[j]]
    OBVIOUS
  <2> HIDE DEF g
  <2> QED
    BY <2>1, <2>2
<1>7. Is(r)
  <2> HIDE DEF Is
  <2> QED
    BY <1>6, Zenon
<1> HIDE DEF r, g
<1> DEFINE T == {j \in 1..c : r[j] # adr[j]}
<1>8. T = {}
  <2> SUFFICES ASSUME T # {} PROVE FALSE
    OBVIOUS
  <2>0. T \subseteq Nat
    OBVIOUS
  <2>1. PICK j \in T : \A i \in T : j <= i
    BY <2>0, Least, Zenon
  <2>2. j \in 1..c /\ r[j] # adr[j]
    OBVIOUS
  <2>3. r[j] = IF j = 1 THEN m.offset[n] ELSE r[j - 1] + At(m, r[j - 1]) + 1 + m.additional
    BY <1>7, <2>2
  <2>4. j # 1
    BY <1>5, <2>2, <2>3
  <2>5. j - 1 \in 1..c /\ ~ j <= j - 1
    BY <1>2, <2>2, <2>4
  <2>6. r[j - 1] = adr[j - 1]
    BY <2>1, <2>5
  <2> QED
    BY <1>5, <2>2, <2>3, <2>4, <2>6
<1>9. ASSUME NEW j \in 1..c
      PROVE  Elements(m, r[j]) = L[j] /\ \A i \in 0..z - 1 : Extra(m, r[j], i) = E[j][i + 1]
  <2>1. IsPlaced(m, L[j], E[j], adr[j], adr[j + 1])
    BY <1>1, <1>2 DEF Places
  <2>2. r[j] = adr[j]
    BY <1>8
  <2> QED
    BY <1>2, <2>1, <2>2 DEF IsPlaced
<1>10. SetsOf(m, n) = [j \in 1..c |-> L[j]]
  BY <1>4, <1>9
<1>11. SetsOf(m, n) = L
  BY <1>2, <1>10
<1> QED
  BY <1>2, <1>3, <1>9, <1>11

(* A set that is stored is found again after others have been appended. *)
Behind(M, D, r, m) == m \in M /\ r \in M /\ \E w \in Seq(D) : r.data = m.data \o w

LEMMA PlacedStays ==
    ASSUME NEW X, NEW z \in Nat, NEW D, NEW m, NEW r, Behind(MemoriesIn(X, z, D), D, r, m),
           NEW S, NEW x, NEW a \in Nat, NEW b \in Nat, IsPlaced(m, S, x, a, b)
    PROVE  IsPlaced(r, S, x, a, b)
<1> DEFINE c == At(m, a)
<1>0. PICK w \in Seq(D) : r.data = m.data \o w
  BY DEF Behind
<1>m. m \in MemoriesIn(X, z, D) /\ r \in MemoriesIn(X, z, D)
  BY DEF Behind
<1>1. /\ c \in Nat /\ b = a + c + 1 + z /\ b <= Len(m.data) /\ m.additional = z
      /\ r.additional = z /\ Len(m.data) \in Nat
  BY <1>m DEF IsPlaced, MemoriesIn
<1>2. ASSUME NEW i \in Nat, i < b
      PROVE  At(r, i) = At(m, i)
  <2>1. i + 1 \in 1..Len(m.data) /\ m.data \in Seq(D)
    BY <1>1, <1>2, <1>m DEF MemoriesIn
  <2>2. (m.data \o w)[i + 1] = m.data[i + 1]
    BY <2>1
  <2> QED
    BY <1>0, <2>2 DEF At
<1>3. Elements(m, a) = {At(m, a + z + i) : i \in 1..c}
  BY <1>1 DEF Elements
<1>4. At(r, a) = c
  BY <1>1, <1>2
<1>5. Elements(r, a) = {At(r, a + z + i) : i \in 1..c}
  BY <1>1, <1>4 DEF Elements
<1> HIDE DEF c
<1>6. Elements(r, a) = Elements(m, a)
  <2>1. \A i \in 1..c : At(r, a + z + i) = At(m, a + z + i)
    <3> TAKE i \in 1..c
    <3>1. a + z + i \in Nat /\ a + z + i < b
      BY <1>1
    <3> QED
      BY <1>2, <3>1
  <2> QED
    BY <1>3, <1>5, <2>1
<1>7. ASSUME NEW i \in 0..z - 1
      PROVE  Extra(r, a, i) = x[i + 1]
  <2>1. a + 1 + i \in Nat /\ a + 1 + i < b
    BY <1>1
  <2>2. At(r, a + 1 + i) = At(m, a + 1 + i)
    BY <1>2, <2>1
  <2>3. Extra(m, a, i) = x[i + 1]
    BY <1>1 DEF IsPlaced
  <2> QED
    BY <2>2, <2>3 DEF Extra
<1>8. b <= Len(r.data)
  <2>1. m.data \in Seq(D)
    BY <1>m DEF MemoriesIn
  <2>2. Len(m.data \o w) = Len(m.data) + Len(w) /\ Len(w) \in Nat
    BY <2>1
  <2> QED
    BY <1>0, <1>1, <2>2
<1>9. Elements(r, a) = S
  BY <1>6 DEF IsPlaced
<1> QED
  BY <1>1, <1>4, <1>7, <1>8, <1>9 DEF IsPlaced

(* So is the list of a node that does not write. *)
LEMMA HoldsStays ==
    ASSUME NEW X, NEW z \in Nat, NEW D, NEW m \in MemoriesIn(X, z, D),
           NEW r \in MemoriesIn(X, z, D), NEW w \in Seq(D), r.data = m.data \o w,
           NEW n \in X, r.offset[n] = m.offset[n], r.count[n] = m.count[n],
           NEW L, NEW E, NEW e, HoldsIn(X, D, m, n, L, E, e)
    PROVE  HoldsIn(X, D, r, n, L, E, e)
<1>1. PICK adr : Places(m, n, L, E, e, adr)
  BY DEF HoldsIn
<1>2. L \in Seq(SUBSET X) /\ Len(L) \in Nat /\ r.count[n] = Len(L)
  BY DEF HoldsIn
<1>3. Len(m.data) \in Nat /\ Len(r.data) \in Nat /\ Len(m.data) <= Len(r.data)
  <2>1. m.data \in Seq(D)
    BY DEF MemoriesIn
  <2>2. Len(m.data \o w) = Len(m.data) + Len(w) /\ Len(m.data) \in Nat /\ Len(w) \in Nat
    BY <2>1
  <2> QED
    BY <2>2
<1>4. ASSUME NEW j \in 1..Len(L)
      PROVE  IsPlaced(r, L[j], E[j], adr[j], adr[j + 1])
  <2>1. j \in 1..Len(L) + 1 /\ j + 1 \in 1..Len(L) + 1
    BY <1>2
  <2>2. adr[j] \in Nat /\ adr[j + 1] \in Nat /\ IsPlaced(m, L[j], E[j], adr[j], adr[j + 1])
    BY <1>1, <2>1 DEF Places
  <2>3. Behind(MemoriesIn(X, z, D), D, r, m)
    BY DEF Behind
  <2> QED
    BY <2>2, <2>3, PlacedStays
<1>5. adr \in [1..Len(L) + 1 -> Nat] /\ adr[1] = r.offset[n] /\ adr[Len(L) + 1] = e /\ e \in Nat
  BY <1>1, <1>2, SMTT(30) DEF Places
<1>6. e <= Len(r.data)
  BY <1>1, <1>3, <1>5 DEF Places
<1>7. Places(r, n, L, E, e, adr)
  BY <1>4, <1>5, <1>6 DEF Places
<1> QED
  BY <1>2, <1>7 DEF HoldsIn

(* The list that append_begin opens is empty. *)
LEMMA HoldsNone ==
    ASSUME NEW X, NEW z, NEW D, NEW m \in MemoriesIn(X, z, D), NEW n \in X, m.count[n] = 0
    PROVE  m.offset[n] <= Len(m.data) => HoldsIn(X, D, m, n, <<>>, <<>>, m.offset[n])
<1> SUFFICES ASSUME m.offset[n] <= Len(m.data)
             PROVE  HoldsIn(X, D, m, n, <<>>, <<>>, m.offset[n])
  OBVIOUS
<1> DEFINE adr == [j \in 1..1 |-> m.offset[n]]
<1>1. m.offset[n] \in Nat
  BY DEF MemoriesIn
<1>2. Len(<<>>) = 0 /\ <<>> \in Seq(SUBSET X) /\ <<>> \in Seq(Seq(D)) /\ 1..0 = {} /\ 0 + 1 = 1
  OBVIOUS
<1>3. adr \in [1..1 -> Nat] /\ adr[1] = m.offset[n]
  BY <1>1
<1> HIDE DEF adr
<1>4. Places(m, n, <<>>, <<>>, m.offset[n], adr)
  BY <1>1, <1>2, <1>3 DEF Places
<1> QED
  BY <1>2, <1>4 DEF HoldsIn

(* An entry is read as the set that was written. *)
Wrote(X, z, D, r, m, es, x, S) ==
    /\ m \in MemoriesIn(X, z, D) /\ r \in MemoriesIn(X, z, D)
    /\ es \in Seq(D) /\ x \in Seq(D) /\ Len(x) = z /\ r.data = m.data \o Entry(es, x)
    /\ S = {es[i] : i \in 1..Len(es)}

LEMMA EntryPlaced ==
    ASSUME NEW X, NEW z \in Nat, NEW D, Nat \subseteq D, NEW r, NEW m, NEW es, NEW x, NEW S,
           Wrote(X, z, D, r, m, es, x, S)
    PROVE  /\ IsPlaced(r, S, x, Len(m.data), Len(r.data))
           /\ Len(m.data) \in Nat /\ Len(r.data) \in Nat
<1> DEFINE w == Entry(es, x)
           a == Len(m.data)
           l == Len(es)
<1> USE DEF Wrote
<1>1. /\ w \in Seq(D) /\ l \in Nat /\ Len(w) = 1 + z + l /\ w[1] = l
      /\ \A i \in 1..z : w[1 + i] = x[i]
      /\ \A i \in 1..l : w[1 + z + i] = es[i]
  <2> HIDE DEF w, l
  <2>1. EntryFits(D, es, x, w)
    BY EntryIs DEF w
  <2> QED
    BY <2>1 DEF EntryFits, l
<1>2. r.data = m.data \o w /\ S = {es[i] : i \in 1..l}
  OBVIOUS
<1> HIDE DEF w, l
<1>3. /\ a \in Nat /\ Len(r.data) = a + (1 + z + l)
      /\ \A i \in 1..1 + z + l : r.data[a + i] = w[i]
  <2>1. m.data \in Seq(D)
    BY DEF MemoriesIn
  <2>2. \A u, y \in Seq(D) : JoinIs(D, u, y, u \o y)
    BY JoinedIndices
  <2>3. JoinIs(D, m.data, w, r.data)
    BY <1>1, <1>2, <2>1, <2>2, Zenon
  <2> QED
    BY <1>1, <2>3 DEF JoinIs
<1> HIDE DEF a
<1>4. At(r, a) = l /\ r.additional = z
  <2>1. 1 \in 1..1 + z + l
    BY <1>1
  <2> QED
    BY <1>1, <1>3, <2>1 DEF At, MemoriesIn
<1>5. ASSUME NEW i \in 1..l
      PROVE  At(r, a + z + i) = es[i]
  <2>1. 1 + z + i \in 1..1 + z + l /\ a + z + i + 1 = a + (1 + z + i)
    BY <1>1, <1>3
  <2>2. r.data[a + (1 + z + i)] = w[1 + z + i]
    BY <1>3, <2>1, Zenon
  <2> QED
    BY <1>1, <2>1, <2>2 DEF At
<1>6. Elements(r, a) = S
  <2>1. Elements(r, a) = {At(r, a + z + i) : i \in 1..l}
    BY <1>4 DEF Elements
  <2>2. {At(r, a + z + i) : i \in 1..l} = {es[i] : i \in 1..l}
    BY <1>5
  <2> QED
    BY <1>2, <2>1, <2>2, Zenon
<1>7. ASSUME NEW i \in 0..z - 1
      PROVE  Extra(r, a, i) = x[i + 1]
  <2>1. /\ 1 + (i + 1) \in 1..1 + z + l /\ a + 1 + i + 1 = a + (1 + (i + 1))
        /\ i + 1 \in 1..z
    BY <1>1, <1>3
  <2>2. r.data[a + (1 + (i + 1))] = w[1 + (i + 1)] /\ w[1 + (i + 1)] = x[i + 1]
    BY <1>1, <1>3, <2>1, Zenon
  <2> QED
    BY <2>1, <2>2 DEF At, Extra
<1>8. Len(r.data) = a + l + 1 + z /\ Len(r.data) \in Nat /\ Len(r.data) <= Len(r.data)
  BY <1>1, <1>3
<1> QED
  BY <1>1, <1>3, <1>4, <1>6, <1>7, <1>8 DEF IsPlaced, a

(* append_set continues the list that ends where the vector does. *)
LEMMA HoldsNext ==
    ASSUME NEW X, NEW z \in Nat, NEW D, Nat \subseteq D, NEW m \in MemoriesIn(X, z, D),
           NEW r \in MemoriesIn(X, z, D), NEW n \in X, NEW L, NEW E,
           HoldsIn(X, D, m, n, L, E, Len(m.data)),
           NEW es \in Seq(D), NEW x \in Seq(D), Len(x) = z, r.data = m.data \o Entry(es, x),
           r.offset[n] = m.offset[n], r.count[n] = m.count[n] + 1,
           NEW S \in SUBSET X, S = {es[i] : i \in 1..Len(es)}
    PROVE  HoldsIn(X, D, r, n, Append(L, S), Append(E, x), Len(r.data))
<1> DEFINE a == Len(m.data)
           e == Len(r.data)
           l == Len(L)
           K == Append(L, S)
           F == Append(E, x)
<1>1. PICK adr : Places(m, n, L, E, a, adr)
  BY DEF HoldsIn
<1>2. L \in Seq(SUBSET X) /\ E \in Seq(Seq(D)) /\ Len(E) = l /\ l \in Nat /\ r.count[n] = l + 1
  BY DEF HoldsIn
<1>3. /\ K \in Seq(SUBSET X) /\ Len(K) = l + 1 /\ K[l + 1] = S
      /\ \A j \in 1..l : K[j] = L[j]
      /\ F \in Seq(Seq(D)) /\ Len(F) = l + 1 /\ F[l + 1] = x
      /\ \A j \in 1..l : F[j] = E[j]
  BY <1>2
<1>4. IsPlaced(r, S, x, a, e) /\ a \in Nat /\ e \in Nat
  <2>1. Wrote(X, z, D, r, m, es, x, S)
    BY Zenon DEF Wrote
  <2> QED
    BY <2>1, EntryPlaced
<1>5. Behind(MemoriesIn(X, z, D), D, r, m)
  <2>1. Entry(es, x) \in Seq(D)
    BY EntryIs DEF EntryFits
  <2> QED
    BY <2>1 DEF Behind
<1>6. /\ adr \in [1..l + 1 -> Nat] /\ adr[1] = m.offset[n] /\ adr[l + 1] = a
      /\ \A j \in 1..l : IsPlaced(m, L[j], E[j], adr[j], adr[j + 1])
  BY <1>1 DEF Places
<1> DEFINE bdr == [j \in 1..l + 2 |-> IF j = l + 2 THEN e ELSE adr[j]]
<1> HIDE DEF a, e, l, K, F
<1>7. /\ \A j \in 1..l + 2 : bdr[j] = IF j = l + 2 THEN e ELSE adr[j]
      /\ bdr \in [1..l + 2 -> Nat]
  <2>1. ASSUME NEW j \in 1..l + 2
        PROVE  (IF j = l + 2 THEN e ELSE adr[j]) \in Nat
    BY <1>2, <1>4, <1>6
  <2> QED
    BY <2>1
<1> HIDE DEF bdr
<1>8. /\ bdr[1] = r.offset[n] /\ bdr[l + 2] = e /\ bdr[l + 1] = a
      /\ \A j \in 1..l + 1 : bdr[j] = adr[j]
  <2>1. /\ 1 \in 1..l + 2 /\ l + 2 \in 1..l + 2 /\ l + 1 \in 1..l + 2 /\ 1 # l + 2 /\ l + 1 # l + 2
        /\ \A j \in 1..l + 1 : j \in 1..l + 2 /\ j # l + 2
    BY <1>2, SMTT(40)
  <2> QED
    BY <1>6, <1>7, <2>1
<1>9. ASSUME NEW j \in 1..l + 1
      PROVE  IsPlaced(r, K[j], F[j], bdr[j], bdr[j + 1])
  <2>1. CASE j = l + 1
    <3>1. bdr[j] = a /\ bdr[j + 1] = e
      <4>1. j + 1 = l + 2
        BY <1>2, <2>1
      <4> QED
        BY <1>8, <2>1, <4>1
    <3>2. K[j] = S /\ F[j] = x
      BY <1>3, <2>1
    <3> QED
      BY <1>4, <3>1, <3>2
  <2>2. CASE j # l + 1
    <3>1. j \in 1..l /\ j + 1 \in 1..l + 1
      BY <1>2, <2>2
    <3>2. /\ bdr[j] = adr[j] /\ bdr[j + 1] = adr[j + 1] /\ adr[j] \in Nat /\ adr[j + 1] \in Nat
          /\ IsPlaced(m, L[j], E[j], adr[j], adr[j + 1]) /\ K[j] = L[j] /\ F[j] = E[j]
      BY <1>3, <1>6, <1>8, <3>1
    <3>3. IsPlaced(r, L[j], E[j], adr[j], adr[j + 1])
      BY <1>5, <3>2, PlacedStays
    <3> QED
      BY <3>2, <3>3
  <2> QED
    BY <2>1, <2>2
<1>10. Places(r, n, K, F, e, bdr)
  <2>1. 1..Len(K) + 1 = 1..l + 2 /\ Len(K) + 1 = l + 2 /\ 1..Len(K) = 1..l + 1 /\ e <= Len(r.data)
    BY <1>2, <1>3, <1>4 DEF e
  <2> QED
    BY <1>7, <1>8, <1>9, <2>1 DEF Places
<1> QED
  BY <1>2, <1>3, <1>10 DEF HoldsIn, e, K, F

(* r is m after index w has been written.                                    *)
GrowsIn(X, z, D, r, m, w) ==
    /\ r \in MemoriesIn(X, z, D)
    /\ \E values \in Seq(D) : r.data = m.data \o values
    /\ \A n \in X : n # w => r.offset[n] = m.offset[n] /\ r.count[n] = m.count[n]

(* Readers of other indices do not notice. *)
LEMMA HoldsGrowsIn ==
    ASSUME NEW X, NEW z \in Nat, NEW D, NEW m \in MemoriesIn(X, z, D), NEW r, NEW w,
           GrowsIn(X, z, D, r, m, w), NEW n \in X, n # w,
           NEW L, NEW E, NEW e, HoldsIn(X, D, m, n, L, E, e)
    PROVE  HoldsIn(X, D, r, n, L, E, e)
<1>1. PICK values \in Seq(D) : r.data = m.data \o values
  BY DEF GrowsIn
<1>2. r \in MemoriesIn(X, z, D) /\ r.offset[n] = m.offset[n] /\ r.count[n] = m.count[n]
  BY DEF GrowsIn
<1> QED
  BY <1>1, <1>2, HoldsStays

(* append_begin moves nothing and opens an empty list. *)
LEMMA BeginHoldsIn ==
    ASSUME NEW X, NEW z \in Nat, NEW D, NEW m \in MemoriesIn(X, z, D), NEW n \in X,
           m.count[n] = 0, NEW r, r = Starts(m, n)
    PROVE  /\ GrowsIn(X, z, D, r, m, n) /\ HoldsIn(X, D, r, n, <<>>, <<>>, Len(r.data))
           /\ r.count[n] = 0
<1>1. /\ r \in MemoriesIn(X, z, D) /\ r.data = m.data /\ r.count = m.count
      /\ r.offset = [m.offset EXCEPT ![n] = Len(m.data)]
  BY StartsIs
<1>2. m.data \in Seq(D) /\ Len(m.data) \in Nat /\ m.offset \in [X -> Nat]
  BY DEF MemoriesIn
<1>3. GrowsIn(X, z, D, r, m, n)
  <2>1. <<>> \in Seq(D) /\ r.data = m.data \o <<>>
    BY <1>1, <1>2
  <2>2. \A i \in X : i # n => r.offset[i] = m.offset[i] /\ r.count[i] = m.count[i]
    BY <1>1, <1>2
  <2> QED
    BY <1>1, <2>1, <2>2 DEF GrowsIn
<1>4. r.count[n] = 0 /\ r.offset[n] = Len(r.data) /\ r.offset[n] <= Len(r.data)
  BY <1>1, <1>2
<1>5. HoldsIn(X, D, r, n, <<>>, <<>>, r.offset[n])
  BY <1>1, <1>4, HoldsNone
<1> QED
  BY <1>3, <1>4, <1>5

(* append_set appends one set to the list.                                    *)
LEMMA AppendHoldsIn ==
    ASSUME NEW X, NEW z \in Nat, NEW D, Nat \subseteq D, NEW m \in MemoriesIn(X, z, D),
           NEW n \in X, NEW L, NEW E, HoldsIn(X, D, m, n, L, E, Len(m.data)),
           NEW es \in Seq(D), NEW x \in Seq(D), Len(x) = z,
           NEW S \in SUBSET X, S = {es[i] : i \in 1..Len(es)},
           NEW r, r = AppendSet(m, n, es, x)
    PROVE  /\ GrowsIn(X, z, D, r, m, n)
           /\ HoldsIn(X, D, r, n, Append(L, S), Append(E, x), Len(r.data))
<1> DEFINE w == Entry(es, x)
<1>1. /\ r \in MemoriesIn(X, z, D) /\ r.data = m.data \o w /\ r.offset = m.offset
      /\ r.count = [m.count EXCEPT ![n] = m.count[n] + 1]
  <2>1. IsStored(MemoriesIn(X, z, D), r, m, n, w, m.offset, m.count[n] + 1)
    BY AppendSetIs, Zenon
  <2> QED
    BY <2>1 DEF IsStored
<1>2. w \in Seq(D)
  BY EntryIs DEF EntryFits
<1>3. m.count \in [X -> Nat]
  BY DEF MemoriesIn
<1> HIDE DEF w
<1>4. GrowsIn(X, z, D, r, m, n)
  <2>1. \A i \in X : i # n => r.offset[i] = m.offset[i] /\ r.count[i] = m.count[i]
    BY <1>1, <1>3
  <2> QED
    BY <1>1, <1>2, <2>1 DEF GrowsIn
<1>5. r.offset[n] = m.offset[n] /\ r.count[n] = m.count[n] + 1
  BY <1>1, <1>3
<1>6. HoldsIn(X, D, r, n, Append(L, S), Append(E, x), Len(r.data))
  <2>1. r.data = m.data \o Entry(es, x) /\ r \in MemoriesIn(X, z, D)
    BY <1>1 DEF w
  <2> QED
    BY <1>5, <2>1, HoldsNext, Zenon
<1> QED
  BY <1>4, <1>6

(* assign_empty and assign_singleton store one set.                          *)
LEMMA AssignHoldsIn ==
    ASSUME NEW X, NEW z \in Nat, NEW D, Nat \subseteq D, NEW m \in MemoriesIn(X, z, D),
           NEW n \in X, NEW es \in Seq(D), NEW x \in Seq(D), Len(x) = z,
           NEW S \in SUBSET X, S = {es[i] : i \in 1..Len(es)},
           NEW r, r = [PushSet(Starts(m, n), es, x) EXCEPT !.count[n] = 1]
    PROVE  /\ GrowsIn(X, z, D, r, m, n)
           /\ HoldsIn(X, D, r, n, <<S>>, <<x>>, Len(r.data))
<1> DEFINE w == Entry(es, x)
           a == Len(m.data)
           adr == [j \in 1..2 |-> IF j = 1 THEN a ELSE Len(r.data)]
<1>1. /\ r \in MemoriesIn(X, z, D) /\ r.data = m.data \o w
      /\ r.offset = [m.offset EXCEPT ![n] = a]
      /\ r.count = [m.count EXCEPT ![n] = 1]
  <2>1. IsStored(MemoriesIn(X, z, D), r, m, n, w, [m.offset EXCEPT ![n] = a], 1)
    BY AssignIs, Zenon
  <2> QED
    BY <2>1 DEF IsStored
<1>2. w \in Seq(D)
  BY EntryIs DEF EntryFits
<1>3. m.count \in [X -> Nat] /\ m.offset \in [X -> Nat]
  BY DEF MemoriesIn
<1>4. IsPlaced(r, S, x, a, Len(r.data)) /\ a \in Nat /\ Len(r.data) \in Nat
  <2>1. r.data = m.data \o Entry(es, x) /\ r \in MemoriesIn(X, z, D)
    BY <1>1
  <2>2. Wrote(X, z, D, r, m, es, x, S)
    BY <2>1, Zenon DEF Wrote
  <2> QED
    BY <2>2, EntryPlaced
<1> HIDE DEF w, a
<1>5. GrowsIn(X, z, D, r, m, n)
  <2>1. \A i \in X : i # n => r.offset[i] = m.offset[i] /\ r.count[i] = m.count[i]
    BY <1>1, <1>3
  <2> QED
    BY <1>1, <1>2, <2>1 DEF GrowsIn
<1>6. adr \in [1..2 -> Nat] /\ adr[1] = a /\ adr[2] = Len(r.data)
  BY <1>4
<1> HIDE DEF adr
<1>7. /\ <<S>> \in Seq(SUBSET X) /\ <<x>> \in Seq(Seq(D)) /\ Len(<<S>>) = 1 /\ Len(<<x>>) = 1
      /\ <<S>>[1] = S /\ <<x>>[1] = x /\ 1 + 1 = 2 /\ 1..1 = {1} /\ 1..1 + 1 = 1..2
  OBVIOUS
<1>8. r.offset[n] = a /\ r.count[n] = 1
  BY <1>1, <1>3
<1>9. Places(r, n, <<S>>, <<x>>, Len(r.data), adr)
  <2>1. \A j \in 1..Len(<<S>>) : IsPlaced(r, <<S>>[j], <<x>>[j], adr[j], adr[j + 1])
    <3> TAKE j \in 1..Len(<<S>>)
    <3>1. j = 1
      BY <1>7
    <3>2. <<S>>[j] = S /\ <<x>>[j] = x /\ adr[j] = a /\ adr[j + 1] = Len(r.data)
      BY <1>6, <3>1
    <3> QED
      BY <1>4, <3>2
  <2> QED
    BY <1>4, <1>6, <1>7, <1>8, <2>1, SMTT(40) DEF Places
<1> QED
  BY <1>5, <1>7, <1>8, <1>9 DEF HoldsIn
-------------------------------------------------------------------------------
HIDE DEF Threads, Nodes

(* The memory of CutsSpec has no additional values.                          *)
Memories == MemoriesIn(Nodes, 0, Nat)

Holds(m, n, L, e) == \E E : HoldsIn(Nodes, Nat, m, n, L, E, e)

Grows(r, m, w) == GrowsIn(Nodes, 0, Nat, r, m, w)

Stored(m, n) == \E L, e : Holds(m, n, L, e)

LEMMA HoldsGrows ==
    ASSUME NEW m \in Memories, NEW r, NEW w, Grows(r, m, w), NEW n \in Nodes, n # w,
           NEW L, NEW e, Holds(m, n, L, e)
    PROVE  Holds(r, n, L, e)
<1>1. PICK E : HoldsIn(Nodes, Nat, m, n, L, E, e)
  BY DEF Holds
<1>2. HoldsIn(Nodes, Nat, r, n, L, E, e)
  BY <1>1, HoldsGrowsIn DEF Memories, Grows
<1> QED
  BY <1>2 DEF Holds

(* What a memory holds for a node is what its iterator finds. *)
LEMMA SetsAreHeld ==
    ASSUME NEW m \in Memories, NEW n \in Nodes, NEW L, NEW e, Holds(m, n, L, e)
    PROVE  SetsOf(m, n) = L /\ L \in Seq(SUBSET Nodes)
<1>1. PICK E : HoldsIn(Nodes, Nat, m, n, L, E, e)
  BY DEF Holds
<1>2. SetsOf(m, n) = L
  BY <1>1, HoldsIsSets DEF Memories
<1> QED
  BY <1>1, <1>2 DEF HoldsIn

(* Readers of other nodes do not notice. *)
LEMMA SetsGrow ==
    ASSUME NEW m \in Memories, NEW r, NEW w, Grows(r, m, w), NEW n \in Nodes, n # w, Stored(m, n)
    PROVE  SetsOf(r, n) = SetsOf(m, n)
<1>1. PICK L, e : Holds(m, n, L, e)
  BY DEF Stored
<1>2. Holds(r, n, L, e) /\ r \in Memories
  <2>1. Holds(r, n, L, e)
    BY <1>1, HoldsGrows
  <2> QED
    BY <2>1 DEF Grows, GrowsIn, Memories
<1>3. SetsOf(m, n) = L
  BY <1>1, SetsAreHeld
<1>4. SetsOf(r, n) = L
  BY <1>2, SetsAreHeld
<1> QED
  BY <1>3, <1>4

LEMMA StoredIsTyped ==
    ASSUME NEW m \in Memories, NEW n \in Nodes, Stored(m, n)
    PROVE  SetsOf(m, n) \in Seq(SUBSET Nodes)
<1>1. PICK L, e : Holds(m, n, L, e)
  BY DEF Stored
<1> QED
  BY <1>1, SetsAreHeld

(* The local cuts of a node are sets of nodes.                               *)
LEMMA SetsAtTyped ==
    ASSUME NEW m \in Memories, NEW n \in Ands, \A i \in 1..2 : Child[n][i].node \in Nodes,
           \A i \in 1..2 : Stored(m, Child[n][i].node)
    PROVE  SetsAt(m, n) \in Seq(SUBSET Nodes)
<1> DEFINE one == SetsOf(m, Child[n][1].node)
           two == SetsOf(m, Child[n][2].node)
           list(sets) == [i \in DOMAIN sets |-> [cut |-> sets[i], cone |-> {}]]
           cuts == LocalCutsFrom(one, two)
           f == [i \in DOMAIN cuts |-> cuts[i].cut]
<1>1. one \in Seq(SUBSET Nodes) /\ two \in Seq(SUBSET Nodes)
  BY StoredIsTyped
<1>2. ASSUME NEW sets \in Seq(SUBSET Nodes)
      PROVE  list(sets) \in Seq(CutsAmong(Nodes))
  <2>1. Len(sets) \in Nat /\ DOMAIN sets = 1..Len(sets)
    OBVIOUS
  <2>2. \A i \in 1..Len(sets) : [cut |-> sets[i], cone |-> {}] \in CutsAmong(Nodes)
    BY DEF CutsAmong
  <2>3. list(sets) \in [1..Len(sets) -> CutsAmong(Nodes)]
    BY <2>1, <2>2
  <2> HIDE DEF list
  <2> QED
    BY <2>1, <2>3, IsASequence, Zenon
<1>3. <<list(one), list(two)>> \in Seq(Seq(CutsAmong(Nodes)))
  <2>1. list(one) \in Seq(CutsAmong(Nodes)) /\ list(two) \in Seq(CutsAmong(Nodes))
    BY <1>1, <1>2
  <2> HIDE DEF list, one, two
  <2> QED
    BY <2>1
<1>4. cuts \in Seq(Joins(Nodes, NodeLevels))
  <2>1. cuts = LocalCutsOf(<<list(one), list(two)>>, k, priority, FALSE, NodeLevels)
    BY DEF LocalCutsFrom
  <2>2. priority \in Nat
    BY CutsAssumption
  <2>3. \A c \in Choices(CutsAmong(Nodes), <<list(one), list(two)>>, Len(<<list(one), list(two)>>)) :
            Joined(c, NodeLevels) \in Joins(Nodes, NodeLevels)
    BY DEF Choices, Joins
  <2> HIDE DEF cuts, list, one, two
  <2> QED
    BY <1>3, <2>1, <2>2, <2>3, LocalCutsTyped
<1>5. SetsAt(m, n) = f
  BY DEF SetsAt
<1> HIDE DEF cuts, one, two
<1>6. Len(cuts) \in Nat /\ DOMAIN cuts = 1..Len(cuts) /\ \A i \in 1..Len(cuts) : cuts[i] \in Joins(Nodes, NodeLevels)
  BY <1>4
<1>7. \A i \in 1..Len(cuts) : cuts[i].cut \in SUBSET Nodes
  BY <1>6, JoinsAreAmong
<1>8. f \in [1..Len(cuts) -> SUBSET Nodes]
  BY <1>6, <1>7
<1> HIDE DEF f
<1> QED
  BY <1>5, <1>6, <1>8, IsASequence, Zenon

(* ParallelIsSequential, made inductive.  Only the holder of the mutex is       *)
(* between LockData and UnlockData; a callback runs while its thread is at      *)
(* "call", and by ChildrenFirst the callbacks of its children have returned;    *)
(* what a node has stored is what it stores in the sequential enumeration.     *)
CallbacksTyped ==
    /\ memory \in Memories
    /\ mutex \in Threads \cup {Nobody}
    /\ callback \in [Threads -> {"called", "reading", "ready", "locked", "begun",
                                 "written", "returned"}]
    /\ \A n \in Inputs : callback[n] \notin {"called", "reading", "begun"}
    /\ local_cuts \in [Ands -> Seq(SUBSET Nodes)]

OneWriter == \A n \in Threads : callback[n] \in {"locked", "begun", "written"} <=> mutex = n

AtCall ==
    /\ \A n \in Threads : pc[n] \in {"publish", "stores", "notify", "done"} =>
                            callback[n] = "returned"
    /\ \A n \in Ands : callback[n] # "called" =>
                            pc[n] \in {"call", "publish", "stores", "notify", "done"}

NothingYet ==
    \A n \in Threads : callback[n] \in {"called", "reading", "ready", "locked"} =>
                            memory.count[n] = 0

InputStored(n) ==
    callback[n] \in {"written", "returned"} => \E e : Holds(memory, n, <<{n}>>, e)

ReadIsRight(n) ==
    callback[n] \in {"ready", "locked"} /\ n \notin torn => local_cuts[n] = SetsAt(memory, n)

RestIsRight(n) ==
    callback[n] = "begun" =>
        \E L : /\ Holds(memory, n, L, Len(memory.data))
               /\ n \notin torn => L \o local_cuts[n] = SetsAt(memory, n)

AndStored(n) ==
    callback[n] \in {"written", "returned"} =>
        \E L, e : /\ Holds(memory, n, L, e)
                  /\ n \notin torn => L = Append(SetsAt(memory, n), {n})

NodeStored(n) ==
    /\ n \in Inputs => InputStored(n)
    /\ n \in Ands => ReadIsRight(n) /\ RestIsRight(n) /\ AndStored(n)

CutsStored ==
    /\ \E e : Holds(memory, 0, <<{}>>, e)
    /\ \A n \in Threads : NodeStored(n)

CInv == IInv /\ CallbacksTyped /\ OneWriter /\ AtCall /\ NothingYet /\ CutsStored

(* CInv is what ParallelIsSequential needs. *)
LEMMA CInvImplies == CInv => ParallelIsSequential
<1> SUFFICES ASSUME CInv, NEW n \in Nodes, Returned(n), n \notin torn
             PROVE  SetsOf(memory, n) =
                        IF n = 0 THEN <<{}>> ELSE IF n \in Inputs THEN <<{n}>>
                        ELSE Append(SetsAt(memory, n), {n})
  BY DEF ParallelIsSequential
<1>1. memory \in Memories
  BY DEF CInv, CallbacksTyped
<1>2. CASE n = 0
  <2>1. PICK e : Holds(memory, 0, <<{}>>, e)
    BY DEF CInv, CutsStored
  <2>2. SetsOf(memory, 0) = <<{}>>
    BY <1>1, <1>2, <2>1, SetsAreHeld
  <2> QED
    BY <1>2, <2>2
<1>3. CASE n # 0 /\ n \in Inputs
  <2>1. n \in Threads /\ callback[n] = "returned"
    BY <1>3 DEF Returned, Nodes
  <2>2. PICK e : Holds(memory, n, <<{n}>>, e)
    BY <1>3, <2>1 DEF CInv, CutsStored, NodeStored, InputStored
  <2>3. SetsOf(memory, n) = <<{n}>>
    BY <1>1, <2>2, SetsAreHeld
  <2> QED
    BY <1>3, <2>3
<1>4. CASE n # 0 /\ n \notin Inputs
  <2>1. n \in Threads /\ callback[n] = "returned" /\ n \in Ands
    BY <1>4 DEF Returned, Nodes, Threads
  <2>2. PICK L, e : Holds(memory, n, L, e) /\ L = Append(SetsAt(memory, n), {n})
    BY <2>1 DEF CInv, CutsStored, NodeStored, AndStored
  <2>3. SetsOf(memory, n) = L
    BY <1>1, <2>2, SetsAreHeld
  <2> QED
    BY <1>4, <2>2, <2>3
<1> QED
  BY <1>2, <1>3, <1>4

(* A callback that has begun reads from children that have returned.         *)
LEMMA ChildrenStored ==
    ASSUME CInv, NEW n \in Ands, callback[n] # "called", NEW i \in 1..2
    PROVE  /\ Child[n][i].node \in Nodes
           /\ mutex \in Threads => mutex # Child[n][i].node
           /\ Stored(memory, Child[n][i].node)
<1> DEFINE c == Child[n][i].node
<1>1. c \in Nodes /\ 0 \notin Threads
  BY ChildIsNode, NodesAreNot
<1>2. c \in computed
  <2>1. pc[n] \in {"call", "publish", "stores", "notify", "done"}
    BY DEF CInv, AtCall
  <2> QED
    BY <2>1 DEF CInv, IInv, ChildrenFirst
<1> HIDE DEF c
<1>3. CASE c = 0
  <2>1. mutex \in Threads => mutex # 0
    BY <1>1
  <2>2. Stored(memory, 0)
    BY DEF CInv, CutsStored, Stored
  <2> QED
    BY <1>1, <1>3, <2>1, <2>2 DEF c
<1>4. CASE c # 0
  <2>1. c \in Threads /\ Published(c)
    BY <1>2, <1>4 DEF CInv, IInv, BitsArePublished
  <2>2. callback[c] = "returned"
    BY <2>1 DEF CInv, AtCall, Published
  <2>3. mutex # c
    BY <2>1, <2>2 DEF CInv, OneWriter
  <2>4. Stored(memory, c)
    BY <2>1, <2>2 DEF CInv, CutsStored, NodeStored, InputStored, AndStored, Stored, Threads
  <2> QED
    BY <1>1, <2>3, <2>4 DEF c
<1> QED
  BY <1>3, <1>4

(* While another node appends, the sets that a read would find stay.         *)
LEMMA ReadStays ==
    ASSUME CInv, NEW n \in Ands, callback[n] # "called", NEW w \in Threads, mutex = w,
           NEW r, Grows(r, memory, w)
    PROVE  SetsAt(r, n) = SetsAt(memory, n)
<1>1. memory \in Memories
  BY DEF CInv, CallbacksTyped
<1>2. SetsOf(r, Child[n][1].node) = SetsOf(memory, Child[n][1].node)
  <2>1. 1 \in 1..2
    OBVIOUS
  <2>2. /\ Child[n][1].node \in Nodes /\ Child[n][1].node # w
        /\ Stored(memory, Child[n][1].node)
    BY <2>1, ChildrenStored
  <2> QED
    BY <1>1, <2>2, SetsGrow
<1>3. SetsOf(r, Child[n][2].node) = SetsOf(memory, Child[n][2].node)
  <2>1. 2 \in 1..2
    OBVIOUS
  <2>2. /\ Child[n][2].node \in Nodes /\ Child[n][2].node # w
        /\ Stored(memory, Child[n][2].node)
    BY <2>1, ChildrenStored
  <2> QED
    BY <1>1, <2>2, SetsGrow
<1> QED
  BY <1>2, <1>3 DEF SetsAt

LEMMA ReadTyped ==
    ASSUME CInv, NEW n \in Ands, callback[n] # "called"
    PROVE  SetsAt(memory, n) \in Seq(SUBSET Nodes)
<1>1. memory \in Memories
  BY DEF CInv, CallbacksTyped
<1> QED
  BY <1>1, ChildrenStored, SetsAtTyped

(* What a step of w leaves alone: the other nodes, and all but w's callback.   *)
Others(w) ==
    /\ \A n \in Threads : n # w => callback'[n] = callback[n]
    /\ \A n \in Ands : n # w => local_cuts'[n] = local_cuts[n]
    /\ torn \subseteq torn'

(* What the other nodes have stored or read stays right. *)
LEMMA OthersStored ==
    ASSUME CInv, NEW w \in Threads, NEW n \in Threads, n # w, Others(w),
           memory' = memory \/ (mutex = w /\ Grows(memory', memory, w))
    PROVE  NodeStored(n)'
<1>1. /\ memory \in Memories /\ NodeStored(n) /\ callback'[n] = callback[n]
      /\ n \in Ands => local_cuts'[n] = local_cuts[n]
      /\ n \notin torn' => n \notin torn
  BY DEF CInv, CallbacksTyped, CutsStored, Others
<1>2. n \in Nodes
  BY DEF Nodes
<1>3. ASSUME NEW L, NEW e, Holds(memory, n, L, e)
      PROVE  Holds(memory', n, L, e)
  BY <1>1, <1>2, <1>3, HoldsGrows
<1>4. n \in Ands /\ callback[n] # "called" => SetsAt(memory', n) = SetsAt(memory, n)
  BY ReadStays
<1>5. n \in Inputs => InputStored(n)'
  BY <1>1, <1>3 DEF NodeStored, InputStored
<1>6. ASSUME n \in Ands
      PROVE  ReadIsRight(n)' /\ RestIsRight(n)' /\ AndStored(n)'
  <2>1. ReadIsRight(n) /\ RestIsRight(n) /\ AndStored(n) /\ local_cuts'[n] = local_cuts[n]
    BY <1>1, <1>6 DEF NodeStored
  <2>2. ReadIsRight(n)'
    BY <1>1, <1>4, <1>6, <2>1 DEF ReadIsRight
  <2>3. RestIsRight(n)'
    <3>1. CASE callback[n] = "begun"
      <4>1. mutex = n
        BY <3>1 DEF CInv, OneWriter
      <4>2. memory' = memory
        BY <4>1
      <4> QED
        BY <1>1, <2>1, <4>2, <3>1, <1>4, <1>6 DEF RestIsRight
    <3>2. CASE callback[n] # "begun"
      BY <1>1, <3>2 DEF RestIsRight
    <3> QED
      BY <3>1, <3>2
  <2>4. AndStored(n)'
    <3>1. SUFFICES ASSUME callback[n] \in {"written", "returned"}
                   PROVE  AndStored(n)'
      BY <1>1 DEF AndStored
    <3>2. PICK L, e : Holds(memory, n, L, e) /\ (n \notin torn => L = Append(SetsAt(memory, n), {n}))
      BY <2>1, <3>1 DEF AndStored
    <3>3. Holds(memory', n, L, e) /\ (n \notin torn' => L = Append(SetsAt(memory', n), {n}))
      BY <1>1, <1>3, <1>4, <1>6, <3>1, <3>2
    <3> QED
      BY <3>3 DEF AndStored
  <2> QED
    BY <2>2, <2>3, <2>4
<1> QED
  BY <1>5, <1>6 DEF NodeStored

(* A step of the callback of w.                                              *)
LEMMA CallbackStep ==
    ASSUME CInv, NEW w \in Threads, pc[w] = "call", UNCHANGED vars, Others(w),
           memory' = memory \/ (mutex = w /\ Grows(memory', memory, w)),
           CallbacksTyped', NodeStored(w)',
           callback'[w] \in {"locked", "begun", "written"} <=> mutex' = w,
           \A n \in Threads : n # w => (mutex' = n <=> mutex = n),
           callback'[w] \in {"called", "reading", "ready", "locked"} => memory'.count[w] = 0
    PROVE  CInv'
<1>1. IInv' /\ pc' = pc
  <2>1. [Next]_vars /\ pc' = pc
    BY DEF vars
  <2> QED
    BY <2>1, NextIInv DEF CInv
<1>2. OneWriter'
  BY DEF CInv, OneWriter, Others
<1>3. AtCall'
  BY <1>1 DEF CInv, AtCall, Others, Threads
<1>4. NothingYet'
  <2>1. ASSUME NEW n \in Threads, n # w
        PROVE  memory'.count[n] = memory.count[n]
    BY <2>1 DEF Grows, GrowsIn, Nodes
  <2> QED
    BY <2>1 DEF CInv, NothingYet, Others
<1>5. CutsStored'
  <2>1. \A n \in Threads : n # w => NodeStored(n)'
    BY OthersStored
  <2>2. \E e : Holds(memory', 0, <<{}>>, e)
    <3>1. PICK e : Holds(memory, 0, <<{}>>, e)
      BY DEF CInv, CutsStored
    <3>2. 0 \in Nodes /\ 0 # w /\ memory \in Memories
      BY NodesAreNot DEF Nodes, CInv, CallbacksTyped
    <3>3. Holds(memory', 0, <<{}>>, e)
      BY <3>1, <3>2, HoldsGrows
    <3> QED
      BY <3>3
  <2> QED
    BY <2>1, <2>2 DEF CutsStored
<1> QED
  BY <1>1, <1>2, <1>3, <1>4, <1>5 DEF CInv

LEMMA ContinueIs ==
    ASSUME CInv, NEW w \in Threads, NEW step, Continue(w, step)
    PROVE  /\ callback'[w] = step /\ \A n \in Threads : n # w => callback'[n] = callback[n]
           /\ DOMAIN callback' = Threads
  BY DEF CInv, CallbacksTyped, Continue

LEMMA BeginReadCInv ==
    ASSUME CInv, NEW w \in Threads, BeginRead(w), UNCHANGED vars
    PROVE  CInv'
<1> USE DEF BeginRead, In
<1>1. callback'[w] = "reading" /\ \A n \in Threads : n # w => callback'[n] = callback[n]
  BY ContinueIs
<1>2. w \notin Inputs /\ callback[w] = "called"
  BY DEF CInv, CallbacksTyped
<1>3. Others(w)
  BY <1>1 DEF Others
<1>4. CallbacksTyped'
  BY <1>1, <1>2 DEF CInv, CallbacksTyped, Continue
<1>5. NodeStored(w)'
  BY <1>1, <1>2 DEF NodeStored, ReadIsRight, RestIsRight, AndStored
<1>6. callback'[w] \in {"locked", "begun", "written"} <=> mutex' = w
  BY <1>1, <1>2 DEF CInv, OneWriter
<1>7. memory'.count[w] = 0
  BY <1>2 DEF CInv, NothingYet
<1> QED
  BY <1>3, <1>4, <1>5, <1>6, <1>7, CallbackStep

LEMMA EndReadCInv ==
    ASSUME CInv, NEW w \in Threads, EndRead(w), UNCHANGED vars
    PROVE  CInv'
<1>1. /\ callback'[w] = "ready" /\ \A n \in Threads : n # w => callback'[n] = callback[n]
      /\ pc[w] = "call" /\ callback[w] = "reading" /\ UNCHANGED <<memory, mutex, torn>>
  BY ContinueIs DEF EndRead, In
<1>2. w \in Ands
  BY <1>1 DEF CInv, CallbacksTyped, Threads
<1>3. SetsAt(memory, w) \in Seq(SUBSET Nodes)
  BY <1>1, <1>2, ReadTyped
<1>4. PICK cuts \in {SetsAt(memory, w)} \cup (IF w \in torn THEN {<<>>} ELSE {}) :
          local_cuts' = [local_cuts EXCEPT ![w] = cuts]
  BY DEF EndRead
<1>5. cuts \in Seq(SUBSET Nodes)
  <2>1. cuts = SetsAt(memory, w) \/ cuts = <<>>
    OBVIOUS
  <2>2. <<>> \in Seq(SUBSET Nodes)
    OBVIOUS
  <2> QED
    BY <1>3, <2>1, <2>2, Zenon
<1>6. w \notin torn => cuts = SetsAt(memory, w)
  OBVIOUS
<1>7. /\ local_cuts' \in [Ands -> Seq(SUBSET Nodes)] /\ local_cuts'[w] = cuts
      /\ \A n \in Ands : n # w => local_cuts'[n] = local_cuts[n]
  BY <1>2, <1>4, <1>5 DEF CInv, CallbacksTyped
<1>8. Others(w)
  BY <1>1, <1>7 DEF Others
<1>9. CallbacksTyped'
  <2>1. callback' = [callback EXCEPT ![w] = "ready"]
    BY DEF EndRead, Continue
  <2> QED
    BY <1>1, <1>7, <2>1 DEF CInv, CallbacksTyped
<1>10. NodeStored(w)'
  <2>1. w \notin Inputs
    BY <1>2, NodesAreNot
  <2>2. ReadIsRight(w)'
    BY <1>1, <1>6, <1>7 DEF ReadIsRight
  <2>3. RestIsRight(w)' /\ AndStored(w)'
    BY <1>1 DEF RestIsRight, AndStored
  <2> QED
    BY <2>1, <2>2, <2>3 DEF NodeStored
<1>11. callback'[w] \in {"locked", "begun", "written"} <=> mutex' = w
  BY <1>1 DEF CInv, OneWriter
<1>12. memory'.count[w] = 0
  BY <1>1 DEF CInv, NothingYet
<1> QED
  BY <1>1, <1>8, <1>9, <1>10, <1>11, <1>12, CallbackStep

LEMMA LockDataCInv ==
    ASSUME CInv, NEW w \in Threads, LockData(w), UNCHANGED vars
    PROVE  CInv'
<1>1. /\ callback'[w] = "locked" /\ \A n \in Threads : n # w => callback'[n] = callback[n]
      /\ pc[w] = "call" /\ callback[w] = "ready" /\ mutex = Nobody /\ mutex' = w
      /\ UNCHANGED <<memory, local_cuts, torn>>
  BY ContinueIs DEF LockData, In
<1>2. Others(w)
  BY <1>1 DEF Others
<1>3. CallbacksTyped'
  <2>1. callback' = [callback EXCEPT ![w] = "locked"]
    BY DEF LockData, Continue
  <2> QED
    BY <1>1, <2>1 DEF CInv, CallbacksTyped
<1>4. NodeStored(w)'
  <2>1. NodeStored(w)
    BY DEF CInv, CutsStored
  <2> QED
    BY <1>1, <2>1 DEF NodeStored, InputStored, ReadIsRight, RestIsRight, AndStored
<1>5. \A n \in Threads : n # w => (mutex' = n <=> mutex = n)
  BY <1>1, NodesAreNot
<1>6. memory'.count[w] = 0
  BY <1>1 DEF CInv, NothingYet
<1> QED
  BY <1>1, <1>2, <1>3, <1>4, <1>5, <1>6, CallbackStep

LEMMA UnlockDataCInv ==
    ASSUME CInv, NEW w \in Threads, UnlockData(w), UNCHANGED vars
    PROVE  CInv'
<1>1. /\ callback'[w] = "returned" /\ \A n \in Threads : n # w => callback'[n] = callback[n]
      /\ pc[w] = "call" /\ callback[w] = "written" /\ mutex' = Nobody
      /\ UNCHANGED <<memory, local_cuts, torn>>
  BY ContinueIs DEF UnlockData, In
<1>2. Others(w)
  BY <1>1 DEF Others
<1>3. CallbacksTyped'
  <2>1. callback' = [callback EXCEPT ![w] = "returned"]
    BY DEF UnlockData, Continue
  <2> QED
    BY <1>1, <2>1 DEF CInv, CallbacksTyped
<1>4. NodeStored(w)'
  <2>1. NodeStored(w)
    BY DEF CInv, CutsStored
  <2> QED
    BY <1>1, <2>1 DEF NodeStored, InputStored, ReadIsRight, RestIsRight, AndStored
<1>5. mutex = w /\ \A n \in Threads : n # w => (mutex' = n <=> mutex = n)
  BY <1>1, NodesAreNot DEF CInv, OneWriter
<1>6. mutex' # w
  BY <1>1, NodesAreNot
<1> QED
  BY <1>1, <1>2, <1>3, <1>4, <1>5, <1>6, CallbackStep

LEMMA WriteTears ==
    ASSUME NEW m, Write(m)
    PROVE  memory' = m /\ torn \subseteq torn'
  BY DEF Write

(* What writes to the memory of CutsSpec.                                     *)
LEMMA AssignHolds ==
    ASSUME NEW m \in Memories, NEW n \in Nodes, NEW es \in Seq(Nat),
           NEW S \in SUBSET Nodes, S = {es[i] : i \in 1..Len(es)}, NEW r,
           r = [PushSet(Starts(m, n), es, <<>>) EXCEPT !.count[n] = 1]
    PROVE  Grows(r, m, n) /\ Holds(r, n, <<S>>, Len(r.data))
<1>1. <<>> \in Seq(Nat) /\ Len(<<>>) = 0 /\ Nat \subseteq Nat
  OBVIOUS
<1>2. /\ GrowsIn(Nodes, 0, Nat, r, m, n)
      /\ HoldsIn(Nodes, Nat, r, n, <<S>>, <<<<>>>>, Len(r.data))
  BY <1>1, AssignHoldsIn DEF Memories
<1> QED
  BY <1>2 DEF Grows, Holds

LEMMA BeginHolds ==
    ASSUME NEW m \in Memories, NEW n \in Nodes, m.count[n] = 0, NEW r, r = Starts(m, n)
    PROVE  Grows(r, m, n) /\ Holds(r, n, <<>>, Len(r.data)) /\ r.count[n] = 0
<1>1. /\ GrowsIn(Nodes, 0, Nat, r, m, n) /\ HoldsIn(Nodes, Nat, r, n, <<>>, <<>>, Len(r.data))
      /\ r.count[n] = 0
  BY BeginHoldsIn, SMTT(40) DEF Memories
<1> QED
  BY <1>1 DEF Grows, Holds

LEMMA AppendHolds ==
    ASSUME NEW m \in Memories, NEW n \in Nodes, NEW L, Holds(m, n, L, Len(m.data)),
           NEW es \in Seq(Nat), NEW S \in SUBSET Nodes, S = {es[i] : i \in 1..Len(es)},
           NEW r, r = AppendSet(m, n, es, <<>>)
    PROVE  Grows(r, m, n) /\ Holds(r, n, Append(L, S), Len(r.data))
<1>1. <<>> \in Seq(Nat) /\ Len(<<>>) = 0 /\ Nat \subseteq Nat
  OBVIOUS
<1>2. PICK E : HoldsIn(Nodes, Nat, m, n, L, E, Len(m.data))
  BY DEF Holds
<1>3. /\ GrowsIn(Nodes, 0, Nat, r, m, n)
      /\ HoldsIn(Nodes, Nat, r, n, Append(L, S), Append(E, <<>>), Len(r.data))
  BY <1>1, <1>2, AppendHoldsIn DEF Memories
<1> QED
  BY <1>3 DEF Grows, Holds

LEMMA OneElement ==
    ASSUME NEW n \in Nodes
    PROVE  <<n>> \in Seq(Nat) /\ {n} \in SUBSET Nodes /\ {n} = {<<n>>[i] : i \in 1..Len(<<n>>)}
<1>1. n \in Nat
  BY GraphAssumption DEF Nodes, Threads
<1>2. Len(<<n>>) = 1 /\ <<n>>[1] = n /\ 1..1 = {1}
  OBVIOUS
<1> QED
  BY <1>1, <1>2

LEMMA AssignInputCInv ==
    ASSUME CInv, NEW w \in Threads, AssignInput(w), UNCHANGED vars
    PROVE  CInv'
<1>1. /\ callback'[w] = "written" /\ \A n \in Threads : n # w => callback'[n] = callback[n]
      /\ pc[w] = "call" /\ callback[w] = "locked" /\ w \in Inputs
      /\ UNCHANGED <<mutex, local_cuts>>
  BY ContinueIs DEF AssignInput, In
<1>2. memory' = AssignSingleton(memory, w, w, <<>>) /\ torn \subseteq torn'
  BY WriteTears DEF AssignInput
<1>3. memory \in Memories /\ w \in Nodes /\ memory.count[w] = 0 /\ mutex = w
  BY <1>1 DEF CInv, CallbacksTyped, NothingYet, OneWriter, Nodes
<1>4. Grows(memory', memory, w) /\ Holds(memory', w, <<{w}>>, Len(memory'.data))
  <2>1. memory' = [PushSet(Starts(memory, w), <<w>>, <<>>) EXCEPT !.count[w] = 1]
    BY <1>2 DEF AssignSingleton
  <2> QED
    BY <1>3, <2>1, OneElement, AssignHolds
<1>5. Others(w)
  BY <1>1, <1>2 DEF Others
<1>6. CallbacksTyped'
  <2>1. callback' = [callback EXCEPT ![w] = "written"]
    BY DEF AssignInput, Continue
  <2> QED
    BY <1>1, <1>4, <2>1 DEF CInv, CallbacksTyped, Grows, GrowsIn, Memories
<1>7. NodeStored(w)'
  BY <1>1, <1>4, NodesAreNot DEF NodeStored, InputStored
<1> QED
  BY <1>1, <1>3, <1>4, <1>5, <1>6, <1>7, CallbackStep

LEMMA BeginNodeCInv ==
    ASSUME CInv, NEW w \in Threads, BeginNode(w), UNCHANGED vars
    PROVE  CInv'
<1>1. /\ callback'[w] = "begun" /\ \A n \in Threads : n # w => callback'[n] = callback[n]
      /\ pc[w] = "call" /\ callback[w] = "locked" /\ w \in Ands
      /\ UNCHANGED <<mutex, local_cuts>>
  BY ContinueIs DEF BeginNode, In
<1>2. memory' = Starts(memory, w) /\ torn \subseteq torn'
  BY WriteTears DEF BeginNode, AppendBegin
<1>3. memory \in Memories /\ w \in Nodes /\ memory.count[w] = 0 /\ mutex = w
  BY <1>1 DEF CInv, CallbacksTyped, NothingYet, OneWriter, Nodes
<1>4. /\ Grows(memory', memory, w) /\ Holds(memory', w, <<>>, Len(memory'.data))
      /\ memory'.count[w] = 0
  BY <1>2, <1>3, BeginHolds
<1>5. memory' \in Memories
  BY <1>4 DEF Grows, GrowsIn, Memories
<1>6. Others(w)
  BY <1>1, <1>2 DEF Others
<1>7. CallbacksTyped'
  <2>1. callback' = [callback EXCEPT ![w] = "begun"]
    BY DEF BeginNode, Continue
  <2> QED
    BY <1>1, <1>5, <2>1, NodesAreNot DEF CInv, CallbacksTyped
<1>8. RestIsRight(w)'
  <2>1. ASSUME w \notin torn'
        PROVE  <<>> \o local_cuts'[w] = SetsAt(memory', w)
    <3>1. w \notin torn
      BY <1>2, <2>1
    <3>2. local_cuts[w] = SetsAt(memory, w)
      BY <1>1, <3>1 DEF CInv, CutsStored, NodeStored, ReadIsRight
    <3>3. SetsAt(memory', w) = SetsAt(memory, w)
      BY <1>1, <1>3, <1>4, ReadStays
    <3>4. local_cuts[w] \in Seq(SUBSET Nodes)
      BY <1>1 DEF CInv, CallbacksTyped
    <3>5. <<>> \o local_cuts[w] = local_cuts[w]
      BY <3>4
    <3> QED
      BY <1>1, <3>2, <3>3, <3>5
  <2> QED
    BY <1>4, <2>1 DEF RestIsRight
<1>9. NodeStored(w)'
  <2>1. w \notin Inputs
    BY <1>1, NodesAreNot
  <2>2. ReadIsRight(w)' /\ AndStored(w)'
    BY <1>1 DEF ReadIsRight, AndStored
  <2> QED
    BY <1>8, <2>1, <2>2 DEF NodeStored
<1> QED
  BY <1>1, <1>3, <1>4, <1>6, <1>7, <1>9, CallbackStep

LEMMA AscendingIsSet ==
    ASSUME NEW S \in SUBSET Nodes
    PROVE  Ascending(S) \in Seq(Nat) /\ S = {Ascending(S)[i] : i \in 1..Len(Ascending(S))}
<1>1. IsFiniteSet(S) /\ S \subseteq Nat
  <2>1. IsFiniteSet(Nodes) /\ Nodes \subseteq Nat
    BY CutsAssumption, GraphAssumption DEF Nodes, Threads
  <2> QED
    BY <2>1, FS_Subset
<1> QED
  BY <1>1, AscendingIs

(* One element moves from what is left to what is appended. *)
LEMMA HeadMoves ==
    ASSUME NEW X, NEW s \in Seq(X), NEW t \in Seq(X), t # <<>>
    PROVE  Head(t) \in X /\ Tail(t) \in Seq(X) /\ Append(s, Head(t)) \o Tail(t) = s \o t
  OBVIOUS

LEMMA AppendCutCInv ==
    ASSUME CInv, NEW w \in Threads, AppendCut(w), UNCHANGED vars
    PROVE  CInv'
<1> DEFINE rest == local_cuts[w]
<1>1. /\ w \in Ands /\ pc[w] = "call" /\ callback[w] = "begun" /\ rest # <<>>
      /\ UNCHANGED <<mutex, callback>> /\ local_cuts' = [local_cuts EXCEPT ![w] = Tail(rest)]
  BY DEF AppendCut, In
<1>2. memory' = AppendSet(memory, w, Ascending(Head(rest)), <<>>) /\ torn \subseteq torn'
  BY WriteTears DEF AppendCut
<1>3. /\ memory \in Memories /\ w \in Nodes /\ mutex = w /\ rest \in Seq(SUBSET Nodes)
      /\ local_cuts \in [Ands -> Seq(SUBSET Nodes)]
  BY <1>1 DEF CInv, CallbacksTyped, OneWriter, Nodes
<1>4. PICK L : /\ Holds(memory, w, L, Len(memory.data))
               /\ w \notin torn => L \o rest = SetsAt(memory, w)
  BY <1>1 DEF CInv, CutsStored, NodeStored, RestIsRight
<1> HIDE DEF rest
<1>5. L \in Seq(SUBSET Nodes)
  BY <1>4 DEF Holds, HoldsIn
<1>6. Head(rest) \in SUBSET Nodes /\ Tail(rest) \in Seq(SUBSET Nodes)
      /\ Append(L, Head(rest)) \o Tail(rest) = L \o rest
  BY <1>1, <1>3, <1>5, HeadMoves
<1>7. Grows(memory', memory, w) /\ Holds(memory', w, Append(L, Head(rest)), Len(memory'.data))
  BY <1>2, <1>3, <1>4, <1>6, AscendingIsSet, AppendHolds
<1>8. /\ local_cuts' \in [Ands -> Seq(SUBSET Nodes)] /\ local_cuts'[w] = Tail(rest)
      /\ \A n \in Ands : n # w => local_cuts'[n] = local_cuts[n]
  BY <1>1, <1>3, <1>6
<1>9. Others(w)
  BY <1>1, <1>2, <1>8 DEF Others
<1>10. CallbacksTyped'
  BY <1>1, <1>7, <1>8 DEF CInv, CallbacksTyped, Grows, GrowsIn, Memories
<1>11. RestIsRight(w)'
  <2>1. ASSUME w \notin torn'
        PROVE  Append(L, Head(rest)) \o local_cuts'[w] = SetsAt(memory', w)
    <3>1. L \o rest = SetsAt(memory, w)
      BY <1>2, <1>4, <2>1
    <3>2. SetsAt(memory', w) = SetsAt(memory, w)
      BY <1>1, <1>3, <1>7, ReadStays
    <3> QED
      BY <1>6, <1>8, <3>1, <3>2
  <2> QED
    BY <1>7, <2>1 DEF RestIsRight
<1>12. NodeStored(w)'
  <2>1. w \notin Inputs
    BY <1>1, NodesAreNot
  <2>2. ReadIsRight(w)' /\ AndStored(w)'
    BY <1>1 DEF ReadIsRight, AndStored
  <2> QED
    BY <1>11, <2>1, <2>2 DEF NodeStored
<1> QED
  BY <1>1, <1>3, <1>7, <1>9, <1>10, <1>12, CallbackStep

LEMMA AppendOwnCInv ==
    ASSUME CInv, NEW w \in Threads, AppendOwn(w), UNCHANGED vars
    PROVE  CInv'
<1>1. /\ callback'[w] = "written" /\ \A n \in Threads : n # w => callback'[n] = callback[n]
      /\ pc[w] = "call" /\ callback[w] = "begun" /\ w \in Ands /\ local_cuts[w] = <<>>
      /\ UNCHANGED <<mutex, local_cuts>>
  BY ContinueIs DEF AppendOwn, In
<1>2. memory' = AppendSet(memory, w, <<w>>, <<>>) /\ torn \subseteq torn'
  BY WriteTears DEF AppendOwn, AppendSingleton
<1>3. memory \in Memories /\ w \in Nodes /\ mutex = w
  BY <1>1 DEF CInv, CallbacksTyped, OneWriter, Nodes
<1>4. PICK L : /\ Holds(memory, w, L, Len(memory.data))
               /\ w \notin torn => L \o local_cuts[w] = SetsAt(memory, w)
  BY <1>1 DEF CInv, CutsStored, NodeStored, RestIsRight
<1>5. Grows(memory', memory, w) /\ Holds(memory', w, Append(L, {w}), Len(memory'.data))
  BY <1>2, <1>3, <1>4, OneElement, AppendHolds
<1>6. Others(w)
  BY <1>1, <1>2 DEF Others
<1>7. CallbacksTyped'
  <2>1. callback' = [callback EXCEPT ![w] = "written"]
    BY DEF AppendOwn, Continue
  <2> QED
    BY <1>1, <1>5, <2>1 DEF CInv, CallbacksTyped, Grows, GrowsIn, Memories
<1>8. AndStored(w)'
  <2>1. ASSUME w \notin torn'
        PROVE  L = SetsAt(memory', w)
    <3>1. L \o <<>> = SetsAt(memory, w)
      BY <1>1, <1>2, <1>4, <2>1
    <3>2. SetsAt(memory', w) = SetsAt(memory, w)
      BY <1>1, <1>3, <1>5, ReadStays
    <3>3. L \in Seq(SUBSET Nodes)
      BY <1>4 DEF Holds, HoldsIn
    <3>4. L \o <<>> = L
      BY <3>3
    <3> QED
      BY <3>1, <3>2, <3>4
  <2>2. w \notin torn' => Append(L, {w}) = Append(SetsAt(memory', w), {w})
    BY <2>1
  <2> QED
    BY <1>5, <2>2 DEF AndStored
<1>9. NodeStored(w)'
  <2>1. w \notin Inputs
    BY <1>1, NodesAreNot
  <2>2. ReadIsRight(w)' /\ RestIsRight(w)'
    BY <1>1 DEF ReadIsRight, RestIsRight
  <2> QED
    BY <1>8, <2>1, <2>2 DEF NodeStored
<1> QED
  BY <1>1, <1>3, <1>5, <1>6, <1>7, <1>9, CallbackStep

LEMMA CallbackCInv ==
    ASSUME CInv, NEW w \in Threads, Callback(w), UNCHANGED vars
    PROVE  CInv'
  BY BeginReadCInv, EndReadCInv, LockDataCInv, AssignInputCInv, BeginNodeCInv,
     AppendCutCInv, AppendOwnCInv, UnlockDataCInv DEF Callback
-------------------------------------------------------------------------------
(* The steps of the threads outside of their callbacks.                      *)
CallReached == {"call", "publish", "stores", "notify", "done"}

CallLeft == {"publish", "stores", "notify", "done"}

(* The steps of threads go on from "call" only when the callback has returned. *)
Orderly ==
    \A n \in Threads : /\ pc'[n] \in CallLeft => pc[n] \in CallLeft \/ callback[n] = "returned"
                       /\ pc[n] \in CallReached => pc'[n] \in CallReached

(* Threads outside of their callbacks do not touch the memory. *)
LEMMA QuietCInv ==
    ASSUME CInv, IInv', Orderly, UNCHANGED cutVars
    PROVE  CInv'
<1> USE DEF cutVars
<1>1. CallbacksTyped' /\ OneWriter' /\ NothingYet'
  BY DEF CInv, CallbacksTyped, OneWriter, NothingYet
<1>2. AtCall'
  BY DEF CInv, AtCall, Orderly, CallReached, CallLeft, Threads
<1>3. CutsStored'
  <2>1. ASSUME NEW n \in Threads
        PROVE  NodeStored(n)'
    <3>1. NodeStored(n)
      BY DEF CInv, CutsStored
    <3>2. SetsAt(memory', n) = SetsAt(memory, n)
      OBVIOUS
    <3> QED
      BY <3>1, <3>2 DEF NodeStored, InputStored, ReadIsRight, RestIsRight, AndStored
  <2> QED
    BY <2>1 DEF CInv, CutsStored
<1> QED
  BY <1>1, <1>2, <1>3 DEF CInv

LEMMA GotoOrderly ==
    ASSUME TypeOK, NEW n \in Threads, NEW label, Goto(n, label),
           label \in CallLeft => pc[n] \in CallLeft \/ callback[n] = "returned",
           pc[n] \in CallReached => label \in CallReached
    PROVE  Orderly
<1>1. pc'[n] = label /\ \A m \in Threads : m # n => pc'[m] = pc[m]
  BY DEF TypeOK, Goto
<1> QED
  BY <1>1 DEF Orderly, CallLeft, CallReached

LEMMA StayOrderly == pc' = pc => Orderly
  BY DEF Orderly

LEMMA WaitingOrderly ==
    ASSUME TypeOK, NEW n \in Ands, Wakes(n) \/ SpuriousWake(n)
    PROVE  Orderly
<1> USE DEF CallLeft, CallReached
<1>1. n \in Threads
  BY DEF Threads
<1>2. CASE Lock(n)
  BY <1>1, <1>2, GotoOrderly DEF Lock
<1>3. CASE TestSet(n)
  <2>1. /\ pc[n] = "test"
        /\ Goto(n, IF at[n] = 1 THEN "lock" ELSE "call")
    BY <1>3 DEF TestSet
  <2> QED
    BY <1>1, <2>1, GotoOrderly
<1>4. CASE TestClear(n)
  BY <1>1, <1>4, GotoOrderly DEF TestClear
<1>5. CASE Sleep(n)
  BY <1>1, <1>5, GotoOrderly DEF Sleep
<1>6. CASE SpuriousWake(n)
  BY <1>1, <1>6, GotoOrderly DEF SpuriousWake
<1> QED
  BY <1>2, <1>3, <1>4, <1>5, <1>6 DEF Wakes

LEMMA PublishingOrderly ==
    ASSUME TypeOK, NEW n \in Threads, Spawn(n) \/ (Publishes(n) /\ callback[n] = "returned")
    PROVE  Orderly
<1> USE DEF CallLeft, CallReached
<1>1. CASE Spawn(n)
  <2>1. pc[n] = "none" /\ Goto(n, IF n \in Inputs THEN "call" ELSE "lock")
    BY <1>1 DEF Spawn
  <2> QED
    BY <2>1, GotoOrderly
<1>2. CASE Call(n) /\ callback[n] = "returned"
  BY <1>2, GotoOrderly DEF Call
<1>3. CASE LockVector(n) /\ callback[n] = "returned"
  BY <1>3, GotoOrderly DEF LockVector
<1>4. CASE StoreValue(n) \/ LoadBlock(n) \/ StoreBlock(n)
  BY <1>4, StayOrderly DEF StoreValue, LoadBlock, StoreBlock
<1>5. CASE UnlockVector(n) /\ callback[n] = "returned"
  BY <1>5, GotoOrderly DEF UnlockVector
<1>6. CASE Notify(n) /\ callback[n] = "returned"
  <2>1. \A m \in Threads : pc'[m] = IF m = n THEN "done"
                                    ELSE IF m \in Sleepers(n) THEN "lock" ELSE pc[m]
    BY <1>6 DEF Notify
  <2>2. \A m \in Sleepers(n) : pc[m] = "waiting"
    BY DEF Sleepers
  <2> QED
    BY <1>6, <2>1, <2>2 DEF Orderly
<1> QED
  BY <1>1, <1>2, <1>3, <1>4, <1>5, <1>6 DEF Publishes

LEMMA InitCInv == CutsInit => CInv
<1> SUFFICES ASSUME CutsInit PROVE CInv
  OBVIOUS
<1> USE DEF CutsInit
<1>1. IInv
  BY InitIInv
<1> DEFINE z == Cardinality(Nodes)
           m == Memory(z, 0)
<1>2. z \in Nat /\ Nodes = 0..z - 1 /\ 0 \in Nodes
  BY CutsAssumption, FS_CardinalityType DEF Nodes
<1>3. m \in Memories /\ m.count[0] = 0 /\ \A n \in Nodes : m.count[n] = 0
  <2> HIDE DEF z
  <2> DEFINE empty == <<>>
             room == 2 * z
             zero == [i \in 0..z - 1 |-> 0]
  <2>1. empty \in Seq(Nat) /\ room \in Nat
    BY <1>2
  <2>2. zero \in [Nodes -> Nat] /\ \A n \in Nodes : zero[n] = 0
    BY <1>2
  <2>3. m = [data |-> empty, capacity |-> room, additional |-> 0, offset |-> zero, count |-> zero]
    BY DEF Memory
  <2> HIDE DEF m, empty, room, zero
  <2>4. m \in Memories
    BY <2>1, <2>2, <2>3 DEF Memories, MemoriesIn
  <2>5. m.count = zero
    BY <2>3
  <2> QED
    BY <1>2, <2>2, <2>4, <2>5
<1>4. memory = [PushSet(Starts(m, 0), <<>>, <<>>) EXCEPT !.count[0] = 1]
  BY DEF AssignEmpty
<1> HIDE DEF m, z
<1>5. <<>> \in Seq(Nat) /\ {} \in SUBSET Nodes /\ {} = {<<>>[i] : i \in 1..Len(<<>>)}
  OBVIOUS
<1>6. Grows(memory, m, 0) /\ Holds(memory, 0, <<{}>>, Len(memory.data))
  BY <1>2, <1>3, <1>4, <1>5, AssignHolds
<1>7. memory \in Memories /\ \A n \in Threads : memory.count[n] = 0
  BY <1>3, <1>6, NodesAreNot DEF Grows, GrowsIn, Memories, Nodes
<1>8. \A n \in Threads : callback[n] \in {"ready", "called"} /\ (callback[n] = "ready" => n \in Inputs)
  OBVIOUS
<1>9. CallbacksTyped
  <2>1. <<>> \in Seq(SUBSET Nodes)
    OBVIOUS
  <2>2. local_cuts \in [Ands -> Seq(SUBSET Nodes)]
    BY <2>1
  <2>3. mutex \in Threads \cup {Nobody}
    OBVIOUS
  <2>4. \A n \in Inputs : callback[n] = "ready"
    BY DEF Threads
  <2> QED
    BY <1>7, <2>2, <2>3, <2>4 DEF CallbacksTyped
<1>10. OneWriter /\ NothingYet
  BY <1>7, <1>8, NodesAreNot DEF OneWriter, NothingYet
<1>11. AtCall
  BY <1>8, NodesAreNot DEF AtCall, Init, Threads
<1>12. CutsStored
  BY <1>6, <1>8, NodesAreNot DEF CutsStored, NodeStored, InputStored, ReadIsRight, RestIsRight, AndStored
<1> QED
  BY <1>1, <1>9, <1>10, <1>11, <1>12 DEF CInv

LEMMA NextCInv == CInv /\ [CutsNext]_allVars => CInv'
<1> SUFFICES ASSUME CInv, [CutsNext]_allVars PROVE CInv'
  OBVIOUS
<1>1. TypeOK /\ IInv
  BY DEF CInv, IInv
<1>2. ASSUME NEW n \in Threads, Callback(n), UNCHANGED vars
      PROVE  CInv'
  BY <1>2, CallbackCInv
<1>3. ASSUME NEW n \in Ands, Wakes(n) \/ SpuriousWake(n), UNCHANGED cutVars
      PROVE  CInv'
  <2>1. IInv'
    BY <1>1, <1>3, NextIInv DEF Next
  <2> QED
    BY <1>1, <1>3, <2>1, WaitingOrderly, QuietCInv
<1>4. ASSUME NEW n \in Threads, Spawn(n) \/ (Publishes(n) /\ callback[n] = "returned"),
             UNCHANGED cutVars
      PROVE  CInv'
  <2>1. IInv'
    BY <1>1, <1>4, NextIInv DEF Next
  <2> QED
    BY <1>1, <1>4, <2>1, PublishingOrderly, QuietCInv
<1>5. ASSUME JoinAll \/ Terminated, UNCHANGED cutVars
      PROVE  CInv'
  <2>1. IInv'
    BY <1>1, <1>5, NextIInv DEF Next
  <2>2. pc' = pc
    BY <1>5 DEF JoinAll, Terminated, vars
  <2> QED
    BY <1>5, <2>1, <2>2, StayOrderly, QuietCInv
<1>6. ASSUME UNCHANGED allVars
      PROVE  CInv'
  <2>1. UNCHANGED vars /\ UNCHANGED cutVars
    BY <1>6 DEF allVars
  <2>2. IInv'
    BY <1>1, <2>1, NextIInv
  <2>3. pc' = pc
    BY <2>1 DEF vars
  <2> QED
    BY <2>1, <2>2, <2>3, StayOrderly, QuietCInv
<1> QED
  BY <1>2, <1>3, <1>4, <1>5, <1>6 DEF CutsNext

(* In the parallel enumeration every node whose read of its children was not   *)
(* overtaken by a reallocation has, when its callback has returned, the cuts    *)
(* that the sequential enumeration computes from those of its children, in      *)
(* the same order: no append of another thread moves, splits or overwrites them. *)
THEOREM ParallelCutsAreSequential == CutsSpec => []ParallelIsSequential
  BY InitCInv, NextCInv, CInvImplies, PTL DEF CutsSpec

(* The callbacks of enumerate_parallel run after those of the node's children,  *)
(* whatever they take: on_and reads cuts that are there.                      *)
THEOREM CutsInOrder == CutsSpec => []ChildrenFirst
<1>1. CInv => ChildrenFirst
  BY DEF CInv, IInv
<1> QED
  BY <1>1, InitCInv, NextCInv, PTL DEF CutsSpec
-------------------------------------------------------------------------------
(* The sequential enumeration of CutEnumeration.  First what a cut is: the     *)
(* function that IsCut defines exists, and cuts of the children are one of the  *)
(* node.                                                                    *)
IsGraph ==
    /\ \E top \in Nat : Vertices = 0..top
    /\ graph.children \in [Vertices -> Seq(Vertices)]
    /\ Children(0) = <<>>
    /\ \A n \in Vertices : \A i \in DOMAIN Children(n) : Children(n)[i] < n

IsCovered(f, cut, m) ==
    m \in cut \cup {0} \/ (m \in Gates /\ \A i \in DOMAIN Children(m) : f[Children(m)[i]])

Covers(f, cut) == f = [m \in Vertices |-> IsCovered(f, cut, m)]

LEMMA ChildrenBelow ==
    ASSUME IsGraph, NEW n \in Vertices
    PROVE  /\ n \in Nat /\ 0 \in Vertices /\ Children(n) \in Seq(Vertices)
           /\ DOMAIN Children(n) = 1..Len(Children(n)) /\ Len(Children(n)) \in Nat
           /\ \A i \in DOMAIN Children(n) : Children(n)[i] \in Vertices /\ Children(n)[i] < n
<1>1. Children(n) \in Seq(Vertices)
  BY DEF IsGraph, Children
<1>2. n \in Nat /\ 0 \in Vertices
  BY DEF IsGraph
<1>3. \A i \in DOMAIN Children(n) : Children(n)[i] < n
  BY DEF IsGraph
<1> QED
  BY <1>1, <1>2, <1>3

(* The nodes that are in every set closed under the rules are covered.        *)
LEMMA CoverExists ==
    ASSUME IsGraph, NEW cut
    PROVE  \E f : Covers(f, cut)
<1> DEFINE CutOff(S, m) == m \in cut \cup {0} \/ (m \in Gates /\ \A i \in DOMAIN Children(m) : Children(m)[i] \in S)
           Closed(S) == \A m \in Vertices : CutOff(S, m) => m \in S
           K == {m \in Vertices : \A S \in SUBSET Vertices : Closed(S) => m \in S}
           f == [m \in Vertices |-> m \in K]
<1>1. \A S, T, m : S \subseteq T /\ CutOff(S, m) => CutOff(T, m)
  OBVIOUS
<1>2. \A S \in SUBSET Vertices : Closed(S) => K \subseteq S
  OBVIOUS
<1>3. Closed(K)
  <2> SUFFICES ASSUME NEW m \in Vertices, CutOff(K, m), NEW S \in SUBSET Vertices, Closed(S)
               PROVE  m \in S
    OBVIOUS
  <2>1. K \subseteq S
    BY <1>2
  <2> HIDE DEF K
  <2>2. CutOff(S, m)
    BY <1>1, <2>1
  <2> HIDE DEF CutOff
  <2> QED
    BY <2>2
<1>4. \A m \in K : CutOff(K, m)
  <2> SUFFICES ASSUME NEW m \in K, ~CutOff(K, m) PROVE FALSE
    OBVIOUS
  <2> DEFINE S == K \ {m}
  <2>1. S \in SUBSET Vertices /\ S \subseteq K /\ m \notin S
    OBVIOUS
  <2>2. Closed(S)
    <3> SUFFICES ASSUME NEW x \in Vertices, CutOff(S, x) PROVE x \in S
      OBVIOUS
    <3>1. CutOff(K, x)
      <4> HIDE DEF K
      <4> QED
        BY <1>1
    <3>2. x \in K /\ x # m
      <4> HIDE DEF CutOff, K
      <4> QED
        BY <1>3, <3>1
    <3> QED
      BY <3>2
  <2>3. K \subseteq S
    <3> HIDE DEF Closed, K
    <3> QED
      BY <1>2, <2>1, <2>2
  <2> QED
    BY <2>1, <2>3
<1> HIDE DEF K
<1>5. K \subseteq Vertices
  BY DEF K
<1>6. \A m \in Vertices : m \in K <=> CutOff(K, m)
  <2> HIDE DEF CutOff
  <2> QED
    BY <1>3, <1>4
<1>7. \A m \in Vertices : f[m] = (m \in K) /\ f[m] \in BOOLEAN
  OBVIOUS
<1>8. ASSUME NEW m \in Vertices
      PROVE  f[m] = IsCovered(f, cut, m)
  <2>1. \A i \in DOMAIN Children(m) : f[Children(m)[i]] = (Children(m)[i] \in K)
    BY <1>7, ChildrenBelow
  <2>2. IsCovered(f, cut, m) <=> CutOff(K, m)
    <3> HIDE DEF f
    <3> QED
      BY <2>1, Zenon DEF IsCovered
  <2>3. IsCovered(f, cut, m) \in BOOLEAN
    BY DEF IsCovered
  <2>4. f[m] <=> IsCovered(f, cut, m)
    <3> HIDE DEF f, CutOff
    <3> QED
      BY <1>6, <1>7, <2>2
  <2> HIDE DEF f
  <2> QED
    BY <1>7, <2>3, <2>4
<1>9. f = [m \in Vertices |-> f[m]]
  OBVIOUS
<1> HIDE DEF f
<1>10. [m \in Vertices |-> f[m]] = [m \in Vertices |-> IsCovered(f, cut, m)]
  BY <1>8
<1>11. Covers(f, cut)
  BY <1>9, <1>10, Zenon DEF Covers
<1> QED
  BY <1>11

(* A node is cut off if it is in the cut or the constant or all its children are. *)
LEMMA CutIs ==
    ASSUME IsGraph, NEW cut, NEW n \in Vertices
    PROVE  /\ IsCut(n, cut) \in BOOLEAN
           /\ IsCut(n, cut) <=>
                  \/ n \in cut \cup {0}
                  \/ n \in Gates /\ \A i \in DOMAIN Children(n) : IsCut(Children(n)[i], cut)
<1> DEFINE f == CHOOSE f : Covers(f, cut)
<1>1. Covers(f, cut)
  BY CoverExists, Zenon
<1>2. \A m : IsCut(m, cut) = f[m]
  BY Zenon DEF IsCut, Covers, IsCovered
<1> HIDE DEF f
<1>3. f[n] = IsCovered(f, cut, n)
  BY <1>1 DEF Covers
<1>4. IsCut(n, cut) = IsCovered(f, cut, n)
  BY <1>2, <1>3
<1>5. IsCovered(f, cut, n) \in BOOLEAN
  BY DEF IsCovered
<1>6. IsCovered(f, cut, n) <=>
          \/ n \in cut \cup {0}
          \/ n \in Gates /\ \A i \in DOMAIN Children(n) : IsCut(Children(n)[i], cut)
  BY <1>2, Zenon DEF IsCovered
<1> QED
  BY <1>4, <1>5, <1>6, Zenon

(* More nodes cut off what fewer do. *)
LEMMA CutGrows ==
    ASSUME IsGraph, NEW a, NEW b, a \subseteq b, NEW n \in Vertices, IsCut(n, a)
    PROVE  IsCut(n, b)
<1> DEFINE T == {m \in Vertices : IsCut(m, a) /\ ~IsCut(m, b)}
<1>1. T = {}
  <2> SUFFICES ASSUME T # {} PROVE FALSE
    OBVIOUS
  <2>0. T \subseteq Nat
    BY ChildrenBelow
  <2>1. PICK m \in T : \A j \in T : m <= j
    BY <2>0, Least, Zenon
  <2>2. m \in Vertices /\ IsCut(m, a) /\ ~IsCut(m, b) /\ m \in Nat
    BY <2>0
  <2>3. /\ m \in a \cup {0} \/ (m \in Gates /\ \A i \in DOMAIN Children(m) : IsCut(Children(m)[i], a))
        /\ ~(m \in b \cup {0})
        /\ ~(m \in Gates /\ \A i \in DOMAIN Children(m) : IsCut(Children(m)[i], b))
    BY <2>2, CutIs, Zenon
  <2>4. m \in Gates /\ \A i \in DOMAIN Children(m) : IsCut(Children(m)[i], a)
    BY <2>3
  <2>5. PICK i \in DOMAIN Children(m) : ~IsCut(Children(m)[i], b)
    BY <2>3, <2>4
  <2>6. Children(m)[i] \in Vertices /\ Children(m)[i] < m
    BY <2>2, ChildrenBelow
  <2>7. Children(m)[i] \in T
    BY <2>4, <2>5, <2>6
  <2>8. m <= Children(m)[i] /\ Children(m)[i] \in Nat
    BY <2>0, <2>1, <2>7
  <2> QED
    BY <2>2, <2>6, <2>8
<1> QED
  BY <1>1

-------------------------------------------------------------------------------
(* The largest and the smallest number of a set. *)
LEMMA LargestIs ==
    ASSUME NEW S, S \subseteq Nat, S # {}, NEW b \in Nat, \A y \in S : y <= b
    PROVE  SetExt!Max(S) \in S /\ \A y \in S : y <= SetExt!Max(S)
<1> DEFINE T == {u \in Nat : \A y \in S : y <= u}
<1>1. PICK u \in T : \A j \in T : u <= j
  <2>1. b \in T /\ T \subseteq Nat
    OBVIOUS
  <2> HIDE DEF T
  <2> QED
    BY <2>1, Least
<1>2. u \in S
  <2> SUFFICES ASSUME u \notin S PROVE FALSE
    OBVIOUS
  <2>1. u \in Nat /\ \A y \in S : y \in Nat /\ y <= u /\ y # u
    BY <1>1
  <2> HIDE DEF T
  <2>2. PICK y \in S : y \in Nat /\ y <= u /\ y # u
    BY <2>1
  <2>3. u - 1 \in Nat /\ ~ u <= u - 1
    BY <2>1, <2>2
  <2>4. \A z \in S : z <= u - 1
    <3> TAKE z \in S
    <3>1. z \in Nat /\ z <= u /\ z # u /\ u \in Nat
      BY <2>1
    <3> QED
      BY ONLY <3>1
  <2>5. u - 1 \in T
    BY <2>3, <2>4 DEF T
  <2> QED
    BY <1>1, <2>3, <2>5
<1>3. \E x \in S : \A y \in S : x >= y
  BY <1>1, <1>2
<1>4. SetExt!Max(S) \in S /\ \A y \in S : SetExt!Max(S) >= y
  BY <1>3, Zenon DEF SetExt!Max
<1> QED
  BY <1>4

LEMMA SmallestIs ==
    ASSUME NEW S, S \subseteq Nat, S # {}
    PROVE  /\ SetExt!Min(S) \in S /\ \A y \in S : SetExt!Min(S) <= y
           /\ SeqExt!Min(S) \in S /\ \A y \in S : SeqExt!Min(S) <= y
<1>1. \E x \in S : \A y \in S : x =< y
  BY Least
<1>2. SetExt!Min(S) \in S /\ \A y \in S : SetExt!Min(S) =< y
  BY <1>1, Zenon DEF SetExt!Min
<1>3. SeqExt!Min(S) \in S /\ \A y \in S : SeqExt!Min(S) =< y
  BY <1>1, Zenon DEF SeqExt!Min
<1> QED
  BY <1>2, <1>3

(* A recursion over a graph that counts the steps of the longest path down to   *)
(* some base, which the nodes without children belong to, has a solution.      *)
NextLongest(ch, base, g, n) ==
    IF n \in base THEN 0 ELSE 1 + SetExt!Max({g[ch[n][i]] : i \in DOMAIN ch[n]})

Descends(top, ch, base) ==
    /\ ch \in [0..top -> Seq(0..top)]
    /\ \A n \in 0..top : (\A i \in DOMAIN ch[n] : ch[n][i] < n) /\ (ch[n] = <<>> => n \in base)

IsLongest(top, ch, base, f) == f = [n \in 0..top |-> NextLongest(ch, base, f, n)]

LEMMA LongestNext ==
    ASSUME NEW top \in Nat, NEW ch, NEW base, Descends(top, ch, base), NEW n \in 0..top, NEW g,
           \A c \in 0..n - 1 : g[c] \in Nat /\ g[c] <= c
    PROVE  /\ NextLongest(ch, base, g, n) \in Nat /\ NextLongest(ch, base, g, n) <= n
           /\ n \notin base =>
                /\ \E i \in DOMAIN ch[n] : NextLongest(ch, base, g, n) = 1 + g[ch[n][i]]
                /\ \A i \in DOMAIN ch[n] : NextLongest(ch, base, g, n) > g[ch[n][i]]
<1>1. CASE n \in base
  BY <1>1 DEF NextLongest
<1>2. CASE n \notin base
  <2> DEFINE S == {g[ch[n][i]] : i \in DOMAIN ch[n]}
  <2>1. /\ ch[n] \in Seq(0..top) /\ ch[n] # <<>>
        /\ \A i \in DOMAIN ch[n] : ch[n][i] < n
    BY <1>2 DEF Descends
  <2>2. \A i \in DOMAIN ch[n] : ch[n][i] \in 0..n - 1
    <3> TAKE i \in DOMAIN ch[n]
    <3>1. ch[n][i] \in 0..top /\ ch[n][i] < n
      BY <2>1
    <3> QED
      BY <3>1
  <2>3. \A i \in DOMAIN ch[n] : g[ch[n][i]] \in Nat /\ g[ch[n][i]] <= n - 1
    <3> TAKE i \in DOMAIN ch[n]
    <3> DEFINE c == ch[n][i]
    <3>1. c \in 0..n - 1
      BY <2>2
    <3> HIDE DEF c
    <3>2. g[c] \in Nat /\ g[c] <= c /\ c <= n - 1 /\ c \in Nat
      BY <3>1
    <3>3. g[c] <= n - 1
      BY <3>2
    <3> QED
      BY <3>2, <3>3 DEF c
  <2>4. DOMAIN ch[n] # {} /\ n - 1 \in Nat
    <3>1. 1 \in DOMAIN ch[n]
      <4> DEFINE s == ch[n]
      <4>1. s \in Seq(0..top) /\ s # <<>>
        BY <2>1
      <4> HIDE DEF s
      <4>2. 1 \in DOMAIN s
        BY <4>1, EmptySeq
      <4> QED
        BY <4>2 DEF s
    <3>2. ch[n][1] \in 0..n - 1
      BY <2>2, <3>1
    <3> QED
      BY <3>1, <3>2
  <2>5. S \subseteq Nat /\ S # {} /\ \A y \in S : y <= n - 1
    BY <2>3, <2>4
  <2> HIDE DEF S
  <2>6. SetExt!Max(S) \in S /\ \A y \in S : y <= SetExt!Max(S)
    BY <2>4, <2>5, LargestIs
  <2>7. NextLongest(ch, base, g, n) = 1 + SetExt!Max(S)
    BY <1>2 DEF NextLongest, S
  <2> DEFINE m == SetExt!Max(S)
  <2>8. m \in Nat /\ m <= n - 1
    BY <2>5, <2>6
  <2>9. \E i \in DOMAIN ch[n] : m = g[ch[n][i]]
    BY <2>6 DEF S
  <2>10. \A i \in DOMAIN ch[n] : g[ch[n][i]] <= m /\ g[ch[n][i]] \in Nat
    BY <2>3, <2>6 DEF S
  <2> HIDE DEF m
  <2>11. 1 + m \in Nat /\ 1 + m <= n /\ \A i \in DOMAIN ch[n] : 1 + m > g[ch[n][i]]
    BY <2>4, <2>8, <2>10
  <2> QED
    BY <2>7, <2>9, <2>11 DEF m
<1> QED
  BY <1>1, <1>2

LEMMA LongestExists ==
    ASSUME NEW top \in Nat, NEW ch, NEW base, Descends(top, ch, base)
    PROVE  \E f : IsLongest(top, ch, base, f)
<1> DEFINE Solves(g, m) == \A n \in 0..m : g[n] \in Nat /\ g[n] <= n /\ g[n] = NextLongest(ch, base, g, n)
           T == {m \in 0..top : ~\E g : Solves(g, m)}
<1>1. ASSUME NEW g, NEW h, NEW n \in 0..top, \A c \in 0..n - 1 : h[c] = g[c]
      PROVE  NextLongest(ch, base, h, n) = NextLongest(ch, base, g, n)
  <2>1. \A i \in DOMAIN ch[n] : ch[n][i] \in 0..n - 1
    <3> TAKE i \in DOMAIN ch[n]
    <3>1. ch[n][i] \in 0..top /\ ch[n][i] < n
      BY DEF Descends
    <3> QED
      BY <3>1
  <2>2. \A i \in DOMAIN ch[n] : h[ch[n][i]] = g[ch[n][i]]
    BY <1>1, <2>1
  <2>3. {h[ch[n][i]] : i \in DOMAIN ch[n]} = {g[ch[n][i]] : i \in DOMAIN ch[n]}
    BY <2>2
  <2> QED
    BY <2>3 DEF NextLongest
<1>2. T = {}
  <2> SUFFICES ASSUME T # {} PROVE FALSE
    OBVIOUS
  <2>1. PICK m \in T : \A j \in T : m <= j
    <3>1. T \subseteq Nat
      OBVIOUS
    <3> HIDE DEF T
    <3> QED
      BY <3>1, Least
  <2>2. m \in 0..top /\ m \in Nat /\ ~\E g : Solves(g, m)
    BY <2>1
  <2>3. \E g : Solves(g, m - 1)
    <3>1. CASE m = 0
      <4>1. 0..m - 1 = {}
        BY <3>1
      <4> QED
        BY <4>1
    <3>2. CASE m # 0
      <4>1. m - 1 \in 0..top /\ ~(m <= m - 1)
        BY <2>2, <3>2
      <4>2. m - 1 \notin T
        BY <2>1, <4>1
      <4> QED
        BY <4>1, <4>2
    <3> QED
      BY <3>1, <3>2
  <2>4. PICK g : Solves(g, m - 1)
    BY <2>3
  <2> DEFINE h == [x \in 0..m |-> IF x = m THEN NextLongest(ch, base, g, m) ELSE g[x]]
  <2>5. h[m] = NextLongest(ch, base, g, m) /\ \A c \in 0..m - 1 : h[c] = g[c]
    BY <2>2
  <2> HIDE DEF h
  <2>6. h[m] \in Nat /\ h[m] <= m
    BY <2>2, <2>4, <2>5, LongestNext
  <2>7. h[m] = NextLongest(ch, base, h, m)
    BY <1>1, <2>2, <2>5
  <2>8. ASSUME NEW n \in 0..m
        PROVE  h[n] \in Nat /\ h[n] <= n /\ h[n] = NextLongest(ch, base, h, n)
    <3>1. CASE n = m
      BY <2>6, <2>7, <3>1
    <3>2. CASE n # m
      <4>1. n \in 0..m - 1 /\ n \in 0..top /\ \A c \in 0..n - 1 : c \in 0..m - 1
        BY <2>2, <3>2
      <4>2. g[n] \in Nat /\ g[n] <= n /\ g[n] = NextLongest(ch, base, g, n) /\ h[n] = g[n]
        BY <2>4, <2>5, <4>1
      <4>3. NextLongest(ch, base, h, n) = NextLongest(ch, base, g, n)
        BY <1>1, <2>5, <4>1
      <4> QED
        BY <4>2, <4>3
    <3> QED
      BY <3>1, <3>2
  <2>9. Solves(h, m)
    BY <2>8
  <2> QED
    BY <2>2, <2>9
<1>3. PICK g : Solves(g, top)
  <2>1. top \in 0..top
    OBVIOUS
  <2> QED
    BY <1>2, <2>1
<1> DEFINE f == [n \in 0..top |-> g[n]]
<1>4. \A n \in 0..top : f[n] = NextLongest(ch, base, f, n)
  <2> TAKE n \in 0..top
  <2>1. \A c \in 0..n - 1 : f[c] = g[c]
    OBVIOUS
  <2>2. f[n] = g[n] /\ g[n] = NextLongest(ch, base, g, n)
    BY <1>3
  <2> HIDE DEF f
  <2> QED
    BY <1>1, <2>1, <2>2
<1>5. DOMAIN f = 0..top /\ f = [n \in 0..top |-> f[n]]
  OBVIOUS
<1> HIDE DEF f
<1>6. f = [n \in 0..top |-> NextLongest(ch, base, f, n)]
  <2>1. [n \in 0..top |-> f[n]] = [n \in 0..top |-> NextLongest(ch, base, f, n)]
    BY <1>4
  <2> QED
    BY <1>5, <2>1
<1> QED
  BY <1>6 DEF IsLongest

LEMMA LongestIs ==
    ASSUME NEW top \in Nat, NEW ch, NEW base, Descends(top, ch, base), NEW f, IsLongest(top, ch, base, f),
           NEW n \in 0..top
    PROVE  /\ f[n] \in Nat /\ f[n] <= n /\ (n \in base => f[n] = 0)
           /\ n \notin base => /\ \E i \in DOMAIN ch[n] : f[n] = 1 + f[ch[n][i]]
                               /\ \A i \in DOMAIN ch[n] : f[n] > f[ch[n][i]]
<1> DEFINE T == {m \in 0..top : ~(f[m] \in Nat /\ f[m] <= m)}
<1>1. \A m \in 0..top : f[m] = NextLongest(ch, base, f, m)
  BY DEF IsLongest
<1>2. T = {}
  <2> SUFFICES ASSUME T # {} PROVE FALSE
    OBVIOUS
  <2>1. PICK m \in T : \A j \in T : m <= j
    <3>1. T \subseteq Nat
      OBVIOUS
    <3> HIDE DEF T
    <3> QED
      BY <3>1, Least
  <2>2. \A c \in 0..m - 1 : f[c] \in Nat /\ f[c] <= c
    <3> TAKE c \in 0..m - 1
    <3>1. c \in 0..top /\ ~(m <= c)
      BY <2>1
    <3>2. c \notin T
      BY <2>1, <3>1
    <3> QED
      BY <3>1, <3>2
  <2>3. NextLongest(ch, base, f, m) \in Nat /\ NextLongest(ch, base, f, m) <= m
    BY <2>1, <2>2, LongestNext
  <2> QED
    BY <1>1, <2>1, <2>3
<1>3. \A c \in 0..top : f[c] \in Nat /\ f[c] <= c
  BY <1>2
<1>4. \A c \in 0..n - 1 : f[c] \in Nat /\ f[c] <= c
  BY <1>3
<1>5. f[n] = NextLongest(ch, base, f, n)
  BY <1>1
<1>6. n \in base => NextLongest(ch, base, f, n) = 0
  BY DEF NextLongest
<1>7. n \notin base => /\ \E i \in DOMAIN ch[n] : NextLongest(ch, base, f, n) = 1 + f[ch[n][i]]
                       /\ \A i \in DOMAIN ch[n] : NextLongest(ch, base, f, n) > f[ch[n][i]]
  BY <1>4, LongestNext
<1> QED
  BY <1>3, <1>5, <1>6, <1>7

-------------------------------------------------------------------------------
(* The depths.  What the levels give: a node is on a higher level than the       *)
(* latest level of a child.  A gate must read more than the constant.          *)
NoGateIsConstant == \A n \in Gates : \E i \in DOMAIN Children(n) : Children(n)[i] # 0

IsLeveled ==
    /\ \A n \in Vertices : graph.levels[n][1] \in Nat /\ graph.levels[n][2] \in Nat
    /\ \A n \in Gates : \A i \in DOMAIN Children(n) :
            /\ graph.levels[Children(n)[i]][1] < graph.levels[n][1]
            /\ graph.levels[Children(n)[i]][2] < graph.levels[n][1]
    /\ NoGateIsConstant

IsLength(f, cut) ==
    f = [m \in Vertices |-> IF m \in cut \cup {0} \/ m \notin Gates THEN 0
                            ELSE 1 + SetExt!Max({f[Children(m)[i]] : i \in DOMAIN Children(m)})]

LEMMA PathIs ==
    ASSUME IsGraph, NEW cut, NEW n \in Vertices
    PROVE  /\ PathLength(n, cut) \in Nat
           /\ n \in cut \cup {0} \/ n \notin Gates => PathLength(n, cut) = 0
           /\ n \notin cut \cup {0} /\ n \in Gates =>
                  \E i \in DOMAIN Children(n) : PathLength(n, cut) = 1 + PathLength(Children(n)[i], cut)
<1> DEFINE base == {m \in Vertices : m \in cut \cup {0} \/ m \notin Gates}
           ch == graph.children
           f == CHOOSE f : IsLength(f, cut)
<1>1. PICK top \in Nat : Vertices = 0..top
  BY DEF IsGraph
<1>2. Descends(top, ch, base)
  <2>1. ch \in [0..top -> Seq(0..top)]
    BY <1>1 DEF IsGraph
  <2>2. \A m \in 0..top : \A i \in DOMAIN ch[m] : ch[m][i] < m
    BY <1>1 DEF IsGraph, Children
  <2>3. \A m \in 0..top : ch[m] = <<>> => m \in base
    BY <1>1 DEF Gates, Children
  <2> QED
    BY <2>1, <2>2, <2>3 DEF Descends
<1>3. \A g : IsLongest(top, ch, base, g) <=> IsLength(g, cut)
  <2> TAKE g
  <2>1. \A m \in Vertices : NextLongest(ch, base, g, m) =
            IF m \in cut \cup {0} \/ m \notin Gates THEN 0
            ELSE 1 + SetExt!Max({g[Children(m)[i]] : i \in DOMAIN Children(m)})
    BY DEF NextLongest, Children
  <2> HIDE DEF base, ch
  <2>2. [m \in Vertices |-> NextLongest(ch, base, g, m)] =
            [m \in Vertices |-> IF m \in cut \cup {0} \/ m \notin Gates THEN 0
                                ELSE 1 + SetExt!Max({g[Children(m)[i]] : i \in DOMAIN Children(m)})]
    BY <2>1
  <2> QED
    BY <1>1, <2>2, Zenon DEF IsLongest, IsLength
<1> HIDE DEF base, ch
<1>4. \E g : IsLength(g, cut)
  BY <1>2, <1>3, LongestExists
<1>5. IsLength(f, cut)
  BY <1>4, Zenon
<1>6. \A m : PathLength(m, cut) = f[m]
  BY Zenon DEF PathLength, IsLength
<1> HIDE DEF f
<1>7. /\ f[n] \in Nat /\ f[n] <= n /\ (n \in base => f[n] = 0)
      /\ n \notin base => \E i \in DOMAIN ch[n] : f[n] = 1 + f[ch[n][i]]
  BY <1>1, <1>2, <1>3, <1>5, LongestIs
<1> QED
  BY <1>6, <1>7 DEF base, ch, Children

(* A path from a child of p down to a cut has not more steps than there are      *)
(* levels between p and the cut, less one.                                  *)
LEMMA LengthBelow ==
    ASSUME IsGraph, IsLeveled, NEW cut, NEW mu \in Int,
           \A x \in Vertices : x \in cut => mu <= graph.levels[x][2],
           NEW p \in Gates, NEW i \in DOMAIN Children(p), Children(p)[i] # 0, IsCut(Children(p)[i], cut)
    PROVE  PathLength(Children(p)[i], cut) <= graph.levels[p][1] - 1 - mu
<1> DEFINE Bad(a, b) == /\ Children(a)[b] # 0 /\ IsCut(Children(a)[b], cut)
                        /\ ~(PathLength(Children(a)[b], cut) <= graph.levels[a][1] - 1 - mu)
           T == {m \in Vertices : \E q \in Gates : \E l \in DOMAIN Children(q) : Children(q)[l] = m /\ Bad(q, l)}
<1>1. T = {}
  <2> SUFFICES ASSUME T # {} PROVE FALSE
    OBVIOUS
  <2>0. T \subseteq Nat
    BY ChildrenBelow
  <2>1. PICK m \in T : \A j \in T : m <= j
    BY <2>0, Least, Zenon
  <2>a. PICK q \in Gates : \E l \in DOMAIN Children(q) : Children(q)[l] = m /\ Bad(q, l)
    BY <2>1
  <2>2. PICK l \in DOMAIN Children(q) : Children(q)[l] = m /\ Bad(q, l)
    BY <2>a
  <2>3. /\ m \in Vertices /\ m \in Nat /\ m # 0 /\ IsCut(m, cut) /\ Children(q)[l] = m
        /\ ~(PathLength(m, cut) <= graph.levels[q][1] - 1 - mu)
    BY <2>0, <2>2
  <2>4. \A r \in Gates : \A k1 \in DOMAIN Children(r) :
            Children(r)[k1] < m /\ Children(r)[k1] # 0 /\ IsCut(Children(r)[k1], cut)
                => PathLength(Children(r)[k1], cut) <= graph.levels[r][1] - 1 - mu
    <3> TAKE r \in Gates
    <3> TAKE k1 \in DOMAIN Children(r)
    <3> DEFINE c == Children(r)[k1]
    <3>1. c \in Vertices /\ c \in Nat
      BY ChildrenBelow DEF Gates
    <3>2. c < m => c \notin T
      BY <2>1, <2>3, <3>1
    <3> QED
      BY <3>1, <3>2
  <2> HIDE DEF T, Bad
  <2>5. /\ graph.levels[q][1] \in Nat /\ graph.levels[m][1] \in Nat /\ graph.levels[m][2] \in Nat
        /\ graph.levels[m][1] < graph.levels[q][1] /\ graph.levels[m][2] < graph.levels[q][1]
    <3>1. q \in Vertices
      BY DEF Gates
    <3> QED
      BY <2>2, <2>3, <3>1 DEF IsLeveled
  <2>6. CASE m \in cut
    <3>1. PathLength(m, cut) = 0
      BY <2>3, <2>6, PathIs
    <3>2. mu <= graph.levels[m][2]
      BY <2>3, <2>6
    <3> QED
      BY <2>3, <2>5, <3>1, <3>2
  <2>7. CASE m \notin cut
    <3>1. m \in Gates /\ \A k1 \in DOMAIN Children(m) : IsCut(Children(m)[k1], cut)
      BY <2>3, <2>7, CutIs
    <3>2. PICK k1 \in DOMAIN Children(m) : PathLength(m, cut) = 1 + PathLength(Children(m)[k1], cut)
      BY <2>3, <2>7, <3>1, PathIs
    <3>3. \A k2 \in DOMAIN Children(m) : Children(m)[k2] \in Vertices /\ Children(m)[k2] < m
      BY <2>3, ChildrenBelow
    <3>4. \A k2 \in DOMAIN Children(m) : Children(m)[k2] # 0 =>
              PathLength(Children(m)[k2], cut) <= graph.levels[m][1] - 1 - mu
      BY <2>4, <3>1, <3>3
    <3>5. PICK k3 \in DOMAIN Children(m) : Children(m)[k3] # 0
      BY <3>1 DEF IsLeveled, NoGateIsConstant
    <3>6. PathLength(Children(m)[k3], cut) \in Nat /\ PathLength(Children(m)[k1], cut) \in Nat
      BY <3>3, PathIs
    <3>7. 0 <= graph.levels[m][1] - 1 - mu
      BY <2>5, <3>4, <3>5, <3>6
    <3>8. PathLength(Children(m)[k1], cut) <= graph.levels[m][1] - 1 - mu
      <4>1. CASE Children(m)[k1] = 0
        <5>1. PathLength(0, cut) = 0
          BY <3>3, <4>1, PathIs
        <5> QED
          BY <3>7, <4>1, <5>1
      <4>2. CASE Children(m)[k1] # 0
        BY <3>4, <4>2
      <4> QED
        BY <4>1, <4>2
    <3> QED
      BY <2>3, <2>5, <3>2, <3>6, <3>8
  <2> QED
    BY <2>6, <2>7
<1>2. Children(p)[i] \in Vertices
  BY ChildrenBelow DEF Gates
<1> QED
  BY <1>1, <1>2

LEMMA LengthIsBounded ==
    ASSUME IsGraph, IsLeveled, NEW cut, NEW mu \in Int,
           \A x \in Vertices : x \in cut => mu <= graph.levels[x][2],
           NEW n \in Gates, \A i \in DOMAIN Children(n) : IsCut(Children(n)[i], cut)
    PROVE  PathLength(n, cut) <= graph.levels[n][1] - mu
<1>1. \A i \in DOMAIN Children(n) : Children(n)[i] # 0 =>
          PathLength(Children(n)[i], cut) <= graph.levels[n][1] - 1 - mu
  BY LengthBelow
<1>2. n \in Vertices /\ graph.levels[n][1] \in Nat /\ \A i \in DOMAIN Children(n) : Children(n)[i] \in Vertices
  BY ChildrenBelow DEF Gates, IsLeveled
<1>3. PICK j \in DOMAIN Children(n) : Children(n)[j] # 0
  BY DEF IsLeveled, NoGateIsConstant
<1>4. PathLength(Children(n)[j], cut) \in Nat
  BY <1>2, PathIs
<1>5. 0 <= graph.levels[n][1] - 1 - mu
  BY <1>1, <1>2, <1>3, <1>4
<1>6. CASE n \in cut \cup {0}
  <2>1. PathLength(n, cut) = 0
    BY <1>2, <1>6, PathIs
  <2> QED
    BY <1>2, <1>5, <2>1
<1>7. CASE n \notin cut \cup {0}
  <2>1. PICK i \in DOMAIN Children(n) : PathLength(n, cut) = 1 + PathLength(Children(n)[i], cut)
    BY <1>2, <1>7, PathIs
  <2>2. PathLength(Children(n)[i], cut) \in Nat
    BY <1>2, PathIs
  <2>3. CASE Children(n)[i] = 0
    <3>1. PathLength(0, cut) = 0
      BY <1>2, <2>3, PathIs
    <3> QED
      BY <1>2, <1>5, <2>1, <2>3, <3>1
  <2>4. CASE Children(n)[i] # 0
    <3>1. PathLength(Children(n)[i], cut) <= graph.levels[n][1] - 1 - mu
      BY <1>1, <2>4
    <3> QED
      BY <1>2, <2>1, <2>2, <3>1
  <2> QED
    BY <2>3, <2>4
<1> QED
  BY <1>6, <1>7

(* The depth of a join is not less than the paths are long. *)
LEMMA DepthIsBound ==
    ASSUME IsGraph, IsLeveled, NEW n \in Gates, NEW choice, NEW j, j = Joined(choice, LatestLevels),
           j.cut \in SUBSET Vertices, \A i \in DOMAIN Children(n) : IsCut(Children(n)[i], j.cut)
    PROVE  PathLength(n, j.cut) <= Depth(n, j)
<1> DEFINE S == {LatestLevels[x] : x \in j.cut} \cup {Unlevelled}
<1>1. j.level = SeqExt!Min(S)
  BY DEF Joined
<1>2. \A x \in j.cut : LatestLevels[x] = graph.levels[x][2] /\ graph.levels[x][2] \in Nat
  BY DEF LatestLevels, IsLeveled
<1>3. S \subseteq Nat /\ S # {}
  BY <1>2 DEF Unlevelled
<1>4. \A x \in j.cut : LatestLevels[x] \in S
  OBVIOUS
<1> HIDE DEF S
<1>5. SeqExt!Min(S) \in S /\ \A y \in S : SeqExt!Min(S) <= y
  BY <1>3, SmallestIs
<1> DEFINE mu == SeqExt!Min(S)
           cut == j.cut
<1>6. mu \in Int /\ \A x \in Vertices : x \in cut => mu <= graph.levels[x][2]
  <2>1. mu \in S /\ \A y \in S : mu <= y
    BY <1>5
  <2>2. ASSUME NEW x \in j.cut
        PROVE  mu <= graph.levels[x][2]
    <3>1. LatestLevels[x] \in S /\ LatestLevels[x] = graph.levels[x][2]
      BY <1>2, <1>4
    <3> HIDE DEF mu
    <3> QED
      BY <2>1, <3>1, Zenon
  <2> HIDE DEF mu
  <2>3. mu \in Int
    BY <1>3, <2>1
  <2> QED
    BY <2>2, <2>3
<1>7. \A i \in DOMAIN Children(n) : IsCut(Children(n)[i], cut)
  OBVIOUS
<1>8. Depth(n, j) = graph.levels[n][1] - mu
  BY <1>1 DEF Depth
<1> HIDE DEF mu, cut
<1>9. PathLength(n, cut) <= graph.levels[n][1] - mu
  BY <1>6, <1>7, LengthIsBounded
<1> QED
  BY <1>8, <1>9 DEF cut

-------------------------------------------------------------------------------
(* What enumerate_node appends: the cuts in their order and the node itself.   *)
LEMMA GrowsTwice ==
    ASSUME NEW X, NEW z, NEW D, NEW m \in MemoriesIn(X, z, D), NEW q, NEW r, NEW w,
           GrowsIn(X, z, D, q, m, w), GrowsIn(X, z, D, r, q, w)
    PROVE  GrowsIn(X, z, D, r, m, w)
<1>1. PICK u \in Seq(D) : q.data = m.data \o u
  BY DEF GrowsIn
<1>2. PICK y \in Seq(D) : r.data = q.data \o y
  BY DEF GrowsIn
<1>3. m.data \in Seq(D) /\ u \o y \in Seq(D)
  BY Sequence DEF MemoriesIn
<1>4. r.data = m.data \o (u \o y)
  <2>1. \A a, b, c \in Seq(D) : (a \o b) \o c = a \o (b \o c)
    BY JoinValues, SMTT(30)
  <2>2. (m.data \o u) \o y = m.data \o (u \o y)
    BY <1>1, <1>2, <1>3, <2>1, Zenon
  <2> QED
    BY <1>1, <1>2, <2>2
<1>5. /\ r \in MemoriesIn(X, z, D)
      /\ \A n \in X : n # w => r.offset[n] = m.offset[n] /\ r.count[n] = m.count[n]
  BY DEF GrowsIn
<1> QED
  BY <1>3, <1>4, <1>5 DEF GrowsIn

(* A prefix with one more element. *)
LEMMA PrefixNext ==
    ASSUME NEW T, NEW s \in Seq(T), NEW i \in 1..Len(s)
    PROVE  Append([j \in 1..i - 1 |-> s[j]], s[i]) = [j \in 1..i |-> s[j]]
<1> DEFINE p == [j \in 1..i - 1 |-> s[j]]
           q == [j \in 1..i |-> s[j]]
<1>1. /\ i - 1 \in Nat /\ i \in Nat /\ s[i] \in T
      /\ \A j \in 1..i : s[j] \in T /\ (j # i => j \in 1..i - 1)
      /\ \A j \in 1..i - 1 : s[j] \in T /\ j \in 1..i
  OBVIOUS
<1>2. p \in Seq(T) /\ q \in Seq(T)
  <2>1. p \in [1..i - 1 -> T] /\ q \in [1..i -> T]
    BY <1>1
  <2> HIDE DEF p, q
  <2> QED
    BY <1>1, <2>1, IsASequence
<1>3. /\ Len(p) = i - 1 /\ Len(q) = i
      /\ \A j \in 1..i - 1 : p[j] = s[j]
      /\ \A j \in 1..i : q[j] = s[j]
  BY <1>1, <1>2
<1> HIDE DEF p, q
<1>4. /\ Append(p, s[i]) \in Seq(T) /\ Len(Append(p, s[i])) = i
      /\ \A j \in 1..i : Append(p, s[i])[j] = q[j]
  BY <1>1, <1>2, <1>3, SMTT(30)
<1>5. Append(p, s[i]) = q
  <2> DEFINE a == Append(p, s[i])
  <2>1. a \in Seq(T) /\ Len(a) = i /\ \A j \in 1..i : a[j] = q[j]
    BY <1>4
  <2> HIDE DEF a
  <2>2. a = [j \in 1..i |-> a[j]] /\ q = [j \in 1..i |-> q[j]]
    BY <1>2, <1>3, <2>1
  <2>3. a = q
    BY <2>1, <2>2
  <2> QED
    BY <2>3 DEF a
<1> QED
  BY <1>5 DEF p, q

(* Sets of X with z additional values of D. *)
SetsToStore(X, z, D) == [elements : SUBSET X, extra : {x \in Seq(D) : Len(x) = z}]

ElementsOf(sets, i) == [j \in 1..i |-> sets[j].elements]
ExtrasOf(sets, i) == [j \in 1..i |-> sets[j].extra]

(* The first i of them have been appended. *)
HasAppended(X, z, D, r, m, n, sets, i) ==
    /\ r \in MemoriesIn(X, z, D) /\ GrowsIn(X, z, D, r, m, n)
    /\ HoldsIn(X, D, r, n, ElementsOf(sets, i), ExtrasOf(sets, i), Len(r.data))

(* Finite sets of numbers are stored by their elements. *)
IsNumbers(X, z, D) == Nat \subseteq D /\ z \in Nat /\ IsFiniteSet(X) /\ X \subseteq Nat

LEMMA ListIs ==
    ASSUME NEW X, NEW z, NEW D, IsNumbers(X, z, D), NEW S \in SUBSET X
    PROVE  Ascending(S) \in Seq(D) /\ S = {Ascending(S)[i] : i \in 1..Len(Ascending(S))}
<1>1. IsFiniteSet(S) /\ S \subseteq Nat
  BY FS_Subset DEF IsNumbers
<1>2. Ascending(S) \in Seq(Nat) /\ S = {Ascending(S)[i] : i \in 1..Len(Ascending(S))}
  BY <1>1, AscendingIs
<1>3. \A s \in Seq(Nat) : s \in Seq(D)
  BY DEF IsNumbers
<1> QED
  BY <1>2, <1>3

LEMMA AppendedNext ==
    ASSUME NEW X, NEW z, NEW D, IsNumbers(X, z, D), NEW m \in MemoriesIn(X, z, D), NEW n \in X,
           NEW sets \in Seq(SetsToStore(X, z, D)), NEW i \in 1..Len(sets), NEW q,
           HasAppended(X, z, D, q, m, n, sets, i - 1), NEW r,
           r = AppendSet(q, n, Ascending(sets[i].elements), sets[i].extra)
    PROVE  HasAppended(X, z, D, r, m, n, sets, i)
<1> DEFINE S == sets[i].elements
           x == sets[i].extra
           es == Ascending(S)
           L == ElementsOf(sets, i - 1)
           E == ExtrasOf(sets, i - 1)
<1>1. S \in SUBSET X /\ x \in Seq(D) /\ Len(x) = z
  <2>1. sets[i] \in SetsToStore(X, z, D)
    OBVIOUS
  <2> QED
    BY <2>1 DEF SetsToStore
<1>2. es \in Seq(D) /\ S = {es[j] : j \in 1..Len(es)}
  <2> HIDE DEF S
  <2> QED
    BY <1>1, ListIs
<1>3. r = AppendSet(q, n, es, x)
  OBVIOUS
<1>4. Append(L, S) = ElementsOf(sets, i) /\ Append(E, x) = ExtrasOf(sets, i)
  <2> DEFINE s == [j \in 1..Len(sets) |-> sets[j].elements]
             t == [j \in 1..Len(sets) |-> sets[j].extra]
  <2>1. \A j \in 1..Len(sets) : sets[j].elements \in SUBSET X /\ sets[j].extra \in Seq(D)
    <3>1. \A j \in 1..Len(sets) : sets[j] \in SetsToStore(X, z, D)
      OBVIOUS
    <3> QED
      BY <3>1 DEF SetsToStore
  <2>2. s \in Seq(SUBSET X) /\ t \in Seq(Seq(D)) /\ Len(s) = Len(sets) /\ Len(t) = Len(sets)
    BY <2>1
  <2>3. \A j \in 1..Len(sets) : s[j] = sets[j].elements /\ t[j] = sets[j].extra
    OBVIOUS
  <2> HIDE DEF s, t
  <2>4. /\ Append([j \in 1..i - 1 |-> s[j]], s[i]) = [j \in 1..i |-> s[j]]
        /\ Append([j \in 1..i - 1 |-> t[j]], t[i]) = [j \in 1..i |-> t[j]]
    BY <2>2, PrefixNext
  <2>5. /\ [j \in 1..i - 1 |-> s[j]] = L /\ [j \in 1..i |-> s[j]] = ElementsOf(sets, i)
        /\ [j \in 1..i - 1 |-> t[j]] = E /\ [j \in 1..i |-> t[j]] = ExtrasOf(sets, i)
        /\ s[i] = S /\ t[i] = x
    BY <2>3 DEF ElementsOf, ExtrasOf
  <2> QED
    BY <2>4, <2>5
<1>5. q \in MemoriesIn(X, z, D) /\ GrowsIn(X, z, D, q, m, n) /\ HoldsIn(X, D, q, n, L, E, Len(q.data))
  BY DEF HasAppended
<1> HIDE DEF S, x, es, L, E
<1>6. /\ GrowsIn(X, z, D, r, q, n)
      /\ HoldsIn(X, D, r, n, Append(L, S), Append(E, x), Len(r.data))
  <2>1. z \in Nat /\ Nat \subseteq D
    BY DEF IsNumbers
  <2> QED
    BY <1>1, <1>2, <1>3, <1>5, <2>1, AppendHoldsIn, ZenonT(40)
<1>7. GrowsIn(X, z, D, r, m, n) /\ r \in MemoriesIn(X, z, D)
  <2>1. GrowsIn(X, z, D, r, m, n)
    BY <1>5, <1>6, GrowsTwice
  <2> QED
    BY <2>1 DEF GrowsIn
<1> QED
  BY <1>4, <1>6, <1>7 DEF HasAppended

(* All of them are appended, one after the other.                            *)
Appended(m, n, sets) ==
    SeqExt!FoldLeft(LAMBDA mm, s : AppendSet(mm, n, Ascending(s.elements), s.extra),
                    AppendBegin(m, n), sets)

LEMMA AppendedAll ==
    ASSUME NEW X, NEW z, NEW D, IsNumbers(X, z, D), NEW m \in MemoriesIn(X, z, D), NEW n \in X,
           m.count[n] = 0, NEW sets \in Seq(SetsToStore(X, z, D)), NEW r,
           r = Appended(m, n, sets)
    PROVE  HasAppended(X, z, D, r, m, n, sets, Len(sets))
<1> DEFINE M == MemoriesIn(X, z, D)
           N == Len(sets)
           b == AppendBegin(m, n)
           F == [e \in (1..N) \X M |-> AppendSet(e[2], n, Ascending(sets[e[1]].elements), sets[e[1]].extra)]
           Is(it) == it = [s \in SUBSET (DOMAIN sets) |->
                            IF s = {} THEN b
                            ELSE AppendSet(it[s \ {SeqExt!Max(s)}], n, Ascending(sets[SeqExt!Max(s)].elements),
                                           sets[SeqExt!Max(s)].extra)]
           f == CHOOSE f : Is(f)
           V == [i \in 0..N |-> {q \in M : HasAppended(X, z, D, q, m, n, sets, i)}]
<1>0. z \in Nat /\ Nat \subseteq D
  BY DEF IsNumbers
<1>1. N \in Nat /\ DOMAIN sets = 1..N
  OBVIOUS
<1>2. r = f[DOMAIN sets]
  BY Zenon DEF Appended, SeqExt!FoldLeft, SeqExt!MapThenFoldSet
<1>3. HasAppended(X, z, D, b, m, n, sets, 0) /\ b \in M
  <2>1. b = Starts(m, n)
    BY DEF AppendBegin
  <2> HIDE DEF b
  <2>2. GrowsIn(X, z, D, b, m, n) /\ HoldsIn(X, D, b, n, <<>>, <<>>, Len(b.data))
    BY <1>0, <2>1, BeginHoldsIn
  <2>3. ElementsOf(sets, 0) = <<>> /\ ExtrasOf(sets, 0) = <<>>
    BY DEF ElementsOf, ExtrasOf
  <2>4. b \in M
    BY <2>2 DEF GrowsIn
  <2> QED
    BY <2>2, <2>3, <2>4 DEF HasAppended
<1> HIDE DEF b, N
<1>4. \A i \in 1..N, w \in M : AppendSet(w, n, Ascending(sets[i].elements), sets[i].extra) \in M
  <2> TAKE i \in 1..N, w \in M
  <2>1. sets[i] \in SetsToStore(X, z, D)
    BY <1>1 DEF N
  <2>2. sets[i].elements \in SUBSET X /\ sets[i].extra \in Seq(D)
    BY <2>1 DEF SetsToStore
  <2>3. Ascending(sets[i].elements) \in Seq(D)
    BY <2>2, ListIs
  <2> DEFINE es == Ascending(sets[i].elements)
             x == sets[i].extra
             t == AppendSet(w, n, es, x)
  <2> HIDE DEF es, x
  <2>4. IsStored(MemoriesIn(X, z, D), t, w, n, Entry(es, x), w.offset, w.count[n] + 1)
    BY <1>0, <2>2, <2>3, AppendSetIs DEF es, x
  <2>5. t \in M
    BY <2>4 DEF IsStored
  <2> QED
    BY <2>5 DEF es, x
<1>5. F \in [(1..N) \X M -> M]
  <2> HIDE DEF M
  <2> QED
    BY <1>4
<1>6. PICK it \in [SUBSET (1..N) -> M] : IsFold(it, F, b, N)
  <2> HIDE DEF F, M
  <2> QED
    BY <1>1, <1>3, <1>5, FoldExists
<1> HIDE DEF M
<1>7. Is(it)
  <2>1. ASSUME NEW s \in SUBSET (1..N), s # {}
        PROVE  F[<<SeqExt!Max(s), it[s \ {SeqExt!Max(s)}]>>] =
                AppendSet(it[s \ {SeqExt!Max(s)}], n, Ascending(sets[SeqExt!Max(s)].elements),
                          sets[SeqExt!Max(s)].extra)
    <3>1. SeqExt!Max(s) \in 1..N /\ it[s \ {SeqExt!Max(s)}] \in M
      BY <1>1, <2>1, MaxOf
    <3> QED
      BY <3>1
  <2> HIDE DEF F
  <2> QED
    BY <1>1, <1>6, <2>1 DEF IsFold
<1>8. Is(f)
  <2> HIDE DEF Is
  <2> QED
    BY <1>7, Zenon
<1> HIDE DEF f
<1>9. ASSUME NEW i \in 1..N, f[1..i - 1] \in V[i - 1]
      PROVE  f[1..i] \in V[i]
  <2>1. 1..i \in SUBSET (1..N) /\ 1..i # {} /\ SeqExt!Max(1..i) = i /\ (1..i) \ {i} = 1..i - 1
    BY <1>1, MaxOfPrefix
  <2>2. 1..i \in SUBSET (DOMAIN sets)
    BY <1>1, <2>1
  <2>3. f[1..i] = AppendSet(f[(1..i) \ {SeqExt!Max(1..i)}], n, Ascending(sets[SeqExt!Max(1..i)].elements),
                            sets[SeqExt!Max(1..i)].extra)
    BY <1>8, <2>1, <2>2, Zenon
  <2>4. f[1..i] = AppendSet(f[1..i - 1], n, Ascending(sets[i].elements), sets[i].extra)
    BY <2>1, <2>3, Zenon
  <2>5. /\ i - 1 \in 0..N /\ i \in 0..N
        /\ V[i] = {q \in M : HasAppended(X, z, D, q, m, n, sets, i)}
        /\ V[i - 1] = {q \in M : HasAppended(X, z, D, q, m, n, sets, i - 1)}
    BY <1>1
  <2> HIDE DEF V
  <2>6. HasAppended(X, z, D, f[1..i - 1], m, n, sets, i - 1)
    BY <1>9, <2>5
  <2>7. HasAppended(X, z, D, f[1..i], m, n, sets, i)
    BY <2>4, <2>6, AppendedNext, Zenon DEF N
  <2>8. f[1..i] \in M
    BY <2>7 DEF HasAppended, M
  <2> QED
    BY <2>5, <2>7, <2>8
<1>10. f[{}] \in V[0]
  <2>1. {} \in SUBSET (DOMAIN sets)
    OBVIOUS
  <2>2. f[{}] = b
    BY <1>8, <2>1
  <2> QED
    BY <1>1, <1>3, <2>2 DEF M
<1>11. f[1..N] \in V[N]
  <2> HIDE DEF V
  <2> QED
    BY <1>1, <1>9, <1>10, FoldAdvances
<1>12. V[N] = {q \in M : HasAppended(X, z, D, q, m, n, sets, N)}
  BY <1>1
<1> HIDE DEF V
<1> QED
  BY <1>1, <1>2, <1>11, <1>12 DEF N

(* The additional values of the node itself: depth 0 and a cone of size 1.    *)
OwnExtra(z) == IF z = 0 THEN <<>> ELSE <<0, 1>>

(* Enumerating a node stores the cuts and, as the last one, the node itself.   *)
LEMMA AppendLocalIs ==
    ASSUME NEW X, NEW z \in {0, 2}, NEW D, IsNumbers(X, z, D), NEW m \in MemoriesIn(X, z, D),
           NEW n \in X, m.count[n] = 0, NEW sets \in Seq(SetsToStore(X, z, D)), NEW r,
           r = AppendLocal(m, n, sets)
    PROVE  /\ GrowsIn(X, z, D, r, m, n)
           /\ HoldsIn(X, D, r, n, Append(ElementsOf(sets, Len(sets)), {n}),
                      Append(ExtrasOf(sets, Len(sets)), OwnExtra(z)), Len(r.data))
<1> DEFINE q == Appended(m, n, sets)
           L == ElementsOf(sets, Len(sets))
           E == ExtrasOf(sets, Len(sets))
           x == OwnExtra(z)
           es == <<n>>
<1>1. r = AppendSet(q, n, es, x)
  <2>1. m.additional = z
    BY DEF MemoriesIn
  <2> HIDE DEF q
  <2>2. r = AppendSingleton(q, n, n, IF m.additional = 0 THEN <<>> ELSE <<0, 1>>)
    BY Zenon DEF AppendLocal, Appended, q
  <2> QED
    BY <2>1, <2>2 DEF AppendSingleton, OwnExtra
<1>2. HasAppended(X, z, D, q, m, n, sets, Len(sets))
  <2>1. q = Appended(m, n, sets)
    OBVIOUS
  <2> HIDE DEF q
  <2> QED
    BY <2>1, AppendedAll, Zenon
<1> HIDE DEF q
<1>3. q \in MemoriesIn(X, z, D) /\ GrowsIn(X, z, D, q, m, n) /\ HoldsIn(X, D, q, n, L, E, Len(q.data))
  BY <1>2 DEF HasAppended
<1>4. z \in Nat /\ Nat \subseteq D
  BY DEF IsNumbers
<1>5. /\ es \in Seq(D) /\ {n} \in SUBSET X /\ {n} = {es[i] : i \in 1..Len(es)}
      /\ x \in Seq(D) /\ Len(x) = z
  <2>1. n \in D /\ 0 \in D /\ 1 \in D
    BY DEF IsNumbers
  <2>2. es \in Seq(D) /\ Len(es) = 1 /\ es[1] = n /\ 1..1 = {1}
    BY <2>1
  <2>3. {n} = {es[i] : i \in 1..Len(es)}
    <3> HIDE DEF es
    <3> QED
      BY <2>2
  <2>4. x \in Seq(D) /\ Len(x) = z
    <3>1. CASE z = 0
      BY <3>1 DEF OwnExtra
    <3>2. CASE z = 2
      BY <2>1, <3>2 DEF OwnExtra
    <3> QED
      BY <3>1, <3>2
  <2> QED
    BY <2>2, <2>3, <2>4
<1> HIDE DEF L, E, x, es
<1>6. GrowsIn(X, z, D, r, q, n) /\ HoldsIn(X, D, r, n, Append(L, {n}), Append(E, x), Len(r.data))
  BY <1>1, <1>3, <1>4, <1>5, AppendHoldsIn
<1>7. GrowsIn(X, z, D, r, m, n)
  BY <1>3, <1>6, GrowsTwice
<1> QED
  BY <1>6, <1>7 DEF L, E, x

-------------------------------------------------------------------------------
(* The inductive invariant of EnumerationSpec.  VectorValues are in the vectors of     *)
(* the memories have: elements, sizes, and depths that are differences of levels. *)
Additional == IF HasCones THEN 2 ELSE 0

PairsOfSets == [cut : SUBSET Vertices, cone : SUBSET Vertices]

PossibleJoins == {Joined(choice, LatestLevels) : choice \in Seq(PairsOfSets)}

VectorValues == Nat \cup {Depth(n, c) : n \in Vertices, c \in PossibleJoins}

(* A cone of n and a cut: closed but for the cut and the constant.            *)
IsCone(n, cut, cone) ==
    /\ \A m \in cone \ cut : \A i \in DOMAIN Children(m) : Children(m)[i] \in cone \cup {0}
    /\ n # 0 => n \in cone

(* L are cuts of n, K their cones, E the values stored with them.             *)
RightCuts(n, L) ==
    /\ \A j \in 1..Len(L) : IsCut(n, L[j]) /\ Cardinality(L[j]) <= Larger(graph.k, 1)
    /\ n # 0 /\ L # <<>> => L[Len(L)] = {n}
    /\ Len(L) <= graph.priority + 1

RightCones(n, L, E, K) ==
    /\ Len(K) = Len(L)
    /\ \A j \in 1..Len(L) : /\ IsCone(n, L[j], K[j]) /\ E[j][2] = Cardinality(K[j])
                            /\ IsLeveled => PathLength(n, L[j]) <= E[j][1]

StoresRight(m, c, n) ==
    \E L, E, e : /\ HoldsIn(Vertices, VectorValues, m, n, L, E, e) /\ RightCuts(n, L)
                 /\ HasCones => \E K, F, f : /\ HoldsIn(Vertices, VectorValues, c, n, K, F, f)
                                             /\ RightCones(n, L, E, K)

(* Every list is right as far as it has been written.                        *)
AreRight(m, c) ==
    /\ m \in MemoriesIn(Vertices, Additional, VectorValues)
    /\ c \in MemoriesIn(Vertices, 0, VectorValues)
    /\ \A n \in Vertices : StoresRight(m, c, n)

(* What is still to be enumerated is listed once and has no cuts yet.         *)
IsWork(w) ==
    w \in [todo : Seq(Vertices), stack : Seq(Vertices), leafs : Seq(Vertices), colors : [Vertices -> {0, 1, 2}]]

IsListedOnce(w) ==
    \A i, j \in 1..Len(w.todo) : w.todo[i] = w.todo[j] => i = j

TodoIsNew(w, m) ==
    \A i \in 1..Len(w.todo) : w.colors[w.todo[i]] = 2 /\ m.count[w.todo[i]] = 0

UnfinishedIsNew(w, m) ==
    \A n \in Vertices : w.colors[n] # 2 => m.count[n] = 0

LeafsAreApart(w) ==
    \A i \in 1..Len(w.leafs) : /\ w.colors[w.leafs[i]] = 2
                               /\ \A j \in 1..Len(w.todo) : w.todo[j] # w.leafs[i]

IsPending(w, m) ==
    IsWork(w) /\ IsListedOnce(w) /\ TodoIsNew(w, m) /\ UnfinishedIsNew(w, m) /\ LeafsAreApart(w)

IsParameters == graph.kind \in {"aig", "mig", "xmg"} /\ graph.k \in Nat /\ graph.priority \in Nat

EnumerationInv == IsGraph /\ IsParameters /\ AreRight(data, cones) /\ IsPending(work, data)

LEMMA ConesAre ==
    ASSUME NEW n, NEW L, NEW E, NEW K, RightCones(n, L, E, K), NEW i \in 1..Len(L)
    PROVE  /\ Len(K) = Len(L) /\ IsCone(n, L[i], K[i]) /\ E[i][2] = Cardinality(K[i])
           /\ IsLeveled => PathLength(n, L[i]) <= E[i][1]
BY Zenon DEF RightCones

(* The graph is constant. *)
LEMMA GraphStays ==
    ASSUME UNCHANGED graph, IsGraph, IsParameters, AreRight(data', cones'), IsPending(work', data')
    PROVE  EnumerationInv'
<1>1. /\ Vertices' = Vertices /\ HasCones' = HasCones /\ LatestLevels' = LatestLevels
      /\ \A n : Children(n)' = Children(n)
      /\ \A n, c : Depth(n, c)' = Depth(n, c)
  BY DEF Vertices, HasCones, LatestLevels, Children, Depth
<1>2. Gates' = Gates /\ IsGraph' /\ IsParameters'
  BY DEF Gates, Vertices, Children, IsGraph, IsParameters
<1>3. \A n, cut : IsCut(n, cut)' = IsCut(n, cut)
  BY DEF IsCut, Gates, Vertices, Children
<1>4. Additional' = Additional /\ VectorValues' = VectorValues
  <2>1. Additional' = Additional
    BY <1>1 DEF Additional
  <2>2. PairsOfSets' = PairsOfSets
    BY <1>1 DEF PairsOfSets
  <2>3. PossibleJoins' = PossibleJoins
    BY <1>1, <2>2, Zenon DEF PossibleJoins
  <2>4. VectorValues' = VectorValues
    BY <2>3 DEF VectorValues, Vertices, Depth
  <2> QED
    BY <2>1, <2>4
<1>5. \A n, cut, cone : IsCone(n, cut, cone)' <=> IsCone(n, cut, cone)
  BY <1>1 DEF IsCone
<1>6. \A n, L, E, K : (RightCuts(n, L)' <=> RightCuts(n, L)) /\ (RightCones(n, L, E, K)' <=> RightCones(n, L, E, K))
  <2>1. \A n, cut : PathLength(n, cut)' = PathLength(n, cut)
    BY DEF PathLength, Gates, Vertices, Children
  <2>2. IsLeveled' <=> IsLeveled
    BY <1>1, <1>2 DEF IsLeveled, NoGateIsConstant
  <2> QED
    BY <1>3, <1>5, <2>1, <2>2 DEF RightCuts, RightCones
<1>7. AreRight(data, cones)'
  <2>1. \A n \in Vertices : StoresRight(data', cones', n)
    BY DEF AreRight
  <2>2. \A n \in Vertices : StoresRight(data, cones, n)'
    BY <1>1, <1>4, <1>6, <2>1, Zenon DEF StoresRight
  <2> QED
    BY <1>1, <1>4, <2>2 DEF AreRight
<1>8. IsPending(work, data)'
  BY <1>1, Zenon DEF IsPending, IsWork, IsListedOnce, TodoIsNew, UnfinishedIsNew, LeafsAreApart
<1> QED
  BY <1>2, <1>7, <1>8 DEF EnumerationInv

LEMMA VerticesAre ==
    ASSUME IsGraph
    PROVE  /\ IsFiniteSet(Vertices) /\ Vertices \subseteq Nat /\ 0 \in Vertices
           /\ Nat \subseteq VectorValues /\ Additional \in {0, 2}
           /\ IsNumbers(Vertices, 0, VectorValues) /\ IsNumbers(Vertices, Additional, VectorValues)
<1>1. PICK top \in Nat : Vertices = 0..top
  BY DEF IsGraph
<1>2. IsFiniteSet(0..top)
  <2>1. 0 \in Int /\ top \in Int
    OBVIOUS
  <2> QED
    BY <2>1, FS_Interval, Zenon
<1>3. Nat \subseteq VectorValues /\ Additional \in {0, 2}
  BY DEF VectorValues, Additional
<1>4. Vertices \subseteq Nat /\ 0 \in Vertices
  BY <1>1
<1> QED
  BY <1>1, <1>2, <1>3, <1>4 DEF IsNumbers

(* q and d are the memories m and c after node w has been written.            *)
AreWritten(q, d, m, c, w) ==
    /\ GrowsIn(Vertices, Additional, VectorValues, q, m, w)
    /\ d \in MemoriesIn(Vertices, 0, VectorValues)
    /\ HasCones => GrowsIn(Vertices, 0, VectorValues, d, c, w)
    /\ StoresRight(q, d, w)

(* The lists of the others stay. *)
LEMMA AreRightNext ==
    ASSUME IsGraph, NEW m, NEW c, AreRight(m, c), NEW w \in Vertices, NEW q, NEW d,
           AreWritten(q, d, m, c, w)
    PROVE  AreRight(q, d)
<1>1. /\ m \in MemoriesIn(Vertices, Additional, VectorValues) /\ c \in MemoriesIn(Vertices, 0, VectorValues)
      /\ \A n \in Vertices : StoresRight(m, c, n)
  BY DEF AreRight
<1>2. /\ GrowsIn(Vertices, Additional, VectorValues, q, m, w) /\ d \in MemoriesIn(Vertices, 0, VectorValues)
      /\ HasCones => GrowsIn(Vertices, 0, VectorValues, d, c, w)
      /\ StoresRight(q, d, w)
  BY DEF AreWritten
<1>3. Additional \in Nat /\ 0 \in Nat
  BY VerticesAre
<1>4. ASSUME NEW n \in Vertices, n # w
      PROVE  StoresRight(q, d, n)
  <2>1. PICK L, E, e : /\ HoldsIn(Vertices, VectorValues, m, n, L, E, e) /\ RightCuts(n, L)
                       /\ HasCones => \E K, F, f : /\ HoldsIn(Vertices, VectorValues, c, n, K, F, f)
                                                   /\ RightCones(n, L, E, K)
    BY <1>1, Zenon DEF StoresRight
  <2>2. HoldsIn(Vertices, VectorValues, q, n, L, E, e)
    BY <1>1, <1>2, <1>3, <1>4, <2>1, HoldsGrowsIn
  <2>3. ASSUME HasCones
        PROVE  \E K, F, f : HoldsIn(Vertices, VectorValues, d, n, K, F, f) /\ RightCones(n, L, E, K)
    <3>1. PICK K, F, f : HoldsIn(Vertices, VectorValues, c, n, K, F, f) /\ RightCones(n, L, E, K)
      BY <2>1, <2>3
    <3>2. GrowsIn(Vertices, 0, VectorValues, d, c, w)
      BY <1>2, <2>3
    <3>3. HoldsIn(Vertices, VectorValues, d, n, K, F, f)
      BY <1>1, <1>3, <1>4, <3>1, <3>2, HoldsGrowsIn
    <3> QED
      BY <3>1, <3>3
  <2> QED
    BY <2>1, <2>2, <2>3, Zenon DEF StoresRight
<1>5. q \in MemoriesIn(Vertices, Additional, VectorValues)
  BY <1>2 DEF GrowsIn
<1> QED
  BY <1>2, <1>4, <1>5 DEF AreRight

(* A leaf has one cut, which is itself, the constant the empty one.           *)
LeafCut(n) == IF n = 0 THEN {} ELSE {n}

LEMMA LeafIsRight ==
    ASSUME IsGraph, IsParameters, NEW n \in Vertices, NEW E,
           HasCones => E[1][1] = 0 /\ E[1][2] = Cardinality(LeafCut(n))
    PROVE  /\ RightCuts(n, <<LeafCut(n)>>)
           /\ HasCones => RightCones(n, <<LeafCut(n)>>, E, <<LeafCut(n)>>)
<1> DEFINE L == <<LeafCut(n)>>
<1>1. Len(L) = 1 /\ 1..Len(L) = {1} /\ L[1] = LeafCut(n) /\ graph.k \in Nat /\ graph.priority \in Nat
  BY DEF IsParameters
<1>2. Cardinality(LeafCut(n)) \in {0, 1}
  BY FS_EmptySet, FS_Singleton DEF LeafCut
<1>3. Cardinality(LeafCut(n)) <= Larger(graph.k, 1)
  BY <1>1, <1>2 DEF Larger
<1>4. IsCut(n, LeafCut(n))
  BY CutIs DEF LeafCut
<1>5. (n # 0 => LeafCut(n) = {n}) /\ 1 <= graph.priority + 1
  BY <1>1 DEF LeafCut
<1> HIDE DEF L
<1>6. RightCuts(n, L)
  BY <1>1, <1>3, <1>4, <1>5 DEF RightCuts
<1>7. IsCone(n, LeafCut(n), LeafCut(n))
  BY DEF IsCone, LeafCut
<1>9. PathLength(n, LeafCut(n)) = 0
  BY PathIs DEF LeafCut
<1>8. HasCones => RightCones(n, L, E, L)
  BY <1>1, <1>7, <1>9 DEF RightCones
<1> QED
  BY <1>6, <1>8 DEF L

(* assign_empty or assign_singleton in both memories. *)
LEMMA LeafIsWritten ==
    ASSUME IsGraph, IsParameters, AreRight(data, cones), NEW n \in Vertices, AssignLeaf(n)
    PROVE  AreWritten(data', cones', data, cones, n) /\ data'.count[n] > 0
<1> DEFINE es == IF n = 0 THEN <<>> ELSE <<n>>
           S == LeafCut(n)
           x == ExtraOf(0, IF n = 0 THEN 0 ELSE 1)
<1>1. /\ data \in MemoriesIn(Vertices, Additional, VectorValues) /\ cones \in MemoriesIn(Vertices, 0, VectorValues)
  BY DEF AreRight
<1>2. /\ Additional \in Nat /\ 0 \in Nat /\ Nat \subseteq VectorValues /\ n \in VectorValues /\ 0 \in VectorValues
      /\ 1 \in VectorValues
  BY VerticesAre
<1>3. es \in Seq(VectorValues) /\ S \in SUBSET Vertices /\ S = {es[i] : i \in 1..Len(es)}
  <2>1. CASE n = 0
    <3>1. es = <<>> /\ S = {} /\ 1..Len(<<>>) = {}
      BY <2>1 DEF LeafCut
    <3> QED
      BY <3>1
  <2>2. CASE n # 0
    <3>1. es = <<n>> /\ S = {n} /\ 1..Len(<<n>>) = {1} /\ <<n>>[1] = n /\ <<n>> \in Seq(VectorValues)
      BY <1>2, <2>2 DEF LeafCut
    <3> HIDE DEF es, S
    <3> QED
      BY <3>1
  <2> QED
    BY <2>1, <2>2
<1>4. /\ x \in Seq(VectorValues) /\ Len(x) = Additional
      /\ HasCones => x[1] = 0 /\ x[2] = IF n = 0 THEN 0 ELSE 1
  <2>1. CASE HasCones
    <3> DEFINE y == IF n = 0 THEN 0 ELSE 1
    <3>1. x = <<0, y>> /\ Additional = 2
      BY <2>1 DEF ExtraOf, Additional
    <3>2. y \in VectorValues /\ y = IF n = 0 THEN 0 ELSE 1
      BY <1>2
    <3> HIDE DEF x, y
    <3>3. x \in Seq(VectorValues) /\ Len(x) = 2 /\ x[1] = 0 /\ x[2] = y
      BY <1>2, <3>1, <3>2
    <3> QED
      BY <3>1, <3>2, <3>3
  <2>2. CASE ~HasCones
    BY <2>2 DEF ExtraOf, Additional
  <2> QED
    BY <2>1, <2>2
<1>5. data' = [PushSet(Starts(data, n), es, x) EXCEPT !.count[n] = 1]
  <2>1. CASE n = 0
    BY <2>1 DEF AssignLeaf, AssignEmpty
  <2>2. CASE n # 0
    BY <2>2 DEF AssignLeaf, AssignSingleton
  <2> QED
    BY <2>1, <2>2
<1>6. HasCones => cones' = [PushSet(Starts(cones, n), es, <<>>) EXCEPT !.count[n] = 1]
  <2>1. CASE n = 0
    BY <2>1 DEF AssignLeaf, AssignEmpty
  <2>2. CASE n # 0
    BY <2>2 DEF AssignLeaf, AssignSingleton
  <2> QED
    BY <2>1, <2>2
<1>7. ~HasCones => cones' = cones
  BY DEF AssignLeaf
<1> HIDE DEF es, x, S
<1>8. /\ GrowsIn(Vertices, Additional, VectorValues, data', data, n)
      /\ HoldsIn(Vertices, VectorValues, data', n, <<S>>, <<x>>, Len(data'.data))
  BY <1>1, <1>2, <1>3, <1>4, <1>5, AssignHoldsIn
<1>9. HasCones => /\ GrowsIn(Vertices, 0, VectorValues, cones', cones, n)
                  /\ HoldsIn(Vertices, VectorValues, cones', n, <<S>>, <<<<>>>>, Len(cones'.data))
  <2>1. <<>> \in Seq(VectorValues) /\ Len(<<>>) = 0
    OBVIOUS
  <2> SUFFICES ASSUME HasCones
               PROVE  /\ GrowsIn(Vertices, 0, VectorValues, cones', cones, n)
                      /\ HoldsIn(Vertices, VectorValues, cones', n, <<S>>, <<<<>>>>, Len(cones'.data))
    OBVIOUS
  <2>2. cones' = [PushSet(Starts(cones, n), es, <<>>) EXCEPT !.count[n] = 1]
    BY <1>6
  <2> QED
    BY <1>1, <1>2, <1>3, <2>1, <2>2, AssignHoldsIn
<1>10. /\ RightCuts(n, <<S>>)
       /\ HasCones => RightCones(n, <<S>>, <<x>>, <<S>>)
  <2>1. Cardinality(LeafCut(n)) = IF n = 0 THEN 0 ELSE 1
    BY FS_EmptySet, FS_Singleton DEF LeafCut
  <2>2. HasCones => <<x>>[1][1] = 0 /\ <<x>>[1][2] = Cardinality(LeafCut(n))
    BY <1>4, <2>1
  <2> QED
    BY <2>2, LeafIsRight DEF S
<1>11. StoresRight(data', cones', n)
  BY <1>8, <1>9, <1>10, Zenon DEF StoresRight
<1>12. cones' \in MemoriesIn(Vertices, 0, VectorValues)
  BY <1>1, <1>7, <1>9 DEF GrowsIn
<1>13. data'.count[n] > 0
  <2>1. data'.count[n] = Len(<<S>>)
    BY <1>8 DEF HoldsIn
  <2> QED
    BY <2>1
<1> QED
  BY <1>8, <1>9, <1>11, <1>12, <1>13 DEF AreWritten

(* What is read of a child: its cuts with their cones.                        *)
PairsAt(n) ==
    {p \in PairsOfSets : IsCut(n, p.cut) /\ (HasCones => IsCone(n, p.cut, p.cone))}

LEMMA CutsOfTyped ==
    ASSUME IsGraph, AreRight(data, cones), NEW n \in Vertices
    PROVE  CutsOf(n) \in Seq(PairsAt(n))
<1>1. /\ data \in MemoriesIn(Vertices, Additional, VectorValues) /\ cones \in MemoriesIn(Vertices, 0, VectorValues)
      /\ StoresRight(data, cones, n)
  BY DEF AreRight
<1>2. Additional \in Nat /\ 0 \in Nat
  BY VerticesAre
<1>3. PICK L, E, e : /\ HoldsIn(Vertices, VectorValues, data, n, L, E, e) /\ RightCuts(n, L)
                     /\ HasCones => \E K, F, f : /\ HoldsIn(Vertices, VectorValues, cones, n, K, F, f)
                                                 /\ RightCones(n, L, E, K)
  BY <1>1, Zenon DEF StoresRight
<1>4. SetsOf(data, n) = L /\ L \in Seq(SUBSET Vertices) /\ data.count[n] = Len(L) /\ Len(L) \in Nat
  <2>1. SetsOf(data, n) = L
    BY <1>1, <1>2, <1>3, HoldsIsSets
  <2> QED
    BY <1>3, <2>1 DEF HoldsIn
<1> DEFINE p(i) == [cut |-> SetsOf(data, n)[i],
                    cone |-> IF HasCones THEN SetsOf(cones, n)[i] ELSE {}]
<1>5. ASSUME NEW i \in 1..Len(L)
      PROVE  p(i) \in PairsAt(n)
  <2>1. L[i] \in SUBSET Vertices /\ IsCut(n, L[i])
    BY <1>3, <1>4 DEF RightCuts
  <2>2. CASE HasCones
    <3>1. PICK K, F, f : HoldsIn(Vertices, VectorValues, cones, n, K, F, f) /\ RightCones(n, L, E, K)
      BY <1>3, <2>2
    <3>2. SetsOf(cones, n) = K
      BY <1>1, <1>2, <3>1, HoldsIsSets
    <3>3. K \in Seq(SUBSET Vertices) /\ Len(K) = Len(L) /\ IsCone(n, L[i], K[i])
      BY <3>1, ConesAre DEF HoldsIn
    <3>4. K[i] \in SUBSET Vertices
      BY <1>4, <3>3
    <3>5. p(i) = [cut |-> L[i], cone |-> K[i]]
      BY <1>4, <2>2, <3>2
    <3>6. p(i) \in PairsOfSets /\ p(i).cut = L[i] /\ p(i).cone = K[i]
      BY <2>1, <3>4, <3>5 DEF PairsOfSets
    <3> HIDE DEF p
    <3> QED
      BY <2>1, <3>3, <3>6 DEF PairsAt
  <2>3. CASE ~HasCones
    <3>1. p(i) = [cut |-> L[i], cone |-> {}]
      BY <1>4, <2>3
    <3>2. p(i) \in PairsOfSets /\ p(i).cut = L[i]
      BY <2>1, <3>1 DEF PairsOfSets
    <3> HIDE DEF p
    <3> QED
      BY <2>1, <2>3, <3>2 DEF PairsAt
  <2> QED
    BY <2>2, <2>3
<1>6. CutsOf(n) = [i \in 1..Len(L) |-> p(i)]
  BY <1>4 DEF CutsOf
<1> HIDE DEF p
<1>7. [i \in 1..Len(L) |-> p(i)] \in [1..Len(L) -> PairsAt(n)]
  BY <1>5
<1> QED
  BY <1>4, <1>6, <1>7, IsASequence

(* A cut of every child: joined they are a cut of the node, their cones and the  *)
(* node its cone.                                                            *)
RightJoins(n) ==
    {j \in PossibleJoins : /\ j.cut \in SUBSET Vertices /\ j.cone \in SUBSET Vertices
                           /\ Cardinality(j.cut) <= graph.k
                           /\ IsCut(n, j.cut)
                           /\ HasCones => IsCone(n, j.cut, j.cone \cup {n})
                           /\ IsLeveled => PathLength(n, j.cut) <= Depth(n, j)}

LEMMA JoinIsRight ==
    ASSUME IsGraph, IsParameters, NEW n \in Gates, NEW choice \in Seq(PairsOfSets),
           Len(choice) = Len(Children(n)),
           \A i \in 1..Len(choice) : choice[i] \in PairsAt(Children(n)[i]),
           NEW j, j = Joined(choice, LatestLevels)
    PROVE  Cardinality(j.cut) > graph.k \/ j \in RightJoins(n)
<1> DEFINE N == Len(choice)
<1>1. /\ N \in Nat /\ DOMAIN choice = 1..N /\ n \in Vertices /\ DOMAIN Children(n) = 1..N
      /\ \A i \in 1..N : Children(n)[i] \in Vertices
  BY ChildrenBelow DEF Gates
<1>2. j \in PossibleJoins
  BY DEF PossibleJoins
<1>3. j.cut = UNION {choice[i].cut : i \in 1..N} /\ j.cone = UNION {choice[i].cone : i \in 1..N}
  BY <1>1 DEF Joined
<1>4. ASSUME NEW i \in 1..N
      PROVE  /\ choice[i].cut \in SUBSET Vertices /\ choice[i].cone \in SUBSET Vertices
             /\ IsCut(Children(n)[i], choice[i].cut)
             /\ HasCones => IsCone(Children(n)[i], choice[i].cut, choice[i].cone)
             /\ choice[i].cut \subseteq j.cut /\ choice[i].cone \subseteq j.cone
  <2>1. choice[i] \in PairsAt(Children(n)[i])
    OBVIOUS
  <2>2. choice[i].cut \subseteq j.cut /\ choice[i].cone \subseteq j.cone
    BY <1>3
  <2> QED
    BY <2>1, <2>2 DEF PairsAt, PairsOfSets
<1>5. j.cut \in SUBSET Vertices /\ j.cone \in SUBSET Vertices
  BY <1>3, <1>4
<1>6. \A m \in j.cone : \E i \in 1..N : m \in choice[i].cone
  BY <1>3
<1> HIDE DEF N
<1>11. \A i \in 1..N : IsCut(Children(n)[i], j.cut)
  BY <1>1, <1>4, CutGrows
<1>7. IsCut(n, j.cut)
  BY <1>1, <1>11, CutIs
<1>12. IsLeveled => PathLength(n, j.cut) <= Depth(n, j)
  BY <1>1, <1>5, <1>11, DepthIsBound
<1>8. HasCones => IsCone(n, j.cut, j.cone \cup {n})
  <2> SUFFICES ASSUME HasCones, NEW m \in (j.cone \cup {n}) \ j.cut, NEW l \in DOMAIN Children(m)
               PROVE  Children(m)[l] \in j.cone \cup {n} \cup {0}
    BY DEF IsCone
  <2>1. CASE m = n
    <3>1. l \in 1..N
      BY <1>1, <2>1
    <3>2. IsCone(Children(n)[l], choice[l].cut, choice[l].cone) /\ choice[l].cone \subseteq j.cone
      BY <1>4, <3>1
    <3>3. Children(n)[l] # 0 => Children(n)[l] \in choice[l].cone
      BY <3>2 DEF IsCone
    <3> QED
      BY <2>1, <3>2, <3>3
  <2>2. CASE m # n
    <3>1. PICK i \in 1..N : m \in choice[i].cone
      BY <1>6, <2>2
    <3>2. /\ IsCone(Children(n)[i], choice[i].cut, choice[i].cone)
          /\ choice[i].cut \subseteq j.cut /\ choice[i].cone \subseteq j.cone
      BY <1>4
    <3>3. m \in choice[i].cone \ choice[i].cut
      BY <3>1, <3>2
    <3>4. Children(m)[l] \in choice[i].cone \cup {0}
      BY <3>2, <3>3 DEF IsCone
    <3> QED
      BY <3>2, <3>4
  <2> QED
    BY <2>1, <2>2
<1>9. Cardinality(j.cut) \in Nat /\ graph.k \in Nat
  <2>1. IsFiniteSet(j.cut)
    BY <1>5, VerticesAre, FS_Subset
  <2> QED
    BY <2>1, FS_CardinalityType DEF IsParameters
<1>10. Cardinality(j.cut) > graph.k \/ Cardinality(j.cut) <= graph.k
  BY <1>9
<1> QED
  BY <1>2, <1>5, <1>7, <1>8, <1>10, <1>12 DEF RightJoins

(* The cuts of the children of a node. *)
ListsAt(n) == [i \in DOMAIN Children(n) |-> CutsOf(Children(n)[i])]

(* The local cuts of a gate are joins of a cut of each child, and if they are    *)
(* fewer than asked for they lose none of these joins.                       *)
LEMMA LocalCutsAreRight ==
    ASSUME IsGraph, IsParameters, AreRight(data, cones), NEW n \in Gates
    PROVE  /\ LocalCutsAt(n) \in Seq(RightJoins(n)) /\ Len(LocalCutsAt(n)) <= graph.priority
           /\ Combinations(ListsAt(n)) \in Seq(Seq(PairsOfSets))
           /\ Len(LocalCutsAt(n)) < graph.priority =>
                Covering(LocalCutsAt(n), Combinations(ListsAt(n)), Len(Combinations(ListsAt(n))),
                         graph.k, graph.kind = "xmg", LatestLevels)
<1> DEFINE lists == ListsAt(n)
           N == Len(Children(n))
<1>1. /\ N \in Nat /\ n \in Vertices /\ DOMAIN Children(n) = 1..N
      /\ \A i \in 1..N : Children(n)[i] \in Vertices
  BY ChildrenBelow DEF Gates
<1>2. \A i \in 1..N : lists[i] \in Seq(PairsAt(Children(n)[i])) /\ DOMAIN lists = 1..N
  BY <1>1, CutsOfTyped DEF ListsAt
<1>3. \A i \in 1..N : lists[i] \in Seq(PairsOfSets)
  <2>1. \A i \in 1..N : PairsAt(Children(n)[i]) \subseteq PairsOfSets
    BY DEF PairsAt
  <2> HIDE DEF lists
  <2> QED
    BY <1>2, <2>1
<1>4. lists \in Seq(Seq(PairsOfSets)) /\ Len(lists) = N
  <2>1. lists \in [1..N -> Seq(PairsOfSets)]
    BY <1>1, <1>2, <1>3 DEF ListsAt
  <2> HIDE DEF lists
  <2> QED
    BY <1>1, <2>1
<1>5. LocalCutsAt(n) = LocalCutsOf(lists, graph.k, graph.priority, graph.kind = "xmg", LatestLevels)
  BY DEF LocalCutsAt, ListsAt
<1> HIDE DEF lists, N
<1>6. ASSUME NEW c \in Choices(PairsOfSets, lists, Len(lists))
      PROVE  \/ Cardinality(Joined(c, LatestLevels).cut) > graph.k
             \/ Joined(c, LatestLevels) \in RightJoins(n)
  <2>1. /\ c \in Seq(PairsOfSets) /\ Len(c) = N
        /\ \A i \in 1..N : \E j \in DOMAIN lists[i] : c[i] = lists[i][j]
    BY <1>4 DEF Choices
  <2>2. \A i \in 1..N : c[i] \in PairsAt(Children(n)[i])
    <3> TAKE i \in 1..N
    <3>1. lists[i] \in Seq(PairsAt(Children(n)[i]))
      BY <1>2
    <3>2. PICK j \in DOMAIN lists[i] : c[i] = lists[i][j]
      BY <2>1
    <3> QED
      BY <3>1, <3>2
  <2> QED
    BY <2>1, <2>2, JoinIsRight DEF N
<1>7. graph.priority \in Nat
  BY DEF IsParameters
<1> DEFINE R == RightJoins(n)
           most == graph.k
           number == graph.priority
           smaller == graph.kind = "xmg"
           level == LatestLevels
<1>8. /\ lists \in Seq(Seq(PairsOfSets)) /\ number \in Nat
      /\ \A c \in Choices(PairsOfSets, lists, Len(lists)) :
             Cardinality(Joined(c, level).cut) > most \/ Joined(c, level) \in R
  BY <1>4, <1>6, <1>7
<1> HIDE DEF R, most, number, smaller, level
<1>9. /\ LocalCutsOf(lists, most, number, smaller, level) \in Seq(R)
      /\ Len(LocalCutsOf(lists, most, number, smaller, level)) <= number
  BY <1>8, LocalCutsTyped
<1>10. Len(LocalCutsOf(lists, most, number, smaller, level)) < number =>
            Covering(LocalCutsOf(lists, most, number, smaller, level), Combinations(lists),
                     Len(Combinations(lists)), most, smaller, level)
  BY <1>8, LocalCutsTyped
<1>11. Combinations(lists) \in Seq(Seq(PairsOfSets))
  <2> DEFINE X == PairsOfSets
             all == Combinations(lists)
             T == Choices(X, lists, Len(lists))
  <2>1. all \in Seq(T)
    BY <1>4, CombinationsTyped
  <2>2. T \subseteq Seq(X)
    BY DEF Choices
  <2> HIDE DEF X, all, T
  <2>3. all \in [1..Len(all) -> Seq(X)] /\ Len(all) \in Nat
    BY <2>1, <2>2
  <2>4. all \in Seq(Seq(X))
    BY <2>3, IsASequence
  <2> QED
    BY <2>4 DEF X, all
<1> QED
  BY <1>5, <1>9, <1>10, <1>11 DEF R, most, number, smaller, level, lists

LEMMA CountsAgree ==
    ASSUME NEW m, NEW c, AreRight(m, c), NEW n \in Vertices, HasCones
    PROVE  m.count[n] = c.count[n]
<1>1. PICK L, E, e : /\ HoldsIn(Vertices, VectorValues, m, n, L, E, e)
                     /\ HasCones => \E K, F, f : /\ HoldsIn(Vertices, VectorValues, c, n, K, F, f)
                                                 /\ RightCones(n, L, E, K)
  BY Zenon DEF StoresRight, AreRight
<1>2. PICK K, F, f : HoldsIn(Vertices, VectorValues, c, n, K, F, f) /\ RightCones(n, L, E, K)
  BY <1>1
<1> QED
  BY <1>1, <1>2 DEF HoldsIn, RightCones

(* The cuts of s in their order and the node itself. *)
WithOwn(T, s, x, r) ==
    /\ r \in Seq(T) /\ Len(r) = Len(s) + 1 /\ r[Len(s) + 1] = x
    /\ \A j \in 1..Len(s) : r[j] = s[j]

LEMMA OwnIsLast ==
    ASSUME NEW T
    PROVE  \A s \in Seq(T), x \in T : WithOwn(T, s, x, Append(s, x))
BY DEF WithOwn

(* The cuts of a gate and the node itself are cuts of it. *)
LEMMA GateIsRight ==
    ASSUME IsGraph, IsParameters, NEW n \in Gates, NEW cuts \in Seq(RightJoins(n)),
           Len(cuts) <= graph.priority, NEW L, NEW cut,
           cut = [j \in 1..Len(cuts) |-> cuts[j].cut],
           WithOwn(SUBSET Vertices, cut, {n}, L)
    PROVE  RightCuts(n, L)
<1> DEFINE N == Len(cuts)
<1>1. /\ N \in Nat /\ n \in Vertices /\ graph.k \in Nat /\ graph.priority \in Nat
      /\ \A j \in 1..N : cuts[j] \in RightJoins(n)
  BY DEF Gates, IsParameters
<1>2. Len(cut) = N /\ \A j \in 1..N : cut[j] = cuts[j].cut
  <2>1. cut \in [1..N -> {cuts[j].cut : j \in 1..N}]
    OBVIOUS
  <2>2. cut \in Seq({cuts[j].cut : j \in 1..N}) 
    BY <1>1, <2>1, IsASequence
  <2>3. Len(cut) = N
    BY <1>1, <2>1, <2>2
  <2> QED
    BY <2>3
<1> HIDE DEF N
<1>3. L \in Seq(SUBSET Vertices) /\ Len(L) = N + 1 /\ L[N + 1] = {n} /\ \A j \in 1..N : L[j] = cuts[j].cut
  BY <1>2 DEF WithOwn
<1>4. ASSUME NEW j \in 1..N + 1
      PROVE  IsCut(n, L[j]) /\ Cardinality(L[j]) <= Larger(graph.k, 1)
  <2>1. CASE j = N + 1
    <3>1. IsCut(n, {n})
      BY <1>1, CutIs
    <3>2. Cardinality({n}) = 1
      BY FS_Singleton
    <3>3. L[j] = {n}
      BY <1>3, <2>1
    <3>4. 1 <= Larger(graph.k, 1)
      BY <1>1 DEF Larger
    <3> QED
      BY <3>1, <3>2, <3>3, <3>4
  <2>2. CASE j # N + 1
    <3>1. j \in 1..N
      BY <1>1, <2>2
    <3>2. cuts[j] \in RightJoins(n) /\ L[j] = cuts[j].cut
      BY <1>1, <1>3, <3>1
    <3>3. IsCut(n, L[j]) /\ Cardinality(L[j]) <= graph.k /\ L[j] \in SUBSET Vertices
      BY <3>2 DEF RightJoins
    <3>4. Cardinality(L[j]) \in Nat
      BY <3>3, VerticesAre, FS_Subset, FS_CardinalityType
    <3> QED
      BY <1>1, <3>3, <3>4 DEF Larger
  <2> QED
    BY <2>1, <2>2
<1>5. N + 1 <= graph.priority + 1
  BY <1>1 DEF N
<1> QED
  BY <1>3, <1>4, <1>5 DEF RightCuts

LEMMA GateConesAreRight ==
    ASSUME IsGraph, IsParameters, HasCones, NEW n \in Gates, NEW cuts \in Seq(RightJoins(n)),
           NEW L, NEW E, NEW K,
           /\ Len(L) = Len(cuts) + 1 /\ Len(K) = Len(cuts) + 1
           /\ L[Len(cuts) + 1] = {n} /\ K[Len(cuts) + 1] = {n}
           /\ E[Len(cuts) + 1][1] = 0 /\ E[Len(cuts) + 1][2] = 1
           /\ \A j \in 1..Len(cuts) : /\ L[j] = cuts[j].cut /\ K[j] = cuts[j].cone \cup {n}
                                      /\ E[j][1] = Depth(n, cuts[j])
                                      /\ E[j][2] = Cardinality(cuts[j].cone \cup {n})
    PROVE  RightCones(n, L, E, K)
<1> DEFINE N == Len(cuts)
<1>1. N \in Nat /\ \A j \in 1..N : cuts[j] \in RightJoins(n)
  OBVIOUS
<1>2. ASSUME NEW j \in 1..N + 1
      PROVE  /\ IsCone(n, L[j], K[j]) /\ E[j][2] = Cardinality(K[j])
             /\ IsLeveled => PathLength(n, L[j]) <= E[j][1]
  <2>1. CASE j = N + 1
    <3>1. IsCone(n, {n}, {n})
      BY DEF IsCone
    <3>2. Cardinality({n}) = 1
      BY FS_Singleton
    <3>3. PathLength(n, {n}) = 0
      BY PathIs DEF Gates
    <3>4. L[j] = {n} /\ K[j] = {n} /\ E[j][1] = 0 /\ E[j][2] = 1
      BY <2>1
    <3>5. PathLength(n, L[j]) = 0 /\ 0 <= E[j][1]
      BY <3>3, <3>4
    <3> QED
      BY <3>1, <3>2, <3>4, <3>5
  <2>2. CASE j # N + 1
    <3>1. j \in 1..N
      BY <1>1, <2>2
    <3>2. /\ IsCone(n, cuts[j].cut, cuts[j].cone \cup {n})
          /\ IsLeveled => PathLength(n, cuts[j].cut) <= Depth(n, cuts[j])
      BY <1>1, <3>1 DEF RightJoins
    <3>3. /\ L[j] = cuts[j].cut /\ K[j] = cuts[j].cone \cup {n} /\ E[j][2] = Cardinality(cuts[j].cone \cup {n})
          /\ E[j][1] = Depth(n, cuts[j])
      BY <3>1
    <3> QED
      BY <3>2, <3>3
  <2> QED
    BY <2>1, <2>2
<1> QED
  BY <1>2 DEF RightCones

(* What enumerate_node writes for a gate. *)
LEMMA GateIsWritten ==
    ASSUME IsGraph, IsParameters, AreRight(data, cones), NEW n \in Gates, data.count[n] = 0,
           EnumerateNode(n)
    PROVE  /\ AreWritten(data', cones', data, cones, n) /\ data'.count[n] > 0
           /\ SetsOf(data', n) \in Seq(SUBSET Vertices)
           /\ Len(SetsOf(data', n)) = Len(LocalCutsAt(n)) + 1
           /\ \A j \in 1..Len(LocalCutsAt(n)) : SetsOf(data', n)[j] = LocalCutsAt(n)[j].cut
<1> DEFINE cuts == LocalCutsAt(n)
           size(i) == Cardinality(cuts[i].cone \cup {n})
           set(i) == [elements |-> cuts[i].cut, extra |-> ExtraOf(Depth(n, cuts[i]), size(i))]
           coneSet(i) == [elements |-> cuts[i].cone \cup {n}, extra |-> <<>>]
           sets == [i \in DOMAIN cuts |-> set(i)]
           coneSets == [i \in DOMAIN cuts |-> coneSet(i)]
           N == Len(cuts)
<1>1. /\ data \in MemoriesIn(Vertices, Additional, VectorValues) /\ cones \in MemoriesIn(Vertices, 0, VectorValues)
  BY DEF AreRight
<1>2. /\ Additional \in {0, 2} /\ 0 \in {0, 2} /\ Nat \subseteq VectorValues /\ n \in Vertices
      /\ IsNumbers(Vertices, 0, VectorValues) /\ IsNumbers(Vertices, Additional, VectorValues)
  BY VerticesAre DEF Gates
<1>3. cuts \in Seq(RightJoins(n)) /\ N <= graph.priority
  BY LocalCutsAreRight
<1>4. data' = AppendLocal(data, n, sets) /\ cones' = IF ~HasCones THEN cones ELSE AppendLocal(cones, n, coneSets)
  BY Zenon DEF EnumerateNode
<1> HIDE DEF cuts
<1>5. N \in Nat /\ DOMAIN cuts = 1..N /\ \A i \in 1..N : cuts[i] \in RightJoins(n)
  BY <1>3
<1>6. ASSUME NEW i \in 1..N
      PROVE  /\ cuts[i].cut \in SUBSET Vertices /\ cuts[i].cone \cup {n} \in SUBSET Vertices
             /\ size(i) \in Nat /\ Depth(n, cuts[i]) \in VectorValues
  <2>1. /\ cuts[i] \in PossibleJoins /\ cuts[i].cut \in SUBSET Vertices
        /\ cuts[i].cone \cup {n} \in SUBSET Vertices
    BY <1>2, <1>5 DEF RightJoins
  <2>2. size(i) \in Nat
    BY <2>1, VerticesAre, FS_Subset, FS_CardinalityType
  <2>3. Depth(n, cuts[i]) \in VectorValues
    BY <1>2, <2>1 DEF VectorValues
  <2> QED
    BY <2>1, <2>2, <2>3
<1> HIDE DEF size
<1>7. ASSUME NEW i \in 1..N
      PROVE  /\ set(i) \in SetsToStore(Vertices, Additional, VectorValues)
             /\ coneSet(i) \in SetsToStore(Vertices, 0, VectorValues)
             /\ HasCones => set(i).extra[1] = Depth(n, cuts[i]) /\ set(i).extra[2] = size(i)
  <2> DEFINE x == ExtraOf(Depth(n, cuts[i]), size(i))
  <2>1. /\ x \in Seq(VectorValues) /\ Len(x) = Additional
        /\ HasCones => x[1] = Depth(n, cuts[i]) /\ x[2] = size(i)
    <3> DEFINE u == Depth(n, cuts[i])
               y == size(i)
    <3>0. u \in VectorValues /\ y \in VectorValues /\ x = ExtraOf(u, y)
      BY <1>2, <1>6
    <3> HIDE DEF u, y, x
    <3>1. x \in Seq(VectorValues) /\ Len(x) = Additional /\ (HasCones => x[1] = u /\ x[2] = y)
      BY <3>0 DEF ExtraOf, Additional
    <3> QED
      BY <3>1 DEF u, y
  <2>2. <<>> \in Seq(VectorValues) /\ Len(<<>>) = 0
    OBVIOUS
  <2>3. set(i) = [elements |-> cuts[i].cut, extra |-> x]
    OBVIOUS
  <2> HIDE DEF x
  <2> QED
    BY <1>6, <2>1, <2>2, <2>3 DEF SetsToStore
<1>8. /\ sets \in Seq(SetsToStore(Vertices, Additional, VectorValues)) /\ Len(sets) = N
      /\ coneSets \in Seq(SetsToStore(Vertices, 0, VectorValues)) /\ Len(coneSets) = N
      /\ \A i \in 1..N : sets[i] = set(i) /\ coneSets[i] = coneSet(i)
  <2> HIDE DEF set, coneSet, N
  <2>1. /\ sets \in [1..N -> SetsToStore(Vertices, Additional, VectorValues)]
        /\ coneSets \in [1..N -> SetsToStore(Vertices, 0, VectorValues)]
    BY <1>5, <1>7
  <2>2. \A i \in 1..N : sets[i] = set(i) /\ coneSets[i] = coneSet(i)
    BY <1>5
  <2> HIDE DEF sets, coneSets
  <2>3. sets \in Seq(SetsToStore(Vertices, Additional, VectorValues)) /\ Len(sets) = N
    BY <1>5, <2>1
  <2>4. coneSets \in Seq(SetsToStore(Vertices, 0, VectorValues)) /\ Len(coneSets) = N
    BY <1>5, <2>1
  <2> QED
    BY <2>2, <2>3, <2>4
<1>9. \A i \in 1..N : /\ sets[i].elements = cuts[i].cut /\ coneSets[i].elements = cuts[i].cone \cup {n}
                      /\ HasCones => sets[i].extra[1] = Depth(n, cuts[i]) /\ sets[i].extra[2] = size(i)
  <2> HIDE DEF sets, coneSets, N, size
  <2>1. \A i \in 1..N : set(i).elements = cuts[i].cut /\ coneSet(i).elements = cuts[i].cone \cup {n}
    OBVIOUS
  <2> HIDE DEF set, coneSet
  <2>2. \A i \in 1..N : HasCones => set(i).extra[1] = Depth(n, cuts[i]) /\ set(i).extra[2] = size(i)
    BY <1>7
  <2>3. \A i \in 1..N : sets[i] = set(i) /\ coneSets[i] = coneSet(i)
    BY <1>8
  <2> QED
    BY <2>1, <2>2, <2>3
<1> HIDE DEF sets, coneSets, set, coneSet, N
<1> DEFINE cut == ElementsOf(sets, N)
           cone == ElementsOf(coneSets, N)
           extra == ExtrasOf(sets, N)
           L == Append(cut, {n})
           K == Append(cone, {n})
           E == Append(extra, OwnExtra(Additional))
           F == Append(ExtrasOf(coneSets, N), OwnExtra(0))
<1>10. /\ GrowsIn(Vertices, Additional, VectorValues, data', data, n)
       /\ HoldsIn(Vertices, VectorValues, data', n, L, E, Len(data'.data))
  <2> HIDE DEF L, E
  <2>1. /\ GrowsIn(Vertices, Additional, VectorValues, data', data, n)
        /\ HoldsIn(Vertices, VectorValues, data', n, Append(ElementsOf(sets, Len(sets)), {n}),
                   Append(ExtrasOf(sets, Len(sets)), OwnExtra(Additional)), Len(data'.data))
    BY <1>1, <1>2, <1>4, <1>8, AppendLocalIs, Zenon
  <2> QED
    BY <1>8, <2>1 DEF L, E
<1>11. HasCones => /\ GrowsIn(Vertices, 0, VectorValues, cones', cones, n)
                   /\ HoldsIn(Vertices, VectorValues, cones', n, K, F, Len(cones'.data))
  <2> SUFFICES ASSUME HasCones
               PROVE  /\ GrowsIn(Vertices, 0, VectorValues, cones', cones, n)
                      /\ HoldsIn(Vertices, VectorValues, cones', n, K, F, Len(cones'.data))
    OBVIOUS
  <2> HIDE DEF K, F
  <2>1. cones.count[n] = 0 /\ cones' = AppendLocal(cones, n, coneSets)
    BY <1>2, <1>4, CountsAgree
  <2>2. /\ GrowsIn(Vertices, 0, VectorValues, cones', cones, n)
        /\ HoldsIn(Vertices, VectorValues, cones', n, Append(ElementsOf(coneSets, Len(coneSets)), {n}),
                   Append(ExtrasOf(coneSets, Len(coneSets)), OwnExtra(0)), Len(cones'.data))
    BY <1>1, <1>2, <2>1, <1>8, AppendLocalIs, Zenon
  <2> QED
    BY <1>8, <2>2 DEF K, F
<1>12. /\ cut \in Seq(SUBSET Vertices) /\ Len(cut) = N /\ \A i \in 1..N : cut[i] = cuts[i].cut
       /\ cone \in Seq(SUBSET Vertices) /\ Len(cone) = N /\ \A i \in 1..N : cone[i] = cuts[i].cone \cup {n}
  <2>1. cut = [i \in 1..N |-> cuts[i].cut] /\ cone = [i \in 1..N |-> cuts[i].cone \cup {n}]
    BY <1>9 DEF ElementsOf
  <2> HIDE DEF cut, cone
  <2>2. cut \in [1..N -> SUBSET Vertices] /\ cone \in [1..N -> SUBSET Vertices]
    BY <1>6, <2>1
  <2>3. cut \in Seq(SUBSET Vertices) /\ Len(cut) = N
    BY <1>5, <2>2
  <2>4. cone \in Seq(SUBSET Vertices) /\ Len(cone) = N
    BY <1>5, <2>2
  <2> QED
    BY <2>1, <2>3, <2>4
<1>13. /\ extra \in Seq(Seq(VectorValues)) /\ Len(extra) = N
       /\ \A i \in 1..N : HasCones => extra[i][1] = Depth(n, cuts[i]) /\ extra[i][2] = size(i)
  <2>1. extra = [i \in 1..N |-> sets[i].extra]
    BY DEF ExtrasOf
  <2>2. \A i \in 1..N : sets[i].extra \in Seq(VectorValues)
    <3> TAKE i \in 1..N
    <3>1. sets[i] \in SetsToStore(Vertices, Additional, VectorValues)
      BY <1>5, <1>8
    <3> QED
      BY <3>1 DEF SetsToStore
  <2> HIDE DEF extra
  <2>3. extra \in [1..N -> Seq(VectorValues)]
    BY <2>1, <2>2
  <2>4. extra \in Seq(Seq(VectorValues)) /\ Len(extra) = N
    BY <1>5, <2>3
  <2> QED
    BY <1>9, <2>1, <2>4
<1>14. /\ WithOwn(SUBSET Vertices, cut, {n}, L) /\ WithOwn(SUBSET Vertices, cone, {n}, K)
       /\ WithOwn(Seq(VectorValues), extra, OwnExtra(Additional), E)
  <2>1. {n} \in SUBSET Vertices /\ OwnExtra(Additional) \in Seq(VectorValues)
    <3>1. 0 \in VectorValues /\ 1 \in VectorValues
      BY <1>2
    <3> QED
      BY <1>2, <3>1 DEF OwnExtra
  <2> HIDE DEF cut, cone, extra
  <2> QED
    BY <1>12, <1>13, <2>1, OwnIsLast
<1>15. (OwnExtra(Additional)[1] = 0 /\ OwnExtra(Additional)[2] = 1) \/ ~HasCones
  BY DEF OwnExtra, Additional
<1> HIDE DEF cut, cone, extra, L, K, E, F
<1>16. RightCuts(n, L)
  <2>1. cut = [j \in 1..Len(cuts) |-> cuts[j].cut]
    <3>1. cut = [j \in 1..N |-> cut[j]]
      BY <1>5, <1>12
    <3>2. [j \in 1..N |-> cut[j]] = [j \in 1..N |-> cuts[j].cut]
      BY <1>12
    <3> QED
      BY <3>1, <3>2 DEF N
  <2>2. Len(cuts) <= graph.priority
    BY <1>3 DEF N
  <2> QED
    BY <1>3, <1>14, <2>1, <2>2, GateIsRight
<1>17. HasCones => RightCones(n, L, E, K)
  <2> SUFFICES ASSUME HasCones PROVE RightCones(n, L, E, K)
    OBVIOUS
  <2>1. /\ Len(L) = N + 1 /\ Len(K) = N + 1 /\ L[N + 1] = {n} /\ K[N + 1] = {n}
        /\ \A j \in 1..N : L[j] = cuts[j].cut /\ K[j] = cuts[j].cone \cup {n}
    BY <1>12, <1>14 DEF WithOwn
  <2>2. /\ E[N + 1][1] = 0 /\ E[N + 1][2] = 1
        /\ \A j \in 1..N : E[j][1] = Depth(n, cuts[j]) /\ E[j][2] = Cardinality(cuts[j].cone \cup {n})
    BY <1>13, <1>14, <1>15 DEF WithOwn, size
  <2> QED
    BY <1>3, <2>1, <2>2, GateConesAreRight DEF N
<1>18. StoresRight(data', cones', n)
  BY <1>10, <1>11, <1>16, <1>17, Zenon DEF StoresRight
<1>19. cones' \in MemoriesIn(Vertices, 0, VectorValues)
  BY <1>1, <1>4, <1>11 DEF GrowsIn
<1>20. /\ SetsOf(data', n) = L /\ Len(L) = N + 1 /\ \A j \in 1..N : L[j] = cuts[j].cut
       /\ data'.count[n] = N + 1 /\ L \in Seq(SUBSET Vertices)
  <2>1. data' \in MemoriesIn(Vertices, Additional, VectorValues) /\ Additional \in Nat
    BY <1>2, <1>10 DEF GrowsIn
  <2>2. HoldsIn(Vertices, VectorValues, data', n, L, E, Len(data'.data))
    BY <1>10
  <2> DEFINE m == data'
  <2> HIDE DEF m
  <2>3. SetsOf(m, n) = L
    <3>1. /\ m \in MemoriesIn(Vertices, Additional, VectorValues) /\ Additional \in Nat /\ n \in Vertices
          /\ HoldsIn(Vertices, VectorValues, m, n, L, E, Len(m.data))
      BY <1>2, <2>1, <2>2 DEF m
    <3> DEFINE e == Len(m.data)
    <3> HIDE DEF e
    <3>2. HoldsIn(Vertices, VectorValues, m, n, L, E, e)
      BY <3>1 DEF e
    <3> QED
      BY <3>1, <3>2, HoldsIsSets
  <2>5. m.count[n] = Len(L)
    BY <2>2 DEF m, HoldsIn
  <2>4. L \in Seq(SUBSET Vertices) /\ Len(L) = N + 1 /\ \A j \in 1..N : L[j] = cuts[j].cut
    BY <1>12, <1>14 DEF WithOwn
  <2> QED
    BY <2>3, <2>4, <2>5 DEF m
<1>21. AreWritten(data', cones', data, cones, n)
  BY <1>10, <1>11, <1>18, <1>19 DEF AreWritten
<1>22. N + 1 > 0
  BY <1>5
<1> QED
  BY <1>20, <1>21, <1>22 DEF cuts, N

-------------------------------------------------------------------------------
(* The initial states. *)
LEMMA NewMemory ==
    ASSUME NEW top \in Nat, NEW z, NEW D, NEW m, m = Memory(Cardinality(0..top), z)
    PROVE  /\ m \in MemoriesIn(0..top, z, D)
           /\ \A n \in 0..top : m.count[n] = 0 /\ HoldsIn(0..top, D, m, n, <<>>, <<>>, m.offset[n])
<1>1. Cardinality(0..top) = top + 1
  <2>1. 0 \in Int /\ top \in Int
    OBVIOUS
  <2>2. Cardinality(0..top) = IF 0 > top THEN 0 ELSE top - 0 + 1
    BY <2>1, FS_Interval, Zenon
  <2> QED
    BY <2>2
<1>2. m = [data |-> <<>>, capacity |-> 2 * (top + 1), additional |-> z,
           offset |-> [i \in 0..top |-> 0], count |-> [i \in 0..top |-> 0]]
  <2>1. (top + 1) - 1 = top
    OBVIOUS
  <2> QED
    BY <1>1, <2>1 DEF Memory
<1>3. m \in MemoriesIn(0..top, z, D)
  <2> DEFINE o == [i \in 0..top |-> 0]
             y == 2 * (top + 1)
  <2>1. y \in Nat /\ <<>> \in Seq(D) /\ o \in [0..top -> Nat]
    OBVIOUS
  <2>2. m = [data |-> <<>>, capacity |-> y, additional |-> z, offset |-> o, count |-> o]
    BY <1>2
  <2> DEFINE T == [0..top -> Nat]
             U == Seq(D)
             s == <<>>
  <2>3. s \in U /\ y \in Nat /\ o \in T
    BY <2>1
  <2>4. m = [data |-> s, capacity |-> y, additional |-> z, offset |-> o, count |-> o]
    BY <2>2
  <2> HIDE DEF o, y, T, U, s
  <2>5. m \in [data : U, capacity : Nat, additional : {z}, offset : T, count : T]
    BY <2>3, <2>4
  <2> QED
    BY <2>5 DEF MemoriesIn, T, U
<1>4. ASSUME NEW n \in 0..top
      PROVE  m.count[n] = 0 /\ m.offset[n] <= Len(m.data)
  BY <1>2
<1> QED
  BY <1>3, <1>4, HoldsNone

LEMMA NothingIsRight ==
    ASSUME IsParameters, NEW n \in Vertices
    PROVE  RightCuts(n, <<>>) /\ RightCones(n, <<>>, <<>>, <<>>)
<1>1. graph.priority \in Nat /\ Len(<<>>) = 0 /\ 1..0 = {}
  BY DEF IsParameters
<1> QED
  BY <1>1 DEF RightCuts, RightCones

LEMMA InitIsRight ==
    ASSUME NEW top \in Nat, NEW size \in Nat, NEW most \in Nat, NEW kind \in {"aig", "mig", "xmg"},
           NEW children \in [0..top -> Seq(0..top)], children[0] = <<>>,
           \A n \in 0..top : \A i \in DOMAIN children[n] : children[n][i] < n,
           NEW b, Start(kind, children, size, most, b)
    PROVE  /\ IsGraph /\ IsParameters /\ AreRight(data, cones)
           /\ Vertices = 0..top /\ \A n \in Vertices : data.count[n] = 0
<1>1. /\ graph.children = children /\ graph.kind = kind /\ graph.k = size /\ graph.priority = most
      /\ data = Memory(Cardinality(DOMAIN children), IF kind = "aig" THEN 0 ELSE 2)
      /\ cones = Memory(Cardinality(DOMAIN children), 0)
  BY DEF Start
<1>2. Vertices = 0..top /\ DOMAIN children = 0..top
  BY <1>1 DEF Vertices
<1>3. IsGraph
  BY <1>1, <1>2 DEF IsGraph, Children
<1>4. IsParameters
  BY <1>1 DEF IsParameters
<1>5. Additional = IF kind = "aig" THEN 0 ELSE 2
  BY <1>1 DEF Additional, HasCones
<1>6. /\ data \in MemoriesIn(0..top, Additional, VectorValues)
      /\ \A n \in 0..top : /\ data.count[n] = 0
                           /\ HoldsIn(0..top, VectorValues, data, n, <<>>, <<>>, data.offset[n])
  BY <1>1, <1>2, <1>5, NewMemory
<1>7. /\ cones \in MemoriesIn(0..top, 0, VectorValues)
      /\ \A n \in 0..top : HoldsIn(0..top, VectorValues, cones, n, <<>>, <<>>, cones.offset[n])
  BY <1>1, <1>2, NewMemory
<1>8. ASSUME NEW n \in Vertices
      PROVE  StoresRight(data, cones, n)
  <2>1. RightCuts(n, <<>>) /\ RightCones(n, <<>>, <<>>, <<>>)
    BY <1>4, NothingIsRight
  <2>2. /\ HoldsIn(Vertices, VectorValues, data, n, <<>>, <<>>, data.offset[n])
        /\ HoldsIn(Vertices, VectorValues, cones, n, <<>>, <<>>, cones.offset[n])
    BY <1>2, <1>6, <1>7
  <2> QED
    BY <2>1, <2>2, Zenon DEF StoresRight
<1>9. AreRight(data, cones)
  BY <1>2, <1>6, <1>7, <1>8 DEF AreRight
<1> QED
  BY <1>2, <1>3, <1>4, <1>6, <1>9

LEMMA ReverseIs ==
    ASSUME NEW X, NEW s \in Seq(X)
    PROVE  SeqExt!Reverse(s) \in Seq(X)
<1> DEFINE n == Len(s)
<1>1. n \in Nat /\ \A i \in 1..n : s[i] \in X /\ (n - i) + 1 \in 1..n
    OBVIOUS
<1>2. SeqExt!Reverse(s) = [i \in 1..n |-> s[(n - i) + 1]]
    BY DEF SeqExt!Reverse
<1> HIDE DEF n
<1>3. [i \in 1..n |-> s[(n - i) + 1]] \in [1..n -> X]
    BY <1>1
<1> QED
    BY <1>1, <1>2, <1>3, IsASequence

LEMMA InitEnumeration == EnumerationInit => EnumerationInv
<1> SUFFICES ASSUME EnumerationInit PROVE EnumerationInv
  OBVIOUS
<1>1. PICK top \in Nat, size \in Nat, most \in Nat, kind \in {"aig", "mig", "xmg"} :
        \E children \in [0..top -> Seq(0..top)] :
            /\ children[0] = <<>>
            /\ \A n \in 0..top : \A i \in DOMAIN children[n] : children[n][i] < n
            /\ \/ StartAll(kind, children, size, most)
               \/ \E start \in Seq(0..top), boundary \in SUBSET (0..top) :
                    StartPartial(kind, children, size, most, start, boundary)
  BY Zenon DEF EnumerationInit
<1>2. PICK children \in [0..top -> Seq(0..top)] :
        /\ children[0] = <<>>
        /\ \A n \in 0..top : \A i \in DOMAIN children[n] : children[n][i] < n
        /\ \/ StartAll(kind, children, size, most)
           \/ \E start \in Seq(0..top), boundary \in SUBSET (0..top) :
                StartPartial(kind, children, size, most, start, boundary)
  BY <1>1
<1>3. IsFiniteSet(0..top) /\ 0..top \subseteq Nat /\ DOMAIN children = 0..top
  <2>1. 0 \in Int /\ top \in Int
    OBVIOUS
  <2> QED
    BY <2>1, FS_Interval
<1>4. CASE StartAll(kind, children, size, most)
  <2> DEFINE t == Ascending(0..top)
  <2>1. /\ Start(kind, children, size, most, {})
        /\ work = [todo |-> Ascending(0..top), stack |-> <<>>,
                   colors |-> [n \in 0..top |-> 2], leafs |-> <<>>]
    BY <1>3, <1>4 DEF StartAll
  <2>2. /\ IsGraph /\ IsParameters /\ AreRight(data, cones)
        /\ Vertices = 0..top /\ \A n \in Vertices : data.count[n] = 0
    BY <1>2, <2>1, InitIsRight
  <2>3. /\ t \in Seq(0..top)
        /\ \A i, j \in 1..Len(t) : t[i] = t[j] => i = j
    <3>1. /\ Cardinality(0..top) \in Nat /\ t \in [1..Cardinality(0..top) -> 0..top]
          /\ \A i, j \in 1..Cardinality(0..top) : t[i] = t[j] => i = j
      BY <1>3, AscendingLists
    <3> DEFINE number == Cardinality(0..top)
    <3> HIDE DEF t, number
    <3>2. t \in Seq(0..top)
      BY <3>1, IsASequence DEF number
    <3>3. Len(t) = number
      BY <3>1, <3>2 DEF number
    <3> QED
      BY <3>1, <3>2, <3>3 DEF number
  <2>4. work = [todo |-> t, stack |-> <<>>, colors |-> [n \in 0..top |-> 2], leafs |-> <<>>]
    BY <2>1
  <2> HIDE DEF t
  <2>5. /\ IsWork(work) /\ work.todo = t /\ work.leafs = <<>>
        /\ \A n \in Vertices : work.colors[n] = 2
    BY <2>2, <2>3, <2>4 DEF IsWork
  <2>6. IsListedOnce(work) /\ UnfinishedIsNew(work, data)
    BY <2>2, <2>3, <2>5 DEF IsListedOnce, UnfinishedIsNew
  <2>7. TodoIsNew(work, data) /\ LeafsAreApart(work)
    <3>1. \A i \in 1..Len(t) : t[i] \in Vertices
      BY <2>2, <2>3
    <3> QED
      BY <2>2, <2>5, <3>1 DEF TodoIsNew, LeafsAreApart
  <2> QED
    BY <2>2, <2>5, <2>6, <2>7 DEF EnumerationInv, IsPending
<1>5. CASE \E start \in Seq(0..top), boundary \in SUBSET (0..top) :
                StartPartial(kind, children, size, most, start, boundary)
  <2>1. PICK start \in Seq(0..top), boundary \in SUBSET (0..top) :
                StartPartial(kind, children, size, most, start, boundary)
    BY <1>5
  <2> DEFINE B == boundary \cup {0}
             t == Ascending(boundary \cup {0})
             c == [n \in 0..top |-> IF n \in B THEN 2 ELSE 0]
  <2>2. /\ Start(kind, children, size, most, B)
        /\ work = [todo |-> <<>>, stack |-> SeqExt!Reverse(start), colors |-> c, leafs |-> t]
    BY <1>3, <2>1 DEF StartPartial
  <2>3. /\ IsGraph /\ IsParameters /\ AreRight(data, cones)
        /\ Vertices = 0..top /\ \A n \in Vertices : data.count[n] = 0
    BY <1>2, <2>2, InitIsRight
  <2>4. t \in Seq(B)
    <3>1. IsFiniteSet(B) /\ B \subseteq Nat
      <4>1. B \subseteq 0..top
        OBVIOUS
      <4> HIDE DEF B
      <4> QED
        BY <1>3, <4>1, FS_Subset
    <3>2. Cardinality(B) \in Nat /\ t \in [1..Cardinality(B) -> B]
      BY <3>1, AscendingLists
    <3> HIDE DEF t, B
    <3> QED
      BY <3>2, IsASequence
  <2>5. B \subseteq 0..top /\ (\A n \in B : c[n] = 2) /\ c \in [0..top -> {0, 1, 2}]
        /\ SeqExt!Reverse(start) \in Seq(0..top)
    BY <2>1, ReverseIs
  <2> HIDE DEF t, B, c
  <2>6. t \in Seq(0..top) /\ \A i \in 1..Len(t) : c[t[i]] = 2
    <3>1. \A i \in 1..Len(t) : t[i] \in B
      BY <2>4
    <3>2. Len(t) \in Nat /\ t \in [1..Len(t) -> B]
      BY <2>4
    <3>3. t \in [1..Len(t) -> 0..top]
      BY <2>5, <3>1, <3>2
    <3>4. t \in Seq(0..top)
      BY <3>2, <3>3, IsASequence
    <3> QED
      BY <2>5, <3>1, <3>4
  <2>7. IsWork(work) /\ work.todo = <<>> /\ work.colors = c /\ work.leafs = t
    BY <2>2, <2>3, <2>5, <2>6 DEF IsWork
  <2>8. IsListedOnce(work) /\ UnfinishedIsNew(work, data) /\ TodoIsNew(work, data)
    BY <2>3, <2>7 DEF IsListedOnce, UnfinishedIsNew, TodoIsNew
  <2>9. LeafsAreApart(work)
    BY <2>6, <2>7 DEF LeafsAreApart
  <2> QED
    BY <2>3, <2>7, <2>8, <2>9 DEF EnumerationInv, IsPending
<1> QED
  BY <1>2, <1>4, <1>5

-------------------------------------------------------------------------------
(* The steps. *)
LEMMA OthersCount ==
    ASSUME NEW q, NEW d, NEW m, NEW c, NEW w, AreWritten(q, d, m, c, w)
    PROVE  \A n \in Vertices : n # w => q.count[n] = m.count[n]
BY DEF AreWritten, GrowsIn

LEMMA WorkIs ==
    ASSUME NEW w, IsWork(w)
    PROVE  /\ w.todo \in Seq(Vertices) /\ w.stack \in Seq(Vertices) /\ w.leafs \in Seq(Vertices)
           /\ w.colors \in [Vertices -> {0, 1, 2}]
           /\ w = [todo |-> w.todo, stack |-> w.stack, leafs |-> w.leafs, colors |-> w.colors]
BY DEF IsWork

(* A sequence without its head. *)
LEMMA TailIs ==
    ASSUME NEW X, NEW s \in Seq(X), s # <<>>
    PROVE  /\ Head(s) \in X /\ Head(s) = s[1] /\ 1 \in 1..Len(s)
           /\ Tail(s) \in Seq(X) /\ Len(Tail(s)) = Len(s) - 1 /\ Len(s) \in Nat
           /\ \A i \in 1..Len(Tail(s)) : i + 1 \in 1..Len(s) /\ i + 1 # 1 /\ Tail(s)[i] = s[i + 1]
OBVIOUS

LEMMA AssignBoundaryInv ==
    ASSUME EnumerationInv, AssignBoundary
    PROVE  EnumerationInv'
<1> DEFINE h == Head(work.leafs)
           t == Tail(work.leafs)
<1>1. IsGraph /\ IsParameters /\ AreRight(data, cones) /\ IsPending(work, data)
  BY DEF EnumerationInv
<1>2. work.leafs # <<>> /\ AssignLeaf(h) /\ work' = [work EXCEPT !.leafs = t] /\ UNCHANGED graph
  BY DEF AssignBoundary
<1>3. IsWork(work) /\ IsListedOnce(work) /\ TodoIsNew(work, data) /\ UnfinishedIsNew(work, data)
      /\ LeafsAreApart(work)
  BY <1>1 DEF IsPending
<1>4. /\ h \in Vertices /\ h = work.leafs[1] /\ 1 \in 1..Len(work.leafs)
      /\ t \in Seq(Vertices)
      /\ \A i \in 1..Len(t) : i + 1 \in 1..Len(work.leafs) /\ t[i] = work.leafs[i + 1]
  <2>1. work.leafs \in Seq(Vertices)
    BY <1>3, WorkIs
  <2> QED
    BY <1>2, <2>1, TailIs
<1> HIDE DEF h, t
<1>5. AreWritten(data', cones', data, cones, h)
  BY <1>1, <1>2, <1>4, LeafIsWritten
<1>6. AreRight(data', cones')
  BY <1>1, <1>4, <1>5, AreRightNext
<1>7. \A n \in Vertices : n # h => data'.count[n] = data.count[n]
  BY <1>5, OthersCount
<1>8. IsWork(work') /\ work'.todo = work.todo /\ work'.colors = work.colors /\ work'.leafs = t
  BY <1>2, <1>3, <1>4 DEF IsWork
<1>9. work.colors[h] = 2 /\ \A j \in 1..Len(work.todo) : work.todo[j] # h /\ work.todo[j] \in Vertices
  <2>1. work.todo \in Seq(Vertices)
    BY <1>3, WorkIs
  <2> QED
    BY <1>3, <1>4, <2>1 DEF LeafsAreApart
<1>10. IsListedOnce(work')
  BY <1>3, <1>8 DEF IsListedOnce
<1>11. TodoIsNew(work', data')
  BY <1>3, <1>7, <1>8, <1>9 DEF TodoIsNew
<1>12. UnfinishedIsNew(work', data')
  BY <1>3, <1>7, <1>8, <1>9 DEF UnfinishedIsNew
<1>13. LeafsAreApart(work')
  BY <1>3, <1>4, <1>8 DEF LeafsAreApart
<1> QED
  BY <1>1, <1>2, <1>6, <1>8, <1>10, <1>11, <1>12, <1>13, GraphStays DEF IsPending

LEMMA VisitInv ==
    ASSUME EnumerationInv, Visit
    PROVE  EnumerationInv'
<1> DEFINE n == Head(work.stack)
<1>1. IsGraph /\ IsParameters /\ AreRight(data, cones) /\ IsPending(work, data)
  BY DEF EnumerationInv
<1>2. IsWork(work) /\ IsListedOnce(work) /\ TodoIsNew(work, data) /\ UnfinishedIsNew(work, data)
  BY <1>1 DEF IsPending
<1>3. /\ work.leafs = <<>> /\ work.stack # <<>> /\ UNCHANGED <<graph, data, cones>>
      /\ work' = CASE work.colors[n] = 0 ->
                        [work EXCEPT !.colors[n] = 1, !.stack = Children(n) \o @]
                   [] work.colors[n] = 1 ->
                        [work EXCEPT !.colors[n] = 2, !.todo = Append(@, n), !.stack = Tail(@)]
                   [] work.colors[n] = 2 -> [work EXCEPT !.stack = Tail(@)]
  BY DEF Visit
<1>4. /\ work.todo \in Seq(Vertices) /\ work.stack \in Seq(Vertices) /\ work.leafs \in Seq(Vertices)
      /\ work.colors \in [Vertices -> {0, 1, 2}]
      /\ Len(work.todo) \in Nat /\ \A i \in 1..Len(work.todo) : work.todo[i] \in Vertices
      /\ n \in Vertices /\ Tail(work.stack) \in Seq(Vertices)
  <2>1. /\ work.todo \in Seq(Vertices) /\ work.stack \in Seq(Vertices) /\ work.leafs \in Seq(Vertices)
        /\ work.colors \in [Vertices -> {0, 1, 2}]
    BY <1>2, WorkIs
  <2>2. n \in Vertices /\ Tail(work.stack) \in Seq(Vertices)
    BY <1>3, <2>1, TailIs
  <2>3. Len(work.todo) \in Nat /\ \A i \in 1..Len(work.todo) : work.todo[i] \in Vertices
    BY <2>1
  <2> QED
    BY <2>1, <2>2, <2>3
<1> HIDE DEF n
<1>5. AreRight(data', cones') /\ data' = data /\ UNCHANGED graph
  BY <1>1, <1>3
<1>6. CASE work.colors[n] = 0
  <2>1. work' = [work EXCEPT !.colors[n] = 1, !.stack = Children(n) \o @]
    BY <1>3, <1>6
  <2>2. Children(n) \o work.stack \in Seq(Vertices)
    BY <1>1, <1>4, ChildrenBelow, Sequence
  <2>3. /\ IsWork(work') /\ work'.todo = work.todo /\ work'.leafs = <<>>
        /\ work'.colors = [work.colors EXCEPT ![n] = 1]
    BY <1>2, <1>3, <1>4, <2>1, <2>2, ZenonT(40) DEF IsWork
  <2>4. /\ \A x \in Vertices : x # n => work'.colors[x] = work.colors[x]
        /\ work'.colors[n] = 1
    BY <1>4, <2>3
  <2>5. IsListedOnce(work') /\ LeafsAreApart(work')
    BY <1>2, <2>3 DEF IsListedOnce, LeafsAreApart
  <2>6. TodoIsNew(work', data')
    BY <1>2, <1>4, <1>5, <1>6, <2>3, <2>4 DEF TodoIsNew
  <2>7. UnfinishedIsNew(work', data')
    BY <1>2, <1>5, <1>6, <2>4 DEF UnfinishedIsNew
  <2> QED
    BY <1>1, <1>5, <2>3, <2>5, <2>6, <2>7, GraphStays DEF IsPending
<1>7. CASE work.colors[n] = 1
  <2> DEFINE t == Append(work.todo, n)
             l == Len(work.todo)
  <2>1. work' = [work EXCEPT !.colors[n] = 2, !.todo = t, !.stack = Tail(@)]
    BY <1>3, <1>7
  <2>2. t \in Seq(Vertices) /\ Len(t) = l + 1 /\ t[l + 1] = n /\ \A i \in 1..l : t[i] = work.todo[i]
    BY <1>4
  <2> HIDE DEF t
  <2>3. /\ IsWork(work') /\ work'.todo = t /\ work'.leafs = <<>>
        /\ work'.colors = [work.colors EXCEPT ![n] = 2]
    <3> DEFINE c == [work.colors EXCEPT ![n] = 2]
               s == Tail(work.stack)
    <3>1. c \in [Vertices -> {0, 1, 2}] /\ s \in Seq(Vertices)
      BY <1>4
    <3>2. work' = [work EXCEPT !.colors = c, !.todo = t, !.stack = s]
      BY <1>2, <2>1 DEF IsWork
    <3> HIDE DEF c, s
    <3>3. IsWork(work') /\ work'.todo = t /\ work'.leafs = work.leafs /\ work'.colors = c
      BY <1>2, <2>2, <3>1, <3>2 DEF IsWork
    <3> QED
      BY <1>3, <3>3 DEF c
  <2>4. /\ \A x \in Vertices : x # n => work'.colors[x] = work.colors[x]
        /\ work'.colors[n] = 2
    BY <1>4, <2>3
  <2>5. (\A i \in 1..l : work.todo[i] # n) /\ data.count[n] = 0
    BY <1>2, <1>4, <1>7 DEF TodoIsNew, UnfinishedIsNew
  <2>6. \A i \in 1..Len(t) : i = l + 1 \/ i \in 1..l
    BY <1>4, <2>2
  <2>7. IsListedOnce(work')
    BY <1>2, <2>2, <2>3, <2>5, <2>6 DEF IsListedOnce
  <2>8. TodoIsNew(work', data')
    BY <1>2, <1>4, <1>5, <2>2, <2>3, <2>4, <2>5, <2>6, SMTT(40) DEF TodoIsNew
  <2>9. UnfinishedIsNew(work', data') /\ LeafsAreApart(work')
    BY <1>2, <1>5, <2>3, <2>4 DEF UnfinishedIsNew, LeafsAreApart
  <2> QED
    BY <1>1, <1>5, <2>3, <2>7, <2>8, <2>9, GraphStays DEF IsPending
<1>8. CASE work.colors[n] = 2
  <2>1. work' = [work EXCEPT !.stack = Tail(@)]
    BY <1>3, <1>8
  <2>2. /\ IsWork(work') /\ work'.todo = work.todo /\ work'.leafs = <<>> /\ work'.colors = work.colors
    BY <1>2, <1>3, <1>4, <2>1 DEF IsWork
  <2>3. IsListedOnce(work') /\ TodoIsNew(work', data') /\ UnfinishedIsNew(work', data') /\ LeafsAreApart(work')
    BY <1>2, <1>5, <2>2 DEF IsListedOnce, TodoIsNew, UnfinishedIsNew, LeafsAreApart
  <2> QED
    BY <1>1, <1>5, <2>2, <2>3, GraphStays DEF IsPending
<1>9. work.colors[n] \in {0, 1, 2}
  BY <1>4
<1> QED
  BY <1>6, <1>7, <1>8, <1>9

LEMMA EnumerateNextInv ==
    ASSUME EnumerationInv, EnumerateNext
    PROVE  EnumerationInv'
<1> DEFINE h == Head(work.todo)
           t == Tail(work.todo)
<1>1. IsGraph /\ IsParameters /\ AreRight(data, cones) /\ IsPending(work, data)
  BY DEF EnumerationInv
<1>2. /\ work.leafs = <<>> /\ work.todo # <<>> /\ UNCHANGED graph
      /\ IF h \in Gates THEN EnumerateNode(h) ELSE AssignLeaf(h)
      /\ work' = [work EXCEPT !.todo = t]
  BY DEF EnumerateNext
<1>3. IsWork(work) /\ IsListedOnce(work) /\ TodoIsNew(work, data) /\ UnfinishedIsNew(work, data)
  BY <1>1 DEF IsPending
<1>4. /\ h \in Vertices /\ h = work.todo[1] /\ 1 \in 1..Len(work.todo)
      /\ t \in Seq(Vertices) /\ \A i \in 1..Len(t) : t[i] \in Vertices
      /\ \A i \in 1..Len(t) : i + 1 \in 1..Len(work.todo) /\ i + 1 # 1 /\ t[i] = work.todo[i + 1]
  <2>1. work.todo \in Seq(Vertices)
    BY <1>3, WorkIs
  <2>2. /\ h \in Vertices /\ h = work.todo[1] /\ 1 \in 1..Len(work.todo) /\ t \in Seq(Vertices)
        /\ \A i \in 1..Len(t) : i + 1 \in 1..Len(work.todo) /\ i + 1 # 1 /\ t[i] = work.todo[i + 1]
    BY <1>2, <2>1, TailIs
  <2> HIDE DEF t
  <2> QED
    BY <2>2
<1> HIDE DEF h, t
<1>5. work.colors[h] = 2 /\ data.count[h] = 0
  BY <1>3, <1>4 DEF TodoIsNew
<1>6. AreWritten(data', cones', data, cones, h)
  <2>1. CASE h \in Gates
    BY <1>1, <1>2, <1>5, <2>1, GateIsWritten
  <2>2. CASE h \notin Gates
    BY <1>1, <1>2, <1>4, <2>2, LeafIsWritten
  <2> QED
    BY <2>1, <2>2
<1>7. AreRight(data', cones')
  BY <1>1, <1>4, <1>6, AreRightNext
<1>8. \A n \in Vertices : n # h => data'.count[n] = data.count[n]
  BY <1>6, OthersCount
<1>9. IsWork(work') /\ work'.todo = t /\ work'.colors = work.colors /\ work'.leafs = <<>>
  BY <1>2, <1>3, <1>4 DEF IsWork
<1>10. IsListedOnce(work')
  <2> SUFFICES ASSUME NEW i \in 1..Len(t), NEW j \in 1..Len(t), t[i] = t[j] PROVE i = j
    BY <1>9 DEF IsListedOnce
  <2>1. i + 1 = j + 1
    BY <1>3, <1>4 DEF IsListedOnce
  <2> QED
    BY <2>1
<1>11. \A i \in 1..Len(t) : t[i] # h
  BY <1>3, <1>4 DEF IsListedOnce
<1>12. TodoIsNew(work', data')
  BY <1>3, <1>4, <1>8, <1>9, <1>11, SMTT(40) DEF TodoIsNew
<1>13. UnfinishedIsNew(work', data')
  BY <1>3, <1>5, <1>8, <1>9 DEF UnfinishedIsNew
<1>14. LeafsAreApart(work')
  BY <1>9 DEF LeafsAreApart
<1> QED
  BY <1>1, <1>2, <1>7, <1>9, <1>10, <1>12, <1>13, <1>14, GraphStays DEF IsPending

-------------------------------------------------------------------------------
LEMMA EnumerationStep ==
    ASSUME EnumerationInv, [Enumerate]_enumerationVars
    PROVE  EnumerationInv'
<1>1. CASE AssignBoundary
  BY <1>1, AssignBoundaryInv
<1>2. CASE Visit
  BY <1>2, VisitInv
<1>3. CASE EnumerateNext
  BY <1>3, EnumerateNextInv
<1>4. CASE UNCHANGED enumerationVars
  <2>1. graph' = graph /\ data' = data /\ cones' = cones /\ work' = work
    BY <1>4 DEF enumerationVars
  <2>2. IsGraph /\ IsParameters /\ AreRight(data', cones') /\ IsPending(work', data')
    BY <2>1 DEF EnumerationInv
  <2> QED
    BY <2>1, <2>2, GraphStays
<1> QED
  BY <1>1, <1>2, <1>3, <1>4 DEF Enumerate

LEMMA InvCuts == EnumerationInv => CutsAreCuts
<1> SUFFICES ASSUME EnumerationInv, NEW n \in Finished
             PROVE  LET cuts == SetsOf(data, n)
                    IN  /\ \A i \in DOMAIN cuts : /\ IsCut(n, cuts[i])
                                                  /\ Cardinality(cuts[i]) <= Larger(graph.k, 1)
                        /\ n # 0 => cuts[Len(cuts)] = {n}
                        /\ Len(cuts) <= graph.priority + 1
  BY DEF CutsAreCuts
<1>1. IsGraph /\ AreRight(data, cones) /\ n \in Vertices /\ data.count[n] > 0
  BY DEF EnumerationInv, Finished
<1>2. data \in MemoriesIn(Vertices, Additional, VectorValues) /\ Additional \in Nat
  BY <1>1, VerticesAre DEF AreRight
<1>3. PICK L, E, e : HoldsIn(Vertices, VectorValues, data, n, L, E, e) /\ RightCuts(n, L)
  BY <1>1, Zenon DEF AreRight, StoresRight
<1>4. SetsOf(data, n) = L
  BY <1>1, <1>2, <1>3, HoldsIsSets
<1>5. L \in Seq(SUBSET Vertices) /\ data.count[n] = Len(L)
  BY <1>3 DEF HoldsIn
<1>6. L # <<>> /\ DOMAIN L = 1..Len(L)
  BY <1>1, <1>5
<1> QED
  BY <1>3, <1>4, <1>6 DEF RightCuts

LEMMA InvCones == EnumerationInv => ConesFitCuts
<1> SUFFICES ASSUME EnumerationInv, HasCones, NEW n \in Finished, NEW i \in 1..data.count[n]
             PROVE  LET cut == SetsOf(data, n)[i]
                        cone == SetsOf(cones, n)[i]
                    IN  /\ \A m \in cone \ cut : \A j \in DOMAIN Children(m) : Children(m)[j] \in cone \cup {0}
                        /\ n # 0 => n \in cone
                        /\ Extra(data, Addresses(data, n)[i], 1) = Cardinality(cone)
  BY DEF ConesFitCuts
<1>1. IsGraph /\ AreRight(data, cones) /\ n \in Vertices
  BY DEF EnumerationInv, Finished
<1>2. /\ data \in MemoriesIn(Vertices, Additional, VectorValues) /\ Additional = 2
      /\ cones \in MemoriesIn(Vertices, 0, VectorValues)
  BY <1>1 DEF AreRight, Additional
<1>3. PICK L, E, e : /\ HoldsIn(Vertices, VectorValues, data, n, L, E, e)
                     /\ HasCones => \E K, F, f : /\ HoldsIn(Vertices, VectorValues, cones, n, K, F, f)
                                                 /\ RightCones(n, L, E, K)
  BY <1>1, Zenon DEF AreRight, StoresRight
<1>4. PICK K, F, f : HoldsIn(Vertices, VectorValues, cones, n, K, F, f) /\ RightCones(n, L, E, K)
  BY <1>3
<1>5. data.count[n] = Len(L)
  BY <1>3 DEF HoldsIn
<1>6. SetsOf(data, n) = L /\ Extra(data, Addresses(data, n)[i], 1) = E[i][2]
  <2> DEFINE z == Additional
  <2>1. z \in Nat /\ data \in MemoriesIn(Vertices, z, VectorValues) /\ 1 \in 0..z - 1 /\ i \in 1..Len(L) /\ 1 + 1 = 2
    BY <1>2, <1>5
  <2>0. HoldsIn(Vertices, VectorValues, data, n, L, E, e)
    BY <1>3
  <2> DEFINE X == Vertices
             D == VectorValues
             m == data
  <2>4. z \in Nat /\ m \in MemoriesIn(X, z, D) /\ n \in X /\ HoldsIn(X, D, m, n, L, E, e)
    BY <1>1, <2>0, <2>1
  <2> HIDE DEF z, X, D, m
  <2>5. /\ SetsOf(m, n) = L
        /\ \A j \in 1..Len(L), l \in 0..z - 1 : Extra(m, Addresses(m, n)[j], l) = E[j][l + 1]
    BY ONLY <2>4, HoldsIsSets
  <2>2. /\ SetsOf(data, n) = L
        /\ \A j \in 1..Len(L), l \in 0..z - 1 : Extra(data, Addresses(data, n)[j], l) = E[j][l + 1]
    BY <2>5 DEF m
  <2>3. Extra(data, Addresses(data, n)[i], 1) = E[i][1 + 1]
    BY <2>1, <2>2, Zenon
  <2> QED
    BY <2>1, <2>2, <2>3
<1>7. SetsOf(cones, n) = K
  BY <1>1, <1>2, <1>4, HoldsIsSets
<1>8. IsCone(n, L[i], K[i]) /\ E[i][2] = Cardinality(K[i])
  BY <1>4, <1>5, ConesAre
<1> QED
  BY <1>6, <1>7, <1>8 DEF IsCone

(* For every graph, cut size and priority: each set that enumerate or           *)
(* enumerate_partial has stored for a node separates it from the inputs, has at  *)
(* most k nodes (or is the node itself), and the last one is the node.         *)
THEOREM CutsAreRight == EnumerationSpec => []CutsAreCuts
<1>1. EnumerationInit => EnumerationInv
  BY InitEnumeration
<1>2. EnumerationInv /\ [Enumerate]_enumerationVars => EnumerationInv'
  BY EnumerationStep
<1> QED
  BY <1>1, <1>2, InvCuts, PTL DEF EnumerationSpec

(* For every graph, cut size and priority: the cone memory keeps up with the     *)
(* cut memory, so that the cone at a place is closed above the cut at that     *)
(* place, and the size stored with the cut is that of the cone.               *)
THEOREM ConesAreRight == EnumerationSpec => []ConesFitCuts
<1>1. EnumerationInit => EnumerationInv
  BY InitEnumeration
<1>2. EnumerationInv /\ [Enumerate]_enumerationVars => EnumerationInv'
  BY EnumerationStep
<1> QED
  BY <1>1, <1>2, InvCones, PTL DEF EnumerationSpec

-------------------------------------------------------------------------------
(* DepthsAreBounds. *)
HasLevels(f, ch) ==
    f = [n \in DOMAIN ch |-> IF ch[n] = <<>> THEN 0
                             ELSE 1 + SetExt!Max({f[ch[n][i]] : i \in DOMAIN ch[n]})]

LEMMA LevelsAre ==
    ASSUME NEW top \in Nat, NEW ch \in [0..top -> Seq(0..top)],
           \A n \in 0..top : \A i \in DOMAIN ch[n] : ch[n][i] < n
    PROVE  \A n \in 0..top : /\ Levels(ch)[n] \in Nat /\ Levels(ch)[n] <= top
                             /\ \A i \in DOMAIN ch[n] : Levels(ch)[ch[n][i]] < Levels(ch)[n]
<1> DEFINE base == {m \in 0..top : ch[m] = <<>>}
           f == CHOOSE f : HasLevels(f, ch)
<1>1. Descends(top, ch, base)
  BY DEF Descends
<1>2. DOMAIN ch = 0..top
  OBVIOUS
<1>3. \A g : IsLongest(top, ch, base, g) <=> HasLevels(g, ch)
  <2> TAKE g
  <2>1. \A m \in 0..top : NextLongest(ch, base, g, m) =
            IF ch[m] = <<>> THEN 0 ELSE 1 + SetExt!Max({g[ch[m][i]] : i \in DOMAIN ch[m]})
    BY DEF NextLongest
  <2> HIDE DEF base
  <2>2. [m \in 0..top |-> NextLongest(ch, base, g, m)] =
            [m \in 0..top |-> IF ch[m] = <<>> THEN 0
                              ELSE 1 + SetExt!Max({g[ch[m][i]] : i \in DOMAIN ch[m]})]
    BY <2>1
  <2> QED
    BY <1>2, <2>2, Zenon DEF IsLongest, HasLevels
<1>4. \E g : HasLevels(g, ch)
  <2> HIDE DEF base
  <2> QED
    BY <1>1, <1>3, LongestExists
<1>5. HasLevels(f, ch)
  BY <1>4, Zenon
<1>6. Levels(ch) = f
  BY Zenon DEF Levels, HasLevels
<1>7. \A n \in 0..top : \A i \in DOMAIN ch[n] : n \notin base
  OBVIOUS
<1> HIDE DEF f, base
<1>8. IsLongest(top, ch, base, f)
  BY <1>3, <1>5
<1>9. ASSUME NEW n \in 0..top
      PROVE  /\ f[n] \in Nat /\ f[n] <= n
             /\ n \notin base => \A i \in DOMAIN ch[n] : f[n] > f[ch[n][i]]
  BY <1>1, <1>8, LongestIs
<1>10. ASSUME NEW n \in 0..top
       PROVE  f[n] \in Nat /\ f[n] <= top
  BY <1>9
<1>11. ASSUME NEW n \in 0..top, NEW i \in DOMAIN ch[n]
       PROVE  f[ch[n][i]] < f[n]
  <2>1. ch[n][i] \in 0..top
    OBVIOUS
  <2>2. f[ch[n][i]] \in Nat /\ f[n] \in Nat /\ f[n] > f[ch[n][i]]
    BY <1>7, <1>9, <2>1
  <2> QED
    BY <2>2
<1> QED
  BY <1>6, <1>10, <1>11

LEMMA LevelRangesAre ==
    ASSUME NEW top \in Nat, NEW ch \in [0..top -> Seq(0..top)], NEW kind,
           \A n \in 0..top : \A i \in DOMAIN ch[n] : ch[n][i] < n,
           NEW levels, levels = LevelRanges(kind, ch)
    PROVE  /\ \A n \in 0..top : levels[n][1] \in Nat /\ levels[n][2] \in Nat
           /\ \A n \in 0..top : \A i \in DOMAIN ch[n] :
                  levels[ch[n][i]][1] < levels[n][1] /\ levels[ch[n][i]][2] < levels[n][1]
<1> DEFINE level == Levels(ch)
           all == {level[n] : n \in DOMAIN ch}
           above(n) == {level[p] : p \in Parents(ch, n)}
           latest(n) == IF kind = "aig" THEN level[n]
                        ELSE IF Parents(ch, n) = {} THEN SetExt!Max(all)
                        ELSE SetExt!Min(above(n)) - 1
<1>1. \A n \in 0..top : /\ level[n] \in Nat /\ level[n] <= top
                        /\ \A i \in DOMAIN ch[n] : level[ch[n][i]] < level[n]
  BY LevelsAre
<1>2. DOMAIN ch = 0..top /\ \A n \in 0..top : \A i \in DOMAIN ch[n] : ch[n][i] \in 0..top
  OBVIOUS
<1>3. levels = [n \in 0..top |-> <<level[n], latest(n)>>]
  BY <1>2, Zenon DEF LevelRanges
<1> HIDE DEF level
<1>4. SetExt!Max(all) \in Nat
  <2>1. all \subseteq Nat /\ all # {} /\ \A y \in all : y <= top
    <3>1. \A n \in DOMAIN ch : level[n] \in Nat /\ level[n] <= top
      BY <1>1, <1>2
    <3>2. 0 \in DOMAIN ch
      BY <1>2
    <3> QED
      BY <3>1, <3>2
  <2> HIDE DEF all
  <2>2. SetExt!Max(all) \in all
    BY <2>1, LargestIs
  <2> QED
    BY <2>1, <2>2
<1>5. ASSUME NEW n \in 0..top, Parents(ch, n) # {}
      PROVE  /\ SetExt!Min(above(n)) - 1 \in Nat
             /\ \A p \in Parents(ch, n) : SetExt!Min(above(n)) - 1 < level[p]
  <2>1. \A p \in Parents(ch, n) : p \in 0..top /\ level[p] \in Nat /\ level[n] < level[p] /\ level[n] \in Nat
    BY <1>1, <1>2 DEF Parents
  <2>2. \A y \in above(n) : y \in Nat /\ y > 0
    BY <2>1, SMTT(40)
  <2>3. above(n) # {} /\ above(n) \subseteq Nat
    BY <1>5, <2>2
  <2>4. \A p \in Parents(ch, n) : level[p] \in above(n)
    OBVIOUS
  <2> DEFINE A == above(n)
             least == SetExt!Min(A)
  <2> HIDE DEF above
  <2>5. A # {} /\ A \subseteq Nat /\ (\A y \in A : y \in Nat /\ y > 0) /\ \A p \in Parents(ch, n) : level[p] \in A
    BY <2>2, <2>3, <2>4
  <2> HIDE DEF A
  <2>6. least \in A /\ \A y \in A : least <= y
    BY <2>5, SmallestIs
  <2> HIDE DEF least
  <2>7. least \in Nat /\ least > 0 /\ \A p \in Parents(ch, n) : least <= level[p] /\ level[p] \in Nat
    BY <2>5, <2>6
  <2>8. least - 1 \in Nat /\ \A p \in Parents(ch, n) : least - 1 < level[p]
    BY <2>7
  <2> QED
    BY <2>8 DEF least, A
<1> HIDE DEF all, above
<1>6. ASSUME NEW n \in 0..top
      PROVE  latest(n) \in Nat
  BY <1>1, <1>4, <1>5
<1>7. ASSUME NEW n \in 0..top, NEW i \in DOMAIN ch[n]
      PROVE  latest(ch[n][i]) < level[n]
  <2> DEFINE c == ch[n][i]
  <2>1. c \in 0..top /\ level[c] < level[n] /\ n \in Parents(ch, c)
    BY <1>1, <1>2 DEF Parents
  <2> HIDE DEF c
  <2>2. SetExt!Min(above(c)) - 1 < level[n]
    BY <1>5, <2>1
  <2>3. latest(c) < level[n]
    BY <2>1, <2>2
  <2> QED
    BY <2>3 DEF c
<1> HIDE DEF latest
<1>8. \A n \in 0..top : levels[n][1] = level[n] /\ levels[n][2] = latest(n)
  BY <1>3
<1> QED
  BY <1>1, <1>2, <1>6, <1>7, <1>8

LEMMA InitLevels == EnumerationInit /\ NoGateIsConstant => IsLeveled
<1> SUFFICES ASSUME EnumerationInit, NoGateIsConstant PROVE IsLeveled
  OBVIOUS
<1>1. PICK top \in Nat, size \in Nat, most \in Nat, kind \in {"aig", "mig", "xmg"} :
        \E children \in [0..top -> Seq(0..top)] :
            /\ children[0] = <<>>
            /\ \A n \in 0..top : \A i \in DOMAIN children[n] : children[n][i] < n
            /\ \/ StartAll(kind, children, size, most)
               \/ \E start \in Seq(0..top), boundary \in SUBSET (0..top) :
                    StartPartial(kind, children, size, most, start, boundary)
  BY Zenon DEF EnumerationInit
<1>2. PICK children \in [0..top -> Seq(0..top)] :
        /\ children[0] = <<>>
        /\ \A n \in 0..top : \A i \in DOMAIN children[n] : children[n][i] < n
        /\ \/ StartAll(kind, children, size, most)
           \/ \E start \in Seq(0..top), boundary \in SUBSET (0..top) :
                StartPartial(kind, children, size, most, start, boundary)
  BY <1>1
<1>3. \E b : Start(kind, children, size, most, b)
  BY <1>2, Zenon DEF StartAll, StartPartial
<1>4. graph.children = children /\ graph.levels = LevelRanges(kind, children)
  BY <1>3 DEF Start
<1>5. Vertices = 0..top /\ \A n : Children(n) = children[n]
  BY <1>4 DEF Vertices, Children
<1>6. /\ \A n \in 0..top : graph.levels[n][1] \in Nat /\ graph.levels[n][2] \in Nat
      /\ \A n \in 0..top : \A i \in DOMAIN children[n] :
             /\ graph.levels[children[n][i]][1] < graph.levels[n][1]
             /\ graph.levels[children[n][i]][2] < graph.levels[n][1]
  <2> DEFINE levels == graph.levels
  <2>1. levels = LevelRanges(kind, children)
    BY <1>4
  <2> HIDE DEF levels
  <2>2. /\ \A n \in 0..top : levels[n][1] \in Nat /\ levels[n][2] \in Nat
        /\ \A n \in 0..top : \A i \in DOMAIN children[n] :
               levels[children[n][i]][1] < levels[n][1] /\ levels[children[n][i]][2] < levels[n][1]
    BY <1>2, <2>1, LevelRangesAre
  <2> QED
    BY <2>2 DEF levels
<1> QED
  BY <1>5, <1>6 DEF IsLeveled, Gates

LEMMA InvDepths == EnumerationInv /\ IsLeveled => DepthsAreBounds
<1> SUFFICES ASSUME EnumerationInv, IsLeveled, HasCones, NEW n \in Finished, NEW i \in 1..data.count[n]
             PROVE  PathLength(n, SetsOf(data, n)[i]) <= Extra(data, Addresses(data, n)[i], 0)
  BY DEF DepthsAreBounds
<1>1. IsGraph /\ AreRight(data, cones) /\ n \in Vertices
  BY DEF EnumerationInv, Finished
<1>2. data \in MemoriesIn(Vertices, Additional, VectorValues) /\ Additional = 2
  BY <1>1 DEF AreRight, Additional
<1>3. PICK L, E, e : /\ HoldsIn(Vertices, VectorValues, data, n, L, E, e)
                     /\ HasCones => \E K, F, f : /\ HoldsIn(Vertices, VectorValues, cones, n, K, F, f)
                                                 /\ RightCones(n, L, E, K)
  BY <1>1, Zenon DEF AreRight, StoresRight
<1>4. PICK K, F, f : HoldsIn(Vertices, VectorValues, cones, n, K, F, f) /\ RightCones(n, L, E, K)
  BY <1>3
<1>5. data.count[n] = Len(L)
  BY <1>3 DEF HoldsIn
<1>6. SetsOf(data, n) = L /\ Extra(data, Addresses(data, n)[i], 0) = E[i][1]
  <2> DEFINE z == Additional
  <2>1. z \in Nat /\ data \in MemoriesIn(Vertices, z, VectorValues) /\ 0 \in 0..z - 1 /\ i \in 1..Len(L) /\ 0 + 1 = 1
    BY <1>2, <1>5
  <2>0. HoldsIn(Vertices, VectorValues, data, n, L, E, e)
    BY <1>3
  <2> DEFINE X == Vertices
             D == VectorValues
             m == data
  <2>4. z \in Nat /\ m \in MemoriesIn(X, z, D) /\ n \in X /\ HoldsIn(X, D, m, n, L, E, e)
    BY <1>1, <2>0, <2>1
  <2> HIDE DEF z, X, D, m
  <2>5. /\ SetsOf(m, n) = L
        /\ \A j \in 1..Len(L), l \in 0..z - 1 : Extra(m, Addresses(m, n)[j], l) = E[j][l + 1]
    BY ONLY <2>4, HoldsIsSets
  <2>2. /\ SetsOf(data, n) = L
        /\ \A j \in 1..Len(L), l \in 0..z - 1 : Extra(data, Addresses(data, n)[j], l) = E[j][l + 1]
    BY <2>5 DEF m
  <2>3. Extra(data, Addresses(data, n)[i], 0) = E[i][0 + 1]
    BY <2>1, <2>2, Zenon
  <2> QED
    BY <2>1, <2>2, <2>3
<1>7. PathLength(n, L[i]) <= E[i][1]
  BY <1>4, <1>5, ConesAre
<1> QED
  BY <1>6, <1>7

(* For every graph of any size, boundary, cut size and priority in which each     *)
(* gate reads a node besides the constant: the depth that enumerate stores with  *)
(* a cut is not less than the longest path from the cut to the node, so that    *)
(* the difference of unsigned levels has not wrapped around.                  *)
THEOREM DepthsAreUpperBounds == NoGateIsConstant /\ EnumerationSpec => []DepthsAreBounds
<1>1. NoGateIsConstant /\ EnumerationInit => EnumerationInv /\ IsLeveled
  BY InitEnumeration, InitLevels
<1>2. EnumerationInv /\ IsLeveled /\ [Enumerate]_enumerationVars => (EnumerationInv /\ IsLeveled)'
  <2> SUFFICES ASSUME EnumerationInv, IsLeveled, [Enumerate]_enumerationVars
               PROVE  EnumerationInv' /\ IsLeveled'
    OBVIOUS
  <2>1. EnumerationInv'
    BY EnumerationStep
  <2>2. graph' = graph
    BY DEF Enumerate, AssignBoundary, Visit, EnumerateNext, enumerationVars
  <2>3. Gates' = Gates /\ Vertices' = Vertices /\ \A m : Children(m)' = Children(m)
    BY <2>2 DEF Gates, Vertices, Children
  <2>4. IsLeveled'
    BY <2>2, <2>3 DEF IsLeveled, NoGateIsConstant
  <2> QED
    BY <2>1, <2>4
<1>3. EnumerationInv /\ IsLeveled => DepthsAreBounds
  BY InvDepths
<1> QED
  BY <1>1, <1>2, <1>3, PTL DEF EnumerationSpec

-------------------------------------------------------------------------------
(* NothingIsLost.  The traversal lists the children of a node before the node,  *)
(* so that its cuts are joined when those of all its children are there, and   *)
(* these do not change any more.                                            *)
NoneLost(cuts, lists) ==
    Len(cuts) <= graph.priority =>
        \A choice \in {Combinations(lists)} : \A c \in DOMAIN choice :
            LET union == UNION {choice[c][i].cut : i \in DOMAIN choice[c]}
            IN  Cardinality(union) <= graph.k =>
                    \E i \in DOMAIN cuts : Subsumes(cuts[i], union, graph.kind = "xmg")

(* What is written for a gate, when it is written. *)
LEMMA GateLosesNone ==
    ASSUME IsGraph, IsParameters, AreRight(data, cones), NEW n \in Gates, data.count[n] = 0,
           EnumerateNode(n)
    PROVE  NoneLost(SetsOf(data', n), ListsAt(n))
<1> DEFINE stored == SetsOf(data', n)
           cuts == LocalCutsAt(n)
           all == Combinations(ListsAt(n))
           smaller == graph.kind = "xmg"
           X == PairsOfSets
           most == graph.k
<1>1. /\ Len(stored) = Len(cuts) + 1
      /\ \A j \in 1..Len(cuts) : stored[j] = cuts[j].cut
      /\ stored \in Seq(SUBSET Vertices)
  BY GateIsWritten
<1>2. /\ cuts \in Seq(RightJoins(n)) /\ all \in Seq(Seq(X))
      /\ Len(cuts) < graph.priority =>
                Covering(cuts, all, Len(all), most, smaller, LatestLevels)
  BY LocalCutsAreRight
<1>3. DOMAIN stored = 1..Len(stored) /\ graph.priority \in Nat /\ graph.k \in Nat
  BY <1>1 DEF IsParameters
<1>4. \A p \in X : p.cut \in SUBSET Vertices
  BY DEF PairsOfSets
<1>5. IsFiniteSet(Vertices)
  BY VerticesAre
<1> HIDE DEF stored, cuts, all, smaller, X, most
<1>6. ASSUME Len(stored) <= graph.priority, NEW c \in DOMAIN all, NEW union,
             union = UNION {all[c][i].cut : i \in DOMAIN all[c]}, Cardinality(union) <= most
      PROVE  \E i \in DOMAIN stored : Subsumes(stored[i], union, smaller)
  <2>1. Len(cuts) \in Nat /\ Len(cuts) < graph.priority
    BY <1>1, <1>2, <1>3, <1>6
  <2>2. c \in 1..Len(all) /\ all[c] \in Seq(X)
    BY <1>2
  <2>3. Cardinality(union) \in Nat
    <3>1. \A i \in DOMAIN all[c] : all[c][i] \in X
      BY <2>2
    <3>2. union \in SUBSET Vertices
      BY <1>4, <1>6, <3>1
    <3> QED
      BY <1>5, <3>2, FS_Subset, FS_CardinalityType
  <2>4. Joined(all[c], LatestLevels).cut = union
    BY <1>6 DEF Joined
  <2>5. Subsumed(cuts, union, smaller)
    <3>1. Cardinality(union) > most \/ Subsumed(cuts, union, smaller)
      BY <1>2, <2>1, <2>2, <2>4 DEF Covering
    <3> QED
      BY <1>3, <1>6, <2>3, <3>1 DEF most
  <2>6. PICK i \in 1..Len(cuts) : Subsumes(cuts[i].cut, union, smaller)
    BY <2>5 DEF Subsumed
  <2>7. i \in DOMAIN stored
    BY <1>1, <1>3, <2>1
  <2> QED
    BY <1>1, <2>6, <2>7
<1>7. ASSUME Len(stored) <= graph.priority, NEW c \in DOMAIN all
      PROVE  LET union == UNION {all[c][i].cut : i \in DOMAIN all[c]}
             IN  Cardinality(union) <= most =>
                    \E i \in DOMAIN stored : Subsumes(stored[i], union, smaller)
  BY <1>6, <1>7
<1>8. ASSUME Len(stored) <= graph.priority, NEW choice \in {all}, NEW c \in DOMAIN choice
      PROVE  LET union == UNION {choice[c][i].cut : i \in DOMAIN choice[c]}
             IN  Cardinality(union) <= most =>
                    \E i \in DOMAIN stored : Subsumes(stored[i], union, smaller)
  <2>1. choice = all
    BY <1>8
  <2> QED
    BY <1>7, <1>8, <2>1, ZenonT(60)
<1> QED
  BY <1>8, Zenon DEF NoneLost, stored, all, smaller, most

(* The cuts of the others are read as before. *)
LEMMA CutsOfStay ==
    ASSUME IsGraph, AreRight(data, cones), NEW w \in Vertices, UNCHANGED graph,
           AreWritten(data', cones', data, cones, w), NEW n \in Vertices, n # w
    PROVE  SetsOf(data', n) = SetsOf(data, n) /\ CutsOf(n)' = CutsOf(n)
<1>1. /\ data \in MemoriesIn(Vertices, Additional, VectorValues) /\ cones \in MemoriesIn(Vertices, 0, VectorValues)
      /\ StoresRight(data, cones, n)
  BY DEF AreRight
<1>2. /\ GrowsIn(Vertices, Additional, VectorValues, data', data, w)
      /\ HasCones => GrowsIn(Vertices, 0, VectorValues, cones', cones, w)
      /\ data' \in MemoriesIn(Vertices, Additional, VectorValues)
      /\ cones' \in MemoriesIn(Vertices, 0, VectorValues)
  BY DEF AreWritten, GrowsIn
<1>3. Additional \in Nat /\ 0 \in Nat
  BY VerticesAre
<1>4. PICK L, E, e : /\ HoldsIn(Vertices, VectorValues, data, n, L, E, e) /\ RightCuts(n, L)
                     /\ HasCones => \E K, F, f : /\ HoldsIn(Vertices, VectorValues, cones, n, K, F, f)
                                                 /\ RightCones(n, L, E, K)
  BY <1>1, Zenon DEF StoresRight
<1>5. HoldsIn(Vertices, VectorValues, data', n, L, E, e)
  BY <1>1, <1>2, <1>3, <1>4, HoldsGrowsIn
<1> DEFINE m == data'
<1>6. SetsOf(m, n) = L /\ SetsOf(data, n) = L
  <2> HIDE DEF m
  <2>1. SetsOf(m, n) = L
    BY <1>2, <1>3, <1>5, HoldsIsSets DEF m
  <2>2. SetsOf(data, n) = L
    BY <1>1, <1>3, <1>4, HoldsIsSets
  <2> QED
    BY <2>1, <2>2
<1>7. data'.count[n] = data.count[n]
  BY <1>4, <1>5 DEF HoldsIn
<1>8. HasCones => SetsOf(cones', n) = SetsOf(cones, n)
  <2> SUFFICES ASSUME HasCones PROVE SetsOf(cones', n) = SetsOf(cones, n)
    OBVIOUS
  <2>1. PICK K, F, f : HoldsIn(Vertices, VectorValues, cones, n, K, F, f)
    BY <1>4
  <2>2. GrowsIn(Vertices, 0, VectorValues, cones', cones, w)
    BY <1>2
  <2>3. HoldsIn(Vertices, VectorValues, cones', n, K, F, f)
    BY <1>1, <1>3, <2>1, <2>2, HoldsGrowsIn
  <2> DEFINE c == cones'
  <2> HIDE DEF c
  <2>4. SetsOf(c, n) = K
    BY <1>2, <1>3, <2>3, HoldsIsSets DEF c
  <2>5. SetsOf(cones, n) = K
    BY <1>1, <1>3, <2>1, HoldsIsSets
  <2> QED
    BY <2>4, <2>5 DEF c
<1>9. HasCones' = HasCones
  BY DEF HasCones
<1>10. CutsOf(n)' = CutsOf(n)
  <2>1. CutsOf(n)' = [i \in 1..data'.count[n] |->
            [cut |-> SetsOf(data', n)[i], cone |-> IF HasCones' THEN SetsOf(cones', n)[i] ELSE {}]]
    BY DEF CutsOf
  <2>2. CutsOf(n) = [i \in 1..data.count[n] |->
            [cut |-> SetsOf(data, n)[i], cone |-> IF HasCones THEN SetsOf(cones, n)[i] ELSE {}]]
    BY DEF CutsOf
  <2> QED
    BY <1>6, <1>7, <1>8, <1>9, <2>1, <2>2
<1> QED
  BY <1>6, <1>10

(* The invariant.  n has cuts, or gets them before the node at place i.       *)
IsReady(w, m, n, i) ==
    \/ m.count[n] > 0
    \/ \E j \in 1..Len(w.leafs) : w.leafs[j] = n
    \/ \E j \in 1..i - 1 : w.todo[j] = n

LeafsAreNew(w, m) ==
    \A i \in 1..Len(w.leafs) :
        /\ m.count[w.leafs[i]] = 0 /\ w.leafs[i] \in graph.boundary
        /\ \A j \in 1..Len(w.leafs) : w.leafs[i] = w.leafs[j] => i = j

(* The children come before the node. *)
TodoInOrder(w, m) ==
    \A i \in 1..Len(w.todo) : \A l \in DOMAIN Children(w.todo[i]) : IsReady(w, m, Children(w.todo[i])[l], i)

(* What the traversal has finished is listed. *)
VisitedAreListed(w, m) ==
    \A n \in Vertices : w.colors[n] = 2 => IsReady(w, m, n, Len(w.todo) + 1)

(* A node whose children are on the stack: what is above it is smaller, and its   *)
(* children are finished or above it.                                       *)
ChildrenAbove(w, n) ==
    \E p \in 1..Len(w.stack) :
        /\ w.stack[p] = n /\ \A q \in 1..p - 1 : w.stack[q] < n
        /\ \A l \in DOMAIN Children(n) : \/ w.colors[Children(n)[l]] = 2
                                         \/ \E q \in 1..p - 1 : w.stack[q] = Children(n)[l]

StackInOrder(w) == \A n \in Vertices : w.colors[n] = 1 => ChildrenAbove(w, n)

ChildrenHaveCuts(m) ==
    \A n \in Vertices : m.count[n] > 0 /\ n \notin graph.boundary =>
        \A l \in DOMAIN Children(n) : m.count[Children(n)[l]] > 0

CutsAreKept ==
    \A n \in Gates : data.count[n] > 0 /\ n \notin graph.boundary => NoneLost(SetsOf(data, n), ListsAt(n))

InOrder(w, m) ==
    LeafsAreNew(w, m) /\ TodoInOrder(w, m) /\ VisitedAreListed(w, m) /\ StackInOrder(w) /\ ChildrenHaveCuts(m)

OrderInv == EnumerationInv /\ InOrder(work, data) /\ CutsAreKept

LEMMA InvNothingIsLost == OrderInv => NothingIsLost
BY Zenon DEF OrderInv, CutsAreKept, NothingIsLost, NoneLost, ListsAt, Finished

LEMMA ChildrenStay ==
    ASSUME UNCHANGED graph
    PROVE  /\ Vertices' = Vertices /\ Gates' = Gates
           /\ \A n : Children(n)' = Children(n)
           /\ \A cuts, lists : NoneLost(cuts, lists)' <=> NoneLost(cuts, lists)
<1>1. Vertices' = Vertices /\ \A n : Children(n)' = Children(n)
  BY DEF Vertices, Children
<1>2. Gates' = Gates
  BY <1>1 DEF Gates
<1>3. \A cuts, lists : NoneLost(cuts, lists)' <=> NoneLost(cuts, lists)
  BY DEF NoneLost
<1> QED
  BY <1>1, <1>2, <1>3

(* A node is written that had no cuts, after its children. *)
WrittenInOrder(w) ==
    /\ data.count[w] = 0 /\ data'.count[w] > 0
    /\ AreWritten(data', cones', data, cones, w)
    /\ w \notin graph.boundary =>
        /\ \A l \in DOMAIN Children(w) : data.count[Children(w)[l]] > 0
        /\ w \in Gates => NoneLost(SetsOf(data', w), ListsAt(w))

LEMMA WrittenStays ==
    ASSUME EnumerationInv, UNCHANGED graph, ChildrenHaveCuts(data), CutsAreKept,
           NEW w \in Vertices, WrittenInOrder(w)
    PROVE  ChildrenHaveCuts(data') /\ CutsAreKept'
<1>1. IsGraph /\ AreRight(data, cones)
  BY DEF EnumerationInv
<1>2. data.count[w] = 0 /\ data'.count[w] > 0 /\ AreWritten(data', cones', data, cones, w)
  BY DEF WrittenInOrder
<1>3. \A n \in Vertices : n # w => data'.count[n] = data.count[n]
  BY <1>2, OthersCount
<1>4. \A n \in Vertices : n # w => SetsOf(data', n) = SetsOf(data, n) /\ CutsOf(n)' = CutsOf(n)
  BY <1>1, <1>2, CutsOfStay
<1>5. ASSUME NEW n \in Vertices, data'.count[n] > 0, n \notin graph.boundary
      PROVE  \A l \in DOMAIN Children(n) : Children(n)[l] \in Vertices /\ data.count[Children(n)[l]] > 0
  <2>1. \A l \in DOMAIN Children(n) : Children(n)[l] \in Vertices
    BY <1>1, ChildrenBelow
  <2>2. CASE n = w
    BY <1>5, <2>1, <2>2 DEF WrittenInOrder
  <2>3. CASE n # w
    BY <1>3, <1>5, <2>1, <2>3 DEF ChildrenHaveCuts
  <2> QED
    BY <2>2, <2>3
<1>6. \A n \in Vertices : data.count[n] > 0 => n # w /\ data'.count[n] > 0
  BY <1>2, <1>3
<1>7. ChildrenHaveCuts(data')
  BY <1>5, <1>6 DEF ChildrenHaveCuts
<1>8. ASSUME NEW n \in Gates, data'.count[n] > 0, n \notin graph.boundary
      PROVE  NoneLost(SetsOf(data', n), ListsAt(n)')
  <2>1. n \in Vertices
    BY DEF Gates
  <2>2. \A l \in DOMAIN Children(n) : CutsOf(Children(n)[l])' = CutsOf(Children(n)[l])
    <3> TAKE l \in DOMAIN Children(n)
    <3>1. Children(n)[l] \in Vertices /\ Children(n)[l] # w
      BY <1>5, <1>6, <1>8, <2>1
    <3>2. PICK c \in Vertices : c = Children(n)[l] /\ c # w
      BY <3>1
    <3>3. c = Children(n)[l]'
      BY <3>2, ChildrenStay
    <3>4. CutsOf(c)' = CutsOf(c)
      BY <1>4, <3>2
    <3>5. CutsOf(Children(n)[l])' = CutsOf(c)'
      BY <3>3
    <3> QED
      BY <3>2, <3>4, <3>5
  <2>3. ListsAt(n)' = ListsAt(n)
    <3>1. Children(n)' = Children(n)
      BY ChildrenStay
    <3> QED
      BY <2>2, <3>1 DEF ListsAt
  <2>4. CASE n = w
    BY <1>8, <2>3, <2>4 DEF WrittenInOrder
  <2>5. CASE n # w
    <3>1. SetsOf(data', n) = SetsOf(data, n) /\ data.count[n] > 0
      BY <1>3, <1>4, <1>8, <2>1, <2>5
    <3> QED
      BY <1>8, <2>3, <3>1 DEF CutsAreKept
  <2> QED
    BY <2>4, <2>5
<1>9. CutsAreKept'
  <2>1. ASSUME NEW n \in Gates', data'.count[n] > 0, n \notin (graph.boundary)'
        PROVE  NoneLost(SetsOf(data, n), ListsAt(n))'
    <3>1. n \in Gates /\ n \notin graph.boundary
      BY <2>1, ChildrenStay
    <3>2. NoneLost(SetsOf(data', n), ListsAt(n)')
      BY <1>8, <2>1, <3>1
    <3> QED
      BY <3>2, ChildrenStay DEF NoneLost
  <2> QED
    BY <2>1 DEF CutsAreKept
<1> QED
  BY <1>7, <1>9

LEMMA OrderIs ==
    ASSUME UNCHANGED graph, EnumerationInv', InOrder(work', data'), CutsAreKept'
    PROVE  OrderInv'
<1>1. /\ Vertices' = Vertices /\ graph' = graph /\ \A n : Children(n)' = Children(n)
  BY ChildrenStay
<1>2. \A n, i : IsReady(work, data, n, i)' <=> IsReady(work', data', n, i)
  BY DEF IsReady
<1>3. \A n : ChildrenAbove(work, n)' <=> ChildrenAbove(work', n)
  BY <1>1 DEF ChildrenAbove
<1>4. LeafsAreNew(work, data)' /\ VisitedAreListed(work, data)' /\ StackInOrder(work)' /\ ChildrenHaveCuts(data)'
  BY <1>1, <1>2, <1>3 DEF InOrder, LeafsAreNew, VisitedAreListed, StackInOrder, ChildrenHaveCuts
<1>5. TodoInOrder(work, data)'
  <2>1. \A i \in 1..Len(work'.todo) : \A l \in DOMAIN Children(work'.todo[i]) :
            IsReady(work', data', Children(work'.todo[i])[l], i)
    BY DEF InOrder, TodoInOrder
  <2>2. \A i, l : IsReady(work, data, Children(work.todo[i])[l], i)' <=> IsReady(work', data', Children(work'.todo[i])[l], i)
    BY <1>1 DEF IsReady
  <2> QED
    BY <1>1, <2>1, <2>2 DEF TodoInOrder
<1> QED
  BY <1>4, <1>5 DEF OrderInv, InOrder

LEMMA AssignBoundaryOrder ==
    ASSUME OrderInv, AssignBoundary
    PROVE  OrderInv'
<1> DEFINE h == Head(work.leafs)
           t == Tail(work.leafs)
<1>1. IsGraph /\ IsParameters /\ AreRight(data, cones) /\ IsWork(work) /\ EnumerationInv
  BY DEF OrderInv, EnumerationInv, IsPending
<1>2. /\ work.leafs # <<>> /\ AssignLeaf(h) /\ work' = [work EXCEPT !.leafs = t] /\ UNCHANGED graph
  BY DEF AssignBoundary
<1>3. /\ LeafsAreNew(work, data) /\ TodoInOrder(work, data) /\ VisitedAreListed(work, data)
      /\ StackInOrder(work) /\ ChildrenHaveCuts(data) /\ CutsAreKept
  BY DEF OrderInv, InOrder
<1>4. /\ h \in Vertices /\ h = work.leafs[1] /\ 1 \in 1..Len(work.leafs)
      /\ t \in Seq(Vertices) /\ Len(t) = Len(work.leafs) - 1 /\ Len(work.leafs) \in Nat
      /\ \A i \in 1..Len(t) : i + 1 \in 1..Len(work.leafs) /\ i + 1 # 1 /\ t[i] = work.leafs[i + 1] /\ t[i] \in Vertices
  <2>1. work.leafs \in Seq(Vertices)
    BY <1>1, WorkIs
  <2>2. /\ h \in Vertices /\ h = work.leafs[1] /\ 1 \in 1..Len(work.leafs)
        /\ t \in Seq(Vertices) /\ Len(t) = Len(work.leafs) - 1 /\ Len(work.leafs) \in Nat
        /\ \A i \in 1..Len(t) : i + 1 \in 1..Len(work.leafs) /\ i + 1 # 1 /\ t[i] = work.leafs[i + 1]
    BY <1>2, <2>1, TailIs
  <2> HIDE DEF t
  <2> QED
    BY <2>2
<1> HIDE DEF h, t
<1>5. AreWritten(data', cones', data, cones, h) /\ data'.count[h] > 0
  BY <1>1, <1>2, <1>4, LeafIsWritten
<1>6. /\ data.count[h] = 0 /\ h \in graph.boundary
      /\ \A j \in 1..Len(work.leafs) : work.leafs[j] = h => j = 1
  BY <1>3, <1>4 DEF LeafsAreNew
<1>7. ChildrenHaveCuts(data') /\ CutsAreKept'
  BY <1>1, <1>2, <1>3, <1>4, <1>5, <1>6, WrittenStays DEF WrittenInOrder
<1>8. /\ work'.todo = work.todo /\ work'.colors = work.colors /\ work'.leafs = t /\ work'.stack = work.stack
  BY <1>1, <1>2, <1>4 DEF IsWork
<1>9. \A n \in Vertices : n # h => data'.count[n] = data.count[n]
  BY <1>5, OthersCount
<1>10. \A i \in 1..Len(t) : t[i] # h
  BY <1>4, <1>6
<1>11. LeafsAreNew(work', data')
  <2> SUFFICES ASSUME NEW i \in 1..Len(t)
               PROVE  /\ data'.count[t[i]] = 0 /\ t[i] \in graph.boundary
                      /\ \A j \in 1..Len(t) : t[i] = t[j] => i = j
    BY <1>8 DEF LeafsAreNew
  <2>0. \A j \in 1..Len(work.leafs) :
            /\ data.count[work.leafs[j]] = 0 /\ work.leafs[j] \in graph.boundary
            /\ \A l \in 1..Len(work.leafs) : work.leafs[j] = work.leafs[l] => j = l
    BY <1>3 DEF LeafsAreNew
  <2>a. i + 1 \in 1..Len(work.leafs) /\ t[i] = work.leafs[i + 1] /\ t[i] \in Vertices /\ t[i] # h
    BY <1>4, <1>10
  <2>1. data'.count[t[i]] = 0 /\ t[i] \in graph.boundary
    BY <1>9, <2>0, <2>a
  <2>2. ASSUME NEW j \in 1..Len(t), t[i] = t[j]
        PROVE  i = j
    <3>0. j + 1 \in 1..Len(work.leafs) /\ t[j] = work.leafs[j + 1]
      BY <1>4
    <3>1. i + 1 = j + 1
      BY <2>0, <2>2, <2>a, <3>0
    <3> QED
      BY <3>1
  <2> QED
    BY <2>1, <2>2
<1>12. ASSUME NEW n \in Vertices, NEW i, IsReady(work, data, n, i)
       PROVE  IsReady(work', data', n, i)
  <2>1. CASE n = h
    BY <1>5, <2>1 DEF IsReady
  <2>2. CASE n # h /\ data.count[n] > 0
    BY <1>9, <2>2 DEF IsReady
  <2>3. CASE n # h /\ \E j \in 1..Len(work.leafs) : work.leafs[j] = n
    <3>1. PICK j \in 1..Len(work.leafs) : work.leafs[j] = n
      BY <2>3
    <3>2. j # 1 /\ j - 1 \in 1..Len(t) /\ (j - 1) + 1 = j
      BY <1>4, <2>3, <3>1, SMTT(40)
    <3>3. t[j - 1] = n
      BY <1>4, <3>1, <3>2
    <3> QED
      BY <1>8, <3>2, <3>3 DEF IsReady
  <2>4. CASE \E j \in 1..i - 1 : work.todo[j] = n
    BY <1>8, <2>4 DEF IsReady
  <2> QED
    BY <1>12, <2>1, <2>2, <2>3, <2>4 DEF IsReady
<1>13. TodoInOrder(work', data')
  <2> SUFFICES ASSUME NEW i \in 1..Len(work.todo), NEW l \in DOMAIN Children(work.todo[i])
               PROVE  IsReady(work', data', Children(work.todo[i])[l], i)
    BY <1>8 DEF TodoInOrder
  <2>1. work.todo[i] \in Vertices
    BY <1>1 DEF IsWork
  <2>2. Children(work.todo[i])[l] \in Vertices
    BY <1>1, <2>1, ChildrenBelow
  <2>3. IsReady(work, data, Children(work.todo[i])[l], i)
    BY <1>3 DEF TodoInOrder
  <2> QED
    BY <1>12, <2>2, <2>3
<1>14. VisitedAreListed(work', data')
  BY <1>3, <1>8, <1>12 DEF VisitedAreListed
<1>15. StackInOrder(work')
  BY <1>3, <1>8 DEF StackInOrder, ChildrenAbove
<1>16. EnumerationInv'
  BY <1>1, AssignBoundaryInv
<1> QED
  BY <1>2, <1>7, <1>11, <1>13, <1>14, <1>15, <1>16, OrderIs DEF InOrder

LEMMA EnumerateNextOrder ==
    ASSUME OrderInv, EnumerateNext
    PROVE  OrderInv'
<1> DEFINE h == Head(work.todo)
           t == Tail(work.todo)
<1>1. /\ IsGraph /\ IsParameters /\ AreRight(data, cones) /\ IsWork(work) /\ EnumerationInv
      /\ IsListedOnce(work) /\ TodoIsNew(work, data)
  BY DEF OrderInv, EnumerationInv, IsPending
<1>2. /\ work.leafs = <<>> /\ work.stack = <<>> /\ work.todo # <<>> /\ UNCHANGED graph
      /\ IF h \in Gates THEN EnumerateNode(h) ELSE AssignLeaf(h)
      /\ work' = [work EXCEPT !.todo = t]
  BY DEF EnumerateNext
<1>3. /\ LeafsAreNew(work, data) /\ TodoInOrder(work, data) /\ VisitedAreListed(work, data)
      /\ StackInOrder(work) /\ ChildrenHaveCuts(data) /\ CutsAreKept
  BY DEF OrderInv, InOrder
<1>4. /\ h \in Vertices /\ h = work.todo[1] /\ 1 \in 1..Len(work.todo)
      /\ t \in Seq(Vertices) /\ Len(t) = Len(work.todo) - 1 /\ Len(work.todo) \in Nat
      /\ \A i \in 1..Len(t) : i + 1 \in 1..Len(work.todo) /\ i + 1 # 1 /\ t[i] = work.todo[i + 1] /\ t[i] \in Vertices
  <2>1. work.todo \in Seq(Vertices)
    BY <1>1, WorkIs
  <2>2. /\ h \in Vertices /\ h = work.todo[1] /\ 1 \in 1..Len(work.todo)
        /\ t \in Seq(Vertices) /\ Len(t) = Len(work.todo) - 1 /\ Len(work.todo) \in Nat
        /\ \A i \in 1..Len(t) : i + 1 \in 1..Len(work.todo) /\ i + 1 # 1 /\ t[i] = work.todo[i + 1]
    BY <1>2, <2>1, TailIs
  <2> HIDE DEF t
  <2> QED
    BY <2>2
<1> HIDE DEF h, t
<1>5. data.count[h] = 0
  BY <1>1, <1>4 DEF TodoIsNew
<1>6. \A l \in DOMAIN Children(h) : data.count[Children(h)[l]] > 0
  <2> TAKE l \in DOMAIN Children(h)
  <2>1. IsReady(work, data, Children(h)[l], 1)
    BY <1>3, <1>4 DEF TodoInOrder
  <2>2. 1..Len(<<>>) = {} /\ 1..1 - 1 = {}
    OBVIOUS
  <2> QED
    BY <1>2, <2>1, <2>2 DEF IsReady
<1>7. WrittenInOrder(h)
  <2>1. CASE h \in Gates
    <3>1. AreWritten(data', cones', data, cones, h) /\ data'.count[h] > 0
      BY <1>1, <1>2, <1>5, <2>1, GateIsWritten
    <3>2. NoneLost(SetsOf(data', h), ListsAt(h))
      BY <1>1, <1>2, <1>5, <2>1, GateLosesNone
    <3> QED
      BY <1>5, <1>6, <3>1, <3>2 DEF WrittenInOrder
  <2>2. CASE h \notin Gates
    <3>1. AreWritten(data', cones', data, cones, h) /\ data'.count[h] > 0
      BY <1>1, <1>2, <1>4, <2>2, LeafIsWritten, SMTT(40)
    <3> QED
      BY <1>5, <1>6, <2>2, <3>1 DEF WrittenInOrder
  <2> QED
    BY <2>1, <2>2
<1>8. ChildrenHaveCuts(data') /\ CutsAreKept'
  BY <1>1, <1>2, <1>3, <1>4, <1>7, WrittenStays
<1>9. work'.todo = t /\ work'.colors = work.colors /\ work'.leafs = work.leafs /\ work'.stack = work.stack
  BY <1>1, <1>2, <1>4 DEF IsWork
<1>10. (\A n \in Vertices : n # h => data'.count[n] = data.count[n]) /\ data'.count[h] > 0
  BY <1>7, OthersCount DEF WrittenInOrder
<1>11. LeafsAreNew(work', data') /\ StackInOrder(work')
  BY <1>2, <1>3, <1>9 DEF LeafsAreNew, StackInOrder, ChildrenAbove
<1>12. ASSUME NEW n \in Vertices, NEW i \in Nat, i <= Len(work.todo), IsReady(work, data, n, i + 1)
       PROVE  IsReady(work', data', n, i)
  <2>1. CASE n = h
    BY <1>10, <2>1 DEF IsReady
  <2>2. CASE n # h /\ data.count[n] > 0
    BY <1>10, <2>2 DEF IsReady
  <2>3. CASE n # h /\ \E j \in 1..(i + 1) - 1 : work.todo[j] = n
    <3>1. PICK j \in 1..(i + 1) - 1 : work.todo[j] = n
      BY <2>3
    <3>2. j # 1 /\ j - 1 \in 1..i - 1 /\ j - 1 \in 1..Len(t) /\ (j - 1) + 1 = j
      BY <1>4, <1>12, <2>3, <3>1
    <3>3. t[j - 1] = n
      BY <1>4, <3>1, <3>2
    <3> QED
      BY <1>9, <3>2, <3>3 DEF IsReady
  <2>4. CASE \E j \in 1..Len(work.leafs) : work.leafs[j] = n
    BY <1>9, <2>4 DEF IsReady
  <2> QED
    BY <1>12, <2>1, <2>2, <2>3, <2>4 DEF IsReady
<1>13. TodoInOrder(work', data')
  <2> SUFFICES ASSUME NEW i \in 1..Len(t), NEW l \in DOMAIN Children(t[i])
               PROVE  IsReady(work', data', Children(t[i])[l], i)
    BY <1>9 DEF TodoInOrder
  <2>1. t[i] \in Vertices /\ i + 1 \in 1..Len(work.todo) /\ t[i] = work.todo[i + 1] /\ i \in Nat /\ i <= Len(work.todo)
    BY <1>4
  <2>2. Children(t[i])[l] \in Vertices
    BY <1>1, <2>1, ChildrenBelow
  <2>3. IsReady(work, data, Children(t[i])[l], i + 1)
    BY <1>3, <2>1 DEF TodoInOrder
  <2> QED
    BY <1>12, <2>1, <2>2, <2>3
<1>14. VisitedAreListed(work', data')
  <2> SUFFICES ASSUME NEW n \in Vertices, work.colors[n] = 2
               PROVE  IsReady(work', data', n, Len(t) + 1)
    BY <1>9 DEF VisitedAreListed
  <2>1. IsReady(work, data, n, Len(work.todo) + 1)
    BY <1>3 DEF VisitedAreListed
  <2>2. Len(t) + 1 = Len(work.todo)
    BY <1>4
  <2> QED
    BY <1>4, <1>12, <2>1, <2>2
<1>15. EnumerationInv'
  BY <1>1, EnumerateNextInv
<1> QED
  BY <1>2, <1>8, <1>11, <1>13, <1>14, <1>15, OrderIs DEF InOrder

(* The node on top of the stack goes, and is finished. *)
LEMMA PopStays ==
    ASSUME IsWork(work), work.stack # <<>>, NEW n, n = Head(work.stack), work'.stack = Tail(work.stack),
           work'.colors[n] = 2, \A x \in Vertices : x # n => work'.colors[x] = work.colors[x],
           IsGraph, NEW m \in Vertices, m # n, ChildrenAbove(work, m)
    PROVE  ChildrenAbove(work', m)
<1> DEFINE s == work.stack
           t == Tail(s)
<1>1. /\ n = s[1] /\ Len(t) = Len(s) - 1 /\ Len(s) \in Nat /\ 1 \in 1..Len(s)
      /\ \A i \in 1..Len(t) : t[i] = s[i + 1]
  <2>1. s \in Seq(Vertices)
    BY WorkIs
  <2> QED
    BY <2>1, TailIs
<1> HIDE DEF s, t
<1>2. PICK p \in 1..Len(s) :
        /\ s[p] = m /\ \A q \in 1..p - 1 : s[q] < m
        /\ \A l \in DOMAIN Children(m) : \/ work.colors[Children(m)[l]] = 2
                                         \/ \E q \in 1..p - 1 : s[q] = Children(m)[l]
  BY DEF ChildrenAbove, s
<1>3. p # 1 /\ p - 1 \in 1..Len(t) /\ (p - 1) + 1 = p
  BY <1>1, <1>2
<1>4. t[p - 1] = m
  BY <1>1, <1>2, <1>3
<1>5. \A q \in 1..(p - 1) - 1 : t[q] < m
  <2> TAKE q \in 1..(p - 1) - 1
  <2>1. q + 1 \in 1..p - 1 /\ q \in 1..Len(t)
    BY <1>1, <1>3
  <2> QED
    BY <1>1, <1>2, <2>1
<1>6. ASSUME NEW l \in DOMAIN Children(m)
      PROVE  \/ work'.colors[Children(m)[l]] = 2
             \/ \E q \in 1..(p - 1) - 1 : t[q] = Children(m)[l]
  <2> DEFINE c == Children(m)[l]
  <2>1. c \in Vertices
    BY ChildrenBelow
  <2> HIDE DEF c
  <2>2. CASE c = n
    BY <2>2 DEF c
  <2>3. CASE c # n /\ work.colors[c] = 2
    BY <2>1, <2>3 DEF c
  <2>4. CASE c # n /\ \E q \in 1..p - 1 : s[q] = c
    <3>1. PICK q \in 1..p - 1 : s[q] = c
      BY <2>4
    <3>2. q # 1 /\ q - 1 \in 1..(p - 1) - 1 /\ q - 1 \in 1..Len(t) /\ (q - 1) + 1 = q
      BY <1>1, <1>3, <2>4, <3>1
    <3>3. t[q - 1] = c
      BY <1>1, <3>1, <3>2
    <3> QED
      BY <3>2, <3>3 DEF c
  <2> QED
    BY <1>2, <2>2, <2>3, <2>4 DEF c
<1> DEFINE r == p - 1
           u == work'
<1>7. /\ r \in 1..Len(t) /\ t[r] = m /\ \A q \in 1..r - 1 : t[q] < m
      /\ \A l \in DOMAIN Children(m) : \/ u.colors[Children(m)[l]] = 2
                                       \/ \E q \in 1..r - 1 : t[q] = Children(m)[l]
  BY <1>3, <1>4, <1>5, <1>6
<1>8. u.stack = t
  BY DEF s, t
<1> HIDE DEF r, u
<1>9. ChildrenAbove(u, m)
  BY <1>7, <1>8 DEF ChildrenAbove
<1> QED
  BY <1>9 DEF u

(* The children of the node on top of the stack are put on it. *)
LEMMA PushStays ==
    ASSUME IsWork(work), work.stack # <<>>, NEW n \in Vertices, n = Head(work.stack), IsGraph,
           work'.stack = Children(n) \o work.stack, work.colors[n] = 0,
           \A x \in Vertices : x # n => work'.colors[x] = work.colors[x]
    PROVE  /\ ChildrenAbove(work', n)
           /\ \A m \in Vertices : m # n /\ ChildrenAbove(work, m) => ChildrenAbove(work', m)
<1> DEFINE s == work.stack
           c == Children(n)
           t == c \o s
           N == Len(c)
           u == work'
<1>1. /\ s \in Seq(Vertices) /\ n = s[1] /\ Len(s) \in Nat /\ 1 \in 1..Len(s)
      /\ c \in Seq(Vertices) /\ N \in Nat /\ DOMAIN c = 1..N /\ \A i \in 1..N : c[i] \in Vertices /\ c[i] < n
  <2>1. s \in Seq(Vertices)
    BY WorkIs
  <2> QED
    BY <2>1, TailIs, ChildrenBelow
<1>2. /\ Len(t) = N + Len(s) /\ \A i \in 1..N : t[i] = c[i]
      /\ \A i \in 1..Len(s) : t[N + i] = s[i]
  <2>1. JoinIs(Vertices, c, s, t)
    BY <1>1, JoinedIndices
  <2> QED
    BY <2>1 DEF JoinIs
<1>3. n \in Nat /\ \A m \in Vertices : m \in Nat
  BY VerticesAre
<1>6. u.stack = t
  OBVIOUS
<1> HIDE DEF s, t, c, N, u
<1>4. ChildrenAbove(work', n)
  <2>1. N + 1 \in 1..Len(t) /\ (N + 1) - 1 = N /\ t[N + 1] = n
    BY <1>1, <1>2
  <2>2. \A q \in 1..N : t[q] < n
    BY <1>1, <1>2
  <2>3. \A l \in DOMAIN c : \E q \in 1..N : t[q] = c[l]
    BY <1>1, <1>2
  <2> DEFINE r == N + 1
             d == Children(n)
  <2>4. /\ r \in 1..Len(t) /\ t[r] = n /\ \A q \in 1..r - 1 : t[q] < n
        /\ \A l \in DOMAIN d : \E q \in 1..r - 1 : t[q] = d[l]
    BY <2>1, <2>2, <2>3 DEF c
  <2> HIDE DEF r, d
  <2>5. ChildrenAbove(u, n)
    BY <1>6, <2>4 DEF ChildrenAbove, d
  <2> QED
    BY <2>5 DEF u
<1>5. ASSUME NEW m \in Vertices, m # n, ChildrenAbove(work, m)
      PROVE  ChildrenAbove(work', m)
  <2>1. PICK p \in 1..Len(s) :
        /\ s[p] = m /\ \A q \in 1..p - 1 : s[q] < m
        /\ \A l \in DOMAIN Children(m) : \/ work.colors[Children(m)[l]] = 2
                                         \/ \E q \in 1..p - 1 : s[q] = Children(m)[l]
    BY <1>5 DEF ChildrenAbove, s
  <2>2. p # 1 /\ 1 \in 1..p - 1 /\ N + p \in 1..Len(t) /\ t[N + p] = m /\ n < m
    <3>1. p # 1
      BY <1>1, <1>5, <2>1
    <3>2. 1 \in 1..p - 1
      BY <3>1
    <3> QED
      BY <1>1, <1>2, <2>1, <3>1, <3>2
  <2>3. ASSUME NEW q \in 1..(N + p) - 1
        PROVE  t[q] < m
    <3>1. CASE q \in 1..N
      <4>1. c[q] \in Nat /\ c[q] < n /\ t[q] = c[q] /\ m \in Nat
        BY <1>1, <1>2, <1>3, <3>1
      <4> QED
        BY <1>3, <2>2, <4>1
    <3>2. CASE q \notin 1..N
      <4> DEFINE r == q - N
      <4>1. r \in 1..p - 1 /\ r \in 1..Len(s) /\ N + r = q
        BY <1>1, <3>2
      <4> HIDE DEF r
      <4> QED
        BY <1>2, <2>1, <4>1
    <3> QED
      BY <3>1, <3>2
  <2>4. ASSUME NEW l \in DOMAIN Children(m)
        PROVE  \/ work'.colors[Children(m)[l]] = 2
               \/ \E q \in 1..(N + p) - 1 : t[q] = Children(m)[l]
    <3> DEFINE d == Children(m)[l]
    <3>1. d \in Vertices
      BY ChildrenBelow
    <3> HIDE DEF d
    <3>2. CASE work.colors[d] = 2
      <4>1. d # n
        BY <3>2
      <4> QED
        BY <3>1, <3>2, <4>1 DEF d
    <3>3. CASE \E q \in 1..p - 1 : s[q] = d
      <4>1. PICK q \in 1..p - 1 : s[q] = d
        BY <3>3
      <4>2. N + q \in 1..(N + p) - 1 /\ q \in 1..Len(s)
        BY <1>1, <4>1
      <4>3. t[N + q] = d
        BY <1>2, <4>1, <4>2
      <4> QED
        BY <4>2, <4>3 DEF d
    <3> QED
      BY <2>1, <3>2, <3>3 DEF d
  <2> DEFINE r == N + p
  <2>5. /\ r \in 1..Len(t) /\ t[r] = m /\ \A q \in 1..r - 1 : t[q] < m
        /\ \A l \in DOMAIN Children(m) : \/ u.colors[Children(m)[l]] = 2
                                         \/ \E q \in 1..r - 1 : t[q] = Children(m)[l]
    BY <2>2, <2>3, <2>4 DEF u
  <2> HIDE DEF r
  <2>6. ChildrenAbove(u, m)
    BY <1>6, <2>5 DEF ChildrenAbove
  <2> QED
    BY <2>6 DEF u
<1> QED
  BY <1>4, <1>5

LEMMA VisitOrder ==
    ASSUME OrderInv, Visit
    PROVE  OrderInv'
<1> DEFINE n == Head(work.stack)
<1>1. IsGraph /\ IsWork(work) /\ EnumerationInv
  BY DEF OrderInv, EnumerationInv, IsPending
<1>2. /\ LeafsAreNew(work, data) /\ TodoInOrder(work, data) /\ VisitedAreListed(work, data)
      /\ StackInOrder(work) /\ ChildrenHaveCuts(data) /\ CutsAreKept
  BY DEF OrderInv, InOrder
<1>3. /\ work.leafs = <<>> /\ work.stack # <<>> /\ UNCHANGED <<graph, data, cones>>
      /\ work' = CASE work.colors[n] = 0 ->
                        [work EXCEPT !.colors[n] = 1, !.stack = Children(n) \o @]
                   [] work.colors[n] = 1 ->
                        [work EXCEPT !.colors[n] = 2, !.todo = Append(@, n), !.stack = Tail(@)]
                   [] work.colors[n] = 2 -> [work EXCEPT !.stack = Tail(@)]
  BY DEF Visit
<1>4. /\ work.todo \in Seq(Vertices) /\ work.stack \in Seq(Vertices)
      /\ work.colors \in [Vertices -> {0, 1, 2}]
      /\ Len(work.todo) \in Nat /\ \A i \in 1..Len(work.todo) : work.todo[i] \in Vertices
      /\ n \in Vertices /\ n = work.stack[1] /\ \A x \in Vertices : x \in Nat
  <2>1. work.todo \in Seq(Vertices) /\ work.stack \in Seq(Vertices) /\ work.colors \in [Vertices -> {0, 1, 2}]
    BY <1>1, WorkIs
  <2>2. n \in Vertices /\ n = work.stack[1]
    BY <1>3, <2>1, TailIs
  <2>3. Len(work.todo) \in Nat /\ \A i \in 1..Len(work.todo) : work.todo[i] \in Vertices
    BY <2>1
  <2>4. \A x \in Vertices : x \in Nat
    BY <1>1, VerticesAre
  <2> QED
    BY <2>1, <2>2, <2>3, <2>4
<1>5. n = Head(work.stack)
  OBVIOUS
<1> HIDE DEF n
<1>6. CutsAreKept' /\ ChildrenHaveCuts(data') /\ EnumerationInv' /\ data' = data /\ UNCHANGED graph
  <2>1. \A x \in Vertices : CutsOf(x)' = CutsOf(x)
    BY <1>3 DEF CutsOf, HasCones
  <2>2. graph' = graph /\ data' = data /\ cones' = cones
    BY <1>3
  <2>3. CutsAreKept' <=> CutsAreKept
    BY <2>2 DEF CutsAreKept, Gates, Vertices, Children, NoneLost, ListsAt, CutsOf, HasCones
  <2> QED
    BY <1>1, <1>2, <2>2, <2>3, VisitInv
<1>7. CASE work.colors[n] = 0
  <2>1. /\ work'.todo = work.todo /\ work'.leafs = work.leafs /\ work'.stack = Children(n) \o work.stack
        /\ work'.colors = [work.colors EXCEPT ![n] = 1]
    <3>1. work' = [work EXCEPT !.colors[n] = 1, !.stack = Children(n) \o @]
      BY <1>3, <1>7
    <3> QED
      BY <1>1, <3>1 DEF IsWork
  <2>2. work'.colors[n] = 1 /\ \A x \in Vertices : x # n => work'.colors[x] = work.colors[x]
    BY <1>4, <2>1
  <2>3. \A x, i : IsReady(work', data', x, i) <=> IsReady(work, data, x, i)
    BY <1>6, <2>1 DEF IsReady
  <2>4. LeafsAreNew(work', data') /\ TodoInOrder(work', data')
    BY <1>2, <1>6, <2>1, <2>3 DEF LeafsAreNew, TodoInOrder
  <2>5. VisitedAreListed(work', data')
    BY <1>2, <2>1, <2>2, <2>3 DEF VisitedAreListed
  <2>6. StackInOrder(work')
    <3>1. /\ ChildrenAbove(work', n)
          /\ \A m \in Vertices : m # n /\ ChildrenAbove(work, m) => ChildrenAbove(work', m)
      BY <1>1, <1>3, <1>4, <1>5, <1>7, <2>1, <2>2, PushStays
    <3> QED
      BY <1>2, <2>2, <3>1 DEF StackInOrder
  <2> QED
    BY <1>6, <2>4, <2>5, <2>6, OrderIs DEF InOrder
<1>8. CASE work.colors[n] = 1
  <2> DEFINE l == Len(work.todo)
  <2>1. /\ work'.todo = Append(work.todo, n) /\ work'.leafs = work.leafs /\ work'.stack = Tail(work.stack)
        /\ work'.colors = [work.colors EXCEPT ![n] = 2]
    <3> DEFINE c == [work.colors EXCEPT ![n] = 2]
               t == Append(work.todo, n)
               s == Tail(work.stack)
    <3>1. work' = [work EXCEPT !.colors = c, !.todo = t, !.stack = s]
      BY <1>1, <1>3, <1>8 DEF IsWork
    <3> HIDE DEF c, t, s
    <3>2. work'.colors = c /\ work'.todo = t /\ work'.stack = s /\ work'.leafs = work.leafs
      BY <1>1, <3>1 DEF IsWork
    <3> QED
      BY <3>2 DEF c, t, s
  <2>2. work'.colors[n] = 2 /\ \A x \in Vertices : x # n => work'.colors[x] = work.colors[x]
    BY <1>4, <2>1
  <2>3. /\ Len(work'.todo) = l + 1 /\ work'.todo[l + 1] = n /\ l \in Nat
        /\ \A i \in 1..l : work'.todo[i] = work.todo[i]
    BY <1>4, <2>1
  <2> HIDE DEF l
  <2>4. \A i \in DOMAIN Children(n) : Children(n)[i] \in Vertices /\ work.colors[Children(n)[i]] = 2
    <3>1. PICK p \in 1..Len(work.stack) :
            /\ work.stack[p] = n /\ \A q \in 1..p - 1 : work.stack[q] < n
            /\ \A i \in DOMAIN Children(n) : \/ work.colors[Children(n)[i]] = 2
                                             \/ \E q \in 1..p - 1 : work.stack[q] = Children(n)[i]
      BY <1>2, <1>4, <1>8 DEF StackInOrder, ChildrenAbove
    <3>2. p = 1
      <4> SUFFICES ASSUME p # 1 PROVE FALSE
        OBVIOUS
      <4>1. 1 \in 1..p - 1
        OBVIOUS
      <4>2. n < n
        BY <1>4, <3>1, <4>1
      <4> QED
        BY <1>4, <4>2
    <3>3. 1..p - 1 = {}
      BY <3>2
    <3> QED
      BY <1>1, <1>4, <3>1, <3>3, ChildrenBelow
  <2>5. ASSUME NEW x, NEW i \in Nat, i <= l + 1, IsReady(work, data, x, i)
        PROVE  IsReady(work', data', x, i) /\ IsReady(work', data', x, l + 2)
    <3>1. CASE data.count[x] > 0 \/ \E j \in 1..Len(work.leafs) : work.leafs[j] = x
      BY <1>6, <2>1, <3>1 DEF IsReady
    <3>2. CASE \E j \in 1..i - 1 : work.todo[j] = x
      <4>1. PICK j \in 1..i - 1 : work.todo[j] = x
        BY <3>2
      <4>2. j \in 1..l /\ j \in 1..(l + 2) - 1
        BY <2>3, <2>5
      <4>3. work'.todo[j] = x
        BY <2>3, <4>1, <4>2
      <4> QED
        BY <4>2, <4>3 DEF IsReady
    <3> QED
      BY <2>5, <3>1, <3>2 DEF IsReady
  <2>6. LeafsAreNew(work', data')
    BY <1>2, <1>6, <2>1 DEF LeafsAreNew
  <2>7. TodoInOrder(work', data')
    <3> SUFFICES ASSUME NEW i \in 1..l + 1, NEW m \in DOMAIN Children(work'.todo[i])
                 PROVE  IsReady(work', data', Children(work'.todo[i])[m], i)
      BY <2>3 DEF TodoInOrder
    <3>1. CASE i = l + 1
      <4>1. work'.todo[i] = n
        BY <2>3, <3>1
      <4>2. IsReady(work, data, Children(n)[m], l + 1)
        BY <1>2, <2>4, <4>1 DEF VisitedAreListed, l
      <4>3. l + 1 \in Nat /\ l + 1 <= l + 1
        BY <2>3
      <4>4. IsReady(work', data', Children(n)[m], l + 1)
        BY <2>5, <4>2, <4>3
      <4> QED
        BY <3>1, <4>1, <4>4
    <3>2. CASE i # l + 1
      <4>1. i \in 1..l /\ i \in Nat /\ i <= l + 1
        BY <2>3, <3>2
      <4>2. work'.todo[i] = work.todo[i]
        BY <2>3, <4>1
      <4>3. IsReady(work, data, Children(work.todo[i])[m], i)
        BY <1>2, <4>1, <4>2 DEF TodoInOrder, l
      <4>4. IsReady(work', data', Children(work.todo[i])[m], i)
        BY <2>5, <4>1, <4>3
      <4> QED
        BY <4>2, <4>4
    <3> QED
      BY <3>1, <3>2
  <2>8. VisitedAreListed(work', data')
    <3>0. Len(work'.todo) + 1 = l + 2 /\ l + 1 \in 1..(l + 2) - 1 /\ l + 1 \in Nat /\ l + 1 <= l + 1
      BY <2>3
    <3> SUFFICES ASSUME NEW x \in Vertices, work'.colors[x] = 2
                 PROVE  IsReady(work', data', x, l + 2)
      BY <3>0 DEF VisitedAreListed
    <3>1. CASE x = n
      BY <2>3, <3>0, <3>1 DEF IsReady
    <3>2. CASE x # n
      <4>1. IsReady(work, data, x, l + 1)
        BY <1>2, <2>2, <3>2 DEF VisitedAreListed, l
      <4> QED
        BY <2>5, <3>0, <4>1
    <3> QED
      BY <3>1, <3>2
  <2>9. StackInOrder(work')
    <3>1. \A m \in Vertices : m # n /\ ChildrenAbove(work, m) => ChildrenAbove(work', m)
      BY <1>1, <1>3, <1>5, <2>1, <2>2, PopStays, ZenonT(60)
    <3> QED
      BY <1>2, <2>2, <3>1, SMTT(40) DEF StackInOrder
  <2> QED
    BY <1>6, <2>6, <2>7, <2>8, <2>9, OrderIs DEF InOrder
<1>9. CASE work.colors[n] = 2
  <2>1. /\ work'.todo = work.todo /\ work'.leafs = work.leafs /\ work'.stack = Tail(work.stack)
        /\ work'.colors = work.colors
    <3>1. work' = [work EXCEPT !.stack = Tail(@)]
      BY <1>3, <1>9
    <3> QED
      BY <1>1, <3>1 DEF IsWork
  <2>2. \A x, i : IsReady(work', data', x, i) <=> IsReady(work, data, x, i)
    BY <1>6, <2>1 DEF IsReady
  <2>3. LeafsAreNew(work', data') /\ TodoInOrder(work', data') /\ VisitedAreListed(work', data')
    BY <1>2, <1>6, <2>1, <2>2 DEF LeafsAreNew, TodoInOrder, VisitedAreListed
  <2>4. StackInOrder(work')
    <3>1. \A m \in Vertices : m # n /\ ChildrenAbove(work, m) => ChildrenAbove(work', m)
      BY <1>1, <1>3, <1>5, <1>9, <2>1, PopStays
    <3> QED
      BY <1>2, <1>9, <2>1, <3>1 DEF StackInOrder
  <2> QED
    BY <1>6, <2>3, <2>4, OrderIs DEF InOrder
<1>10. work.colors[n] \in {0, 1, 2}
  BY <1>4
<1> QED
  BY <1>7, <1>8, <1>9, <1>10

(* The start.  All nodes are listed from the lowest one, or only the boundary   *)
(* is, and no cut is there.                                                 *)
LEMMA NoCutsYet ==
    ASSUME \A n \in Vertices : data.count[n] = 0
    PROVE  ChildrenHaveCuts(data) /\ CutsAreKept
<1>1. \A n \in Vertices : ~(data.count[n] > 0)
  OBVIOUS
<1>2. Gates \subseteq Vertices
  BY DEF Gates
<1> QED
  BY <1>1, <1>2 DEF ChildrenHaveCuts, CutsAreKept

Ascends(S, t) ==
    /\ Cardinality(S) \in Nat /\ t \in [1..Cardinality(S) -> S]
    /\ \A x \in S : \E i \in 1..Cardinality(S) : t[i] = x
    /\ \A i, j \in 1..Cardinality(S) : t[i] = t[j] => i = j
    /\ \A i, j \in 1..Cardinality(S) : t[i] < t[j] => i < j

LEMMA AscentIs ==
    ASSUME NEW S, IsFiniteSet(S), S \subseteq Nat
    PROVE  Ascends(S, Ascending(S))
<1> DEFINE t == Ascending(S)
<1>1. /\ Cardinality(S) \in Nat /\ t \in [1..Cardinality(S) -> S]
      /\ \A x \in S : \E i \in 1..Cardinality(S) : t[i] = x
      /\ \A i, j \in 1..Cardinality(S) : t[i] = t[j] => i = j
      /\ \A i, j \in 1..Cardinality(S) : t[i] < t[j] => i < j
  BY AscendingLists
<1> HIDE DEF t
<1>2. Ascends(S, t)
  BY <1>1, Zenon DEF Ascends
<1> QED
  BY <1>2 DEF t

LEMMA UpTo ==
    ASSUME NEW top \in Nat
    PROVE  IsFiniteSet(0..top) /\ 0..top \subseteq Nat
<1>1. 0 \in Int /\ top \in Int
  OBVIOUS
<1> QED
  BY <1>1, FS_Interval

LEMMA AllInOrder ==
    ASSUME NEW top \in Nat, NEW t, t = Ascending(0..top), IsGraph, Vertices = 0..top,
           work.todo = t, work.leafs = <<>>, work.stack = <<>>, \A n \in Vertices : work.colors[n] = 2,
           \A n \in Vertices : data.count[n] = 0
    PROVE  InOrder(work, data)
<1> DEFINE number == Cardinality(0..top)
<1>1. IsFiniteSet(0..top) /\ 0..top \subseteq Nat
  BY UpTo
<1>2. /\ number \in Nat /\ t \in [1..number -> 0..top]
      /\ \A x \in 0..top : \E i \in 1..number : t[i] = x
      /\ \A i, j \in 1..number : t[i] < t[j] => i < j
  <2>1. Ascends(0..top, t)
    BY <1>1, AscentIs
  <2> QED
    BY <2>1 DEF Ascends
<1> HIDE DEF number
<1>3. t \in Seq(0..top)
  BY <1>2, IsASequence
<1>4. Len(t) = number
  BY <1>2, <1>3
<1>5. LeafsAreNew(work, data) /\ StackInOrder(work)
  BY DEF LeafsAreNew, StackInOrder
<1>6. VisitedAreListed(work, data)
  <2> SUFFICES ASSUME NEW n \in Vertices PROVE IsReady(work, data, n, Len(t) + 1)
    BY DEF VisitedAreListed
  <2>1. PICK j \in 1..number : t[j] = n
    BY <1>2
  <2>2. j \in 1..(Len(t) + 1) - 1
    BY <1>2, <1>4
  <2> QED
    BY <2>1, <2>2 DEF IsReady
<1>7. TodoInOrder(work, data)
  <2> SUFFICES ASSUME NEW i \in 1..Len(t), NEW l \in DOMAIN Children(t[i])
               PROVE  IsReady(work, data, Children(t[i])[l], i)
    BY DEF TodoInOrder
  <2>1. t[i] \in Vertices /\ i \in 1..number
    BY <1>2, <1>4
  <2> DEFINE c == Children(t[i])[l]
  <2>2. c \in 0..top /\ c < t[i]
    BY <2>1, ChildrenBelow
  <2> HIDE DEF c
  <2>3. PICK j \in 1..number : t[j] = c
    BY <1>2, <2>2
  <2>4. j < i
    BY <1>2, <2>1, <2>2, <2>3
  <2>5. j \in 1..i - 1
    BY <1>2, <2>1, <2>4
  <2>6. IsReady(work, data, c, i)
    BY <2>3, <2>5 DEF IsReady
  <2> QED
    BY <2>6 DEF c
<1>8. ChildrenHaveCuts(data)
  BY NoCutsYet
<1> QED
  BY <1>5, <1>6, <1>7, <1>8 DEF InOrder

LEMMA PartialInOrder ==
    ASSUME NEW B, IsFiniteSet(B), B \subseteq Nat, B \subseteq Vertices, B = graph.boundary,
           NEW t, t = Ascending(B), work.todo = <<>>, work.leafs = t,
           \A n \in Vertices : work.colors[n] = IF n \in B THEN 2 ELSE 0,
           \A n \in Vertices : data.count[n] = 0
    PROVE  InOrder(work, data)
<1> DEFINE number == Cardinality(B)
<1>1. /\ number \in Nat /\ t \in [1..number -> B]
      /\ \A x \in B : \E i \in 1..number : t[i] = x
      /\ \A i, j \in 1..number : t[i] = t[j] => i = j
  <2>1. Ascends(B, t)
    BY AscentIs
  <2> QED
    BY <2>1 DEF Ascends
<1> HIDE DEF number
<1>2. t \in Seq(B)
  BY <1>1, IsASequence
<1>3. Len(t) = number
  BY <1>1, <1>2
<1>4. LeafsAreNew(work, data)
  BY <1>1, <1>3 DEF LeafsAreNew
<1>5. StackInOrder(work)
  <2>1. \A n \in Vertices : work.colors[n] # 1
    OBVIOUS
  <2> QED
    BY <2>1 DEF StackInOrder
<1>6. VisitedAreListed(work, data)
  <2> SUFFICES ASSUME NEW n \in Vertices, work.colors[n] = 2 PROVE IsReady(work, data, n, Len(work.todo) + 1)
    BY DEF VisitedAreListed
  <2>1. n \in B
    OBVIOUS
  <2> QED
    BY <1>1, <1>3, <2>1 DEF IsReady
<1>7. TodoInOrder(work, data)
  BY DEF TodoInOrder
<1>8. ChildrenHaveCuts(data)
  BY NoCutsYet
<1> QED
  BY <1>4, <1>5, <1>6, <1>7, <1>8 DEF InOrder

LEMMA InitOrder == EnumerationInit => OrderInv
<1> SUFFICES ASSUME EnumerationInit PROVE OrderInv
  OBVIOUS
<1>1. PICK top \in Nat, size \in Nat, most \in Nat, kind \in {"aig", "mig", "xmg"} :
        \E children \in [0..top -> Seq(0..top)] :
            /\ children[0] = <<>>
            /\ \A n \in 0..top : \A i \in DOMAIN children[n] : children[n][i] < n
            /\ \/ StartAll(kind, children, size, most)
               \/ \E start \in Seq(0..top), boundary \in SUBSET (0..top) :
                    StartPartial(kind, children, size, most, start, boundary)
  BY Zenon DEF EnumerationInit
<1>2. PICK children \in [0..top -> Seq(0..top)] :
        /\ children[0] = <<>>
        /\ \A n \in 0..top : \A i \in DOMAIN children[n] : children[n][i] < n
        /\ \/ StartAll(kind, children, size, most)
           \/ \E start \in Seq(0..top), boundary \in SUBSET (0..top) :
                StartPartial(kind, children, size, most, start, boundary)
  BY <1>1
<1>3. DOMAIN children = 0..top /\ EnumerationInv
  BY InitEnumeration
<1>4. CASE StartAll(kind, children, size, most)
  <2> DEFINE t == Ascending(0..top)
  <2>1. /\ Start(kind, children, size, most, {})
        /\ work = [todo |-> t, stack |-> <<>>, colors |-> [n \in 0..top |-> 2], leafs |-> <<>>]
    BY <1>3, <1>4 DEF StartAll
  <2>2. IsGraph /\ Vertices = 0..top /\ \A n \in Vertices : data.count[n] = 0
    BY <1>2, <2>1, InitIsRight
  <2> HIDE DEF t
  <2>3. /\ work.todo = t /\ work.leafs = <<>> /\ work.stack = <<>>
        /\ \A n \in Vertices : work.colors[n] = 2
    BY <2>1, <2>2
  <2>4. InOrder(work, data)
    BY <2>2, <2>3, AllInOrder DEF t
  <2>5. CutsAreKept
    BY <2>2, NoCutsYet
  <2> QED
    BY <1>3, <2>4, <2>5 DEF OrderInv
<1>5. CASE \E start \in Seq(0..top), boundary \in SUBSET (0..top) :
                StartPartial(kind, children, size, most, start, boundary)
  <2>1. PICK start \in Seq(0..top), boundary \in SUBSET (0..top) :
                StartPartial(kind, children, size, most, start, boundary)
    BY <1>5
  <2> DEFINE B == boundary \cup {0}
             t == Ascending(B)
             c == [n \in 0..top |-> IF n \in B THEN 2 ELSE 0]
  <2>2. /\ Start(kind, children, size, most, B)
        /\ work = [todo |-> <<>>, stack |-> SeqExt!Reverse(start), colors |-> c, leafs |-> t]
    BY <1>3, <2>1 DEF StartPartial
  <2>3. IsGraph /\ Vertices = 0..top /\ \A n \in Vertices : data.count[n] = 0
    BY <1>2, <2>2, InitIsRight
  <2>4. B = graph.boundary
    BY <2>2 DEF Start
  <2>5. B \subseteq 0..top
    OBVIOUS
  <2>6. \A n \in 0..top : c[n] = IF n \in B THEN 2 ELSE 0
    OBVIOUS
  <2> HIDE DEF B, c, t
  <2>7. IsFiniteSet(B) /\ B \subseteq Nat
    <3>1. IsFiniteSet(0..top) /\ 0..top \subseteq Nat
      BY UpTo
    <3> QED
      BY <2>5, <3>1, FS_Subset
  <2>8. /\ work.todo = <<>> /\ work.leafs = t
        /\ \A n \in Vertices : work.colors[n] = IF n \in B THEN 2 ELSE 0
    BY <2>2, <2>3, <2>6
  <2>9. InOrder(work, data)
    BY <2>3, <2>4, <2>5, <2>7, <2>8, PartialInOrder DEF t
  <2>10. CutsAreKept
    BY <2>3, NoCutsYet
  <2> QED
    BY <1>3, <2>9, <2>10 DEF OrderInv
<1> QED
  BY <1>2, <1>4, <1>5

LEMMA OrderStep ==
    ASSUME OrderInv, [Enumerate]_enumerationVars
    PROVE  OrderInv'
<1>1. CASE AssignBoundary
  BY <1>1, AssignBoundaryOrder
<1>2. CASE Visit
  BY <1>2, VisitOrder
<1>3. CASE EnumerateNext
  BY <1>3, EnumerateNextOrder
<1>4. CASE UNCHANGED enumerationVars
  <2>1. graph' = graph /\ data' = data /\ cones' = cones /\ work' = work
    BY <1>4 DEF enumerationVars
  <2>2. EnumerationInv' /\ InOrder(work', data')
    BY <1>4, <2>1, EnumerationStep DEF OrderInv
  <2>3. CutsAreKept'
    <3>1. /\ Gates' = Gates /\ \A m : Children(m)' = Children(m)
          /\ \A m : ListsAt(m)' = ListsAt(m)
      BY <2>1, ChildrenStay DEF Gates, Vertices, Children, ListsAt, CutsOf, HasCones
    <3>2. ASSUME NEW n \in Gates', data'.count[n] > 0, n \notin (graph.boundary)'
          PROVE  NoneLost(SetsOf(data, n), ListsAt(n))'
      <4>1. n \in Gates /\ data.count[n] > 0 /\ n \notin graph.boundary
        BY <2>1, <3>1, <3>2
      <4>2. NoneLost(SetsOf(data', n), ListsAt(n)')
        BY <2>1, <3>1, <4>1 DEF OrderInv, CutsAreKept
      <4> QED
        BY <2>1, <4>2 DEF NoneLost
    <3> QED
      BY <3>2 DEF CutsAreKept
  <2> QED
    BY <2>1, <2>2, <2>3, OrderIs
<1> QED
  BY <1>1, <1>2, <1>3, <1>4 DEF Enumerate

(* For every graph, boundary, cut size and priority: no gate that enumerate or    *)
(* enumerate_partial has finished has lost a cut.  Unless the list was longer than *)
(* the priority and cut off, every choice of one cut of each child, whose union   *)
(* has at most k nodes, is above some cut that is stored for the gate.         *)
THEOREM NoCutIsLost == EnumerationSpec => []NothingIsLost
<1>1. EnumerationInit => OrderInv
  BY InitOrder
<1>2. OrderInv /\ [Enumerate]_enumerationVars => OrderInv'
  BY OrderStep
<1> QED
  BY <1>1, <1>2, InvNothingIsLost, PTL DEF EnumerationSpec
===============================================================================
