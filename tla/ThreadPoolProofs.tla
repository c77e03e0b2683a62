--------------------------- MODULE ThreadPoolProofs ---------------------------
(***************************************************************************)
(* Proofs about ThreadPool for any non-empty set of workers and any set of *)
(* tasks.  IInv is inductive; the safety properties follow from it.        *)
(***************************************************************************)
EXTENDS ThreadPool, SequenceTheorems, TLAPS

-------------------------------------------------------------------------------
(* Facts about sequences. *)

(* The elements of a longer sequence. *)
LEMMA InOrderAppend ==
    ASSUME NEW S, NEW s \in Seq(S), NEW e \in S
    PROVE  InOrder(Append(s, e)) = InOrder(s) \cup {e}
  BY AppendProperties, LenProperties DEF InOrder

LEMMA InOrderSubset ==
    ASSUME NEW S, NEW s \in Seq(S)
    PROVE  InOrder(s) \subseteq S
  BY ElementOfSeq DEF InOrder

(* A fresh element keeps a sequence free of duplicates. *)
LEMMA DistinctAppend ==
    ASSUME NEW S, NEW s \in Seq(S), NEW e \in S,
           Distinct(s), e \notin InOrder(s)
    PROVE  Distinct(Append(s, e))
  BY AppendProperties, LenProperties DEF Distinct, InOrder

(* The elements of a concatenation include those of both parts. *)
LEMMA InOrderConcat ==
    ASSUME NEW S, NEW s \in Seq(S), NEW t \in Seq(S)
    PROVE  InOrder(s) \subseteq InOrder(s \o t) /\ InOrder(t) \subseteq InOrder(s \o t)
<1>1. /\ Len(s \o t) = Len(s) + Len(t) /\ Len(s) \in Nat /\ Len(t) \in Nat
      /\ \A i \in 1..Len(s) : (s \o t)[i] = s[i]
      /\ \A i \in 1..Len(t) : (s \o t)[Len(s) + i] = t[i]
  BY LenProperties
<1>2. \A i \in 1..Len(s) : i \in 1..Len(s \o t)
  BY <1>1
<1>3. \A i \in 1..Len(t) : Len(s) + i \in 1..Len(s \o t)
  BY <1>1
<1> QED
  BY <1>1, <1>2, <1>3 DEF InOrder

(* Taking the head out of a sequence without duplicates removes exactly it. *)
LEMMA TailElements ==
    ASSUME NEW S, NEW s \in Seq(S), NEW t \in Seq(S), t # <<>>, Distinct(s \o t)
    PROVE  InOrder(Tail(t)) = InOrder(t) \ {Head(t)}
<1>1. /\ Len(t) \in Nat \ {0} /\ Len(Tail(t)) = Len(t) - 1 /\ Head(t) = t[1]
      /\ \A i \in 1..Len(t) - 1 : Tail(t)[i] = t[i + 1]
  BY HeadTailProperties, LenProperties, EmptySeq
<1>2. \A i, j \in 1..Len(t) : t[i] = t[j] => i = j
  <2>1. /\ Len(s \o t) = Len(s) + Len(t) /\ Len(s) \in Nat
        /\ \A i \in 1..Len(t) : (s \o t)[Len(s) + i] = t[i]
    BY LenProperties
  <2>2. \A i \in 1..Len(t) : Len(s) + i \in 1..Len(s \o t)
    BY <2>1, <1>1
  <2> QED
    BY <2>1, <2>2, <1>1, SMTT(40) DEF Distinct
<1>3. \A i \in 2..Len(t) : i - 1 \in 1..Len(t) - 1 /\ t[i] = Tail(t)[i - 1]
  BY <1>1
<1>4. InOrder(Tail(t)) \subseteq InOrder(t) \ {Head(t)}
  BY <1>1, <1>2 DEF InOrder
<1>5. InOrder(t) \ {Head(t)} \subseteq InOrder(Tail(t))
  <2> SUFFICES ASSUME NEW i \in 1..Len(t), t[i] # t[1]
               PROVE  t[i] \in InOrder(Tail(t))
    BY <1>1 DEF InOrder
  <2>1. i \in 2..Len(t)
    BY <1>1
  <2> QED
    BY <2>1, <1>1, <1>3 DEF InOrder
<1> QED
  BY <1>4, <1>5

(* In a sequence without duplicates the next element was not seen before. *)
LEMMA HeadIsNew ==
    ASSUME NEW S, NEW s \in Seq(S), NEW t \in Seq(S), t # <<>>,
           Distinct(s \o t)
    PROVE  Head(t) \notin InOrder(s)
<1> SUFFICES ASSUME NEW i \in 1..Len(s), s[i] = Head(t)
             PROVE  FALSE
  BY DEF InOrder
<1>1. Len(t) \in Nat \ {0} /\ Len(s) \in Nat
  BY LenProperties, EmptySeq
<1>2. /\ Len(s \o t) = Len(s) + Len(t)
      /\ (s \o t)[i] = s[i]
      /\ (s \o t)[Len(s) + 1] = t[1]
  BY <1>1, ConcatProperties
<1>3. t[1] = Head(t)
  BY HeadTailProperties
<1> QED
  BY <1>1, <1>2, <1>3, SMTT(40) DEF Distinct

-------------------------------------------------------------------------------
(* The invariant holds initially and every step preserves it. *)

LEMMA InitIInv == Init => IInv
<1> SUFFICES ASSUME Init PROVE IInv
  OBVIOUS
<1> USE DEF Init
<1>1. InOrder(started) = {} /\ <<>> \in Seq(Tasks)
  BY EmptySeq DEF InOrder
<1>2. TypeOK
  BY <1>1, PoolAssumption DEF TypeOK
<1>3. Fifo
  BY ConcatEmptySeq, <1>1 DEF Fifo
<1>4. Distinct(accepted)
  BY DEF Distinct
<1>5. /\ StopFollowsOwner /\ LeavesNothing /\ NobodyWaitsAfterStop
      /\ JoinedAll /\ NoLostWakeup
  BY DEF StopFollowsOwner, LeavesNothing, NobodyWaitsAfterStop, JoinedAll, NoLostWakeup
<1>6. HoldsStarted /\ OneHolder /\ NoResultBeforeStart /\ TakenIsRunOnce
  BY <1>1 DEF HoldsStarted, OneHolder, NoResultBeforeStart, TakenIsRunOnce
<1> QED
  BY <1>2, <1>3, <1>4, <1>5, <1>6 DEF IInv

(* An accepted task is new, so it is neither held nor has it a result. *)
LEMMA EnqueuePreserves ==
    ASSUME NEW p \in Workers \cup {Owner}, NEW t \in Tasks, IInv, Enqueue(p, t)
    PROVE  IInv'
<1> USE DEF Enqueue
<1> TypeOK /\ Fifo /\ Distinct(accepted)
  BY DEF IInv
<1>1. /\ tasks' \in Seq(Tasks) /\ accepted' \in Seq(Tasks) /\ tasks' # <<>>
  BY AppendProperties DEF TypeOK
<1>2. TypeOK'
  BY <1>1 DEF TypeOK
<1>3. Fifo'
  BY DEF Fifo, TypeOK
<1>4. Distinct(accepted)'
  BY DistinctAppend, SMTT(40) DEF TypeOK, Distinct
<1>5. /\ StopFollowsOwner' /\ LeavesNothing' /\ NobodyWaitsAfterStop'
      /\ JoinedAll' /\ NoLostWakeup'
  BY DEF IInv, StopFollowsOwner, LeavesNothing, NobodyWaitsAfterStop, JoinedAll, NoLostWakeup
<1>6. HoldsStarted' /\ OneHolder' /\ NoResultBeforeStart' /\ TakenIsRunOnce'
  BY DEF IInv, HoldsStarted, OneHolder, NoResultBeforeStart, TakenIsRunOnce, InOrder
<1> QED
  BY <1>2, <1>3, <1>4, <1>5, <1>6 DEF IInv, Distinct

(* A step that leaves queue, histories, results and what workers hold alone. *)
LEMMA QuietPreserves ==
    ASSUME IInv, TypeOK',
           UNCHANGED <<tasks, accepted, started, future, current>>,
           \A w \in Workers : pc[w] = "running" <=> pc'[w] = "running",
           StopFollowsOwner', LeavesNothing', NobodyWaitsAfterStop',
           JoinedAll', NoLostWakeup'
    PROVE  IInv'
<1>1. Fifo' /\ Distinct(accepted)'
  BY DEF IInv, Fifo, Distinct
<1>2. HoldsStarted' /\ OneHolder' /\ NoResultBeforeStart' /\ TakenIsRunOnce'
  BY DEF IInv, HoldsStarted, OneHolder, NoResultBeforeStart, TakenIsRunOnce, InOrder
<1> QED
  BY <1>1, <1>2 DEF IInv, Distinct

LEMMA NotifyOnePreserves ==
    ASSUME NEW p, IInv, NotifyOne(p)
    PROVE  IInv'
<1> USE DEF NotifyOne
<1>1. TypeOK /\ TypeOK'
  BY DEF IInv, TypeOK
<1>2. \A w \in Workers : pc'[w] = pc[w] \/ (pc[w] = "waiting" /\ pc'[w] = "ready")
  <2>1. CASE pc' = pc
    BY <2>1
  <2>2. ASSUME NEW v \in Workers, pc[v] = "waiting", pc' = [pc EXCEPT ![v] = "ready"]
        PROVE  \A w \in Workers : pc'[w] = pc[w] \/ (pc[w] = "waiting" /\ pc'[w] = "ready")
    BY <1>1, <2>2 DEF TypeOK
  <2> QED
    BY <2>1, <2>2
<1>3. StopFollowsOwner' /\ LeavesNothing' /\ NobodyWaitsAfterStop' /\ JoinedAll'
  BY <1>2 DEF IInv, StopFollowsOwner, LeavesNothing, NobodyWaitsAfterStop, JoinedAll
<1>4. NoLostWakeup'
  <2> SUFFICES ASSUME tasks # <<>>
               PROVE  \E w \in Workers : pc'[w] \in {"ready", "running"}
    BY DEF NoLostWakeup
  <2>1. CASE \E w \in Workers : pc[w] = "waiting" /\ pc' = [pc EXCEPT ![w] = "ready"]
    BY <2>1, <1>1 DEF TypeOK
  <2>2. CASE (\A w \in Workers : pc[w] # "waiting") /\ pc' = pc
    <3>1. \A w \in Workers : pc[w] # "exited"
      BY DEF IInv, LeavesNothing
    <3> QED
      BY <2>2, <3>1, <1>1, PoolAssumption DEF TypeOK
  <2> QED
    BY <2>1, <2>2
<1> QED
  BY <1>1, <1>2, <1>3, <1>4, QuietPreserves

LEMMA WaitPreserves ==
    ASSUME NEW w \in Workers, IInv, Wait(w)
    PROVE  IInv'
<1> USE DEF Wait
<1>1. TypeOK /\ TypeOK'
  BY DEF IInv, TypeOK
<1>2. \A v \in Workers : pc'[v] = IF v = w THEN "waiting" ELSE pc[v]
  BY <1>1 DEF TypeOK
<1>3. /\ StopFollowsOwner' /\ LeavesNothing' /\ NobodyWaitsAfterStop'
      /\ JoinedAll' /\ NoLostWakeup'
  BY <1>1, <1>2 DEF IInv, TypeOK, StopFollowsOwner, LeavesNothing,
                    NobodyWaitsAfterStop, JoinedAll, NoLostWakeup
<1> QED
  BY <1>1, <1>2, <1>3, QuietPreserves

LEMMA SpuriousWakePreserves ==
    ASSUME NEW w \in Workers, IInv, SpuriousWake(w)
    PROVE  IInv'
<1> USE DEF SpuriousWake
<1>1. TypeOK /\ TypeOK'
  BY DEF IInv, TypeOK
<1>2. \A v \in Workers : pc'[v] = IF v = w THEN "ready" ELSE pc[v]
  BY <1>1 DEF TypeOK
<1>3. /\ StopFollowsOwner' /\ LeavesNothing' /\ NobodyWaitsAfterStop'
      /\ JoinedAll' /\ NoLostWakeup'
  BY <1>2 DEF IInv, StopFollowsOwner, LeavesNothing,
              NobodyWaitsAfterStop, JoinedAll, NoLostWakeup
<1> QED
  BY <1>1, <1>2, <1>3, QuietPreserves

LEMMA ExitPreserves ==
    ASSUME NEW w \in Workers, IInv, Exit(w)
    PROVE  IInv'
<1> USE DEF Exit
<1>1. TypeOK /\ TypeOK'
  BY DEF IInv, TypeOK
<1>2. \A v \in Workers : pc'[v] = IF v = w THEN "exited" ELSE pc[v]
  BY <1>1 DEF TypeOK
<1>3. /\ StopFollowsOwner' /\ LeavesNothing' /\ NobodyWaitsAfterStop'
      /\ JoinedAll' /\ NoLostWakeup'
  BY <1>2 DEF IInv, StopFollowsOwner, LeavesNothing,
              NobodyWaitsAfterStop, JoinedAll, NoLostWakeup
<1> QED
  BY <1>1, <1>2, <1>3, QuietPreserves

(* Stop, NotifyAll and JoinAll. *)
LEMMA DestructorPreserves ==
    ASSUME IInv, Stop \/ NotifyAll \/ JoinAll
    PROVE  IInv'
<1>1. TypeOK /\ TypeOK'
  BY DEF IInv, TypeOK, Stop, NotifyAll, JoinAll
<1>2. CASE Stop
  <2> USE <1>2 DEF Stop
  <2>1. /\ StopFollowsOwner' /\ LeavesNothing' /\ NobodyWaitsAfterStop'
        /\ JoinedAll' /\ NoLostWakeup'
    BY DEF IInv, StopFollowsOwner, LeavesNothing,
           NobodyWaitsAfterStop, JoinedAll, NoLostWakeup
  <2> QED
    BY <1>1, <2>1, QuietPreserves
<1>3. CASE NotifyAll
  <2> USE <1>3 DEF NotifyAll
  <2>1. \A v \in Workers : pc'[v] = IF pc[v] = "waiting" THEN "ready" ELSE pc[v]
    BY DEF TypeOK
  <2>2. /\ StopFollowsOwner' /\ LeavesNothing' /\ NobodyWaitsAfterStop'
        /\ JoinedAll' /\ NoLostWakeup'
    BY <2>1 DEF IInv, StopFollowsOwner, LeavesNothing,
                NobodyWaitsAfterStop, JoinedAll, NoLostWakeup
  <2> QED
    BY <1>1, <2>1, <2>2, QuietPreserves
<1>4. CASE JoinAll
  <2> USE <1>4 DEF JoinAll
  <2>1. /\ StopFollowsOwner' /\ LeavesNothing' /\ NobodyWaitsAfterStop'
        /\ JoinedAll' /\ NoLostWakeup'
    BY DEF IInv, StopFollowsOwner, LeavesNothing,
           NobodyWaitsAfterStop, JoinedAll, NoLostWakeup
  <2> QED
    BY <1>1, <2>1, QuietPreserves
<1> QED
  BY <1>2, <1>3, <1>4

(* The task a worker takes is new among the started ones: nobody holds it  *)
(* and it has no result.                                                   *)
LEMMA TakePreserves ==
    ASSUME NEW w \in Workers, IInv, Take(w)
    PROVE  IInv'
<1> USE DEF Take
<1> DEFINE t == Head(tasks)
<1>0. TypeOK /\ Fifo
  BY DEF IInv
<1>1. t \in Tasks /\ Tail(tasks) \in Seq(Tasks) /\ Append(started, t) \in Seq(Tasks)
  BY <1>0, HeadTailProperties, AppendProperties DEF TypeOK
<1>2. t \notin InOrder(started)
  BY <1>0, HeadIsNew DEF IInv, TypeOK, Fifo, Distinct
<1>3. InOrder(started') = InOrder(started) \cup {t}
  BY <1>0, <1>1, InOrderAppend DEF TypeOK
<1>4. \A v \in Workers : /\ current'[v] = IF v = w THEN t ELSE current[v]
                         /\ pc'[v] = IF v = w THEN "running" ELSE pc[v]
  BY <1>0 DEF TypeOK
<1>5. \A v \in Workers : current[v] # NoTask => current[v] \in InOrder(started)
  BY <1>0 DEF IInv, HoldsStarted, TypeOK
<1> HIDE DEF t
<1>6. TypeOK'
  <2>1. current' \in [Workers -> Tasks \cup {NoTask}]
    BY <1>0, <1>1 DEF TypeOK, t
  <2>2. pc' \in [Workers -> {"ready", "waiting", "running", "exited"}]
    BY <1>0 DEF TypeOK
  <2>3. \A v \in Workers : (current'[v] = NoTask) <=> (pc'[v] # "running")
    BY <1>0, <1>1, <1>4, PoolAssumption DEF TypeOK
  <2>4. tasks' \in Seq(Tasks) /\ started' \in Seq(Tasks)
    BY <1>1 DEF t
  <2> QED
    BY <1>0, <2>1, <2>2, <2>3, <2>4 DEF TypeOK
<1>7. Fifo' /\ Distinct(accepted)'
  <2>1. Fifo'
    BY <1>0, SMTT(40) DEF Fifo, TypeOK
  <2> QED
    BY <2>1 DEF IInv, Distinct
<1>8. /\ StopFollowsOwner' /\ LeavesNothing' /\ NobodyWaitsAfterStop'
      /\ JoinedAll' /\ NoLostWakeup'
  BY <1>4 DEF IInv, StopFollowsOwner, LeavesNothing,
              NobodyWaitsAfterStop, JoinedAll, NoLostWakeup
<1>9. HoldsStarted' /\ OneHolder'
  BY <1>0, <1>2, <1>3, <1>4, <1>5, <1>1 DEF IInv, HoldsStarted, OneHolder, TypeOK
<1>10. NoResultBeforeStart'
  BY <1>3 DEF IInv, NoResultBeforeStart
<1>11. TakenIsRunOnce'
  <2> SUFFICES ASSUME NEW u \in InOrder(started')
               PROVE  (future[u] = "none") <=> \E v \in Workers : current'[v] = u
    BY DEF TakenIsRunOnce
  <2>1. CASE u = t
    BY <2>1, <1>1, <1>2, <1>4 DEF IInv, NoResultBeforeStart
  <2>2. CASE u \in InOrder(started)
    <3>1. u # t /\ u # NoTask
      BY <2>2, <1>0, <1>2, InOrderSubset, PoolAssumption DEF TypeOK
    <3>2. current[w] = NoTask
      BY <1>0 DEF TypeOK
    <3> QED
      BY <2>2, <3>1, <3>2, <1>4 DEF IInv, TakenIsRunOnce
  <2> QED
    BY <1>3, <2>1, <2>2
<1> QED
  BY <1>6, <1>7, <1>8, <1>9, <1>10, <1>11 DEF IInv, Distinct

(* A finished task gets its result and loses its only holder. *)
LEMMA FinishPreserves ==
    ASSUME NEW w \in Workers, IInv, Finish(w)
    PROVE  IInv'
<1> USE DEF Finish
<1> DEFINE t == current[w]
<1>0. TypeOK
  BY DEF IInv
<1>1. t \in Tasks /\ t \in InOrder(started)
  BY <1>0 DEF IInv, HoldsStarted, TypeOK
<1>2. \A v \in Workers : /\ current'[v] = IF v = w THEN NoTask ELSE current[v]
                         /\ pc'[v] = IF v = w THEN "ready" ELSE pc[v]
  BY <1>0 DEF TypeOK
<1>3. /\ future' \in [Tasks -> {"none", "value", "exception"}]
      /\ future'[t] # "none"
      /\ \A u \in Tasks : u # t => future'[u] = future[u]
  BY <1>0, <1>1 DEF TypeOK
<1>4. TypeOK'
  <2>1. current' \in [Workers -> Tasks \cup {NoTask}]
    BY <1>0 DEF TypeOK
  <2>2. pc' \in [Workers -> {"ready", "waiting", "running", "exited"}]
    BY <1>0 DEF TypeOK
  <2>3. \A v \in Workers : (current'[v] = NoTask) <=> (pc'[v] # "running")
    BY <1>0, <1>2 DEF TypeOK
  <2> QED
    BY <1>0, <1>3, <2>1, <2>2, <2>3 DEF TypeOK
<1>5. Fifo' /\ Distinct(accepted)'
  BY DEF IInv, Fifo, Distinct
<1>6. /\ StopFollowsOwner' /\ LeavesNothing' /\ NobodyWaitsAfterStop'
      /\ JoinedAll' /\ NoLostWakeup'
  BY <1>2 DEF IInv, StopFollowsOwner, LeavesNothing,
              NobodyWaitsAfterStop, JoinedAll, NoLostWakeup
<1>7. HoldsStarted' /\ OneHolder'
  BY <1>2 DEF IInv, HoldsStarted, OneHolder, InOrder
<1>8. NoResultBeforeStart'
  BY <1>1, <1>3 DEF IInv, NoResultBeforeStart, InOrder
<1>9. TakenIsRunOnce'
  <2> SUFFICES ASSUME NEW u \in InOrder(started)
               PROVE  (future'[u] = "none") <=> \E v \in Workers : current'[v] = u
    BY DEF TakenIsRunOnce, InOrder
  <2>0. u \in Tasks /\ u # NoTask
    BY <1>0, InOrderSubset, PoolAssumption DEF TypeOK
  <2>1. CASE u = t
    <3>1. \A v \in Workers : v # w => current[v] # t
      BY <2>0, <2>1, <1>0 DEF IInv, OneHolder, TypeOK
    <3> QED
      BY <2>0, <2>1, <3>1, <1>2, <1>3
  <2>2. CASE u # t
    BY <2>0, <2>2, <1>2, <1>3 DEF IInv, TakenIsRunOnce
  <2> QED
    BY <2>1, <2>2
<1> QED
  BY <1>4, <1>5, <1>6, <1>7, <1>8, <1>9 DEF IInv, Distinct

LEMMA NextIInv == IInv /\ [Next]_vars => IInv'
<1> SUFFICES ASSUME IInv, [Next]_vars PROVE IInv'
  OBVIOUS
<1>1. ASSUME NEW w \in Workers, WorkerStep(w) PROVE IInv'
  BY <1>1, WaitPreserves, ExitPreserves, TakePreserves, FinishPreserves,
     NotifyOnePreserves, EnqueuePreserves DEF WorkerStep
<1>2. ASSUME NEW w \in Workers, SpuriousWake(w) PROVE IInv'
  BY <1>2, SpuriousWakePreserves
<1>3. CASE OwnerStep
  BY <1>3, NotifyOnePreserves, EnqueuePreserves, DestructorPreserves DEF OwnerStep
<1>4. CASE UNCHANGED vars
  <2> USE <1>4 DEF vars
  <2>1. TypeOK'
    BY DEF IInv, TypeOK
  <2>2. /\ StopFollowsOwner' /\ LeavesNothing' /\ NobodyWaitsAfterStop'
        /\ JoinedAll' /\ NoLostWakeup'
    BY DEF IInv, StopFollowsOwner, LeavesNothing,
           NobodyWaitsAfterStop, JoinedAll, NoLostWakeup
  <2> QED
    BY <2>1, <2>2, QuietPreserves
<1> QED
  BY <1>1, <1>2, <1>3, <1>4 DEF Next, Terminated

(* The inductive invariant holds in every state of every execution, for any *)
(* number of workers and tasks.                                             *)
THEOREM Inductive == Spec => []IInv
  BY InitIInv, NextIInv, PTL DEF Spec

-------------------------------------------------------------------------------
(* What the runs check, for any number of workers and tasks. *)

(* Every variable keeps its type, and a worker holds a task exactly while it *)
(* runs one.                                                                 *)
THEOREM TypeCorrect == Spec => []TypeOK
<1>1. IInv => TypeOK
  BY DEF IInv
<1> QED
  BY <1>1, Inductive, PTL

(* Tasks start in the order in which enqueue accepted them; none is lost or *)
(* started twice.                                                           *)
THEOREM QueueIsFifo == Spec => [](Fifo /\ TakenIsRunOnce)
<1>1. IInv => Fifo /\ TakenIsRunOnce
  BY DEF IInv
<1> QED
  BY <1>1, Inductive, PTL

(* A queued task is never left to workers that all sleep, nor to workers   *)
(* that have all returned, and the joins never wait for a sleeping worker.  *)
THEOREM NoTaskForgotten ==
    Spec => [](NoLostWakeup /\ LeavesNothing /\ NobodyWaitsAfterStop)
<1>1. IInv => NoLostWakeup /\ LeavesNothing /\ NobodyWaitsAfterStop
  BY DEF IInv
<1> QED
  BY <1>1, Inductive, PTL

(* When every worker has returned and one exists, the queue is empty and no *)
(* task is in hand: all that was accepted has its result.                   *)
LEMMA AllExitedDrained ==
    ASSUME IInv, \A w \in Workers : pc[w] = "exited"
    PROVE  /\ tasks = <<>>
           /\ \A t \in InOrder(accepted) : future[t] # "none"
<1>1. TypeOK /\ Fifo /\ LeavesNothing /\ TakenIsRunOnce
  BY DEF IInv
<1>2. tasks = <<>>
  BY <1>1, PoolAssumption DEF LeavesNothing
<1>3. accepted = started
  BY <1>1, <1>2 DEF Fifo, TypeOK
<1>4. \A t \in InOrder(started) : t # NoTask
  BY <1>1, InOrderSubset, PoolAssumption DEF TypeOK
<1>5. \A w \in Workers : current[w] = NoTask
  BY <1>1 DEF TypeOK
<1> QED
  BY <1>1, <1>2, <1>3, <1>4, <1>5 DEF TakenIsRunOnce

(* The destructor returns only after every accepted task has run.  This is *)
(* where a pool without workers (hardware_concurrency() = 0) would fail.   *)
THEOREM DestructorDrains == Spec => []Drained
<1>1. IInv => Drained
  BY AllExitedDrained DEF IInv, JoinedAll, Drained
<1> QED
  BY <1>1, Inductive, PTL

(* After the destructor has set stop, enqueue changes nothing. *)
THEOREM StopIsFinal == Spec => ClosedForGood
<1>1. [Next]_vars => [stop => /\ stop' /\ accepted' = accepted]_vars
  BY DEF Next, WorkerStep, OwnerStep, Terminated, vars, Enqueue, NotifyOne, Wait,
         SpuriousWake, Exit, Take, Finish, Stop, NotifyAll, JoinAll
<1> QED
  BY <1>1, PTL DEF Spec, ClosedForGood

-------------------------------------------------------------------------------
(* The pool implements the abstract executor, step by step. *)

LEMMA PhaseValue ==
    ASSUME TypeOK
    PROVE  /\ owner = "open" <=> Phase = "open"
           /\ owner \in {"notify_all", "join"} <=> Phase = "closing"
           /\ owner = "done" <=> Phase = "closed"
  BY DEF TypeOK, Phase

(* A step that moves no task is a stutter of the executor. *)
LEMMA QuietStutters ==
    ASSUME IInv, UNCHANGED <<tasks, current, future, owner>>,
           \A w \in Workers : pc[w] = "running" <=> pc'[w] = "running"
    PROVE  UNCHANGED Executor!avars
<1>1. Pending' = Pending /\ Finished' = Finished /\ Phase' = Phase
  BY DEF Pending, Finished, Phase, InOrder
<1>2. Active' = Active
  BY DEF Active
<1> QED
  BY <1>1, <1>2 DEF Executor!avars

LEMMA EnqueueAccepts ==
    ASSUME NEW p, NEW t \in Tasks, IInv, Enqueue(p, t)
    PROVE  Executor!ANext
<1> USE DEF Enqueue
<1>0. TypeOK /\ Fifo
  BY DEF IInv
<1>1. Pending' = Pending \cup {t}
  BY <1>0, InOrderAppend DEF Pending, TypeOK
<1>2. Active' = Active /\ Finished' = Finished /\ Phase' = Phase
  BY DEF Active, Finished, Phase
<1>3. Phase = "open"
  BY <1>0, PhaseValue DEF IInv, StopFollowsOwner
<1>4. InOrder(started) \subseteq InOrder(accepted) /\ Pending \subseteq InOrder(accepted)
  BY <1>0, InOrderConcat DEF Fifo, TypeOK, Pending
<1>5. t \notin Active /\ t \notin Finished
  BY <1>4 DEF IInv, HoldsStarted, NoResultBeforeStart, Active, Finished
<1>6. Executor!Accept(t)
  BY <1>1, <1>2, <1>3, <1>4, <1>5 DEF Executor!Accept
<1> QED
  BY <1>6 DEF Executor!ANext

LEMMA TakeStarts ==
    ASSUME NEW w \in Workers, IInv, Take(w)
    PROVE  Executor!ANext
<1> USE DEF Take
<1> DEFINE t == Head(tasks)
<1>0. TypeOK
  BY DEF IInv
<1>1. t \in Pending /\ t \in Tasks
  BY <1>0, HeadTailProperties DEF TypeOK, Pending, InOrder
<1>2. Pending' = Pending \ {t}
  BY <1>0, TailElements DEF IInv, Fifo, TypeOK, Pending
<1>3. Active' = Active \cup {t}
  <2>1. \A v \in Workers : /\ current'[v] = IF v = w THEN t ELSE current[v]
                           /\ pc'[v] = IF v = w THEN "running" ELSE pc[v]
    BY <1>0 DEF TypeOK
  <2> HIDE DEF t
  <2> QED
    BY <2>1 DEF Active
<1>4. Finished' = Finished /\ Phase' = Phase
  BY DEF Finished, Phase
<1>5. Executor!Start(t)
  BY <1>1, <1>2, <1>3, <1>4 DEF Executor!Start
<1> QED
  BY <1>1, <1>5 DEF Executor!ANext

LEMMA FinishEnds ==
    ASSUME NEW w \in Workers, IInv, Finish(w)
    PROVE  Executor!ANext
<1> USE DEF Finish
<1> DEFINE t == current[w]
<1>0. TypeOK
  BY DEF IInv
<1>1. t \in Active /\ t \in Tasks
  BY <1>0 DEF TypeOK, Active
<1>2. \A v \in Workers : /\ current'[v] = IF v = w THEN NoTask ELSE current[v]
                         /\ pc'[v] = IF v = w THEN "ready" ELSE pc[v]
  BY <1>0 DEF TypeOK
<1>3. Active' = Active \ {t}
  <2>1. \A v \in Workers : v # w /\ pc[v] = "running" => current[v] # t
    BY DEF IInv, OneHolder
  <2> HIDE DEF t
  <2> QED
    BY <1>2, <2>1 DEF Active, t
<1>4. Finished' = Finished \cup {t}
  BY <1>0, <1>1 DEF Finished, TypeOK
<1>5. Pending' = Pending /\ Phase' = Phase
  BY DEF Pending, Phase, InOrder
<1>6. Executor!End(t)
  BY <1>1, <1>3, <1>4, <1>5 DEF Executor!End
<1> QED
  BY <1>1, <1>6 DEF Executor!ANext

LEMMA DestructorCloses ==
    ASSUME IInv, Stop \/ NotifyAll \/ JoinAll
    PROVE  Executor!ANext \/ UNCHANGED Executor!avars
<1>0. TypeOK /\ TypeOK'
  BY DestructorPreserves DEF IInv
<1>1. CASE Stop
  <2>1. Pending' = Pending /\ Active' = Active /\ Finished' = Finished
    BY <1>1 DEF Stop, Pending, Active, Finished, InOrder
  <2>2. Executor!BeginClose
    BY <1>0, <1>1, <2>1 DEF Stop, Phase, Executor!BeginClose
  <2> QED
    BY <2>2 DEF Executor!ANext
<1>2. CASE NotifyAll
  <2>1. \A v \in Workers : pc[v] = "running" <=> pc'[v] = "running"
    BY <1>2 DEF NotifyAll
  <2>2. Pending' = Pending /\ Finished' = Finished /\ Phase' = Phase
    BY <1>2 DEF NotifyAll, Pending, Finished, InOrder, Phase
  <2>3. Active' = Active
    BY <1>2, <2>1 DEF NotifyAll, Active
  <2> QED
    BY <2>2, <2>3 DEF Executor!avars
<1>3. CASE JoinAll
  <2>1. Pending' = Pending /\ Active' = Active /\ Finished' = Finished
    BY <1>3 DEF JoinAll, Pending, Active, Finished, InOrder
  <2>2. Pending = {} /\ Active = {}
    BY <1>3, AllExitedDrained DEF JoinAll, Pending, Active, InOrder
  <2>3. Executor!EndClose
    BY <1>0, <1>3, <2>1, <2>2 DEF JoinAll, Phase, Executor!EndClose
  <2> QED
    BY <2>3 DEF Executor!ANext
<1> QED
  BY <1>1, <1>2, <1>3

(* Each step of the pool is a step of the executor or leaves it alone: tasks *)
(* are accepted only while the pool is open, start and end once, and closing *)
(* ends only when nothing is pending or active.                              *)
THEOREM PoolRefinesExecutor == Spec => Executor!ASafety
<1>1. Init => Executor!AInit
  BY DEF Init, Executor!AInit, Pending, Active, Finished, Phase, InOrder
<1>2. ASSUME IInv, [Next]_vars
      PROVE  [Executor!ANext]_(Executor!avars)
  <2>1. ASSUME NEW p \in Workers \cup {Owner}, NotifyOne(p)
        PROVE  UNCHANGED Executor!avars
    <3>1. \A w \in Workers : pc[w] = "running" <=> pc'[w] = "running"
      BY <1>2, <2>1 DEF NotifyOne, IInv, TypeOK
    <3> QED
      BY <1>2, <2>1, <3>1, QuietStutters DEF NotifyOne
  <2>2. ASSUME NEW w \in Workers, Wait(w) \/ Exit(w) \/ SpuriousWake(w)
        PROVE  UNCHANGED Executor!avars
    <3>1. \A v \in Workers : pc[v] = "running" <=> pc'[v] = "running"
      BY <1>2, <2>2 DEF Wait, Exit, SpuriousWake, IInv, TypeOK
    <3> QED
      BY <1>2, <2>2, <3>1, QuietStutters DEF Wait, Exit, SpuriousWake
  <2>3. ASSUME NEW w \in Workers, WorkerStep(w)
        PROVE  [Executor!ANext]_(Executor!avars)
    BY <1>2, <2>1, <2>2, <2>3, TakeStarts, FinishEnds, EnqueueAccepts DEF WorkerStep
  <2>4. CASE OwnerStep
    BY <1>2, <2>1, <2>4, EnqueueAccepts, DestructorCloses DEF OwnerStep
  <2>5. CASE UNCHANGED vars
    BY <1>2, <2>5, QuietStutters DEF vars
  <2> QED
    BY <1>2, <2>2, <2>3, <2>4, <2>5 DEF Next, Terminated
<1> QED
  BY <1>1, <1>2, Inductive, PTL DEF Spec, Executor!ASafety

===============================================================================
