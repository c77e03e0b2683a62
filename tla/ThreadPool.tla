------------------------------ MODULE ThreadPool ------------------------------
(***************************************************************************)
(* cirkit::thread_pool (core/utils/thread_pool.hpp, thread_pool.cpp).      *)
(*                                                                         *)
(* Every access to "tasks" and "stop" happens in a critical section of     *)
(* queue_mutex, so a critical section is one step here.  Notifications are *)
(* sent after the lock is released and are steps of their own.  A worker   *)
(* that returns from condition.wait evaluates the predicate again with the *)
(* lock held, which is what it does on entry: both are pc "ready".         *)
(***************************************************************************)
EXTENDS Naturals, Sequences

CONSTANTS Workers,      \* one per core: thread_pool() asks hardware_concurrency
          Tasks,        \* bound: each element is passed to enqueue at most once
          Owner,        \* the thread that creates and destroys the pool
          NoTask

ASSUME PoolAssumption ==
    /\ Workers # {}
    /\ Owner \notin Workers
    /\ NoTask \notin Tasks

VARIABLES tasks,        \* the FIFO queue
          stop,         \* set by the destructor
          pc,           \* per worker: "ready", "waiting", "running", "exited"
          current,      \* per worker: the task it runs
          owing,        \* threads between the end of the critical section of
                        \* enqueue and their call of notify_one
          owner,        \* the owner: "open", "notify_all", "join", "done"
          future,       \* shared state of the future that enqueue returned
          accepted,     \* history: tasks in the order they were enqueued
          started       \* history: tasks in the order workers took them

vars == <<tasks, stop, pc, current, owing, owner, future, accepted, started>>

Init ==
    /\ tasks = <<>>
    /\ stop = FALSE
    /\ pc = [w \in Workers |-> "ready"]
    /\ current = [w \in Workers |-> NoTask]
    /\ owing = {}
    /\ owner = "open"
    /\ future = [t \in Tasks |-> "none"]
    /\ accepted = <<>>
    /\ started = <<>>

-------------------------------------------------------------------------------
(* enqueue.  It is called by the owner before it destroys the pool, and by *)
(* the body of a running task at any time.                                 *)

InOrder(s) == {s[i] : i \in 1..Len(s)}

MayCall(p) ==
    /\ p \notin owing
    /\ \/ p = Owner /\ owner = "open"
       \/ p \in Workers /\ pc[p] = "running"

(* Mutant: notify_one is forgotten. *)
EnqueueSilently(p, t) ==
    /\ MayCall(p)
    /\ t \notin InOrder(accepted)
    /\ ~stop
    /\ tasks' = Append(tasks, t)
    /\ accepted' = Append(accepted, t)
    /\ UNCHANGED <<stop, pc, current, owing, owner, future, started>>

Enqueue(p, t) ==
    /\ MayCall(p)
    /\ t \notin InOrder(accepted)
    /\ ~stop
    /\ tasks' = Append(tasks, t)
    /\ accepted' = Append(accepted, t)
    /\ owing' = owing \cup {p}
    /\ UNCHANGED <<stop, pc, current, owner, future, started>>

NotifyOne(p) ==
    /\ p \in owing
    /\ owing' = owing \ {p}
    /\ \/ \E w \in Workers : /\ pc[w] = "waiting"
                             /\ pc' = [pc EXCEPT ![w] = "ready"]
       \/ /\ \A w \in Workers : pc[w] # "waiting"
          /\ pc' = pc
    /\ UNCHANGED <<tasks, stop, current, owner, future, accepted, started>>

-------------------------------------------------------------------------------
(* The loop of a worker. *)

(* Mutant: the wait predicate tests the queue only. *)
WaitOnEmpty(w) ==
    /\ pc[w] = "ready"
    /\ tasks = <<>>
    /\ pc' = [pc EXCEPT ![w] = "waiting"]
    /\ UNCHANGED <<tasks, stop, current, owing, owner, future, accepted, started>>

(* The predicate is false: the lock is released while the worker waits. *)
Wait(w) ==
    /\ pc[w] = "ready"
    /\ ~stop /\ tasks = <<>>
    /\ pc' = [pc EXCEPT ![w] = "waiting"]
    /\ UNCHANGED <<tasks, stop, current, owing, owner, future, accepted, started>>

(* std::condition_variable may wake a waiter without a notification. *)
SpuriousWake(w) ==
    /\ pc[w] = "waiting"
    /\ pc' = [pc EXCEPT ![w] = "ready"]
    /\ UNCHANGED <<tasks, stop, current, owing, owner, future, accepted, started>>

(* Mutant: a stopped pool does not drain its queue. *)
ExitOnStop(w) ==
    /\ pc[w] = "ready"
    /\ stop
    /\ pc' = [pc EXCEPT ![w] = "exited"]
    /\ UNCHANGED <<tasks, stop, current, owing, owner, future, accepted, started>>

Exit(w) ==
    /\ pc[w] = "ready"
    /\ stop /\ tasks = <<>>
    /\ pc' = [pc EXCEPT ![w] = "exited"]
    /\ UNCHANGED <<tasks, stop, current, owing, owner, future, accepted, started>>

(* Mutant: the newest task is taken instead of the oldest. *)
TakeNewest(w) ==
    /\ pc[w] = "ready"
    /\ tasks # <<>>
    /\ LET t == tasks[Len(tasks)] IN
          /\ current' = [current EXCEPT ![w] = t]
          /\ started' = Append(started, t)
    /\ pc' = [pc EXCEPT ![w] = "running"]
    /\ tasks' = SubSeq(tasks, 1, Len(tasks) - 1)
    /\ UNCHANGED <<stop, owing, owner, future, accepted>>

Take(w) ==
    /\ pc[w] = "ready"
    /\ tasks # <<>>
    /\ pc' = [pc EXCEPT ![w] = "running"]
    /\ current' = [current EXCEPT ![w] = Head(tasks)]
    /\ tasks' = Tail(tasks)
    /\ started' = Append(started, Head(tasks))
    /\ UNCHANGED <<stop, owing, owner, future, accepted>>

(* Mutant: an exception ends the worker's thread with the task in hand. *)
FinishUnwinding(w) ==
    /\ pc[w] = "running"
    /\ w \notin owing
    /\ future' = [future EXCEPT ![current[w]] = "exception"]
    /\ pc' = [pc EXCEPT ![w] = "exited"]
    /\ UNCHANGED <<tasks, stop, current, owing, owner, accepted, started>>

(* task() returns: std::packaged_task stores the value or the exception of *)
(* the body, among them the exception of an enqueue on a stopped pool.     *)
Finish(w) ==
    /\ pc[w] = "running"
    /\ w \notin owing
    /\ \E outcome \in {"value", "exception"} :
          future' = [future EXCEPT ![current[w]] = outcome]
    /\ pc' = [pc EXCEPT ![w] = "ready"]
    /\ current' = [current EXCEPT ![w] = NoTask]
    /\ UNCHANGED <<tasks, stop, owing, owner, accepted, started>>

-------------------------------------------------------------------------------
(* The destructor. *)

Stop ==
    /\ owner = "open"
    /\ Owner \notin owing
    /\ stop' = TRUE
    /\ owner' = "notify_all"
    /\ UNCHANGED <<tasks, pc, current, owing, future, accepted, started>>

NotifyAll ==
    /\ owner = "notify_all"
    /\ pc' = [w \in Workers |-> IF pc[w] = "waiting" THEN "ready" ELSE pc[w]]
    /\ owner' = "join"
    /\ UNCHANGED <<tasks, stop, current, owing, future, accepted, started>>

(* Mutant: one join instead of one per worker. *)
JoinAny ==
    /\ owner = "join"
    /\ \E w \in Workers : pc[w] = "exited"
    /\ owner' = "done"
    /\ UNCHANGED <<tasks, stop, pc, current, owing, future, accepted, started>>

(* The joins have no effect but to wait, so the loop is one step. *)
JoinAll ==
    /\ owner = "join"
    /\ \A w \in Workers : pc[w] = "exited"
    /\ owner' = "done"
    /\ UNCHANGED <<tasks, stop, pc, current, owing, future, accepted, started>>

-------------------------------------------------------------------------------
WorkerStep(w) ==
    \/ Wait(w) \/ Exit(w) \/ Take(w) \/ Finish(w)
    \/ NotifyOne(w)
    \/ \E t \in Tasks : Enqueue(w, t)

OwnerStep ==
    \/ \E t \in Tasks : Enqueue(Owner, t)
    \/ NotifyOne(Owner)
    \/ Stop \/ NotifyAll \/ JoinAll

(* The only state in which nothing is left to do: the pool is gone. *)
Terminated ==
    /\ owner = "done"
    /\ UNCHANGED vars

Next ==
    \/ \E w \in Workers : WorkerStep(w) \/ SpuriousWake(w)
    \/ OwnerStep
    \/ Terminated

(* The scheduler runs every thread that can run, the bodies of tasks       *)
(* terminate, and a thread that called enqueue gets to its notify_one.     *)
(* No fairness for spurious wake-ups, nor for the wish to enqueue or stop. *)
Fairness ==
    /\ \A w \in Workers : /\ WF_vars(Wait(w)) /\ WF_vars(Exit(w))
                          /\ WF_vars(Take(w)) /\ WF_vars(Finish(w))
                          /\ WF_vars(NotifyOne(w))
    /\ WF_vars(NotifyOne(Owner)) /\ WF_vars(NotifyAll) /\ WF_vars(JoinAll)

Spec == Init /\ [][Next]_vars /\ Fairness

-------------------------------------------------------------------------------
(* Types, and a worker holds a task exactly while it is running one. *)
TypeOK ==
    /\ tasks \in Seq(Tasks) /\ accepted \in Seq(Tasks) /\ started \in Seq(Tasks)
    /\ stop \in BOOLEAN
    /\ pc \in [Workers -> {"ready", "waiting", "running", "exited"}]
    /\ current \in [Workers -> Tasks \cup {NoTask}]
    /\ \A w \in Workers : (current[w] = NoTask) <=> (pc[w] # "running")
    /\ owing \subseteq Workers \cup {Owner}
    /\ owner \in {"open", "notify_all", "join", "done"}
    /\ future \in [Tasks -> {"none", "value", "exception"}]

(* Tasks are taken in the order in which they were enqueued, each once, and *)
(* none is lost: what was enqueued is what was taken, then the queue.      *)
Fifo == accepted = started \o tasks

(* A task that was taken is being run by one worker or has stored its      *)
(* result, whether it returned or threw.                                   *)
TakenIsRunOnce ==
    \A t \in InOrder(started) :
        (future[t] = "none") <=> \E w \in Workers : current[w] = t

(* The destructor returns only when every accepted task has run: its       *)
(* callers read the results of the tasks without looking at a future.      *)
Drained ==
    owner = "done" =>
        \A t \in InOrder(accepted) : future[t] # "none"

(* No lost wake-up: while the queue holds a task, a worker is awake, or a   *)
(* notification is still to come.                                          *)
NoLostWakeup ==
    tasks # <<>> => \/ \E w \in Workers : pc[w] \in {"ready", "running"}
                    \/ owing # {}

(* After notify_all no worker waits, so the joins cannot block for ever.   *)
NobodyWaitsAfterStop ==
    owner \in {"join", "done"} => \A w \in Workers : pc[w] # "waiting"

(* A worker does not leave while there is work: once one has left, nothing *)
(* is queued any more although running tasks may still call enqueue.       *)
LeavesNothing ==
    (\E w \in Workers : pc[w] = "exited") => stop /\ tasks = <<>>

(* enqueue on a stopped pool throws and leaves the pool as it is. *)
ClosedForGood == [][stop => /\ stop' /\ accepted' = accepted]_vars

(* The destructor always returns. *)
DestructorReturns == stop ~> owner = "done"

-------------------------------------------------------------------------------
(* The inductive invariant behind the safety properties. *)

Distinct(s) == \A i, j \in 1..Len(s) : s[i] = s[j] => i = j

StopFollowsOwner == stop <=> owner # "open"

JoinedAll == owner = "done" => \A w \in Workers : pc[w] = "exited"

HoldsStarted ==
    \A w \in Workers : pc[w] = "running" => current[w] \in InOrder(started)

OneHolder ==
    \A v, w \in Workers :
        pc[v] = "running" /\ pc[w] = "running" /\ current[v] = current[w] => v = w

NoResultBeforeStart ==
    \A t \in Tasks : t \notin InOrder(started) => future[t] = "none"

IInv ==
    /\ TypeOK
    /\ Fifo
    /\ Distinct(accepted)
    /\ StopFollowsOwner
    /\ LeavesNothing
    /\ NobodyWaitsAfterStop
    /\ JoinedAll
    /\ NoLostWakeup
    /\ HoldsStarted
    /\ OneHolder
    /\ NoResultBeforeStart
    /\ TakenIsRunOnce

-------------------------------------------------------------------------------
(* The pool implements the abstract executor. *)
Pending == InOrder(tasks)

Active == {current[w] : w \in {x \in Workers : pc[x] = "running"}}

Finished == {t \in Tasks : future[t] # "none"}

Phase == CASE owner = "open" -> "open"
           [] owner \in {"notify_all", "join"} -> "closing"
           [] owner = "done" -> "closed"

Executor == INSTANCE TaskExecutor WITH
    pending <- Pending, active <- Active, finished <- Finished, phase <- Phase

ImplementsExecutor == Executor!ASpec
===============================================================================
