----------------------------- MODULE TaskExecutor -----------------------------
(***************************************************************************)
(* What cirkit::thread_pool promises to the code that uses it, without     *)
(* queue, mutex or condition variable: a task that is accepted runs once,  *)
(* nothing is accepted after closing has begun, and closing ends only when *)
(* every accepted task has finished (core/utils/thread_pool.hpp).          *)
(***************************************************************************)

CONSTANT Tasks          \* identities of the tasks that callers may submit

VARIABLES pending,      \* accepted, not started
          active,       \* started, not finished
          finished,     \* ran to their end, normally or with an exception
          phase         \* "open" -> "closing" -> "closed"

avars == <<pending, active, finished, phase>>

AInit ==
    /\ pending = {} /\ active = {} /\ finished = {}
    /\ phase = "open"

(* Only fresh tasks are accepted, and only while the executor is open. *)
Accept(t) ==
    /\ phase = "open"
    /\ t \notin pending \cup active \cup finished
    /\ pending' = pending \cup {t}
    /\ UNCHANGED <<active, finished, phase>>

Start(t) ==
    /\ t \in pending
    /\ pending' = pending \ {t}
    /\ active' = active \cup {t}
    /\ UNCHANGED <<finished, phase>>

End(t) ==
    /\ t \in active
    /\ active' = active \ {t}
    /\ finished' = finished \cup {t}
    /\ UNCHANGED <<pending, phase>>

BeginClose ==
    /\ phase = "open"
    /\ phase' = "closing"
    /\ UNCHANGED <<pending, active, finished>>

(* The promise of the destructor: nothing accepted is left behind. *)
EndClose ==
    /\ phase = "closing"
    /\ pending = {} /\ active = {}
    /\ phase' = "closed"
    /\ UNCHANGED <<pending, active, finished>>

ANext ==
    \/ \E t \in Tasks : Accept(t) \/ Start(t) \/ End(t)
    \/ BeginClose
    \/ EndClose

(* Once closing has begun, what is accepted is worked off. *)
AFairness ==
    /\ \A t \in Tasks : WF_avars(Start(t)) /\ WF_avars(End(t))
    /\ WF_avars(EndClose)

ASafety == AInit /\ [][ANext]_avars

ASpec == ASafety /\ AFairness
===============================================================================
