----------------------------- MODULE MCThreadPool -----------------------------
(* Three workers are enough for a waiting, a running and an exited worker at *)
(* the same time; four tasks for a queue of two behind a running one, for    *)
(* tasks that enqueue tasks, and for one that is left if workers get lost.   *)
EXTENDS ThreadPool
===============================================================================
