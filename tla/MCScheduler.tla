---------------------------- MODULE MCScheduler ----------------------------
(* Small instances of Scheduler, and its refinement of Semaphore.          *)
EXTENDS Scheduler

\* The thread that is inside sema_down() on s, blocked or woken.
Inside == [t \in Thread |-> IF pc[t] = "down" THEN arg[t] ELSE NULL]

Abstract == INSTANCE Semaphore WITH units <- value, inside <- Inside

\* The run queue, the wait lists and the retry loop implement a semaphore:
\* each step is one of its operations or invisible, and a unit that stays
\* available while a thread is held up in sema_down() is eventually taken.
ImplementsSemaphore == Abstract!Spec
====
