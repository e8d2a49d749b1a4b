------------------------------ MODULE Monitor ------------------------------
(***************************************************************************)
(* Locks and condition variables (threads/synch.c).                        *)
(*                                                                         *)
(* Semaphores are taken at the level of module Semaphore, which Scheduler  *)
(* implements: a down waits for a unit, an up adds one, each in one step.  *)
(* Everything else in these functions runs with interrupts on, so another  *)
(* thread may run between any two of their statements.                     *)
(***************************************************************************)
EXTENDS Integers, Sequences, Functions

CONSTANTS Thread, Lock, Cond,
          LockOf,   \* the one lock a condition variable is used with
          NULL

ASSUME MonitorAssumption ==
  /\ LockOf \in [Cond -> Lock]
  /\ NULL \notin Thread \cup Lock \cup Cond

VARIABLES
  value,    \* lock->semaphore.value
  holder,   \* lock->holder
  waiters,  \* cond->waiters: the threads whose stack holds the element
  wsema,    \* waiter.semaphore.value, in the stack frame of cond_wait()
  held,     \* the locks a caller acquired and has not yet released
  pc,       \* where each thread stands
  lk,       \* the lock of the call in progress
  cv,       \* the condition of the cond_wait() or cond_broadcast() in progress
  tgt       \* the waiter cond_signal() has popped

vars == <<value, holder, waiters, wsema, held, pc, lk, cv, tgt>>

Point == {"run", "acquire", "set_holder", "release", "up",
          "wait", "signal", "broadcast"}

Init == /\ value   = [l \in Lock |-> 1]
        /\ holder  = [l \in Lock |-> NULL]
        /\ waiters = [c \in Cond |-> <<>>]
        /\ wsema   = [t \in Thread |-> 0]
        /\ held    = [t \in Thread |-> {}]
        /\ pc      = [t \in Thread |-> "run"]
        /\ lk      = [t \in Thread |-> NULL]
        /\ cv      = [t \in Thread |-> NULL]
        /\ tgt     = [t \in Thread |-> NULL]

Goto(t, p) == pc' = [pc EXCEPT ![t] = p]

----------------------------------------------------------------------------
(* Locks.                                                                  *)

lock_acquire(t, l) ==
  /\ pc[t] = "run" /\ l \notin held[t]
  /\ lk' = [lk EXCEPT ![t] = l]
  /\ Goto(t, "acquire")
  /\ UNCHANGED <<value, holder, waiters, wsema, held, cv, tgt>>

\* The sema_down() of lock_acquire().
LockDown(t) ==
  /\ pc[t] = "acquire" /\ value[lk[t]] > 0
  /\ value' = [value EXCEPT ![lk[t]] = @ - 1]
  /\ Goto(t, "set_holder")
  /\ UNCHANGED <<holder, waiters, wsema, held, lk, cv, tgt>>

\* The caller owns the lock from here on; when the call was made by
\* cond_wait(), that returns too.
SetHolder(t) ==
  /\ pc[t] = "set_holder"
  /\ holder' = [holder EXCEPT ![lk[t]] = t]
  /\ held' = [held EXCEPT ![t] = @ \cup {lk[t]}]
  /\ lk' = [lk EXCEPT ![t] = NULL]
  /\ cv' = [cv EXCEPT ![t] = NULL]
  /\ Goto(t, "run")
  /\ UNCHANGED <<value, waiters, wsema, tgt>>

\* Mutant: the result of sema_try_down() is not looked at.
lock_try_acquire_Unchecked(t, l) ==
  /\ pc[t] = "run" /\ l \notin held[t]
  /\ value' = [value EXCEPT ![l] = 0]
  /\ lk' = [lk EXCEPT ![t] = l]
  /\ Goto(t, "set_holder")
  /\ UNCHANGED <<holder, waiters, wsema, held, cv, tgt>>

\* A failed attempt changes nothing.
lock_try_acquire(t, l) ==
  /\ pc[t] = "run" /\ l \notin held[t]
  /\ value[l] > 0
  /\ value' = [value EXCEPT ![l] = @ - 1]
  /\ lk' = [lk EXCEPT ![t] = l]
  /\ Goto(t, "set_holder")
  /\ UNCHANGED <<holder, waiters, wsema, held, cv, tgt>>

lock_release(t, l) ==
  /\ pc[t] = "run" /\ l \in held[t]
  /\ lk' = [lk EXCEPT ![t] = l]
  /\ Goto(t, "release")
  /\ UNCHANGED <<value, holder, waiters, wsema, held, cv, tgt>>

ClearHolder(t) ==
  /\ pc[t] = "release"
  /\ holder' = [holder EXCEPT ![lk[t]] = NULL]
  /\ held' = [held EXCEPT ![t] = @ \ {lk[t]}]
  /\ Goto(t, "up")
  /\ UNCHANGED <<value, waiters, wsema, lk, cv, tgt>>

\* The sema_up() of lock_release(), which returns to its caller or to
\* cond_wait().
LockUp(t) ==
  /\ pc[t] = "up"
  /\ value' = [value EXCEPT ![lk[t]] = @ + 1]
  /\ IF cv[t] = NULL
     THEN Goto(t, "run") /\ lk' = [lk EXCEPT ![t] = NULL]
     ELSE Goto(t, "wait") /\ UNCHANGED lk
  /\ UNCHANGED <<holder, waiters, wsema, held, cv, tgt>>

----------------------------------------------------------------------------
(* Condition variables.                                                    *)

\* Mutant: the waiter queues itself only after it has let go of the lock.
cond_wait_QueueLate(t, c) ==
  /\ pc[t] = "run" /\ LockOf[c] \in held[t]
  /\ wsema' = [wsema EXCEPT ![t] = 0]
  /\ lk' = [lk EXCEPT ![t] = LockOf[c]]
  /\ cv' = [cv EXCEPT ![t] = c]
  /\ Goto(t, "release")
  /\ UNCHANGED <<value, holder, waiters, held, tgt>>

cond_wait(t, c) ==
  /\ pc[t] = "run" /\ LockOf[c] \in held[t]
  /\ wsema' = [wsema EXCEPT ![t] = 0]
  /\ waiters' = [waiters EXCEPT ![c] = Append(@, t)]
  /\ lk' = [lk EXCEPT ![t] = LockOf[c]]
  /\ cv' = [cv EXCEPT ![t] = c]
  /\ Goto(t, "release")
  /\ UNCHANGED <<value, holder, held, tgt>>

\* The sema_down (&waiter.semaphore) of cond_wait(); lock_acquire() follows.
WaiterDown(t) ==
  /\ pc[t] = "wait" /\ wsema[t] > 0
  /\ wsema' = [wsema EXCEPT ![t] = @ - 1]
  /\ Goto(t, "acquire")
  /\ UNCHANGED <<value, holder, waiters, held, lk, cv, tgt>>

\* Mutant: the waiter is signalled but stays queued.
Pop_Keep(t, c) ==
  /\ waiters[c] # <<>>
  /\ tgt' = [tgt EXCEPT ![t] = Head(waiters[c])]
  /\ Goto(t, "signal")
  /\ UNCHANGED <<value, holder, waiters, wsema, held, lk>>

\* The first waiter is unlinked ...
Pop(t, c) ==
  /\ waiters[c] # <<>>
  /\ tgt' = [tgt EXCEPT ![t] = Head(waiters[c])]
  /\ waiters' = [waiters EXCEPT ![c] = Tail(@)]
  /\ Goto(t, "signal")
  /\ UNCHANGED <<value, holder, wsema, held, lk>>

\* With nobody waiting cond_signal() changes nothing.
cond_signal(t, c) ==
  /\ pc[t] = "run" /\ LockOf[c] \in held[t]
  /\ Pop(t, c)
  /\ UNCHANGED cv

\* ... and its semaphore upped.
SignalUp(t) ==
  /\ pc[t] = "signal"
  /\ wsema' = [wsema EXCEPT ![tgt[t]] = @ + 1]
  /\ tgt' = [tgt EXCEPT ![t] = NULL]
  /\ Goto(t, IF cv[t] = NULL THEN "run" ELSE "broadcast")
  /\ UNCHANGED <<value, holder, waiters, held, lk, cv>>

cond_broadcast(t, c) ==
  /\ pc[t] = "run" /\ LockOf[c] \in held[t]
  /\ cv' = [cv EXCEPT ![t] = c]
  /\ Goto(t, "broadcast")
  /\ UNCHANGED <<value, holder, waiters, wsema, held, lk, tgt>>

\* Mutant: one waiter is signalled instead of all.
BroadcastLoop_Once(t) ==
  /\ pc[t] = "broadcast"
  /\ \/ Pop(t, cv[t]) /\ cv' = [cv EXCEPT ![t] = NULL]
     \/ /\ waiters[cv[t]] = <<>>
        /\ cv' = [cv EXCEPT ![t] = NULL]
        /\ Goto(t, "run")
        /\ UNCHANGED <<value, holder, waiters, wsema, held, lk, tgt>>

BroadcastLoop(t) ==
  /\ pc[t] = "broadcast"
  /\ \/ Pop(t, cv[t]) /\ UNCHANGED cv
     \/ /\ waiters[cv[t]] = <<>>
        /\ cv' = [cv EXCEPT ![t] = NULL]
        /\ Goto(t, "run")
        /\ UNCHANGED <<value, holder, waiters, wsema, held, lk, tgt>>

----------------------------------------------------------------------------
\* What a call in progress does next.
Continue(t) == \/ LockDown(t) \/ SetHolder(t) \/ ClearHolder(t) \/ LockUp(t)
               \/ WaiterDown(t) \/ SignalUp(t) \/ BroadcastLoop(t)

\* The calls a thread may make.
Call(t) == \/ \E l \in Lock : \/ lock_acquire(t, l) \/ lock_try_acquire(t, l)
                              \/ lock_release(t, l)
           \/ \E c \in Cond : \/ cond_wait(t, c) \/ cond_signal(t, c)
                              \/ cond_broadcast(t, c)

Next == \E t \in Thread : Continue(t) \/ Call(t)

\* A thread that is not held up goes on with the call it has made; what it
\* calls next is its own affair.
Spec == Init /\ [][Next]_vars
LiveSpec == Spec /\ \A t \in Thread : WF_vars(Continue(t))

----------------------------------------------------------------------------
(* Properties.                                                             *)

TypeOK ==
  /\ value   \in [Lock -> {0, 1}]
  /\ holder  \in [Lock -> Thread \cup {NULL}]
  /\ waiters \in [Cond -> Seq(Thread)]
  /\ wsema   \in [Thread -> {0, 1}]
  /\ held    \in [Thread -> SUBSET Lock]
  /\ pc      \in [Thread -> Point]
  /\ lk      \in [Thread -> Lock \cup {NULL}]
  /\ cv      \in [Thread -> Cond \cup {NULL}]
  /\ tgt     \in [Thread -> Thread \cup {NULL}]

\* t has taken the unit of l and has not given it back.
Owns(t, l) == \/ l \in held[t]
              \/ pc[t] \in {"set_holder", "up"} /\ lk[t] = l

\* No two threads own a lock, from the end of one's sema_down() to the
\* sema_up() in its lock_release().
MutualExclusion ==
  \A l \in Lock : \A t, u \in Thread : Owns(t, l) /\ Owns(u, l) => t = u

\* The ASSERTs on lock_held_by_current_thread() hold whenever they are
\* reached: l->holder is the thread whose caller acquired l, although it is
\* written outside the semaphore operations.
HolderIsOwner ==
  \A l \in Lock, t \in Thread : holder[l] = t <=> l \in held[t]

\* t is queued on c, or has been unlinked by a signaller that will up its
\* semaphore, or its semaphore has a unit.
Queued(t, c)  == t \in Range(waiters[c])
Targeted(t)   == \E u \in Thread : pc[u] = "signal" /\ tgt[u] = t

\* From the moment it starts to release the lock until it stops waiting, a
\* thread in cond_wait() can be found by a signal or has been found by one:
\* no signal sent after the release is lost.
WaitersReachable ==
  \A t \in Thread :
    (pc[t] \in {"release", "up", "wait"} /\ cv[t] # NULL) =>
      Queued(t, cv[t]) \/ Targeted(t) \/ wsema[t] > 0

\* The queue element and semaphore live in the stack frame of cond_wait(): a
\* queued thread, and one whose semaphore is about to be upped, is still in
\* that call, before the end of its sema_down().
ElementsAlive ==
  \A t \in Thread :
    (Targeted(t) \/ \E c \in Cond : Queued(t, c)) =>
      /\ pc[t] \in {"release", "up", "wait"}
      /\ cv[t] # NULL
      /\ wsema[t] = 0

----------------------------------------------------------------------------
(* The inductive invariant.                                                *)

\* A lock that somebody owns has no unit left.
OwnedIsTaken == \A l \in Lock, t \in Thread : Owns(t, l) => value[l] = 0

\* What the local variables of a call hold at each point of it.
Control ==
  \A t \in Thread :
    /\ pc[t] \in {"acquire", "set_holder", "release", "up", "wait"} => lk[t] \in Lock
    /\ pc[t] \in {"acquire", "set_holder", "up", "wait"} => lk[t] \notin held[t]
    /\ pc[t] = "release" => lk[t] \in held[t]
    /\ pc[t] = "run" => cv[t] = NULL
    /\ pc[t] \in {"wait", "broadcast"} => cv[t] \in Cond
    /\ pc[t] = "signal" => tgt[t] \in Thread

\* A queued or targeted thread is waiting, is queued once, and has been
\* found by one signaller at most.
Waiting ==
  /\ \A c \in Cond :
       /\ IsInjective(waiters[c])
       /\ \A t \in Range(waiters[c]) :
            /\ pc[t] \in {"release", "up", "wait"} /\ cv[t] = c /\ wsema[t] = 0
            /\ ~Targeted(t)
  /\ \A u, v \in Thread :
       (pc[u] = "signal" /\ pc[v] = "signal" /\ tgt[u] = tgt[v]) => u = v
  /\ \A u \in Thread :
       pc[u] = "signal" => /\ pc[tgt[u]] \in {"release", "up", "wait"}
                          /\ cv[tgt[u]] # NULL /\ wsema[tgt[u]] = 0

LockInv == /\ TypeOK
           /\ MutualExclusion
           /\ HolderIsOwner
           /\ OwnedIsTaken
           /\ Control

MonitorInv == LockInv /\ Waiting /\ WaitersReachable

----------------------------------------------------------------------------
(* Liveness.                                                               *)

\* A thread queued on c when cond_broadcast() starts to empty the queue
\* stops waiting.
BroadcastWakesAll ==
  \A t, u \in Thread, c \in Cond :
    (pc[u] = "broadcast" /\ cv[u] = c /\ Queued(t, c)) ~> pc[t] = "acquire"
====
