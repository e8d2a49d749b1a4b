----------------------------- MODULE Scheduler -----------------------------
(***************************************************************************)
(* The kernel's thread scheduler (threads/thread.c), its counting          *)
(* semaphores (threads/synch.c) and the alarm clock (devices/timer.c).     *)
(*                                                                         *)
(* There is one CPU.  A stretch of code that runs with interrupts off is   *)
(* one step; between two steps the timer interrupt may arrive and, when    *)
(* the time slice is over, take the CPU from the running thread.  What a   *)
(* thread does between its calls is abstracted to the choice of its next   *)
(* call among Ops.                                                         *)
(***************************************************************************)
EXTENDS Integers, Sequences, FiniteSets, Functions

CONSTANTS
  Thread,        \* the pages a struct thread may live in
  main,          \* initial_thread
  idle,          \* the page of the idle thread
  Sema,          \* the semaphores
  idle_started,  \* the semaphore thread_start() waits on
  TIME_SLICE,    \* ticks given to each thread
  Delays,        \* the arguments of timer_sleep()
  MaxTicks,      \* bound: the tick counter saturates here
  MaxValue,      \* bound: no semaphore is upped above this value
  Ops,           \* the calls the threads make
  NULL

ASSUME SchedulerAssumption ==
  /\ IsFiniteSet(Thread)
  /\ main \in Thread /\ idle \in Thread /\ main # idle
  /\ idle_started \in Sema
  /\ Sema \cap Thread = {}
  /\ TIME_SLICE \in Nat \ {0}
  /\ MaxTicks \in Nat /\ MaxValue \in Nat \ {0}
  /\ Delays \subseteq Nat
  /\ NULL \notin Thread \cup Sema

VARIABLES
  cur,           \* running_thread()
  status,        \* t->status; NONE is a page that holds no thread
  ready_list, sleep_list,
  alarm_ticks,   \* t->alarm_ticks
  ticks,         \* timer ticks since boot
  thread_ticks,  \* ticks of the running thread's slice
  idle_thread,   \* NULL until the idle thread has run
  value, waiters,
  pc, arg        \* where each thread stands, and the object it is busy with

sched == <<cur, status, ready_list, thread_ticks>>
clock == <<sleep_list, alarm_ticks, ticks>>
semas == <<value, waiters>>
local == <<pc, arg>>
vars  == <<sched, clock, semas, local, idle_thread>>

Status == {"RUNNING", "READY", "BLOCKED", "DYING", "NONE"}
Point  == {"run", "boot", "down", "sleep", "create",
           "idle_start", "idle_up", "loop", "hlt"}

----------------------------------------------------------------------------
(* thread.c: the run queue.  The parameters rl and st are the ready list   *)
(* and the statuses as the caller of schedule() left them.                 *)

next_thread_to_run(rl) == IF rl = <<>> THEN idle_thread ELSE Head(rl)

\* The switch to the next thread, and thread_schedule_tail() on its stack:
\* the page of a dying thread is freed unless it is initial_thread's.
schedule(rl, st) ==
  LET next == next_thread_to_run(rl) IN
  /\ cur' = next
  /\ ready_list' = IF rl = <<>> THEN rl ELSE Tail(rl)
  /\ thread_ticks' = 0
  /\ status' = [t \in Thread |->
                  CASE t = next -> "RUNNING"
                    [] t # next /\ t = cur /\ st[t] = "DYING" /\ t # main -> "NONE"
                    [] OTHER -> st[t]]

thread_block(t) == schedule(ready_list, [status EXCEPT ![t] = "BLOCKED"])

thread_unblock(t) ==
  /\ ready_list' = Append(ready_list, t)
  /\ status' = [status EXCEPT ![t] = "READY"]
  /\ UNCHANGED <<cur, thread_ticks>>

\* Mutants: the thread is put at the front of the queue; the test for the idle
\* thread is inverted.
yield_PushFront(t, rl, st) ==
  schedule(IF t # idle_thread THEN <<t>> \o rl ELSE rl, [st EXCEPT ![t] = "READY"])
yield_Inverted(t, rl, st) ==
  schedule(IF t = idle_thread THEN Append(rl, t) ELSE rl,
           [st EXCEPT ![t] = "READY"])

\* thread_yield() of t, given the ready list and statuses at its entry.
yield(t, rl, st) ==
  schedule(IF t # idle_thread THEN Append(rl, t) ELSE rl,
           [st EXCEPT ![t] = "READY"])

At(t, p) == cur = t /\ pc[t] = p
Goto(t, p, a) == /\ pc'  = [pc  EXCEPT ![t] = p]
                 /\ arg' = [arg EXCEPT ![t] = a]

thread_yield(t) ==
  /\ "yield" \in Ops /\ At(t, "run")
  /\ yield(t, ready_list, status)
  /\ UNCHANGED <<clock, semas, local, idle_thread>>

\* thread_create(): init_thread() makes the thread, blocked and on no list;
\* thread_unblock() hands it to the scheduler.
thread_create_init(t, new) ==
  /\ "create" \in Ops /\ At(t, "run")
  /\ status[new] = "NONE"
  /\ status' = [status EXCEPT ![new] = "BLOCKED"]
  /\ pc'  = [pc  EXCEPT ![t] = "create", ![new] = "run"]
  /\ arg' = [arg EXCEPT ![t] = new, ![new] = NULL]
  /\ UNCHANGED <<cur, ready_list, thread_ticks, clock, semas, idle_thread>>

thread_create_unblock(t) ==
  /\ At(t, "create")
  /\ thread_unblock(arg[t])
  /\ Goto(t, "run", NULL)
  /\ UNCHANGED <<clock, semas, idle_thread>>

thread_exit(t) ==
  /\ "exit" \in Ops /\ At(t, "run")
  /\ schedule(ready_list, [status EXCEPT ![t] = "DYING"])
  /\ UNCHANGED <<clock, semas, local, idle_thread>>

----------------------------------------------------------------------------
(* synch.c: semaphores.                                                    *)

\* One pass through the loop of sema_down(): take a unit, or queue up and
\* block; the thread tests the value again when it is next scheduled.
sema_down(t, s) ==
  \/ /\ value[s] = 0
     /\ waiters' = [waiters EXCEPT ![s] = Append(@, t)]
     /\ thread_block(t)
     /\ Goto(t, "down", s)
     /\ UNCHANGED value
  \/ /\ value[s] > 0
     /\ value' = [value EXCEPT ![s] = @ - 1]
     /\ Goto(t, "run", NULL)
     /\ UNCHANGED <<waiters, sched>>

\* Mutants: the woken thread is left on the wait list; a thread is woken only
\* when the value leaves zero.
sema_up_NoPop(s) ==
  /\ value[s] < MaxValue
  /\ value' = [value EXCEPT ![s] = @ + 1]
  /\ UNCHANGED waiters
  /\ IF waiters[s] = <<>> THEN UNCHANGED sched ELSE thread_unblock(Head(waiters[s]))
sema_up_WakeAtZero(s) ==
  /\ value[s] < MaxValue
  /\ value' = [value EXCEPT ![s] = @ + 1]
  /\ IF waiters[s] = <<>> \/ value[s] > 0
       THEN UNCHANGED <<waiters, sched>>
       ELSE /\ waiters' = [waiters EXCEPT ![s] = Tail(@)]
            /\ thread_unblock(Head(waiters[s]))

sema_up(s) ==
  /\ value[s] < MaxValue
  /\ value' = [value EXCEPT ![s] = @ + 1]
  /\ \/ /\ waiters[s] = <<>>
        /\ UNCHANGED <<waiters, sched>>
     \/ /\ waiters[s] # <<>>
        /\ waiters' = [waiters EXCEPT ![s] = Tail(@)]
        /\ thread_unblock(Head(waiters[s]))

\* The semaphores the threads use by themselves.
UserSema == Sema \ {idle_started}

ThreadSemaDown(t, s) ==
  /\ "down" \in Ops /\ At(t, "run")
  /\ sema_down(t, s)
  /\ UNCHANGED <<clock, idle_thread>>

SemaDownAgain(t) ==
  /\ At(t, "down")
  /\ sema_down(t, arg[t])
  /\ UNCHANGED <<clock, idle_thread>>

sema_try_down(t, s) ==
  /\ "try_down" \in Ops /\ At(t, "run")
  /\ value[s] > 0
  /\ value' = [value EXCEPT ![s] = @ - 1]
  /\ UNCHANGED <<waiters, sched, clock, local, idle_thread>>

ThreadSemaUp(t, s) ==
  /\ "up" \in Ops /\ At(t, "run")
  /\ sema_up(s)
  /\ UNCHANGED <<clock, local, idle_thread>>

----------------------------------------------------------------------------
(* timer.c: the alarm clock.                                               *)

\* timer_sleep() reads the clock with interrupts on: ticks may pass before
\* thread_sleep() queues the thread.
timer_sleep(t, n) ==
  /\ "sleep" \in Ops /\ At(t, "run")
  /\ ticks + n <= MaxTicks
  /\ alarm_ticks' = [alarm_ticks EXCEPT ![t] = ticks + n]
  /\ Goto(t, "sleep", NULL)
  /\ UNCHANGED <<sched, sleep_list, ticks, semas, idle_thread>>

\* list_insert_ordered(): before the first sleeper with a later alarm.
insert_ordered(t) ==
  \E k \in 0..Len(sleep_list) :
    /\ \A i \in 1..k : alarm_ticks[sleep_list[i]] <= alarm_ticks[t]
    /\ k < Len(sleep_list) => alarm_ticks[t] < alarm_ticks[sleep_list[k + 1]]
    /\ sleep_list' = Append(SubSeq(sleep_list, 1, k), t)
                       \o SubSeq(sleep_list, k + 1, Len(sleep_list))

thread_sleep(t) ==
  /\ At(t, "sleep")
  /\ insert_ordered(t)
  /\ schedule(ready_list, [status EXCEPT ![t] = "BLOCKED"])
  /\ Goto(t, "run", NULL)
  /\ UNCHANGED <<alarm_ticks, ticks, semas, idle_thread>>

\* A thread that comes back from thread_block() in sema_down() tests the value
\* again with interrupts still off.
intr_on == pc[cur] # "down"

\* An interrupt ends the idle thread's hlt.
WakeIdle == pc' = IF pc[cur] = "hlt" THEN [pc EXCEPT ![cur] = "loop"] ELSE pc

\* Mutant: the alarm must have passed.
due_Late(t, now) == alarm_ticks[t] < now

due(t, now) == alarm_ticks[t] <= now

\* thread_tick() asks for a yield when the slice is over.
thread_tick == thread_ticks + 1 >= TIME_SLICE

\* The statuses after n calls of thread_awake().
thread_awake(n) ==
  [t \in Thread |-> IF t \in Range(SubSeq(sleep_list, 1, n)) THEN "READY" ELSE status[t]]

\* timer_interrupt(), and the thread_yield() of intr_handler().  Its loop pops the
\* first n sleepers: those before the first that is not due.
timer_interrupt ==
  LET now == IF ticks < MaxTicks THEN ticks + 1 ELSE ticks IN
  \E n \in 0..Len(sleep_list) :
    LET rl == ready_list \o SubSeq(sleep_list, 1, n)
        st == thread_awake(n)
    IN
    /\ intr_on
    /\ \A i \in 1..n : due(sleep_list[i], now)
    /\ n < Len(sleep_list) => ~ due(sleep_list[n + 1], now)
    /\ ticks' = now
    /\ sleep_list' = SubSeq(sleep_list, n + 1, Len(sleep_list))
    /\ IF thread_tick
         THEN yield(cur, rl, st)
         ELSE /\ ready_list' = rl
              /\ status' = st
              /\ thread_ticks' = thread_ticks + 1
              /\ UNCHANGED cur
    /\ WakeIdle
    /\ UNCHANGED <<alarm_ticks, semas, arg, idle_thread>>

\* Another device's interrupt handler ups a semaphore (as ide.c's does).
device_interrupt(s) ==
  /\ "intr_up" \in Ops /\ intr_on
  /\ sema_up(s)
  /\ WakeIdle
  /\ UNCHANGED <<clock, arg, idle_thread>>

----------------------------------------------------------------------------
(* thread_start() after it has created the idle thread, and idle().        *)

thread_start ==
  /\ At(main, "boot")
  /\ sema_down(main, idle_started)
  /\ UNCHANGED <<clock, idle_thread>>

idle_init ==
  /\ At(idle, "idle_start")
  /\ idle_thread' = idle
  /\ Goto(idle, "idle_up", NULL)
  /\ UNCHANGED <<sched, clock, semas>>

idle_up ==
  /\ At(idle, "idle_up")
  /\ sema_up(idle_started)
  /\ Goto(idle, "loop", NULL)
  /\ UNCHANGED <<clock, idle_thread>>

\* The idle loop blocks with interrupts off and halts when rescheduled.
idle_loop ==
  /\ At(idle, "loop")
  /\ thread_block(idle)
  /\ Goto(idle, "hlt", NULL)
  /\ UNCHANGED <<clock, semas, idle_thread>>

Init ==
  /\ cur = main
  /\ status = [t \in Thread |-> CASE t = main -> "RUNNING"
                                  [] t = idle -> "READY"
                                  [] OTHER -> "NONE"]
  /\ ready_list = <<idle>>
  /\ sleep_list = <<>>
  /\ alarm_ticks = [t \in Thread |-> 0]
  /\ ticks = 0 /\ thread_ticks = 0
  /\ idle_thread = NULL
  /\ value = [s \in Sema |-> 0]
  /\ waiters = [s \in Sema |-> <<>>]
  /\ pc = [t \in Thread |-> CASE t = main -> "boot"
                              [] t = idle -> "idle_start"
                              [] OTHER -> "run"]
  /\ arg = [t \in Thread |-> NULL]

\* The steps of the thread on the CPU.
Step(t) ==
  \/ thread_yield(t)
  \/ \E new \in Thread : thread_create_init(t, new)
  \/ thread_create_unblock(t)
  \/ thread_exit(t)
  \/ \E s \in UserSema : ThreadSemaDown(t, s)
  \/ SemaDownAgain(t)
  \/ \E s \in UserSema : sema_try_down(t, s)
  \/ \E s \in UserSema : ThreadSemaUp(t, s)
  \/ \E n \in Delays : timer_sleep(t, n)
  \/ thread_sleep(t)

Kernel == thread_start \/ idle_init \/ idle_up \/ idle_loop

Next ==
  \/ \E t \in Thread : Step(t)
  \/ Kernel
  \/ timer_interrupt
  \/ \E s \in UserSema : device_interrupt(s)

Spec == Init /\ [][Next]_vars

\* The timer keeps interrupting; an interrupt that finds interrupts off stays
\* pending until they are on.  A thread that keeps getting the CPU executes: a
\* slice is TIME_SLICE ticks long, far more than a step.
FairSpec == Spec /\ SF_vars(timer_interrupt)
                 /\ SF_vars(Kernel)
                 /\ \A t \in Thread : SF_vars(Step(t))

----------------------------------------------------------------------------
(* Properties.                                                             *)

TypeOK ==
  /\ cur \in Thread
  /\ status \in [Thread -> Status]
  /\ ready_list \in Seq(Thread)
  /\ sleep_list \in Seq(Thread)
  /\ alarm_ticks \in [Thread -> Nat]
  /\ ticks \in 0..MaxTicks
  /\ thread_ticks \in 0..(TIME_SLICE - 1)
  /\ idle_thread \in {idle, NULL}
  /\ value \in [Sema -> 0..MaxValue]
  /\ waiters \in [Sema -> Seq(Thread)]
  /\ pc \in [Thread -> Point]
  /\ arg \in [Thread -> Thread \cup Sema \cup {NULL}]

\* The places a thread's single `elem' member is linked into: the list and
\* the position in it.
Places(t) ==
  { <<"ready", i>> : i \in {j \in DOMAIN ready_list : ready_list[j] = t} }
  \cup { <<"sleep", i>> : i \in {j \in DOMAIN sleep_list : sleep_list[j] = t} }
  \cup UNION { { <<s, i>> : i \in {j \in DOMAIN waiters[s] : waiters[s][j] = t} }
               : s \in Sema }

\* `elem' is in at most one place of one list, a thread on the run queue is
\* ready, and one that sleeps or waits on a semaphore is blocked (the rule
\* stated above struct thread in thread.h, to which the alarm clock adds the
\* sleep list).
ElemExclusive ==
  /\ \A t \in Thread : \A p, q \in Places(t) : p = q
  /\ \A t \in Range(ready_list) : status[t] = "READY"
  /\ \A t \in Range(sleep_list) : status[t] = "BLOCKED"
  /\ \A s \in Sema : \A t \in Range(waiters[s]) : status[t] = "BLOCKED"

\* The thread stands where a timer interrupt, a sema_up() or its creator will
\* find and unblock it.
Wakeable(t) ==
  \/ t \in Range(sleep_list)
  \/ \E s \in Sema : t \in Range(waiters[s])
  \/ \E u \in Thread : pc[u] = "create" /\ arg[u] = t

\* No thread drops out of the scheduler: exactly the current one is running,
\* a ready one is queued, and a blocked one stands in a list from which it
\* will be unblocked or in the hands of its creator.  The idle thread alone
\* may be off every list (next_thread_to_run() returns it by name).
NoThreadLost ==
  \A t \in Thread :
    /\ status[t] = "RUNNING" <=> t = cur
    /\ status[t] = "READY" => t \in Range(ready_list) \/ t = idle_thread
    /\ status[t] = "BLOCKED" => Wakeable(t) \/ t = idle_thread

\* What idle()'s comment promises: once the idle thread has run it never
\* appears in the ready list, and it waits on nothing.
IdleNeverQueued == idle_thread # NULL => Places(idle) = {}

\* A timer interrupt leaves nobody asleep whose alarm has come, and it and
\* nothing else ends a sleep, never before the alarm.
AlarmsKept ==
  [][/\ timer_interrupt =>
          \A t \in Range(sleep_list') : alarm_ticks'[t] > ticks'
     /\ \A t \in Range(sleep_list) \ Range(sleep_list') :
          alarm_ticks[t] <= ticks']_vars

\* A sleeper runs again.
SleeperWakes == \A t \in Thread : t \in Range(sleep_list) ~> cur = t

----------------------------------------------------------------------------
(* The inductive invariant behind ElemExclusive, NoThreadLost and          *)
(* IdleNeverQueued: what status and program counter say of the list a      *)
(* thread is on.                                                           *)

IdlePoint == {"idle_start", "idle_up", "loop", "hlt"}

Queues ==
  /\ IsInjective(ready_list) /\ IsInjective(sleep_list)
  /\ \A s \in Sema : IsInjective(waiters[s])
  /\ \A t \in Thread : status[t] = "RUNNING" <=> t = cur
  /\ \A t \in Thread : t \in Range(ready_list) <=> status[t] = "READY" /\ t # idle_thread
  /\ \A t \in Range(sleep_list) : status[t] = "BLOCKED" /\ pc[t] = "run"
  /\ \A s \in Sema : \A t \in Range(waiters[s]) :
       status[t] = "BLOCKED" /\ pc[t] = "down" /\ arg[t] = s

Creators ==
  \A u \in Thread : pc[u] = "create" =>
    /\ arg[u] \in Thread /\ status[arg[u]] = "BLOCKED" /\ pc[arg[u]] = "run"
    /\ arg[u] \notin Range(sleep_list)
    /\ \A v \in Thread : pc[v] = "create" /\ arg[v] = arg[u] => v = u

Blocked ==
  \A t \in Thread : status[t] = "BLOCKED" /\ t # idle_thread => Wakeable(t)

Control ==
  /\ \A t \in Thread : pc[t] = "down" => arg[t] \in Sema
  /\ \A t \in Thread : status[t] = "NONE" => pc[t] = "run"
  /\ \A t \in Thread : pc[t] \in IdlePoint <=> t = idle
  /\ idle_thread = NULL <=> pc[idle] = "idle_start"
  /\ status[idle] \in {"RUNNING", "READY", "BLOCKED"}
  /\ idle_thread = NULL => status[idle] # "BLOCKED"

SchedInv == TypeOK /\ Queues /\ Creators /\ Blocked /\ Control
====
