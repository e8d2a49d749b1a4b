--------------------------- MODULE SchedulerProof ---------------------------
(***************************************************************************)
(* The theorems on the scheduler's lists, the alarm clock and the          *)
(* refinement of Semaphore, for every number of threads and semaphores.    *)
(* First what schedule() does to the run queue; then that the thread       *)
(* operations, the semaphores, the alarm clock, the timer and the idle     *)
(* thread preserve the invariant.                                          *)
(***************************************************************************)
EXTENDS MCScheduler, ListLemmas

\* schedule() called with a run queue rl that holds exactly the ready threads:
\* the thread it switches to runs and leaves the queue, nobody else changes
\* except the dying thread whose page is freed.
LEMMA ScheduleEffect ==
  ASSUME SchedulerAssumption, idle_thread \in {idle, NULL},
         NEW rl \in Seq(Thread), IsInjective(rl),
         NEW st \in [Thread -> Status],
         \A t \in Thread : st[t] # "RUNNING",
         \A t \in Thread : t \in Range(rl) <=> st[t] = "READY" /\ t # idle_thread,
         rl = <<>> => idle_thread = idle,
         schedule(rl, st)
  PROVE  /\ cur' \in Thread
         /\ cur' = idle_thread \/ st[cur'] = "READY"
         /\ ready_list' \in Seq(Thread) /\ IsInjective(ready_list')
         /\ thread_ticks' = 0
         /\ status' \in [Thread -> Status]
         /\ \A t \in Thread : status'[t] = "RUNNING" <=> t = cur'
         /\ \A t \in Thread :
              t \in Range(ready_list') <=> status'[t] = "READY" /\ t # idle_thread
         /\ \A t \in Thread \ {cur'} :
              \/ status'[t] = st[t]
              \/ t = cur /\ st[t] = "DYING" /\ status'[t] = "NONE"
<1>1. /\ cur' = next_thread_to_run(rl)
      /\ ready_list' = IF rl = <<>> THEN rl ELSE Tail(rl)
      /\ thread_ticks' = 0
      /\ status' = [t \in Thread |->
           CASE t = cur' -> "RUNNING"
             [] t # cur' /\ t = cur /\ st[t] = "DYING" /\ t # main -> "NONE"
             [] OTHER -> st[t]]
  BY Zenon DEF schedule
<1>2. /\ cur' \in Thread
      /\ cur' = idle_thread \/ st[cur'] = "READY"
      /\ ready_list' \in Seq(Thread) /\ IsInjective(ready_list')
      /\ Range(ready_list') = Range(rl) \ {cur'}
  <2>1. CASE rl = <<>>
    BY <1>1, <2>1, EmptyList, Zenon DEF next_thread_to_run, SchedulerAssumption
  <2>2. CASE rl # <<>>
    <3>1. cur' = Head(rl) /\ ready_list' = Tail(rl)
      BY <1>1, <2>2, Zenon DEF next_thread_to_run
    <3>2. QED BY <2>2, <3>1, PopFront, Zenon
  <2>3. QED BY <2>1, <2>2, Zenon
<1>3. \A t \in Thread : status'[t] =
        IF t = cur' THEN "RUNNING"
        ELSE IF t = cur /\ st[t] = "DYING" /\ t # main THEN "NONE" ELSE st[t]
  BY <1>1, Zenon
<1>4. status' \in [Thread -> Status]
  BY <1>1, Zenon DEF Status
<1>5. \A t \in Thread : status'[t] = "RUNNING" <=> t = cur'
  BY <1>3, Zenon
<1>6. \A t \in Thread :
        t \in Range(ready_list') <=> status'[t] = "READY" /\ t # idle_thread
  BY <1>2, <1>3, Zenon
<1>7. \A t \in Thread \ {cur'} :
        \/ status'[t] = st[t]
        \/ t = cur /\ st[t] = "DYING" /\ status'[t] = "NONE"
  BY <1>3, Zenon
<1>8. QED BY <1>1, <1>2, <1>4, <1>5, <1>6, <1>7, Zenon

\* While the idle thread has not run it is on the run queue or on the CPU, so
\* the queue that another thread leaves behind is not empty.
LEMMA IdleReady ==
  ASSUME SchedulerAssumption, SchedInv, cur # idle \/ idle_thread = idle
  PROVE  ready_list = <<>> => idle_thread = idle
<1> SUFFICES ASSUME ready_list = <<>>, idle_thread = NULL PROVE FALSE
  BY Zenon DEF SchedInv, TypeOK
<1>1. idle \notin Range(ready_list)
  BY EmptyList, Zenon
<1>2. status[idle] \in {"RUNNING", "READY"} /\ idle \in Thread /\ idle # NULL /\ cur # idle
  BY Zenon DEF SchedInv, Control, SchedulerAssumption
<1>3. QED BY <1>1, <1>2, Zenon DEF SchedInv, Queues

\* The running thread leaves the CPU, blocked or dying.
LEMMA LeaveEffect ==
  ASSUME SchedulerAssumption, SchedInv, cur # idle \/ idle_thread = idle,
         NEW x \in {"BLOCKED", "DYING"},
         schedule(ready_list, [status EXCEPT ![cur] = x])
  PROVE  /\ cur' \in Thread
         /\ ready_list' \in Seq(Thread) /\ IsInjective(ready_list')
         /\ thread_ticks' = 0
         /\ status' \in [Thread -> Status]
         /\ \A t \in Thread : status'[t] = "RUNNING" <=> t = cur'
         /\ \A t \in Thread :
              t \in Range(ready_list') <=> status'[t] = "READY" /\ t # idle_thread
         /\ cur' = idle_thread \/ (cur' # cur /\ status[cur'] = "READY")
         /\ \A t \in Thread \ {cur, cur'} : status'[t] = status[t]
         /\ cur' # cur => status'[cur] = x \/ (x = "DYING" /\ status'[cur] = "NONE")
<1> DEFINE st == [status EXCEPT ![cur] = x]
<1>1. cur \in Thread /\ idle_thread \in {idle, NULL} /\ status \in [Thread -> Status]
      /\ ready_list \in Seq(Thread) /\ IsInjective(ready_list)
  BY Zenon DEF SchedInv, TypeOK, Queues
<1>2. st \in [Thread -> Status] /\ st[cur] = x /\ \A t \in Thread \ {cur} : st[t] = status[t]
  BY <1>1, Zenon DEF Status
<1>3. \A t \in Thread : st[t] # "RUNNING"
  BY <1>1, <1>2 DEF SchedInv, Queues
<1>4. \A t \in Thread : t \in Range(ready_list) <=> st[t] = "READY" /\ t # idle_thread
  BY <1>1, <1>2, Zenon DEF SchedInv, Queues
<1>5. ready_list = <<>> => idle_thread = idle
  BY IdleReady, Zenon
<1> HIDE DEF st
<1>6. schedule(ready_list, st)
  BY Zenon DEF st
<1>7. /\ cur' \in Thread
      /\ cur' = idle_thread \/ st[cur'] = "READY"
      /\ ready_list' \in Seq(Thread) /\ IsInjective(ready_list')
      /\ thread_ticks' = 0
      /\ status' \in [Thread -> Status]
      /\ \A t \in Thread : status'[t] = "RUNNING" <=> t = cur'
      /\ \A t \in Thread :
              t \in Range(ready_list') <=> status'[t] = "READY" /\ t # idle_thread
      /\ \A t \in Thread \ {cur'} :
              \/ status'[t] = st[t]
              \/ t = cur /\ st[t] = "DYING" /\ status'[t] = "NONE"
  BY <1>1, <1>2, <1>3, <1>4, <1>5, <1>6, ScheduleEffect
<1>8. QED BY <1>1, <1>2, <1>7, Zenon

\* The running thread gives up the CPU and stays ready.
LEMMA YieldEffect ==
  ASSUME SchedulerAssumption, cur \in Thread, idle_thread \in {idle, NULL},
         NEW rl \in Seq(Thread), IsInjective(rl),
         NEW st \in [Thread -> Status],
         \A t \in Thread : st[t] = "RUNNING" <=> t = cur,
         \A t \in Thread : t \in Range(rl) <=> st[t] = "READY" /\ t # idle_thread,
         idle_thread = NULL /\ cur # idle => st[idle] = "READY",
         yield(cur, rl, st)
  PROVE  /\ cur' \in Thread
         /\ ready_list' \in Seq(Thread) /\ IsInjective(ready_list')
         /\ thread_ticks' = 0
         /\ status' \in [Thread -> Status]
         /\ \A t \in Thread : status'[t] = "RUNNING" <=> t = cur'
         /\ \A t \in Thread :
              t \in Range(ready_list') <=> status'[t] = "READY" /\ t # idle_thread
         /\ cur' = idle_thread \/ cur' = cur \/ st[cur'] = "READY"
         /\ \A t \in Thread \ {cur, cur'} : status'[t] = st[t]
         /\ cur' # cur => status'[cur] = "READY"
<1> DEFINE rq == IF cur # idle_thread THEN Append(rl, cur) ELSE rl
           sq == [st EXCEPT ![cur] = "READY"]
<1>1. /\ rq \in Seq(Thread) /\ IsInjective(rq)
      /\ Range(rq) = IF cur # idle_thread THEN Range(rl) \cup {cur} ELSE Range(rl)
      /\ rq = <<>> => rl = <<>> /\ cur = idle_thread
  <2>1. cur \notin Range(rl)
    BY Zenon
  <2>2. CASE cur # idle_thread
    <3>1. rq = Append(rl, cur)
      BY <2>2, Zenon
    <3>2. QED BY <2>1, <2>2, <3>1, PushBack
  <2>3. CASE cur = idle_thread
    BY <2>3, Zenon
  <2>4. QED BY <2>2, <2>3, Zenon
<1>2. /\ sq \in [Thread -> Status] /\ sq[cur] = "READY"
      /\ \A t \in Thread \ {cur} : sq[t] = st[t]
  BY Zenon DEF Status
<1>3. schedule(rq, sq)
  BY Zenon DEF yield
<1> HIDE DEF rq, sq
<1>4. \A t \in Thread : sq[t] # "RUNNING"
  BY <1>2, Zenon
<1>5. \A t \in Thread : t \in Range(rq) <=> sq[t] = "READY" /\ t # idle_thread
  BY <1>1, <1>2, Zenon
<1>6. rq = <<>> => idle_thread = idle
  BY <1>1, Zenon DEF SchedulerAssumption
<1>7. /\ cur' \in Thread
      /\ cur' = idle_thread \/ sq[cur'] = "READY"
      /\ ready_list' \in Seq(Thread) /\ IsInjective(ready_list')
      /\ thread_ticks' = 0
      /\ status' \in [Thread -> Status]
      /\ \A t \in Thread : status'[t] = "RUNNING" <=> t = cur'
      /\ \A t \in Thread :
              t \in Range(ready_list') <=> status'[t] = "READY" /\ t # idle_thread
      /\ \A t \in Thread \ {cur'} :
              \/ status'[t] = sq[t]
              \/ t = cur /\ sq[t] = "DYING" /\ status'[t] = "NONE"
  BY <1>1, <1>2, <1>3, <1>4, <1>5, <1>6, ScheduleEffect, Zenon
<1>8. QED BY <1>2, <1>7, Zenon

\* The idle thread's page is a thread's, and idle_thread names it or nobody.
LEMMA IdleFacts ==
  ASSUME SchedInv
  PROVE  /\ idle \in Thread /\ NULL \notin Thread /\ idle_thread \in {idle, NULL}
         /\ pc[idle] \in IdlePoint
BY SchedulerAssumption, Zenon DEF SchedInv, TypeOK, Control

\* The idle thread neither sleeps nor waits on a semaphore.
LEMMA NotIdleQueued ==
  ASSUME SchedInv
  PROVE  /\ Range(sleep_list) \subseteq Thread \ {idle}
         /\ \A s \in Sema : Range(waiters[s]) \subseteq Thread \ {idle}
<1>1. pc[idle] # "run" /\ pc[idle] # "down"
  BY IdleFacts, Zenon DEF IdlePoint
<1>2. Range(sleep_list) \subseteq Thread
  BY DEF SchedInv, TypeOK, Range
<1>3. \A s \in Sema : Range(waiters[s]) \subseteq Thread
  BY DEF SchedInv, TypeOK, Range
<1>4. Range(sleep_list) \subseteq Thread \ {idle}
  BY <1>1, <1>2 DEF SchedInv, Queues
<1>5. \A s \in Sema : Range(waiters[s]) \subseteq Thread \ {idle}
  BY <1>1, <1>3 DEF SchedInv, Queues
<1>6. QED BY <1>4, <1>5, Zenon

\* A thread that sleeps or waits on a semaphore is blocked in timer_sleep() or in
\* sema_down() of that semaphore, and is not the idle thread.
LEMMA Waiting ==
  ASSUME SchedInv
  PROVE  /\ \A u \in Range(sleep_list) :
              u \in Thread \ {idle} /\ u # idle_thread /\ status[u] = "BLOCKED" /\ pc[u] = "run"
         /\ \A r \in Sema : \A u \in Range(waiters[r]) :
              /\ u \in Thread \ {idle} /\ u # idle_thread
              /\ status[u] = "BLOCKED" /\ pc[u] = "down" /\ arg[u] = r
<1>1. \A u \in Thread \ {idle} : u # idle_thread
  BY IdleFacts, Zenon
<1>2. /\ \A u \in Range(sleep_list) : status[u] = "BLOCKED" /\ pc[u] = "run"
      /\ \A r \in Sema : \A u \in Range(waiters[r]) :
           status[u] = "BLOCKED" /\ pc[u] = "down" /\ arg[u] = r
  BY Zenon DEF SchedInv, Queues
<1>3. /\ \A u \in Range(sleep_list) : u \in Thread \ {idle}
      /\ \A r \in Sema : \A u \in Range(waiters[r]) : u \in Thread \ {idle}
  BY NotIdleQueued, Zenon
<1>4. QED BY <1>1, <1>2, <1>3, Zenon

\* A blocked thread stays on its list or in the hands of its creator.
LEMMA WakeableKept ==
  ASSUME NEW t \in Thread, Wakeable(t),
         Range(sleep_list) \subseteq Range(sleep_list'), UNCHANGED waiters,
         \A u \in Thread : pc[u] = "create" => pc'[u] = "create" /\ arg'[u] = arg[u]
  PROVE  Wakeable(t)'
<1>1. CASE t \in Range(sleep_list)
  BY <1>1, Zenon DEF Wakeable
<1>2. CASE \E s \in Sema : t \in Range(waiters[s])
  BY <1>2, Zenon DEF Wakeable
<1>3. CASE \E u \in Thread : pc[u] = "create" /\ arg[u] = t
  BY <1>3, Zenon DEF Wakeable
<1>4. QED BY <1>1, <1>2, <1>3, Zenon DEF Wakeable

\* A step that starts no thread_create() and leaves alone the threads that are
\* being made.
LEMMA CreatorsKept ==
  ASSUME Creators,
         \A u \in Thread : pc'[u] = "create" =>
           /\ pc[u] = "create" /\ arg'[u] = arg[u]
           /\ status'[arg[u]] = "BLOCKED" /\ pc'[arg[u]] = "run"
           /\ arg[u] \notin Range(sleep_list')
  PROVE  Creators'
<1> SUFFICES ASSUME NEW u \in Thread, pc'[u] = "create"
             PROVE  /\ arg'[u] \in Thread /\ status'[arg'[u]] = "BLOCKED" /\ pc'[arg'[u]] = "run"
                    /\ arg'[u] \notin Range(sleep_list')
                    /\ \A v \in Thread : pc'[v] = "create" /\ arg'[v] = arg'[u] => v = u
  BY Zenon DEF Creators
<1>1. /\ pc[u] = "create" /\ arg'[u] = arg[u]
      /\ status'[arg[u]] = "BLOCKED" /\ pc'[arg[u]] = "run"
      /\ arg[u] \notin Range(sleep_list')
  BY Zenon
<1>2. arg[u] \in Thread /\ \A v \in Thread : pc[v] = "create" /\ arg[v] = arg[u] => v = u
  BY <1>1, Zenon DEF Creators
<1>3. ASSUME NEW v \in Thread, pc'[v] = "create", arg'[v] = arg'[u] PROVE v = u
  <2>1. pc[v] = "create" /\ arg'[v] = arg[v]
    BY <1>3, Zenon
  <2>2. QED BY <1>1, <1>2, <1>3, <2>1, Zenon
<1>4. QED BY <1>1, <1>2, <1>3, Zenon

\* No thread_create() that is under way makes the idle thread.
LEMMA NotIdleCreated ==
  ASSUME SchedInv
  PROVE  \A u \in Thread : pc[u] = "create" => arg[u] \in Thread \ {idle}
<1>1. pc[idle] # "run"
  BY IdleFacts, Zenon DEF IdlePoint
<1>2. QED BY <1>1, Zenon DEF SchedInv, Creators

\* An interrupt that ends the idle thread's hlt moves no other thread.
LEMMA WakeIdleEffect ==
  ASSUME SchedInv, WakeIdle
  PROVE  /\ pc' \in [Thread -> Point]
         /\ pc'[idle] \in IdlePoint
         /\ pc'[idle] = "idle_start" <=> pc[idle] = "idle_start"
         /\ \A u \in Thread \ {idle} : pc'[u] = pc[u]
<1>a. /\ idle \in Thread /\ NULL \notin Thread /\ idle_thread \in {idle, NULL}
      /\ pc[idle] \in IdlePoint
  BY IdleFacts, Zenon
<1>1. cur \in Thread /\ pc \in [Thread -> Point] /\ pc[idle] \in IdlePoint
      /\ idle \in Thread
  BY <1>a, Zenon DEF SchedInv, TypeOK, Control
<1>2. CASE pc[cur] # "hlt"
  BY <1>1, <1>2, Zenon DEF WakeIdle
<1>3. CASE pc[cur] = "hlt"
  <2>1. cur = idle
    BY <1>1, <1>3, Zenon DEF SchedInv, Control, IdlePoint
  <2>2. pc' = [pc EXCEPT ![idle] = "loop"]
    BY <1>3, <2>1, Zenon DEF WakeIdle
  <2>3. QED BY <1>1, <1>3, <2>1, <2>2, Zenon DEF IdlePoint, Point
<1>4. QED BY <1>2, <1>3, Zenon

\* What list_insert_ordered() does to the sleep list, whatever the alarms.
LEMMA InsertOrdered ==
  ASSUME SchedInv, NEW t \in Thread, t \notin Range(sleep_list), insert_ordered(t)
  PROVE  /\ sleep_list' \in Seq(Thread)
         /\ IsInjective(sleep_list')
         /\ Range(sleep_list') = Range(sleep_list) \cup {t}
<1>1. sleep_list \in Seq(Thread) /\ IsInjective(sleep_list)
  BY Zenon DEF SchedInv, TypeOK, Queues
<1>2. PICK k \in 0..Len(sleep_list) :
        sleep_list' = Append(SubSeq(sleep_list, 1, k), t)
                        \o SubSeq(sleep_list, k + 1, Len(sleep_list))
  BY Zenon DEF insert_ordered
<1>3. QED BY <1>1, <1>2, Insert

----------------------------------------------------------------------------
(* thread_yield(), thread_create() and thread_exit().                      *)

\* thread_yield(): the running thread goes to the back of the run queue.
LEMMA YieldPreserves ==
  ASSUME SchedInv, NEW t \in Thread, thread_yield(t)
  PROVE  SchedInv'
<1>a. /\ idle \in Thread /\ NULL \notin Thread /\ idle_thread \in {idle, NULL}
      /\ pc[idle] \in IdlePoint
  BY IdleFacts, Zenon
<1>b. /\ Range(sleep_list) \subseteq Thread \ {idle}
      /\ \A s \in Sema : Range(waiters[s]) \subseteq Thread \ {idle}
  BY NotIdleQueued, Zenon
<1>c. \A u \in Thread : pc[u] = "create" => arg[u] \in Thread \ {idle}
  BY NotIdleCreated, Zenon
<1> USE SchedulerAssumption
<1>1. /\ cur = t /\ pc[t] = "run" /\ yield(cur, ready_list, status)
      /\ UNCHANGED <<sleep_list, alarm_ticks, ticks, value, waiters, pc, arg, idle_thread>>
  BY Zenon DEF thread_yield, At, clock, semas, local
<1>2. /\ cur' \in Thread
      /\ ready_list' \in Seq(Thread) /\ IsInjective(ready_list')
      /\ thread_ticks' = 0
      /\ status' \in [Thread -> Status]
      /\ \A u \in Thread : status'[u] = "RUNNING" <=> u = cur'
      /\ \A u \in Thread :
           u \in Range(ready_list') <=> status'[u] = "READY" /\ u # idle_thread
      /\ cur' = idle_thread \/ cur' = cur \/ status[cur'] = "READY"
      /\ \A u \in Thread \ {cur, cur'} : status'[u] = status[u]
      /\ cur' # cur => status'[cur] = "READY"
  <2>1. idle_thread = NULL /\ cur # idle => status[idle] = "READY"
    BY Zenon DEF SchedInv, Queues, Control, SchedulerAssumption
  <2>2. /\ cur \in Thread /\ idle_thread \in {idle, NULL} /\ ready_list \in Seq(Thread)
        /\ IsInjective(ready_list) /\ status \in [Thread -> Status]
        /\ \A u \in Thread : status[u] = "RUNNING" <=> u = cur
        /\ \A u \in Thread : u \in Range(ready_list) <=> status[u] = "READY" /\ u # idle_thread
    BY Zenon DEF SchedInv, TypeOK, Queues
  <2>3. QED BY <1>1, <2>1, <2>2, YieldEffect, Zenon
<1>3. TypeOK'
  BY <1>1, <1>2 DEF SchedInv, TypeOK, SchedulerAssumption
<1>4. \A u \in Thread : status'[u] = "BLOCKED" => status[u] = "BLOCKED"
  BY <1>1, <1>2, Zenon
<1>5. \A u \in Thread : status[u] = "BLOCKED" /\ u # idle_thread => status'[u] = "BLOCKED"
  BY <1>1, <1>2 DEF SchedInv, Queues
<1>6. Queues'
  BY <1>1, <1>2, <1>5, <1>a, <1>b DEF SchedInv, Queues
<1>7. Creators'
  BY <1>1, <1>5, <1>a, <1>c DEF SchedInv, Creators
<1>8. Blocked'
  BY <1>1, <1>4, Zenon DEF SchedInv, Blocked, Wakeable
<1>9. Control'
  BY <1>1, <1>2, <1>a, <1>b DEF SchedInv, Control, Queues
<1>10. QED BY <1>3, <1>6, <1>7, <1>8, <1>9, Zenon DEF SchedInv

\* The first half of thread_create(): the new thread is blocked, in the hands
\* of its creator.
LEMMA CreateInitPreserves ==
  ASSUME SchedInv, NEW t \in Thread, NEW new \in Thread, thread_create_init(t, new)
  PROVE  SchedInv'
<1>a. /\ idle \in Thread /\ NULL \notin Thread /\ idle_thread \in {idle, NULL}
      /\ pc[idle] \in IdlePoint
  BY IdleFacts, Zenon
<1>b. /\ Range(sleep_list) \subseteq Thread \ {idle}
      /\ \A s \in Sema : Range(waiters[s]) \subseteq Thread \ {idle}
  BY NotIdleQueued, Zenon
<1>1. /\ cur = t /\ pc[t] = "run" /\ status[new] = "NONE" /\ pc[new] = "run"
      /\ status' = [status EXCEPT ![new] = "BLOCKED"]
      /\ pc'  = [pc  EXCEPT ![t] = "create", ![new] = "run"]
      /\ arg' = [arg EXCEPT ![t] = new, ![new] = NULL]
      /\ UNCHANGED <<cur, ready_list, thread_ticks, sleep_list, alarm_ticks, ticks,
                     value, waiters, idle_thread>>
  BY Zenon DEF thread_create_init, At, clock, semas, SchedInv, Control
<1>2. t # new /\ t # idle /\ new # idle
  BY <1>1, <1>a, <1>b, Zenon DEF SchedInv, Queues, Control, IdlePoint
<1>3. TypeOK'
  <2>1. status' \in [Thread -> Status] /\ pc' \in [Thread -> Point]
    BY <1>1, Zenon DEF SchedInv, TypeOK, Status, Point
  <2>2. arg' \in [Thread -> Thread \cup Sema \cup {NULL}]
    BY <1>1, Zenon DEF SchedInv, TypeOK
  <2>3. UNCHANGED <<cur, ready_list, thread_ticks, sleep_list, alarm_ticks, ticks,
                    value, waiters, idle_thread>>
    BY <1>1, Zenon
  <2>4. QED BY <2>1, <2>2, <2>3, Zenon DEF SchedInv, TypeOK
<1>4. /\ status'[new] = "BLOCKED" /\ \A u \in Thread \ {new} : status'[u] = status[u]
      /\ \A u \in Thread \ {t} : pc'[u] = pc[u]
      /\ \A u \in Thread \ {t, new} : arg'[u] = arg[u]
      /\ pc'[t] = "create" /\ arg'[t] = new /\ arg'[new] = NULL
  BY <1>1, <1>2, Zenon DEF SchedInv, TypeOK
<1>0. /\ cur = t /\ status[new] = "NONE" /\ pc[new] = "run" /\ pc[t] = "run"
      /\ status[t] = "RUNNING"
      /\ UNCHANGED <<cur, ready_list, sleep_list, waiters, idle_thread>>
  BY <1>1, Zenon DEF SchedInv, Queues
<1>5. Queues'
  <2>1. \A u \in Range(sleep_list) : u # new /\ u # t
    BY <1>0, Zenon DEF SchedInv, Queues
  <2>2. \A s \in Sema : \A u \in Range(waiters[s]) : u # new /\ u # t
    BY <1>0 DEF SchedInv, Queues
  <2>3. QED BY <1>0, <1>2, <1>4, <2>1, <2>2, <1>a, <1>b DEF SchedInv, Queues
<1>6. Creators'
  <2>1. \A u \in Thread : pc[u] = "create" => u # t /\ u # new /\ arg[u] # new
    BY <1>0, Zenon DEF SchedInv, Creators
  <2>2. new \notin Range(sleep_list)
    BY <1>0, Zenon DEF SchedInv, Queues
  <2>3. QED BY <1>0, <1>2, <1>4, <2>1, <2>2 DEF SchedInv, Creators
<1>7. Blocked'
  <2> SUFFICES ASSUME NEW u \in Thread, status'[u] = "BLOCKED", u # idle_thread
               PROVE  Wakeable(u)'
    BY <1>1, Zenon DEF Blocked
  <2>1. CASE u = new
    BY <1>4, <2>1, Zenon DEF Wakeable
  <2>2. CASE u # new
    <3>1. Wakeable(u)
      BY <1>4, <2>2, Zenon DEF SchedInv, Blocked
    <3>2. QED BY <1>0, <1>4, <3>1, Zenon DEF Wakeable
  <2>3. QED BY <2>1, <2>2, Zenon
<1>8. Control'
  BY <1>0, <1>2, <1>4, <1>a DEF SchedInv, Control, IdlePoint
<1>9. QED BY <1>3, <1>5, <1>6, <1>7, <1>8, Zenon DEF SchedInv

\* The second half of thread_create(): the new thread enters the run queue.
LEMMA CreateUnblockPreserves ==
  ASSUME SchedInv, NEW t \in Thread, thread_create_unblock(t)
  PROVE  SchedInv'
<1>a. /\ idle \in Thread /\ NULL \notin Thread /\ idle_thread \in {idle, NULL}
      /\ pc[idle] \in IdlePoint
  BY IdleFacts, Zenon
<1>b. /\ Range(sleep_list) \subseteq Thread \ {idle}
      /\ \A s \in Sema : Range(waiters[s]) \subseteq Thread \ {idle}
  BY NotIdleQueued, Zenon
<1>c. \A u \in Thread : pc[u] = "create" => arg[u] \in Thread \ {idle}
  BY NotIdleCreated, Zenon
<1> DEFINE new == arg[t]
<1>1. /\ cur = t /\ pc[t] = "create"
      /\ ready_list' = Append(ready_list, new)
      /\ status' = [status EXCEPT ![new] = "READY"]
      /\ pc'  = [pc  EXCEPT ![t] = "run"]
      /\ arg' = [arg EXCEPT ![t] = NULL]
      /\ UNCHANGED <<cur, thread_ticks, sleep_list, alarm_ticks, ticks,
                     value, waiters, idle_thread>>
  BY Zenon DEF thread_create_unblock, thread_unblock, Goto, At, clock, semas
<1>2. /\ new \in Thread \ {idle} /\ status[new] = "BLOCKED" /\ pc[new] = "run"
      /\ new \notin Range(sleep_list) /\ t # new /\ t # idle
      /\ \A s \in Sema : new \notin Range(waiters[s])
      /\ \A v \in Thread : pc[v] = "create" /\ arg[v] = new => v = t
  BY <1>1, <1>a, <1>b, <1>c, Zenon DEF SchedInv, Creators, Queues, Control, IdlePoint
<1> HIDE DEF new
<1>3. /\ ready_list' \in Seq(Thread) /\ IsInjective(ready_list')
      /\ Range(ready_list') = Range(ready_list) \cup {new}
  <2>1. ready_list \in Seq(Thread) /\ IsInjective(ready_list) /\ new \notin Range(ready_list)
    BY <1>2, Zenon DEF SchedInv, TypeOK, Queues
  <2>2. QED BY <1>1, <1>2, <2>1, PushBack
<1>4. TypeOK'
  BY <1>1, <1>2, <1>3, Zenon DEF SchedInv, TypeOK, Status, Point
<1>5. /\ status'[new] = "READY" /\ \A u \in Thread \ {new} : status'[u] = status[u]
      /\ \A u \in Thread \ {t} : pc'[u] = pc[u] /\ arg'[u] = arg[u]
      /\ pc'[t] = "run" /\ arg'[t] = NULL
  BY <1>1, <1>2, Zenon DEF SchedInv, TypeOK
<1>6. Queues'
  BY <1>1, <1>2, <1>3, <1>5, <1>a, <1>b DEF SchedInv, Queues
<1>7. Creators'
  BY <1>1, <1>2, <1>5, <1>a, <1>c DEF SchedInv, Creators
<1>8. Blocked'
  <2>1. UNCHANGED <<sleep_list, waiters, idle_thread>>
    BY <1>1, Zenon
  <2> SUFFICES ASSUME NEW u \in Thread, status'[u] = "BLOCKED", u # idle_thread
               PROVE  Wakeable(u)'
    BY <2>1, Zenon DEF Blocked
  <2>2. u # new /\ status[u] = "BLOCKED"
    BY <1>5, Zenon
  <2>3. Wakeable(u)
    BY <2>2, Zenon DEF SchedInv, Blocked
  <2>4. QED BY <1>5, <2>1, <2>2, <2>3, Zenon DEF Wakeable, new
<1>9. Control'
  BY <1>1, <1>2, <1>5, <1>a DEF SchedInv, Control, IdlePoint
<1>10. QED BY <1>4, <1>6, <1>7, <1>8, <1>9, Zenon DEF SchedInv

\* thread_exit(): the dying thread leaves the CPU for good.
LEMMA ExitPreserves ==
  ASSUME SchedInv, NEW t \in Thread, thread_exit(t)
  PROVE  SchedInv'
<1>a. /\ idle \in Thread /\ NULL \notin Thread /\ idle_thread \in {idle, NULL}
      /\ pc[idle] \in IdlePoint
  BY IdleFacts, Zenon
<1>b. /\ Range(sleep_list) \subseteq Thread \ {idle}
      /\ \A s \in Sema : Range(waiters[s]) \subseteq Thread \ {idle}
  BY NotIdleQueued, Zenon
<1>c. \A u \in Thread : pc[u] = "create" => arg[u] \in Thread \ {idle}
  BY NotIdleCreated, Zenon
<1>1. /\ cur = t /\ pc[t] = "run" /\ schedule(ready_list, [status EXCEPT ![cur] = "DYING"])
      /\ UNCHANGED <<sleep_list, alarm_ticks, ticks, value, waiters, pc, arg, idle_thread>>
  BY Zenon DEF thread_exit, At, clock, semas, local
<1>2. t # idle
  BY <1>1, <1>a, Zenon DEF SchedInv, Control, IdlePoint
<1>3. /\ cur' \in Thread
      /\ ready_list' \in Seq(Thread) /\ IsInjective(ready_list')
      /\ thread_ticks' = 0
      /\ status' \in [Thread -> Status]
      /\ \A u \in Thread : status'[u] = "RUNNING" <=> u = cur'
      /\ \A u \in Thread :
           u \in Range(ready_list') <=> status'[u] = "READY" /\ u # idle_thread
      /\ cur' = idle_thread \/ (cur' # cur /\ status[cur'] = "READY")
      /\ \A u \in Thread \ {cur, cur'} : status'[u] = status[u]
      /\ cur' # cur => status'[cur] \in {"DYING", "NONE"}
  BY <1>1, <1>2, LeaveEffect, SchedulerAssumption, Zenon
<1>4. TypeOK'
  BY <1>1, <1>3, SchedulerAssumption DEF SchedInv, TypeOK
<1>5. \A u \in Thread : status'[u] = "BLOCKED" => status[u] = "BLOCKED"
  BY <1>1, <1>3, Zenon
<1>6. \A u \in Thread : status[u] = "BLOCKED" /\ u # idle_thread => status'[u] = "BLOCKED"
  BY <1>1, <1>3, Zenon DEF SchedInv, Queues
<1>7. Queues'
  BY <1>1, <1>3, <1>6, <1>a, <1>b DEF SchedInv, Queues
<1>8. Creators'
  <2>1. \A u \in Thread : pc[u] = "create" => status'[arg[u]] = "BLOCKED"
    BY <1>6, <1>a, <1>c DEF SchedInv, Creators
  <2>2. pc' = pc /\ arg' = arg /\ sleep_list' = sleep_list
    BY <1>1, Zenon
  <2>3. QED BY <2>1, <2>2, Zenon DEF SchedInv, Creators
<1>9. Blocked'
  BY <1>1, <1>5, Zenon DEF SchedInv, Blocked, Wakeable
<1>10. Control'
  <2>1. pc' = pc /\ arg' = arg /\ idle_thread' = idle_thread
    BY <1>1, Zenon
  <2>2. \A u \in Thread : status'[u] = "NONE" => pc[u] = "run"
    BY <1>1, <1>3, Zenon DEF SchedInv, Control
  <2>3. /\ status'[idle] \in {"RUNNING", "READY", "BLOCKED"}
        /\ idle_thread = NULL => status'[idle] # "BLOCKED"
    BY <1>1, <1>2, <1>3, <1>a, Zenon DEF SchedInv, Control
  <2>4. QED BY <2>1, <2>2, <2>3, Zenon DEF SchedInv, Control
<1>11. QED BY <1>4, <1>7, <1>8, <1>9, <1>10, Zenon DEF SchedInv

----------------------------------------------------------------------------
\* sema_down(), entered or retried by the running thread.
LEMMA SemaDownPreserves ==
  ASSUME SchedInv, NEW t \in Thread, NEW s \in Sema,
         cur = t, pc[t] \in {"run", "boot", "down"},
         sema_down(t, s), UNCHANGED <<sleep_list, alarm_ticks, ticks, idle_thread>>
  PROVE  SchedInv'
<1>a. /\ idle \in Thread /\ NULL \notin Thread /\ idle_thread \in {idle, NULL}
      /\ pc[idle] \in IdlePoint
  BY IdleFacts, Zenon
<1>b. /\ Range(sleep_list) \subseteq Thread \ {idle}
      /\ \A r \in Sema : Range(waiters[r]) \subseteq Thread \ {idle}
  BY NotIdleQueued, Zenon
<1>c. \A u \in Thread : pc[u] = "create" => arg[u] \in Thread \ {idle}
  BY NotIdleCreated, Zenon
<1>1. /\ t # idle /\ status[t] = "RUNNING"
      /\ \A u \in Range(sleep_list) : u # t
      /\ \A r \in Sema : \A u \in Range(waiters[r]) : u # t
      /\ \A u \in Thread : pc[u] = "create" => u # t /\ arg[u] # t
  BY <1>a, <1>b, <1>c DEF SchedInv, Queues, Creators, Control, IdlePoint
<1>2. CASE /\ value[s] = 0
           /\ waiters' = [waiters EXCEPT ![s] = Append(@, t)]
           /\ thread_block(t) /\ Goto(t, "down", s) /\ UNCHANGED value
  <2>1. /\ cur' \in Thread
        /\ ready_list' \in Seq(Thread) /\ IsInjective(ready_list')
        /\ thread_ticks' = 0
        /\ status' \in [Thread -> Status]
        /\ \A u \in Thread : status'[u] = "RUNNING" <=> u = cur'
        /\ \A u \in Thread :
             u \in Range(ready_list') <=> status'[u] = "READY" /\ u # idle_thread
        /\ cur' = idle_thread \/ (cur' # cur /\ status[cur'] = "READY")
        /\ \A u \in Thread \ {cur, cur'} : status'[u] = status[u]
        /\ cur' # cur => status'[cur] = "BLOCKED"
    BY <1>1, <1>2, LeaveEffect, SchedulerAssumption, Zenon DEF thread_block
  <2>2. cur' # t /\ status'[t] = "BLOCKED"
    BY <1>1, <2>1, <1>a, Zenon
  <2>3. /\ waiters' \in [Sema -> Seq(Thread)]
        /\ IsInjective(waiters'[s]) /\ Range(waiters'[s]) = Range(waiters[s]) \cup {t}
        /\ \A r \in Sema \ {s} : waiters'[r] = waiters[r]
    <3>1. /\ waiters[s] \in Seq(Thread) /\ waiters \in [Sema -> Seq(Thread)]
          /\ IsInjective(waiters[s]) /\ t \notin Range(waiters[s])
      BY <1>1, Zenon DEF SchedInv, TypeOK, Queues
    <3>2. waiters'[s] = Append(waiters[s], t)
      BY <1>2, <3>1, Zenon
    <3>3. QED BY <1>2, <3>1, <3>2, PushBack
  <2>4. /\ pc' = [pc EXCEPT ![t] = "down"] /\ arg' = [arg EXCEPT ![t] = s]
        /\ UNCHANGED value
    BY <1>2, Zenon DEF Goto
  <2>5. TypeOK'
    <3>1. pc' \in [Thread -> Point] /\ arg' \in [Thread -> Thread \cup Sema \cup {NULL}]
      BY <2>4, Zenon DEF SchedInv, TypeOK, Point
    <3>2. UNCHANGED value
      BY <2>4, Zenon
    <3>3. /\ cur' \in Thread /\ status' \in [Thread -> Status]
          /\ ready_list' \in Seq(Thread) /\ waiters' \in [Sema -> Seq(Thread)]
          /\ thread_ticks' \in 0..(TIME_SLICE - 1)
      BY <2>1, <2>3, SchedulerAssumption
    <3>4. QED BY <3>1, <3>2, <3>3, Zenon DEF SchedInv, TypeOK
  <2>6. /\ pc'[t] = "down" /\ arg'[t] = s
        /\ \A u \in Thread \ {t} : pc'[u] = pc[u] /\ arg'[u] = arg[u]
    BY <2>4, Zenon DEF SchedInv, TypeOK
  <2>7. \A u \in Thread \ {t} : status'[u] = "BLOCKED" => status[u] = "BLOCKED"
    BY <2>1, Zenon
  <2>8. \A u \in Thread : status[u] = "BLOCKED" /\ u # idle_thread => status'[u] = "BLOCKED"
    BY <1>1, <2>1, Zenon
  <2>9. Queues'
    <3>1. \A u \in Range(sleep_list) : status'[u] = "BLOCKED" /\ pc'[u] = "run"
      BY <1>1, <2>6, <2>8, <1>a, <1>b DEF SchedInv, Queues
    <3>2. \A r \in Sema : IsInjective(waiters'[r])
      BY <2>3, Zenon DEF SchedInv, Queues
    <3>3. \A r \in Sema : \A u \in Range(waiters[r]) :
            status'[u] = "BLOCKED" /\ pc'[u] = "down" /\ arg'[u] = r
      BY <1>1, <2>6, <2>8, <1>a, <1>b DEF SchedInv, Queues
    <3>4. \A r \in Sema : \A u \in Range(waiters'[r]) :
            status'[u] = "BLOCKED" /\ pc'[u] = "down" /\ arg'[u] = r
      BY <2>2, <2>3, <2>6, <3>3
    <3>5. IsInjective(sleep_list)
      BY Zenon DEF SchedInv, Queues
    <3>6. QED BY <2>1, <3>1, <3>2, <3>4, <3>5, Zenon DEF Queues
  <2>10. Creators'
    BY <1>1, <2>6, <2>8, <1>a, <1>c DEF SchedInv, Creators
  <2>11. Blocked'
    <3> SUFFICES ASSUME NEW u \in Thread, status'[u] = "BLOCKED", u # idle_thread
                 PROVE  Wakeable(u)'
      BY Zenon DEF Blocked
    <3>1. CASE u = t
      BY <2>3, <3>1, Zenon DEF Wakeable
    <3>2. CASE u # t
      <4>1. Wakeable(u)
        BY <2>7, <3>2, Zenon DEF SchedInv, Blocked
      <4>2. QED BY <1>1, <2>3, <2>6, <3>2, <4>1, Zenon DEF Wakeable
    <3>3. QED BY <3>1, <3>2, Zenon
  <2>12. Control'
    BY <1>1, <2>1, <2>2, <2>6, <1>a DEF SchedInv, Control, IdlePoint
  <2>13. QED BY <2>5, <2>9, <2>10, <2>11, <2>12, Zenon DEF SchedInv
<1>3. CASE /\ value[s] > 0
           /\ value' = [value EXCEPT ![s] = @ - 1]
           /\ Goto(t, "run", NULL) /\ UNCHANGED <<waiters, sched>>
  <2>1. /\ UNCHANGED <<cur, status, ready_list, thread_ticks, waiters>>
        /\ pc' = [pc EXCEPT ![t] = "run"] /\ arg' = [arg EXCEPT ![t] = NULL]
    BY <1>3, Zenon DEF sched, Goto
  <2>2. TypeOK'
    <3>1. value' \in [Sema -> 0..MaxValue]
      <4>1. value \in [Sema -> 0..MaxValue] /\ MaxValue \in Nat
        BY SchedulerAssumption, Zenon DEF SchedInv, TypeOK
      <4>2. QED BY <1>3, <4>1
    <3>2. pc' \in [Thread -> Point] /\ arg' \in [Thread -> Thread \cup Sema \cup {NULL}]
      BY <2>1, Zenon DEF SchedInv, TypeOK, Point
    <3>3. QED BY <1>3, <2>1, <3>1, <3>2, Zenon DEF SchedInv, TypeOK, sched
  <2>3. /\ pc'[t] = "run" /\ arg'[t] = NULL
        /\ \A u \in Thread \ {t} : pc'[u] = pc[u] /\ arg'[u] = arg[u]
    BY <2>1, Zenon DEF SchedInv, TypeOK
  <2>4. Queues'
    BY <1>1, <2>1, <2>3, <1>a, <1>b DEF SchedInv, Queues
  <2>5. Creators'
    BY <1>1, <2>1, <2>3, <1>a, <1>c DEF SchedInv, Creators
  <2>6. Blocked'
    BY <1>1, <2>1, <2>3 DEF SchedInv, Blocked, Wakeable
  <2>7. Control'
    BY <1>1, <2>1, <2>3, <1>a DEF SchedInv, Control, IdlePoint
  <2>8. QED BY <2>2, <2>4, <2>5, <2>6, <2>7, Zenon DEF SchedInv
<1>4. QED BY <1>2, <1>3, Zenon DEF sema_down

\* sema_up(), whoever calls it: a thread, the idle thread as it starts, or an
\* interrupt handler, which also ends the idle thread's hlt.
LEMMA SemaUpPreserves ==
  ASSUME SchedInv, NEW s \in Sema, sema_up(s),
         UNCHANGED <<sleep_list, alarm_ticks, ticks, idle_thread>>,
         pc' \in [Thread -> Point], arg' \in [Thread -> Thread \cup Sema \cup {NULL}],
         pc'[idle] \in IdlePoint,
         pc'[idle] = "idle_start" <=> pc[idle] = "idle_start",
         \A u \in Thread \ {idle} : pc'[u] = pc[u] /\ arg'[u] = arg[u]
  PROVE  SchedInv'
<1>a. /\ idle \in Thread /\ NULL \notin Thread /\ idle_thread \in {idle, NULL}
      /\ pc[idle] \in IdlePoint
  BY IdleFacts, Zenon
<1>b. /\ Range(sleep_list) \subseteq Thread \ {idle}
      /\ \A r \in Sema : Range(waiters[r]) \subseteq Thread \ {idle}
  BY NotIdleQueued, Zenon
<1>c. \A u \in Thread : pc[u] = "create" => arg[u] \in Thread \ {idle}
  BY NotIdleCreated, Zenon
<1>1. value' \in [Sema -> 0..MaxValue]
  BY SchedulerAssumption DEF SchedInv, TypeOK, sema_up
<1>2. \A u \in Thread : pc[u] = "create" \/ pc'[u] = "create" => u # idle
  BY Zenon DEF SchedInv, Control, IdlePoint
<1>3. pc[idle] \in IdlePoint /\ status[idle] # "NONE"
  BY <1>a, Zenon DEF SchedInv, Control
<1>4. CASE waiters[s] = <<>> /\ UNCHANGED <<waiters, sched>>
  <2>1. UNCHANGED <<cur, status, ready_list, thread_ticks, waiters>>
    BY <1>4, Zenon DEF sched
  <2>2. TypeOK'
    BY <1>1, <2>1, Zenon DEF SchedInv, TypeOK
  <2>3. Queues'
    <3>1. \A u \in Range(sleep_list) : status[u] = "BLOCKED" /\ pc'[u] = "run"
      BY <1>b DEF SchedInv, Queues
    <3>2. \A r \in Sema : \A u \in Range(waiters[r]) :
            status[u] = "BLOCKED" /\ pc'[u] = "down" /\ arg'[u] = r
      BY <1>b DEF SchedInv, Queues
    <3>3. QED BY <2>1, <3>1, <3>2 DEF SchedInv, Queues
  <2>4. Creators'
    BY <1>2, <2>1, <1>a, <1>c DEF SchedInv, Creators
  <2>5. Blocked'
    BY <1>2, <2>1, <1>a DEF SchedInv, Blocked, Wakeable
  <2>6. Control'
    BY <1>3, <2>1, <1>a, Zenon DEF SchedInv, Control, IdlePoint
  <2>7. QED BY <2>2, <2>3, <2>4, <2>5, <2>6, Zenon DEF SchedInv
<1>5. CASE /\ waiters[s] # <<>>
           /\ waiters' = [waiters EXCEPT ![s] = Tail(@)]
           /\ thread_unblock(Head(waiters[s]))
  <2> DEFINE w == Head(waiters[s])
  <2>1. /\ waiters \in [Sema -> Seq(Thread)] /\ waiters[s] \in Seq(Thread)
        /\ IsInjective(waiters[s])
    BY Zenon DEF SchedInv, TypeOK, Queues
  <2>2. /\ w \in Thread /\ w \in Range(waiters[s])
        /\ waiters'[s] = Tail(waiters[s]) /\ Tail(waiters[s]) \in Seq(Thread)
        /\ IsInjective(Tail(waiters[s]))
        /\ Range(Tail(waiters[s])) = Range(waiters[s]) \ {w}
    BY <1>5, <2>1, PopFront, Zenon
  <2>3. /\ waiters' \in [Sema -> Seq(Thread)]
        /\ IsInjective(waiters'[s]) /\ Range(waiters'[s]) = Range(waiters[s]) \ {w}
        /\ \A r \in Sema \ {s} : waiters'[r] = waiters[r]
    BY <1>5, <2>1, <2>2, Zenon
  <2>4. /\ ready_list' = Append(ready_list, w)
        /\ status' = [status EXCEPT ![w] = "READY"]
        /\ UNCHANGED <<cur, thread_ticks>>
    BY <1>5, Zenon DEF thread_unblock
  <2> HIDE DEF w
  <2>5. /\ status[w] = "BLOCKED" /\ pc[w] = "down" /\ arg[w] = s
        /\ w # idle /\ w # cur /\ w \notin Range(ready_list)
    BY <2>2, <1>a, <1>b DEF SchedInv, Queues
  <2>6. /\ ready_list' \in Seq(Thread) /\ IsInjective(ready_list')
        /\ Range(ready_list') = Range(ready_list) \cup {w}
    BY <2>2, <2>4, <2>5, PushBack DEF SchedInv, TypeOK, Queues
  <2>7. /\ status' \in [Thread -> Status] /\ status'[w] = "READY"
        /\ \A u \in Thread \ {w} : status'[u] = status[u]
    BY <2>2, <2>4, Zenon DEF SchedInv, TypeOK, Status
  <2>8. UNCHANGED <<cur, thread_ticks>>
    BY <2>4, Zenon
  <2>9. TypeOK'
    BY <1>1, <2>3, <2>6, <2>7, <2>8, Zenon DEF SchedInv, TypeOK
  <2>10. Queues'
    <3>1. \A u \in Thread : status'[u] = "RUNNING" <=> u = cur
      BY <2>5, <2>7 DEF SchedInv, Queues
    <3>2. \A u \in Thread :
            u \in Range(ready_list') <=> status'[u] = "READY" /\ u # idle_thread
      <4>1. w # idle_thread
        BY <2>2, <2>5, <1>a, Zenon
      <4>2. \A u \in Thread :
              u \in Range(ready_list) <=> status[u] = "READY" /\ u # idle_thread
        BY Zenon DEF SchedInv, Queues
      <4>3. QED BY <2>6, <2>7, <4>1, <4>2, Zenon
    <3>3. \A u \in Range(sleep_list) : status'[u] = "BLOCKED" /\ pc'[u] = "run"
      BY <2>5, <2>7, <1>a, <1>b DEF SchedInv, Queues
    <3>4. \A r \in Sema : IsInjective(waiters'[r])
      BY <2>3, Zenon DEF SchedInv, Queues
    <3>5. \A r \in Sema : \A u \in Range(waiters[r]) : u # w =>
            status'[u] = "BLOCKED" /\ pc'[u] = "down" /\ arg'[u] = r
      BY <2>7, <1>a, <1>b DEF SchedInv, Queues
    <3>6. \A r \in Sema : w \in Range(waiters[r]) => r = s
      BY <2>5 DEF SchedInv, Queues
    <3>7. \A r \in Sema : \A u \in Range(waiters'[r]) :
            status'[u] = "BLOCKED" /\ pc'[u] = "down" /\ arg'[u] = r
      BY <2>3, <3>5, <3>6
    <3>8. IsInjective(sleep_list)
      BY Zenon DEF SchedInv, Queues
    <3>9. QED BY <2>6, <2>8, <3>1, <3>2, <3>3, <3>4, <3>7, <3>8, Zenon DEF Queues
  <2>11. Creators'
    <3>1. \A u \in Thread : pc[u] = "create" => arg[u] # w
      BY <2>5, Zenon DEF SchedInv, Creators
    <3> SUFFICES ASSUME NEW u \in Thread, pc'[u] = "create"
                 PROVE  /\ pc[u] = "create" /\ arg'[u] = arg[u]
                        /\ status'[arg[u]] = "BLOCKED" /\ pc'[arg[u]] = "run"
                        /\ arg[u] \notin Range(sleep_list')
      BY CreatorsKept, Zenon DEF SchedInv
    <3>2. pc[u] = "create" /\ arg'[u] = arg[u]
      BY <1>2, Zenon
    <3>3. PICK v \in Thread \ {idle, w} : v = arg[u]
      BY <1>c, <3>1, <3>2, Zenon
    <3>4. status[v] = "BLOCKED" /\ pc[v] = "run" /\ v \notin Range(sleep_list)
      BY <3>2, <3>3, Zenon DEF SchedInv, Creators
    <3>5. QED BY <1>1, <1>2, <2>7, <3>2, <3>3, <3>4, Zenon
  <2>12. Blocked'
    <3> SUFFICES ASSUME NEW u \in Thread, status'[u] = "BLOCKED", u # idle_thread
                 PROVE  Wakeable(u)'
      BY Zenon DEF Blocked
    <3>1. u # w /\ status[u] = "BLOCKED"
      BY <2>7, Zenon
    <3>2. Wakeable(u)
      BY <3>1, Zenon DEF SchedInv, Blocked
    <3>3. QED BY <1>2, <2>3, <3>1, <3>2, Zenon DEF Wakeable
  <2>13. Control'
    BY <1>3, <2>5, <2>7, <1>a, Zenon DEF SchedInv, Control, IdlePoint
  <2>14. QED BY <2>9, <2>10, <2>11, <2>12, <2>13, Zenon DEF SchedInv
<1>6. QED BY <1>4, <1>5, Zenon DEF sema_up

\* A step of the running thread that leaves the scheduler, the lists and the
\* program counters' protocol alone: sema_try_down() and timer_sleep().
LEMMA LocalPreserves ==
  ASSUME SchedInv, NEW t \in Thread, cur = t, pc[t] = "run",
         UNCHANGED <<cur, status, ready_list, thread_ticks, waiters,
                     sleep_list, ticks, idle_thread>>,
         alarm_ticks' \in [Thread -> Nat], value' \in [Sema -> 0..MaxValue],
         pc' \in [Thread -> Point], arg' \in [Thread -> Thread \cup Sema \cup {NULL}],
         pc'[t] \in {"run", "sleep"},
         \A u \in Thread \ {t} : pc'[u] = pc[u] /\ arg'[u] = arg[u]
  PROVE  SchedInv'
<1>a. /\ idle \in Thread /\ NULL \notin Thread /\ idle_thread \in {idle, NULL}
      /\ pc[idle] \in IdlePoint
  BY IdleFacts, Zenon
<1>b. /\ Range(sleep_list) \subseteq Thread \ {idle}
      /\ \A s \in Sema : Range(waiters[s]) \subseteq Thread \ {idle}
  BY NotIdleQueued, Zenon
<1>c. \A u \in Thread : pc[u] = "create" => arg[u] \in Thread \ {idle}
  BY NotIdleCreated, Zenon
<1>1. /\ t # idle /\ status[t] = "RUNNING"
      /\ \A u \in Range(sleep_list) : u # t
      /\ \A r \in Sema : \A u \in Range(waiters[r]) : u # t
      /\ \A u \in Thread : pc[u] = "create" => u # t /\ arg[u] # t
  BY <1>a, <1>b, <1>c DEF SchedInv, Queues, Creators, Control, IdlePoint
<1>2. TypeOK'
  BY Zenon DEF SchedInv, TypeOK
<1>3. Queues'
  BY <1>1, <1>a, <1>b DEF SchedInv, Queues
<1>4. Creators'
  <2>1. \A u \in Thread : pc'[u] = "create" =>
          /\ u # t /\ pc[u] = "create" /\ arg'[u] = arg[u]
          /\ arg[u] \in Thread \ {t} /\ pc'[arg[u]] = pc[arg[u]]
    BY <1>1, <1>c, Zenon
  <2>2. ASSUME NEW u \in Thread, pc'[u] = "create"
        PROVE  /\ arg'[u] \in Thread /\ status'[arg'[u]] = "BLOCKED" /\ pc'[arg'[u]] = "run"
               /\ arg'[u] \notin Range(sleep_list')
    <3>1. pc[u] = "create" /\ arg'[u] = arg[u] /\ pc'[arg[u]] = pc[arg[u]]
      BY <2>1, <2>2, Zenon
    <3>2. /\ arg[u] \in Thread /\ status[arg[u]] = "BLOCKED" /\ pc[arg[u]] = "run"
          /\ arg[u] \notin Range(sleep_list)
      BY <3>1, Zenon DEF SchedInv, Creators
    <3>3. QED BY <3>1, <3>2, Zenon
  <2>3. ASSUME NEW u \in Thread, pc'[u] = "create",
               NEW v \in Thread, pc'[v] = "create", arg'[v] = arg'[u]
        PROVE  v = u
    <3>1. pc[u] = "create" /\ pc[v] = "create" /\ arg[v] = arg[u]
      BY <2>1, <2>3, Zenon
    <3>2. QED BY <3>1, Zenon DEF SchedInv, Creators
  <2>4. QED BY <2>2, <2>3, Zenon DEF Creators
<1>5. Blocked'
  BY <1>1 DEF SchedInv, Blocked, Wakeable
<1>6. Control'
  BY <1>1, <1>a, Zenon DEF SchedInv, Control, IdlePoint
<1>7. QED BY <1>2, <1>3, <1>4, <1>5, <1>6, Zenon DEF SchedInv

\* sema_try_down() of the running thread.
LEMMA TryDownPreserves ==
  ASSUME SchedInv, NEW t \in Thread, NEW s \in Sema, sema_try_down(t, s)
  PROVE  SchedInv'
<1>1. /\ cur = t /\ pc[t] = "run" /\ value[s] > 0
      /\ value' = [value EXCEPT ![s] = @ - 1]
      /\ UNCHANGED <<cur, status, ready_list, thread_ticks, waiters, sleep_list,
                     alarm_ticks, ticks, idle_thread, pc, arg>>
  BY Zenon DEF sema_try_down, At, sched, clock, local
<1>2. value' \in [Sema -> 0..MaxValue]
  BY <1>1, SchedulerAssumption DEF SchedInv, TypeOK
<1>3. /\ alarm_ticks \in [Thread -> Nat] /\ pc \in [Thread -> Point]
      /\ arg \in [Thread -> Thread \cup Sema \cup {NULL}]
  BY Zenon DEF SchedInv, TypeOK
<1>4. QED BY <1>1, <1>2, <1>3, LocalPreserves, Zenon

\* The first half of timer_sleep(), which sets the alarm.
LEMMA TimerSleepPreserves ==
  ASSUME SchedInv, NEW t \in Thread, NEW n \in Delays, timer_sleep(t, n)
  PROVE  SchedInv'
<1>1. /\ cur = t /\ pc[t] = "run"
      /\ alarm_ticks' = [alarm_ticks EXCEPT ![t] = ticks + n]
      /\ pc' = [pc EXCEPT ![t] = "sleep"] /\ arg' = [arg EXCEPT ![t] = NULL]
      /\ UNCHANGED <<cur, status, ready_list, thread_ticks, waiters, sleep_list,
                     ticks, idle_thread, value>>
  BY Zenon DEF timer_sleep, At, Goto, sched, semas
<1>2. ticks + n \in Nat
  BY SchedulerAssumption DEF SchedInv, TypeOK
<1>3. /\ alarm_ticks' \in [Thread -> Nat] /\ pc' \in [Thread -> Point]
      /\ arg' \in [Thread -> Thread \cup Sema \cup {NULL}]
      /\ value \in [Sema -> 0..MaxValue]
  BY <1>1, <1>2, Zenon DEF SchedInv, TypeOK, Point
<1>4. /\ pc'[t] = "sleep"
      /\ \A u \in Thread \ {t} : pc'[u] = pc[u] /\ arg'[u] = arg[u]
  BY <1>1, Zenon DEF SchedInv, TypeOK
<1>5. QED BY <1>1, <1>3, <1>4, LocalPreserves, Zenon

----------------------------------------------------------------------------
\* The second half of timer_sleep(): the thread enters the sleep list.
LEMMA SleepPreserves ==
  ASSUME SchedInv, NEW t \in Thread, thread_sleep(t)
  PROVE  SchedInv'
<1>a. /\ idle \in Thread /\ NULL \notin Thread /\ idle_thread \in {idle, NULL}
      /\ pc[idle] \in IdlePoint
  BY IdleFacts, Zenon
<1>b. /\ Range(sleep_list) \subseteq Thread \ {idle}
      /\ \A s \in Sema : Range(waiters[s]) \subseteq Thread \ {idle}
  BY NotIdleQueued, Zenon
<1>c. \A u \in Thread : pc[u] = "create" => arg[u] \in Thread \ {idle}
  BY NotIdleCreated, Zenon
<1>1. /\ cur = t /\ pc[t] = "sleep"
      /\ insert_ordered(t)
      /\ schedule(ready_list, [status EXCEPT ![t] = "BLOCKED"])
      /\ pc' = [pc EXCEPT ![t] = "run"] /\ arg' = [arg EXCEPT ![t] = NULL]
      /\ UNCHANGED <<alarm_ticks, ticks, value, waiters, idle_thread>>
  BY Zenon DEF thread_sleep, At, Goto, semas
<1>2. /\ t # idle /\ status[t] = "RUNNING"
      /\ t \notin Range(sleep_list)
      /\ \A r \in Sema : \A u \in Range(waiters[r]) : u # t
      /\ \A u \in Thread : pc[u] = "create" => u # t /\ arg[u] # t
  <2>1. t # idle /\ status[t] = "RUNNING"
    BY <1>1, <1>a, Zenon DEF SchedInv, Queues, IdlePoint
  <2>2. \A u \in Thread : pc[u] = "create" => u # t /\ arg[u] # t
    BY <1>1, <2>1, Zenon DEF SchedInv, Creators
  <2>3. t \notin Range(sleep_list)
    <3> SUFFICES ASSUME t \in Range(sleep_list) PROVE FALSE
      BY Zenon
    <3>1. status[t] = "BLOCKED"
      BY Waiting, Zenon
    <3>2. QED BY <2>1, <3>1, Zenon
  <2>4. ASSUME NEW r \in Sema, NEW u \in Range(waiters[r]) PROVE u # t
    <3>1. status[u] = "BLOCKED"
      BY Waiting, Zenon
    <3>2. QED BY <2>1, <3>1, Zenon
  <2>5. QED BY <2>1, <2>2, <2>3, <2>4, Zenon
<1>3. /\ cur' \in Thread
      /\ ready_list' \in Seq(Thread) /\ IsInjective(ready_list')
      /\ thread_ticks' = 0
      /\ status' \in [Thread -> Status]
      /\ \A u \in Thread : status'[u] = "RUNNING" <=> u = cur'
      /\ \A u \in Thread :
           u \in Range(ready_list') <=> status'[u] = "READY" /\ u # idle_thread
      /\ cur' = idle_thread \/ (cur' # cur /\ status[cur'] = "READY")
      /\ \A u \in Thread \ {cur, cur'} : status'[u] = status[u]
      /\ cur' # cur => status'[cur] = "BLOCKED"
  BY <1>1, <1>2, LeaveEffect, SchedulerAssumption, Zenon
<1>4. cur' # t /\ status'[t] = "BLOCKED"
  BY <1>1, <1>2, <1>3, <1>a, Zenon
<1>5. /\ sleep_list' \in Seq(Thread) /\ IsInjective(sleep_list')
      /\ Range(sleep_list') = Range(sleep_list) \cup {t}
  BY <1>1, <1>2, InsertOrdered, Zenon
<1>6. UNCHANGED <<waiters, idle_thread>>
  BY <1>1, Zenon
<1>7. TypeOK'
  <2>1. pc' \in [Thread -> Point] /\ arg' \in [Thread -> Thread \cup Sema \cup {NULL}]
    BY <1>1, Zenon DEF SchedInv, TypeOK, Point
  <2>2. UNCHANGED <<alarm_ticks, ticks, value, waiters, idle_thread>>
    BY <1>1, Zenon
  <2>3. QED BY <1>3, <1>5, <2>1, <2>2, SchedulerAssumption DEF SchedInv, TypeOK
<1>8. /\ pc'[t] = "run"
      /\ \A u \in Thread \ {t} : pc'[u] = pc[u] /\ arg'[u] = arg[u]
  BY <1>1, Zenon DEF SchedInv, TypeOK
<1>9. \A u \in Thread \ {t} : status'[u] = "BLOCKED" => status[u] = "BLOCKED"
  BY <1>1, <1>3, Zenon
<1>10. \A u \in Thread : status[u] = "BLOCKED" /\ u # idle_thread => status'[u] = "BLOCKED"
  BY <1>1, <1>2, <1>3, Zenon
<1>11. Queues'
  <2>1. \A u \in Range(sleep_list') : status'[u] = "BLOCKED" /\ pc'[u] = "run"
    <3> SUFFICES ASSUME NEW u \in Range(sleep_list) PROVE status'[u] = "BLOCKED" /\ pc'[u] = "run"
      BY <1>4, <1>5, <1>8, Zenon
    <3>1. u \in Thread /\ u # idle_thread /\ status[u] = "BLOCKED" /\ pc[u] = "run" /\ u # t
      BY <1>2, Waiting, Zenon
    <3>2. QED BY <1>8, <1>10, <3>1, Zenon
  <2>2. \A r \in Sema : \A u \in Range(waiters[r]) :
          status'[u] = "BLOCKED" /\ pc'[u] = "down" /\ arg'[u] = r
    <3> TAKE r \in Sema
    <3> TAKE u \in Range(waiters[r])
    <3>1. /\ u \in Thread /\ u # idle_thread /\ u # t
          /\ status[u] = "BLOCKED" /\ pc[u] = "down" /\ arg[u] = r
      BY <1>2, Waiting, Zenon
    <3>2. QED BY <1>8, <1>10, <3>1, Zenon
  <2>3. QED BY <1>3, <1>5, <1>6, <2>1, <2>2, Zenon DEF SchedInv, Queues
<1>12. Creators'
  <2> SUFFICES ASSUME NEW u \in Thread, pc'[u] = "create"
               PROVE  /\ pc[u] = "create" /\ arg'[u] = arg[u]
                      /\ status'[arg[u]] = "BLOCKED" /\ pc'[arg[u]] = "run"
                      /\ arg[u] \notin Range(sleep_list')
    BY CreatorsKept, Zenon DEF SchedInv
  <2>1. u # t /\ pc[u] = "create" /\ arg'[u] = arg[u]
    BY <1>8, Zenon
  <2>2. PICK v \in Thread \ {t, idle} : v = arg[u]
    BY <1>2, <1>c, <2>1, Zenon
  <2>3. status[v] = "BLOCKED" /\ pc[v] = "run" /\ v \notin Range(sleep_list) /\ v # idle_thread
    BY <1>a, <2>1, <2>2, Zenon DEF SchedInv, Creators
  <2>4. QED BY <1>5, <1>8, <1>10, <2>1, <2>2, <2>3, Zenon
<1>13. Blocked'
  <2> SUFFICES ASSUME NEW u \in Thread, status'[u] = "BLOCKED", u # idle_thread PROVE Wakeable(u)'
    BY <1>6, Zenon DEF Blocked
  <2>1. CASE u = t
    BY <1>5, <2>1, Zenon DEF Wakeable
  <2>2. CASE u # t
    <3>1. Wakeable(u)
      BY <1>9, <2>2, Zenon DEF SchedInv, Blocked
    <3>2. \A v \in Thread : pc[v] = "create" => pc'[v] = "create" /\ arg'[v] = arg[v]
      BY <1>2, <1>8, Zenon
    <3>3. QED BY <1>5, <1>6, <3>1, <3>2, WakeableKept, Zenon
  <2>3. QED BY <2>1, <2>2, Zenon
<1>14. Control'
  <2>1. \A u \in Thread : pc'[u] \in IdlePoint <=> u = idle
    BY <1>2, <1>8, Zenon DEF SchedInv, Control, IdlePoint
  <2>2. \A u \in Thread : (pc'[u] = "down" => arg'[u] \in Sema) /\ (status'[u] = "NONE" => pc'[u] = "run")
    BY <1>2, <1>3, <1>4, <1>8 DEF SchedInv, Control
  <2>3. pc'[idle] = pc[idle] /\ status'[idle] \in {"RUNNING", "READY", "BLOCKED"}
    BY <1>2, <1>3, <1>8, <1>a DEF SchedInv, Control
  <2>4. QED BY <1>2, <1>3, <1>4, <1>6, <2>1, <2>2, <2>3, <1>a DEF SchedInv, Control
<1>15. QED BY <1>7, <1>11, <1>12, <1>13, <1>14, Zenon DEF SchedInv

\* timer_interrupt(): the due sleepers become ready and the running thread may
\* have to yield.
LEMMA TimerPreserves ==
  ASSUME SchedInv, timer_interrupt
  PROVE  SchedInv'
<1>a. /\ idle \in Thread /\ NULL \notin Thread /\ idle_thread \in {idle, NULL}
      /\ pc[idle] \in IdlePoint
  BY IdleFacts, Zenon
<1>b. /\ Range(sleep_list) \subseteq Thread \ {idle}
      /\ \A s \in Sema : Range(waiters[s]) \subseteq Thread \ {idle}
  BY NotIdleQueued, Zenon
<1>c. \A u \in Thread : pc[u] = "create" => arg[u] \in Thread \ {idle}
  BY NotIdleCreated, Zenon
<1>1. PICK n \in 0..Len(sleep_list) :
        LET aw == SubSeq(sleep_list, 1, n)
            rl == ready_list \o aw
            st == [t \in Thread |-> IF t \in Range(aw) THEN "READY" ELSE status[t]]
        IN
        /\ ticks' = IF ticks < MaxTicks THEN ticks + 1 ELSE ticks
        /\ sleep_list' = SubSeq(sleep_list, n + 1, Len(sleep_list))
        /\ IF thread_ticks + 1 >= TIME_SLICE
             THEN yield(cur, rl, st)
             ELSE /\ ready_list' = rl /\ status' = st
                  /\ thread_ticks' = thread_ticks + 1 /\ UNCHANGED cur
        /\ WakeIdle
        /\ UNCHANGED <<alarm_ticks, semas, arg, idle_thread>>
  BY Zenon DEF timer_interrupt, thread_tick, thread_awake
<1> DEFINE aw == SubSeq(sleep_list, 1, n)
           rl == ready_list \o aw
           st == [t \in Thread |-> IF t \in Range(aw) THEN "READY" ELSE status[t]]
<1>2. /\ sleep_list' = SubSeq(sleep_list, n + 1, Len(sleep_list))
      /\ IF thread_ticks + 1 >= TIME_SLICE
           THEN yield(cur, rl, st)
           ELSE /\ ready_list' = rl /\ status' = st
                /\ thread_ticks' = thread_ticks + 1 /\ UNCHANGED cur
      /\ WakeIdle
      /\ UNCHANGED <<alarm_ticks, value, waiters, arg, idle_thread>>
  BY <1>1, Zenon DEF semas
<1>3. ticks' \in 0..MaxTicks
  BY <1>1, SchedulerAssumption DEF SchedInv, TypeOK
<1>4. sleep_list \in Seq(Thread) /\ IsInjective(sleep_list)
      /\ ready_list \in Seq(Thread) /\ IsInjective(ready_list)
      /\ cur \in Thread /\ status \in [Thread -> Status]
  BY Zenon DEF SchedInv, TypeOK, Queues
<1>5. /\ aw \in Seq(Thread) /\ IsInjective(aw)
      /\ sleep_list' \in Seq(Thread) /\ IsInjective(sleep_list')
      /\ Range(aw) \cup Range(sleep_list') = Range(sleep_list)
      /\ Range(aw) \cap Range(sleep_list') = {}
  BY <1>2, <1>4, Split, Zenon
<1>6. st \in [Thread -> Status]
      /\ \A u \in Thread : st[u] = IF u \in Range(aw) THEN "READY" ELSE status[u]
  BY <1>4, Zenon DEF Status
<1> HIDE DEF aw, st
<1>7. \A u \in Range(aw) : u \in Thread \ {idle} /\ status[u] = "BLOCKED" /\ pc[u] = "run"
  BY <1>5, <1>a, <1>b, Zenon DEF SchedInv, Queues
<1>8. /\ rl \in Seq(Thread) /\ IsInjective(rl)
      /\ Range(rl) = Range(ready_list) \cup Range(aw)
  <2>1. Range(ready_list) \cap Range(aw) = {}
    BY <1>7, Zenon DEF SchedInv, Queues
  <2>2. QED BY <1>4, <1>5, <2>1, Join
<1> HIDE DEF rl
<1>9. \A u \in Thread : st[u] = "RUNNING" <=> u = cur
  BY <1>6, <1>7 DEF SchedInv, Queues
<1>10. \A u \in Thread : u \in Range(rl) <=> st[u] = "READY" /\ u # idle_thread
  <2>1. \A u \in Thread :
          u \in Range(ready_list) <=> status[u] = "READY" /\ u # idle_thread
    BY Zenon DEF SchedInv, Queues
  <2>2. \A u \in Range(aw) : u # idle_thread
    BY <1>7, <1>a, Zenon
  <2>3. QED BY <1>6, <1>8, <2>1, <2>2, Zenon
<1>11. /\ st[idle] = status[idle] /\ st[idle] \in {"RUNNING", "READY", "BLOCKED"}
       /\ idle_thread = NULL => st[idle] # "BLOCKED"
       /\ idle_thread = NULL /\ cur # idle => st[idle] = "READY"
  BY <1>6, <1>7, <1>9, <1>a, Zenon DEF SchedInv, Control
<1>12. /\ cur' \in Thread
       /\ ready_list' \in Seq(Thread) /\ IsInjective(ready_list')
       /\ thread_ticks' \in 0..(TIME_SLICE - 1)
       /\ status' \in [Thread -> Status]
       /\ \A u \in Thread : status'[u] = "RUNNING" <=> u = cur'
       /\ \A u \in Thread :
            u \in Range(ready_list') <=> status'[u] = "READY" /\ u # idle_thread
       /\ cur' = idle_thread \/ cur' = cur \/ st[cur'] = "READY"
       /\ \A u \in Thread \ {cur, cur'} : status'[u] = st[u]
       /\ cur' # cur => status'[cur] = "READY"
  <2>1. CASE yield(cur, rl, st)
    <3>1. /\ cur' \in Thread
          /\ ready_list' \in Seq(Thread) /\ IsInjective(ready_list')
          /\ thread_ticks' = 0
          /\ status' \in [Thread -> Status]
          /\ \A t \in Thread : status'[t] = "RUNNING" <=> t = cur'
          /\ \A t \in Thread :
               t \in Range(ready_list') <=> status'[t] = "READY" /\ t # idle_thread
          /\ cur' = idle_thread \/ cur' = cur \/ st[cur'] = "READY"
          /\ \A t \in Thread \ {cur, cur'} : status'[t] = st[t]
          /\ cur' # cur => status'[cur] = "READY"
      BY <1>4, <1>6, <1>8, <1>9, <1>10, <1>11, <2>1, YieldEffect, <1>a, SchedulerAssumption, Zenon
    <3>2. thread_ticks' \in 0..(TIME_SLICE - 1)
      BY <3>1, SchedulerAssumption
    <3>3. QED BY <3>1, <3>2, Zenon
  <2>2. CASE /\ ready_list' = rl /\ status' = st
             /\ thread_ticks' = thread_ticks + 1 /\ UNCHANGED cur
             /\ ~ (thread_ticks + 1 >= TIME_SLICE)
    <3>1. thread_ticks' \in 0..(TIME_SLICE - 1)
      BY <2>2, SchedulerAssumption DEF SchedInv, TypeOK
    <3>2. QED BY <1>4, <1>6, <1>8, <1>9, <1>10, <2>2, <3>1, Zenon
  <2>3. QED BY <1>2, <2>1, <2>2, Zenon
<1>13. /\ pc' \in [Thread -> Point]
       /\ pc'[idle] \in IdlePoint
       /\ pc'[idle] = "idle_start" <=> pc[idle] = "idle_start"
       /\ \A u \in Thread \ {idle} : pc'[u] = pc[u]
  BY <1>2, WakeIdleEffect, Zenon
<1>14. UNCHANGED <<alarm_ticks, value, waiters, arg, idle_thread>>
  BY <1>2, Zenon
<1>15. /\ \A u \in Thread : status'[u] = "BLOCKED" => status[u] = "BLOCKED" /\ u \notin Range(aw)
       /\ \A u \in Thread : status'[u] = "NONE" => status[u] = "NONE"
  BY <1>6, <1>9, <1>12, Zenon
<1>16. \A u \in Thread \ Range(aw) :
         status[u] = "BLOCKED" /\ u # idle_thread => status'[u] = "BLOCKED"
  BY <1>6, <1>9, <1>12, Zenon
<1>17. TypeOK'
  <2>1. /\ cur' \in Thread /\ status' \in [Thread -> Status]
        /\ ready_list' \in Seq(Thread) /\ sleep_list' \in Seq(Thread)
        /\ thread_ticks' \in 0..(TIME_SLICE - 1) /\ pc' \in [Thread -> Point]
    BY <1>5, <1>12, <1>13, Zenon
  <2>2. QED BY <1>3, <1>14, <2>1, Zenon DEF SchedInv, TypeOK
<1>18. Queues'
  <2>1. \A u \in Range(sleep_list') : status'[u] = "BLOCKED" /\ pc'[u] = "run"
    <3> TAKE u \in Range(sleep_list')
    <3>1. u \in Range(sleep_list) /\ u \notin Range(aw)
      BY <1>5, Zenon
    <3>2. u \in Thread \ {idle} /\ u # idle_thread /\ status[u] = "BLOCKED" /\ pc[u] = "run"
      BY <3>1, Waiting, Zenon
    <3>3. QED BY <1>13, <1>16, <3>1, <3>2, Zenon
  <2>2. \A r \in Sema : \A u \in Range(waiters[r]) :
          status'[u] = "BLOCKED" /\ pc'[u] = "down" /\ arg[u] = r
    <3> TAKE r \in Sema
    <3> TAKE u \in Range(waiters[r])
    <3>1. /\ u \in Thread \ {idle} /\ u # idle_thread
          /\ status[u] = "BLOCKED" /\ pc[u] = "down" /\ arg[u] = r
      BY Waiting, Zenon
    <3>2. u \notin Range(aw)
      BY <1>7, <3>1, Zenon
    <3>3. QED BY <1>13, <1>16, <3>1, <3>2, Zenon
  <2>3. QED BY <1>5, <1>12, <1>14, <2>1, <2>2 DEF SchedInv, Queues
<1>19. Creators'
  <2>1. \A u \in Thread : pc'[u] = "create" => u # idle /\ pc[u] = "create"
    BY <1>13, Zenon DEF IdlePoint
  <2>2. \A u \in Thread : pc[u] = "create" => arg[u] \in Thread \ Range(aw)
    BY <1>5, Zenon DEF SchedInv, Creators
  <2> SUFFICES ASSUME NEW u \in Thread, pc'[u] = "create"
               PROVE  /\ pc[u] = "create" /\ arg'[u] = arg[u]
                      /\ status'[arg[u]] = "BLOCKED" /\ pc'[arg[u]] = "run"
                      /\ arg[u] \notin Range(sleep_list')
    BY CreatorsKept, Zenon DEF SchedInv
  <2>3. PICK v \in Thread \ {idle} : v = arg[u] /\ v \notin Range(aw)
    BY <1>c, <2>1, <2>2, Zenon
  <2>4. status[v] = "BLOCKED" /\ pc[v] = "run" /\ v \notin Range(sleep_list)
    BY <2>1, <2>3, Zenon DEF SchedInv, Creators
  <2>a. v # idle_thread
    BY <1>a, <2>3, Zenon
  <2>5. QED BY <1>5, <1>13, <1>14, <1>16, <2>1, <2>3, <2>4, <2>a, Zenon
<1>20. Blocked'
  <2>1. \A u \in Thread : pc[u] = "create" => pc'[u] = "create"
    BY <1>13, Zenon DEF SchedInv, Control, IdlePoint
  <2>2. QED BY <1>5, <1>14, <1>15, <2>1, Zenon DEF SchedInv, Blocked, Wakeable
<1>21. Control'
  <2>1. /\ status'[idle] \in {"RUNNING", "READY", "BLOCKED"}
        /\ idle_thread = NULL => status'[idle] # "BLOCKED"
    BY <1>11, <1>12, <1>a, Zenon
  <2>2. /\ \A u \in Thread : pc'[u] = "down" => arg[u] \in Sema
        /\ \A u \in Thread : pc'[u] \in IdlePoint <=> u = idle
        /\ idle_thread = NULL <=> pc'[idle] = "idle_start"
    BY <1>13, <1>a, Zenon DEF SchedInv, Control, IdlePoint
  <2>3. \A u \in Thread : status'[u] = "NONE" => pc'[u] = "run"
    BY <1>13, <1>15, <2>1, Zenon DEF SchedInv, Control
  <2>4. QED BY <1>14, <2>1, <2>2, <2>3, Zenon DEF Control
<1>22. QED BY <1>17, <1>18, <1>19, <1>20, <1>21, Zenon DEF SchedInv

\* The first step of idle(), which makes the idle thread known by name.
LEMMA IdleInitPreserves ==
  ASSUME SchedInv, idle_init
  PROVE  SchedInv'
<1>a. /\ idle \in Thread /\ NULL \notin Thread /\ idle_thread \in {idle, NULL}
      /\ pc[idle] \in IdlePoint
  BY IdleFacts, Zenon
<1>b. /\ Range(sleep_list) \subseteq Thread \ {idle}
      /\ \A s \in Sema : Range(waiters[s]) \subseteq Thread \ {idle}
  BY NotIdleQueued, Zenon
<1>c. \A u \in Thread : pc[u] = "create" => arg[u] \in Thread \ {idle}
  BY NotIdleCreated, Zenon
<1>1. /\ cur = idle /\ pc[idle] = "idle_start" /\ idle_thread' = idle
      /\ pc' = [pc EXCEPT ![idle] = "idle_up"] /\ arg' = [arg EXCEPT ![idle] = NULL]
      /\ UNCHANGED <<cur, status, ready_list, thread_ticks, sleep_list, alarm_ticks,
                     ticks, value, waiters>>
  BY Zenon DEF idle_init, At, Goto, sched, clock, semas
<1>2. /\ status[idle] = "RUNNING" /\ idle \in Thread /\ idle # NULL
      /\ idle_thread = NULL
  BY <1>1, <1>a, <1>b, Zenon DEF SchedInv, Queues, Control
<1>3. /\ pc' \in [Thread -> Point] /\ arg' \in [Thread -> Thread \cup Sema \cup {NULL}]
      /\ pc'[idle] = "idle_up"
      /\ \A u \in Thread \ {idle} : pc'[u] = pc[u] /\ arg'[u] = arg[u]
  BY <1>1, <1>2, Zenon DEF SchedInv, TypeOK, Point
<1>4. /\ idle_thread' = idle
      /\ UNCHANGED <<cur, status, ready_list, thread_ticks, sleep_list, alarm_ticks,
                     ticks, value, waiters>>
  BY <1>1, Zenon
<1>5. \A u \in Thread : pc[u] = "create" \/ pc'[u] = "create" => u # idle
  BY <1>1, <1>3, Zenon
<1>6. TypeOK'
  BY <1>3, <1>4, Zenon DEF SchedInv, TypeOK
<1>7. Queues'
  <2>1. \A u \in Range(sleep_list) : status[u] = "BLOCKED" /\ pc'[u] = "run"
    <3> TAKE u \in Range(sleep_list)
    <3>1. u \in Thread \ {idle} /\ status[u] = "BLOCKED" /\ pc[u] = "run"
      BY Waiting, Zenon
    <3>2. QED BY <1>3, <3>1, Zenon
  <2>2. \A r \in Sema : \A u \in Range(waiters[r]) :
          status[u] = "BLOCKED" /\ pc'[u] = "down" /\ arg'[u] = r
    <3> TAKE r \in Sema
    <3> TAKE u \in Range(waiters[r])
    <3>1. u \in Thread \ {idle} /\ status[u] = "BLOCKED" /\ pc[u] = "down" /\ arg[u] = r
      BY Waiting, Zenon
    <3>2. QED BY <1>3, <3>1, Zenon
  <2>3. \A u \in Thread : u \in Range(ready_list) <=> status[u] = "READY" /\ u # idle
    <3>1. \A u \in Thread : u \in Range(ready_list) <=> status[u] = "READY" /\ u # idle_thread
      BY Zenon DEF SchedInv, Queues
    <3>2. QED BY <1>2, <1>a, <3>1
  <2>4. /\ \A u \in Range(sleep_list') : status'[u] = "BLOCKED" /\ pc'[u] = "run"
        /\ \A r \in Sema : \A u \in Range(waiters'[r]) :
             status'[u] = "BLOCKED" /\ pc'[u] = "down" /\ arg'[u] = r
        /\ \A u \in Thread : u \in Range(ready_list') <=> status'[u] = "READY" /\ u # idle_thread'
    BY <1>4, <2>1, <2>2, <2>3
  <2>5. QED BY <1>4, <2>4, Zenon DEF SchedInv, Queues
<1>8. Creators'
  <2> SUFFICES ASSUME NEW u \in Thread, pc'[u] = "create"
               PROVE  /\ pc[u] = "create" /\ arg'[u] = arg[u]
                      /\ status'[arg[u]] = "BLOCKED" /\ pc'[arg[u]] = "run"
                      /\ arg[u] \notin Range(sleep_list')
    BY CreatorsKept, Zenon DEF SchedInv
  <2>1. pc[u] = "create" /\ arg'[u] = arg[u]
    BY <1>3, <1>5, Zenon
  <2>2. PICK v \in Thread \ {idle} : v = arg[u]
    BY <1>c, <2>1, Zenon
  <2>3. status[v] = "BLOCKED" /\ pc[v] = "run" /\ v \notin Range(sleep_list)
    BY <2>1, <2>2, Zenon DEF SchedInv, Creators
  <2>4. QED BY <1>3, <1>4, <2>1, <2>2, <2>3, Zenon
<1>9. Blocked'
  <2>1. \A u \in Thread : status[u] = "BLOCKED" =>
          Wakeable(u)
    BY <1>2, <1>a, Zenon DEF SchedInv, Blocked
  <2>2. \A u \in Thread : pc[u] = "create" => pc'[u] = "create" /\ arg'[u] = arg[u]
    BY <1>3, <1>5, Zenon
  <2>3. ASSUME NEW u \in Thread, status[u] = "BLOCKED" PROVE Wakeable(u)'
    BY <1>4, <2>1, <2>2, <2>3, WakeableKept, Zenon
  <2>4. QED BY <1>4, <2>3, Zenon DEF Blocked
<1>10. Control'
  BY <1>2, <1>3, <1>4, Zenon DEF SchedInv, Control, IdlePoint
<1>11. QED BY <1>6, <1>7, <1>8, <1>9, <1>10, Zenon DEF SchedInv

\* The idle loop blocks; the CPU may come straight back to it.
LEMMA IdleLoopPreserves ==
  ASSUME SchedInv, idle_loop
  PROVE  SchedInv'
<1>a. /\ idle \in Thread /\ NULL \notin Thread /\ idle_thread \in {idle, NULL}
      /\ pc[idle] \in IdlePoint
  BY IdleFacts, Zenon
<1>b. /\ Range(sleep_list) \subseteq Thread \ {idle}
      /\ \A s \in Sema : Range(waiters[s]) \subseteq Thread \ {idle}
  BY NotIdleQueued, Zenon
<1>c. \A u \in Thread : pc[u] = "create" => arg[u] \in Thread \ {idle}
  BY NotIdleCreated, Zenon
<1>1. /\ cur = idle /\ pc[idle] = "loop"
      /\ schedule(ready_list, [status EXCEPT ![cur] = "BLOCKED"])
      /\ pc' = [pc EXCEPT ![idle] = "hlt"] /\ arg' = [arg EXCEPT ![idle] = NULL]
      /\ UNCHANGED <<sleep_list, alarm_ticks, ticks, value, waiters, idle_thread>>
  BY Zenon DEF idle_loop, thread_block, At, Goto, clock, semas
<1>2. /\ idle_thread = idle /\ idle \in Thread /\ idle # NULL
  BY <1>1, <1>a, Zenon DEF SchedInv, Control
<1>3. /\ cur' \in Thread
      /\ ready_list' \in Seq(Thread) /\ IsInjective(ready_list')
      /\ thread_ticks' = 0
      /\ status' \in [Thread -> Status]
      /\ \A u \in Thread : status'[u] = "RUNNING" <=> u = cur'
      /\ \A u \in Thread :
           u \in Range(ready_list') <=> status'[u] = "READY" /\ u # idle_thread
      /\ cur' = idle_thread \/ (cur' # cur /\ status[cur'] = "READY")
      /\ \A u \in Thread \ {cur, cur'} : status'[u] = status[u]
      /\ cur' # cur => status'[cur] = "BLOCKED"
  BY <1>1, <1>2, LeaveEffect, SchedulerAssumption, Zenon
<1>4. /\ pc' \in [Thread -> Point] /\ arg' \in [Thread -> Thread \cup Sema \cup {NULL}]
      /\ pc'[idle] = "hlt"
      /\ \A u \in Thread \ {idle} : pc'[u] = pc[u] /\ arg'[u] = arg[u]
  BY <1>1, <1>2, Zenon DEF SchedInv, TypeOK, Point
<1>5. cur = idle /\ UNCHANGED <<sleep_list, alarm_ticks, ticks, value, waiters, idle_thread>>
  BY <1>1, Zenon
<1>6. /\ \A u \in Thread \ {idle} :
           /\ status'[u] = "BLOCKED" <=> status[u] = "BLOCKED"
           /\ status'[u] = "NONE" <=> status[u] = "NONE"
      /\ status'[idle] \in {"RUNNING", "BLOCKED"}
  BY <1>2, <1>3, <1>5, Zenon
<1>7. \A u \in Thread : pc[u] = "create" \/ pc'[u] = "create" => u # idle
  BY <1>1, <1>4, Zenon
<1>8. TypeOK'
  <2>1. thread_ticks' \in 0..(TIME_SLICE - 1)
    BY <1>3, SchedulerAssumption
  <2>2. QED BY <1>3, <1>4, <1>5, <2>1, Zenon DEF SchedInv, TypeOK
<1>9. Queues'
  <2>1. \A u \in Range(sleep_list) : status'[u] = "BLOCKED" /\ pc'[u] = "run"
    <3> TAKE u \in Range(sleep_list)
    <3>1. u \in Thread \ {idle} /\ status[u] = "BLOCKED" /\ pc[u] = "run"
      BY Waiting, Zenon
    <3>2. QED BY <1>4, <1>6, <3>1, Zenon
  <2>2. \A r \in Sema : \A u \in Range(waiters[r]) :
          status'[u] = "BLOCKED" /\ pc'[u] = "down" /\ arg'[u] = r
    <3> TAKE r \in Sema
    <3> TAKE u \in Range(waiters[r])
    <3>1. u \in Thread \ {idle} /\ status[u] = "BLOCKED" /\ pc[u] = "down" /\ arg[u] = r
      BY Waiting, Zenon
    <3>2. QED BY <1>4, <1>6, <3>1, Zenon
  <2>3. QED BY <1>3, <1>5, <2>1, <2>2 DEF SchedInv, Queues
<1>10. Creators'
  <2> SUFFICES ASSUME NEW u \in Thread, pc'[u] = "create"
               PROVE  /\ pc[u] = "create" /\ arg'[u] = arg[u]
                      /\ status'[arg[u]] = "BLOCKED" /\ pc'[arg[u]] = "run"
                      /\ arg[u] \notin Range(sleep_list')
    BY CreatorsKept, Zenon DEF SchedInv
  <2>1. pc[u] = "create" /\ arg'[u] = arg[u]
    BY <1>4, <1>7, Zenon
  <2>2. PICK v \in Thread \ {idle} : v = arg[u]
    BY <1>c, <2>1, Zenon
  <2>3. status[v] = "BLOCKED" /\ pc[v] = "run" /\ v \notin Range(sleep_list)
    BY <2>1, <2>2, Zenon DEF SchedInv, Creators
  <2>4. QED BY <1>4, <1>5, <1>6, <2>1, <2>2, <2>3, Zenon
<1>11. Blocked'
  <2> SUFFICES ASSUME NEW u \in Thread, status'[u] = "BLOCKED", u # idle_thread PROVE Wakeable(u)'
    BY <1>5, Zenon DEF Blocked
  <2>1. Wakeable(u)
    BY <1>2, <1>6, Zenon DEF SchedInv, Blocked
  <2>2. \A v \in Thread : pc[v] = "create" => pc'[v] = "create" /\ arg'[v] = arg[v]
    BY <1>4, <1>7, Zenon
  <2>3. QED BY <1>5, <2>1, <2>2, WakeableKept, Zenon
<1>12. Control'
  BY <1>2, <1>4, <1>5, <1>6, Zenon DEF SchedInv, Control, IdlePoint
<1>13. QED BY <1>8, <1>9, <1>10, <1>11, <1>12, Zenon DEF SchedInv

----------------------------------------------------------------------------
(* The theorems.                                                           *)

\* The state in which thread_start() has just created the idle thread.
LEMMA InitInv ==
  Init => SchedInv
<1> SUFFICES ASSUME Init PROVE SchedInv
  BY Zenon
<1> USE SchedulerAssumption DEF Init
<1>1. ready_list = <<idle>> /\ ready_list \in Seq(Thread) /\ Range(ready_list) = {idle}
      /\ IsInjective(ready_list)
  BY DEF Range, IsInjective
<1>2. sleep_list \in Seq(Thread) /\ Range(sleep_list) = {} /\ IsInjective(sleep_list)
  BY EmptyList, Zenon
<1>3. \A s \in Sema : Range(waiters[s]) = {} /\ IsInjective(waiters[s])
  BY EmptyList, Zenon
<1>4. \A t \in Thread : status[t] = IF t = main THEN "RUNNING"
                                    ELSE IF t = idle THEN "READY" ELSE "NONE"
  BY Zenon
<1>5. \A t \in Thread : pc[t] = IF t = main THEN "boot"
                                ELSE IF t = idle THEN "idle_start" ELSE "run"
  BY Zenon
<1>6. TypeOK
  <2>1. status \in [Thread -> Status] /\ pc \in [Thread -> Point]
    BY Zenon DEF Status, Point
  <2>2. waiters \in [Sema -> Seq(Thread)]
    BY EmptyList, Zenon
  <2>3. QED BY <1>1, <1>2, <2>1, <2>2 DEF TypeOK
<1>7. Queues
  BY <1>1, <1>2, <1>3, <1>4, Zenon DEF Queues
<1>8. Creators /\ Blocked
  BY <1>4, <1>5, Zenon DEF Creators, Blocked
<1>9. Control
  BY <1>4, <1>5, Zenon DEF Control, IdlePoint
<1>10. QED BY <1>6, <1>7, <1>8, <1>9, Zenon DEF SchedInv

\* Every step of a thread, of the idle thread, of the timer or of a device
\* preserves the invariant.
LEMMA NextInv ==
  SchedInv /\ [Next]_vars => SchedInv'
<1> SUFFICES ASSUME SchedInv, [Next]_vars PROVE SchedInv'
  BY Zenon
<1>a. /\ idle \in Thread /\ NULL \notin Thread /\ idle_thread \in {idle, NULL}
      /\ pc[idle] \in IdlePoint
  BY IdleFacts, Zenon
<1>0. UserSema \subseteq Sema /\ idle_started \in Sema /\ main \in Thread /\ main # idle
  BY SchedulerAssumption, Zenon DEF UserSema
<1>1. ASSUME NEW t \in Thread, Step(t) PROVE SchedInv'
  <2>1. CASE \E s \in UserSema : ThreadSemaDown(t, s)
    BY <1>0, <2>1, SemaDownPreserves, Zenon DEF ThreadSemaDown, At, clock
  <2>2. CASE SemaDownAgain(t)
    <3>1. arg[t] \in Sema
      BY <2>2, Zenon DEF SemaDownAgain, At, SchedInv, Control
    <3>2. QED BY <2>2, <3>1, SemaDownPreserves, Zenon DEF SemaDownAgain, At, clock
  <2>3. CASE \E s \in UserSema : ThreadSemaUp(t, s)
    <3>1. PICK s \in Sema : sema_up(s) /\ UNCHANGED <<clock, local, idle_thread>>
      BY <1>0, <2>3, Zenon DEF ThreadSemaUp
    <3>2. UNCHANGED <<sleep_list, alarm_ticks, ticks, idle_thread, pc, arg>>
      BY <3>1, Zenon DEF clock, local
    <3>3. /\ pc \in [Thread -> Point] /\ arg \in [Thread -> Thread \cup Sema \cup {NULL}]
          /\ pc[idle] \in IdlePoint
      BY <1>a, Zenon DEF SchedInv, TypeOK, Control
    <3>4. QED BY <3>1, <3>2, <3>3, SemaUpPreserves, Zenon
  <2>4. CASE \E s \in UserSema : sema_try_down(t, s)
    BY <1>0, <2>4, TryDownPreserves, Zenon
  <2>5. QED
    BY <1>1, <2>1, <2>2, <2>3, <2>4, YieldPreserves, CreateInitPreserves,
       CreateUnblockPreserves, ExitPreserves, TimerSleepPreserves, SleepPreserves, Zenon
    DEF Step
<1>2. CASE thread_start
  BY <1>0, <1>2, SemaDownPreserves, Zenon DEF thread_start, At, clock
<1>3. CASE idle_up
  <2>1. /\ pc[idle] = "idle_up" /\ sema_up(idle_started)
        /\ pc' = [pc EXCEPT ![idle] = "loop"] /\ arg' = [arg EXCEPT ![idle] = NULL]
        /\ UNCHANGED <<sleep_list, alarm_ticks, ticks, idle_thread>>
    BY <1>3, Zenon DEF idle_up, At, Goto, clock
  <2>2. /\ pc' \in [Thread -> Point] /\ arg' \in [Thread -> Thread \cup Sema \cup {NULL}]
        /\ pc'[idle] = "loop"
        /\ \A u \in Thread \ {idle} : pc'[u] = pc[u] /\ arg'[u] = arg[u]
    BY <2>1, <1>a, Zenon DEF SchedInv, TypeOK, Point
  <2>3. sema_up(idle_started) /\ UNCHANGED <<sleep_list, alarm_ticks, ticks, idle_thread>>
        /\ pc[idle] = "idle_up"
    BY <2>1, Zenon
  <2>4. QED BY <1>0, <2>2, <2>3, SemaUpPreserves, Zenon DEF IdlePoint
<1>4. CASE \E s \in UserSema : device_interrupt(s)
  <2>1. PICK s \in Sema : sema_up(s) /\ WakeIdle /\ UNCHANGED <<clock, arg, idle_thread>>
    BY <1>0, <1>4, Zenon DEF device_interrupt
  <2>2. UNCHANGED <<sleep_list, alarm_ticks, ticks, idle_thread, arg>>
    BY <2>1, Zenon DEF clock
  <2>3. /\ pc' \in [Thread -> Point]
        /\ pc'[idle] \in IdlePoint
        /\ pc'[idle] = "idle_start" <=> pc[idle] = "idle_start"
        /\ \A u \in Thread \ {idle} : pc'[u] = pc[u]
    BY <2>1, WakeIdleEffect, Zenon
  <2>4. arg \in [Thread -> Thread \cup Sema \cup {NULL}]
    BY Zenon DEF SchedInv, TypeOK
  <2>5. QED BY <2>1, <2>2, <2>3, <2>4, SemaUpPreserves, Zenon
<1>5. CASE UNCHANGED vars
  <2>1. UNCHANGED <<cur, status, ready_list, sleep_list, alarm_ticks, ticks,
                    thread_ticks, idle_thread, value, waiters, pc, arg>>
    BY <1>5, Zenon DEF vars, sched, clock, semas, local
  <2>2. TypeOK' /\ Queues'
    BY <2>1 DEF SchedInv, TypeOK, Queues
  <2>3. Creators' /\ Control'
    BY <2>1, Zenon DEF SchedInv, Creators, Control
  <2>4. Blocked'
    BY <2>1, Zenon DEF SchedInv, Blocked, Wakeable
  <2>5. QED BY <2>2, <2>3, <2>4, Zenon DEF SchedInv
<1>6. QED
  BY <1>1, <1>2, <1>3, <1>4, <1>5, TimerPreserves, IdleInitPreserves, IdleLoopPreserves, Zenon
  DEF Next, Kernel

\* The invariant of the scheduler's lists holds in every reachable state.
THEOREM Invariance ==
  Spec => []SchedInv
BY InitInv, NextInv, PTL DEF Spec

\* Type correctness of the scheduler's state.
THEOREM TypeCorrect ==
  Spec => []TypeOK
<1>1. SchedInv => TypeOK
  BY Zenon DEF SchedInv
<1>2. QED BY <1>1, Invariance, PTL

\* No thread that schedule(), sema_down(), thread_sleep() or thread_create()
\* took off the CPU is ever lost.
THEOREM NoThreadIsLost ==
  Spec => []NoThreadLost
<1>1. SchedInv => NoThreadLost
  BY Zenon DEF SchedInv, Queues, Blocked, NoThreadLost
<1>2. QED BY <1>1, Invariance, PTL

\* A thread's `elem' is linked into one place of one list at most, and the
\* status of the thread agrees with the list.
THEOREM ElemIsExclusive ==
  Spec => []ElemExclusive
<1>1. SchedInv => ElemExclusive
  <2> SUFFICES ASSUME SchedInv PROVE ElemExclusive
    BY Zenon
  <2>1. /\ IsInjective(ready_list) /\ IsInjective(sleep_list)
        /\ \A s \in Sema : IsInjective(waiters[s])
        /\ ready_list \in Seq(Thread)
    BY Zenon DEF SchedInv, Queues, TypeOK
  <2>2. \A t \in Range(ready_list) : status[t] = "READY"
    BY <2>1 DEF SchedInv, Queues, Range
  <2>3. /\ \A t \in Range(sleep_list) : status[t] = "BLOCKED" /\ pc[t] = "run"
        /\ \A s \in Sema : \A t \in Range(waiters[s]) :
             status[t] = "BLOCKED" /\ pc[t] = "down" /\ arg[t] = s
    BY Zenon DEF SchedInv, Queues
  <2>4. ASSUME NEW t \in Thread, NEW p \in Places(t), NEW q \in Places(t)
        PROVE  p = q
    <3> DEFINE R(x) == \E i \in DOMAIN ready_list : ready_list[i] = t /\ x = <<"ready", i>>
               L(x) == \E i \in DOMAIN sleep_list : sleep_list[i] = t /\ x = <<"sleep", i>>
               W(x, s) == \E i \in DOMAIN waiters[s] : waiters[s][i] = t /\ x = <<s, i>>
    <3>1. \A x \in Places(t) : R(x) \/ L(x) \/ \E s \in Sema : W(x, s)
      BY Zenon DEF Places
    <3>2. \A x : R(x) => t \in Range(ready_list)
      BY Zenon DEF Range
    <3>3. \A x : L(x) => t \in Range(sleep_list)
      BY Zenon DEF Range
    <3>4. \A s \in Sema : \A x : W(x, s) => t \in Range(waiters[s])
      BY Zenon DEF Range
    <3>5. \A x, y : R(x) /\ R(y) => x = y
      BY <2>1, Zenon DEF IsInjective
    <3>6. \A x, y : L(x) /\ L(y) => x = y
      BY <2>1, Zenon DEF IsInjective
    <3>7. \A s \in Sema : \A x, y : W(x, s) /\ W(y, s) => x = y
      BY <2>1, Zenon DEF IsInjective
    <3> HIDE DEF R, L, W
    <3>8. QED BY <2>2, <2>3, <3>1, <3>2, <3>3, <3>4, <3>5, <3>6, <3>7
  <2>5. QED BY <2>2, <2>3, <2>4, Zenon DEF ElemExclusive
<1>2. QED BY <1>1, Invariance, PTL

\* Once idle() has run, the idle thread is on no list: schedule() reaches it
\* by name only.
THEOREM IdleIsNeverQueued ==
  Spec => []IdleNeverQueued
<1>1. SchedInv => IdleNeverQueued
  <2> SUFFICES ASSUME SchedInv, idle_thread # NULL PROVE Places(idle) = {}
    BY Zenon DEF IdleNeverQueued
  <2>1. /\ idle \notin Range(ready_list) /\ idle \notin Range(sleep_list)
        /\ \A s \in Sema : idle \notin Range(waiters[s])
    BY IdleFacts, NotIdleQueued, Zenon DEF SchedInv, Queues
  <2>2. QED BY <2>1, Zenon DEF Places, Range
<1>2. QED BY <1>1, Invariance, PTL

----------------------------------------------------------------------------
(* The alarm clock keeps its appointments.  timer_interrupt() looks at the  *)
(* front of the sleep list only; that it overlooks nobody rests on the      *)
(* order of the list.                                                       *)

\* The order thread_sleep() keeps the sleep list in.
SleepSorted ==
  \A i, j \in 1..Len(sleep_list) :
    i < j => alarm_ticks[sleep_list[i]] <= alarm_ticks[sleep_list[j]]

AlarmInv == SchedInv /\ SleepSorted

\* What AlarmsKept says of one step.
AlarmStep ==
  /\ timer_interrupt => \A t \in Range(sleep_list') : alarm_ticks'[t] > ticks'
  /\ \A t \in Range(sleep_list) \ Range(sleep_list') : alarm_ticks[t] <= ticks'

\* i is the list s with e behind its k-th element.
Inserted(i, s, k, e) ==
  /\ Len(i) = Len(s) + 1
  /\ \A j \in 1..(Len(s) + 1) :
       i[j] = IF j <= k THEN s[j] ELSE IF j = k + 1 THEN e ELSE s[j - 1]

\* The elements of a list after list_insert() puts e behind the k-th.
LEMMA InsertedAt ==
  ASSUME NEW S, NEW s \in Seq(S), NEW e \in S, NEW k \in 0..Len(s)
  PROVE  Inserted(Append(SubSeq(s, 1, k), e) \o SubSeq(s, k + 1, Len(s)), s, k, e)
<1> DEFINE f == SubSeq(s, 1, k)
           r == SubSeq(s, k + 1, Len(s))
           h == Append(f, e)
           i == h \o r
<1>1. /\ f \in Seq(S) /\ Len(f) = k /\ \A j \in 1..k : f[j] = s[j]
      /\ r \in Seq(S) /\ Len(r) = Len(s) - k
      /\ \A j \in 1..(Len(s) - k) : r[j] = s[j + k]
      /\ Len(s) \in Nat /\ k \in Nat /\ k <= Len(s)
  OBVIOUS
<1> HIDE DEF f, r
<1>2. /\ h \in Seq(S) /\ Len(h) = k + 1 /\ h[k + 1] = e
      /\ \A j \in 1..k : h[j] = s[j]
  BY <1>1
<1> HIDE DEF h
<1>3. /\ Len(h \o r) = Len(h) + Len(r)
      /\ \A j \in 1..(Len(h) + Len(r)) :
           (h \o r)[j] = IF j <= Len(h) THEN h[j] ELSE r[j - Len(h)]
  <2>1. \A x, y \in Seq(S) :
          /\ Len(x \o y) = Len(x) + Len(y)
          /\ \A j \in 1..(Len(x) + Len(y)) :
               (x \o y)[j] = IF j <= Len(x) THEN x[j] ELSE y[j - Len(x)]
    OBVIOUS
  <2>2. h \in Seq(S) /\ r \in Seq(S)
    BY <1>1, <1>2, Zenon
  <2>3. QED BY <2>1, <2>2, Zenon
<1>4. Len(i) = Len(s) + 1
  BY <1>1, <1>2, <1>3
<1>5. \A j \in 1..(Len(s) + 1) : i[j] = IF j <= k + 1 THEN h[j] ELSE r[j - (k + 1)]
  BY <1>1, <1>2, <1>3
<1> HIDE DEF i
<1>6. ASSUME NEW j \in 1..(Len(s) + 1)
      PROVE  i[j] = IF j <= k THEN s[j] ELSE IF j = k + 1 THEN e ELSE s[j - 1]
  <2>1. CASE j <= k
    <3>1. j \in 1..k /\ j <= k + 1
      BY <1>1, <2>1
    <3>2. i[j] = s[j]
      BY <1>2, <1>5, <3>1, Zenon
    <3>3. QED BY <2>1, <3>2, Zenon
  <2>2. CASE j = k + 1
    <3>1. j <= k + 1 /\ ~(j <= k)
      BY <1>1, <2>2
    <3>2. i[j] = e
      BY <1>2, <1>5, <2>2, <3>1, Zenon
    <3>3. QED BY <2>2, <3>1, <3>2, Zenon
  <2>3. CASE j > k + 1
    <3>1. i[j] = r[j - (k + 1)]
      BY <1>1, <1>5, <2>3
    <3>2. j - (k + 1) \in 1..(Len(s) - k) /\ (j - (k + 1)) + k = j - 1
      BY <1>1, <2>3
    <3>3. r[j - (k + 1)] = s[(j - (k + 1)) + k]
      BY <1>1, <3>2, Zenon
    <3>4. i[j] = s[j - 1]
      BY <3>1, <3>2, <3>3, Zenon
    <3>5. ~(j <= k) /\ j # k + 1
      BY <1>1, <2>3
    <3>6. QED BY <3>4, <3>5, Zenon
  <2>4. j <= k \/ j = k + 1 \/ j > k + 1
    BY <1>1
  <2>5. QED BY <2>1, <2>2, <2>3, <2>4, Zenon
<1>7. QED BY <1>4, <1>6, Zenon DEF Inserted, f, r, h, i

\* A step that leaves the sleep list and the alarms alone.
LEMMA ClockUnchanged ==
  ASSUME SleepSorted, UNCHANGED <<sleep_list, alarm_ticks>>
  PROVE  SleepSorted' /\ Range(sleep_list) \ Range(sleep_list') = {}
BY Zenon DEF SleepSorted

\* timer_sleep() sets the alarm of a thread that is awake.
LEMMA TimerSleepSorted ==
  ASSUME AlarmInv, NEW t \in Thread, NEW n \in Delays, timer_sleep(t, n)
  PROVE  SleepSorted' /\ sleep_list' = sleep_list
<1>1. /\ cur = t /\ sleep_list' = sleep_list
      /\ alarm_ticks' = [alarm_ticks EXCEPT ![t] = ticks + n]
  BY Zenon DEF timer_sleep, At
<1>2. t \notin Range(sleep_list)
  BY <1>1, Zenon DEF AlarmInv, SchedInv, Queues
<1>3. \A i \in 1..Len(sleep_list) : sleep_list[i] \in Thread /\ sleep_list[i] # t
  BY <1>2 DEF AlarmInv, SchedInv, TypeOK, Range
<1>4. \A i \in 1..Len(sleep_list) :
        alarm_ticks'[sleep_list'[i]] = alarm_ticks[sleep_list[i]]
  BY <1>1, <1>3, Zenon DEF AlarmInv, SchedInv, TypeOK
<1>5. QED BY <1>1, <1>4, Zenon DEF AlarmInv, SleepSorted

\* thread_sleep() inserts the thread behind the last alarm that is not later.
LEMMA InsertSorted ==
  ASSUME AlarmInv, NEW t \in Thread, thread_sleep(t)
  PROVE  SleepSorted' /\ Range(sleep_list) \subseteq Range(sleep_list')
<1>1. /\ cur = t /\ insert_ordered(t) /\ alarm_ticks' = alarm_ticks
  BY Zenon DEF thread_sleep, At
<1>2. t \notin Range(sleep_list)
  BY <1>1, Zenon DEF AlarmInv, SchedInv, Queues
<1>3. Range(sleep_list) \subseteq Range(sleep_list')
  BY <1>1, <1>2, InsertOrdered, Zenon DEF AlarmInv
<1> DEFINE s == sleep_list
           a == alarm_ticks
<1>4. s \in Seq(Thread) /\ a \in [Thread -> Nat] /\ Len(s) \in Nat
      /\ \A i \in 1..Len(s) : s[i] \in Thread
  BY DEF AlarmInv, SchedInv, TypeOK
<1>5. PICK k \in 0..Len(s) :
        /\ \A i \in 1..k : a[s[i]] <= a[t]
        /\ k < Len(s) => a[t] < a[s[k + 1]]
        /\ s' = Append(SubSeq(s, 1, k), t) \o SubSeq(s, k + 1, Len(s))
  BY <1>1, Zenon DEF insert_ordered
<1>6. /\ Len(s') = Len(s) + 1
      /\ \A j \in 1..Len(s') :
           s'[j] = IF j <= k THEN s[j] ELSE IF j = k + 1 THEN t ELSE s[j - 1]
  <2>1. Inserted(s', s, k, t)
    BY <1>4, <1>5, InsertedAt, Zenon
  <2>2. QED BY <2>1, Zenon DEF Inserted
<1>7. \A i, j \in 1..Len(s) : i < j => a[s[i]] <= a[s[j]]
  BY Zenon DEF AlarmInv, SleepSorted
<1>8. \A i \in 1..Len(s) : a[s[i]] \in Nat /\ a[t] \in Nat
  BY <1>4, Zenon
<1>9. \A i \in (k + 1)..Len(s) : a[t] <= a[s[i]]
  <2> SUFFICES ASSUME NEW i \in (k + 1)..Len(s) PROVE a[t] <= a[s[i]]
    BY Zenon
  <2>1. k + 1 \in 1..Len(s) /\ i \in 1..Len(s) /\ a[t] < a[s[k + 1]]
    BY <1>4, <1>5
  <2>2. a[s[k + 1]] <= a[s[i]]
    BY <1>7, <1>8, <2>1
  <2>3. PICK x \in Nat, y \in Nat, z \in Nat : x = a[t] /\ y = a[s[k + 1]] /\ z = a[s[i]]
    BY <1>8, <2>1, Zenon
  <2>4. x < y /\ y <= z
    BY <2>1, <2>2, <2>3, Zenon
  <2>5. x <= z
    BY <2>4
  <2>6. QED BY <2>3, <2>5, Zenon
<1> HIDE DEF s, a
<1>10. ASSUME NEW i \in 1..Len(s'), NEW j \in 1..Len(s'), i < j
       PROVE  a[s'[i]] <= a[s'[j]]
  <2>1. CASE j <= k
    <3>1. s'[i] = s[i] /\ s'[j] = s[j] /\ i \in 1..Len(s) /\ j \in 1..Len(s)
      BY <1>4, <1>6, <1>10, <2>1
    <3>2. QED BY <1>7, <1>10, <3>1, Zenon
  <2>2. CASE j = k + 1
    <3>1. s'[i] = s[i] /\ s'[j] = t /\ i \in 1..k
      BY <1>4, <1>6, <1>10, <2>2
    <3>2. QED BY <1>5, <3>1, Zenon
  <2>3. CASE j > k + 1 /\ i <= k
    <3>1. s'[i] = s[i] /\ s'[j] = s[j - 1] /\ i \in 1..Len(s) /\ j - 1 \in 1..Len(s) /\ i < j - 1
      BY <1>4, <1>6, <1>10, <2>3
    <3>2. QED BY <1>7, <3>1, Zenon
  <2>4. CASE j > k + 1 /\ i = k + 1
    <3>1. s'[i] = t /\ s'[j] = s[j - 1] /\ j - 1 \in (k + 1)..Len(s)
      BY <1>4, <1>6, <1>10, <2>4
    <3>2. QED BY <1>9, <3>1, Zenon
  <2>5. CASE j > k + 1 /\ i > k + 1
    <3>1. /\ s'[i] = s[i - 1] /\ s'[j] = s[j - 1]
          /\ i - 1 \in 1..Len(s) /\ j - 1 \in 1..Len(s) /\ i - 1 < j - 1
      BY <1>4, <1>6, <1>10, <2>5
    <3>2. QED BY <1>7, <3>1, Zenon
  <2>6. QED BY <1>4, <2>1, <2>2, <2>3, <2>4, <2>5
<1>11. SleepSorted'
  BY <1>1, <1>10, Zenon DEF SleepSorted, s, a
<1>12. QED BY <1>3, <1>11, Zenon

\* timer_interrupt() stops at the first alarm in the future; by the order of
\* the list all those behind it are in the future too.
LEMMA TimerKeepsAlarms ==
  ASSUME AlarmInv, timer_interrupt
  PROVE  SleepSorted' /\ AlarmStep
<1> DEFINE s == sleep_list
           a == alarm_ticks
<1>1. s \in Seq(Thread) /\ a \in [Thread -> Nat] /\ Len(s) \in Nat
      /\ \A i \in 1..Len(s) : s[i] \in Thread /\ a[s[i]] \in Nat
  BY DEF AlarmInv, SchedInv, TypeOK
<1>2. PICK n \in 0..Len(s) :
        /\ \A i \in 1..n : due(s[i], ticks')
        /\ n < Len(s) => ~ due(s[n + 1], ticks')
        /\ s' = SubSeq(s, n + 1, Len(s))
        /\ a' = a
  BY Zenon DEF timer_interrupt
<1>3. ticks' \in Nat
  BY SchedulerAssumption DEF timer_interrupt, AlarmInv, SchedInv, TypeOK
<1>4. \A i, j \in 1..Len(s) : i < j => a[s[i]] <= a[s[j]]
  BY Zenon DEF AlarmInv, SleepSorted
<1>5. /\ \A i \in 1..n : a[s[i]] <= ticks'
      /\ n < Len(s) => ~ (a[s[n + 1]] <= ticks')
  BY <1>2, Zenon DEF due
<1> HIDE DEF s, a
<1>6. /\ Len(s') = Len(s) - n /\ DOMAIN s' = 1..(Len(s) - n)
      /\ \A i \in 1..(Len(s) - n) : s'[i] = s[n + i] /\ n + i \in 1..Len(s)
  <2>1. s' = SubSeq(s, n + 1, Len(s)) /\ s \in Seq(Thread)
    BY <1>1, <1>2, Zenon
  <2>2. QED BY <2>1, DropFront
<1>7. SleepSorted'
  <2>1. \A i, j \in 1..Len(s') : i < j => a[s'[i]] <= a[s'[j]]
    <3> SUFFICES ASSUME NEW i \in 1..Len(s'), NEW j \in 1..Len(s'), i < j
                 PROVE  a[s'[i]] <= a[s'[j]]
      BY Zenon
    <3>1. /\ s'[i] = s[n + i] /\ s'[j] = s[n + j]
          /\ n + i \in 1..Len(s) /\ n + j \in 1..Len(s) /\ n + i < n + j
      <4>1. i \in 1..(Len(s) - n) /\ j \in 1..(Len(s) - n)
        BY <1>6, Zenon
      <4>2. n + i < n + j
        BY <4>1
      <4>3. QED BY <1>6, <4>1, <4>2, Zenon
    <3>2. QED BY <1>4, <3>1, Zenon
  <2>2. QED BY <1>2, <2>1, Zenon DEF SleepSorted, s, a
<1>8. \A t \in Range(s') : a[t] > ticks'
  <2> SUFFICES ASSUME NEW i \in 1..(Len(s) - n) PROVE a[s[n + i]] > ticks'
    BY <1>6 DEF Range
  <2>1. n < Len(s) /\ n + 1 \in 1..Len(s) /\ n + i \in 1..Len(s)
    BY <1>1
  <2>2. a[s[n + 1]] \in Nat /\ a[s[n + i]] \in Nat /\ a[s[n + 1]] <= a[s[n + i]]
    <3>1. CASE i = 1
      BY <1>1, <2>1, <3>1
    <3>2. CASE n + 1 < n + i
      BY <1>1, <1>4, <2>1, <3>2, Zenon
    <3>3. QED BY <3>1, <3>2
  <2>3. QED BY <1>3, <1>5, <2>1, <2>2
<1>9. \A t \in Range(s) \ Range(s') : a[t] <= ticks'
  <2> SUFFICES ASSUME NEW i \in 1..Len(s), s[i] \notin Range(s')
               PROVE  a[s[i]] <= ticks'
    BY <1>1 DEF Range
  <2>1. CASE i <= n
    BY <1>5, <2>1
  <2>2. CASE i > n
    <3>1. i - n \in 1..(Len(s) - n) /\ n + (i - n) = i
      BY <1>1, <2>2
    <3>2. s'[i - n] = s[i] /\ i - n \in DOMAIN s'
      BY <1>6, <3>1, Zenon
    <3>3. s[i] \in Range(s')
      BY <3>2, Zenon DEF Range
    <3>4. QED BY <3>3, Zenon
  <2>3. QED BY <1>1, <2>1, <2>2
<1>10. AlarmStep
  BY <1>2, <1>8, <1>9, Zenon DEF AlarmStep, s, a
<1>11. QED BY <1>7, <1>10, Zenon

\* Every step keeps the sleep list in order and ends no sleep early.
LEMMA AlarmNext ==
  ASSUME AlarmInv, [Next]_vars
  PROVE  AlarmInv' /\ [AlarmStep]_vars
<1>0. SchedInv'
  BY NextInv, Zenon DEF AlarmInv
<1>1. CASE timer_interrupt
  BY <1>0, <1>1, TimerKeepsAlarms, Zenon DEF AlarmInv
<1>2. CASE ~ timer_interrupt
  <2>1. SleepSorted' /\ Range(sleep_list) \ Range(sleep_list') = {}
    <3>1. CASE \E t \in Thread, n \in Delays : timer_sleep(t, n)
      BY <3>1, TimerSleepSorted, Zenon
    <3>2. CASE \E t \in Thread : thread_sleep(t)
      BY <3>2, InsertSorted, Zenon
    <3>3. CASE UNCHANGED <<sleep_list, alarm_ticks>>
      BY <3>3, ClockUnchanged, Zenon DEF AlarmInv
    <3>4. CASE \E t \in Thread : Step(t)
      <4>1. PICK t \in Thread : Step(t)
        BY <3>4, Zenon
      <4>2. CASE \/ thread_yield(t)
                 \/ \E new \in Thread : thread_create_init(t, new)
                 \/ thread_create_unblock(t)
                 \/ thread_exit(t)
        BY <4>2, <3>3, Zenon
        DEF thread_yield, thread_create_init, thread_create_unblock, thread_exit, clock
      <4>3. CASE \/ \E s \in UserSema : ThreadSemaDown(t, s)
                 \/ SemaDownAgain(t)
                 \/ \E s \in UserSema : sema_try_down(t, s)
                 \/ \E s \in UserSema : ThreadSemaUp(t, s)
        BY <4>3, <3>3, Zenon DEF ThreadSemaDown, SemaDownAgain, sema_try_down, ThreadSemaUp, clock
      <4>4. QED BY <4>1, <4>2, <4>3, <3>1, <3>2, Zenon DEF Step
    <3>5. CASE Kernel
      BY <3>5, <3>3, Zenon DEF Kernel, thread_start, idle_init, idle_up, idle_loop, clock
    <3>6. CASE \E s \in UserSema : device_interrupt(s)
      BY <3>6, <3>3, Zenon DEF device_interrupt, clock
    <3>7. CASE UNCHANGED vars
      BY <3>7, <3>3, Zenon DEF vars, clock
    <3>8. QED BY <1>2, <3>4, <3>5, <3>6, <3>7, Zenon DEF Next
  <2>2. QED BY <1>0, <1>2, <2>1, Zenon DEF AlarmInv, AlarmStep
<1>3. QED BY <1>1, <1>2, Zenon

\* timer_interrupt() leaves nobody asleep whose alarm has come, and no other
\* step, and no alarm in the future, ends a sleep.
THEOREM AlarmsAreKept ==
  Spec => AlarmsKept
<1>1. Init => AlarmInv
  <2>1. Init => SleepSorted
    BY DEF Init, SleepSorted
  <2>2. QED BY <2>1, InitInv, Zenon DEF AlarmInv
<1>2. AlarmInv /\ [Next]_vars => AlarmInv' /\ [AlarmStep]_vars
  BY AlarmNext, Zenon
<1>3. Spec => [][AlarmStep]_vars
  BY <1>1, <1>2, PTL DEF Spec
<1>4. QED BY <1>3, Zenon DEF AlarmStep, AlarmsKept

----------------------------------------------------------------------------
(* The safety half of the refinement: every step of the scheduler is, for  *)
(* the users of its semaphores, an operation of a counting semaphore or    *)
(* invisible.                                                              *)

\* No thread enters or leaves sema_down(), seen from the program counters.
Same ==
  \A u \in Thread : /\ pc'[u] = "down" <=> pc[u] = "down"
                    /\ pc[u] = "down" => arg'[u] = arg[u]

\* What a thread does outside sema_down() does not change who is inside.
LEMMA SameInside ==
  ASSUME Same
  PROVE  Inside' = Inside
BY Zenon DEF Same, Inside

\* The value of Inside for a thread, before and after a step of thread t.
LEMMA InsideOf ==
  ASSUME NEW t \in Thread, NEW p \in Point, NEW a \in Sema \cup {NULL},
         pc \in [Thread -> Point], arg \in [Thread -> Thread \cup Sema \cup {NULL}],
         Goto(t, p, a)
  PROVE  Inside' = [Inside EXCEPT ![t] = IF p = "down" THEN a ELSE NULL]
<1>1. /\ pc'[t] = p /\ arg'[t] = a
      /\ \A u \in Thread \ {t} : pc'[u] = pc[u] /\ arg'[u] = arg[u]
  BY Zenon DEF Goto
<1>2. QED BY <1>1, Zenon DEF Inside

\* One pass of sema_down()'s loop takes a unit, at once or after waiting, or
\* goes to wait, or goes on waiting.
LEMMA DownRefines ==
  ASSUME SchedInv, NEW t \in Thread, NEW s \in Sema,
         pc[t] \in {"run", "boot"} \/ (pc[t] = "down" /\ arg[t] = s),
         sema_down(t, s)
  PROVE  [Abstract!Next]_(Abstract!svars)
<1>1. /\ pc \in [Thread -> Point] /\ arg \in [Thread -> Thread \cup Sema \cup {NULL}]
      /\ "down" \in Point /\ "run" \in Point
  BY Zenon DEF SchedInv, TypeOK, Point
<1>2. CASE value[s] = 0 /\ Goto(t, "down", s) /\ value' = value
  <2>1. Inside' = [Inside EXCEPT ![t] = s]
    BY <1>1, <1>2, InsideOf, Zenon
  <2>2. CASE pc[t] = "down" /\ arg[t] = s
    <3>1. Inside[t] = s
      BY <2>2, Zenon DEF Inside
    <3>2. Inside' = Inside
      BY <2>1, <3>1, Zenon DEF Inside
    <3>3. QED BY <1>2, <3>2, Zenon DEF Abstract!svars
  <2>3. CASE pc[t] \in {"run", "boot"}
    <3>1. Inside[t] = NULL
      BY <2>3, Zenon DEF Inside
    <3>2. Abstract!Enter(t, s)
      BY <1>2, <2>1, <3>1, Zenon DEF Abstract!Enter
    <3>3. QED BY <3>2, Zenon DEF Abstract!Next
  <2>4. QED BY <2>2, <2>3, Zenon
<1>3. CASE /\ value[s] > 0 /\ Goto(t, "run", NULL)
           /\ value' = [value EXCEPT ![s] = @ - 1]
  <2>1. Inside' = [Inside EXCEPT ![t] = NULL]
    BY <1>1, <1>3, InsideOf, Zenon
  <2>2. CASE pc[t] = "down" /\ arg[t] = s
    <3>1. Inside[t] = s
      BY <2>2, Zenon DEF Inside
    <3>2. Abstract!Leave(t, s)
      BY <1>3, <2>1, <3>1, Zenon DEF Abstract!Leave
    <3>3. QED BY <3>2, Zenon DEF Abstract!Next
  <2>3. CASE pc[t] \in {"run", "boot"}
    <3>1. Inside[t] = NULL
      BY <2>3, Zenon DEF Inside
    <3>2. Inside' = Inside
      BY <2>1, <3>1, Zenon DEF Inside
    <3>3. Abstract!Take(s)
      BY <1>3, <3>2, Zenon DEF Abstract!Take
    <3>4. QED BY <3>3, Zenon DEF Abstract!Next
  <2>4. QED BY <2>2, <2>3, Zenon
<1>4. QED BY <1>2, <1>3, Zenon DEF sema_down

\* sema_up() adds a unit, whoever it wakes.
LEMMA UpRefines ==
  ASSUME NEW s \in Sema, sema_up(s), Same
  PROVE  [Abstract!Next]_(Abstract!svars)
<1>1. Inside' = Inside /\ value' = [value EXCEPT ![s] = @ + 1]
  BY SameInside, Zenon DEF sema_up
<1>2. Abstract!Up(s)
  BY <1>1, Zenon DEF Abstract!Up
<1>3. QED BY <1>2, Zenon DEF Abstract!Next

\* A step that leaves the values alone and moves nobody in or out.
LEMMA Invisible ==
  ASSUME Same, value' = value
  PROVE  [Abstract!Next]_(Abstract!svars)
BY SameInside, Zenon DEF Abstract!svars

\* An interrupt that ends the idle thread's hlt moves nobody in or out.
LEMMA WakeIdleSame ==
  ASSUME SchedInv, WakeIdle, UNCHANGED arg
  PROVE  Same
<1>1. /\ pc'[idle] \in IdlePoint
      /\ \A u \in Thread \ {idle} : pc'[u] = pc[u]
  BY WakeIdleEffect, Zenon
<1>2. pc[idle] \in IdlePoint
  BY IdleFacts, Zenon
<1>3. QED BY <1>1, <1>2, Zenon DEF Same, IdlePoint

\* A thread that goes from one point outside sema_down() to another.
LEMMA GotoSame ==
  ASSUME SchedInv, NEW t \in Thread, NEW p, NEW a, Goto(t, p, a),
         pc[t] # "down", p # "down"
  PROVE  Same
BY Zenon DEF Goto, Same, SchedInv, TypeOK

\* Each step of the thread on the CPU.
LEMMA StepRefines ==
  ASSUME SchedInv, NEW t \in Thread, Step(t)
  PROVE  [Abstract!Next]_(Abstract!svars)
<1>0. UserSema \subseteq Sema
  BY Zenon DEF UserSema
<1>1. CASE thread_yield(t) \/ thread_exit(t)
  <2>1. UNCHANGED <<value, pc, arg>>
    BY <1>1, Zenon DEF thread_yield, thread_exit, semas, local
  <2>2. QED BY <2>1, Invisible, Zenon DEF Same
<1>2. CASE \E new \in Thread : thread_create_init(t, new)
  <2>1. PICK new \in Thread : thread_create_init(t, new)
    BY <1>2, Zenon
  <2>2. /\ pc[t] = "run" /\ status[new] = "NONE" /\ UNCHANGED value
        /\ pc'  = [pc  EXCEPT ![t] = "create", ![new] = "run"]
        /\ arg' = [arg EXCEPT ![t] = new, ![new] = NULL]
    BY <2>1, Zenon DEF thread_create_init, At, semas
  <2>3. pc[new] = "run"
    BY <2>2, Zenon DEF SchedInv, Control
  <2>4. Same
    BY <2>2, <2>3, Zenon DEF Same, SchedInv, TypeOK
  <2>5. QED BY <2>2, <2>4, Invisible, Zenon
<1>3. CASE thread_create_unblock(t) \/ thread_sleep(t)
  <2>1. pc[t] # "down" /\ Goto(t, "run", NULL) /\ UNCHANGED value
    BY <1>3, Zenon DEF thread_create_unblock, thread_sleep, At, semas
  <2>2. QED BY <2>1, GotoSame, Invisible, Zenon
<1>4. CASE \E n \in Delays : timer_sleep(t, n)
  <2>1. pc[t] # "down" /\ Goto(t, "sleep", NULL) /\ UNCHANGED value
    BY <1>4, Zenon DEF timer_sleep, At, semas
  <2>2. QED BY <2>1, GotoSame, Invisible, Zenon
<1>5. CASE \E s \in UserSema : ThreadSemaDown(t, s)
  BY <1>0, <1>5, DownRefines, Zenon DEF ThreadSemaDown, At
<1>6. CASE SemaDownAgain(t)
  <2>1. pc[t] = "down" /\ arg[t] \in Sema /\ sema_down(t, arg[t])
    BY <1>6, Zenon DEF SemaDownAgain, At, SchedInv, Control
  <2>2. QED BY <2>1, DownRefines, Zenon
<1>7. CASE \E s \in UserSema : sema_try_down(t, s)
  <2>1. PICK s \in Sema : /\ value[s] > 0 /\ value' = [value EXCEPT ![s] = @ - 1]
                          /\ UNCHANGED <<pc, arg>>
    BY <1>0, <1>7, Zenon DEF sema_try_down, local
  <2>2. Inside' = Inside
    BY <2>1, SameInside, Zenon DEF Same
  <2>3. Abstract!Take(s)
    BY <2>1, <2>2, Zenon DEF Abstract!Take
  <2>4. QED BY <2>3, Zenon DEF Abstract!Next
<1>8. CASE \E s \in UserSema : ThreadSemaUp(t, s)
  <2>1. PICK s \in Sema : sema_up(s) /\ UNCHANGED <<pc, arg>>
    BY <1>0, <1>8, Zenon DEF ThreadSemaUp, local
  <2>2. QED BY <2>1, UpRefines, Zenon DEF Same
<1>9. QED BY <1>1, <1>2, <1>3, <1>4, <1>5, <1>6, <1>7, <1>8, Zenon DEF Step

\* Each step of the system.
LEMMA NextRefines ==
  SchedInv /\ [Next]_vars => [Abstract!Next]_(Abstract!svars)
<1> SUFFICES ASSUME SchedInv, [Next]_vars PROVE [Abstract!Next]_(Abstract!svars)
  BY Zenon
<1>0. /\ UserSema \subseteq Sema /\ idle_started \in Sema
      /\ main \in Thread /\ idle \in Thread
  BY SchedulerAssumption, Zenon DEF UserSema
<1>1. CASE thread_start
  BY <1>0, <1>1, DownRefines, Zenon DEF thread_start, At
<1>2. CASE idle_init
  <2>1. pc[idle] # "down" /\ Goto(idle, "idle_up", NULL) /\ UNCHANGED value
    BY <1>2, Zenon DEF idle_init, At, semas
  <2>2. QED BY <1>0, <2>1, GotoSame, Invisible, Zenon
<1>3. CASE idle_up
  <2>1. /\ pc[idle] # "down" /\ Goto(idle, "loop", NULL)
        /\ sema_up(idle_started)
    BY <1>3, Zenon DEF idle_up, At
  <2>2. QED BY <1>0, <2>1, GotoSame, UpRefines, Zenon
<1>4. CASE idle_loop
  <2>1. pc[idle] # "down" /\ Goto(idle, "hlt", NULL) /\ UNCHANGED value
    BY <1>4, Zenon DEF idle_loop, At, semas
  <2>2. QED BY <1>0, <2>1, GotoSame, Invisible, Zenon
<1>5. CASE timer_interrupt
  <2>1. WakeIdle /\ UNCHANGED <<value, arg>>
    BY <1>5, Zenon DEF timer_interrupt, semas
  <2>2. QED BY <2>1, WakeIdleSame, Invisible, Zenon
<1>6. CASE \E s \in UserSema : device_interrupt(s)
  <2>1. PICK s \in Sema : sema_up(s) /\ WakeIdle /\ UNCHANGED arg
    BY <1>0, <1>6, Zenon DEF device_interrupt
  <2>2. QED BY <2>1, WakeIdleSame, UpRefines, Zenon
<1>7. CASE UNCHANGED vars
  <2>1. UNCHANGED <<value, pc, arg>>
    BY <1>7, Zenon DEF vars, semas, local
  <2>2. QED BY <2>1, Invisible, Zenon DEF Same
<1>8. QED
  BY <1>1, <1>2, <1>3, <1>4, <1>5, <1>6, <1>7, StepRefines, Zenon DEF Next, Kernel

\* The scheduler's semaphores are counting semaphores: sema_down(),
\* sema_try_down() and sema_up(), with the run queue, the wait lists and the
\* retry loop, do nothing that the operations of Semaphore do not.
THEOREM SemaphoresAreSafe ==
  Spec => Abstract!SafeSpec
<1>1. Init => Abstract!Init
  <2>1. ASSUME Init PROVE \A t \in Thread : pc[t] # "down"
    BY <2>1, Zenon DEF Init
  <2>2. ASSUME Init PROVE Inside = [t \in Thread |-> NULL]
    BY <2>1, <2>2, Zenon DEF Inside
  <2>3. QED BY <2>2, Zenon DEF Init, Abstract!Init
<1>2. QED BY <1>1, NextRefines, Invariance, PTL DEF Spec, Abstract!SafeSpec
============================================================================
