---------------------------- MODULE MonitorProof ----------------------------
(***************************************************************************)
(* Locks exclude and condition variables lose no signal, for any number    *)
(* of threads, locks and conditions.                                       *)
(***************************************************************************)
EXTENDS Monitor, ListLemmas

\* lock_init() and cond_init() establish the invariant.
LEMMA InitInv == Init => MonitorInv
<1> SUFFICES ASSUME Init PROVE MonitorInv
  BY Zenon
<1>1. TypeOK
  BY DEF Init, TypeOK, Point
<1>2. MutualExclusion /\ HolderIsOwner /\ OwnedIsTaken /\ Control
  BY MonitorAssumption, Zenon
  DEF Init, MutualExclusion, HolderIsOwner, OwnedIsTaken, Control, Owns
<1>3. Waiting
  BY EmptyList, Zenon DEF Init, Waiting
<1>4. WaitersReachable
  BY Zenon DEF Init, WaitersReachable
<1>5. QED BY <1>1, <1>2, <1>3, <1>4, Zenon DEF MonitorInv, LockInv

----------------------------------------------------------------------------
(* Steps on locks.                                                         *)

\* A thread takes or gives back nothing when it starts a lock_acquire() or
\* lock_release(), or is in the middle of a condition's operations: the
\* ownership part of the invariant depends on the variables below only.
LEMMA OwnershipFrame ==
  ASSUME LockInv, NEW t \in Thread,
         UNCHANGED <<value, holder, held>>,
         pc' \in [Thread -> Point], lk' \in [Thread -> Lock \cup {NULL}],
         \A u \in Thread \ {t} : pc'[u] = pc[u] /\ lk'[u] = lk[u],
         pc[t] \notin {"set_holder", "up"}, pc'[t] \notin {"set_holder", "up"}
  PROVE  MutualExclusion' /\ HolderIsOwner' /\ OwnedIsTaken'
<1>1. \A u \in Thread, l \in Lock : Owns(u, l)' <=> Owns(u, l)
  BY Zenon DEF Owns
<1>2. QED BY <1>1, Zenon DEF LockInv, MutualExclusion, HolderIsOwner, OwnedIsTaken

\* lock_acquire() up to its sema_down().
LEMMA AcquirePreserves ==
  ASSUME LockInv, NEW t \in Thread, NEW l \in Lock, lock_acquire(t, l)
  PROVE  LockInv'
<1>1. TypeOK'
  BY Zenon DEF LockInv, TypeOK, lock_acquire, Goto, Point
<1>2. MutualExclusion' /\ HolderIsOwner' /\ OwnedIsTaken'
  BY <1>1, OwnershipFrame, Zenon DEF LockInv, TypeOK, lock_acquire, Goto
<1>3. Control'
  BY Zenon DEF LockInv, TypeOK, Control, lock_acquire, Goto
<1>4. QED BY <1>1, <1>2, <1>3, Zenon DEF LockInv

\* Taking the unit of a lock, by sema_down() or by sema_try_down().
LEMMA TakePreserves ==
  ASSUME LockInv, NEW t \in Thread, NEW l \in Lock,
         pc[t] \in {"run", "acquire"}, l \notin held[t], value[l] > 0,
         value' = [value EXCEPT ![l] = @ - 1],
         lk' = [lk EXCEPT ![t] = l], pc' = [pc EXCEPT ![t] = "set_holder"],
         UNCHANGED <<holder, waiters, wsema, held, cv, tgt>>
  PROVE  LockInv'
<1>1. TypeOK'
  BY DEF LockInv, TypeOK, Point
<1>2. /\ value[l] = 1 /\ value'[l] = 0
      /\ \A k \in Lock \ {l} : value'[k] = value[k]
  BY DEF LockInv, TypeOK
<1>3. \A u \in Thread : ~Owns(u, l)
  BY <1>2 DEF LockInv, OwnedIsTaken
<1>4. \A u \in Thread, k \in Lock : Owns(u, k)' => Owns(u, k) \/ (u = t /\ k = l)
  BY Zenon DEF LockInv, TypeOK, Owns
<1>5. MutualExclusion' /\ OwnedIsTaken'
  BY <1>2, <1>3, <1>4 DEF LockInv, MutualExclusion, OwnedIsTaken
<1>6. HolderIsOwner'
  BY Zenon DEF LockInv, HolderIsOwner
<1>7. Control'
  BY Zenon DEF LockInv, TypeOK, Control
<1>8. QED BY <1>1, <1>5, <1>6, <1>7, Zenon DEF LockInv

\* The end of lock_acquire() and of lock_try_acquire().
LEMMA SetHolderPreserves ==
  ASSUME LockInv, NEW t \in Thread, SetHolder(t)
  PROVE  LockInv'
<1> DEFINE l == lk[t]
<1>1. l \in Lock /\ l \notin held[t]
  BY Zenon DEF LockInv, Control, SetHolder
<1>2. TypeOK'
  BY <1>1, Zenon DEF LockInv, TypeOK, SetHolder, Goto, Point
<1>3. \A u \in Thread : l \in held[u] => u = t
  BY <1>1, Zenon DEF LockInv, MutualExclusion, Owns, SetHolder
<1>4. \A u \in Thread, k \in Lock : Owns(u, k)' <=> Owns(u, k)
  BY <1>1, Zenon DEF LockInv, TypeOK, SetHolder, Goto, Owns
<1>5. MutualExclusion' /\ OwnedIsTaken'
  BY <1>4, Zenon DEF LockInv, MutualExclusion, OwnedIsTaken, SetHolder
<1>6. HolderIsOwner'
  BY <1>1, <1>3, MonitorAssumption DEF LockInv, TypeOK, HolderIsOwner, SetHolder
<1>7. Control'
  BY <1>1, Zenon DEF LockInv, TypeOK, Control, SetHolder, Goto
<1>8. QED BY <1>2, <1>5, <1>6, <1>7, Zenon DEF LockInv

\* lock_release() up to the assignment to holder.
LEMMA ReleasePreserves ==
  ASSUME LockInv, NEW t \in Thread, NEW l \in Lock, lock_release(t, l)
  PROVE  LockInv'
<1>1. TypeOK'
  BY Zenon DEF LockInv, TypeOK, lock_release, Goto, Point
<1>2. MutualExclusion' /\ HolderIsOwner' /\ OwnedIsTaken'
  BY <1>1, OwnershipFrame, Zenon DEF LockInv, TypeOK, lock_release, Goto
<1>3. Control'
  BY Zenon DEF LockInv, TypeOK, Control, lock_release, Goto
<1>4. QED BY <1>1, <1>2, <1>3, Zenon DEF LockInv

\* lock->holder = NULL.
LEMMA ClearHolderPreserves ==
  ASSUME LockInv, NEW t \in Thread, ClearHolder(t)
  PROVE  LockInv'
<1> DEFINE l == lk[t]
<1>1. l \in Lock /\ l \in held[t]
  BY Zenon DEF LockInv, Control, ClearHolder
<1>2. TypeOK'
  BY <1>1, Zenon DEF LockInv, TypeOK, ClearHolder, Goto, Point
<1>3. \A u \in Thread : l \in held[u] => u = t
  BY <1>1, Zenon DEF LockInv, MutualExclusion, Owns
<1>4. \A u \in Thread, k \in Lock : Owns(u, k)' => Owns(u, k)
  BY <1>1, Zenon DEF LockInv, TypeOK, ClearHolder, Goto, Owns
<1>5. MutualExclusion' /\ OwnedIsTaken'
  BY <1>4, Zenon DEF LockInv, MutualExclusion, OwnedIsTaken, ClearHolder
<1>6. HolderIsOwner'
  BY <1>1, <1>3, MonitorAssumption DEF LockInv, TypeOK, HolderIsOwner, ClearHolder
<1>7. Control'
  BY <1>1, Zenon DEF LockInv, TypeOK, Control, ClearHolder, Goto
<1>8. QED BY <1>2, <1>5, <1>6, <1>7, Zenon DEF LockInv

\* The sema_up() that ends lock_release().
LEMMA LockUpPreserves ==
  ASSUME LockInv, NEW t \in Thread, LockUp(t)
  PROVE  LockInv'
<1>0. PICK l \in Lock : l = lk[t]
  BY Zenon DEF LockInv, Control, LockUp
<1>1. l = lk[t] /\ l \notin held[t] /\ Owns(t, l)
  BY <1>0, Zenon DEF LockInv, Control, LockUp, Owns
<1>2. value[l] = 0
  BY <1>1, Zenon DEF LockInv, OwnedIsTaken
<1>3. TypeOK'
  <2>1. value' \in [Lock -> {0, 1}]
    BY <1>1, <1>2 DEF LockInv, TypeOK, LockUp
  <2>2. pc' \in [Thread -> Point] /\ lk' \in [Thread -> Lock \cup {NULL}]
    BY Zenon DEF LockInv, TypeOK, LockUp, Goto, Point
  <2>3. QED BY <2>1, <2>2, Zenon DEF LockInv, TypeOK, LockUp
<1>4. \A u \in Thread, k \in Lock : Owns(u, k)' => Owns(u, k)
  BY <1>1 DEF LockInv, TypeOK, LockUp, Goto, Owns
<1>5. \A u \in Thread : ~Owns(u, l)'
  <2>1. ASSUME NEW u \in Thread, Owns(u, l)' PROVE FALSE
    <3>1. u = t
      BY <1>1, <1>4, <2>1, Zenon DEF LockInv, MutualExclusion
    <3>2. QED BY <1>1, <2>1, <3>1, Zenon DEF LockInv, TypeOK, LockUp, Goto, Owns
  <2>2. QED BY <2>1, Zenon
<1>6. MutualExclusion'
  BY <1>4, Zenon DEF LockInv, MutualExclusion
<1>7. \A k \in Lock \ {l} : value'[k] = value[k]
  BY <1>1, Zenon DEF LockInv, TypeOK, LockUp
<1>8. OwnedIsTaken'
  BY <1>4, <1>5, <1>7, Zenon DEF LockInv, OwnedIsTaken
<1>9. HolderIsOwner'
  BY Zenon DEF LockInv, HolderIsOwner, LockUp
<1>10. Control'
  BY <1>1 DEF LockInv, TypeOK, Control, LockUp, Goto
<1>11. QED BY <1>3, <1>6, <1>8, <1>9, <1>10, Zenon DEF LockInv

----------------------------------------------------------------------------
(* Steps on condition variables.                                           *)

InWait == {"release", "up", "wait"}

\* A step of t that moves no queue element, semaphore or signal, and neither
\* enters nor leaves the part of cond_wait() in which t can be signalled.
LEMMA WaitFrame ==
  ASSUME MonitorInv, NEW t \in Thread,
         UNCHANGED <<waiters, wsema, tgt>>,
         \A u \in Thread \ {t} : pc'[u] = pc[u] /\ cv'[u] = cv[u],
         pc[t] # "signal", pc'[t] # "signal",
         (pc[t] \in InWait /\ cv[t] # NULL) => pc'[t] \in InWait /\ cv'[t] = cv[t],
         (pc'[t] \in InWait /\ cv'[t] # NULL) => pc[t] \in InWait /\ cv'[t] = cv[t]
  PROVE  Waiting' /\ WaitersReachable'
<1>1. \A u \in Thread : Targeted(u)' <=> Targeted(u)
  BY Zenon DEF Targeted
<1>2. \A c \in Cond : Range(waiters[c]) \subseteq Thread
  BY DEF MonitorInv, LockInv, TypeOK, Range
<1>3. \A u \in Thread : (pc[u] \in InWait /\ cv[u] # NULL) =>
                          pc'[u] \in InWait /\ cv'[u] = cv[u]
  BY Zenon
<1>4. Waiting'
  <2>1. ASSUME NEW c \in Cond
        PROVE  /\ IsInjective(waiters'[c])
               /\ \A u \in Range(waiters'[c]) :
                    /\ pc'[u] \in InWait /\ cv'[u] = c /\ wsema'[u] = 0
                    /\ ~Targeted(u)'
    BY <1>1, <1>2, <1>3, MonitorAssumption DEF MonitorInv, Waiting, InWait
  <2>2. \A u \in Thread : pc'[u] = "signal" <=> pc[u] = "signal"
    BY Zenon
  <2>3. \A u \in Thread : pc[u] = "signal" => tgt[u] \in Thread
    BY Zenon DEF MonitorInv, LockInv, Control
  <2>4. \A u \in Thread :
          pc'[u] = "signal" => /\ pc'[tgt'[u]] \in InWait
                              /\ cv'[tgt'[u]] # NULL /\ wsema'[tgt'[u]] = 0
    BY <1>3, <2>2, <2>3 DEF MonitorInv, Waiting, InWait
  <2>5. \A u, v \in Thread :
          (pc'[u] = "signal" /\ pc'[v] = "signal" /\ tgt'[u] = tgt'[v]) => u = v
    BY <2>2 DEF MonitorInv, Waiting
  <2>6. QED BY <2>1, <2>4, <2>5, Zenon DEF Waiting, InWait
<1>5. WaitersReachable'
  BY <1>1, Zenon DEF MonitorInv, WaitersReachable, Queued, InWait
<1>6. QED BY <1>4, <1>5, Zenon

\* cond_wait() up to its lock_release().
LEMMA WaitPreserves ==
  ASSUME MonitorInv, NEW t \in Thread, NEW c \in Cond, cond_wait(t, c)
  PROVE  MonitorInv'
<1>1. /\ pc[t] = "run" /\ LockOf[c] \in held[t] /\ LockOf[c] \in Lock
      /\ waiters \in [Cond -> Seq(Thread)]
  BY MonitorAssumption, Zenon DEF MonitorInv, LockInv, TypeOK, cond_wait
<1>2. \A d \in Cond : Range(waiters[d]) \subseteq Thread
  BY <1>1 DEF Range
<1>3. /\ \A d \in Cond : t \notin Range(waiters[d])
      /\ ~Targeted(t)
      /\ \A d \in Cond : IsInjective(waiters[d])
  BY <1>1, Zenon DEF MonitorInv, Waiting, Targeted
<1>4. /\ waiters'[c] \in Seq(Thread) /\ IsInjective(waiters'[c])
      /\ Range(waiters'[c]) = Range(waiters[c]) \cup {t}
      /\ \A d \in Cond \ {c} : waiters'[d] = waiters[d]
      /\ waiters' \in [Cond -> Seq(Thread)]
  <2>1. waiters' = [waiters EXCEPT ![c] = Append(waiters[c], t)]
    BY Zenon DEF cond_wait
  <2>2. waiters[c] \in Seq(Thread) /\ IsInjective(waiters[c]) /\ t \notin Range(waiters[c])
    BY <1>1, <1>3, Zenon
  <2>3. /\ Append(waiters[c], t) \in Seq(Thread)
        /\ IsInjective(Append(waiters[c], t))
        /\ Range(Append(waiters[c], t)) = Range(waiters[c]) \cup {t}
    BY <2>2, PushBack
  <2>4. QED BY <1>1, <2>1, <2>3, Zenon
<1>5. /\ wsema'[t] = 0 /\ lk'[t] = LockOf[c] /\ cv'[t] = c /\ pc'[t] = "release"
      /\ \A u \in Thread \ {t} : /\ pc'[u] = pc[u] /\ cv'[u] = cv[u]
                                  /\ wsema'[u] = wsema[u] /\ lk'[u] = lk[u]
      /\ wsema' \in [Thread -> {0, 1}] /\ lk' \in [Thread -> Lock \cup {NULL}]
      /\ cv' \in [Thread -> Cond \cup {NULL}] /\ pc' \in [Thread -> Point]
      /\ UNCHANGED <<value, holder, held, tgt>>
  BY <1>1, Zenon DEF MonitorInv, LockInv, TypeOK, cond_wait, Goto, Point
<1>6. TypeOK'
  BY <1>4, <1>5, Zenon DEF MonitorInv, LockInv, TypeOK
<1>7. MutualExclusion' /\ HolderIsOwner' /\ OwnedIsTaken'
  BY <1>1, <1>5, OwnershipFrame, Zenon DEF MonitorInv
<1>8. Control'
  BY <1>1, <1>5 DEF MonitorInv, LockInv, Control
<1>9. \A u \in Thread : Targeted(u)' <=> Targeted(u)
  BY <1>1, <1>5, Zenon DEF Targeted
<1>10. Waiting'
  <2>1. ASSUME NEW d \in Cond
        PROVE  /\ IsInjective(waiters'[d])
               /\ \A u \in Range(waiters'[d]) :
                    /\ pc'[u] \in InWait /\ cv'[u] = d /\ wsema'[u] = 0
                    /\ ~Targeted(u)'
    <3>1. \A u \in Range(waiters[d]) :
             /\ u \in Thread \ {t} /\ pc[u] \in InWait /\ cv[u] = d /\ wsema[u] = 0
             /\ ~Targeted(u)
      BY <1>2, <1>3 DEF MonitorInv, Waiting, InWait
    <3>2. \A u \in Range(waiters[d]) :
             /\ pc'[u] \in InWait /\ cv'[u] = d /\ wsema'[u] = 0
             /\ ~Targeted(u)'
      BY <3>1, <1>5, <1>9, Zenon
    <3>3. QED BY <1>3, <1>4, <1>5, <1>9, <3>2 DEF InWait
  <2>2. \A u \in Thread : pc'[u] = "signal" =>
           /\ pc[u] = "signal" /\ tgt'[u] = tgt[u] /\ tgt[u] \in Thread \ {t}
    BY <1>1, <1>5 DEF MonitorInv, LockInv, Control, Waiting
  <2>3. \A u, v \in Thread :
          (pc'[u] = "signal" /\ pc'[v] = "signal" /\ tgt'[u] = tgt'[v]) => u = v
    BY <2>2 DEF MonitorInv, Waiting
  <2>4. \A u \in Thread :
          pc'[u] = "signal" => /\ pc'[tgt'[u]] \in InWait
                              /\ cv'[tgt'[u]] # NULL /\ wsema'[tgt'[u]] = 0
    BY <1>5, <2>2 DEF MonitorInv, Waiting, InWait
  <2>5. QED BY <2>1, <2>3, <2>4, Zenon DEF Waiting, InWait
<1>11. WaitersReachable'
  <2>1. \A d \in Cond : Range(waiters[d]) \subseteq Range(waiters'[d])
    BY <1>4, Zenon
  <2>2. cv \in [Thread -> Cond \cup {NULL}] /\ t \in Range(waiters'[c])
    BY <1>4, Zenon DEF MonitorInv, LockInv, TypeOK
  <2>3. ASSUME NEW u \in Thread, pc'[u] \in InWait, cv'[u] # NULL
        PROVE  u \in Range(waiters'[cv'[u]]) \/ Targeted(u)' \/ wsema'[u] > 0
    <3>1. CASE u = t
      BY <1>5, <2>2, <3>1, Zenon
    <3>2. CASE u # t
      <4>1. u \in Range(waiters[cv[u]]) \/ Targeted(u) \/ wsema[u] > 0
        BY <1>5, <2>3, <3>2, Zenon DEF MonitorInv, WaitersReachable, Queued, InWait
      <4>2. QED BY <1>5, <1>9, <2>1, <2>2, <2>3, <3>2, <4>1
    <3>3. QED BY <3>1, <3>2, Zenon
  <2>4. QED BY <2>3, Zenon DEF WaitersReachable, Queued, InWait
<1>12. QED BY <1>6, <1>7, <1>8, <1>10, <1>11, Zenon DEF MonitorInv, LockInv

\* The sema_down() of cond_wait().
LEMMA WaiterDownPreserves ==
  ASSUME MonitorInv, NEW t \in Thread, WaiterDown(t)
  PROVE  MonitorInv'
<1>1. pc[t] = "wait" /\ wsema[t] = 1
  BY DEF MonitorInv, LockInv, TypeOK, WaiterDown
<1>2. /\ wsema'[t] = 0 /\ pc'[t] = "acquire"
      /\ \A u \in Thread \ {t} : pc'[u] = pc[u] /\ wsema'[u] = wsema[u]
      /\ wsema' \in [Thread -> {0, 1}] /\ pc' \in [Thread -> Point]
      /\ UNCHANGED <<value, holder, waiters, held, lk, cv, tgt>>
  BY <1>1 DEF MonitorInv, LockInv, TypeOK, WaiterDown, Goto, Point
<1>3. TypeOK'
  BY <1>2, Zenon DEF MonitorInv, LockInv, TypeOK
<1>4. MutualExclusion' /\ HolderIsOwner' /\ OwnedIsTaken'
  BY <1>1, <1>2, <1>3, OwnershipFrame, Zenon DEF MonitorInv, TypeOK
<1>5. Control'
  BY <1>1, <1>2, Zenon DEF MonitorInv, LockInv, Control
<1>6. \A u \in Thread : Targeted(u)' <=> Targeted(u)
  BY <1>1, <1>2, Zenon DEF Targeted
<1>7. \A c \in Cond : \A u \in Range(waiters[c]) : u \in Thread \ {t}
  BY <1>1 DEF MonitorInv, LockInv, TypeOK, Waiting, Range
<1>8. \A u \in Thread : pc'[u] = "signal" =>
         pc[u] = "signal" /\ tgt[u] \in Thread \ {t}
  BY <1>1, <1>2 DEF MonitorInv, LockInv, Control, Waiting
<1>9. Waiting'
  BY <1>2, <1>6, <1>7, <1>8 DEF MonitorInv, Waiting
<1>10. WaitersReachable'
  BY <1>2, <1>6, Zenon DEF MonitorInv, WaitersReachable, Queued
<1>11. QED BY <1>3, <1>4, <1>5, <1>9, <1>10, Zenon DEF MonitorInv, LockInv

\* The first waiter of c is unlinked by cond_signal() or cond_broadcast().
LEMMA PopPreserves ==
  ASSUME MonitorInv, NEW t \in Thread, NEW c \in Cond,
         pc[t] \in {"run", "broadcast"}, Pop(t, c), UNCHANGED cv
  PROVE  MonitorInv'
<1> DEFINE h == Head(waiters[c])
<1>1. /\ waiters[c] \in Seq(Thread) /\ IsInjective(waiters[c]) /\ waiters[c] # <<>>
      /\ waiters \in [Cond -> Seq(Thread)]
  BY Zenon DEF MonitorInv, LockInv, TypeOK, Waiting, Pop
<1>2. /\ h \in Thread /\ h \in Range(waiters[c])
      /\ Tail(waiters[c]) \in Seq(Thread) /\ IsInjective(Tail(waiters[c]))
      /\ Range(Tail(waiters[c])) = Range(waiters[c]) \ {h}
  BY <1>1, PopFront, Zenon
<1>3. PICK w \in Thread : w = h
  BY <1>2, Zenon
<1>4. /\ waiters' \in [Cond -> Seq(Thread)] /\ IsInjective(waiters'[c])
      /\ Range(waiters'[c]) = Range(waiters[c]) \ {w}
      /\ \A d \in Cond \ {c} : waiters'[d] = waiters[d]
  BY <1>1, <1>2, <1>3, Zenon DEF Pop
<1>5. /\ tgt'[t] = w /\ pc'[t] = "signal"
      /\ \A u \in Thread \ {t} : pc'[u] = pc[u] /\ tgt'[u] = tgt[u]
      /\ tgt' \in [Thread -> Thread \cup {NULL}] /\ pc' \in [Thread -> Point]
      /\ UNCHANGED <<value, holder, wsema, held, lk, cv>>
  BY <1>3, Zenon DEF MonitorInv, LockInv, TypeOK, Pop, Goto, Point
<1> HIDE DEF h
<1>6. /\ pc[w] \in InWait /\ cv[w] = c /\ wsema[w] = 0 /\ ~Targeted(w) /\ w # t
  BY <1>2, <1>3 DEF MonitorInv, Waiting, InWait
<1>7. TypeOK'
  BY <1>4, <1>5, Zenon DEF MonitorInv, LockInv, TypeOK
<1>8. MutualExclusion' /\ HolderIsOwner' /\ OwnedIsTaken'
  BY <1>5, <1>7, OwnershipFrame, Zenon DEF MonitorInv, TypeOK
<1>9. Control'
  BY <1>5, Zenon DEF MonitorInv, LockInv, Control
<1>10. \A u \in Thread : Targeted(u)' <=> Targeted(u) \/ u = w
  BY <1>5, Zenon DEF Targeted
<1>11. Waiting'
  <2>1. ASSUME NEW d \in Cond
        PROVE  /\ IsInjective(waiters'[d])
               /\ \A u \in Range(waiters'[d]) :
                    /\ pc'[u] \in InWait /\ cv'[u] = d /\ wsema'[u] = 0
                    /\ ~Targeted(u)'
    <3>1. \A u \in Range(waiters[d]) :
             /\ u \in Thread \ {t} /\ pc[u] \in InWait /\ cv[u] = d /\ wsema[u] = 0
             /\ ~Targeted(u)
      BY <1>1 DEF MonitorInv, Waiting, InWait, Range
    <3>2. \A u \in Range(waiters'[d]) : u \in Range(waiters[d]) /\ u # w
      BY <1>4, <1>6, <3>1, Zenon
    <3>3. IsInjective(waiters'[d])
      BY <1>4, Zenon DEF MonitorInv, Waiting
    <3>4. QED BY <1>5, <1>10, <3>1, <3>2, <3>3, Zenon
  <2>2. \A u \in Thread \ {t} : pc'[u] = "signal" =>
           /\ pc[u] = "signal" /\ tgt'[u] = tgt[u] /\ tgt[u] \in Thread \ {t, w}
    BY <1>5, <1>6 DEF MonitorInv, LockInv, Control, Waiting, Targeted
  <2>3. \A u, v \in Thread :
          (pc'[u] = "signal" /\ pc'[v] = "signal" /\ tgt'[u] = tgt'[v]) => u = v
    BY <1>5, <2>2 DEF MonitorInv, Waiting
  <2>4. \A u \in Thread :
          pc'[u] = "signal" => /\ pc'[tgt'[u]] \in InWait
                              /\ cv'[tgt'[u]] # NULL /\ wsema'[tgt'[u]] = 0
    BY <1>5, <1>6, <2>2, MonitorAssumption DEF MonitorInv, Waiting, InWait
  <2>5. QED BY <2>1, <2>3, <2>4, Zenon DEF Waiting, InWait
<1>12. WaitersReachable'
  <2>1. ASSUME NEW u \in Thread, pc'[u] \in InWait, cv'[u] # NULL
        PROVE  u \in Range(waiters'[cv'[u]]) \/ Targeted(u)' \/ wsema'[u] > 0
    <3>1. u # t /\ cv[u] \in Cond /\ pc[u] \in InWait
      BY <1>5, <2>1, Zenon DEF MonitorInv, LockInv, TypeOK, InWait
    <3>2. u \in Range(waiters[cv[u]]) \/ Targeted(u) \/ wsema[u] > 0
      BY <1>5, <2>1, <3>1, Zenon DEF MonitorInv, WaitersReachable, Queued, InWait
    <3>3. CASE u = w
      BY <1>10, <3>3, Zenon
    <3>4. CASE u # w
      BY <1>4, <1>5, <1>10, <3>1, <3>2, <3>4, Zenon
    <3>5. QED BY <3>3, <3>4, Zenon
  <2>2. QED BY <2>1, Zenon DEF WaitersReachable, Queued, InWait
<1>13. QED BY <1>7, <1>8, <1>9, <1>11, <1>12, Zenon DEF MonitorInv, LockInv

\* The sema_up() of cond_signal(), on a waiter that is already unlinked.
LEMMA SignalUpPreserves ==
  ASSUME MonitorInv, NEW t \in Thread, SignalUp(t)
  PROVE  MonitorInv'
<1>1. PICK w \in Thread : w = tgt[t]
  BY Zenon DEF MonitorInv, LockInv, Control, SignalUp
<1>2. /\ pc[t] = "signal" /\ wsema[w] = 0 /\ pc[w] \in InWait /\ w # t /\ cv[w] # NULL
      /\ Targeted(w)
      /\ \A u \in Thread \ {t} : pc[u] = "signal" => tgt[u] # w
  BY <1>1, Zenon DEF MonitorInv, Waiting, SignalUp, InWait, Targeted
<1>3. /\ wsema'[w] = 1 /\ \A u \in Thread \ {w} : wsema'[u] = wsema[u]
      /\ wsema' \in [Thread -> {0, 1}]
      /\ tgt'[t] = NULL /\ pc'[t] \in {"run", "broadcast"}
      /\ pc'[t] = "run" => cv[t] = NULL
      /\ pc'[t] = "broadcast" => cv[t] # NULL
      /\ \A u \in Thread \ {t} : pc'[u] = pc[u] /\ tgt'[u] = tgt[u]
      /\ tgt' \in [Thread -> Thread \cup {NULL}] /\ pc' \in [Thread -> Point]
      /\ UNCHANGED <<value, holder, waiters, held, lk, cv>>
  BY <1>1, <1>2 DEF MonitorInv, LockInv, TypeOK, SignalUp, Goto, Point
<1>4. TypeOK'
  BY <1>3, Zenon DEF MonitorInv, LockInv, TypeOK
<1>5. MutualExclusion' /\ HolderIsOwner' /\ OwnedIsTaken'
  BY <1>2, <1>3, <1>4, OwnershipFrame, Zenon DEF MonitorInv, TypeOK
<1>6. Control'
  BY <1>3 DEF MonitorInv, LockInv, TypeOK, Control
<1>7. \A u \in Thread \ {w} : Targeted(u)' <=> Targeted(u)
  BY <1>1, <1>2, <1>3 DEF Targeted
<1>8. \A c \in Cond : \A u \in Range(waiters[c]) : u \in Thread \ {t, w}
  <2>1. \A c \in Cond : Range(waiters[c]) \subseteq Thread
    BY DEF MonitorInv, LockInv, TypeOK, Range
  <2>2. \A c \in Cond : \A u \in Range(waiters[c]) : ~Targeted(u) /\ pc[u] \in InWait
    BY Zenon DEF MonitorInv, Waiting, InWait
  <2>3. QED BY <1>2, <2>1, <2>2, Zenon DEF InWait
<1>9. \A u \in Thread : pc'[u] = "signal" =>
         /\ u # t /\ pc[u] = "signal" /\ tgt'[u] = tgt[u]
         /\ tgt[u] \in Thread \ {t, w}
  BY <1>2, <1>3 DEF MonitorInv, LockInv, Control, Waiting
<1>10. Waiting'
  BY <1>3, <1>7, <1>8, <1>9 DEF MonitorInv, Waiting
<1>11. WaitersReachable'
  BY <1>3, <1>7 DEF MonitorInv, WaitersReachable, Queued
<1>12. QED BY <1>4, <1>5, <1>6, <1>10, <1>11, Zenon DEF MonitorInv, LockInv

\* Entering cond_broadcast(), and leaving its loop.
LEMMA BroadcastPreserves ==
  ASSUME MonitorInv, NEW t \in Thread, NEW c \in Cond \cup {NULL},
         \/ pc[t] = "run" /\ c # NULL /\ pc' = [pc EXCEPT ![t] = "broadcast"]
         \/ pc[t] = "broadcast" /\ c = NULL /\ pc' = [pc EXCEPT ![t] = "run"],
         cv' = [cv EXCEPT ![t] = c],
         UNCHANGED <<value, holder, waiters, wsema, held, lk, tgt>>
  PROVE  MonitorInv'
<1>1. /\ pc[t] \in {"run", "broadcast"} /\ pc'[t] \in {"run", "broadcast"}
      /\ cv'[t] = c /\ (pc'[t] = "run" => c = NULL) /\ (pc'[t] = "broadcast" => c \in Cond)
      /\ \A u \in Thread \ {t} : pc'[u] = pc[u] /\ cv'[u] = cv[u]
      /\ pc' \in [Thread -> Point] /\ cv' \in [Thread -> Cond \cup {NULL}]
  BY Zenon DEF MonitorInv, LockInv, TypeOK, Point
<1>2. TypeOK'
  BY <1>1, Zenon DEF MonitorInv, LockInv, TypeOK
<1>3. MutualExclusion' /\ HolderIsOwner' /\ OwnedIsTaken'
  BY <1>1, <1>2, OwnershipFrame, Zenon DEF MonitorInv, TypeOK
<1>4. Control'
  BY <1>1 DEF MonitorInv, LockInv, Control
<1>5. Waiting' /\ WaitersReachable'
  BY <1>1, WaitFrame, Zenon DEF InWait
<1>6. QED BY <1>2, <1>3, <1>4, <1>5, Zenon DEF MonitorInv, LockInv

----------------------------------------------------------------------------
\* Every step of every thread preserves the invariant.
LEMMA NextInv ==
  MonitorInv /\ [Next]_vars => MonitorInv'
<1> SUFFICES ASSUME MonitorInv, [Next]_vars PROVE MonitorInv'
  BY Zenon
<1>1. ASSUME NEW t \in Thread, NEW l \in Lock,
             lock_acquire(t, l) \/ lock_try_acquire(t, l) \/ lock_release(t, l)
      PROVE  MonitorInv'
  <2>1. LockInv'
    BY <1>1, AcquirePreserves, ReleasePreserves, TakePreserves, Zenon
    DEF MonitorInv, lock_try_acquire, Goto
  <2>2. pc[t] = "run" /\ cv[t] = NULL
    BY <1>1, Zenon DEF lock_acquire, lock_try_acquire, lock_release, MonitorInv, LockInv, Control
  <2>3. /\ UNCHANGED <<waiters, wsema, tgt, cv>>
        /\ pc'[t] \in {"acquire", "set_holder", "release"}
        /\ \A u \in Thread \ {t} : pc'[u] = pc[u]
    BY <1>1, Zenon DEF lock_acquire, lock_try_acquire, lock_release, Goto,
                MonitorInv, LockInv, TypeOK
  <2>4. Waiting' /\ WaitersReachable'
    BY <2>2, <2>3, WaitFrame, Zenon DEF InWait
  <2>5. QED BY <2>1, <2>4, Zenon DEF MonitorInv
<1>2. ASSUME NEW t \in Thread,
             LockDown(t) \/ SetHolder(t) \/ ClearHolder(t) \/ LockUp(t)
      PROVE  MonitorInv'
  <2>1. CASE LockDown(t)
    <3>1. lk[t] \in Lock /\ lk[t] \notin held[t] /\ lk = [lk EXCEPT ![t] = lk[t]]
      BY <2>1, Zenon DEF LockDown, MonitorInv, LockInv, TypeOK, Control
    <3>2. LockInv'
      BY <2>1, <3>1, TakePreserves, Zenon DEF MonitorInv, LockDown, Goto
    <3>3. /\ UNCHANGED <<waiters, wsema, tgt, cv>>
          /\ pc[t] = "acquire" /\ pc'[t] = "set_holder"
          /\ \A u \in Thread \ {t} : pc'[u] = pc[u]
      BY <2>1, Zenon DEF LockDown, Goto, MonitorInv, LockInv, TypeOK
    <3>4. Waiting' /\ WaitersReachable'
      BY <3>3, WaitFrame, Zenon DEF InWait
    <3>5. QED BY <3>2, <3>4, Zenon DEF MonitorInv
  <2>2. CASE SetHolder(t)
    <3>1. /\ UNCHANGED <<waiters, wsema, tgt>>
          /\ pc[t] = "set_holder" /\ pc'[t] = "run"
          /\ \A u \in Thread \ {t} : pc'[u] = pc[u] /\ cv'[u] = cv[u]
      BY <2>2, Zenon DEF SetHolder, Goto, MonitorInv, LockInv, TypeOK
    <3>2. Waiting' /\ WaitersReachable'
      BY <3>1, WaitFrame, Zenon DEF InWait
    <3>3. QED BY <2>2, <3>2, SetHolderPreserves, Zenon DEF MonitorInv
  <2>3. CASE ClearHolder(t)
    <3>1. /\ UNCHANGED <<waiters, wsema, tgt, cv>>
          /\ pc[t] = "release" /\ pc'[t] = "up"
          /\ \A u \in Thread \ {t} : pc'[u] = pc[u]
      BY <2>3, Zenon DEF ClearHolder, Goto, MonitorInv, LockInv, TypeOK
    <3>2. Waiting' /\ WaitersReachable'
      BY <3>1, WaitFrame, Zenon DEF InWait
    <3>3. QED BY <2>3, <3>2, ClearHolderPreserves, Zenon DEF MonitorInv
  <2>4. CASE LockUp(t)
    <3>1. /\ UNCHANGED <<waiters, wsema, tgt, cv>>
          /\ pc[t] = "up"
          /\ \/ cv[t] = NULL /\ pc'[t] = "run"
             \/ cv[t] # NULL /\ pc'[t] = "wait"
          /\ \A u \in Thread \ {t} : pc'[u] = pc[u]
      BY <2>4, Zenon DEF LockUp, Goto, MonitorInv, LockInv, TypeOK
    <3>2. Waiting' /\ WaitersReachable'
      BY <3>1, WaitFrame, Zenon DEF InWait
    <3>3. QED BY <2>4, <3>2, LockUpPreserves, Zenon DEF MonitorInv
  <2>5. QED BY <1>2, <2>1, <2>2, <2>3, <2>4, Zenon
<1>3. ASSUME NEW t \in Thread, NEW c \in Cond, cond_signal(t, c) \/ cond_broadcast(t, c)
      PROVE  MonitorInv'
  BY <1>3, PopPreserves, BroadcastPreserves, MonitorAssumption, Zenon
  DEF cond_signal, cond_broadcast, Goto
<1>4. ASSUME NEW t \in Thread, BroadcastLoop(t) PROVE MonitorInv'
  <2>1. cv[t] \in Cond /\ pc[t] = "broadcast"
    BY <1>4, Zenon DEF BroadcastLoop, MonitorInv, LockInv, Control
  <2>2. CASE Pop(t, cv[t]) /\ UNCHANGED cv
    BY <2>1, <2>2, PopPreserves, Zenon
  <2>3. CASE /\ cv' = [cv EXCEPT ![t] = NULL]
             /\ Goto(t, "run")
             /\ UNCHANGED <<value, holder, waiters, wsema, held, lk, tgt>>
    BY <2>1, <2>3, BroadcastPreserves, Zenon DEF Goto
  <2>4. QED BY <1>4, <2>2, <2>3, Zenon DEF BroadcastLoop
<1>5. CASE UNCHANGED vars
  <2>1. UNCHANGED <<value, holder, waiters, wsema, held, pc, lk, cv, tgt>>
    BY <1>5, Zenon DEF vars
  <2>2. LockInv'
    BY <2>1, Zenon DEF MonitorInv, LockInv, TypeOK, MutualExclusion, HolderIsOwner,
                OwnedIsTaken, Control, Owns
  <2>3. Waiting' /\ WaitersReachable'
    BY <2>1 DEF MonitorInv, Waiting, WaitersReachable, Queued, Targeted
  <2>4. QED BY <2>2, <2>3, Zenon DEF MonitorInv
<1>6. QED
  BY <1>1, <1>2, <1>3, <1>4, <1>5, WaitPreserves, WaiterDownPreserves, SignalUpPreserves, Zenon
  DEF Next, Continue, Call

\* The invariant of locks and condition variables.
THEOREM MonitorInvariance ==
  Spec => []MonitorInv
BY InitInv, NextInv, PTL DEF Spec

\* At most one thread is between the sema_down() of its lock_acquire() and
\* the sema_up() of its lock_release().
THEOREM LocksExclude ==
  Spec => []MutualExclusion
<1>1. MonitorInv => MutualExclusion
  BY Zenon DEF MonitorInv, LockInv
<1>2. QED BY <1>1, MonitorInvariance, PTL

\* The ASSERTs on lock_held_by_current_thread() never fail in a thread that
\* uses its locks as lock_acquire() and lock_release() demand.
THEOREM HolderAssertsHold ==
  Spec => []HolderIsOwner
<1>1. MonitorInv => HolderIsOwner
  BY Zenon DEF MonitorInv, LockInv
<1>2. QED BY <1>1, MonitorInvariance, PTL

\* cond_wait() misses no signal sent after it has released the lock.
THEOREM NoSignalIsLost ==
  Spec => []WaitersReachable
<1>1. MonitorInv => WaitersReachable
  BY Zenon DEF MonitorInv
<1>2. QED BY <1>1, MonitorInvariance, PTL

\* cond_signal() ups no semaphore of a stack frame that cond_wait() has left.
THEOREM NoDanglingWaiter ==
  Spec => []ElementsAlive
<1>1. MonitorInv => ElementsAlive
  BY MonitorAssumption
  DEF MonitorInv, LockInv, TypeOK, Waiting, ElementsAlive, Targeted, Queued
<1>2. QED BY <1>1, MonitorInvariance, PTL
====
