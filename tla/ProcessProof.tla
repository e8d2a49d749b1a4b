---------------------------- MODULE ProcessProof ----------------------------
(***************************************************************************)
(* The theorems on parents and children: the links between them lead to    *)
(* processes that exist, wait() returns the status of the child that it    *)
(* was called for, once, and exec() returns the outcome of its own child's *)
(* load, for every number of processes, pages and statuses.  First the     *)
(* inductive invariant and exec(), from the creation of the child to the   *)
(* return of its tid; then wait() and exit().                              *)
(***************************************************************************)
EXTENDS Process, ListLemmas

Loading == {"start", "load", "exec_up"}

LinkTypes ==
  /\ live \in [Slot -> BOOLEAN] /\ tid \in [Slot -> Nat]
  /\ parent \in [Slot -> Slot \cup {NULL}] /\ child_list \in [Slot -> Seq(Slot)]
  /\ next_tid \in Nat \ {0} /\ creator \in [Slot -> Nat]

SemaTypes ==
  /\ exec_sema \in [Slot -> Nat] /\ wait_sema \in [Slot -> Nat] /\ exit_sema \in [Slot -> Nat]

StatusTypes ==
  /\ exec_status \in [Slot -> BOOLEAN] /\ exit_status \in [Slot -> Int]
  /\ pid \in [Slot -> Int] /\ loaded \in [Slot -> BOOLEAN]
  /\ collected \in Seq(Nat \X Int)

PlaceTypes == pc \in [Slot -> Point] /\ arg \in [Slot -> Slot \cup {NULL}]

TypeOK == LinkTypes /\ SemaTypes /\ StatusTypes /\ PlaceTypes

\* A page holds a thread exactly if somebody runs on it, no two threads have
\* one tid, and the initial thread is nobody's child.
Threads ==
  /\ \A p \in Slot : live[p] <=> pc[p] # "none"
  /\ \A p \in Slot : live[p] => tid[p] < next_tid /\ (p # main => tid[p] > 0)
  /\ \A p, q \in Slot : live[p] /\ live[q] /\ tid[p] = tid[q] => p = q
  /\ live[main] /\ tid[main] = 0 /\ parent[main] = NULL /\ exit_sema[main] = 0
  /\ pc[main] # "exec_down" /\ \A p \in Slot : pc[p] = "wait" => p = main

\* c is in the hands of p: on its list of children, or taken off it by a wait()
\* that has yet to let it die.
Held(p, c) == c \in Range(child_list[p]) \/ (pc[p] = "reap" /\ arg[p] = c)

\* A child in somebody's hands is there, has not been let go, and nobody has
\* its status.
Children ==
  /\ \A p \in Slot : IsInjective(child_list[p])
  /\ \A p \in Slot : pc[p] \in {"none", "exit_down"} => child_list[p] = <<>>
  /\ \A p, c \in Slot : Held(p, c) =>
       /\ live[c] /\ parent[c] = p /\ creator[c] = tid[p] /\ exit_sema[c] = 0
       /\ \A i \in DOMAIN collected : collected[i][1] # tid[c]
  /\ \A i \in DOMAIN collected : collected[i][1] < next_tid

\* The process a wait() was called for, and when it is told.
Waits ==
  /\ \A p \in Slot : pc[p] = "wait_down" => arg[p] \in Range(child_list[p])
  /\ \A p \in Slot : pc[p] = "reap" =>
       /\ arg[p] \in Slot /\ arg[p] \notin Range(child_list[p])
       /\ pc[arg[p]] = "exit_down"
  /\ \A c \in Slot : wait_sema[c] > 0 => pc[c] = "exit_down"
  /\ \A c \in Slot : pc[c] \in {"orphans", "exit_down"} => <<tid[c], exit_status[c]>> \in ended

\* A child that is being loaded has its parent waiting for it, unless that is
\* the initial thread, which never goes away.
LoadOf(c) ==
  pc[c] \in Loading =>
    /\ parent[c] \in Slot /\ live[parent[c]] /\ tid[parent[c]] = creator[c]
    /\ parent[c] # main =>
         /\ c \in Range(child_list[parent[c]])
         /\ pc[parent[c]] \in {"free_copy", "exec_down"}
         /\ pid[parent[c]] = tid[c] /\ exec_sema[parent[c]] = 0
         /\ pc[c] = "exec_up" => exec_status[parent[c]] = loaded[c]

Loads == \A c \in Slot : LoadOf(c)

\* exec_sema of a process counts the loads that are over and that exec() has
\* not seen: at most the one it waits for.
ExecOf(p) ==
  exec_sema[p] > 0 =>
    /\ exec_sema[p] = 1 /\ pc[p] \in {"free_copy", "exec_down"}
    /\ \E c \in Range(child_list[p]) :
         /\ tid[c] = pid[p] /\ pc[c] \notin Loading
         /\ loaded[c] = exec_status[p]

Execs == \A p \in Slot \ {main} : ExecOf(p)

Collected ==
  /\ Range(collected) \subseteq ended
  /\ \A i, j \in DOMAIN collected : collected[i][1] = collected[j][1] => i = j

ProcInv == TypeOK /\ Threads /\ Children /\ Waits /\ Loads /\ Execs /\ Collected

----------------------------------------------------------------------------
\* The invariant holds at boot, with the initial thread alone.
LEMMA ProcInit == Init => ProcInv
<1> SUFFICES ASSUME Init PROVE ProcInv
  BY Zenon
<1> USE ProcessAssumption
<1>0. /\ \A p \in Slot : child_list[p] = <<>> /\ Range(child_list[p]) = {} /\ IsInjective(child_list[p])
      /\ DOMAIN collected = {} /\ Range(collected) = {}
  BY EmptyList DEF Init
<1>1. TypeOK
  <2>1. LinkTypes
    BY EmptyList DEF Init, LinkTypes
  <2>2. SemaTypes /\ StatusTypes
    BY EmptyList DEF Init, SemaTypes, StatusTypes
  <2>3. PlaceTypes
    BY Zenon DEF Init, PlaceTypes, Point
  <2>4. QED BY <2>1, <2>2, <2>3, Zenon DEF TypeOK
<1>2. Threads
  <2>1. /\ \A p \in Slot : (live[p] <=> p = main) /\ tid[p] = 0 /\ parent[p] = NULL /\ exit_sema[p] = 0
        /\ \A p \in Slot : pc[p] = IF p = main THEN "user" ELSE "none"
        /\ next_tid = 1
    BY Zenon DEF Init
  <2>2. QED BY <2>1 DEF Threads
<1>3. Children
  BY <1>0, Zenon DEF Init, Children, Held
<1>4. Waits
  BY <1>0 DEF Init, Waits
<1>5. Loads
  BY Zenon DEF Init, Loads, LoadOf, Loading
<1>6. Execs
  BY DEF Init, Execs, ExecOf
<1>7. Collected
  BY <1>0, Zenon DEF Collected
<1>8. QED BY <1>1, <1>2, <1>3, <1>4, <1>5, <1>6, <1>7, Zenon DEF ProcInv

\* A semaphore's new value, and the others'.
LEMMA Assign ==
  ASSUME NEW f \in [Slot -> Nat], NEW c, NEW n \in Nat
  PROVE  /\ [f EXCEPT ![c] = n] \in [Slot -> Nat]
         /\ \A q \in Slot \ {c} : [f EXCEPT ![c] = n][q] = f[q]
BY Zenon

\* The elements of a list of children.
LEMMA ChildrenAreSlots ==
  ASSUME TypeOK, NEW p \in Slot
  PROVE  Range(child_list[p]) \subseteq Slot
<1>1. child_list[p] \in Seq(Slot)
  BY Zenon DEF TypeOK, LinkTypes
<1>2. ASSUME NEW s \in Seq(Slot) PROVE Range(s) \subseteq Slot
  BY DEF Range
<1>3. QED BY <1>1, <1>2, Zenon

\* A step that takes p from one place to another and leaves the links and the
\* semaphores of waits and exits alone.
Quiet(p) ==
  /\ UNCHANGED <<links, wait_sema, exit_sema, collected>>
  /\ ended \subseteq ended'
  /\ \A q \in Slot \ {p} : pc'[q] = pc[q] /\ arg'[q] = arg[q] /\ exit_status'[q] = exit_status[q]
  /\ pc[p] \notin {"none", "reap", "orphans", "exit_down"}
  /\ pc'[p] \notin {"none", "reap", "exit_down"}
  /\ pc'[p] = "wait" => p = main
  /\ pc'[p] = "exec_down" => p # main
  /\ pc'[p] = "wait_down" => arg'[p] \in Range(child_list[p])
  /\ pc'[p] = "orphans" => <<tid[p], exit_status'[p]>> \in ended'

\* Such a step keeps all but what is said of loads.
LEMMA QuietKeeps ==
  ASSUME ProcInv, NEW p \in Slot, Quiet(p)
  PROVE  Threads' /\ Children' /\ Waits' /\ Collected'
<1> USE DEF ProcInv
<1>0. /\ live' = live /\ tid' = tid /\ parent' = parent /\ child_list' = child_list
      /\ next_tid' = next_tid /\ creator' = creator
      /\ wait_sema' = wait_sema /\ exit_sema' = exit_sema /\ collected' = collected
  BY Zenon DEF Quiet, links
<1>1. Threads'
  <2>1. \A q \in Slot : pc'[q] # "none" <=> pc[q] # "none"
    BY Zenon DEF Quiet
  <2>2. pc'[main] # "exec_down" /\ \A q \in Slot : pc'[q] = "wait" => q = main
    BY ProcessAssumption, Zenon DEF Quiet, Threads
  <2>3. QED BY <1>0, <2>1, <2>2, Zenon DEF Threads
<1>2. \A q, c \in Slot : Held(q, c)' <=> Held(q, c)
  BY <1>0, Zenon DEF Quiet, Held
<1>3. Children'
  BY <1>0, <1>2 DEF Children, Quiet
<1>4. Waits'
  <2>1. ASSUME NEW q \in Slot, pc'[q] = "wait_down" PROVE arg'[q] \in Range(child_list[q])
    BY <2>1, Zenon DEF Waits, Quiet
  <2>2. ASSUME NEW q \in Slot, pc'[q] = "reap"
        PROVE  /\ arg'[q] \in Slot /\ arg'[q] \notin Range(child_list[q])
               /\ pc'[arg'[q]] = "exit_down"
    BY <2>2 DEF Waits, Quiet
  <2>3. ASSUME NEW c \in Slot, wait_sema[c] > 0 PROVE pc'[c] = "exit_down"
    BY <2>3, Zenon DEF Waits, Quiet
  <2>4. ASSUME NEW c \in Slot, pc'[c] \in {"orphans", "exit_down"}
        PROVE  <<tid[c], exit_status'[c]>> \in ended'
    BY <2>4, Zenon DEF Waits, Quiet
  <2>5. QED BY <1>0, <2>1, <2>2, <2>3, <2>4, Zenon DEF Waits
<1>5. Collected'
  BY <1>0, Zenon DEF Collected, Quiet
<1>6. QED BY <1>1, <1>3, <1>4, <1>5, Zenon

\* A step that leaves what LoadOf (c) reads as it was.
SameLoad(c) ==
  pc'[c] \in Loading =>
    /\ pc[c] \in Loading /\ (pc'[c] = "exec_up" => pc[c] = "exec_up")
    /\ parent'[c] = parent[c] /\ creator'[c] = creator[c] /\ tid'[c] = tid[c]
    /\ live'[parent[c]] = live[parent[c]] /\ tid'[parent[c]] = tid[parent[c]]
    /\ parent[c] # main =>
         /\ child_list'[parent[c]] = child_list[parent[c]]
         /\ pc'[parent[c]] \in {"free_copy", "exec_down"}
         /\ pid'[parent[c]] = pid[parent[c]] /\ exec_sema'[parent[c]] = exec_sema[parent[c]]
         /\ exec_status'[parent[c]] = exec_status[parent[c]] /\ loaded'[c] = loaded[c]

\* A step that leaves what ExecOf (p) reads as it was.
SameExec(p) ==
  exec_sema'[p] > 0 =>
    /\ exec_sema'[p] = exec_sema[p] /\ child_list'[p] = child_list[p]
    /\ pc'[p] \in {"free_copy", "exec_down"}
    /\ pid'[p] = pid[p] /\ exec_status'[p] = exec_status[p]
    /\ \A c \in Range(child_list[p]) :
         /\ tid'[c] = tid[c] /\ loaded'[c] = loaded[c]
         /\ pc[c] \notin Loading => pc'[c] \notin Loading

\* Such steps keep what is said of a load.
LEMMA SameLoadKeeps ==
  ASSUME NEW c \in Slot, LoadOf(c), SameLoad(c)
  PROVE  LoadOf(c)'
BY Zenon DEF LoadOf, SameLoad

\* Such steps keep what is said of an exec().
LEMMA SameExecKeeps ==
  ASSUME NEW p \in Slot, ExecOf(p), SameExec(p)
  PROVE  ExecOf(p)'
BY Zenon DEF ExecOf, SameExec

\* A quiet step of a process that is neither past a load nor finishes one, and
\* that goes on to wait for a load if it has started one.
Moves(p) ==
  /\ Quiet(p)
  /\ UNCHANGED <<exec_sema, exec_status, loaded>>
  /\ \A q \in Slot \ {p} : pid'[q] = pid[q]
  /\ pc'[p] \in Loading => pc[p] \in Loading /\ pc'[p] # "exec_up"
  /\ (pc[p] \in {"free_copy", "exec_down"} /\ p # main) =>
        pc'[p] = "exec_down" /\ pid'[p] = pid[p]

\* Such a step keeps the invariant.
LEMMA MovesKeep ==
  ASSUME ProcInv, TypeOK', NEW p \in Slot, Moves(p)
  PROVE  ProcInv'
<1>1. Threads' /\ Children' /\ Waits' /\ Collected'
  BY QuietKeeps, Zenon DEF Moves
<1>2. ASSUME NEW c \in Slot PROVE LoadOf(c)'
  <2>1. LoadOf(c)
    BY Zenon DEF ProcInv, Loads
  <2>2. SameLoad(c)
    BY <2>1 DEF SameLoad, LoadOf, Moves, Quiet, links
  <2>3. QED BY <2>1, <2>2, SameLoadKeeps, Zenon
<1>3. ASSUME NEW q \in Slot \ {main} PROVE ExecOf(q)'
  <2>1. ExecOf(q) /\ Range(child_list[q]) \subseteq Slot
    BY ChildrenAreSlots, Zenon DEF ProcInv, Execs
  <2>2. SameExec(q)
    BY <2>1, Zenon DEF SameExec, ExecOf, Moves, Quiet, links
  <2>3. QED BY <2>1, <2>2, SameExecKeeps, Zenon
<1>4. QED BY <1>1, <1>2, <1>3, Zenon DEF ProcInv, Loads, Execs

\* What thread_create() of c by p does to the links, ...
LinkedTo(p, c) ==
  /\ next_tid' = next_tid + 1 /\ collected' = collected /\ ended' = ended
  /\ live'[c] = TRUE /\ tid'[c] = next_tid /\ parent'[c] = p /\ creator'[c] = tid[p]
  /\ \A q \in Slot \ {c} : /\ live'[q] = live[q] /\ tid'[q] = tid[q]
                           /\ parent'[q] = parent[q] /\ creator'[q] = creator[q]

\* ... to the lists of children, ...
ListedBy(p, c) ==
  /\ child_list'[c] = <<>> /\ Range(child_list'[c]) = {} /\ IsInjective(child_list'[c])
  /\ Range(child_list'[p]) = Range(child_list[p]) \cup {c} /\ IsInjective(child_list'[p])
  /\ \A q \in Slot \ {p, c} : child_list'[q] = child_list[q]

\* ... to the places where processes stand ...
StartedBy(p, c) ==
  /\ pc'[c] = "start" /\ pc'[p] = "free_copy" /\ pid'[p] = next_tid
  /\ \A q \in Slot \ {c} : /\ arg'[q] = arg[q]
                           /\ q # p => pc'[q] = pc[q] /\ pid'[q] = pid[q]

\* ... and to the semaphores and statuses.
Reset(c) ==
  /\ exec_sema'[c] = 0 /\ wait_sema'[c] = 0 /\ exit_sema'[c] = 0
  /\ \A q \in Slot \ {c} :
       /\ exec_sema'[q] = exec_sema[q] /\ wait_sema'[q] = wait_sema[q]
       /\ exit_sema'[q] = exit_sema[q] /\ loaded'[q] = loaded[q]
       /\ exec_status'[q] = exec_status[q] /\ exit_status'[q] = exit_status[q]

\* The page that a new thread gets is not that of its creator, nor of anybody's
\* child.
Fresh(p, c) ==
  /\ p # c /\ c # main /\ live[p] /\ ~live[c] /\ pc[p] = "create" /\ pc[c] = "none"
  /\ \A q \in Slot : c \notin Range(child_list[q])

\* thread_create(), variable by variable.
LEMMA NewThreadFacts ==
  ASSUME ProcInv, NEW p \in Slot, NEW c \in Slot,
         pc[p] = "create", ~live[c], NewThread(p, c)
  PROVE  Fresh(p, c) /\ LinkedTo(p, c) /\ ListedBy(p, c) /\ StartedBy(p, c) /\ Reset(c)
<1>1. Fresh(p, c)
  <2>1. live[p] /\ pc[c] = "none" /\ c # main
    BY Zenon DEF ProcInv, Threads
  <2>2. \A q \in Slot : c \notin Range(child_list[q])
    BY Zenon DEF ProcInv, Children, Held
  <2>3. QED BY <2>1, <2>2, Zenon DEF Fresh
<1>2. LinkedTo(p, c)
  BY Zenon DEF LinkedTo, NewThread, past, ProcInv, TypeOK, LinkTypes
<1>3. ListedBy(p, c)
  <2>1. child_list \in [Slot -> Seq(Slot)] /\ IsInjective(child_list[p])
    BY Zenon DEF ProcInv, TypeOK, LinkTypes, Children
  <2>2. /\ child_list'[c] = <<>> /\ child_list'[p] = Append(child_list[p], c)
        /\ \A q \in Slot \ {p, c} : child_list'[q] = child_list[q]
    BY <1>1, <2>1, Zenon DEF NewThread, Fresh
  <2>3. /\ IsInjective(Append(child_list[p], c))
        /\ Range(Append(child_list[p], c)) = Range(child_list[p]) \cup {c}
    BY <1>1, <2>1, PushBack DEF Fresh
  <2>4. QED BY <2>2, <2>3, EmptyList, Zenon DEF ListedBy
<1>4. StartedBy(p, c)
  BY <1>1, Zenon DEF StartedBy, Fresh, NewThread, ProcInv, TypeOK, StatusTypes, PlaceTypes
<1>5. Reset(c)
  BY Zenon DEF Reset, NewThread, ProcInv, TypeOK, SemaTypes, StatusTypes
<1>6. QED BY <1>1, <1>2, <1>3, <1>4, <1>5, Zenon

\* Every variable keeps its type.
LEMMA NewThreadTypes ==
  ASSUME ProcInv, NEW p \in Slot, NEW c \in Slot, NewThread(p, c)
  PROVE  TypeOK'
<1>1. child_list' \in [Slot -> Seq(Slot)]
  <2>1. child_list \in [Slot -> Seq(Slot)] /\ Append(child_list[p], c) \in Seq(Slot)
    BY DEF ProcInv, TypeOK, LinkTypes
  <2>2. QED BY <2>1, EmptyList, Zenon DEF NewThread
<1>2. LinkTypes'
  <2>1. live' \in [Slot -> BOOLEAN] /\ parent' \in [Slot -> Slot \cup {NULL}]
    BY Zenon DEF NewThread, ProcInv, TypeOK, LinkTypes
  <2>2. tid[p] \in Nat
    BY Zenon DEF ProcInv, TypeOK, LinkTypes
  <2>3. tid' \in [Slot -> Nat] /\ creator' \in [Slot -> Nat] /\ next_tid' \in Nat \ {0}
    BY <2>2 DEF NewThread, ProcInv, TypeOK, LinkTypes
  <2>4. QED BY <1>1, <2>1, <2>3, Zenon DEF LinkTypes
<1>3. SemaTypes'
  BY Zenon DEF NewThread, ProcInv, TypeOK, SemaTypes
<1>4. StatusTypes'
  <2>1. next_tid \in Int
    BY DEF ProcInv, TypeOK, LinkTypes
  <2>2. QED BY <2>1 DEF NewThread, past, ProcInv, TypeOK, StatusTypes
<1>5. PlaceTypes'
  BY Zenon DEF NewThread, ProcInv, TypeOK, PlaceTypes, Point
<1>6. QED BY <1>2, <1>3, <1>4, <1>5, Zenon DEF TypeOK

\* The new thread has a tid of its own.
LEMMA NewThreadThreads ==
  ASSUME Threads, LinkTypes, NEW p \in Slot, NEW c \in Slot,
         Fresh(p, c), LinkedTo(p, c), StartedBy(p, c), Reset(c)
  PROVE  Threads'
<1>1. \A q \in Slot : live'[q] <=> pc'[q] # "none"
  BY DEF Threads, Fresh, LinkedTo, StartedBy
<1>2. next_tid \in Nat /\ next_tid > 0 /\ next_tid' = next_tid + 1 /\ tid'[c] = next_tid
  BY DEF LinkTypes, LinkedTo
<1>3. ASSUME NEW q \in Slot \ {c}, live'[q]
      PROVE  /\ live[q] /\ tid'[q] = tid[q] /\ tid'[q] \in Nat
             /\ tid'[q] < next_tid /\ (q # main => tid'[q] > 0)
  BY <1>3, Zenon DEF Threads, LinkTypes, LinkedTo
<1>4. \A q \in Slot : live'[q] => tid'[q] < next_tid' /\ (q # main => tid'[q] > 0)
  BY <1>2, <1>3
<1>5. ASSUME NEW q \in Slot, NEW r \in Slot, live'[q], live'[r], tid'[q] = tid'[r]
      PROVE  q = r
  BY <1>2, <1>3, <1>5 DEF Threads
<1>6. /\ live'[main] /\ tid'[main] = 0 /\ parent'[main] = NULL /\ exit_sema'[main] = 0
      /\ pc'[main] # "exec_down"
  BY ProcessAssumption DEF Threads, Fresh, LinkedTo, StartedBy, Reset
<1>7. \A q \in Slot : pc'[q] = "wait" => q = main
  BY Zenon DEF Threads, StartedBy
<1>8. QED BY <1>1, <1>4, <1>5, <1>6, <1>7, Zenon DEF Threads

\* It is the youngest child of its creator and of nobody else.
LEMMA NewThreadChildren ==
  ASSUME ProcInv, NEW p \in Slot, NEW c \in Slot,
         Fresh(p, c), LinkedTo(p, c), ListedBy(p, c), StartedBy(p, c), Reset(c)
  PROVE  Children'
<1>1. \A q \in Slot : IsInjective(child_list'[q])
  BY Zenon DEF ProcInv, Children, ListedBy
<1>2. \A q \in Slot : pc'[q] \in {"none", "exit_down"} => child_list'[q] = <<>>
  BY DEF ProcInv, Children, ListedBy, StartedBy
<1>3. ASSUME NEW q \in Slot, NEW d \in Slot, Held(q, d)'
      PROVE  (q = p /\ d = c) \/ (q # c /\ d # c /\ Held(q, d))
  <2>1. q # c
    BY <1>3, Zenon DEF Held, ListedBy, StartedBy
  <2>2. CASE q = p
    BY <1>3, <2>2, Zenon DEF Held, Fresh, ListedBy, StartedBy
  <2>3. CASE q # p
    <3>1. Held(q, d)
      BY <1>3, <2>1, <2>3, Zenon DEF Held, ListedBy, StartedBy
    <3>2. QED BY <2>1, <3>1 DEF ProcInv, Children, Fresh
  <2>4. QED BY <2>2, <2>3, Zenon
<1>4. ASSUME NEW q \in Slot, NEW d \in Slot, Held(q, d)'
      PROVE  /\ live'[d] /\ parent'[d] = q /\ creator'[d] = tid'[q] /\ exit_sema'[d] = 0
             /\ \A i \in DOMAIN collected : collected[i][1] # tid'[d]
  <2>1. CASE q = p /\ d = c
    BY <2>1 DEF ProcInv, Children, TypeOK, LinkTypes, Fresh, LinkedTo, Reset
  <2>2. CASE q # c /\ d # c /\ Held(q, d)
    <3>1. /\ live[d] /\ parent[d] = q /\ creator[d] = tid[q] /\ exit_sema[d] = 0
          /\ \A i \in DOMAIN collected : collected[i][1] # tid[d]
      BY <2>2 DEF ProcInv, Children
    <3>2. /\ live'[d] = live[d] /\ parent'[d] = parent[d] /\ creator'[d] = creator[d]
          /\ tid'[q] = tid[q] /\ tid'[d] = tid[d]
      BY <2>2, Zenon DEF LinkedTo
    <3>3. exit_sema'[d] = exit_sema[d]
      BY <2>2, Zenon DEF Reset
    <3>4. QED BY <3>1, <3>2, <3>3, Zenon
  <2>3. QED BY <1>3, <1>4, <2>1, <2>2, Zenon
<1>5. \A i \in DOMAIN collected : collected[i][1] < next_tid'
  <2>1. \A i \in DOMAIN collected : collected[i][1] \in Nat
    BY DEF ProcInv, TypeOK, StatusTypes
  <2>2. next_tid \in Nat /\ next_tid' = next_tid + 1
    BY Zenon DEF ProcInv, TypeOK, LinkTypes, LinkedTo
  <2>3. QED BY <2>1, <2>2 DEF ProcInv, Children
<1>6. collected' = collected
  BY Zenon DEF LinkedTo
<1>7. QED BY <1>1, <1>2, <1>4, <1>5, <1>6 DEF Children

\* Nobody was waiting for the page.
LEMMA NewThreadWaits ==
  ASSUME Waits, NEW p \in Slot, NEW c \in Slot,
         Fresh(p, c), LinkedTo(p, c), ListedBy(p, c), StartedBy(p, c), Reset(c)
  PROVE  Waits'
<1>1. ASSUME NEW q \in Slot, pc'[q] = "wait_down" PROVE arg'[q] \in Range(child_list'[q])
  BY <1>1, Zenon DEF Waits, ListedBy, StartedBy
<1>2. ASSUME NEW q \in Slot, pc'[q] = "reap"
      PROVE  /\ arg'[q] \in Slot /\ arg'[q] \notin Range(child_list'[q])
             /\ pc'[arg'[q]] = "exit_down"
  BY <1>2 DEF Waits, Fresh, ListedBy, StartedBy
<1>3. ASSUME NEW d \in Slot, wait_sema'[d] > 0 PROVE pc'[d] = "exit_down"
  BY <1>3 DEF Waits, Fresh, StartedBy, Reset
<1>4. ASSUME NEW d \in Slot, pc'[d] \in {"orphans", "exit_down"}
      PROVE  <<tid'[d], exit_status'[d]>> \in ended'
  BY <1>4, Zenon DEF Waits, LinkedTo, StartedBy, Reset
<1>5. QED BY <1>1, <1>2, <1>3, <1>4, Zenon DEF Waits

\* It is being loaded, and its creator waits for that.
LEMMA NewThreadLoads ==
  ASSUME ProcInv, NEW p \in Slot, NEW c \in Slot,
         Fresh(p, c), LinkedTo(p, c), ListedBy(p, c), StartedBy(p, c), Reset(c)
  PROVE  Loads' /\ Execs'
<1>1. exec_sema'[p] = exec_sema[p] /\ (p # main => exec_sema[p] = 0)
  BY DEF ProcInv, Execs, ExecOf, TypeOK, SemaTypes, Fresh, Reset
<1>2. LoadOf(c)'
  BY <1>1, Zenon DEF LoadOf, Fresh, LinkedTo, ListedBy, StartedBy
<1>3. ASSUME NEW d \in Slot \ {c} PROVE LoadOf(d)'
  <2>1. LoadOf(d)
    BY Zenon DEF ProcInv, Loads
  <2>2. pc'[d] \in Loading => pc'[d] = pc[d] /\ d # p
    BY Zenon DEF StartedBy, Loading
  <2>3. pc[d] \in Loading => /\ parent[d] \in Slot /\ parent[d] # c
                             /\ parent[d] # main => parent[d] # p
    BY <2>1, Zenon DEF LoadOf, Fresh
  <2>4. SameLoad(d)
    <3> SUFFICES ASSUME pc'[d] \in Loading PROVE SameLoad(d)
      BY Zenon DEF SameLoad
    <3>1. PICK q \in Slot \ {c} : q = parent[d]
      BY <2>2, <2>3, Zenon
    <3>2. /\ pc[d] \in Loading /\ d # p /\ (q # main => q # p)
          /\ q # main => pc[q] \in {"free_copy", "exec_down"}
      BY <2>1, <2>2, <2>3, <3>1, Zenon DEF LoadOf
    <3>3. /\ parent'[d] = parent[d] /\ creator'[d] = creator[d] /\ tid'[d] = tid[d]
          /\ live'[q] = live[q] /\ tid'[q] = tid[q]
      BY Zenon DEF LinkedTo
    <3>4. q # main => /\ child_list'[q] = child_list[q] /\ pc'[q] = pc[q] /\ pid'[q] = pid[q]
      BY <3>2, Zenon DEF ListedBy, StartedBy
    <3>5. exec_sema'[q] = exec_sema[q] /\ exec_status'[q] = exec_status[q] /\ loaded'[d] = loaded[d]
      BY Zenon DEF Reset
    <3>6. QED BY <2>2, <3>1, <3>2, <3>3, <3>4, <3>5, Zenon DEF SameLoad
  <2>5. QED BY <2>1, <2>4, SameLoadKeeps, Zenon
<1>4. ASSUME NEW q \in Slot \ {main} PROVE ExecOf(q)'
  <2>1. ExecOf(q) /\ Range(child_list[q]) \subseteq Slot \ {c}
    BY ChildrenAreSlots, Zenon DEF ProcInv, Execs, Fresh
  <2>2. exec_sema'[q] > 0 => q # c /\ q # p
    BY <1>1 DEF Reset
  <2>3. ASSUME NEW d \in Range(child_list[q])
        PROVE  /\ tid'[d] = tid[d] /\ loaded'[d] = loaded[d]
               /\ pc[d] \notin Loading => pc'[d] \notin Loading
    <3>1. d \in Slot \ {c}
      BY <2>1, Zenon
    <3>2. QED BY <3>1, Zenon DEF LinkedTo, StartedBy, Reset, Loading
  <2>4. exec_sema'[q] > 0 => /\ exec_sema'[q] = exec_sema[q] /\ child_list'[q] = child_list[q]
                             /\ pc'[q] = pc[q] /\ pid'[q] = pid[q]
                             /\ exec_status'[q] = exec_status[q]
    BY <2>2, Zenon DEF ListedBy, StartedBy, Reset
  <2>5. exec_sema[q] > 0 => pc[q] \in {"free_copy", "exec_down"}
    BY <2>1, Zenon DEF ExecOf
  <2>6. SameExec(q)
    BY ONLY <2>3, <2>4, <2>5, Zenon DEF SameExec
  <2>7. QED BY <2>1, <2>6, SameExecKeeps, Zenon
<1>5. QED BY <1>2, <1>3, <1>4, Zenon DEF Loads, Execs

\* thread_create() keeps the invariant.
LEMMA NewThreadKeeps ==
  ASSUME ProcInv, NEW p \in Slot, NEW c \in Slot,
         pc[p] = "create", ~live[c], NewThread(p, c)
  PROVE  ProcInv'
<1>1. Fresh(p, c) /\ LinkedTo(p, c) /\ ListedBy(p, c) /\ StartedBy(p, c) /\ Reset(c)
  BY NewThreadFacts, Zenon
<1>2. TypeOK'
  BY NewThreadTypes, Zenon
<1>3. Threads'
  BY <1>1, NewThreadThreads, Zenon DEF ProcInv, TypeOK
<1>4. Children' /\ Loads' /\ Execs'
  BY <1>1, NewThreadChildren, NewThreadLoads, Zenon
<1>5. Waits'
  BY <1>1, NewThreadWaits, Zenon DEF ProcInv
<1>6. Collected'
  BY <1>1, Zenon DEF ProcInv, Collected, LinkedTo
<1>7. QED BY <1>2, <1>3, <1>4, <1>5, <1>6, Zenon DEF ProcInv

----------------------------------------------------------------------------
\* exec() goes on: the one load it waited for is no longer counted.
LEMMA ExecDownKeeps ==
  ASSUME ProcInv, NEW p \in Slot, ExecDown(p)
  PROVE  ProcInv'
<1>1. /\ pc[p] = "exec_down" /\ pc'[p] = "user" /\ exec_sema[p] > 0
      /\ exec_sema'[p] = exec_sema[p] - 1
      /\ \A q \in Slot \ {p} : /\ pc'[q] = pc[q] /\ pid'[q] = pid[q]
                               /\ exec_sema'[q] = exec_sema[q]
  BY Zenon DEF ExecDown, Goto, Down, ProcInv, TypeOK, SemaTypes, StatusTypes, PlaceTypes
<1>2. p # main /\ exec_sema[p] = 1 /\ exec_sema'[p] = 0
  <2>1. p # main
    BY <1>1, Zenon DEF ProcInv, Threads
  <2>2. ExecOf(p)
    BY <2>1, Zenon DEF ProcInv, Execs
  <2>3. exec_sema[p] = 1
    BY <1>1, <2>2, Zenon DEF ExecOf
  <2>4. QED BY <1>1, <2>1, <2>3
<1>3. UNCHANGED <<links, wait_sema, exit_sema, exec_status, exit_status, arg, loaded, past>>
  BY Zenon DEF ExecDown
<1>4. TypeOK'
  <2>1. LinkTypes'
    BY <1>3, Zenon DEF ProcInv, TypeOK, LinkTypes, links
  <2>2. SemaTypes'
    BY <1>2, <1>3 DEF ProcInv, TypeOK, SemaTypes, ExecDown, Down
  <2>3. StatusTypes'
    BY <1>3 DEF ProcInv, TypeOK, StatusTypes, ExecDown, past
  <2>4. PlaceTypes'
    BY <1>3, Zenon DEF ProcInv, TypeOK, PlaceTypes, ExecDown, Goto, Point
  <2>5. QED BY <2>1, <2>2, <2>3, <2>4, Zenon DEF TypeOK
<1>5. Threads' /\ Children' /\ Waits' /\ Collected'
  <2>1. Quiet(p)
    BY <1>1, <1>3, Zenon DEF Quiet, past
  <2>2. QED BY <2>1, QuietKeeps, Zenon
<1>6. ASSUME NEW c \in Slot PROVE LoadOf(c)'
  <2>1. LoadOf(c)
    BY Zenon DEF ProcInv, Loads
  <2>2. pc[c] \in Loading => parent[c] # p /\ c # p
    <3> SUFFICES ASSUME pc[c] \in Loading PROVE parent[c] # p /\ c # p
      BY Zenon
    <3>1. c # p
      BY <1>1, Zenon DEF Loading
    <3>2. parent[c] # main => exec_sema[parent[c]] = 0
      BY <2>1, Zenon DEF LoadOf
    <3>3. QED BY <1>2, <3>1, <3>2
  <2>3. SameLoad(c)
    BY <1>1, <1>3, <2>1, <2>2, Zenon DEF SameLoad, LoadOf, Loading, links
  <2>4. QED BY <2>1, <2>3, SameLoadKeeps, Zenon
<1>7. ASSUME NEW q \in Slot \ {main} PROVE ExecOf(q)'
  <2>1. ExecOf(q) /\ Range(child_list[q]) \subseteq Slot
    BY ChildrenAreSlots, Zenon DEF ProcInv, Execs
  <2>2. \A c \in Slot : pc[c] \notin Loading => pc'[c] \notin Loading
    BY <1>1, Zenon DEF Loading
  <2>3. CASE q = p
    BY <1>2, <2>3 DEF ExecOf
  <2>4. CASE q # p
    <3>1. SameExec(q)
      BY <1>1, <1>3, <2>1, <2>2, <2>4, Zenon DEF SameExec, ExecOf, links
    <3>2. QED BY <2>1, <3>1, SameExecKeeps, Zenon
  <2>5. QED BY <2>3, <2>4, Zenon
<1>8. QED BY <1>4, <1>5, <1>6, <1>7, Zenon DEF ProcInv, Loads, Execs

\* Two children of one waiting parent are not loaded at once.
LEMMA OneLoad ==
  ASSUME ProcInv, NEW c \in Slot, NEW d \in Slot, pc[c] \in Loading, pc[d] \in Loading,
         parent[c] = parent[d], parent[c] # main
  PROVE  c = d
<1>1. live[c] /\ live[d]
  BY Zenon DEF ProcInv, Threads, Loading
<1>2. tid[c] = tid[d]
  BY DEF ProcInv, Loads, LoadOf
<1>3. QED BY <1>1, <1>2, Zenon DEF ProcInv, Threads

\* load() writes its outcome into the parent that waits for it.
LEMMA LoadKeeps ==
  ASSUME ProcInv, NEW c \in Slot, NEW success \in BOOLEAN, Load(c, success)
  PROVE  ProcInv'
<1>1. pc[c] = "load" /\ pc[c] \in Loading /\ LoadOf(c) /\ parent[c] \in Slot
  BY Zenon DEF Load, Loading, ProcInv, Loads, LoadOf
<1>2. /\ pc'[c] = "exec_up" /\ loaded'[c] = success /\ exec_status'[parent[c]] = success
      /\ \A q \in Slot \ {c} : pc'[q] = pc[q] /\ loaded'[q] = loaded[q]
      /\ \A q \in Slot \ {parent[c]} : exec_status'[q] = exec_status[q]
  BY <1>1, Zenon DEF Load, Goto, ProcInv, TypeOK, StatusTypes, PlaceTypes
<1>3. UNCHANGED <<links, semas, exit_status, arg, pid, past>>
  BY Zenon DEF Load
<1>4. TypeOK'
  <2>1. LinkTypes' /\ SemaTypes'
    BY <1>3, Zenon DEF ProcInv, TypeOK, LinkTypes, SemaTypes, links, semas
  <2>2. StatusTypes'
    BY <1>3, Zenon DEF ProcInv, TypeOK, StatusTypes, Load, past
  <2>3. PlaceTypes'
    BY <1>3, Zenon DEF ProcInv, TypeOK, PlaceTypes, Load, Goto, Point
  <2>4. QED BY <2>1, <2>2, <2>3, Zenon DEF TypeOK
<1>5. Threads' /\ Children' /\ Waits' /\ Collected'
  <2>1. Quiet(c)
    BY <1>1, <1>2, <1>3, Zenon DEF Quiet, semas, past
  <2>2. QED BY <2>1, QuietKeeps, Zenon
<1>6. LoadOf(c)'
  BY <1>1, <1>2, <1>3, Zenon DEF LoadOf, links, semas
<1>7. ASSUME NEW d \in Slot \ {c} PROVE LoadOf(d)'
  <2>1. LoadOf(d)
    BY Zenon DEF ProcInv, Loads
  <2>2. pc[d] \in Loading /\ parent[d] # main => parent[d] # parent[c] /\ parent[d] # c
    BY <1>1, <2>1, OneLoad, Zenon DEF LoadOf
  <2>3. SameLoad(d)
    BY <1>2, <1>3, <2>1, <2>2, Zenon DEF SameLoad, LoadOf, links, semas
  <2>4. QED BY <2>1, <2>3, SameLoadKeeps, Zenon
<1>8. ASSUME NEW q \in Slot \ {main} PROVE ExecOf(q)'
  <2>1. ExecOf(q) /\ Range(child_list[q]) \subseteq Slot
    BY ChildrenAreSlots, Zenon DEF ProcInv, Execs
  <2>2. exec_sema[q] > 0 => q # parent[c] /\ q # c
    <3>1. q = parent[c] => exec_sema[q] = 0
      BY <1>1, Zenon DEF LoadOf
    <3>2. exec_sema[q] > 0 => q # c
      BY <1>1, <2>1, Zenon DEF ExecOf
    <3>3. QED BY <3>1, <3>2
  <2>3. CASE ~(exec_sema[q] > 0)
    BY <1>3, <2>3, Zenon DEF ExecOf, semas
  <2>4. CASE exec_sema[q] > 0
    <3>1. PICK d \in Range(child_list[q]) : /\ tid[d] = pid[q] /\ pc[d] \notin Loading
                                            /\ loaded[d] = exec_status[q]
      BY <2>1, <2>4, Zenon DEF ExecOf
    <3>2. d \in Slot \ {c}
      BY <1>1, <2>1, <3>1, Zenon
    <3>3. QED BY <1>2, <1>3, <2>1, <2>2, <2>4, <3>1, <3>2, Zenon DEF ExecOf, links, semas
  <2>5. QED BY <2>3, <2>4, Zenon
<1>9. QED BY <1>4, <1>5, <1>6, <1>7, <1>8, Zenon DEF ProcInv, Loads, Execs

\* The child tells its parent that the load is over.
LEMMA ExecUpKeeps ==
  ASSUME ProcInv, NEW c \in Slot, ExecUp(c)
  PROVE  ProcInv'
<1>1. pc[c] = "exec_up" /\ pc[c] \in Loading /\ LoadOf(c) /\ parent[c] \in Slot
  BY Zenon DEF ExecUp, Loading, ProcInv, Loads, LoadOf
<1>2. /\ pc'[c] = "free_name" /\ pc'[c] \notin Loading
      /\ exec_sema'[parent[c]] = exec_sema[parent[c]] + 1
      /\ \A q \in Slot \ {c} : pc'[q] = pc[q]
      /\ \A q \in Slot \ {parent[c]} : exec_sema'[q] = exec_sema[q]
  BY <1>1, Zenon DEF ExecUp, Goto, Up, Loading, ProcInv, TypeOK, SemaTypes, PlaceTypes
<1>3. UNCHANGED <<links, wait_sema, exit_sema, exec_status, exit_status, arg, pid, loaded, past>>
  BY Zenon DEF ExecUp
<1>4. TypeOK'
  <2>1. LinkTypes' /\ StatusTypes'
    BY <1>3, Zenon DEF ProcInv, TypeOK, LinkTypes, StatusTypes, links, past
  <2>2. SemaTypes'
    <3>1. exec_sema \in [Slot -> Nat] /\ exec_sema[parent[c]] + 1 \in Nat
      BY <1>1 DEF ProcInv, TypeOK, SemaTypes
    <3>2. exec_sema' \in [Slot -> Nat]
      BY <3>1, Assign, Zenon DEF ExecUp, Up
    <3>3. QED BY <1>3, <3>2, Zenon DEF ProcInv, TypeOK, SemaTypes
  <2>3. PlaceTypes'
    BY <1>3, Zenon DEF ProcInv, TypeOK, PlaceTypes, ExecUp, Goto, Point
  <2>4. QED BY <2>1, <2>2, <2>3, Zenon DEF TypeOK
<1>5. Threads' /\ Children' /\ Waits' /\ Collected'
  <2>1. Quiet(c)
    BY <1>1, <1>2, <1>3, Zenon DEF Quiet, past
  <2>2. QED BY <2>1, QuietKeeps, Zenon
<1>6. ASSUME NEW d \in Slot PROVE LoadOf(d)'
  <2>1. LoadOf(d)
    BY Zenon DEF ProcInv, Loads
  <2>2. pc'[d] \in Loading => d # c /\ pc[d] \in Loading
    BY <1>2, Zenon
  <2>3. pc'[d] \in Loading /\ parent[d] # main => parent[d] # parent[c] /\ parent[d] # c
    BY <1>1, <2>1, <2>2, OneLoad, Zenon DEF LoadOf
  <2>4. SameLoad(d)
    BY <1>2, <1>3, <2>1, <2>2, <2>3, Zenon DEF SameLoad, LoadOf, links
  <2>5. QED BY <2>1, <2>4, SameLoadKeeps, Zenon
<1>7. ASSUME NEW q \in Slot \ {main}, q # parent[c] PROVE ExecOf(q)'
  <2>1. ExecOf(q) /\ Range(child_list[q]) \subseteq Slot
    BY ChildrenAreSlots, Zenon DEF ProcInv, Execs
  <2>2. SameExec(q)
    BY <1>1, <1>2, <1>3, <1>7, <2>1, Zenon DEF SameExec, ExecOf, links
  <2>3. QED BY <2>1, <2>2, SameExecKeeps, Zenon
<1>8. ASSUME NEW q \in Slot \ {main}, q = parent[c] PROVE ExecOf(q)'
  <2>1. /\ exec_sema[q] = 0 /\ pc[q] \in {"free_copy", "exec_down"}
        /\ c \in Range(child_list[q]) /\ tid[c] = pid[q] /\ loaded[c] = exec_status[q]
    BY <1>1, <1>8, Zenon DEF LoadOf
  <2>2. pc'[q] \in {"free_copy", "exec_down"}
    BY <1>1, <1>2, <2>1, Zenon
  <2>3. exec_sema'[q] = 1
    BY <1>2, <1>8, <2>1
  <2>4. QED BY <1>2, <1>3, <2>1, <2>2, <2>3, Zenon DEF ExecOf, links
<1>9. Execs'
  BY <1>7, <1>8, Zenon DEF Execs
<1>10. QED BY <1>4, <1>5, <1>6, <1>9, Zenon DEF ProcInv, Loads

----------------------------------------------------------------------------
\* A step of a process that changes nothing but where it stands, the child it
\* waits for and the result it will return, and goes to a place where it may go.
LEMMA GoKeeps ==
  ASSUME ProcInv, NEW p \in Slot, NEW to \in Point, NEW a \in Slot \cup {NULL}, NEW id \in Int,
         UNCHANGED <<links, semas, exec_status, exit_status, loaded, past>>,
         Goto(p, to), arg' = [arg EXCEPT ![p] = a], pid' = [pid EXCEPT ![p] = id],
         pc[p] \notin {"none", "reap", "orphans", "exit_down"},
         to \notin {"none", "reap", "orphans", "exit_down", "start", "exec_up"},
         to = "wait" => p = main,
         to = "exec_down" => p # main,
         to = "wait_down" => a \in Range(child_list[p]),
         to = "load" => pc[p] = "start",
         pc[p] \in {"free_copy", "exec_down"} /\ p # main => to = "exec_down" /\ id = pid[p]
  PROVE  ProcInv'
<1>1. /\ pc'[p] = to /\ arg'[p] = a /\ pid'[p] = id /\ PlaceTypes'
      /\ \A q \in Slot \ {p} : pc'[q] = pc[q] /\ arg'[q] = arg[q] /\ pid'[q] = pid[q]
  BY Zenon DEF ProcInv, TypeOK, PlaceTypes, StatusTypes, Goto
<1>2. TypeOK'
  <2>1. LinkTypes' /\ SemaTypes'
    BY Zenon DEF ProcInv, TypeOK, LinkTypes, SemaTypes, links, semas
  <2>2. StatusTypes'
    BY Zenon DEF ProcInv, TypeOK, StatusTypes, past
  <2>3. QED BY <1>1, <2>1, <2>2, Zenon DEF TypeOK
<1>3. Quiet(p)
  BY <1>1, Zenon DEF Quiet, semas, past
<1>4. Moves(p)
  BY <1>1, <1>3, Zenon DEF Moves, semas, Loading
<1>5. QED BY <1>2, <1>4, MovesKeep, Zenon

\* A step after which p exits, with the status that is recorded for it.
LEMMA EndKeeps ==
  ASSUME ProcInv, NEW p \in Slot, NEW code \in Int,
         UNCHANGED <<links, semas, exec_status, arg, pid, loaded, collected>>,
         Goto(p, "orphans"), exit_status' = [exit_status EXCEPT ![p] = code],
         ended' = ended \cup {<<tid[p], code>>}, pc[p] \in {"user", "free_name"}
  PROVE  ProcInv'
<1>1. /\ pc'[p] = "orphans" /\ exit_status'[p] = code /\ PlaceTypes'
      /\ \A q \in Slot \ {p} : pc'[q] = pc[q] /\ exit_status'[q] = exit_status[q]
  BY Zenon DEF ProcInv, TypeOK, PlaceTypes, StatusTypes, Goto, Point
<1>2. TypeOK'
  <2>1. LinkTypes' /\ SemaTypes'
    BY Zenon DEF ProcInv, TypeOK, LinkTypes, SemaTypes, links, semas
  <2>2. StatusTypes'
    BY Zenon DEF ProcInv, TypeOK, StatusTypes
  <2>3. QED BY <1>1, <2>1, <2>2, Zenon DEF TypeOK
<1>3. Quiet(p)
  <2>1. ended \subseteq ended' /\ <<tid[p], exit_status'[p]>> \in ended'
    BY <1>1
  <2>2. UNCHANGED <<links, wait_sema, exit_sema, collected, arg>>
    BY Zenon DEF semas
  <2>3. QED BY <1>1, <2>1, <2>2, Zenon DEF Quiet
<1>4. Moves(p)
  BY <1>1, <1>3, Zenon DEF Moves, semas, Loading
<1>5. QED BY <1>2, <1>4, MovesKeep, Zenon

\* The invariant reads neither the count of free pages nor panicked.
LEMMA NothingKeeps ==
  ASSUME ProcInv, UNCHANGED <<links, semas, exec_status, exit_status, local, past>>
  PROVE  ProcInv'
<1>1. TypeOK' = TypeOK
  BY Zenon DEF TypeOK, LinkTypes, SemaTypes, StatusTypes, PlaceTypes, links, semas, local, past
<1>2. Threads' = Threads
  BY Zenon DEF Threads, links, semas, local
<1>3. Children' = Children
  <2>1. UNCHANGED <<child_list, live, parent, creator, tid, next_tid, pc, arg, exit_sema, collected>>
    BY Zenon DEF links, semas, local, past
  <2>2. QED BY <2>1 DEF Children, Held
<1>4. Waits' = Waits
  BY Zenon DEF Waits, links, semas, local, past
<1>5. Loads' = Loads /\ Execs' = Execs
  BY DEF Loads, LoadOf, Execs, ExecOf, links, semas, local
<1>6. Collected' = Collected
  BY Zenon DEF Collected, past
<1>7. QED BY <1>1, <1>2, <1>3, <1>4, <1>5, <1>6, Zenon DEF ProcInv

\* What an assignment of the value that is there already does.
LEMMA SameValue ==
  ASSUME ProcInv, NEW p \in Slot
  PROVE  /\ arg = [arg EXCEPT ![p] = arg[p]] /\ arg[p] \in Slot \cup {NULL}
         /\ pid = [pid EXCEPT ![p] = pid[p]] /\ pid[p] \in Int
         /\ exit_status = [exit_status EXCEPT ![p] = exit_status[p]] /\ exit_status[p] \in Int
BY Zenon DEF ProcInv, TypeOK, PlaceTypes, StatusTypes

\* The return from process_execute(), to exec() or to run_task().
LEMMA ReturnKeeps ==
  ASSUME ProcInv, NEW p \in Slot, NEW id \in Int, Return(p, id),
         pc[p] \in {"user", "create", "free_copy"}, pc[p] = "free_copy" => id = pid[p],
         UNCHANGED <<links, semas, exec_status, exit_status, arg, loaded, past>>
  PROVE  ProcInv'
<1> DEFINE to == IF p = main THEN "wait" ELSE "exec_down"
<1>1. to \in Point /\ (to = "wait" <=> p = main) /\ to \in {"wait", "exec_down"}
  BY Zenon DEF Point
<1>2. Goto(p, to) /\ pid' = [pid EXCEPT ![p] = id]
  BY Zenon DEF Return
<1> HIDE DEF to
<1>3. QED BY <1>1, <1>2, SameValue, GoKeeps, Zenon

\* The return with -1.
LEMMA FailKeeps ==
  ASSUME ProcInv, NEW p \in Slot, Return(p, -1), pc[p] \in {"user", "create"},
         UNCHANGED <<links, semas, exec_status, exit_status, arg, loaded, past>>
  PROVE  ProcInv'
<1>1. PICK id \in Int : id = -1
  OBVIOUS
<1>2. Return(p, id)
  BY <1>1, Zenon
<1>3. QED BY <1>2, ReturnKeeps, Zenon

\* process_execute(), up to thread_create().
LEMMA process_executeKeeps ==
  ASSUME ProcInv, NEW p \in Slot, process_execute(p)
  PROVE  ProcInv'
<1>0. pc[p] = "user"
  BY Zenon DEF process_execute
<1>1. CASE Return(p, -1) /\ UNCHANGED <<links, semas, exec_status, exit_status, arg, loaded, past>>
  BY <1>0, <1>1, FailKeeps, Zenon
<1>2. CASE Panic
  BY <1>2, NothingKeeps, Zenon DEF Panic
<1>3. CASE Goto(p, "create") /\ UNCHANGED <<links, semas, exec_status, exit_status, arg, pid, loaded, past>>
  <2>1. "create" \in Point
    BY Zenon DEF Point
  <2>2. QED BY <1>0, <1>3, <2>1, SameValue, GoKeeps, Zenon
<1>4. QED BY <1>1, <1>2, <1>3, Zenon DEF process_execute

\* thread_create() and the return to exec() or run_task().
LEMMA thread_createKeeps ==
  ASSUME ProcInv, NEW p \in Slot, thread_create(p) \/ FreeCopy(p)
  PROVE  ProcInv'
<1>1. CASE pc[p] = "create" /\ \E c \in Slot : ~live[c] /\ NewThread(p, c)
  BY <1>1, NewThreadKeeps, Zenon
<1>2. CASE /\ pc[p] = "create" /\ Return(p, -1)
           /\ UNCHANGED <<links, semas, exec_status, exit_status, arg, loaded, past>>
  BY <1>2, FailKeeps, Zenon
<1>3. CASE FreeCopy(p)
  BY <1>3, SameValue, ReturnKeeps, Zenon DEF FreeCopy
<1>4. QED BY <1>1, <1>2, <1>3, Zenon DEF thread_create

\* The child's own way to its program, or to its exit.
LEMMA StartKeeps ==
  ASSUME ProcInv, NEW p \in Slot, StartProcess(p) \/ FreeName(p)
  PROVE  ProcInv'
<1>1. CASE Panic
  BY <1>1, NothingKeeps, Zenon DEF Panic
<1>2. CASE StartProcess(p) /\ ~Panic
  <2>1. "load" \in Point
    BY Zenon DEF Point
  <2>2. QED BY <1>2, <2>1, SameValue, GoKeeps DEF StartProcess
<1>3. CASE FreeName(p) /\ loaded[p]
  <2>1. "user" \in Point
    BY Zenon DEF Point
  <2>2. UNCHANGED <<links, semas, exec_status, exit_status, arg, pid, loaded, past>>
    BY <1>3, Zenon DEF FreeName, past
  <2>3. QED BY <1>3, <2>1, <2>2, SameValue, GoKeeps DEF FreeName
<1>4. CASE FreeName(p) /\ ~loaded[p]
  BY <1>4, SameValue, EndKeeps, Zenon DEF FreeName
<1>5. QED BY <1>1, <1>2, <1>3, <1>4, Zenon

\* process_wait() of any tid, up to the child's wait_sema.
LEMMA process_waitKeeps ==
  ASSUME ProcInv, NEW p \in Slot, NEW id, process_wait(p, id), pc[p] \in {"user", "wait"},
         UNCHANGED <<links, semas, exec_status, exit_status, pid, loaded, past>>
  PROVE  ProcInv'
<1> DEFINE found == {c \in Range(child_list[p]) : tid[c] = id}
<1>1. "user" \in Point /\ "wait_down" \in Point
  BY Zenon DEF Point
<1>2. CASE found = {}
  <2>1. Goto(p, "user") /\ arg' = arg
    BY <1>2, Zenon DEF process_wait
  <2>2. QED BY <1>1, <2>1, SameValue, GoKeeps, Zenon
<1>3. CASE found # {}
  <2>1. PICK a \in found : arg' = [arg EXCEPT ![p] = a] /\ Goto(p, "wait_down")
    BY <1>3, Zenon DEF process_wait
  <2>2. a \in Range(child_list[p]) /\ a \in Slot
    BY <2>1, ChildrenAreSlots, Zenon DEF ProcInv
  <2>3. QED BY <1>1, <2>1, <2>2, SameValue, GoKeeps, Zenon
<1>4. QED BY <1>2, <1>3, Zenon

----------------------------------------------------------------------------
\* list_remove() of an element of a list without repetitions.
LEMMA RemoveElement ==
  ASSUME NEW s \in Seq(Slot), IsInjective(s), NEW e \in Range(s)
  PROVE  /\ Remove(s, e) \in Seq(Slot) /\ IsInjective(Remove(s, e))
         /\ Range(Remove(s, e)) = Range(s) \ {e}
<1> DEFINE k == CHOOSE j \in DOMAIN s : s[j] = e
<1>1. \E j \in DOMAIN s : s[j] = e
  BY Zenon DEF Range
<1>2. k \in DOMAIN s /\ s[k] = e
  BY <1>1, Zenon
<1>3. Remove(s, e) = SubSeq(s, 1, k - 1) \o SubSeq(s, k + 1, Len(s))
  BY Zenon DEF Remove
<1> HIDE DEF k
<1>4. k \in 1..Len(s)
  BY <1>2
<1>5. QED BY <1>2, <1>3, <1>4, RemovePlace

\* A step of p that leaves the outcomes of loads alone, and in which p is not
\* waiting for a load and keeps its children, unless p has no part in a load.
Apart(p) ==
  /\ UNCHANGED <<live, tid, parent, creator, pid, exec_sema, exec_status, loaded>>
  /\ \A q \in Slot \ {p} : pc'[q] = pc[q] /\ child_list'[q] = child_list[q]
  /\ pc[p] \notin {"free_copy", "exec_down"} /\ pc'[p] \notin Loading

\* Such a step keeps what is said of loads.
LEMMA ApartKeeps ==
  ASSUME ProcInv, NEW p \in Slot, Apart(p)
  PROVE  Loads' /\ Execs'
<1>1. ASSUME NEW c \in Slot PROVE LoadOf(c)'
  <2>1. LoadOf(c)
    BY Zenon DEF ProcInv, Loads
  <2>2. SameLoad(c)
    BY <2>1, Zenon DEF SameLoad, LoadOf, Apart
  <2>3. QED BY <2>1, <2>2, SameLoadKeeps, Zenon
<1>2. ASSUME NEW q \in Slot \ {main} PROVE ExecOf(q)'
  <2>1. ExecOf(q) /\ Range(child_list[q]) \subseteq Slot
    BY ChildrenAreSlots, Zenon DEF ProcInv, Execs
  <2>2. SameExec(q)
    BY <2>1, Zenon DEF SameExec, ExecOf, Apart
  <2>3. QED BY <2>1, <2>2, SameExecKeeps, Zenon
<1>3. QED BY <1>1, <1>2, Zenon DEF Loads, Execs

\* A step of p that makes and ends no thread.
Stays(p) ==
  /\ UNCHANGED <<live, tid, parent, next_tid, creator>> /\ exit_sema'[main] = 0
  /\ pc[p] # "none" /\ pc'[p] \notin {"none", "wait", "exec_down"}
  /\ \A q \in Slot \ {p} : pc'[q] = pc[q]

\* Such a step keeps what is said of threads.
LEMMA StaysKeeps ==
  ASSUME Threads, NEW p \in Slot, Stays(p)
  PROVE  Threads'
BY ProcessAssumption, Zenon DEF Threads, Stays

\* A step that puts no child into anybody's hands.
Fewer ==
  /\ UNCHANGED <<live, tid, parent, next_tid, creator>>
  /\ \A q, c \in Slot : Held(q, c)' => /\ Held(q, c) /\ exit_sema'[c] = exit_sema[c]
                                       /\ \A i \in DOMAIN collected' : collected'[i][1] # tid[c]
  /\ \A q \in Slot : IsInjective(child_list'[q])
  /\ \A q \in Slot : pc'[q] \in {"none", "exit_down"} => child_list'[q] = <<>>
  /\ \A i \in DOMAIN collected' : collected'[i][1] < next_tid

\* Such a step keeps what is said of children.
LEMMA FewerKeeps ==
  ASSUME Children, Fewer
  PROVE  Children'
<1>1. ASSUME NEW q \in Slot, NEW c \in Slot, Held(q, c)'
      PROVE  /\ live[c] /\ parent[c] = q /\ creator[c] = tid[q] /\ exit_sema'[c] = 0
             /\ \A i \in DOMAIN collected' : collected'[i][1] # tid[c]
  <2>1. /\ Held(q, c) /\ exit_sema'[c] = exit_sema[c]
        /\ \A i \in DOMAIN collected' : collected'[i][1] # tid[c]
    BY <1>1, Zenon DEF Fewer
  <2>2. live[c] /\ parent[c] = q /\ creator[c] = tid[q] /\ exit_sema[c] = 0
    BY <2>1 DEF Children
  <2>3. QED BY <2>1, <2>2, Zenon
<1>2. live' = live /\ tid' = tid /\ parent' = parent /\ next_tid' = next_tid /\ creator' = creator
  BY Zenon DEF Fewer
<1>3. /\ \A q \in Slot : IsInjective(child_list'[q])
      /\ \A q \in Slot : pc'[q] \in {"none", "exit_down"} => child_list'[q] = <<>>
      /\ \A i \in DOMAIN collected' : collected'[i][1] < next_tid
  BY Zenon DEF Fewer
<1>4. \A q, c \in Slot : Held(q, c)' =>
        /\ live'[c] /\ parent'[c] = q /\ creator'[c] = tid'[q] /\ exit_sema'[c] = 0
        /\ \A i \in DOMAIN collected' : collected'[i][1] # tid'[c]
  BY <1>1, <1>2
<1>5. \A i \in DOMAIN collected' : collected'[i][1] < next_tid'
  BY <1>2, <1>3, Zenon
<1>6. QED BY <1>3, <1>4, <1>5, Zenon DEF Children

\* What p taking the child c off its list does to the lists.
TakesOff(p, c) ==
  /\ child_list' \in [Slot -> Seq(Slot)] /\ IsInjective(child_list'[p])
  /\ Range(child_list'[p]) = Range(child_list[p]) \ {c}
  /\ \A q \in Slot \ {p} : child_list'[q] = child_list[q]

\* A wait() whose child has exited, variable by variable.
Unlinks(p, c) ==
  /\ c = arg[p] /\ c \in Slot /\ c # p /\ c \in Range(child_list[p])
  /\ pc[p] = "wait_down" /\ pc[c] = "exit_down" /\ pc'[p] = "reap"
  /\ \A q \in Slot \ {p} : pc'[q] = pc[q]
  /\ \A q \in Slot : wait_sema'[q] > 0 => wait_sema[q] > 0
  /\ UNCHANGED <<live, tid, parent, next_tid, creator, exec_sema, exit_sema, exec_status,
                 exit_status, arg, pid, loaded, collected, ended>>

\* WaitDown does just that.
LEMMA WaitDownFacts ==
  ASSUME ProcInv, NEW p \in Slot, WaitDown(p)
  PROVE  TypeOK' /\ Unlinks(p, arg[p]) /\ TakesOff(p, arg[p])
<1> DEFINE c == arg[p]
<1>1. pc[p] = "wait_down" /\ wait_sema[c] > 0
  BY Zenon DEF WaitDown
<1>2. c \in Range(child_list[p]) /\ c \in Slot /\ pc[c] = "exit_down" /\ c # p
  BY <1>1, ChildrenAreSlots, Zenon DEF ProcInv, Waits
<1>3. wait_sema' = [wait_sema EXCEPT ![c] = wait_sema[c] - 1]
  BY Zenon DEF WaitDown, Down
<1>4. child_list' = [child_list EXCEPT ![p] = Remove(child_list[p], c)]
  BY Zenon DEF WaitDown
<1> HIDE DEF c
<1>5. SemaTypes' /\ \A q \in Slot : wait_sema'[q] > 0 => wait_sema[q] > 0
  <2>1. wait_sema \in [Slot -> Nat] /\ wait_sema[c] \in Nat
    BY <1>2, Zenon DEF ProcInv, TypeOK, SemaTypes
  <2>2. wait_sema[c] - 1 \in Nat
    BY <1>1, <2>1
  <2>3. wait_sema' \in [Slot -> Nat] /\ \A q \in Slot \ {c} : wait_sema'[q] = wait_sema[q]
    BY <1>3, <2>1, <2>2, Assign, Zenon
  <2>4. QED BY <1>1, <2>3, Zenon DEF WaitDown, ProcInv, TypeOK, SemaTypes
<1>6. TakesOff(p, c)
  <2>1. child_list \in [Slot -> Seq(Slot)] /\ IsInjective(child_list[p])
    BY Zenon DEF ProcInv, TypeOK, LinkTypes, Children
  <2>2. /\ Remove(child_list[p], c) \in Seq(Slot) /\ IsInjective(Remove(child_list[p], c))
        /\ Range(Remove(child_list[p], c)) = Range(child_list[p]) \ {c}
    BY <1>2, <2>1, RemoveElement, Zenon
  <2>3. QED BY <1>4, <2>1, <2>2, Zenon DEF TakesOff
<1>7. PlaceTypes' /\ pc'[p] = "reap" /\ \A q \in Slot \ {p} : pc'[q] = pc[q]
  BY Zenon DEF WaitDown, Goto, ProcInv, TypeOK, PlaceTypes, Point
<1>8. Unlinks(p, c)
  BY <1>1, <1>2, <1>5, <1>7, Zenon DEF Unlinks, WaitDown, past, c
<1>9. LinkTypes' /\ StatusTypes'
  BY <1>6, Zenon DEF WaitDown, past, TakesOff, ProcInv, TypeOK, LinkTypes, StatusTypes
<1>10. QED BY <1>5, <1>6, <1>7, <1>8, <1>9, Zenon DEF TypeOK, c

\* The child that the wait() is for stays in its hands.
LEMMA UnlinksChildren ==
  ASSUME ProcInv, NEW p \in Slot, NEW c, Unlinks(p, c), TakesOff(p, c)
  PROVE  Children'
<1>1. ASSUME NEW q \in Slot, NEW d \in Slot, Held(q, d)' PROVE Held(q, d)
  <2>1. CASE q = p
    BY <1>1, <2>1, Zenon DEF Held, Unlinks, TakesOff
  <2>2. CASE q # p
    BY <1>1, <2>2, Zenon DEF Held, Unlinks, TakesOff
  <2>3. QED BY <2>1, <2>2, Zenon
<1>2. \A q \in Slot : IsInjective(child_list'[q])
  BY Zenon DEF TakesOff, ProcInv, Children
<1>3. ASSUME NEW q \in Slot, pc'[q] \in {"none", "exit_down"} PROVE child_list'[q] = <<>>
  <2>1. pc[q] \in {"none", "exit_down"} /\ child_list'[q] = child_list[q]
    BY <1>3, Zenon DEF Unlinks, TakesOff
  <2>2. QED BY <2>1, Zenon DEF ProcInv, Children
<1>4. /\ \A q, d \in Slot : Held(q, d) => \A i \in DOMAIN collected : collected[i][1] # tid[d]
      /\ \A i \in DOMAIN collected : collected[i][1] < next_tid
  BY DEF ProcInv, Children
<1>5. Fewer
  BY <1>1, <1>2, <1>3, <1>4, Zenon DEF Fewer, Unlinks
<1>6. QED BY <1>5, FewerKeeps, Zenon DEF ProcInv

\* The child that p has taken off its list has exited, as has everybody else's.
LEMMA UnlinksWaits ==
  ASSUME Waits, NEW p \in Slot, NEW c, Unlinks(p, c), TakesOff(p, c)
  PROVE  Waits'
<1>1. ASSUME NEW q \in Slot, pc'[q] = "wait_down" PROVE arg'[q] \in Range(child_list'[q])
  <2>1. pc[q] = "wait_down" /\ arg'[q] = arg[q] /\ child_list'[q] = child_list[q]
    BY <1>1, Zenon DEF Unlinks, TakesOff
  <2>2. QED BY <2>1, Zenon DEF Waits
<1>2. ASSUME NEW q \in Slot, pc'[q] = "reap"
      PROVE  /\ arg'[q] \in Slot /\ arg'[q] \notin Range(child_list'[q])
             /\ pc'[arg'[q]] = "exit_down"
  <2>1. CASE q = p
    BY <2>1, Zenon DEF Unlinks, TakesOff
  <2>2. CASE q # p
    <3>1. pc[q] = "reap" /\ arg'[q] = arg[q] /\ child_list'[q] = child_list[q]
      BY <1>2, <2>2, Zenon DEF Unlinks, TakesOff
    <3>2. arg[q] \in Slot /\ arg[q] \notin Range(child_list[q]) /\ pc[arg[q]] = "exit_down"
      BY <3>1, Zenon DEF Waits
    <3>3. QED BY <3>1, <3>2, Zenon DEF Unlinks
  <2>3. QED BY <2>1, <2>2, Zenon
<1>3. ASSUME NEW d \in Slot, wait_sema'[d] > 0 PROVE pc'[d] = "exit_down"
  BY <1>3, Zenon DEF Waits, Unlinks
<1>4. ASSUME NEW d \in Slot, pc'[d] \in {"orphans", "exit_down"}
      PROVE  <<tid'[d], exit_status'[d]>> \in ended'
  BY <1>4, Zenon DEF Waits, Unlinks
<1>5. QED BY <1>1, <1>2, <1>3, <1>4, Zenon DEF Waits

\* A wait() whose child has exited takes it off the list.
LEMMA WaitDownKeeps ==
  ASSUME ProcInv, NEW p \in Slot, WaitDown(p)
  PROVE  ProcInv'
<1>1. TypeOK' /\ Unlinks(p, arg[p]) /\ TakesOff(p, arg[p])
  BY WaitDownFacts, Zenon
<1>2. Stays(p) /\ Apart(p)
  BY <1>1, Zenon DEF Stays, Apart, Unlinks, TakesOff, Loading, ProcInv, Threads
<1>3. Threads' /\ Loads' /\ Execs'
  BY <1>2, StaysKeeps, ApartKeeps, Zenon DEF ProcInv
<1>4. Children' /\ Waits'
  BY <1>1, UnlinksChildren, UnlinksWaits, Zenon DEF ProcInv
<1>5. Collected'
  BY <1>1, Zenon DEF ProcInv, Collected, Unlinks
<1>6. QED BY <1>1, <1>3, <1>4, <1>5, Zenon DEF ProcInv

\* What a sequence holds after one more element.
LEMMA OneMore ==
  ASSUME NEW S, NEW s \in Seq(S), NEW e \in S
  PROVE  /\ Append(s, e) \in Seq(S)
         /\ \A i \in DOMAIN Append(s, e) :
              \/ i \in DOMAIN s /\ Append(s, e)[i] = s[i]
              \/ i = Len(s) + 1 /\ Append(s, e)[i] = e
         /\ Range(Append(s, e)) = Range(s) \cup {e}
<1>1. /\ Append(s, e) \in Seq(S) /\ Len(s) \in Nat
      /\ DOMAIN s = 1..Len(s) /\ DOMAIN Append(s, e) = 1..(Len(s) + 1)
      /\ \A i \in 1..(Len(s) + 1) : Append(s, e)[i] = IF i <= Len(s) THEN s[i] ELSE e
  OBVIOUS
<1>2. \A i \in 1..(Len(s) + 1) : i \in 1..Len(s) \/ i = Len(s) + 1
  BY <1>1
<1>3. \A i \in 1..Len(s) : i \in 1..(Len(s) + 1) /\ Append(s, e)[i] = s[i]
  BY <1>1
<1>4. Len(s) + 1 \in 1..(Len(s) + 1) /\ Append(s, e)[Len(s) + 1] = e
  BY <1>1
<1>5. Range(Append(s, e)) = Range(s) \cup {e}
  BY <1>1, <1>2, <1>3, <1>4, Zenon DEF Range
<1>6. QED BY <1>1, <1>2, <1>3, <1>4, <1>5, Zenon

\* A child that p lets go of: it is in nobody's hands, and whoever was in
\* somebody's hands is still there.
LEMMA LetGo ==
  ASSUME ProcInv, NEW p \in Slot, NEW c \in Slot, Held(p, c)
  PROVE  /\ live[c] /\ parent[c] = p /\ c # main /\ exit_sema[c] = 0 /\ tid[c] < next_tid
         /\ \A q, d \in Slot : Held(q, d) /\ (q # p \/ d # c) => d # c
         /\ \A i \in DOMAIN collected : collected[i][1] # tid[c]
<1>1. /\ live[c] /\ parent[c] = p /\ exit_sema[c] = 0
      /\ \A i \in DOMAIN collected : collected[i][1] # tid[c]
  BY DEF ProcInv, Children
<1>2. c # main
  BY <1>1, ProcessAssumption, Zenon DEF ProcInv, Threads
<1>3. \A q, d \in Slot : Held(q, d) => parent[d] = q
  BY DEF ProcInv, Children
<1>4. tid[c] < next_tid
  BY <1>1, Zenon DEF ProcInv, Threads
<1>5. QED BY <1>1, <1>2, <1>3, <1>4, Zenon

\* wait() returning the status of the child c, variable by variable.
Reaps(p, c) ==
  /\ c \in Slot /\ c # main /\ c \notin Range(child_list[p]) /\ live[c] /\ tid[c] < next_tid
  /\ pc[p] = "reap" /\ pc'[p] = "user"
  /\ \A q \in Slot \ {p} : pc'[q] = pc[q] /\ arg'[q] = arg[q]
  /\ \A q \in Slot \ {c} : exit_sema'[q] = exit_sema[q]
  /\ UNCHANGED <<links, exec_sema, wait_sema, exec_status, exit_status, pid, loaded, ended>>

\* The status of c is in the list once, as the last one.
Returns(c) ==
  /\ <<tid[c], exit_status[c]>> \in ended
  /\ \A i \in DOMAIN collected : collected[i][1] # tid[c]
  /\ Range(collected') = Range(collected) \cup {<<tid[c], exit_status[c]>>}
  /\ \A i \in DOMAIN collected' :
       \/ i \in DOMAIN collected /\ collected'[i] = collected[i]
       \/ i = Len(collected) + 1 /\ collected'[i][1] = tid[c]

\* What p taking the child c off its hands means for the others.
LetsGo(p, c) == \A q, d \in Slot : Held(q, d) /\ (q # p \/ d # c) => d # c

\* Reap does just that; the child had not been let go before.
LEMMA ReapFacts ==
  ASSUME ProcInv, NEW p \in Slot, Reap(p)
  PROVE  TypeOK' /\ Reaps(p, arg[p]) /\ Returns(arg[p]) /\ LetsGo(p, arg[p])
<1> DEFINE c == arg[p]
           e == <<tid[c], exit_status[c]>>
<1>1. pc[p] = "reap" /\ collected' = Append(collected, e)
  BY Zenon DEF Reap
<1>2. c \in Slot /\ c \notin Range(child_list[p]) /\ e \in ended
  BY <1>1, Zenon DEF ProcInv, Waits
<1>3. exit_sema' = [exit_sema EXCEPT ![c] = exit_sema[c] + 1]
  BY Zenon DEF Reap, Up
<1>4. Held(p, c)
  BY <1>1, Zenon DEF Held
<1>5. e \in Nat \X Int /\ e[1] = tid[c]
  BY <1>2, Zenon DEF ProcInv, TypeOK, LinkTypes, StatusTypes
<1> HIDE DEF c
<1>6. /\ live[c] /\ c # main /\ tid[c] < next_tid /\ LetsGo(p, c)
      /\ \A i \in DOMAIN collected : collected[i][1] # tid[c]
  BY <1>2, <1>4, LetGo DEF LetsGo
<1>7. collected' \in Seq(Nat \X Int) /\ Returns(c)
  <2> DEFINE S == Nat \X Int
  <2>1. collected \in Seq(S) /\ e \in S
    BY <1>5, Zenon DEF ProcInv, TypeOK, StatusTypes
  <2> HIDE DEF e, S
  <2>2. /\ collected' \in Seq(S) /\ Range(collected') = Range(collected) \cup {e}
        /\ \A i \in DOMAIN collected' :
             \/ i \in DOMAIN collected /\ collected'[i] = collected[i]
             \/ i = Len(collected) + 1 /\ collected'[i] = e
    BY ONLY <1>1, <2>1, OneMore
  <2>3. QED BY <1>2, <1>5, <1>6, <2>2, Zenon DEF Returns, e, S
<1>8. SemaTypes' /\ \A q \in Slot \ {c} : exit_sema'[q] = exit_sema[q]
  BY <1>2, <1>3 DEF Reap, ProcInv, TypeOK, SemaTypes
<1>9. /\ pc'[p] = "user" /\ \A q \in Slot \ {p} : pc'[q] = pc[q] /\ arg'[q] = arg[q]
      /\ PlaceTypes'
  BY Zenon DEF Reap, Goto, ProcInv, TypeOK, PlaceTypes, Point
<1>10. LinkTypes' /\ StatusTypes'
  BY <1>7, Zenon DEF Reap, links, ProcInv, TypeOK, LinkTypes, StatusTypes
<1>11. Reaps(p, c)
  BY <1>1, <1>2, <1>6, <1>8, <1>9, Zenon DEF Reaps, Reap
<1>12. QED BY <1>6, <1>7, <1>8, <1>9, <1>10, <1>11, Zenon DEF TypeOK, c

\* The child whose status was returned is in nobody's hands.
LEMMA ReapsChildren ==
  ASSUME ProcInv, NEW p \in Slot, NEW c, Reaps(p, c), Returns(c), LetsGo(p, c)
  PROVE  Children'
<1>1. ASSUME NEW q \in Slot, NEW d \in Slot, Held(q, d)'
      PROVE  Held(q, d) /\ d # c /\ exit_sema'[d] = exit_sema[d]
  <2>1. CASE q = p
    BY <1>1, <2>1, Zenon DEF Held, Reaps, links
  <2>2. CASE q # p
    <3>1. Held(q, d)
      BY <1>1, <2>2, Zenon DEF Held, Reaps, links
    <3>2. d # c
      BY <2>2, <3>1, Zenon DEF LetsGo
    <3>3. QED BY <3>1, <3>2, Zenon DEF Reaps
  <2>3. QED BY <2>1, <2>2, Zenon
<1>2. ASSUME NEW q \in Slot, NEW d \in Slot, Held(q, d)'
      PROVE  \A i \in DOMAIN collected' : collected'[i][1] # tid[d]
  <2>1. live[d] /\ d # c /\ \A i \in DOMAIN collected : collected[i][1] # tid[d]
    BY <1>1, <1>2 DEF ProcInv, Children
  <2>2. tid[d] # tid[c]
    BY <2>1, Zenon DEF ProcInv, Threads, Reaps
  <2>3. QED BY <2>1, <2>2, Zenon DEF Returns
<1>3. \A q \in Slot : IsInjective(child_list'[q])
  BY Zenon DEF ProcInv, Children, Reaps, links
<1>4. ASSUME NEW q \in Slot, pc'[q] \in {"none", "exit_down"} PROVE child_list'[q] = <<>>
  <2>1. pc[q] \in {"none", "exit_down"}
    BY <1>4, Zenon DEF Reaps
  <2>2. QED BY <2>1, Zenon DEF ProcInv, Children, Reaps, links
<1>5. \A i \in DOMAIN collected' : collected'[i][1] < next_tid
  <2>1. \A i \in DOMAIN collected : collected[i][1] < next_tid
    BY Zenon DEF ProcInv, Children
  <2>2. QED BY <2>1, Zenon DEF Returns, Reaps
<1>6. UNCHANGED <<live, tid, parent, next_tid, creator>>
  BY Zenon DEF Reaps, links
<1>7. Fewer
  BY <1>1, <1>2, <1>3, <1>4, <1>5, <1>6, Zenon DEF Fewer
<1>8. QED BY <1>7, FewerKeeps, Zenon DEF ProcInv

\* The other waits are as they were.
LEMMA ReapsWaits ==
  ASSUME Waits, NEW p \in Slot, NEW c, Reaps(p, c)
  PROVE  Waits'
<1>1. ASSUME NEW q \in Slot, pc'[q] = "wait_down" PROVE arg'[q] \in Range(child_list'[q])
  BY <1>1, Zenon DEF Waits, Reaps, links
<1>2. ASSUME NEW q \in Slot, pc'[q] = "reap"
      PROVE  /\ arg'[q] \in Slot /\ arg'[q] \notin Range(child_list'[q])
             /\ pc'[arg'[q]] = "exit_down"
  <2>1. q # p /\ pc[q] = "reap" /\ arg'[q] = arg[q] /\ child_list' = child_list
    BY <1>2, Zenon DEF Reaps, links
  <2>2. arg[q] \in Slot /\ arg[q] \notin Range(child_list[q]) /\ pc[arg[q]] = "exit_down"
    BY <2>1, Zenon DEF Waits
  <2>3. QED BY <2>1, <2>2, Zenon DEF Reaps
<1>3. ASSUME NEW d \in Slot, wait_sema'[d] > 0 PROVE pc'[d] = "exit_down"
  BY <1>3, Zenon DEF Waits, Reaps
<1>4. ASSUME NEW d \in Slot, pc'[d] \in {"orphans", "exit_down"}
      PROVE  <<tid'[d], exit_status'[d]>> \in ended'
  BY <1>4, Zenon DEF Waits, Reaps, links
<1>5. QED BY <1>1, <1>2, <1>3, <1>4, Zenon DEF Waits

\* No status was returned twice.
LEMMA ReturnsCollected ==
  ASSUME Collected, NEW c, Returns(c), ended' = ended
  PROVE  Collected'
<1>1. Range(collected') \subseteq ended'
  BY Zenon DEF Collected, Returns
<1>2. ASSUME NEW i \in DOMAIN collected', NEW j \in DOMAIN collected',
             collected'[i][1] = collected'[j][1]
      PROVE  i = j
  BY <1>2, Zenon DEF Collected, Returns
<1>3. QED BY <1>1, <1>2, Zenon DEF Collected

\* wait() returns the status of its child and lets it die.
LEMMA ReapKeeps ==
  ASSUME ProcInv, NEW p \in Slot, Reap(p)
  PROVE  ProcInv'
<1>1. TypeOK' /\ Reaps(p, arg[p]) /\ Returns(arg[p]) /\ LetsGo(p, arg[p])
  BY ReapFacts, Zenon
<1>2. Stays(p) /\ Apart(p)
  BY <1>1, ProcessAssumption, Zenon DEF Stays, Apart, Reaps, Loading, links, ProcInv, Threads
<1>3. Threads' /\ Loads' /\ Execs'
  BY <1>2, StaysKeeps, ApartKeeps, Zenon DEF ProcInv
<1>4. Children' /\ Waits'
  BY <1>1, ReapsChildren, ReapsWaits, Zenon DEF ProcInv
<1>5. Collected'
  BY <1>1, ReturnsCollected, Zenon DEF ProcInv, Reaps
<1>6. QED BY <1>1, <1>3, <1>4, <1>5, Zenon DEF ProcInv

\* thread_exit() letting go of the first child c, variable by variable.
Drops(p, c) ==
  /\ c \in Slot /\ c # main /\ pc[p] = "orphans"
  /\ \A q \in Slot \ {c} : exit_sema'[q] = exit_sema[q]
  /\ UNCHANGED <<live, tid, parent, next_tid, creator, exec_sema, wait_sema, exec_status,
                 exit_status, pc, arg, pid, loaded, collected, ended>>

\* Orphans does just that to the first child.
LEMMA OrphanFacts ==
  ASSUME ProcInv, NEW p \in Slot, Orphans(p), child_list[p] # <<>>
  PROVE  /\ TypeOK' /\ Drops(p, Head(child_list[p])) /\ TakesOff(p, Head(child_list[p]))
         /\ LetsGo(p, Head(child_list[p]))
<1> DEFINE c == Head(child_list[p])
<1>1. /\ pc[p] = "orphans" /\ child_list' = [child_list EXCEPT ![p] = Tail(child_list[p])]
      /\ exit_sema' = [exit_sema EXCEPT ![c] = exit_sema[c] + 1]
      /\ UNCHANGED <<live, tid, parent, next_tid, creator, exec_sema, wait_sema, exec_status,
                     exit_status, pc, arg, pid, loaded, collected, ended>>
  BY Zenon DEF Orphans, Up, past
<1>2. child_list \in [Slot -> Seq(Slot)] /\ IsInjective(child_list[p])
  BY Zenon DEF ProcInv, TypeOK, LinkTypes, Children
<1>3. /\ c \in Slot /\ c \in Range(child_list[p]) /\ Tail(child_list[p]) \in Seq(Slot)
      /\ IsInjective(Tail(child_list[p]))
      /\ Range(Tail(child_list[p])) = Range(child_list[p]) \ {c}
  BY <1>2, PopFront, Zenon
<1> HIDE DEF c
<1>4. TakesOff(p, c)
  BY <1>1, <1>2, <1>3, Zenon DEF TakesOff
<1>5. Held(p, c)
  BY <1>3, Zenon DEF Held
<1>6. c # main /\ LetsGo(p, c)
  BY <1>3, <1>5, LetGo, Zenon DEF LetsGo
<1>7. SemaTypes' /\ \A q \in Slot \ {c} : exit_sema'[q] = exit_sema[q]
  <2>1. exit_sema \in [Slot -> Nat] /\ exit_sema[c] + 1 \in Nat
    BY <1>3 DEF ProcInv, TypeOK, SemaTypes
  <2>2. exit_sema' \in [Slot -> Nat] /\ \A q \in Slot \ {c} : exit_sema'[q] = exit_sema[q]
    BY <1>1, <2>1, Assign, Zenon
  <2>3. QED BY <1>1, <2>2, Zenon DEF ProcInv, TypeOK, SemaTypes
<1>8. Drops(p, c)
  BY <1>1, <1>3, <1>6, <1>7, Zenon DEF Drops
<1>9. LinkTypes' /\ StatusTypes' /\ PlaceTypes'
  BY <1>4, <1>8, Zenon DEF Drops, TakesOff, ProcInv, TypeOK, LinkTypes, StatusTypes, PlaceTypes
<1>10. QED BY <1>4, <1>6, <1>7, <1>8, <1>9, Zenon DEF TypeOK, c

\* The child that p lets go of was in nobody else's hands.
LEMMA DropsChildren ==
  ASSUME ProcInv, NEW p \in Slot, NEW c, Drops(p, c), TakesOff(p, c), LetsGo(p, c)
  PROVE  Children'
<1>1. ASSUME NEW q \in Slot, NEW d \in Slot, Held(q, d)' PROVE Held(q, d) /\ d # c
  <2>1. CASE q = p
    BY <1>1, <2>1, Zenon DEF Held, Drops, TakesOff
  <2>2. CASE q # p
    <3>1. Held(q, d)
      BY <1>1, <2>2, Zenon DEF Held, Drops, TakesOff
    <3>2. QED BY <2>2, <3>1, Zenon DEF LetsGo
  <2>3. QED BY <2>1, <2>2, Zenon
<1>2. \A q \in Slot : IsInjective(child_list'[q])
  BY Zenon DEF TakesOff, ProcInv, Children
<1>3. ASSUME NEW q \in Slot, pc'[q] \in {"none", "exit_down"} PROVE child_list'[q] = <<>>
  <2>1. pc[q] \in {"none", "exit_down"} /\ child_list'[q] = child_list[q]
    BY <1>3, Zenon DEF Drops, TakesOff
  <2>2. QED BY <2>1, Zenon DEF ProcInv, Children
<1>4. /\ \A q, d \in Slot : Held(q, d) => \A i \in DOMAIN collected : collected[i][1] # tid[d]
      /\ \A i \in DOMAIN collected : collected[i][1] < next_tid
  BY Zenon DEF ProcInv, Children
<1>5. Fewer
  BY <1>1, <1>2, <1>3, <1>4, Zenon DEF Fewer, Drops
<1>6. QED BY <1>5, FewerKeeps, Zenon DEF ProcInv

\* thread_exit() lets go of the first child left.
LEMMA OrphanKeeps ==
  ASSUME ProcInv, NEW p \in Slot, Orphans(p), child_list[p] # <<>>
  PROVE  ProcInv'
<1> DEFINE c == Head(child_list[p])
<1>1. TypeOK' /\ Drops(p, c) /\ TakesOff(p, c) /\ LetsGo(p, c)
  BY OrphanFacts, Zenon
<1> HIDE DEF c
<1>2. Stays(p) /\ Apart(p)
  BY <1>1, ProcessAssumption, Zenon DEF Stays, Apart, Drops, TakesOff, Loading, ProcInv, Threads
<1>3. Threads' /\ Loads' /\ Execs'
  BY <1>2, StaysKeeps, ApartKeeps, Zenon DEF ProcInv
<1>4. Children'
  BY <1>1, DropsChildren, Zenon
<1>5. Waits'
  <2>1. ASSUME NEW q \in Slot, pc[q] \in {"wait_down", "reap"} PROVE child_list'[q] = child_list[q]
    <3>1. q # p
      BY <1>1, <2>1, Zenon DEF Drops
    <3>2. QED BY <1>1, <3>1, Zenon DEF TakesOff
  <2>2. QED BY <1>1, <2>1, Zenon DEF ProcInv, Waits, Drops
<1>6. Collected'
  BY <1>1, Zenon DEF ProcInv, Collected, Drops
<1>7. QED BY <1>1, <1>3, <1>4, <1>5, <1>6, Zenon DEF ProcInv

\* A process without children telling its parent, variable by variable.
Exits(p) ==
  /\ pc[p] = "orphans" /\ pc'[p] = "exit_down" /\ child_list[p] = <<>>
  /\ \A q \in Slot \ {p} : pc'[q] = pc[q] /\ wait_sema'[q] = wait_sema[q]
  /\ UNCHANGED <<live, tid, parent, next_tid, child_list, creator, exec_sema, exit_sema,
                 exec_status, exit_status, arg, pid, loaded, collected, ended>>

\* A process without children tells its parent that it has exited.
LEMMA ExitedKeeps ==
  ASSUME ProcInv, NEW p \in Slot, Orphans(p), child_list[p] = <<>>
  PROVE  ProcInv'
<1>1. /\ pc[p] = "orphans" /\ pc' = [pc EXCEPT ![p] = "exit_down"]
      /\ wait_sema' = [wait_sema EXCEPT ![p] = wait_sema[p] + 1]
  BY Zenon DEF Orphans, Up, Goto
<1>2. PlaceTypes' /\ pc'[p] = "exit_down" /\ \A q \in Slot \ {p} : pc'[q] = pc[q]
  BY <1>1, Zenon DEF Orphans, ProcInv, TypeOK, PlaceTypes, Point
<1>3. SemaTypes' /\ \A q \in Slot \ {p} : wait_sema'[q] = wait_sema[q]
  BY <1>1 DEF Orphans, ProcInv, TypeOK, SemaTypes
<1>4. Exits(p)
  BY <1>1, <1>2, <1>3, Zenon DEF Exits, Orphans, past, links
<1>5. TypeOK'
  <2>1. LinkTypes' /\ StatusTypes'
    BY <1>4, Zenon DEF Exits, ProcInv, TypeOK, LinkTypes, StatusTypes
  <2>2. QED BY <1>2, <1>3, <2>1, Zenon DEF TypeOK
<1>6. Threads' /\ Loads' /\ Execs'
  <2>1. Stays(p) /\ Apart(p)
    BY <1>4, Zenon DEF Stays, Apart, Exits, Loading, ProcInv, Threads
  <2>2. QED BY <2>1, StaysKeeps, ApartKeeps, Zenon DEF ProcInv
<1>7. Children'
  <2>1. ASSUME NEW q \in Slot, NEW d \in Slot, Held(q, d)' PROVE Held(q, d)
    BY <1>4, <2>1, Zenon DEF Held, Exits
  <2>2. \A q \in Slot : pc'[q] \in {"none", "exit_down"} => child_list'[q] = <<>>
    BY <1>4, Zenon DEF ProcInv, Children, Exits
  <2>3. /\ \A q, d \in Slot : Held(q, d) => \A i \in DOMAIN collected : collected[i][1] # tid[d]
        /\ \A i \in DOMAIN collected : collected[i][1] < next_tid
        /\ \A q \in Slot : IsInjective(child_list[q])
    BY Zenon DEF ProcInv, Children
  <2>4. Fewer
    BY <1>4, <2>1, <2>2, <2>3, Zenon DEF Fewer, Exits
  <2>5. QED BY <2>4, FewerKeeps, Zenon DEF ProcInv
<1>8. Waits'
  <2>1. \A q \in Slot : pc'[q] \in {"wait_down", "reap"} => pc'[q] = pc[q]
    BY <1>4, Zenon DEF Exits
  <2>2. \A q \in Slot : pc[q] = "exit_down" => pc'[q] = "exit_down"
    BY <1>4, Zenon DEF Exits
  <2>3. \A q \in Slot : pc'[q] \in {"orphans", "exit_down"} => pc[q] \in {"orphans", "exit_down"}
    BY <1>4, Zenon DEF Exits
  <2>4. \A q \in Slot : wait_sema'[q] > 0 => pc'[q] = "exit_down"
    BY <1>4, Zenon DEF Exits, ProcInv, Waits
  <2>5. /\ child_list' = child_list /\ arg' = arg /\ tid' = tid
        /\ exit_status' = exit_status /\ ended' = ended
    BY <1>4, Zenon DEF Exits
  <2>6. QED BY <2>1, <2>2, <2>3, <2>4, <2>5, Zenon DEF ProcInv, Waits
<1>9. Collected'
  BY <1>4, Zenon DEF ProcInv, Collected, Exits
<1>10. QED BY <1>5, <1>6, <1>7, <1>8, <1>9, Zenon DEF ProcInv

\* The death of p, variable by variable.
Dies(p) ==
  /\ pc[p] = "exit_down" /\ live'[p] = FALSE /\ pc'[p] = "none"
  /\ exec_sema'[p] = 0 /\ wait_sema'[p] = 0
  /\ UNCHANGED <<child_list, next_tid, arg, ended, collected>>

DiesAlone(p) ==
  \A q \in Slot \ {p} :
    /\ live'[q] = live[q] /\ tid'[q] = tid[q] /\ parent'[q] = parent[q]
    /\ creator'[q] = creator[q] /\ loaded'[q] = loaded[q]
    /\ exec_sema'[q] = exec_sema[q] /\ wait_sema'[q] = wait_sema[q]
    /\ exit_sema'[q] = exit_sema[q] /\ exec_status'[q] = exec_status[q]
    /\ exit_status'[q] = exit_status[q] /\ pc'[q] = pc[q] /\ pid'[q] = pid[q]

\* Nobody has a link to p.
Unlinked(p) ==
  /\ p # main /\ child_list[p] = <<>> /\ Range(child_list[p]) = {}
  /\ \A q \in Slot : ~Held(q, p)

\* ExitDown does just that: who has been let go is in nobody's hands.
LEMMA ExitDownFacts ==
  ASSUME ProcInv, NEW p \in Slot, ExitDown(p)
  PROVE  TypeOK' /\ Dies(p) /\ DiesAlone(p) /\ Unlinked(p)
<1>1. Free(p) /\ pc[p] = "exit_down" /\ exit_sema[p] > 0
  BY Zenon DEF ExitDown
<1>2. LinkTypes' /\ live'[p] = FALSE
  BY <1>1, Zenon DEF Free, ProcInv, TypeOK, LinkTypes
<1>3. SemaTypes' /\ exec_sema'[p] = 0 /\ wait_sema'[p] = 0
  BY <1>1, Zenon DEF Free, ProcInv, TypeOK, SemaTypes
<1>4. StatusTypes'
  BY <1>1 DEF Free, past, ProcInv, TypeOK, StatusTypes
<1>5. PlaceTypes' /\ pc'[p] = "none"
  BY <1>1, Zenon DEF Free, Goto, ProcInv, TypeOK, PlaceTypes, Point
<1>6. Dies(p)
  BY <1>1, <1>2, <1>3, <1>5, Zenon DEF Dies, Free, past
<1>7. DiesAlone(p)
  <2>1. \A q \in Slot \ {p} : /\ live'[q] = live[q] /\ tid'[q] = tid[q] /\ parent'[q] = parent[q]
                              /\ creator'[q] = creator[q] /\ pc'[q] = pc[q]
    BY <1>1, Zenon DEF Free, Goto, ProcInv, TypeOK, LinkTypes, PlaceTypes
  <2>2. \A q \in Slot \ {p} : /\ exec_sema'[q] = exec_sema[q] /\ wait_sema'[q] = wait_sema[q]
                              /\ exit_sema'[q] = exit_sema[q]
    BY <1>1, Zenon DEF Free, ProcInv, TypeOK, SemaTypes
  <2>3. \A q \in Slot \ {p} : /\ exec_status'[q] = exec_status[q] /\ loaded'[q] = loaded[q]
                              /\ exit_status'[q] = exit_status[q] /\ pid'[q] = pid[q]
    BY <1>1, Zenon DEF Free, ProcInv, TypeOK, StatusTypes
  <2>4. QED BY <2>1, <2>2, <2>3, Zenon DEF DiesAlone
<1>8. Unlinked(p)
  <2>1. p # main
    <3>1. exit_sema[main] = 0
      BY Zenon DEF ProcInv, Threads
    <3>2. QED BY <1>1, <3>1
  <2>2. child_list[p] = <<>> /\ Range(child_list[p]) = {}
    BY <1>1, EmptyList, Zenon DEF ProcInv, Children
  <2>3. \A q \in Slot : ~Held(q, p)
    BY <1>1 DEF ProcInv, Children
  <2>4. QED BY <2>1, <2>2, <2>3, Zenon DEF Unlinked
<1>9. QED BY <1>2, <1>3, <1>4, <1>5, <1>6, <1>7, <1>8, Zenon DEF TypeOK

\* The threads that are left keep their tids.
LEMMA DiesThreads ==
  ASSUME Threads, NEW p \in Slot, Dies(p), DiesAlone(p), Unlinked(p)
  PROVE  Threads'
<1>1. ASSUME NEW q \in Slot PROVE live'[q] <=> pc'[q] # "none"
  <2>1. CASE q = p
    BY <2>1, Zenon DEF Dies
  <2>2. CASE q # p
    <3>1. live'[q] = live[q] /\ pc'[q] = pc[q]
      BY <2>2, Zenon DEF DiesAlone
    <3>2. QED BY <3>1, Zenon DEF Threads
  <2>3. QED BY <2>1, <2>2, Zenon
<1>2. ASSUME NEW q \in Slot, live'[q]
      PROVE  live[q] /\ tid'[q] = tid[q]
  BY <1>2, Zenon DEF Dies, DiesAlone
<1>3. \A q \in Slot : live'[q] => tid'[q] < next_tid' /\ (q # main => tid'[q] > 0)
  BY <1>2, Zenon DEF Threads, Dies
<1>4. ASSUME NEW q \in Slot, NEW r \in Slot, live'[q], live'[r], tid'[q] = tid'[r] PROVE q = r
  BY <1>2, <1>4, Zenon DEF Threads
<1>5. /\ live'[main] /\ tid'[main] = 0 /\ parent'[main] = NULL /\ exit_sema'[main] = 0
      /\ pc'[main] # "exec_down"
  BY ProcessAssumption, Zenon DEF Threads, DiesAlone, Unlinked
<1>6. ASSUME NEW q \in Slot, pc'[q] = "wait" PROVE q = main
  <2>1. pc[q] = "wait"
    BY <1>6, Zenon DEF Dies, DiesAlone
  <2>2. QED BY <2>1, Zenon DEF Threads
<1>7. QED BY <1>1, <1>3, <1>4, <1>5, <1>6, Zenon DEF Threads

\* The children of the others are still there.
LEMMA DiesChildren ==
  ASSUME Children, NEW p \in Slot, Dies(p), DiesAlone(p), Unlinked(p)
  PROVE  Children'
<1>1. ASSUME NEW q \in Slot, NEW d \in Slot, Held(q, d)'
      PROVE  /\ live'[d] /\ parent'[d] = q /\ creator'[d] = tid'[q] /\ exit_sema'[d] = 0
             /\ \A i \in DOMAIN collected : collected[i][1] # tid'[d]
  <2>1. q # p
    BY <1>1, Zenon DEF Held, Dies, Unlinked
  <2>2. Held(q, d)
    BY <1>1, <2>1, Zenon DEF Held, Dies, DiesAlone
  <2>3. d # p
    BY <2>2, Zenon DEF Unlinked
  <2>4. /\ live[d] /\ parent[d] = q /\ creator[d] = tid[q] /\ exit_sema[d] = 0
        /\ \A i \in DOMAIN collected : collected[i][1] # tid[d]
    BY <2>2 DEF Children
  <2>5. QED BY <2>1, <2>3, <2>4, Zenon DEF DiesAlone
<1>2. ASSUME NEW q \in Slot, pc'[q] \in {"none", "exit_down"} PROVE child_list[q] = <<>>
  BY <1>2, Zenon DEF Children, DiesAlone, Unlinked
<1>3. /\ child_list' = child_list /\ collected' = collected /\ next_tid' = next_tid
      /\ \A q \in Slot : IsInjective(child_list[q])
      /\ \A i \in DOMAIN collected : collected[i][1] < next_tid
  BY Zenon DEF Dies, Children
<1>4. /\ \A q \in Slot : IsInjective(child_list'[q])
      /\ \A q \in Slot : pc'[q] \in {"none", "exit_down"} => child_list'[q] = <<>>
      /\ \A i \in DOMAIN collected' : collected'[i][1] < next_tid'
  BY <1>2, <1>3, Zenon
<1>5. \A q, d \in Slot : Held(q, d)' =>
        /\ live'[d] /\ parent'[d] = q /\ creator'[d] = tid'[q] /\ exit_sema'[d] = 0
        /\ \A i \in DOMAIN collected' : collected'[i][1] # tid'[d]
  BY <1>1, <1>3
<1>6. QED BY <1>4, <1>5, Zenon DEF Children

\* Nobody waited for p.
LEMMA DiesWaits ==
  ASSUME Waits, NEW p \in Slot, Dies(p), DiesAlone(p), Unlinked(p)
  PROVE  Waits'
<1>0. child_list' = child_list /\ arg' = arg /\ ended' = ended
  BY Zenon DEF Dies
<1>1. ASSUME NEW q \in Slot, pc'[q] # "none" PROVE q # p /\ pc'[q] = pc[q]
  BY <1>1, Zenon DEF Dies, DiesAlone
<1>2. ASSUME NEW q \in Slot, pc'[q] = "wait_down" PROVE arg[q] \in Range(child_list[q])
  BY <1>1, <1>2, Zenon DEF Waits
<1>3. ASSUME NEW q \in Slot, pc'[q] = "reap"
      PROVE  /\ arg[q] \in Slot /\ arg[q] \notin Range(child_list[q])
             /\ pc'[arg[q]] = "exit_down"
  <2>1. pc[q] = "reap"
    BY <1>1, <1>3, Zenon
  <2>2. arg[q] \in Slot /\ arg[q] \notin Range(child_list[q]) /\ pc[arg[q]] = "exit_down"
    BY <2>1, Zenon DEF Waits
  <2>3. arg[q] # p
    BY <2>1, Zenon DEF Unlinked, Held
  <2>4. QED BY <2>2, <2>3, Zenon DEF DiesAlone
<1>4. ASSUME NEW d \in Slot, wait_sema'[d] > 0 PROVE pc'[d] = "exit_down"
  <2>1. wait_sema'[p] = 0 /\ (d # p => pc'[d] = pc[d] /\ wait_sema'[d] = wait_sema[d])
    BY Zenon DEF Dies, DiesAlone
  <2>2. wait_sema[d] > 0 => pc[d] = "exit_down"
    BY Zenon DEF Waits
  <2>3. QED BY <1>4, <2>1, <2>2
<1>5. ASSUME NEW d \in Slot, pc'[d] \in {"orphans", "exit_down"}
      PROVE  <<tid'[d], exit_status'[d]>> \in ended
  BY <1>1, <1>5, Zenon DEF Waits, DiesAlone
<1>6. QED BY <1>0, <1>2, <1>3, <1>4, <1>5, Zenon DEF Waits

\* p was not waiting for a load, and no other exec() waits for p.
LEMMA DiesLoads ==
  ASSUME ProcInv, NEW p \in Slot, Dies(p), DiesAlone(p), Unlinked(p)
  PROVE  Loads' /\ Execs'
<1>1. ASSUME NEW c \in Slot PROVE LoadOf(c)'
  <2>1. LoadOf(c)
    BY Zenon DEF ProcInv, Loads
  <2>2. pc'[c] \in Loading => c # p /\ pc[c] \in Loading /\ pc'[c] = pc[c]
    BY Zenon DEF Dies, DiesAlone, Loading
  <2>3. pc'[c] \in Loading => parent[c] \in Slot \ {p}
    BY <2>1, <2>2, Zenon DEF LoadOf, Dies, Unlinked
  <2>4. SameLoad(c)
    BY <2>1, <2>2, <2>3, Zenon DEF SameLoad, LoadOf, Dies, DiesAlone
  <2>5. QED BY <2>1, <2>4, SameLoadKeeps, Zenon
<1>2. ASSUME NEW q \in Slot \ {main} PROVE ExecOf(q)'
  <2>1. ExecOf(q) /\ Range(child_list[q]) \subseteq Slot
    BY ChildrenAreSlots, Zenon DEF ProcInv, Execs
  <2>2. p \notin Range(child_list[q])
    BY Zenon DEF Unlinked, Held
  <2>3. exec_sema'[q] > 0 => q # p
    BY DEF Dies
  <2>4. SameExec(q)
    BY <2>1, <2>2, <2>3, Zenon DEF SameExec, ExecOf, Dies, DiesAlone
  <2>5. QED BY <2>1, <2>4, SameExecKeeps, Zenon
<1>3. QED BY <1>1, <1>2, Zenon DEF Loads, Execs

\* A process that was let go dies; nobody has a link to its page.
LEMMA ExitDownKeeps ==
  ASSUME ProcInv, NEW p \in Slot, ExitDown(p)
  PROVE  ProcInv'
<1>1. TypeOK' /\ Dies(p) /\ DiesAlone(p) /\ Unlinked(p)
  BY ExitDownFacts, Zenon
<1>2. Threads' /\ Children' /\ Waits'
  BY <1>1, DiesThreads, DiesChildren, DiesWaits, Zenon DEF ProcInv
<1>3. Loads' /\ Execs'
  BY <1>1, DiesLoads, Zenon
<1>4. Collected'
  BY <1>1, Zenon DEF ProcInv, Collected, Dies
<1>5. QED BY <1>1, <1>2, <1>3, <1>4, Zenon DEF ProcInv

\* Every step of every process keeps the invariant.
LEMMA ProcStep == ProcInv /\ [Next]_vars => ProcInv'
<1> SUFFICES ASSUME ProcInv, [Next]_vars PROVE ProcInv'
  BY Zenon
<1>1. CASE UNCHANGED vars
  BY <1>1, NothingKeeps, Zenon DEF vars
<1>2. CASE Next
  <2>1. PICK p \in Slot : Continue(p) \/ Call(p)
    BY <1>2, Zenon DEF Next
  <2>2. CASE thread_create(p) \/ FreeCopy(p)
    BY <2>2, thread_createKeeps, Zenon
  <2>3. CASE ExecDown(p)
    BY <2>3, ExecDownKeeps, Zenon
  <2>4. CASE StartProcess(p) \/ FreeName(p)
    BY <2>4, StartKeeps, Zenon
  <2>5. CASE ExecUp(p)
    BY <2>5, ExecUpKeeps, Zenon
  <2>6. CASE \E success \in BOOLEAN : Load(p, success)
    BY <2>6, LoadKeeps, Zenon
  <2>7. CASE run_task(p)
    BY <2>7, process_waitKeeps, Zenon DEF run_task
  <2>8. CASE WaitDown(p)
    BY <2>8, WaitDownKeeps, Zenon
  <2>9. CASE Reap(p)
    BY <2>9, ReapKeeps, Zenon
  <2>10. CASE Orphans(p)
    BY <2>10, OrphanKeeps, ExitedKeeps, Zenon
  <2>11. CASE ExitDown(p)
    BY <2>11, ExitDownKeeps, Zenon
  <2>12. CASE process_execute(p)
    BY <2>12, process_executeKeeps, Zenon
  <2>13. CASE \E id \in 1..MaxTid : UserWait(p, id)
    <3>1. PICK id \in 1..MaxTid : UserWait(p, id)
      BY <2>13, Zenon
    <3>2. QED BY <3>1, process_waitKeeps, Zenon DEF UserWait
  <2>14. CASE \E code \in Code \cup {-1} : exit(p, code)
    <3>1. PICK code \in Code \cup {-1} : exit(p, code)
      BY <2>14, Zenon
    <3>2. code \in Int
      BY ProcessAssumption
    <3>3. QED BY <3>1, <3>2, EndKeeps, Zenon DEF exit
  <2>15. QED
    BY <2>1, <2>2, <2>3, <2>4, <2>5, <2>6, <2>7, <2>8, <2>9, <2>10, <2>11, <2>12, <2>13, <2>14, Zenon
       DEF Continue, Call
<1>3. QED BY <1>1, <1>2, Zenon

\* The invariant holds in every state of every run.
LEMMA ProcInvariant == Spec => []ProcInv
<1>1. QED BY ProcInit, ProcStep, PTL DEF Spec

----------------------------------------------------------------------------
\* The links between parents and children never lead to a freed page or to a
\* page that was reused, with any number of processes and any order in which
\* they run exec(), wait() and exit().
THEOREM LinksAreThere == Spec => []LinksThere
<1>1. ProcInv => LinksThere
  <2> SUFFICES ASSUME ProcInv, NEW p \in Slot, live[p]
               PROVE  /\ pc[p] \in Loading => live[parent[p]] /\ tid[parent[p]] = creator[p]
                      /\ IsInjective(child_list[p])
                      /\ \A c \in Range(child_list[p]) :
                           live[c] /\ parent[c] = p /\ creator[c] = tid[p]
                      /\ pc[p] \in {"wait_down", "reap"} =>
                           live[arg[p]] /\ parent[arg[p]] = p /\ creator[arg[p]] = tid[p]
    BY Zenon DEF LinksThere, Loading
  <2>1. pc[p] \in Loading => live[parent[p]] /\ tid[parent[p]] = creator[p]
    BY Zenon DEF ProcInv, Loads, LoadOf
  <2>2. IsInjective(child_list[p])
    BY Zenon DEF ProcInv, Children
  <2>3. \A c \in Slot : Held(p, c) => live[c] /\ parent[c] = p /\ creator[c] = tid[p]
    BY DEF ProcInv, Children
  <2>4. \A c \in Range(child_list[p]) : c \in Slot /\ Held(p, c)
    BY ChildrenAreSlots, Zenon DEF ProcInv, Held
  <2>5. pc[p] \in {"wait_down", "reap"} => arg[p] \in Slot /\ Held(p, arg[p])
    BY <2>4, Zenon DEF ProcInv, Waits, Held
  <2>6. QED BY <2>1, <2>2, <2>3, <2>4, <2>5, Zenon
<1>2. QED BY <1>1, ProcInvariant, PTL

\* wait() returns the status that the child passed to exit(), or -1 if it was
\* killed, and no child is waited for twice.
THEOREM StatusIsReturned == Spec => []WaitReturnsStatus
<1>1. ProcInv => WaitReturnsStatus
  BY Zenon DEF ProcInv, Collected, WaitReturnsStatus
<1>2. QED BY <1>1, ProcInvariant, PTL

\* exec() returns a tid exactly if the load of that very child has succeeded:
\* the outcome that it finds in exec_status is neither another child's nor one
\* from before the load.
THEOREM ExecSeesItsLoad == Spec => ExecAwaitsLoad
<1> DEFINE Seen(p) == (pc[p] = "exec_down" /\ pc'[p] = "user") =>
                        (pid'[p] # -1 <=> \E c \in Slot : live[c] /\ tid[c] = pid[p] /\ loaded[c])
<1>1. ASSUME ProcInv, [Next]_vars, NEW p \in Slot, pc[p] = "exec_down", pc'[p] = "user"
      PROVE  pid'[p] # -1 <=> \E c \in Slot : live[c] /\ tid[c] = pid[p] /\ loaded[c]
  <2>1. pc \in [Slot -> Point] /\ pc' # pc
    BY <1>1, Zenon DEF ProcInv, TypeOK, PlaceTypes
  <2>2. PICK q \in Slot : Continue(q) \/ Call(q)
    BY <1>1, <2>1, Zenon DEF Next, vars, local
  <2>3. q = p
    <3> SUFFICES ASSUME q # p PROVE pc'[p] # "user"
      BY <1>1, Zenon
    <3>1. ASSUME NEW to, Goto(q, to) PROVE pc'[p] # "user"
      BY <1>1, <2>1, <3>1, Zenon DEF Goto
    <3>2. ASSUME NEW c \in Slot, NewThread(q, c) PROVE pc'[p] # "user"
      BY <1>1, <2>1, <3>2, Zenon DEF NewThread
    <3>3. Panic \/ pc' = pc => pc'[p] # "user"
      BY <1>1, Zenon DEF Panic, local
    <3>4. CASE thread_create(q) \/ FreeCopy(q) \/ process_execute(q)
      BY <3>1, <3>2, <3>3, <3>4, Zenon DEF thread_create, FreeCopy, process_execute, Return
    <3>5. CASE \/ ExecDown(q) \/ StartProcess(q) \/ ExecUp(q) \/ FreeName(q)
               \/ \E success \in BOOLEAN : Load(q, success)
      BY <3>1, <3>3, <3>5, Zenon DEF ExecDown, StartProcess, ExecUp, FreeName, Load
    <3>6. CASE run_task(q) \/ \E id \in 1..MaxTid : UserWait(q, id)
      BY <3>1, <3>6, Zenon DEF run_task, UserWait, process_wait
    <3>7. CASE \/ WaitDown(q) \/ Reap(q) \/ Orphans(q) \/ ExitDown(q)
               \/ \E code \in Code \cup {-1} : exit(q, code)
      BY <3>1, <3>3, <3>7, Zenon DEF WaitDown, Reap, Orphans, ExitDown, Free, exit
    <3>8. QED BY <2>2, <3>4, <3>5, <3>6, <3>7, Zenon DEF Continue, Call
  <2>4. ExecDown(p)
    BY <1>1, <2>2, <2>3, Zenon
       DEF Continue, Call, thread_create, FreeCopy, process_execute, StartProcess, ExecUp, FreeName,
           Load, run_task, UserWait, WaitDown, Reap, Orphans, ExitDown, exit
  <2>5. p # main /\ exec_sema[p] > 0 /\ pid'[p] = IF exec_status[p] THEN pid[p] ELSE -1
    BY <1>1, <2>4, Zenon DEF ExecDown, ProcInv, Threads, TypeOK, StatusTypes
  <2>6. PICK c \in Range(child_list[p]) : tid[c] = pid[p] /\ loaded[c] = exec_status[p]
    BY <1>1, <2>5, Zenon DEF ProcInv, Execs, ExecOf
  <2>7. c \in Slot /\ live[c]
    BY <1>1, ChildrenAreSlots, Zenon DEF ProcInv, Children, Held
  <2>8. pid[p] # -1
    BY <2>6, <2>7, <1>1 DEF ProcInv, TypeOK, LinkTypes
  <2>9. \A d \in Slot : live[d] /\ tid[d] = pid[p] => d = c
    BY <1>1, <2>6, <2>7, Zenon DEF ProcInv, Threads
  <2>10. exec_status[p] <=> \E d \in Slot : live[d] /\ tid[d] = pid[p] /\ loaded[d]
    BY <2>6, <2>7, <2>9, Zenon
  <2>11. QED BY <2>5, <2>8, <2>10, Zenon
<1>2. ProcInv /\ [Next]_vars => [\A p \in Slot : Seen(p)]_vars
  BY <1>1, Zenon
<1>3. QED BY <1>2, ProcInvariant, PTL DEF Spec, ExecAwaitsLoad
============================================================================
