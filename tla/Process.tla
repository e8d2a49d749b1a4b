------------------------------ MODULE Process ------------------------------
(***************************************************************************)
(* The life of user processes: exec, load, wait and exit                   *)
(* (userprog/process.c, userprog/syscall.c, threads/thread.c).             *)
(*                                                                         *)
(* A process is the page its struct thread lives in; pages are reused.     *)
(* Parent and child meet on three semaphores, exec_sema in the parent and  *)
(* wait_sema and exit_sema in the child, taken at the level of module      *)
(* Semaphore.  The kernel pages the exec path allocates are counted.       *)
(***************************************************************************)
EXTENDS Integers, Sequences, FiniteSets, Functions

CONSTANTS
  Slot,      \* the pages that may hold a struct thread
  main,      \* the initial thread, which runs the command line's programs
  Code,      \* what programs pass to exit()
  NPages,    \* kernel pages free at boot
  MaxTid,    \* bound: so many processes are created
  NULL

ASSUME ProcessAssumption ==
  /\ main \in Slot /\ NULL \notin Slot
  /\ Code \subseteq Int
  /\ NPages \in Nat /\ MaxTid \in Nat

VARIABLES
  live,         \* the page holds a struct thread
  tid, parent, child_list,
  exec_sema, wait_sema, exit_sema,
  exec_status, exit_status,
  next_tid,
  free,         \* free kernel pages
  panicked,     \* a NULL page was written to
  pc,           \* where each process stands
  arg,          \* the child of the process_wait() in progress
  pid,          \* the result of the last process_execute() or exec()
  loaded,       \* start_process(): whether load() has succeeded
  creator,      \* history: the tid of the thread that ran thread_create()
  ended,        \* history: <<tid, exit status>> of the processes that exited
  collected     \* history: <<tid, status>> of the waits that found a child

links == <<live, tid, parent, child_list, next_tid, creator>>
semas == <<exec_sema, wait_sema, exit_sema>>
local == <<pc, arg, pid, loaded>>
past  == <<ended, collected>>
vars  == <<links, semas, exec_status, exit_status, free, panicked, local, past>>

Point == {"none", "user", "create", "free_copy", "exec_down", "start", "load",
          "exec_up", "free_name", "wait", "wait_down", "reap", "orphans", "exit_down"}

Init ==
  /\ live = [p \in Slot |-> p = main]
  /\ tid = [p \in Slot |-> 0]
  /\ parent = [p \in Slot |-> NULL]
  /\ child_list = [p \in Slot |-> <<>>]
  /\ exec_sema = [p \in Slot |-> 0]
  /\ wait_sema = [p \in Slot |-> 0]
  /\ exit_sema = [p \in Slot |-> 0]
  /\ exec_status = [p \in Slot |-> TRUE]
  /\ exit_status = [p \in Slot |-> -1]
  /\ next_tid = 1 /\ free = NPages /\ panicked = FALSE
  /\ pc = [p \in Slot |-> IF p = main THEN "user" ELSE "none"]
  /\ arg = [p \in Slot |-> NULL]
  /\ pid = [p \in Slot |-> -1]
  /\ loaded = [p \in Slot |-> FALSE]
  /\ creator = [p \in Slot |-> 0]
  /\ ended = {} /\ collected = <<>>

Goto(p, l) == pc' = [pc EXCEPT ![p] = l]
Up(sema, p) == [sema EXCEPT ![p] = @ + 1]
Down(sema, p) == [sema EXCEPT ![p] = @ - 1]

Panic == /\ panicked' = TRUE
         /\ UNCHANGED <<links, semas, exec_status, exit_status, free, local, past>>

----------------------------------------------------------------------------
(* exec(): the parent's side.                                              *)

\* Where process_execute() returns to: exec() waits for the load of its
\* child, run_task() goes on to process_wait().
Return(p, id) == /\ pid' = [pid EXCEPT ![p] = id]
                 /\ Goto(p, IF p = main THEN "wait" ELSE "exec_down")

\* process_execute(): two copies of the command line, of which only the first
\* allocation is checked.
process_execute(p) ==
  /\ pc[p] = "user"
  /\ next_tid + Cardinality({q \in Slot : pc[q] = "create"}) <= MaxTid
  /\ \/ /\ free = 0
        /\ Return(p, -1)
        /\ UNCHANGED <<links, semas, exec_status, exit_status, free, panicked, arg, loaded, past>>
     \/ free = 1 /\ Panic
     \/ /\ free >= 2
        /\ free' = free - 2
        /\ Goto(p, "create")
        /\ UNCHANGED <<links, semas, exec_status, exit_status, panicked, arg, pid, loaded, past>>

\* The child's struct thread is set up on page c and linked to its parent.
NewThread(p, c) ==
  /\ live' = [live EXCEPT ![c] = TRUE]
  /\ tid' = [tid EXCEPT ![c] = next_tid]
  /\ next_tid' = next_tid + 1
  /\ parent' = [parent EXCEPT ![c] = p]
  /\ child_list' = [child_list EXCEPT ![p] = Append(@, c), ![c] = <<>>]
  /\ exec_sema' = [exec_sema EXCEPT ![c] = 0]
  /\ wait_sema' = [wait_sema EXCEPT ![c] = 0]
  /\ exit_sema' = [exit_sema EXCEPT ![c] = 0]
  /\ exec_status' = [exec_status EXCEPT ![c] = TRUE]
  /\ exit_status' = [exit_status EXCEPT ![c] = -1]
  /\ creator' = [creator EXCEPT ![c] = tid[p]]
  /\ pc' = [pc EXCEPT ![p] = "free_copy", ![c] = "start"]
  /\ pid' = [pid EXCEPT ![p] = next_tid, ![c] = -1]
  /\ arg' = [arg EXCEPT ![c] = NULL]
  /\ loaded' = [loaded EXCEPT ![c] = FALSE]
  /\ UNCHANGED <<panicked, past>>

\* thread_create(): without a page for the struct thread both copies are
\* freed; otherwise the child is made and is ready.
thread_create(p) ==
  /\ pc[p] = "create"
  /\ \/ /\ free = 0
        /\ free' = free + 2
        /\ Return(p, -1)
        /\ UNCHANGED <<links, semas, exec_status, exit_status, panicked, arg, loaded, past>>
     \/ /\ free > 0
        /\ free' = free - 1
        /\ \E c \in Slot : ~live[c] /\ NewThread(p, c)

\* The copy made for the thread's name is freed.
FreeCopy(p) ==
  /\ pc[p] = "free_copy"
  /\ free' = free + 1
  /\ Return(p, pid[p])
  /\ UNCHANGED <<links, semas, exec_status, exit_status, panicked, arg, loaded, past>>

\* Mutant: exec() does not wait for the child to load.
ExecDown_NoWait(p) ==
  /\ pc[p] = "exec_down"
  /\ pid' = [pid EXCEPT ![p] = IF exec_status[p] THEN @ ELSE -1]
  /\ Goto(p, "user")
  /\ UNCHANGED <<links, semas, exec_status, exit_status, free, panicked, arg, loaded, past>>

\* exec() waits for its child and returns its tid, or -1 if the load failed.
ExecDown(p) ==
  /\ pc[p] = "exec_down" /\ exec_sema[p] > 0
  /\ exec_sema' = Down(exec_sema, p)
  /\ pid' = [pid EXCEPT ![p] = IF exec_status[p] THEN @ ELSE -1]
  /\ Goto(p, "user")
  /\ UNCHANGED <<links, wait_sema, exit_sema, exec_status, exit_status, free,
                 panicked, arg, loaded, past>>

----------------------------------------------------------------------------
(* start_process(): the child's side.                                      *)

\* The command line is copied to a page of the child's own.
StartProcess(c) ==
  /\ pc[c] = "start"
  /\ \/ free = 0 /\ Panic
     \/ /\ free > 0
        /\ free' = free - 1
        /\ Goto(c, "load")
        /\ UNCHANGED <<links, semas, exec_status, exit_status, panicked, arg, pid, loaded, past>>

\* load() may fail for many reasons; the outcome is written to the parent.
Load(c, success) ==
  /\ pc[c] = "load"
  /\ exec_status' = [exec_status EXCEPT ![parent[c]] = success]
  /\ loaded' = [loaded EXCEPT ![c] = success]
  /\ Goto(c, "exec_up")
  /\ UNCHANGED <<links, semas, exit_status, free, panicked, arg, pid, past>>

\* Mutant: the parent is only told of a success.
ExecUp_OnSuccess(c) ==
  /\ pc[c] = "exec_up"
  /\ exec_sema' = IF loaded[c] THEN Up(exec_sema, parent[c]) ELSE exec_sema
  /\ Goto(c, "free_name")
  /\ UNCHANGED <<links, wait_sema, exit_sema, exec_status, exit_status, free,
                 panicked, arg, pid, loaded, past>>

ExecUp(c) ==
  /\ pc[c] = "exec_up"
  /\ exec_sema' = Up(exec_sema, parent[c])
  /\ Goto(c, "free_name")
  /\ UNCHANGED <<links, wait_sema, exit_sema, exec_status, exit_status, free,
                 panicked, arg, pid, loaded, past>>

\* The copy is freed, the page it was copied from is not; then the program
\* starts, or thread_exit() is called.
FreeName(c) ==
  /\ pc[c] = "free_name"
  /\ free' = free + 1
  /\ IF loaded[c]
     THEN Goto(c, "user") /\ UNCHANGED ended
     ELSE /\ Goto(c, "orphans")
          /\ ended' = ended \cup {<<tid[c], exit_status[c]>>}
  /\ UNCHANGED <<links, semas, exec_status, exit_status, panicked, arg, pid, loaded, collected>>

----------------------------------------------------------------------------
(* wait().                                                                 *)

\* process_wait() of a tid: -1 at once unless it is on the child list.
process_wait(p, id) ==
  LET found == {c \in Range(child_list[p]) : tid[c] = id} IN
  IF found = {}
  THEN /\ Goto(p, "user")
       /\ UNCHANGED arg
  ELSE /\ arg' = [arg EXCEPT ![p] = CHOOSE c \in found : TRUE]
       /\ Goto(p, "wait_down")

\* A program waits for any tid it can name.
UserWait(p, id) ==
  /\ pc[p] = "user" /\ p # main
  /\ process_wait(p, id)
  /\ UNCHANGED <<links, semas, exec_status, exit_status, free, panicked, pid, loaded, past>>

\* run_task() waits for the program it started, if any.
run_task(p) ==
  /\ pc[p] = "wait"
  /\ process_wait(p, pid[p])
  /\ UNCHANGED <<links, semas, exec_status, exit_status, free, panicked, pid, loaded, past>>

\* list_remove() of an element of the list.
Remove(s, e) ==
  LET i == CHOOSE k \in DOMAIN s : s[k] = e
  IN  SubSeq(s, 1, i - 1) \o SubSeq(s, i + 1, Len(s))

\* Mutant: the parent does not wait.
WaitDown_NoWait(p) ==
  LET c == arg[p] IN
  /\ pc[p] = "wait_down"
  /\ child_list' = [child_list EXCEPT ![p] = Remove(@, c)]
  /\ Goto(p, "reap")
  /\ UNCHANGED <<live, tid, parent, next_tid, creator, semas, exec_status,
                 exit_status, free, panicked, arg, pid, loaded, past>>

\* The child has exited; it is unlinked.
WaitDown(p) ==
  LET c == arg[p] IN
  /\ pc[p] = "wait_down" /\ wait_sema[c] > 0
  /\ wait_sema' = Down(wait_sema, c)
  /\ child_list' = [child_list EXCEPT ![p] = Remove(@, c)]
  /\ Goto(p, "reap")
  /\ UNCHANGED <<live, tid, parent, next_tid, creator, exec_sema, exit_sema,
                 exec_status, exit_status, free, panicked, arg, pid, loaded, past>>

\* Its status is read, and it is allowed to die.
Reap(p) ==
  LET c == arg[p] IN
  /\ pc[p] = "reap"
  /\ collected' = Append(collected, <<tid[c], exit_status[c]>>)
  /\ exit_sema' = Up(exit_sema, c)
  /\ arg' = [arg EXCEPT ![p] = NULL]
  /\ Goto(p, "user")
  /\ UNCHANGED <<links, exec_sema, wait_sema, exec_status, exit_status, free,
                 panicked, pid, loaded, ended>>

----------------------------------------------------------------------------
(* exit().                                                                 *)

\* exit (code), or, with code -1, a kill by the kernel, which calls
\* thread_exit() without touching exit_status.
exit(p, code) ==
  /\ pc[p] = "user"
  /\ exit_status' = [exit_status EXCEPT ![p] = code]
  /\ ended' = ended \cup {<<tid[p], code>>}
  /\ Goto(p, "orphans")
  /\ UNCHANGED <<links, semas, exec_status, free, panicked, arg, pid, loaded, collected>>

\* Mutant: a parent does not let go of the children it never waited for.
Orphans_Forget(p) ==
  /\ pc[p] = "orphans"
  /\ wait_sema' = Up(wait_sema, p)
  /\ Goto(p, "exit_down")
  /\ UNCHANGED <<links, exec_sema, exit_sema, exec_status, exit_status, free,
                 panicked, arg, pid, loaded, past>>

\* thread_exit(): every child left is let go, then the parent is told.
Orphans(p) ==
  /\ pc[p] = "orphans"
  /\ \/ /\ child_list[p] # <<>>
        /\ exit_sema' = Up(exit_sema, Head(child_list[p]))
        /\ child_list' = [child_list EXCEPT ![p] = Tail(@)]
        /\ UNCHANGED <<live, tid, parent, next_tid, creator, wait_sema, pc>>
     \/ /\ child_list[p] = <<>>
        /\ wait_sema' = Up(wait_sema, p)
        /\ Goto(p, "exit_down")
        /\ UNCHANGED <<links, exit_sema>>
  /\ UNCHANGED <<exec_sema, exec_status, exit_status, free, panicked, arg, pid, loaded, past>>

\* palloc_free_page() overwrites the page, so that nothing of p is left.
Free(p) ==
  /\ live' = [live EXCEPT ![p] = FALSE]
  /\ tid' = [tid EXCEPT ![p] = 0]
  /\ parent' = [parent EXCEPT ![p] = NULL]
  /\ exec_sema' = [exec_sema EXCEPT ![p] = 0]
  /\ wait_sema' = [wait_sema EXCEPT ![p] = 0]
  /\ exit_sema' = [exit_sema EXCEPT ![p] = 0]
  /\ exec_status' = [exec_status EXCEPT ![p] = TRUE]
  /\ exit_status' = [exit_status EXCEPT ![p] = -1]
  /\ pid' = [pid EXCEPT ![p] = -1]
  /\ loaded' = [loaded EXCEPT ![p] = FALSE]
  /\ creator' = [creator EXCEPT ![p] = 0]
  /\ free' = free + 1
  /\ Goto(p, "none")
  /\ UNCHANGED <<child_list, next_tid, panicked, arg, past>>

\* Mutant: an exited process does not wait for its parent.
ExitDown_NoWait(p) == pc[p] = "exit_down" /\ p # main /\ Free(p)

\* A process that was let go dies, and the next thread frees its page.
ExitDown(p) == pc[p] = "exit_down" /\ exit_sema[p] > 0 /\ Free(p)

----------------------------------------------------------------------------
\* What a process does inside the kernel.
Continue(p) ==
  /\ ~panicked
  /\ \/ thread_create(p) \/ FreeCopy(p) \/ ExecDown(p)
     \/ StartProcess(p) \/ ExecUp(p) \/ FreeName(p)
     \/ \E success \in BOOLEAN : Load(p, success)
     \/ run_task(p) \/ WaitDown(p) \/ Reap(p)
     \/ Orphans(p) \/ ExitDown(p)

\* What a program asks of the kernel.
Call(p) ==
  /\ ~panicked
  /\ \/ process_execute(p)
     \/ \E id \in 1..MaxTid : UserWait(p, id)
     \/ \E code \in Code \cup {-1} : exit(p, code)

Next == \E p \in Slot : Continue(p) \/ Call(p)

\* The scheduler runs every ready thread; a program may compute forever.
Spec == Init /\ [][Next]_vars
LiveSpec == Spec /\ \A p \in Slot : WF_vars(Continue(p))

----------------------------------------------------------------------------
(* Properties.                                                             *)

\* The links between a parent and its children never lead to a freed page or to
\* a page that was reused: a child that is being loaded writes its outcome into
\* its parent's struct thread; sema_up() of exit_sema, process_wait() and the
\* reading of exit_status go from the parent to the child.
LinksThere ==
  \A p \in Slot : live[p] =>
    /\ pc[p] \in {"start", "load", "exec_up"} =>
         live[parent[p]] /\ tid[parent[p]] = creator[p]
    /\ IsInjective(child_list[p])
    /\ \A c \in Range(child_list[p]) :
         live[c] /\ parent[c] = p /\ creator[c] = tid[p]
    /\ pc[p] \in {"wait_down", "reap"} =>
         live[arg[p]] /\ parent[arg[p]] = p /\ creator[arg[p]] = tid[p]

\* wait() returns the status the child ended with, and no child is waited
\* for twice.
WaitReturnsStatus ==
  /\ Range(collected) \subseteq ended
  /\ \A i, j \in DOMAIN collected : collected[i][1] = collected[j][1] => i = j

\* exec() returns a tid exactly if the load of that child has succeeded: the
\* outcome it reads is not that of another child, nor one from before the
\* load.
ExecAwaitsLoad ==
  [][\A p \in Slot :
       (pc[p] = "exec_down" /\ pc'[p] = "user") =>
         (pid'[p] # -1 <=> \E c \in Slot : live[c] /\ tid[c] = pid[p] /\ loaded[c])]_vars

\* An exited process whose parent is gone does not stay (unless the kernel
\* panics, here and below).
OrphansAreFreed ==
  \A c \in Slot \ {main}, i \in 1..MaxTid :
    (/\ live[c] /\ tid[c] = i /\ pc[c] = "exit_down"
     /\ \A p \in Slot : live[p] => tid[p] # creator[c] \/ pc[p] = "exit_down")
      ~> (~live[c] \/ tid[c] # i \/ panicked)

\* exec() returns to its caller.
ExecReturns ==
  \A p \in Slot : pc[p] = "exec_down" ~> pc[p] # "exec_down"

\* It does so whenever a child was created, and a wait for a child that exits
\* returns.
CallsReturn ==
  \A p \in Slot :
    /\ (pc[p] = "exec_down" /\ pid[p] # -1) ~> (pc[p] # "exec_down" \/ panicked)
    /\ \A c \in Slot \ {main} :
         (pc[p] = "wait_down" /\ arg[p] = c /\ pc[c] = "exit_down") ~>
           (pc[p] = "user" \/ panicked)
====
