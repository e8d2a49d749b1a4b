--------------------------- MODULE VirtualMemory ----------------------------
(***************************************************************************)
(* Demand paging: the page fault handler (userprog/exception.c), the frame *)
(* table with its clock (vm/frame.c), the supplemental page table          *)
(* (vm/page.c), swap (vm/swap.c), the pinning of system call arguments     *)
(* (userprog/syscall.c) and the release of an address space by exit.       *)
(*                                                                         *)
(* A lock or semaphore is its holder.  A step ends where the thread may    *)
(* block, or where a write by another process matters.  The contents of a  *)
(* page are <<process, page, value>>; a write changes the value.  All      *)
(* pages are writable; mmap and pages loaded in part from a file are left  *)
(* out.  The first page of the stack is mapped by the fault handler here,  *)
(* where setup_stack does the same thing.                                  *)
(***************************************************************************)
EXTENDS Integers

CONSTANTS
  Proc, Page, NFrames, NSlots,
  Stack,      \* pages near the stack pointer: a fault there grows the stack
  Loaded,     \* flag that load_segment gives a page, INVALID for the others
  MaxStarts,  \* bound: so many processes are started
  MaxOps,     \* bound: so many accesses and system calls by user programs
  NULL

ASSUME VMAssumption ==
  /\ NFrames \in Nat \ {0} /\ NSlots \in Nat /\ MaxStarts \in Nat /\ MaxOps \in Nat
  /\ Page \subseteq Nat /\ Stack \subseteq Page
  /\ Loaded \in [Page -> {"FILE", "ZERO", "INVALID"}]
  /\ NULL \notin Proc /\ NULL \notin Proc \X Page \X {0, 1}

Frame == 0 .. NFrames - 1
SwapSlot == 0 .. NSlots - 1

VARIABLES
  pagedir,    \* [Proc -> BOOLEAN], FALSE for NULL
  pte,        \* [Proc -> [Page -> page table entry]], frame = -1: not present
  spt,        \* [Proc -> [Page -> flag and, for SWAP, the slot]]
  ft,         \* [Frame -> frame table entry]
  victim_idx,
  pool,       \* free frames of the user pool
  mem,        \* contents of the frames
  swap,       \* contents of the swap slots, NULL when free
  pf_sema, ft_lock, \* who is between down and up; NULL
  th,         \* [Proc -> where the process stands]
  panicked,   \* why the kernel stopped
  starts, ops, \* processes started; accesses and system calls made
  val,        \* history: [Proc -> [Page -> the value last written]]
  lost,       \* history: pages written to while they were being evicted, or
              \* replaced by a second attempt of the fault handler
  leaked      \* history: slots of such replaced pages

vars == <<pagedir, pte, spt, ft, victim_idx, pool, mem, swap, pf_sema, ft_lock,
          th, panicked, starts, ops, val, lost, leaked>>

NotPresent == [frame |-> -1, accessed |-> FALSE, dirty |-> FALSE]
NoEntry == [flag |-> "INVALID", ref |-> -1]
Out == [pc |-> "none", page |-> -1, kernel |-> FALSE, frame |-> -1, slot |-> -1,
        again |-> FALSE]

Init ==
  /\ pagedir = [p \in Proc |-> FALSE]
  /\ pte = [p \in Proc |-> [u \in Page |-> NotPresent]]
  /\ spt = [p \in Proc |-> [u \in Page |-> NoEntry]]
  /\ ft = [k \in Frame |-> [pid |-> NULL, upage |-> -1, pinned |-> FALSE]]
  /\ victim_idx = 0
  /\ pool = Frame
  /\ mem = [k \in Frame |-> NULL]
  /\ swap = [s \in SwapSlot |-> NULL]
  /\ pf_sema = NULL
  /\ ft_lock = NULL
  /\ th = [p \in Proc |-> Out]
  /\ panicked = "no"
  /\ starts = 0
  /\ ops = 0
  /\ val = [p \in Proc |-> [u \in Page |-> 0]]
  /\ lost = {}
  /\ leaked = {}

\* The page tables, the supplemental page table and the frame table.
Present(p, u) == pte[p][u].frame # -1
pagedir_is_dirty(p, u) == pte[p][u].dirty
pagedir_set_page(p, u, k) == [NotPresent EXCEPT !.frame = k]
spt_get_flag(p, u) == spt[p][u].flag
spt_get_ref(p, u) == spt[p][u].ref
spt_set(p, u, ref, flag) == [spt EXCEPT ![p][u] = [flag |-> flag, ref |-> ref]]
ft_set(k, p, u) == [ft[k] EXCEPT !.pid = p, !.upage = u]
ft_pin(k) == ft' = [ft EXCEPT ![k].pinned = TRUE]
ft_unpin(k) == ft' = [ft EXCEPT ![k].pinned = FALSE]
falloc_free_frame(k) == pool' = pool \cup {k}

Runs(p, pc) == panicked = "no" /\ th[p].pc = pc

Goto(p, pc) == th' = [th EXCEPT ![p].pc = pc]

-----------------------------------------------------------------------------
(* Processes.                                                              *)

\* load(): load_segment only fills in the supplemental page table.
load(p) ==
  /\ Runs(p, "none")
  /\ starts < MaxStarts
  /\ starts' = starts + 1
  /\ pagedir' = [pagedir EXCEPT ![p] = TRUE]
  /\ spt' = [spt EXCEPT ![p] = [u \in Page |-> [flag |-> Loaded[u], ref |-> -1]]]
  /\ Goto(p, "user")
  /\ UNCHANGED <<pte, ft, victim_idx, pool, mem, swap, pf_sema, ft_lock, panicked,
                 ops, val, lost, leaked>>

\* The page is between the copy to swap and pagedir_clear_page.
BeingEvicted(k) == \E q \in Proc : th[q].pc = "clear" /\ th[q].frame = k

\* A store to a page that is present; the processor sets the bits.
Store(p, u) ==
  /\ pte' = [pte EXCEPT ![p][u].accessed = TRUE, ![p][u].dirty = TRUE]
  /\ mem' = [mem EXCEPT ![pte[p][u].frame] = <<p, u, 1 - val[p][u]>>]
  /\ val' = [val EXCEPT ![p][u] = 1 - @]
  /\ lost' = IF BeingEvicted(pte[p][u].frame) THEN lost \cup {<<p, u>>} ELSE lost

access(p, u, write) ==
  /\ Runs(p, "user")
  /\ ops < MaxOps
  /\ ops' = ops + 1
  /\ IF ~Present(p, u)
     THEN /\ th' = [th EXCEPT ![p] = [Out EXCEPT !.pc = "fault", !.page = u]]
          /\ UNCHANGED <<pte, mem, val, lost>>
     ELSE IF write
     THEN Store(p, u) /\ UNCHANGED th
     ELSE /\ pte' = [pte EXCEPT ![p][u].accessed = TRUE]
          /\ UNCHANGED <<th, mem, val, lost>>
  /\ UNCHANGED <<pagedir, spt, ft, victim_idx, pool, swap, pf_sema, ft_lock,
                 panicked, starts, leaked>>

-----------------------------------------------------------------------------
(* The page fault handler.                                                 *)

\* Mutant: the handler returns from an access it cannot serve, which faults
\* again.
page_fault_Returns(p) ==
  LET u == th[p].page
      good == spt_get_flag(p, u) # "INVALID" \/ u \in Stack
  IN  /\ Runs(p, "fault")
      /\ pf_sema = NULL
      /\ pf_sema' = IF good THEN p ELSE NULL
      /\ th' = [th EXCEPT ![p].pc = IF good THEN "falloc" ELSE "fault",
                          ![p].again = spt_get_flag(p, u) = "INVALID"]
      /\ UNCHANGED <<pagedir, pte, spt, ft, victim_idx, pool, mem, swap, ft_lock,
                     panicked, starts, ops, val, lost, leaked>>

\* A page with an entry is brought in, a page of the stack is added, any other
\* access ends the process.
page_fault(p) ==
  LET u == th[p].page
      good == spt_get_flag(p, u) # "INVALID" \/ u \in Stack
  IN  /\ Runs(p, "fault")
      /\ pf_sema = NULL
      /\ pf_sema' = IF good THEN p ELSE NULL
      /\ th' = [th EXCEPT ![p].pc = IF good THEN "falloc" ELSE "exit",
                          ![p].again = spt_get_flag(p, u) = "INVALID"]
      /\ UNCHANGED <<pagedir, pte, spt, ft, victim_idx, pool, mem, swap, ft_lock,
                     panicked, starts, ops, val, lost, leaked>>

\* The clock: the frame looked at in the i-th turn, and whether its page has
\* been accessed since the hand last passed.
Hand(i) == (victim_idx + i) % NFrames
Accessed(i) == i < NFrames /\ pte[ft[Hand(i)].pid][ft[Hand(i)].upage].accessed
Stops(i) == ~Accessed(i) /\ ~ft[Hand(i)].pinned
Turns == 0 .. 2 * NFrames - 1

\* Mutant: a page that came from a file is dropped although it was written to.
Slotted_NotFile(flag, dirty) == flag \in {"MMRY", "ZERO"}

\* Pages that must be kept in swap; the others can be read or zeroed again.
Slotted(flag, dirty) == flag = "MMRY" \/ (flag \in {"FILE", "ZERO"} /\ dirty)

\* What a search in rising order finds first in a set.
Least(S) == {i \in S : \A j \in S : i <= j}

\* falloc_get_frame looks for a free frame under the lock of the pool alone.
falloc_get_frame(p) ==
  /\ Runs(p, "falloc")
  /\ IF pool # {}
     THEN \E k \in Least(pool) :
            /\ pool' = pool \ {k}
            /\ th' = [th EXCEPT ![p].pc = "install", ![p].frame = k]
     ELSE Goto(p, "evict") /\ UNCHANGED pool
  /\ UNCHANGED <<pagedir, pte, spt, ft, victim_idx, mem, swap, pf_sema, ft_lock,
                 panicked, starts, ops, val, lost, leaked>>

\* The accessed bits after the hand has passed the frames of the first n turns.
Cleared(n) ==
  [q \in Proc |-> [u \in Page |-> [pte[q][u] EXCEPT !.accessed =
     @ /\ ~\E i \in 0 .. n - 1 : ft[Hand(i)].pid = q /\ ft[Hand(i)].upage = u]]]

\* What the hand meets in turn i: no thread has that tid any more, or the page
\* directory of the thread, which is exiting, is NULL.
Gone(i) == ft[Hand(i)].pid = NULL
Exiting(i) == ~Gone(i) /\ ~pagedir[ft[Hand(i)].pid]

\* The turn in which the clock stops: it breaks out, or fails.
Last == Least({i \in Turns : Gone(i) \/ Exiting(i) \/ Stops(i)} \cup {2 * NFrames})

\* The scan reads through the NULL that thread_from_tid returns.  The page
\* fault handler then waits for the semaphore that this thread holds.
evict_gone(p) ==
  /\ Runs(p, "evict") /\ ft_lock = NULL
  /\ \E i \in Last : i < 2 * NFrames /\ Gone(i)
  /\ ft_lock' = p
  /\ Goto(p, "stuck")
  /\ UNCHANGED <<pagedir, pte, spt, ft, victim_idx, pool, mem, swap, pf_sema, panicked,
                 starts, ops, val, lost, leaked>>

\* Every frame is pinned.  The handler goes on to the test for the stack, and
\* tries again with an empty page if it is passed.
evict_none(p) ==
  /\ Runs(p, "evict") /\ ft_lock = NULL
  /\ 2 * NFrames \in Last
  /\ pte' = Cleared(2 * NFrames)
  /\ IF th[p].page \in Stack /\ ~th[p].again
     THEN th' = [th EXCEPT ![p].pc = "falloc", ![p].again = TRUE] /\ UNCHANGED pf_sema
     ELSE Goto(p, "exit") /\ pf_sema' = NULL
  /\ UNCHANGED <<pagedir, spt, ft, victim_idx, pool, mem, swap, ft_lock, panicked,
                 starts, ops, val, lost, leaked>>

\* The first free slot, -1 if there is none, and its filling; and the freeing
\* of a set of slots.
free_slot ==
  IF \A s \in SwapSlot : swap[s] # NULL THEN {-1} ELSE Least({s \in SwapSlot : swap[s] = NULL})
swap_out(slot, k) == [s \in SwapSlot |-> IF s = slot THEN mem[k] ELSE swap[s]]
swap_in(slots) == [s \in SwapSlot |-> IF s \in slots THEN NULL ELSE swap[s]]

\* The clock stops at a frame in turn i; its page is copied to swap when it must
\* be kept.
evict_at(p, i) ==
  LET k == Hand(i)
      q == ft[k].pid
      u == ft[k].upage
      out == Slotted(spt_get_flag(q, u), pagedir_is_dirty(q, u))
  IN  /\ Runs(p, "evict") /\ ft_lock = NULL
      /\ i < 2 * NFrames /\ ~Gone(i)
      /\ \E slot \in IF out THEN free_slot ELSE {-1} :
           /\ panicked' = IF Exiting(i) THEN "exiting"
                          ELSE IF spt_get_flag(q, u) \in {"SWAP", "INVALID"} THEN "impossible"
                          ELSE IF out /\ slot = -1 THEN "swap_full" ELSE "no"
           /\ swap' = swap_out(slot, k)
           /\ th' = [th EXCEPT ![p].pc = "clear", ![p].frame = k, ![p].slot = slot]
      /\ ft_lock' = p
      /\ victim_idx' = k
      /\ pte' = Cleared(i)
      /\ UNCHANGED <<pagedir, spt, ft, pool, mem, pf_sema, starts, ops, val, lost, leaked>>

evict(p) == Runs(p, "evict") /\ \E i \in Last : evict_at(p, i)

pagedir_clear_page(p, u) == pte' = [pte EXCEPT ![p][u] = NotPresent]

\* Mutant: the page stays mapped.
evict_clear_KeepsPage(p) ==
  LET q == ft[th[p].frame].pid
      u == ft[th[p].frame].upage
  IN  /\ Runs(p, "clear")
      /\ spt' = IF th[p].slot = -1 THEN spt
                ELSE spt_set(q, u, th[p].slot, "SWAP")
      /\ IF pagedir[q]
         THEN ft_lock' = NULL /\ Goto(p, "install") /\ UNCHANGED panicked
         ELSE panicked' = "exiting" /\ UNCHANGED <<ft_lock, th>>
      /\ UNCHANGED <<pagedir, pte, ft, victim_idx, pool, mem, swap, pf_sema, starts, ops, val,
                     lost, leaked>>

\* Only now is the page taken out of its owner's page table.
evict_clear(p) ==
  LET q == ft[th[p].frame].pid
      u == ft[th[p].frame].upage
  IN  /\ Runs(p, "clear")
      /\ spt' = IF th[p].slot = -1 THEN spt
                ELSE spt_set(q, u, th[p].slot, "SWAP")
      /\ IF pagedir[q]
         THEN /\ pagedir_clear_page(q, u)
              /\ ft_lock' = NULL
              /\ Goto(p, "install")
              /\ UNCHANGED panicked
         ELSE panicked' = "exiting" /\ UNCHANGED <<pte, ft_lock, th>>
      /\ UNCHANGED <<pagedir, ft, victim_idx, pool, mem, swap, pf_sema, starts, ops, val,
                     lost, leaked>>

\* Mutant: a page brought in for the kernel is not pinned.
PinnedAfter_NotKernel(k, kernel) == ft[k].pinned

\* ft_set leaves the flag of the frame's last owner, ft_pin sets it.
PinnedAfter(k, kernel) == ft[k].pinned \/ kernel

\* The frame is mapped and filled: from the file, with zeros or from swap,
\* which frees the slot.  The access is tried again, at once if it is the
\* kernel's, whose page is pinned.
install(p) ==
  LET u == th[p].page
      k == th[p].frame
      flag == IF th[p].again THEN "INVALID" ELSE spt_get_flag(p, u)
      s == spt_get_ref(p, u)
  IN  /\ Runs(p, "install")
      /\ panicked' = IF flag = "MMRY" \/ (flag = "SWAP" /\ swap[s] = NULL)
                     THEN "impossible" ELSE "no"
      /\ pte' = [pte EXCEPT ![p][u] =
                   [pagedir_set_page(p, u, k) EXCEPT !.accessed = th[p].kernel]]
      /\ mem' = [mem EXCEPT ![k] = IF flag = "SWAP" THEN swap[s] ELSE <<p, u, 0>>]
      /\ swap' = IF flag = "SWAP" THEN swap_in({s}) ELSE swap
      /\ spt' = CASE flag = "INVALID" -> spt_set(p, u, -1, "ZERO")
                  [] flag = "SWAP" -> spt_set(p, u, -1, "MMRY")
                  [] OTHER -> spt
      /\ ft' = [ft EXCEPT ![k] = [ft_set(k, p, u) EXCEPT !.pinned = PinnedAfter(k, th[p].kernel)]]
      /\ pf_sema' = NULL
      /\ th' = [th EXCEPT ![p] = [Out EXCEPT !.pc = IF th[p].kernel THEN "kernel" ELSE "user",
                                             !.page = IF th[p].kernel THEN u ELSE -1]]
      /\ lost' = IF th[p].again /\ spt[p][u].flag # "INVALID"
                 THEN lost \cup {<<p, u>>} ELSE lost
      /\ leaked' = IF th[p].again /\ spt[p][u].flag = "SWAP" THEN leaked \cup {s} ELSE leaked
      /\ UNCHANGED <<pagedir, victim_idx, pool, ft_lock, starts, ops, val>>

-----------------------------------------------------------------------------
(* System calls with one page of arguments.                                *)

syscall_handler(p, u) ==
  /\ Runs(p, "user")
  /\ ops < MaxOps
  /\ ops' = ops + 1
  /\ th' = [th EXCEPT ![p] = [Out EXCEPT !.pc = "valid", !.page = u, !.kernel = TRUE]]
  /\ UNCHANGED <<pagedir, pte, spt, ft, victim_idx, pool, mem, swap, pf_sema, ft_lock,
                 panicked, starts, val, lost, leaked>>

\* valid, valid_buf: the page is pinned and read, which brings it in (and pins
\* it) if it is not present.
valid(p) ==
  LET u == th[p].page
  IN  /\ Runs(p, "valid")
      /\ pf_sema = NULL /\ ft_lock = NULL
      /\ IF Present(p, u)
         THEN /\ ft_pin(pte[p][u].frame)
              /\ pte' = [pte EXCEPT ![p][u].accessed = TRUE]
              /\ Goto(p, "kernel")
         ELSE Goto(p, "fault") /\ UNCHANGED <<ft, pte>>
      /\ UNCHANGED <<pagedir, spt, victim_idx, pool, mem, swap, pf_sema, ft_lock,
                     panicked, starts, ops, val, lost, leaked>>

\* The call stores into the buffer, as read() does.
syscall(p) ==
  /\ Runs(p, "kernel")
  /\ Present(p, th[p].page)
  /\ Store(p, th[p].page)
  /\ Goto(p, "unpin")
  /\ UNCHANGED <<pagedir, spt, ft, victim_idx, pool, swap, pf_sema, ft_lock, panicked,
                 starts, ops, leaked>>

\* The call returns, having stored into the buffer or not.
unpin(p) ==
  /\ Runs(p, "kernel") \/ Runs(p, "unpin")
  /\ ft_lock = NULL
  /\ IF Present(p, th[p].page) THEN ft_unpin(pte[p][th[p].page].frame) ELSE UNCHANGED ft
  /\ th' = [th EXCEPT ![p] = [Out EXCEPT !.pc = "user"]]
  /\ UNCHANGED <<pagedir, pte, spt, victim_idx, pool, mem, swap, pf_sema, ft_lock,
                 panicked, starts, ops, val, lost, leaked>>

-----------------------------------------------------------------------------
(* process_exit: neither pf_sema nor a lock covers the whole of it.        *)

\* SYS_EXIT comes here from the middle of a system call, a page fault that
\* cannot be served from the handler.  Nothing unpins the arguments.
process_exit(p, pc) ==
  /\ Runs(p, pc)
  /\ pagedir' = [pagedir EXCEPT ![p] = FALSE]
  /\ th' = [th EXCEPT ![p] = [Out EXCEPT !.pc = "destroy"]]
  /\ UNCHANGED <<pte, spt, ft, victim_idx, pool, mem, swap, pf_sema, ft_lock, panicked,
                 starts, ops, val, lost, leaked>>

\* falloc_free_frame and ft_remove for the next page.
pagedir_destroy(p) ==
  /\ Runs(p, "destroy")
  /\ ft_lock = NULL
  /\ \E u \in Least({v \in Page : Present(p, v)}) :
       /\ falloc_free_frame(pte[p][u].frame)
       /\ pagedir_clear_page(p, u)
       /\ mem' = [mem EXCEPT ![pte[p][u].frame] = NULL]
  /\ UNCHANGED <<pagedir, spt, ft, victim_idx, swap, pf_sema, ft_lock, th, panicked,
                 starts, ops, val, lost, leaked>>

\* The slots of the process.
Slots(p) == {spt[p][u].ref : u \in {v \in Page : spt[p][v].flag = "SWAP"}}

\* Mutant: the entries are freed but not the slots they name.
spt_free_process_KeepsSlots(p) ==
  /\ Runs(p, "destroy")
  /\ \A u \in Page : ~Present(p, u)
  /\ spt' = [spt EXCEPT ![p] = [u \in Page |-> NoEntry]]
  /\ ft' = [k \in Frame |-> IF ft[k].pid = p THEN [ft[k] EXCEPT !.pid = NULL, !.upage = -1]
                       ELSE ft[k]]
  /\ th' = [th EXCEPT ![p] = Out]
  /\ val' = [val EXCEPT ![p] = [u \in Page |-> 0]]
  /\ lost' = {x \in lost : x[1] # p}
  /\ UNCHANGED <<pagedir, pte, victim_idx, pool, mem, swap, pf_sema, ft_lock, panicked,
                 starts, ops, leaked>>

\* The slots are freed by reading them.  Then thread_exit takes the thread off
\* all_list: from now on no thread has the tid that the frame table holds.
spt_free_process(p) ==
  /\ Runs(p, "destroy")
  /\ \A u \in Page : ~Present(p, u)
  /\ swap' = swap_in(Slots(p))
  /\ spt' = [spt EXCEPT ![p] = [u \in Page |-> NoEntry]]
  /\ ft' = [k \in Frame |-> IF ft[k].pid = p THEN [ft[k] EXCEPT !.pid = NULL, !.upage = -1]
                       ELSE ft[k]]
  /\ th' = [th EXCEPT ![p] = Out]
  /\ val' = [val EXCEPT ![p] = [u \in Page |-> 0]]
  /\ lost' = {x \in lost : x[1] # p}
  /\ UNCHANGED <<pagedir, pte, victim_idx, pool, mem, pf_sema, ft_lock, panicked,
                 starts, ops, leaked>>

-----------------------------------------------------------------------------
Handler(p) ==
  \/ page_fault(p) \/ falloc_get_frame(p)
  \/ evict_gone(p) \/ evict_none(p) \/ evict(p) \/ evict_clear(p)
  \/ install(p)

Kernel(p) ==
  \/ Handler(p)
  \/ valid(p) \/ unpin(p)
  \/ process_exit(p, "exit") \/ pagedir_destroy(p) \/ spt_free_process(p)

Next ==
  \E p \in Proc :
    \/ load(p)
    \/ \E u \in Page, write \in BOOLEAN : access(p, u, write)
    \/ \E u \in Page : syscall_handler(p, u)
    \/ syscall(p)
    \/ process_exit(p, "kernel")
    \/ Kernel(p)

Spec == Init /\ [][Next]_vars

\* A thread that is ready runs, and sema_up and lock_release serve the waiters
\* in turn: a thread that can go on in the kernel again and again does.
LiveSpec == Spec /\ \A p \in Proc : SF_vars(Kernel(p))

-----------------------------------------------------------------------------
(* Properties.                                                             *)

Faulting == {"fault", "falloc", "evict", "clear", "install"}

\* Every frame is free, mapped by exactly one page, which is the page its
\* frame table entry names, or in the hands of the fault handler that is about
\* to map it (falloc_get_frame, ft_set, pagedir_destroy).
FramesOwnedOnce ==
  \A k \in Frame :
    LET mappers == {x \in Proc \X Page : pte[x[1]][x[2]].frame = k}
        takers == {p \in Proc : th[p].pc = "install" /\ th[p].frame = k}
        owners == ({"page"} \X mappers) \cup ({"handler"} \X takers)
    IN  /\ k \in pool <=> owners = {}
        /\ \A a, b \in owners : a = b
        /\ \A x \in mappers : ft[k].pid = x[1] /\ ft[k].upage = x[2]

\* Every swap slot in use is named by exactly one SWAP entry, or is being
\* filled by an eviction, or is the slot of a page that the second attempt of
\* the fault handler replaced; a slot that is named is in use.  So the panics
\* that the code declares impossible do not happen: a page that faults is not
\* in memory and its slot is in use, a victim is not in swap and has an entry
\* ("why are you in the memory?", "why are you in the swap?").
SlotsOwnedOnce ==
  /\ panicked # "impossible"
  /\ \A s \in SwapSlot :
       LET namers == {x \in Proc \X Page : spt[x[1]][x[2]] = [flag |-> "SWAP", ref |-> s]}
           fillers == {p \in Proc : th[p].pc = "clear" /\ th[p].slot = s}
           owners == ({"page"} \X namers) \cup ({"handler"} \X fillers)
       IN  panicked = "no" =>
             /\ (swap[s] = NULL \/ s \in leaked) <=> owners = {}
             /\ \A a, b \in owners : a = b
             /\ s \in leaked => swap[s] # NULL

\* A page holds what its process last wrote to it wherever it is kept: in its
\* frame, in its slot, or as the file or zeros it is loaded from.  Pages
\* written to between the copy of an eviction and pagedir_clear_page, and
\* pages replaced by the handler's second attempt, are excepted.
ContentsKept ==
  \A p \in Proc, u \in Page :
    (pagedir[p] /\ <<p, u>> \notin lost /\ panicked = "no") =>
      IF Present(p, u) THEN mem[pte[p][u].frame] = <<p, u, val[p][u]>>
      ELSE IF spt[p][u].flag = "SWAP" THEN swap[spt[p][u].ref] = <<p, u, val[p][u]>>
      ELSE spt[p][u].flag \in {"FILE", "ZERO"} => val[p][u] = 0

\* From the time that valid has accepted a page until unpin, the page stays
\* mapped: the body of a system call takes no page fault on its buffer, for
\* which it might wait with file system locks held.
ValidatedStaysMapped ==
  \A p \in Proc : th[p].pc \in {"kernel", "unpin"} =>
                    /\ Present(p, th[p].page)
                    /\ ~BeingEvicted(pte[p][th[p].page].frame)

\* A page fault is served or ends the process, unless the kernel stops, or the
\* clock meets the frame of a thread that no longer exists.
FaultsReturn ==
  \A p \in Proc :
    th[p].pc \in Faulting ~>
      \/ th[p].pc \notin Faulting
      \/ panicked # "no"
      \/ \E q \in Proc : th[q].pc = "stuck"
=============================================================================
