------------------------------ MODULE VmProof -------------------------------
(***************************************************************************)
(* The theorems on demand paging: every frame and every swap slot has one  *)
(* owner, a page keeps its contents wherever it is kept, and a page that a *)
(* system call has validated stays mapped, for any number of processes,    *)
(* pages, frames and slots.  First the steps by which a frame changes      *)
(* hands: the choice of a victim, its eviction, and the new page.          *)
(***************************************************************************)
EXTENDS VmLemmas

----------------------------------------------------------------------------
\* The clock stops at frame k of page u of q; s is the slot it is copied to, or
\* -1.  If the owner is alive the frame is not pinned.
Chooses(p, k, q, u, s) ==
  /\ Moves(p) /\ th[p].pc = "evict" /\ panicked = "no" /\ ft_lock = NULL /\ ft_lock' = p
  /\ th'[p].pc = "clear" /\ th'[p].frame = k /\ th'[p].slot = s /\ th'[p].page = th[p].page
  /\ ft[k].pid = q /\ ft[k].upage = u
  /\ pagedir[q] => ~ft[k].pinned
  /\ panicked' \in {"no", "swap_full", "exiting", "impossible"}
  /\ panicked' = "no" => pagedir[q]
  /\ panicked' = "impossible" => pagedir[q] /\ spt[q][u].flag \in {"SWAP", "INVALID"}
  /\ s = -1 => swap' = swap
  /\ s # -1 => swap'[s] = mem[k] /\ swap[s] = NULL /\ \A t \in SwapSlot \ {s} : swap'[t] = swap[t]
  /\ panicked' = "no" /\ s = -1 => spt[q][u].flag # "MMRY" /\ ~pte[q][u].dirty
  /\ SameMap
  /\ UNCHANGED <<pagedir, spt, ft, pool, mem, pf_sema, val, lost, leaked>>

\* The hand stops within two rounds where the scan breaks out or fails.
LEMMA LastIs ==
  ASSUME TypeOK, NEW i \in Last, i < 2 * NFrames
  PROVE  i \in Turns /\ (Gone(i) \/ Exiting(i) \/ Stops(i)) /\ Hand(i) \in Frame
<1>1. NFrames \in Nat \ {0} /\ victim_idx \in Nat
  BY VMAssumption, Zenon DEF VMAssumption, TypeOK, TableTypes
<1>2. i \in Turns /\ (Gone(i) \/ Exiting(i) \/ Stops(i))
  BY <1>1 DEF Last, Least
<1>3. PICK n \in Nat : n = victim_idx + i
  BY <1>1, <1>2 DEF Turns
<1>4. n % NFrames \in Frame
  BY VMAssumption, HandIsFrame, Zenon
<1>5. QED BY <1>2, <1>3, <1>4, Zenon DEF Hand

\* A free slot is a free slot.
LEMMA FreeSlot ==
  ASSUME NEW s \in free_slot, s # -1
  PROVE  s \in SwapSlot /\ swap[s] = NULL
BY Zenon DEF free_slot, Least

\* What the eviction chooses, and the types after it.
LEMMA ChoosesFacts ==
  ASSUME VmInv, NEW p \in Proc, evict(p)
  PROVE  /\ \E k \in Frame, q \in Proc, u \in Page, s \in SwapSlot \cup {-1} : Chooses(p, k, q, u, s)
         /\ TypeOK'
<1>0. Consistent
  BY Zenon DEF VmInv
<1> USE <1>0
<1>1. TypeOK /\ ThreadTypes /\ TableTypes /\ SwapTypes /\ DataTypes /\ Owners
  BY Zenon DEF Consistent, TypeOK
<1>2. PICK i \in Last : evict_at(p, i)
  BY Zenon DEF evict
<1>3. i < 2 * NFrames /\ ~Gone(i) /\ th[p].pc = "evict" /\ panicked = "no" /\ ft_lock = NULL
  BY <1>2, Zenon DEF evict_at, Runs
<1>4. Hand(i) \in Frame /\ (Exiting(i) \/ Stops(i))
  BY <1>1, <1>3, LastIs, Zenon
<1>5. PICK k \in Frame : k = Hand(i)
  BY <1>4, Zenon
<1>6. PICK q \in Proc : q = ft[k].pid
  BY <1>1, <1>3, <1>5, Zenon DEF Gone, TableTypes, FtEntry
<1>7. PICK u \in Page : u = ft[k].upage
  BY <1>1, <1>6, VMAssumption, Zenon DEF Owners, FrameOf, VMAssumption
<1> DEFINE out == Slotted(spt_get_flag(q, u), pagedir_is_dirty(q, u))
<1>8. PICK s \in IF out THEN free_slot ELSE {-1} :
        /\ panicked' = IF Exiting(i) THEN "exiting"
                       ELSE IF spt_get_flag(q, u) \in {"SWAP", "INVALID"} THEN "impossible"
                       ELSE IF out /\ s = -1 THEN "swap_full" ELSE "no"
        /\ swap' = swap_out(s, k)
        /\ th' = [th EXCEPT ![p].pc = "clear", ![p].frame = k, ![p].slot = s]
  BY <1>2, <1>5, <1>6, <1>7, Zenon DEF evict_at
<1>9. s \in SwapSlot \cup {-1} /\ (s # -1 => swap[s] = NULL)
  BY FreeSlot, Zenon
<1>10. /\ panicked' = IF Exiting(i) THEN "exiting"
                      ELSE IF spt_get_flag(q, u) \in {"SWAP", "INVALID"} THEN "impossible"
                      ELSE IF out /\ s = -1 THEN "swap_full" ELSE "no"
       /\ ft_lock' = p /\ victim_idx' = k /\ pte' = Cleared(i) /\ swap' = swap_out(s, k)
       /\ th' = [th EXCEPT ![p].pc = "clear", ![p].frame = k, ![p].slot = s]
  BY <1>2, <1>5, <1>8, Zenon DEF evict_at
<1>11. UNCHANGED <<pagedir, spt, ft, pool, mem, pf_sema, val, lost, leaked>>
  BY <1>2, Zenon DEF evict_at
<1>12. (Exiting(i) <=> ~pagedir[q]) /\ (pagedir[q] => ~ft[k].pinned)
  BY <1>3, <1>4, <1>5, <1>6, Zenon DEF Exiting, Stops
<1>13. out <=> spt[q][u].flag = "MMRY" \/ (spt[q][u].flag \in {"FILE", "ZERO"} /\ pte[q][u].dirty)
  BY Zenon DEF Slotted, spt_get_flag, pagedir_is_dirty
<1>14. /\ panicked' \in {"no", "swap_full", "exiting", "impossible"}
       /\ panicked' = "no" => pagedir[q]
       /\ panicked' = "impossible" => pagedir[q] /\ spt[q][u].flag \in {"SWAP", "INVALID"}
       /\ panicked' = "no" /\ s = -1 => ~out /\ spt[q][u].flag \in {"FILE", "ZERO", "MMRY"}
  <2>1. spt[q][u].flag \in Flag
    BY <1>1, Zenon DEF SwapTypes, SptEntry
  <2>2. spt_get_flag(q, u) = spt[q][u].flag
    BY Zenon DEF spt_get_flag
  <2> HIDE DEF out
  <2>3. QED BY <1>10, <1>12, <2>1, <2>2, Zenon DEF Flag
<1>15. panicked' = "no" /\ s = -1 => spt[q][u].flag # "MMRY" /\ ~pte[q][u].dirty
  <2> HIDE DEF out
  <2>1. QED BY <1>13, <1>14, Zenon
<1> HIDE DEF out
<1>16. /\ swap' \in [SwapSlot -> Content \cup {NULL}]
       /\ s = -1 => swap' = swap
       /\ s # -1 => swap'[s] = mem[k] /\ \A t \in SwapSlot \ {s} : swap'[t] = swap[t]
  <2>1. swap' = [t \in SwapSlot |-> IF t = s THEN mem[k] ELSE swap[t]]
    BY <1>10, Zenon DEF swap_out
  <2>2. swap \in [SwapSlot -> Content \cup {NULL}] /\ mem[k] \in Content \cup {NULL} /\ -1 \notin SwapSlot
    BY <1>1 DEF SwapTypes, DataTypes, SwapSlot
  <2>3. QED BY <1>9, <2>1, <2>2, Zenon
<1>17. SameMap /\ pte' \in [Proc -> [Page -> Pte]]
  BY <1>1, <1>10, ClearedKeeps, Zenon
<1>18. /\ Moves(p) /\ th'[p].pc = "clear" /\ th'[p].frame = k /\ th'[p].slot = s
       /\ th'[p].page = th[p].page
  <2>1. th \in [Proc -> Thread] /\ th[p] \in Thread
    BY <1>1, Zenon DEF ThreadTypes
  <2>2. PICK r \in Thread : r = [th[p] EXCEPT !.pc = "clear", !.frame = k, !.slot = s]
    BY <1>9, <2>1, Zenon DEF Thread, Point
  <2>3. r.pc = "clear" /\ r.page = th[p].page /\ r.frame = k /\ r.slot = s
    BY <2>1, <2>2, Zenon DEF Thread
  <2>4. Becomes(p, r)
    BY <1>10, <2>1, <2>2, Zenon DEF Becomes
  <2>5. QED BY <1>1, <2>3, <2>4, BecomesMoves, Zenon
<1>19. Chooses(p, k, q, u, s)
  BY <1>3, <1>6, <1>7, <1>9, <1>10, <1>11, <1>12, <1>14, <1>15, <1>16, <1>17, <1>18, Zenon DEF
       Chooses
<1>20. ThreadTypes' /\ TableTypes'
  BY <1>1, <1>10, <1>11, <1>17, <1>18 DEF ThreadTypes, TableTypes, Moves, Frame
<1>21. SwapTypes' /\ DataTypes'
  BY <1>1, <1>11, <1>16, Zenon DEF SwapTypes, DataTypes
<1>22. QED BY <1>9, <1>19, <1>20, <1>21, Zenon DEF TypeOK

\* The frame of a live process is mapped when nobody else is in the handler.
LEMMA ChoosesMapped ==
  ASSUME VmInv, NEW p \in Proc, NEW k \in Frame, NEW q \in Proc, NEW u \in Page,
         NEW s \in SwapSlot \cup {-1}, Chooses(p, k, q, u, s), pagedir[q]
  PROVE  Mapped(k) /\ pte[q][u].frame = k /\ Present(q, u)
<1>0. Consistent
  BY Zenon DEF VmInv
<1> USE <1>0
<1>1. ~Taken(k)
  <2> SUFFICES ASSUME NEW r \in Proc, th[r].pc = "install" PROVE FALSE
    BY Zenon DEF Taken
  <2>1. pf_sema = r /\ pf_sema = p
    BY Zenon DEF Consistent, Places, PlaceOf, Busy, Chooses
  <2>2. QED BY <2>1, Zenon DEF Chooses
<1>2. ft[k].pid = q /\ ft[k].upage = u /\ q # NULL
  BY VMAssumption, Zenon DEF Chooses, VMAssumption
<1>3. Mapped(k)
  BY <1>1, <1>2, Zenon DEF Consistent, Owners, FrameOf
<1>4. QED BY <1>2, <1>3 DEF Mapped, Present, Frame

\* No frame changes hands.
LEMMA ChoosesOwners ==
  ASSUME VmInv, NEW p \in Proc, NEW k \in Frame, NEW q \in Proc, NEW u \in Page,
         NEW s \in SwapSlot \cup {-1}, Chooses(p, k, q, u, s)
  PROVE  Owners'
<1>0. Consistent
  BY Zenon DEF VmInv
<1> USE <1>0
<1>1. UNCHANGED <<pagedir, ft, pool, mem>> /\ SameMap /\ Owners /\ TableTypes
  BY Zenon DEF Chooses, Consistent, TypeOK
<1>2. \A j \in Frame : Mapped(j)' <=> Mapped(j)
  BY <1>1, Zenon DEF Mapped, SameMap
<1>3. \A j \in Frame : Taken(j)' <=> Taken(j)
  <2>1. \A r \in Proc : (th'[r].pc = "install" <=> th[r].pc = "install") /\ (r # p => th'[r] = th[r])
    BY Zenon DEF Chooses, Moves
  <2>2. th[p].pc # "install"
    BY Zenon DEF Chooses
  <2>3. QED BY <2>1, <2>2, Zenon DEF Taken
<1>4. ASSUME NEW j \in Frame PROVE FrameOf(j)'
  <2>1. FrameOf(j)
    BY <1>1, Zenon DEF Owners
  <2>2. QED BY <1>1, <1>2, <1>3, <2>1, Zenon DEF FrameOf
<1>5. ASSUME NEW r \in Proc, NEW v \in Page PROVE MapOf(r, v)'
  <2>1. MapOf(r, v) /\ pte'[r][v].frame = pte[r][v].frame
    BY <1>1, Zenon DEF Owners, SameMap
  <2>2. QED BY <1>1, <2>1, Zenon DEF MapOf, Present
<1>6. ASSUME NEW r \in Proc PROVE HandOf(r)'
  <2>1. HandOf(r) /\ th[r].pc # "clear"
    BY <1>1, VMAssumption, Zenon DEF Owners, Consistent, Places, PlaceOf, VMAssumption, Chooses
  <2>2. CASE r = p
    <3>1. th'[p].pc = "clear" /\ th'[p].frame = k
      BY Zenon DEF Chooses
    <3>2. panicked' = "no" => Mapped(k)'
      BY <1>2, ChoosesMapped DEF Chooses
    <3>3. \A t \in Proc : ft'[k].pid = t /\ pagedir'[t] => ~ft'[k].pinned
      BY <1>1, Zenon DEF Chooses
    <3>4. Clearer(p)'
      BY <3>1, <3>2, <3>3, Zenon DEF Clearer
    <3>5. QED BY <2>2, <3>1, <3>4, Zenon DEF HandOf, Taker, Pinner, Ended
  <2>3. CASE r # p
    <3>1. th'[r] = th[r]
      BY <2>3, Zenon DEF Chooses, Moves
    <3>2. Taker(r)' /\ Clearer(r)' /\ Ended(r)'
      BY <1>1, <2>1, <3>1, Zenon DEF HandOf, Taker, Clearer, Ended
    <3>3. Pinner(r)'
      BY <1>1, <2>1, <3>1 DEF HandOf, Pinner, Present, SameMap
    <3>4. QED BY <3>2, <3>3, Zenon DEF HandOf
  <2>4. QED BY <2>2, <2>3, Zenon
<1>7. QED BY <1>4, <1>5, <1>6, Zenon DEF Owners

\* An eviction starts when there is no other.
LEMMA ChoosesAlone ==
  ASSUME VmInv, NEW p \in Proc, NEW k \in Frame, NEW q \in Proc, NEW u \in Page,
         NEW s \in SwapSlot \cup {-1}, Chooses(p, k, q, u, s)
  PROVE  \A r \in Proc : th[r].pc # "clear" /\ (th'[r].pc = "clear" => r = p)
<1>0. Consistent
  BY Zenon DEF VmInv
<1> USE <1>0
<1>1. \A r \in Proc : th[r].pc # "clear"
  BY VMAssumption, Zenon DEF Consistent, Places, PlaceOf, VMAssumption, Chooses
<1>2. \A r \in Proc \ {p} : th'[r] = th[r]
  BY Zenon DEF Chooses, Moves
<1>3. QED BY <1>1, <1>2, Zenon

\* A victim of a live owner has an entry and is not in swap; its slot, if it
\* gets one, was free and is its own.
LEMMA ChoosesSwaps ==
  ASSUME VmInv, NEW p \in Proc, NEW k \in Frame, NEW q \in Proc, NEW u \in Page,
         NEW s \in SwapSlot \cup {-1}, Chooses(p, k, q, u, s)
  PROVE  Swaps'
<1>0. Consistent
  BY Zenon DEF VmInv
<1> USE <1>0
<1>1. UNCHANGED <<pagedir, spt, ft, leaked>> /\ panicked = "no" /\ SameMap /\ Swaps
  BY Zenon DEF Chooses, Consistent
<1>2. panicked' # "impossible"
  <2> SUFFICES ASSUME panicked' = "impossible" PROVE FALSE
    BY Zenon
  <2>1. pagedir[q] /\ spt[q][u].flag \in {"SWAP", "INVALID"}
    BY Zenon DEF Chooses
  <2>2. Present(q, u) /\ EntryOf(q, u)
    BY <1>1, <2>1, ChoosesMapped, Zenon DEF Swaps
  <2>3. QED BY <2>1, <2>2, Zenon DEF EntryOf
<1> SUFFICES ASSUME panicked' = "no"
    PROVE  /\ \A r \in Proc, v \in Page : EntryOf(r, v)'
           /\ \A t \in SwapSlot : SlotOf(t)'
           /\ \A r \in Proc : DropOf(r)'
  BY <1>2, Zenon DEF Swaps
<1>3. mem[k] # NULL
  <2>1. pagedir[q]
    BY Zenon DEF Chooses
  <2>2. pte[q][u].frame = k /\ Present(q, u)
    BY <2>1, ChoosesMapped
  <2>3. QED BY <2>2 DEF Consistent, Owners, MapOf
<1>4. \A t \in SwapSlot : swap[t] # NULL => swap'[t] # NULL
  BY Zenon DEF Chooses
<1>5. ASSUME NEW r \in Proc, NEW v \in Page PROVE EntryOf(r, v)'
  <2>1. EntryOf(r, v) /\ (Present(r, v)' <=> Present(r, v))
    BY <1>1, Zenon DEF Swaps, SameMap, Present
  <2>2. th'[r].pc = "none" => th[r].pc = "none"
    BY Zenon DEF Chooses, Moves
  <2>3. QED BY <1>1, <1>4, <2>1, <2>2, Zenon DEF EntryOf
<1>6. ASSUME NEW t \in SwapSlot PROVE SlotOf(t)'
  <2>1. SlotOf(t) /\ \A r \in Proc, v \in Page : EntryOf(r, v)
    BY <1>1, Zenon DEF Swaps
  <2>2. \A r \in Proc, v \in Page : Names(r, v, t)' <=> Names(r, v, t)
    BY <1>1, Zenon DEF Names
  <2>3. \A r \in Proc : ~Fills(r, t) /\ (Fills(r, t)' <=> r = p /\ t = s)
    <3>1. th'[p].pc = "clear" /\ th'[p].slot = s
      BY Zenon DEF Chooses
    <3>2. QED BY <3>1, ChoosesAlone, Zenon DEF Fills
  <2>4. CASE t = s
    <3>1. swap[t] = NULL /\ swap'[t] # NULL
      <4>1. s # -1
        BY <2>4 DEF SwapSlot
      <4>2. QED BY <1>3, <2>4, <4>1, Zenon DEF Chooses
    <3>2. t \notin leaked /\ \A r \in Proc, v \in Page : ~Names(r, v, t)
      BY <2>1, <3>1, Zenon DEF SlotOf, EntryOf, Names
    <3>3. QED BY <1>1, <2>2, <2>3, <2>4, <3>1, <3>2, Zenon DEF SlotOf
  <2>5. CASE t # s
    <3>1. swap'[t] = swap[t]
      BY <2>5, Zenon DEF Chooses
    <3>2. QED BY <1>1, <2>1, <2>2, <2>3, <2>5, <3>1, SlotKept, Zenon
  <2>6. QED BY <2>4, <2>5, Zenon
<1>7. ASSUME NEW r \in Proc PROVE DropOf(r)'
  <2> SUFFICES ASSUME NEW j \in Frame, NEW a \in Proc, NEW v \in Page, Clears(r, j, a, v)', th'[r].slot = -1
      PROVE  spt'[a][v].flag # "MMRY"
    BY Zenon DEF DropOf
  <2>1. r = p
    BY ChoosesAlone, Zenon DEF Clears
  <2>2. j = k /\ a = q /\ v = u /\ s = -1
    BY <1>1, <2>1, Zenon DEF Clears, Chooses
  <2>3. QED BY <1>1, <2>2, Zenon DEF Chooses
<1>8. QED BY <1>5, <1>6, <1>7, Zenon

\* The copy is what the page holds, or the page can be made again.
LEMMA ChoosesContents ==
  ASSUME VmInv, NEW p \in Proc, NEW k \in Frame, NEW q \in Proc, NEW u \in Page,
         NEW s \in SwapSlot \cup {-1}, Chooses(p, k, q, u, s)
  PROVE  Contents'
<1>0. Consistent
  BY Zenon DEF VmInv
<1> USE <1>0
<1>1. UNCHANGED <<pagedir, spt, ft, mem, val, lost>> /\ panicked = "no" /\ SameMap /\ Swaps /\ Contents
  BY Zenon DEF Chooses, Consistent
<1> SUFFICES ASSUME panicked' = "no"
    PROVE  (\A r \in Proc, v \in Page : PageOf(r, v)') /\ (\A r \in Proc : CopyOf(r)')
  BY Zenon DEF Contents
<1>2. \A r \in Proc, v \in Page : (Present(r, v)' <=> Present(r, v)) /\ (Kept(r, v)' <=> Kept(r, v))
  BY <1>1, Zenon DEF SameMap, Present, Kept
<1>3. ASSUME NEW r \in Proc, NEW v \in Page PROVE PageOf(r, v)'
  <2>1. /\ PageOf(r, v) /\ pte'[r][v].frame = pte[r][v].frame /\ pte'[r][v].dirty = pte[r][v].dirty
        /\ th'[r].pc = "none" => th[r].pc = "none"
    <3>1. PageOf(r, v)
      BY <1>1, Zenon DEF Contents
    <3>2. pte'[r][v].frame = pte[r][v].frame /\ pte'[r][v].dirty = pte[r][v].dirty
      BY <1>1, Zenon DEF SameMap
    <3>3. th'[p].pc = "clear" /\ \A a \in Proc \ {p} : th'[a] = th[a]
      BY Zenon DEF Chooses, Moves
    <3>4. QED BY <3>1, <3>2, <3>3, Zenon
  <2>2. ASSUME spt[r][v].flag = "SWAP" PROVE swap'[spt[r][v].ref] = swap[spt[r][v].ref]
    <3>1. PICK t \in SwapSlot : t = spt[r][v].ref /\ swap[t] # NULL
      BY <1>1, <2>2, Zenon DEF Swaps, EntryOf
    <3>2. QED BY <3>1, Zenon DEF Chooses
  <2>3. HeldOf(r, v) => HeldOf(r, v)'
    BY <1>1, <1>2, <2>1, <2>2, Zenon DEF HeldOf
  <2>4. QED BY <1>1, <1>2, <2>1, <2>3, Zenon DEF PageOf
<1>4. ASSUME NEW r \in Proc PROVE CopyOf(r)'
  <2> SUFFICES ASSUME NEW j \in Frame, NEW a \in Proc, NEW v \in Page, Clears(r, j, a, v)', Kept(a, v)'
      PROVE  IF th'[r].slot = -1 THEN val'[a][v] = 0 ELSE swap'[th'[r].slot] = <<a, v, val'[a][v]>>
    BY Zenon DEF CopyOf
  <2>1. r = p
    BY ChoosesAlone, Zenon DEF Clears
  <2>2. j = k /\ a = q /\ v = u /\ th'[r].slot = s
    BY <1>1, <2>1, Zenon DEF Clears, Chooses
  <2>3. pagedir[q] /\ PageOf(q, u) /\ Kept(q, u)
    BY <1>1, <1>2, <2>2, Zenon DEF Chooses, Contents
  <2>4. pte[q][u].frame = k /\ Present(q, u)
    <3>1. Mapped(k) /\ pte[q][u].frame = k /\ Present(q, u)
      BY <2>3, ChoosesMapped, Zenon
    <3>2. QED BY <3>1, Zenon
  <2>5. HeldOf(q, u)
    BY <2>3, Zenon DEF PageOf
  <2>6. CASE s = -1
    <3>1. spt[q][u].flag # "MMRY" /\ ~pte[q][u].dirty
      BY <2>6, Zenon DEF Chooses
    <3>2. QED BY <1>1, <2>2, <2>4, <2>5, <2>6, <3>1, Zenon DEF HeldOf
  <2>7. CASE s # -1
    <3>1. swap'[s] = mem[k]
      BY <2>7, Zenon DEF Chooses
    <3>2. QED BY <1>1, <2>2, <2>4, <2>5, <2>7, <3>1, Zenon DEF HeldOf
  <2>8. QED BY <2>6, <2>7, Zenon
<1>5. QED BY <1>3, <1>4, Zenon

\* An eviction chooses its victim.
LEMMA evictKeeps ==
  ASSUME VmInv, NEW p \in Proc, evict(p)
  PROVE  VmInv'
<1>0. Consistent
  BY Zenon DEF VmInv
<1> USE <1>0
<1>1. TypeOK'
  BY ChoosesFacts, Zenon
<1>2. PICK k \in Frame, q \in Proc, u \in Page, s \in SwapSlot \cup {-1} : Chooses(p, k, q, u, s)
  BY ChoosesFacts, Zenon
<1>3. Steps(p)
  <2>1. /\ Moves(p) /\ ft_lock = NULL /\ ft_lock' = p /\ SameMap /\ NULL \notin Proc
        /\ UNCHANGED <<pagedir, pf_sema>>
    BY <1>2, VMAssumption, Zenon DEF Chooses, VMAssumption
  <2>2. \A r \in Proc, v \in Page : Present(r, v)' => Present(r, v)
    BY <2>1, Zenon DEF SameMap, Present
  <2>3. QED BY <2>1, <2>2, Zenon DEF Steps, Moves
<1>4. PlaceOf(p)'
  <2>1. PlaceOf(p) /\ th[p].pc = "evict" /\ th'[p].pc = "clear" /\ th'[p].page = th[p].page
        /\ SameMap /\ ft_lock' = p /\ UNCHANGED <<pagedir, pf_sema>>
    BY <1>2, Zenon DEF Consistent, Places, Chooses
  <2>2. QED BY <2>1 DEF PlaceOf, Busy, Present, SameMap
<1>5. Owners' /\ Swaps' /\ Contents'
  BY <1>2, ChoosesOwners, ChoosesSwaps, ChoosesContents, Zenon
<1>6. QED BY <1>1, <1>3, <1>4, <1>5, PlacesKept, Zenon DEF VmInv, Consistent

----------------------------------------------------------------------------
\* The page in frame k is taken out of its owner's page table and the handler
\* has the frame.
Unmaps(p, k, q, u) ==
  /\ Moves(p) /\ Clears(p, k, q, u) /\ panicked = "no" /\ pagedir[q]
  /\ th'[p].pc = "install" /\ th'[p].frame = k /\ th'[p].page = th[p].page /\ ft_lock' = NULL
  /\ pte'[q][u].frame = -1 /\ \A r \in Proc, v \in Page : r # q \/ v # u => pte'[r][v] = pte[r][v]
  /\ \A r \in Proc, v \in Page : r # q \/ v # u => spt'[r][v] = spt[r][v]
  /\ IF th[p].slot = -1 THEN spt'[q][u] = spt[q][u]
     ELSE spt'[q][u].flag = "SWAP" /\ spt'[q][u].ref = th[p].slot
  /\ UNCHANGED <<pagedir, ft, victim_idx, pool, mem, swap, pf_sema, panicked, val, lost, leaked>>

\* What is evicted: the frame is mapped by the page that its entry names.
LEMMA ClearFacts ==
  ASSUME VmInv, NEW p \in Proc, evict_clear(p)
  PROVE  \E k \in Frame, q \in Proc, u \in Page : Clears(p, k, q, u) /\ Mapped(k)
<1>0. Consistent
  BY Zenon DEF VmInv
<1> USE <1>0
<1>1. th[p].pc = "clear" /\ panicked = "no"
  BY Zenon DEF evict_clear, Runs
<1>2. th[p].frame \in Frame /\ \A k \in Frame : th[p].frame = k => Mapped(k)
  BY <1>1, Zenon DEF Consistent, Owners, HandOf, Clearer
<1>3. QED BY <1>1, <1>2, Zenon DEF Mapped, Clears

\* The entry of the page after the eviction.
LEMMA ClearEntry ==
  ASSUME VmInv, NEW p \in Proc, evict_clear(p),
         NEW k \in Frame, NEW q \in Proc, NEW u \in Page, Clears(p, k, q, u)
  PROVE  /\ spt' \in [Proc -> [Page -> SptEntry]]
         /\ \A r \in Proc, v \in Page : r # q \/ v # u => spt'[r][v] = spt[r][v]
         /\ IF th[p].slot = -1 THEN spt'[q][u] = spt[q][u]
            ELSE spt'[q][u].flag = "SWAP" /\ spt'[q][u].ref = th[p].slot
<1>0. Consistent
  BY Zenon DEF VmInv
<1> USE <1>0
<1>1. /\ spt \in [Proc -> [Page -> SptEntry]]
      /\ th[p].slot \in SwapSlot \cup {-1}
  BY Zenon DEF Consistent, TypeOK, SwapTypes, ThreadTypes, Thread
<1>2. CASE th[p].slot = -1
  <2>1. spt' = spt
    BY <1>2, Zenon DEF evict_clear
  <2>2. QED BY <1>1, <1>2, <2>1, Zenon
<1>3. CASE th[p].slot # -1
  <2>1. PICK e \in SptEntry : e = [flag |-> "SWAP", ref |-> th[p].slot]
    BY <1>1, Zenon DEF SptEntry, Flag
  <2>2. e.flag = "SWAP" /\ e.ref = th[p].slot
    BY <2>1, Zenon
  <2>3. spt' = [spt EXCEPT ![q][u] = e]
    BY <1>3, <2>1, Zenon DEF evict_clear, Clears, spt_set
  <2>4. spt' \in [Proc -> [Page -> SptEntry]]
    BY <1>1, <2>3, Zenon
  <2>5. spt'[q][u] = e /\ \A r \in Proc, v \in Page : r # q \/ v # u => spt'[r][v] = spt[r][v]
    BY <1>1, <2>3, Zenon
  <2>6. QED BY <1>3, <2>2, <2>4, <2>5, Zenon
<1>4. QED BY <1>2, <1>3, Zenon

\* The owner is alive.
LEMMA UnmapsFacts ==
  ASSUME VmInv, NEW p \in Proc, evict_clear(p),
         NEW k \in Frame, NEW q \in Proc, NEW u \in Page, Clears(p, k, q, u), pagedir[q]
  PROVE  Unmaps(p, k, q, u) /\ TypeOK'
<1>0. Consistent
  BY Zenon DEF VmInv
<1> USE <1>0
<1>1. ThreadTypes /\ TableTypes /\ SwapTypes /\ DataTypes /\ ft[th[p].frame].pid = q /\ ft[th[p].frame].upage = u
  BY Zenon DEF Consistent, TypeOK, Clears
<1>2. Puts(q, u, NotPresent) /\ ft_lock' = NULL /\ Goto(p, "install") /\ panicked = "no" /\ panicked' = panicked
  BY <1>1, Zenon DEF evict_clear, pagedir_clear_page, Puts, Runs
<1>3. UNCHANGED <<pagedir, ft, victim_idx, pool, mem, swap, pf_sema, val, lost, leaked>>
  BY Zenon DEF evict_clear
<1>4. NotPresent \in Pte /\ NotPresent.frame = -1
  BY Zenon DEF NotPresent, Pte
<1>5. /\ pte' \in [Proc -> [Page -> Pte]] /\ pte'[q][u] = NotPresent
      /\ \A r \in Proc, v \in Page : r # q \/ v # u => pte'[r][v] = pte[r][v]
  BY <1>1, <1>2, <1>4, PutsKeeps
<1>6. Moves(p) /\ th'[p].pc = "install" /\ th'[p].page = th[p].page /\ th'[p].frame = th[p].frame
  BY <1>1, <1>2, GotoMoves, Zenon DEF Point
<1>7. th[p].frame = k
  BY Zenon DEF Clears
<1>8. /\ spt' \in [Proc -> [Page -> SptEntry]]
      /\ \A r \in Proc, v \in Page : r # q \/ v # u => spt'[r][v] = spt[r][v]
      /\ IF th[p].slot = -1 THEN spt'[q][u] = spt[q][u]
         ELSE spt'[q][u].flag = "SWAP" /\ spt'[q][u].ref = th[p].slot
  BY ClearEntry
<1>9. Unmaps(p, k, q, u)
  BY <1>2, <1>3, <1>4, <1>5, <1>6, <1>7, <1>8, Zenon DEF Unmaps
<1>10. ThreadTypes' /\ TableTypes'
  BY <1>1, <1>2, <1>3, <1>5, <1>6, Zenon DEF ThreadTypes, TableTypes, Moves
<1>11. SwapTypes' /\ DataTypes'
  BY <1>1, <1>3, <1>8, Zenon DEF SwapTypes, DataTypes
<1>12. QED BY <1>9, <1>10, <1>11, Zenon DEF TypeOK

\* There is one eviction.
LEMMA ClearAlone ==
  ASSUME VmInv, NEW p \in Proc, th[p].pc = "clear"
  PROVE  \A r \in Proc : r # p => th[r].pc \notin {"clear", "install"}
<1>0. Consistent
  BY Zenon DEF VmInv
<1> USE <1>0
<1>1. ft_lock = p /\ pf_sema = p
  BY Zenon DEF Consistent, Places, PlaceOf, Busy
<1>2. QED BY <1>1, Zenon DEF Consistent, Places, PlaceOf, Busy

\* The frame goes from its page to the handler.  It is not pinned.
LEMMA UnmapsOwners ==
  ASSUME VmInv, NEW p \in Proc, NEW k \in Frame, NEW q \in Proc, NEW u \in Page, Unmaps(p, k, q, u),
         Mapped(k)
  PROVE  Owners'
<1>0. Consistent
  BY Zenon DEF VmInv
<1> USE <1>0
<1>1. /\ UNCHANGED <<pagedir, ft, pool, mem, panicked>> /\ Owners /\ TableTypes /\ pagedir[q]
      /\ th[p].pc = "clear" /\ th[p].frame = k /\ ft[k].pid = q /\ ft[k].upage = u
      /\ th'[p].pc = "install" /\ th'[p].frame = k
      /\ \A r \in Proc : r # p => th'[r] = th[r]
  BY Zenon DEF Unmaps, Consistent, TypeOK, Moves, Clears
<1>2. pte[q][u].frame = k /\ Present(q, u) /\ k \notin pool
  <2>1. pte[q][u].frame = k /\ Present(q, u) /\ MapOf(q, u)
    BY <1>1, MappedPresent, Zenon DEF Mapped, Owners
  <2>2. QED BY <2>1, Zenon DEF MapOf
<1>3. \A r \in Proc : r # p => th[r].pc \notin {"clear", "install"}
  BY <1>1, ClearAlone, Zenon
<1>4. \A j \in Frame : Taken(j)' <=> j = k
  BY <1>1, <1>3, Zenon DEF Taken
<1>5. \A j \in Frame : pte'[q][u].frame # j
  BY NoFrame, Zenon DEF Unmaps
<1>6. \A j \in Frame : j # k => (Mapped(j)' <=> Mapped(j)) /\ ~Taken(j)
  <2> TAKE j \in Frame
  <2> HAVE j # k
  <2>1. ~Taken(j)
    BY <1>1, <1>3, Zenon DEF Taken
  <2>2. Mapped(j)' <=> Mapped(j)
    <3>1. CASE ft[j].pid = q /\ ft[j].upage = u
      BY <1>1, <1>2, <1>5, <3>1, Zenon DEF Mapped
    <3>2. CASE ~(ft[j].pid = q /\ ft[j].upage = u)
      <4>1. /\ \A r \in Proc, v \in Page : r # q \/ v # u => pte'[r][v] = pte[r][v]
            /\ ft' = ft
        BY <1>1, Zenon DEF Unmaps
      <4>2. QED BY <3>2, <4>1, Zenon DEF Mapped
    <3>3. QED BY <3>1, <3>2, Zenon
  <2>3. QED BY <2>1, <2>2, Zenon
<1>7. ASSUME NEW j \in Frame PROVE FrameOf(j)'
  <2>1. FrameOf(j)
    BY <1>1, Zenon DEF Owners
  <2>2. CASE j = k
    <3>1. ~Mapped(k)'
      BY <1>1, <1>5, Zenon DEF Mapped
    <3>2. QED BY <1>1, <1>2, <1>4, <2>1, <2>2, <3>1, Zenon DEF FrameOf
  <2>3. CASE j # k
    BY <1>1, <1>4, <1>6, <2>1, <2>3, Zenon DEF FrameOf
  <2>4. QED BY <2>2, <2>3, Zenon
<1>8. ASSUME NEW r \in Proc, NEW v \in Page PROVE MapOf(r, v)'
  <2> SUFFICES ASSUME Present(r, v)', r # q \/ v # u PROVE MapOf(r, v)'
    BY Zenon DEF MapOf, Present, Unmaps
  <2>1. MapOf(r, v)
    BY <1>1, Zenon DEF Owners
  <2>2. pte'[r][v] = pte[r][v]
    BY Zenon DEF Unmaps
  <2>3. QED BY <1>1, <2>1, <2>2, Zenon DEF MapOf, Present
<1>9. ASSUME NEW r \in Proc PROVE HandOf(r)'
  <2>1. HandOf(r)
    BY <1>1, Zenon DEF Owners
  <2>2. CASE r = p
    BY <1>1, <2>2, Zenon DEF HandOf, Taker, Clearer, Pinner, Ended
  <2>3. CASE r # p
    <3>1. th'[r] = th[r] /\ th[r].pc # "clear"
      BY <1>1, <1>3, <2>3, Zenon
    <3>2. Taker(r)' /\ Clearer(r)' /\ Ended(r)'
      BY <1>1, <2>1, <3>1, Zenon DEF HandOf, Taker, Clearer, Ended
    <3>3. ~ft[k].pinned
      BY <1>1, Zenon DEF Owners, HandOf, Clearer
    <3>4. ASSUME NEW v \in Page, th[r].pc \in {"kernel", "unpin"}, th[r].page = v
          PROVE  pte'[r][v] = pte[r][v]
      <4>1. r # q \/ v # u
        BY <1>2, <2>1, <3>3, <3>4, Zenon DEF HandOf, Pinner
      <4>2. QED BY <4>1, Zenon DEF Unmaps
    <3>5. Pinner(r)'
      BY <1>1, <2>1, <3>1, <3>4 DEF HandOf, Pinner, Present
    <3>6. QED BY <3>2, <3>5, Zenon DEF HandOf
  <2>4. QED BY <2>2, <2>3, Zenon
<1>10. QED BY <1>7, <1>8, <1>9, Zenon DEF Owners

\* The slot goes from the eviction to the page's entry.
LEMMA UnmapsSwaps ==
  ASSUME VmInv, NEW p \in Proc, NEW k \in Frame, NEW q \in Proc, NEW u \in Page, Unmaps(p, k, q, u),
         Mapped(k)
  PROVE  Swaps'
<1>0. Consistent
  BY Zenon DEF VmInv
<1> USE <1>0
<1>1. /\ UNCHANGED <<pagedir, swap, panicked, leaked>> /\ Swaps /\ panicked = "no"
      /\ Clears(p, k, q, u) /\ th[p].pc = "clear" /\ th'[p].pc = "install" /\ pagedir[q]
      /\ \A r \in Proc : r # p => th'[r] = th[r]
  BY Zenon DEF Unmaps, Consistent, Moves, Clears
<1>2. Present(q, u)
  BY <1>1, MappedPresent, Zenon DEF Clears
<1>3. \A r \in Proc : (r # p => th[r].pc # "clear") /\ th'[r].pc # "clear"
  BY <1>1, ClearAlone, Zenon
<1>4. th[p].slot \in SwapSlot \cup {-1} /\ -1 \notin SwapSlot
  BY DEF Consistent, TypeOK, ThreadTypes, Thread, SwapSlot
<1>5. EntryOf(q, u)'
  <2>1. EntryOf(q, u) /\ DropOf(p)
    BY <1>1, Zenon DEF Swaps
  <2>2. th'[q].pc # "none" /\ ~Present(q, u)'
    <3>1. th[q].pc # "none"
      BY <1>1, Zenon DEF Consistent, Places, PlaceOf
    <3>2. QED BY <1>1, <3>1, Zenon DEF Unmaps, Present
  <2>3. CASE th[p].slot = -1
    <3>1. spt'[q][u] = spt[q][u] /\ spt[q][u].flag # "MMRY"
      BY <1>1, <2>1, <2>3, Zenon DEF Unmaps, DropOf
    <3>2. QED BY <1>1, <2>1, <2>2, <3>1, Zenon DEF EntryOf
  <2>4. CASE th[p].slot # -1
    <3>1. PICK s \in SwapSlot : s = th[p].slot
      BY <1>4, <2>4, Zenon
    <3>2. spt'[q][u].flag = "SWAP" /\ spt'[q][u].ref = s
      BY <2>4, <3>1, Zenon DEF Unmaps
    <3>3. swap[s] # NULL
      BY <1>1, <3>1, Zenon DEF Swaps, SlotOf, Fills
    <3>4. QED BY <1>1, <2>2, <3>2, <3>3, Zenon DEF EntryOf
  <2>5. QED BY <2>3, <2>4, Zenon
<1>6. ASSUME NEW r \in Proc, NEW v \in Page PROVE EntryOf(r, v)'
  <2> SUFFICES ASSUME r # q \/ v # u PROVE EntryOf(r, v)'
    BY <1>5, Zenon
  <2>1. EntryOf(r, v) /\ pte'[r][v] = pte[r][v] /\ spt'[r][v] = spt[r][v]
    BY <1>1, Zenon DEF Swaps, Unmaps
  <2>2. th'[r].pc = "none" => th[r].pc = "none"
    BY <1>1, Zenon
  <2>3. QED BY <1>1, <2>1, <2>2, Zenon DEF EntryOf, Present
<1>7. ASSUME NEW t \in SwapSlot PROVE SlotOf(t)'
  <2>1. SlotOf(t) /\ EntryOf(q, u)
    BY <1>1, Zenon DEF Swaps
  <2>2. \A r \in Proc : ~Fills(r, t)' /\ (Fills(r, t) <=> r = p /\ t = th[p].slot)
    BY <1>1, <1>3, Zenon DEF Fills
  <2>3. \A r \in Proc, v \in Page : r # q \/ v # u => (Names(r, v, t)' <=> Names(r, v, t))
    BY Zenon DEF Names, Unmaps
  <2>4. ~Names(q, u, t) /\ (Names(q, u, t)' <=> t = th[p].slot)
    <3>1. spt[q][u].flag # "SWAP"
      BY <1>2, <2>1, Zenon DEF EntryOf
    <3>2. QED BY <1>4, <3>1, Zenon DEF Names, Unmaps
  <2>5. CASE t = th[p].slot
    <3>1. Fills(p, t)
      BY <2>2, <2>5, Zenon
    <3>2. swap[t] # NULL /\ t \notin leaked /\ \A r \in Proc, v \in Page : ~Names(r, v, t)
      BY <2>1, <3>1, Zenon DEF SlotOf
    <3>3. \A r \in Proc, v \in Page : Names(r, v, t)' <=> r = q /\ v = u
      BY <2>3, <2>4, <2>5, <3>2, Zenon
    <3>4. QED BY <1>1, <2>2, <3>2, <3>3, Zenon DEF SlotOf
  <2>6. CASE t # th[p].slot
    <3>1. \A r \in Proc, v \in Page : Names(r, v, t)' <=> Names(r, v, t)
      BY <2>3, <2>4, <2>6, Zenon
    <3>2. \A r \in Proc : Fills(r, t)' <=> Fills(r, t)
      BY <2>2, <2>6, Zenon
    <3>3. QED BY <1>1, <2>1, <3>1, <3>2, SlotKept, Zenon
  <2>7. QED BY <2>5, <2>6, Zenon
<1>8. ASSUME NEW r \in Proc PROVE DropOf(r)'
  BY <1>3, Zenon DEF DropOf, Clears
<1>9. QED BY <1>1, <1>6, <1>7, <1>8, Zenon DEF Swaps

\* What was copied is what the page holds, and is where its entry says.
LEMMA UnmapsContents ==
  ASSUME VmInv, NEW p \in Proc, NEW k \in Frame, NEW q \in Proc, NEW u \in Page, Unmaps(p, k, q, u),
         Mapped(k)
  PROVE  Contents'
<1>0. Consistent
  BY Zenon DEF VmInv
<1> USE <1>0
<1>1. /\ UNCHANGED <<pagedir, swap, mem, panicked, val, lost>> /\ Swaps /\ Contents /\ panicked = "no"
      /\ Clears(p, k, q, u) /\ th[p].pc = "clear" /\ th'[p].pc = "install" /\ pagedir[q]
      /\ \A r \in Proc : r # p => th'[r] = th[r]
  BY Zenon DEF Unmaps, Consistent, Moves, Clears
<1>2. Present(q, u)
  BY <1>1, MappedPresent, Zenon DEF Clears
<1>3. \A r \in Proc : th'[r].pc # "clear" /\ (th'[r].pc = "none" => th[r].pc = "none")
  BY <1>1, ClearAlone, Zenon
<1>4. PageOf(q, u)'
  <2>1. PageOf(q, u) /\ EntryOf(q, u) /\ CopyOf(p) /\ ~Present(q, u)'
    BY <1>1, Zenon DEF Contents, Swaps, Unmaps, Present
  <2>2. ASSUME Kept(q, u)' PROVE HeldOf(q, u)'
    <3>1. IF th[p].slot = -1 THEN val[q][u] = 0 ELSE swap[th[p].slot] = <<q, u, val[q][u]>>
      BY <1>1, <2>1, <2>2, Zenon DEF CopyOf, Kept
    <3>2. spt[q][u].flag # "SWAP"
      BY <1>2, <2>1, Zenon DEF EntryOf
    <3>3. CASE th[p].slot = -1
      <4>1. spt'[q][u].flag # "SWAP"
        BY <3>2, <3>3, Zenon DEF Unmaps
      <4>2. QED BY <1>1, <2>1, <3>1, <3>3, <4>1, Zenon DEF HeldOf
    <3>4. CASE th[p].slot # -1
      <4>1. spt'[q][u].flag = "SWAP" /\ spt'[q][u].ref = th[p].slot
        BY <3>4, Zenon DEF Unmaps
      <4>2. QED BY <1>1, <2>1, <3>1, <3>4, <4>1, Zenon DEF HeldOf
    <3>5. QED BY <3>3, <3>4, Zenon
  <2>3. QED BY <1>1, <1>3, <2>1, <2>2, Zenon DEF PageOf
<1>5. ASSUME NEW r \in Proc, NEW v \in Page PROVE PageOf(r, v)'
  <2> SUFFICES ASSUME r # q \/ v # u PROVE PageOf(r, v)'
    BY <1>4, Zenon
  <2>1. PageOf(r, v) /\ pte'[r][v] = pte[r][v] /\ spt'[r][v] = spt[r][v]
    BY <1>1, Zenon DEF Contents, Unmaps
  <2>2. HeldOf(r, v) => HeldOf(r, v)'
    BY <1>1, <2>1, Zenon DEF HeldOf, Present
  <2>3. QED BY <1>1, <1>3, <2>1, <2>2, Zenon DEF PageOf, Kept
<1>6. ASSUME NEW r \in Proc PROVE CopyOf(r)'
  BY <1>3, Zenon DEF CopyOf, Clears
<1>7. QED BY <1>5, <1>6, Zenon DEF Contents

\* The owner is exiting: the kernel stops before the page is taken out.
LEMMA ClearPanics ==
  ASSUME VmInv, NEW p \in Proc, evict_clear(p),
         NEW k \in Frame, NEW q \in Proc, NEW u \in Page, Clears(p, k, q, u), ~pagedir[q]
  PROVE  VmInv'
<1>0. Consistent
  BY Zenon DEF VmInv
<1> USE <1>0
<1>1. TypeOK /\ Places /\ Owners /\ ft[th[p].frame].pid = q
  BY Zenon DEF Consistent, Clears
<1>2. /\ panicked' = "exiting"
      /\ UNCHANGED <<pte, ft_lock, th, pagedir, ft, victim_idx, pool, mem, swap, pf_sema, val, lost, leaked>>
  BY <1>1, Zenon DEF evict_clear
<1>3. spt' \in [Proc -> [Page -> SptEntry]]
  BY ClearEntry, Zenon
<1>4. TypeOK'
  <2>1. ThreadTypes' /\ TableTypes'
    BY <1>1, <1>2, Zenon DEF TypeOK, ThreadTypes, TableTypes
  <2>2. QED BY <1>1, <1>2, <1>3, <2>1, Zenon DEF TypeOK, SwapTypes, DataTypes
<1>5. Places'
  <2> SUFFICES ASSUME NEW r \in Proc PROVE PlaceOf(r)'
    BY Zenon DEF Places
  <2>1. PlaceOf(r)
    BY <1>1, Zenon DEF Places
  <2>2. QED BY <1>2, <2>1, Zenon DEF PlaceOf, Present
<1>6. Owners'
  <2>1. \A r \in Proc : SameTake(r) /\ SameClear(r)
    BY <1>2, Zenon DEF SameTake, SameClear
  <2>2. KeepsFrames
    BY <1>2, <2>1, Zenon DEF KeepsFrames
  <2>3. ASSUME NEW r \in Proc PROVE Clearer(r)' /\ Pinner(r)'
    <3>1. Clearer(r) /\ Pinner(r)
      BY <1>1, Zenon DEF Owners, HandOf
    <3>2. QED BY <1>2, <3>1, Zenon DEF Clearer, Pinner, Present
  <2>4. QED BY <1>1, <2>2, <2>3, FramesKept, Zenon DEF TypeOK
<1>7. Swaps' /\ Contents'
  BY <1>2, Zenon DEF Swaps, Contents
<1>8. QED BY <1>4, <1>5, <1>6, <1>7, Zenon DEF VmInv, Consistent

\* evict_clear() keeps the invariant.
LEMMA evict_clearKeeps ==
  ASSUME VmInv, NEW p \in Proc, evict_clear(p)
  PROVE  VmInv'
<1>0. Consistent
  BY Zenon DEF VmInv
<1> USE <1>0
<1>1. PICK k \in Frame, q \in Proc, u \in Page : Clears(p, k, q, u) /\ Mapped(k)
  BY ClearFacts, Zenon
<1>2. CASE ~pagedir[q]
  BY <1>1, <1>2, ClearPanics, Zenon
<1>3. CASE pagedir[q]
  <2>1. Unmaps(p, k, q, u) /\ TypeOK'
    BY <1>1, <1>3, UnmapsFacts, Zenon
  <2>2. Owners' /\ Swaps' /\ Contents'
    BY <1>1, <2>1, UnmapsOwners, UnmapsSwaps, UnmapsContents, Zenon
  <2>3. \A r \in Proc, v \in Page : Present(r, v)' => Present(r, v)
    BY <2>1, Zenon DEF Unmaps, Present
  <2>4. PlaceOf(p) /\ th[p].pc = "clear" /\ ft_lock = p
    BY <1>1, Zenon DEF Consistent, Places, PlaceOf, Clears
  <2>5. Steps(p)
    BY <2>1, <2>3, <2>4, VMAssumption, Zenon DEF Steps, Unmaps, Moves, VMAssumption
  <2>6. PlaceOf(p)'
    <3>1. /\ th'[p].pc = "install" /\ th'[p].page = th[p].page /\ ft_lock' = NULL
          /\ UNCHANGED <<pagedir, pf_sema>>
      BY <2>1, Zenon DEF Unmaps
    <3>2. QED BY <2>3, <2>4, <3>1, VMAssumption, Zenon DEF PlaceOf, Busy, VMAssumption
  <2>7. QED BY <2>1, <2>2, <2>5, <2>6, PlacesKept, Zenon DEF VmInv, Consistent
<1>4. QED BY <1>2, <1>3, Zenon

----------------------------------------------------------------------------
\* The page comes back from its slot.
SwapsIn(p, u, k) ==
  \E s \in SwapSlot :
    /\ Names(p, u, s) /\ spt'[p][u].flag = "MMRY"
    /\ mem'[k] = swap[s] /\ swap'[s] = NULL /\ \A t \in SwapSlot \ {s} : swap'[t] = swap[t]
    /\ leaked' = leaked

\* The page is read from the file or zeroed.  A slot that it had is leaked.
Fresh(p, u, k) ==
  /\ spt'[p][u].flag \in {"FILE", "ZERO"} /\ mem'[k] = <<p, u, 0>> /\ swap' = swap
  /\ spt[p][u].flag = "SWAP" => <<p, u>> \in lost' /\ leaked' = leaked \cup {spt[p][u].ref}
  /\ spt[p][u].flag # "SWAP" => leaked' = leaked

\* The handler maps frame k.
Installs(p, u, k) ==
  /\ Moves(p) /\ th[p].pc = "install" /\ th[p].frame = k /\ th[p].page = u
  /\ panicked = "no" /\ panicked' = "no" /\ pf_sema' = NULL
  /\ th'[p].pc \in {"kernel", "user"} /\ (th'[p].pc = "kernel" => th'[p].page = u /\ ft'[k].pinned)
  /\ pte'[p][u].frame = k /\ ~pte'[p][u].dirty
  /\ \A q \in Proc, v \in Page : q # p \/ v # u => pte'[q][v] = pte[q][v] /\ spt'[q][v] = spt[q][v]
  /\ ft'[k].pid = p /\ ft'[k].upage = u
  /\ \A j \in Frame \ {k} : ft'[j] = ft[j] /\ mem'[j] = mem[j]
  /\ lost \subseteq lost'
  /\ SwapsIn(p, u, k) \/ Fresh(p, u, k)
  /\ UNCHANGED <<pagedir, victim_idx, pool, ft_lock, val>>

\* Where the handler stands when it is about to map a frame.
LEMMA AtInstall ==
  ASSUME VmInv, NEW p \in Proc, th[p].pc = "install", panicked = "no"
  PROVE  \E u \in Page, k \in Frame :
           /\ u = th[p].page /\ k = th[p].frame /\ ~Present(p, u) /\ pagedir[p]
           /\ Taken(k) /\ ~Mapped(k) /\ k \notin pool
           /\ spt[p][u].flag \in Flag \ {"MMRY"}
           /\ spt[p][u].flag = "SWAP" => spt[p][u].ref \in SwapSlot /\ swap[spt[p][u].ref] # NULL
<1>0. Consistent
  BY Zenon DEF VmInv
<1> USE <1>0
<1>1. PICK u \in Page : u = th[p].page /\ ~Present(p, u) /\ pagedir[p]
  BY Zenon DEF Consistent, Places, PlaceOf, Busy
<1>2. PICK k \in Frame : k = th[p].frame
  BY Zenon DEF Consistent, Owners, HandOf, Taker
<1>3. Taken(k) /\ ~Mapped(k) /\ k \notin pool
  BY <1>2, Zenon DEF Taken, Consistent, Owners, FrameOf
<1>4. spt[p][u].flag \in Flag
  BY Zenon DEF Consistent, TypeOK, SwapTypes, SptEntry
<1>5. EntryOf(p, u)
  BY Zenon DEF Consistent, Swaps
<1>6. QED BY <1>1, <1>2, <1>3, <1>4, <1>5, Zenon DEF EntryOf

\* What install() does to the page table, the frame table and its process.
MapsFrame(p, u, k) ==
  /\ pte' \in [Proc -> [Page -> Pte]] /\ ft' \in [Frame -> FtEntry]
  /\ pte'[p][u].frame = k /\ ~pte'[p][u].dirty
  /\ \A q \in Proc, v \in Page : q # p \/ v # u => pte'[q][v] = pte[q][v]
  /\ ft'[k].pid = p /\ ft'[k].upage = u /\ \A j \in Frame \ {k} : ft'[j] = ft[j]
  /\ Moves(p) /\ th'[p].pc \in {"kernel", "user"}
  /\ th'[p].pc = "kernel" => th'[p].page = u /\ ft'[k].pinned

\* The page table, the frame table and the thread after install().
LEMMA InstallTables ==
  ASSUME VmInv, NEW p \in Proc, install(p), NEW u \in Page, NEW k \in Frame, u = th[p].page, k = th[p].frame
  PROVE  MapsFrame(p, u, k)
<1> SUFFICES
         /\ pte' \in [Proc -> [Page -> Pte]] /\ ft' \in [Frame -> FtEntry]
         /\ pte'[p][u].frame = k /\ ~pte'[p][u].dirty
         /\ \A q \in Proc, v \in Page : q # p \/ v # u => pte'[q][v] = pte[q][v]
         /\ ft'[k].pid = p /\ ft'[k].upage = u /\ \A j \in Frame \ {k} : ft'[j] = ft[j]
         /\ Moves(p) /\ th'[p].pc \in {"kernel", "user"}
         /\ th'[p].pc = "kernel" => th'[p].page = u /\ ft'[k].pinned
  BY Zenon DEF MapsFrame
<1>0. Consistent
  BY Zenon DEF VmInv
<1> USE <1>0
<1>1. ThreadTypes /\ TableTypes /\ th[p].kernel \in BOOLEAN
  BY Zenon DEF Consistent, TypeOK, ThreadTypes, Thread
<1>2. PICK b \in BOOLEAN : b = th[p].kernel
  BY <1>1, Zenon
<1>3. /\ pte' \in [Proc -> [Page -> Pte]] /\ pte'[p][u].frame = k /\ ~pte'[p][u].dirty
      /\ \A q \in Proc, v \in Page : q # p \/ v # u => pte'[q][v] = pte[q][v]
  <2>1. PICK r \in Pte : r = [[NotPresent EXCEPT !.frame = k] EXCEPT !.accessed = b]
    BY Zenon DEF NotPresent, Pte
  <2>2. r.frame = k /\ ~r.dirty
    BY <2>1, Zenon DEF NotPresent
  <2>3. Puts(p, u, r)
    BY <1>2, <2>1, Zenon DEF install, Puts, pagedir_set_page
  <2>4. QED BY <1>1, <2>2, <2>3, PutsKeeps
<1>4. /\ ft' \in [Frame -> FtEntry] /\ ft'[k].pid = p /\ ft'[k].upage = u /\ (b => ft'[k].pinned)
      /\ \A j \in Frame \ {k} : ft'[j] = ft[j]
  <2>1. ft \in [Frame -> FtEntry] /\ ft[k] \in FtEntry
    BY <1>1, Zenon DEF TableTypes
  <2>2. PICK c \in BOOLEAN : c = (ft[k].pinned \/ b)
    BY Zenon
  <2>3. PICK r \in FtEntry : r = [[ft[k] EXCEPT !.pid = p, !.upage = u] EXCEPT !.pinned = c]
    BY <2>1, Zenon DEF FtEntry
  <2>4. r.pid = p /\ r.upage = u /\ r.pinned = c
    BY <2>1, <2>3, Zenon DEF FtEntry
  <2>5. ft' = [ft EXCEPT ![k] = r]
    BY <1>2, <2>2, <2>3, Zenon DEF install, ft_set, PinnedAfter
  <2>6. ft' \in [Frame -> FtEntry] /\ ft'[k] = r /\ \A j \in Frame \ {k} : ft'[j] = ft[j]
    BY <2>1, <2>5, Zenon
  <2>7. QED BY <2>2, <2>4, <2>6, Zenon
<1>5. Moves(p) /\ th'[p].pc = (IF b THEN "kernel" ELSE "user") /\ (b => th'[p].page = u)
  <2>1. PICK r \in Thread : r = [Out EXCEPT !.pc = IF b THEN "kernel" ELSE "user",
                                            !.page = IF b THEN u ELSE -1]
    BY Zenon DEF Out, Thread, Point
  <2>2. r.pc = (IF b THEN "kernel" ELSE "user") /\ (b => r.page = u)
    BY <2>1, Zenon DEF Out
  <2>3. Becomes(p, r)
    BY <1>2, <2>1, Zenon DEF install, Becomes
  <2>4. QED BY <1>1, <2>2, <2>3, BecomesMoves, Zenon
<1>6. QED BY <1>3, <1>4, <1>5, Zenon

\* What install() does to the supplemental page table, the frame and its slot.
FillsFrame(p, u, k) ==
  /\ panicked' = "no" /\ SwapTypes' /\ mem' \in [Frame -> Content \cup {NULL}]
  /\ \A q \in Proc, v \in Page : q # p \/ v # u => spt'[q][v] = spt[q][v]
  /\ \A j \in Frame \ {k} : mem'[j] = mem[j]
  /\ lost \subseteq lost' /\ (SwapsIn(p, u, k) \/ Fresh(p, u, k))

\* What is in the frame after install().
LEMMA InstallData ==
  ASSUME VmInv, NEW p \in Proc, install(p), NEW u \in Page, NEW k \in Frame, u = th[p].page, k = th[p].frame,
         spt[p][u].flag \in Flag \ {"MMRY"},
         spt[p][u].flag = "SWAP" => spt[p][u].ref \in SwapSlot /\ swap[spt[p][u].ref] # NULL
  PROVE  FillsFrame(p, u, k)
<1> SUFFICES
         /\ panicked' = "no" /\ SwapTypes' /\ mem' \in [Frame -> Content \cup {NULL}]
         /\ \A q \in Proc, v \in Page : q # p \/ v # u => spt'[q][v] = spt[q][v]
         /\ \A j \in Frame \ {k} : mem'[j] = mem[j]
         /\ lost \subseteq lost' /\ (SwapsIn(p, u, k) \/ Fresh(p, u, k))
  BY Zenon DEF FillsFrame
<1>0. Consistent
  BY Zenon DEF VmInv
<1> USE <1>0
<1>1. SwapTypes /\ DataTypes /\ th[p].again \in BOOLEAN
  BY Zenon DEF Consistent, TypeOK, ThreadTypes, Thread
<1>2. PICK flag \in Flag : flag = IF th[p].again THEN "INVALID" ELSE spt[p][u].flag
  BY <1>1, Zenon DEF Flag
<1>3. PICK s : s = spt[p][u].ref
  BY Zenon
<1>4. /\ panicked' = IF flag = "MMRY" \/ (flag = "SWAP" /\ swap[s] = NULL) THEN "impossible" ELSE "no"
      /\ mem' = [mem EXCEPT ![k] = IF flag = "SWAP" THEN swap[s] ELSE <<p, u, 0>>]
      /\ swap' = IF flag = "SWAP" THEN swap_in({s}) ELSE swap
      /\ spt' = CASE flag = "INVALID" -> spt_set(p, u, -1, "ZERO")
                  [] flag = "SWAP" -> spt_set(p, u, -1, "MMRY")
                  [] OTHER -> spt
  BY <1>2, <1>3, Zenon DEF install, spt_get_flag, spt_get_ref
<1>5. /\ lost' = IF th[p].again /\ spt[p][u].flag # "INVALID" THEN lost \cup {<<p, u>>} ELSE lost
      /\ leaked' = IF th[p].again /\ spt[p][u].flag = "SWAP" THEN leaked \cup {s} ELSE leaked
  BY <1>3, Zenon DEF install, spt_get_ref
<1>6. panicked' = "no"
  BY <1>2, <1>3, <1>4, Zenon
<1>7. PICK e \in SptEntry :
        /\ spt' = [spt EXCEPT ![p][u] = e]
        /\ e.flag = IF flag = "INVALID" THEN "ZERO" ELSE IF flag = "SWAP" THEN "MMRY" ELSE flag
  <2>1. spt \in [Proc -> [Page -> SptEntry]] /\ spt[p][u] \in SptEntry
    BY <1>1, Zenon DEF SwapTypes
  <2>2. CASE flag = "INVALID"
    <3>1. [flag |-> "ZERO", ref |-> -1] \in SptEntry
      BY Zenon DEF SptEntry, Flag
    <3>2. QED BY <1>4, <2>2, <3>1, Zenon DEF spt_set
  <2>3. CASE flag = "SWAP"
    <3>1. [flag |-> "MMRY", ref |-> -1] \in SptEntry
      BY Zenon DEF SptEntry, Flag
    <3>2. QED BY <1>4, <2>3, <3>1, Zenon DEF spt_set
  <2>4. CASE flag \notin {"INVALID", "SWAP"}
    <3>1. spt' = spt /\ flag = spt[p][u].flag
      BY <1>2, <1>4, <2>4, Zenon
    <3>2. spt' = [spt EXCEPT ![p][u] = spt[p][u]]
      BY <2>1, <3>1, Zenon
    <3>3. QED BY <2>1, <2>4, <3>1, <3>2, Zenon
  <2>5. QED BY <2>2, <2>3, <2>4, Zenon
<1>8. /\ spt' \in [Proc -> [Page -> SptEntry]] /\ spt'[p][u] = e
      /\ \A q \in Proc, v \in Page : q # p \/ v # u => spt'[q][v] = spt[q][v]
  <2>1. spt \in [Proc -> [Page -> SptEntry]]
    BY <1>1, Zenon DEF SwapTypes
  <2>2. spt' \in [Proc -> [Page -> SptEntry]]
    BY <1>7, <2>1, Zenon
  <2>3. spt'[p][u] = e /\ \A q \in Proc, v \in Page : q # p \/ v # u => spt'[q][v] = spt[q][v]
    BY <1>7, <2>1, Zenon
  <2>4. QED BY <2>2, <2>3, Zenon
<1>9. /\ swap \in [SwapSlot -> Content \cup {NULL}] /\ mem \in [Frame -> Content \cup {NULL}]
      /\ <<p, u, 0>> \in Content /\ leaked \subseteq SwapSlot
  BY <1>1, Zenon DEF SwapTypes, DataTypes, Content
<1>10. CASE flag = "SWAP"
  <2>1. ~th[p].again /\ spt[p][u].flag = "SWAP" /\ s \in SwapSlot
    BY <1>2, <1>3, <1>10, Zenon
  <2>2. mem' = [mem EXCEPT ![k] = swap[s]] /\ swap' = [t \in SwapSlot |-> IF t \in {s} THEN NULL ELSE swap[t]]
    BY <1>4, <1>10, Zenon DEF swap_in
  <2>3. /\ mem' \in [Frame -> Content \cup {NULL}] /\ mem'[k] = swap[s]
        /\ \A j \in Frame \ {k} : mem'[j] = mem[j]
    BY <1>9, <2>1, <2>2, Zenon
  <2>4. /\ swap' \in [SwapSlot -> Content \cup {NULL}] /\ swap'[s] = NULL
        /\ \A t \in SwapSlot \ {s} : swap'[t] = swap[t]
    BY <1>9, <2>1, <2>2, Zenon
  <2>5. lost' = lost /\ leaked' = leaked
    BY <1>5, <2>1, Zenon
  <2>6. SwapsIn(p, u, k)
    BY <1>3, <1>7, <1>8, <1>10, <2>1, <2>3, <2>4, <2>5, Zenon DEF SwapsIn, Names
  <2>7. QED BY <1>6, <1>8, <1>9, <2>3, <2>4, <2>5, <2>6, Zenon DEF SwapTypes
<1>11. CASE flag # "SWAP"
  <2>1. mem' = [mem EXCEPT ![k] = <<p, u, 0>>] /\ swap' = swap
    BY <1>4, <1>11, Zenon
  <2>2. /\ mem' \in [Frame -> Content \cup {NULL}] /\ mem'[k] = <<p, u, 0>>
        /\ \A j \in Frame \ {k} : mem'[j] = mem[j]
    BY <1>9, <2>1, Zenon
  <2>3. /\ spt[p][u].flag = "SWAP" => <<p, u>> \in lost' /\ leaked' = leaked \cup {s} /\ s \in SwapSlot
        /\ spt[p][u].flag # "SWAP" => leaked' = leaked
        /\ lost \subseteq lost'
    BY <1>2, <1>3, <1>5, <1>11, Zenon
  <2>4. spt'[p][u].flag \in {"FILE", "ZERO"}
    BY <1>2, <1>7, <1>8, <1>11, Zenon DEF Flag
  <2>5. Fresh(p, u, k)
    BY <1>3, <2>1, <2>2, <2>3, <2>4, Zenon DEF Fresh
  <2>6. leaked' \subseteq SwapSlot
    BY <1>9, <2>3, Zenon
  <2>7. QED BY <1>6, <1>8, <1>9, <2>1, <2>2, <2>3, <2>5, <2>6, Zenon DEF SwapTypes
<1>12. QED BY <1>10, <1>11, Zenon

\* install() does that.
LEMMA InstallFacts ==
  ASSUME VmInv, NEW p \in Proc, install(p)
  PROVE  /\ \E u \in Page, k \in Frame : Installs(p, u, k) /\ ~Present(p, u) /\ ~Mapped(k) /\ Taken(k)
                                         /\ k \notin pool /\ pagedir[p]
         /\ TypeOK'
<1>0. Consistent
  BY Zenon DEF VmInv
<1> USE <1>0
<1>1. th[p].pc = "install" /\ panicked = "no"
  BY Zenon DEF install, Runs
<1>2. PICK u \in Page, k \in Frame :
        /\ u = th[p].page /\ k = th[p].frame /\ ~Present(p, u) /\ pagedir[p]
        /\ Taken(k) /\ ~Mapped(k) /\ k \notin pool
        /\ spt[p][u].flag \in Flag \ {"MMRY"}
        /\ spt[p][u].flag = "SWAP" => spt[p][u].ref \in SwapSlot /\ swap[spt[p][u].ref] # NULL
  BY <1>1, AtInstall, Zenon
<1>3. /\ pte' \in [Proc -> [Page -> Pte]] /\ ft' \in [Frame -> FtEntry]
      /\ pte'[p][u].frame = k /\ ~pte'[p][u].dirty
      /\ \A q \in Proc, v \in Page : q # p \/ v # u => pte'[q][v] = pte[q][v]
      /\ ft'[k].pid = p /\ ft'[k].upage = u /\ \A j \in Frame \ {k} : ft'[j] = ft[j]
      /\ Moves(p) /\ th'[p].pc \in {"kernel", "user"}
      /\ th'[p].pc = "kernel" => th'[p].page = u /\ ft'[k].pinned
  <2>1. MapsFrame(p, u, k)
    BY <1>2, InstallTables, Zenon
  <2>2. QED BY <2>1, Zenon DEF MapsFrame
<1>4. /\ panicked' = "no" /\ SwapTypes' /\ mem' \in [Frame -> Content \cup {NULL}]
      /\ \A q \in Proc, v \in Page : q # p \/ v # u => spt'[q][v] = spt[q][v]
      /\ \A j \in Frame \ {k} : mem'[j] = mem[j]
      /\ lost \subseteq lost' /\ (SwapsIn(p, u, k) \/ Fresh(p, u, k))
  <2>1. FillsFrame(p, u, k)
    BY <1>2, InstallData, Zenon
  <2>2. QED BY <2>1, Zenon DEF FillsFrame
<1>5. pf_sema' = NULL /\ UNCHANGED <<pagedir, victim_idx, pool, ft_lock, val>>
  BY Zenon DEF install
<1>6. Installs(p, u, k)
  <2>1. \A q \in Proc, v \in Page : q # p \/ v # u => pte'[q][v] = pte[q][v] /\ spt'[q][v] = spt[q][v]
    BY <1>3, <1>4, Zenon
  <2>2. \A j \in Frame \ {k} : ft'[j] = ft[j] /\ mem'[j] = mem[j]
    BY <1>3, <1>4, Zenon
  <2>3. th[p].frame = k /\ th[p].page = u
    BY <1>2, Zenon
  <2>4. QED BY <1>1, <1>3, <1>4, <1>5, <2>1, <2>2, <2>3, Zenon DEF Installs
<1>7. ThreadTypes' /\ TableTypes' /\ DataTypes'
  BY <1>3, <1>4, <1>5, Zenon DEF Consistent, TypeOK, ThreadTypes, TableTypes, DataTypes, Moves
<1>8. QED BY <1>2, <1>4, <1>6, <1>7, Zenon DEF TypeOK

\* There is one handler.
LEMMA InstallAlone ==
  ASSUME VmInv, NEW p \in Proc, th[p].pc = "install"
  PROVE  \A r \in Proc : r # p => th[r].pc \notin {"clear", "install"}
<1>0. Consistent
  BY Zenon DEF VmInv
<1> USE <1>0
<1>1. pf_sema = p
  BY Zenon DEF Consistent, Places, PlaceOf, Busy
<1>2. QED BY <1>1, Zenon DEF Consistent, Places, PlaceOf, Busy

\* What the handler had is mapped by the page; no other frame changes hands.
LEMMA InstallsOwners ==
  ASSUME VmInv, NEW p \in Proc, NEW u \in Page, NEW k \in Frame, Installs(p, u, k), ~Present(p, u),
         ~Mapped(k), k \notin pool, pagedir[p]
  PROVE  Owners'
<1>0. Consistent
  BY Zenon DEF VmInv
<1> USE <1>0
<1>1. /\ UNCHANGED <<pagedir, pool>> /\ Owners /\ th[p].pc = "install" /\ panicked = "no"
      /\ \A r \in Proc : r # p => th'[r] = th[r] /\ th[r].pc \notin {"clear", "install"}
      /\ th'[p].pc \in {"kernel", "user"}
      /\ pte'[p][u].frame = k /\ ft'[k].pid = p /\ ft'[k].upage = u
      /\ \A j \in Frame \ {k} : ft'[j] = ft[j]
  BY InstallAlone, Zenon DEF Installs, Consistent, Moves
<1>2. \A q \in Proc, v \in Page : q # p \/ v # u => pte'[q][v] = pte[q][v]
  BY Zenon DEF Installs
<1>3. \A j \in Frame : ~Taken(j)'
  BY <1>1, Zenon DEF Taken
<1>4. Mapped(k)'
  BY <1>1, Zenon DEF Mapped
<1>5. \A j \in Frame : j # k => (Mapped(j)' <=> Mapped(j)) /\ ~Taken(j)
  <2> TAKE j \in Frame
  <2> HAVE j # k
  <2>1. ~Taken(j)
    BY <1>1, Zenon DEF Taken, Installs
  <2>2. ft'[j] = ft[j]
    BY <1>1, Zenon
  <2>3. Mapped(j)' <=> Mapped(j)
    <3>1. CASE ft[j].pid = p /\ ft[j].upage = u
      <4>1. ~Mapped(j)'
        BY <1>1, <2>2, <3>1, Zenon DEF Mapped
      <4>2. Mapped(j) => Present(p, u)
        BY <3>1, MappedPresent, Zenon
      <4>3. QED BY <4>1, <4>2, Zenon
    <3>2. CASE ~(ft[j].pid = p /\ ft[j].upage = u)
      <4>1. \A q \in Proc, v \in Page : ft[j].pid = q /\ ft[j].upage = v => pte'[q][v] = pte[q][v]
        BY <1>2, <3>2, Zenon
      <4>2. \A q \in Proc, v \in Page :
              ft[j].pid = q /\ ft[j].upage = v => (pte'[q][v].frame = j <=> pte[q][v].frame = j)
        BY <4>1, Zenon
      <4>3. QED BY <2>2, <4>2, MappedKept, Zenon
    <3>3. QED BY <3>1, <3>2, Zenon
  <2>4. QED BY <2>1, <2>3, Zenon
<1>6. ASSUME NEW j \in Frame PROVE FrameOf(j)'
  <2>1. FrameOf(j)
    BY <1>1, Zenon DEF Owners
  <2>2. CASE j = k
    BY <1>1, <1>3, <1>4, <2>2, Zenon DEF FrameOf
  <2>3. CASE j # k
    <3>1. ft'[j] = ft[j]
      BY <1>1, <2>3, Zenon
    <3>2. QED BY <1>1, <1>3, <1>5, <2>1, <2>3, <3>1, Zenon DEF FrameOf
  <2>4. QED BY <2>2, <2>3, Zenon
<1>7. MapOf(p, u)'
  <2>1. mem'[k] # NULL
    <3>1. CASE SwapsIn(p, u, k)
      <4>1. PICK s \in SwapSlot : Names(p, u, s) /\ mem'[k] = swap[s]
        BY <3>1, Zenon DEF SwapsIn
      <4>2. EntryOf(p, u)
        BY <1>1, Zenon DEF Consistent, Swaps
      <4>3. QED BY <4>1, <4>2, Zenon DEF Names, EntryOf
    <3>2. CASE Fresh(p, u, k)
      <4>1. mem'[k] = <<p, u, 0>>
        BY <3>2, Zenon DEF Fresh
      <4>2. QED BY <4>1, VMAssumption DEF VMAssumption
    <3>3. QED BY <3>1, <3>2, Zenon DEF Installs
  <2>2. QED BY <1>1, <2>1, Zenon DEF MapOf
<1>8. \A q \in Proc, v \in Page : Present(q, v) => pte[q][v].frame \in Frame \ {k}
  <2> TAKE q \in Proc, v \in Page
  <2> HAVE Present(q, v)
  <2>1. pte[q][v].frame \in Frame /\ MapOf(q, v)
    BY PresentFrame, Zenon DEF Consistent, TypeOK, Owners
  <2>2. QED BY <2>1, Zenon DEF MapOf, Mapped
<1>9. ASSUME NEW q \in Proc, NEW v \in Page PROVE MapOf(q, v)'
  <2> SUFFICES ASSUME q # p \/ v # u, Present(q, v)' PROVE MapOf(q, v)'
    BY <1>7, Zenon DEF MapOf
  <2>1. pte'[q][v] = pte[q][v] /\ MapOf(q, v)
    BY <1>1, <1>2, Zenon DEF Owners
  <2>2. Present(q, v) /\ pte[q][v].frame \in Frame \ {k}
    BY <1>8, <2>1, Zenon DEF Present
  <2>3. PICK j \in Frame \ {k} : j = pte[q][v].frame
    BY <2>2, Zenon
  <2>4. ft'[j] = ft[j] /\ mem'[j] = mem[j]
    BY Zenon DEF Installs
  <2>5. ft[j].pid = q /\ ft[j].upage = v /\ mem[j] # NULL /\ j \notin pool
    BY <2>1, <2>2, <2>3, Zenon DEF MapOf
  <2>6. pte'[q][v].frame = j /\ pool' = pool
    BY <1>1, <2>1, <2>3, Zenon
  <2>7. QED BY <2>4, <2>5, <2>6, Zenon DEF MapOf
<1>10. ASSUME NEW q \in Proc PROVE HandOf(q)'
  <2>1. CASE q = p
    <3>1. Pinner(p)'
      <4> SUFFICES ASSUME th'[p].pc = "kernel" PROVE Pinner(p)'
        BY <1>1, Zenon DEF Pinner
      <4>1. th'[p].page = u /\ ft'[k].pinned /\ k # -1
        BY NoFrame, Zenon DEF Installs
      <4>2. QED BY <1>1, <4>1, Zenon DEF Pinner, Present
    <3>2. QED BY <1>1, <2>1, <3>1, Zenon DEF HandOf, Taker, Clearer, Ended
  <2>2. CASE q # p
    <3>1. HandOf(q) /\ th'[q] = th[q] /\ th[q].pc \notin {"clear", "install"}
      BY <1>1, <2>2, Zenon DEF Owners
    <3>2. Taker(q)' /\ Clearer(q)'
      BY <3>1, Zenon DEF Taker, Clearer
    <3>3. Ended(q)'
      <4> SUFFICES ASSUME th[q].pc = "none", NEW j \in Frame PROVE ft'[j].pid # q
        BY <3>1, Zenon DEF Ended
      <4>1. CASE j = k
        BY <1>1, <2>2, <4>1, Zenon
      <4>2. CASE j # k
        <5>1. ft'[j] = ft[j]
          BY <1>1, <4>2, Zenon
        <5>2. ft[j].pid # q
          BY <3>1, Zenon DEF HandOf, Ended
        <5>3. QED BY <5>1, <5>2, Zenon
      <4>3. QED BY <4>1, <4>2, Zenon
    <3>4. \A v \in Page : pte'[q][v] = pte[q][v]
      BY <1>2, <2>2, Zenon
    <3>5. Pinner(q)'
      <4> SUFFICES ASSUME th[q].pc \in {"kernel", "unpin"}, NEW v \in Page, th[q].page = v
                   PROVE  /\ Present(q, v)'
                          /\ \A j \in Frame : pte'[q][v].frame = j => ft'[j].pinned
        BY <3>1, Zenon DEF Pinner
      <4>1. Present(q, v) /\ \A j \in Frame : pte[q][v].frame = j => ft[j].pinned
        BY <3>1, Zenon DEF HandOf, Pinner
      <4>2. PICK j \in Frame \ {k} : j = pte[q][v].frame
        BY <1>8, <4>1, Zenon
      <4>3. ft'[j] = ft[j] /\ pte'[q][v] = pte[q][v]
        BY <1>1, <3>4, Zenon
      <4>4. QED BY <4>1, <4>2, <4>3, Zenon DEF Present
    <3>6. QED BY <3>2, <3>3, <3>5, Zenon DEF HandOf
  <2>3. QED BY <2>1, <2>2, Zenon
<1>11. QED BY <1>6, <1>9, <1>10, Zenon DEF Owners

\* A slot that the page had is freed or leaked; nobody else names it.
LEMMA InstallsSwaps ==
  ASSUME VmInv, NEW p \in Proc, NEW u \in Page, NEW k \in Frame, Installs(p, u, k)
  PROVE  Swaps'
<1>0. Consistent
  BY Zenon DEF VmInv
<1> USE <1>0
<1>1. /\ UNCHANGED <<pagedir>> /\ Swaps /\ th[p].pc = "install" /\ panicked = "no" /\ panicked' = "no"
      /\ \A r \in Proc : r # p => th'[r] = th[r] /\ th[r].pc \notin {"clear", "install"}
      /\ th'[p].pc \in {"kernel", "user"}
  BY InstallAlone, Zenon DEF Installs, Consistent, Moves
<1>2. \A q \in Proc, v \in Page : q # p \/ v # u => pte'[q][v] = pte[q][v] /\ spt'[q][v] = spt[q][v]
  BY Zenon DEF Installs
<1>3. Present(p, u)' /\ spt'[p][u].flag \in {"FILE", "ZERO", "MMRY"}
  <2>1. pte'[p][u].frame = k /\ (SwapsIn(p, u, k) \/ Fresh(p, u, k))
    BY Zenon DEF Installs
  <2>2. Present(p, u)'
    BY <2>1, NoFrame, Zenon DEF Present
  <2>3. QED BY <2>1, <2>2, Zenon DEF SwapsIn, Fresh
<1>4. \A r \in Proc, t \in SwapSlot : ~Fills(r, t) /\ ~Fills(r, t)'
  BY <1>1, Zenon DEF Fills
<1>5. \A q \in Proc, v \in Page, t \in SwapSlot :
        Names(q, v, t)' <=> Names(q, v, t) /\ (q # p \/ v # u)
  BY <1>2, <1>3, Zenon DEF Names
<1>6. ASSUME NEW t \in SwapSlot
      PROVE  /\ swap'[t] = IF SwapsIn(p, u, k) /\ Names(p, u, t) THEN NULL ELSE swap[t]
             /\ t \in leaked' <=> t \in leaked \/ (Names(p, u, t) /\ ~SwapsIn(p, u, k))
  <2>1. CASE SwapsIn(p, u, k)
    <3>1. PICK s \in SwapSlot :
            /\ Names(p, u, s) /\ swap'[s] = NULL /\ \A a \in SwapSlot \ {s} : swap'[a] = swap[a]
            /\ leaked' = leaked
      BY <2>1, Zenon DEF SwapsIn
    <3>2. Names(p, u, t) <=> t = s
      BY <3>1, Zenon DEF Names
    <3>3. QED BY <2>1, <3>1, <3>2, Zenon
  <2>2. CASE ~SwapsIn(p, u, k)
    <3>1. Fresh(p, u, k)
      BY <2>2, Zenon DEF Installs
    <3>2. QED BY <2>2, <3>1, Zenon DEF Fresh, Names
  <2>3. QED BY <2>1, <2>2, Zenon
<1>7. ASSUME NEW t \in SwapSlot PROVE SlotOf(t)'
  <2>1. SlotOf(t)
    BY <1>1, Zenon DEF Swaps
  <2>2. Names(p, u, t) => swap[t] # NULL
    <3>1. EntryOf(p, u)
      BY <1>1, Zenon DEF Swaps
    <3>2. QED BY <3>1, Zenon DEF EntryOf, Names
  <2>3. CASE Names(p, u, t)
    <3>1. t \notin leaked /\ \A q \in Proc, v \in Page : ~Names(q, v, t)'
      BY <1>5, <2>1, <2>3, Zenon DEF SlotOf
    <3>2. QED BY <1>4, <1>6, <2>2, <2>3, <3>1, Zenon DEF SlotOf
  <2>4. CASE ~Names(p, u, t)
    <3>1. swap'[t] = swap[t] /\ (t \in leaked' <=> t \in leaked)
      BY <1>6, <2>4, Zenon
    <3>2. \A q \in Proc, v \in Page : Names(q, v, t)' <=> Names(q, v, t)
      BY <1>5, <2>4, Zenon
    <3>3. QED BY <1>4, <2>1, <3>1, <3>2, SlotKept, Zenon
  <2>5. QED BY <2>3, <2>4, Zenon
<1>8. ASSUME NEW q \in Proc, NEW v \in Page PROVE EntryOf(q, v)'
  <2>1. CASE q = p /\ v = u
    BY <1>1, <1>3, <2>1, Zenon DEF EntryOf
  <2>2. CASE q # p \/ v # u
    <3>1. EntryOf(q, v) /\ pte'[q][v] = pte[q][v] /\ spt'[q][v] = spt[q][v]
      BY <1>1, <1>2, <2>2, Zenon DEF Swaps
    <3>2. ASSUME spt[q][v].flag = "SWAP" PROVE swap'[spt[q][v].ref] # NULL
      <4>1. PICK t \in SwapSlot : t = spt[q][v].ref /\ swap[t] # NULL
        BY <3>1, <3>2, Zenon DEF EntryOf
      <4>2. Names(q, v, t) /\ SlotOf(t)
        BY <1>1, <3>2, <4>1, Zenon DEF Names, Swaps
      <4>3. ~Names(p, u, t)
        BY <2>2, <4>2, Zenon DEF SlotOf
      <4>4. QED BY <1>6, <4>1, <4>3, Zenon
    <3>3. th'[q].pc = "none" => th[q].pc = "none"
      BY <1>1, Zenon
    <3>4. QED BY <1>1, <3>1, <3>2, <3>3, Zenon DEF EntryOf, Present
  <2>3. QED BY <2>1, <2>2, Zenon
<1>9. ASSUME NEW q \in Proc PROVE DropOf(q)'
  BY <1>1, Zenon DEF DropOf, Clears
<1>10. QED BY <1>1, <1>7, <1>8, <1>9, Zenon DEF Swaps

\* The page holds what was last written to it, unless it was replaced.
LEMMA InstallsContents ==
  ASSUME VmInv, NEW p \in Proc, NEW u \in Page, NEW k \in Frame, Installs(p, u, k), ~Present(p, u),
         ~Mapped(k)
  PROVE  Contents'
<1>0. Consistent
  BY Zenon DEF VmInv
<1> USE <1>0
<1>1. /\ UNCHANGED <<pagedir, val>> /\ Swaps /\ Contents /\ panicked = "no" /\ lost \subseteq lost'
      /\ \A r \in Proc : r # p => th'[r] = th[r] /\ th[r].pc \notin {"clear", "install"}
      /\ th'[p].pc \in {"kernel", "user"} /\ th[p].pc = "install"
  BY InstallAlone, Zenon DEF Installs, Consistent, Moves
<1>2. \A r \in Proc : th'[r].pc # "clear" /\ (th'[r].pc = "none" => th[r].pc = "none")
  BY <1>1, Zenon
<1>3. PageOf(p, u)'
  <2>1. PageOf(p, u) /\ EntryOf(p, u)
    BY <1>1, Zenon DEF Contents, Swaps
  <2>2. pte'[p][u].frame = k /\ Present(p, u)'
    BY NoFrame, Zenon DEF Installs, Present
  <2>3. ASSUME Kept(p, u)' PROVE HeldOf(p, u)'
    <3>1. HeldOf(p, u)
      BY <1>1, <2>1, <2>3, Zenon DEF PageOf, Kept
    <3>2. CASE SwapsIn(p, u, k)
      <4>1. PICK s \in SwapSlot : Names(p, u, s) /\ mem'[k] = swap[s] /\ spt'[p][u].flag = "MMRY"
        BY <3>2, Zenon DEF SwapsIn
      <4>2. swap[s] = <<p, u, val[p][u]>>
        BY <3>1, <4>1, Zenon DEF HeldOf, Names
      <4>3. QED BY <1>1, <2>2, <4>1, <4>2, Zenon DEF HeldOf
    <3>3. CASE Fresh(p, u, k)
      <4>1. spt[p][u].flag # "SWAP" /\ mem'[k] = <<p, u, 0>>
        BY <2>3, <3>3, Zenon DEF Fresh, Kept
      <4>2. val[p][u] = 0
        BY <3>1, <4>1, Zenon DEF HeldOf
      <4>3. QED BY <1>1, <2>2, <4>1, <4>2, Zenon DEF HeldOf
    <3>4. QED BY <3>2, <3>3, Zenon DEF Installs
  <2>4. QED BY <1>1, <2>3, Zenon DEF PageOf
<1>4. ASSUME NEW q \in Proc, NEW v \in Page, q # p \/ v # u, HeldOf(q, v) PROVE HeldOf(q, v)'
  <2>1. pte'[q][v] = pte[q][v] /\ spt'[q][v] = spt[q][v]
    BY <1>4, Zenon DEF Installs
  <2>2. CASE Present(q, v)
    <3>1. pte[q][v].frame \in Frame /\ MapOf(q, v)
      BY <2>2 DEF Consistent, TypeOK, TableTypes, Pte, Present, Owners
    <3>2. PICK j \in Frame : j = pte[q][v].frame
      BY <3>1, Zenon
    <3>3. mem'[j] = mem[j]
      <4>1. j # k
        BY <2>2, <3>1, <3>2, Zenon DEF MapOf, Mapped
      <4>2. QED BY <4>1, Zenon DEF Installs
    <3>4. mem[j] = <<q, v, val[q][v]>> /\ (~pte[q][v].dirty /\ spt[q][v].flag # "MMRY" => val[q][v] = 0)
      BY <1>4, <2>2, <3>2, Zenon DEF HeldOf
    <3>5. QED BY <1>1, <2>1, <2>2, <3>2, <3>3, <3>4, Zenon DEF HeldOf, Present
  <2>3. CASE ~Present(q, v) /\ spt[q][v].flag # "SWAP"
    BY <1>1, <1>4, <2>1, <2>3, Zenon DEF HeldOf, Present
  <2>4. CASE ~Present(q, v) /\ spt[q][v].flag = "SWAP"
    <3>1. PICK t \in SwapSlot : t = spt[q][v].ref
      BY <1>1, <2>4, Zenon DEF Swaps, EntryOf
    <3>2. ~Names(p, u, t)
      <4>1. SlotOf(t) /\ Names(q, v, t)
        BY <1>1, <2>4, <3>1, Zenon DEF Swaps, Names
      <4>2. QED BY <1>4, <4>1, Zenon DEF SlotOf
    <3>3. swap'[t] = swap[t]
      BY <3>2, Zenon DEF Installs, SwapsIn, Fresh
    <3>4. swap[t] = <<q, v, val[q][v]>>
      BY <1>4, <2>4, <3>1, Zenon DEF HeldOf
    <3>5. QED BY <1>1, <2>1, <2>4, <3>1, <3>3, <3>4, Zenon DEF HeldOf, Present
  <2>5. QED BY <2>2, <2>3, <2>4, Zenon
<1>5. ASSUME NEW q \in Proc, NEW v \in Page PROVE PageOf(q, v)'
  <2> SUFFICES ASSUME q # p \/ v # u PROVE PageOf(q, v)'
    BY <1>3, Zenon
  <2>1. PageOf(q, v)
    BY <1>1, Zenon DEF Contents
  <2>2. Kept(q, v)' => Kept(q, v)
    BY <1>1, Zenon DEF Kept
  <2>3. QED BY <1>1, <1>2, <1>4, <2>1, <2>2, Zenon DEF PageOf
<1>6. ASSUME NEW r \in Proc PROVE CopyOf(r)'
  BY <1>2, Zenon DEF CopyOf, Clears
<1>7. QED BY <1>5, <1>6, Zenon DEF Contents

\* The end of page_fault().
LEMMA installKeeps ==
  ASSUME VmInv, NEW p \in Proc, install(p)
  PROVE  VmInv'
<1>0. Consistent
  BY Zenon DEF VmInv
<1> USE <1>0
<1>1. TypeOK'
  BY InstallFacts, Zenon
<1>2. PICK u \in Page, k \in Frame : Installs(p, u, k) /\ ~Present(p, u) /\ ~Mapped(k) /\ k \notin pool
                                     /\ pagedir[p]
  BY InstallFacts, Zenon
<1>3. Owners' /\ Swaps' /\ Contents'
  BY <1>2, InstallsOwners, InstallsSwaps, InstallsContents, Zenon
<1>4. PlaceOf(p) /\ th[p].pc = "install" /\ pf_sema = p /\ ft_lock # p
  BY <1>2, Zenon DEF Consistent, Places, PlaceOf, Installs, Busy
<1>5. /\ pf_sema' = NULL /\ UNCHANGED <<pagedir, ft_lock>> /\ th'[p].pc \in {"kernel", "user"}
      /\ th'[p].pc = "kernel" => th'[p].page = u
  BY <1>2, Zenon DEF Installs
<1>6. \A q \in Proc \ {p} : th'[q] = th[q] /\ \A v \in Page : pte'[q][v] = pte[q][v]
  <2>1. Moves(p) /\ \A q \in Proc, v \in Page : q # p \/ v # u => pte'[q][v] = pte[q][v]
    BY <1>2, Zenon DEF Installs
  <2>2. QED BY <2>1, Zenon DEF Moves
<1>7. Steps(p)
  BY <1>4, <1>5, <1>6, VMAssumption, Zenon DEF Steps, Present, VMAssumption
<1>8. PlaceOf(p)'
  BY <1>2, <1>4, <1>5, VMAssumption, Zenon DEF PlaceOf, Busy, VMAssumption
<1>9. QED BY <1>1, <1>3, <1>7, <1>8, PlacesKept, Zenon DEF VmInv, Consistent

----------------------------------------------------------------------------
\* Nothing happens.
LEMMA StutterKeeps ==
  ASSUME VmInv, UNCHANGED vars
  PROVE  VmInv'
<1>0. Consistent
  BY Zenon DEF VmInv
<1> USE <1>0
<1> USE DEF vars
<1>1. TypeOK'
  BY Zenon DEF Consistent, TypeOK, ThreadTypes, TableTypes, SwapTypes, DataTypes
<1>2. \A p \in Proc, u \in Page : Present(p, u)' <=> Present(p, u)
  BY Zenon DEF Present
<1>3. Places'
  BY Zenon DEF Consistent, Places, PlaceOf, Present
<1>4. \A k \in Frame : (Mapped(k)' <=> Mapped(k)) /\ (Taken(k)' <=> Taken(k))
  BY Zenon DEF Mapped, Taken
<1>5. \A k \in Frame : FrameOf(k) => FrameOf(k)'
  BY <1>4, Zenon DEF FrameOf
<1>6. \A p \in Proc, u \in Page : MapOf(p, u) => MapOf(p, u)'
  BY <1>2, Zenon DEF MapOf
<1>7. \A p \in Proc : HandOf(p) => HandOf(p)'
  BY <1>2, <1>4, Zenon DEF HandOf, Taker, Clearer, Pinner, Ended
<1>8. Owners'
  BY <1>5, <1>6, <1>7, Zenon DEF Consistent, Owners
<1>9. \A p \in Proc, u \in Page : (EntryOf(p, u) => EntryOf(p, u)') /\ (PageOf(p, u) => PageOf(p, u)')
  <2>1. \A p \in Proc, u \in Page : EntryOf(p, u) => EntryOf(p, u)'
    <3> TAKE p \in Proc, u \in Page
    <3>1. UNCHANGED <<pagedir, spt, swap, th>> /\ (Present(p, u)' <=> Present(p, u))
      BY <1>2, Zenon
    <3> HIDE DEF vars
    <3>2. QED BY <3>1, Zenon DEF EntryOf
  <2>2. ASSUME NEW p \in Proc, NEW u \in Page, HeldOf(p, u) PROVE HeldOf(p, u)'
    <3>1. pte' = pte /\ spt' = spt /\ mem' = mem /\ swap' = swap /\ val' = val
      BY Zenon
    <3>2. Present(p, u)' <=> Present(p, u)
      BY <1>2, Zenon
    <3> HIDE DEF vars
    <3>3. CASE Present(p, u)
      BY <2>2, <3>1, <3>2, <3>3, Zenon DEF HeldOf
    <3>4. CASE ~Present(p, u)
      BY <2>2, <3>1, <3>2, <3>4, Zenon DEF HeldOf
    <3>5. QED BY <3>3, <3>4, Zenon
  <2>3. \A p \in Proc, u \in Page : PageOf(p, u) => PageOf(p, u)'
    BY <2>2, Zenon DEF PageOf, Kept
  <2>4. QED BY <2>1, <2>3, Zenon
<1>10. \A s \in SwapSlot : SlotOf(s) => SlotOf(s)'
  <2>1. \A p \in Proc, s \in SwapSlot : Fills(p, s)' <=> Fills(p, s)
    BY Zenon DEF Fills
  <2>2. \A p \in Proc, u \in Page, s \in SwapSlot : Names(p, u, s)' <=> Names(p, u, s)
    BY Zenon DEF Names
  <2>3. QED BY <2>1, <2>2, SlotKept, Zenon
<1>11. \A p \in Proc : (DropOf(p) => DropOf(p)') /\ (CopyOf(p) => CopyOf(p)')
  <2> TAKE p \in Proc
  <2>1. UNCHANGED <<th, spt, val, swap>>
    BY Zenon
  <2>2. \A k \in Frame, q \in Proc, u \in Page :
          (Clears(p, k, q, u)' <=> Clears(p, k, q, u)) /\ (Kept(q, u)' <=> Kept(q, u))
    BY Zenon DEF Clears, Kept
  <2> HIDE DEF vars
  <2>3. QED BY <2>1, <2>2, Zenon DEF DropOf, CopyOf
<1>12. Swaps' /\ Contents'
  BY <1>9, <1>10, <1>11, Zenon DEF Consistent, Swaps, Contents
<1>13. QED BY <1>1, <1>3, <1>8, <1>12, Zenon DEF VmInv, Consistent

\* Every step keeps the invariant.
LEMMA VmStep == VmInv /\ [Next]_vars => VmInv'
<1> SUFFICES ASSUME VmInv, [Next]_vars PROVE VmInv'
  BY Zenon
<1>1. CASE UNCHANGED vars
  BY <1>1, StutterKeeps, Zenon
<1>2. ASSUME NEW p \in Proc, Handler(p) PROVE VmInv'
  <2>1. CASE falloc_get_frame(p)
    BY <2>1, falloc_evictKeeps, falloc_poolKeeps, Zenon
  <2>2. CASE page_fault(p) \/ evict_gone(p) \/ evict_none(p)
    BY <2>2, page_faultKeeps, evict_goneKeeps, evict_noneKeeps, Zenon
  <2>3. CASE evict(p) \/ evict_clear(p) \/ install(p)
    BY <2>3, evictKeeps, evict_clearKeeps, installKeeps, Zenon
  <2>4. QED BY <1>2, <2>1, <2>2, <2>3, Zenon DEF Handler
<1>3. ASSUME NEW p \in Proc, Kernel(p) PROVE VmInv'
  <2>1. CASE valid(p)
    BY <2>1, valid_faultKeeps, valid_pinKeeps, Zenon
  <2>2. CASE unpin(p) \/ process_exit(p, "exit")
    BY <2>2, unpinKeeps, process_exitKeeps, Zenon
  <2>3. CASE pagedir_destroy(p) \/ spt_free_process(p)
    BY <2>3, pagedir_destroyKeeps, spt_freeKeeps, Zenon
  <2>4. QED BY <1>2, <1>3, <2>1, <2>2, <2>3, Zenon DEF Kernel
<1>4. ASSUME NEW p \in Proc, NEW u \in Page, NEW write \in BOOLEAN, access(p, u, write) PROVE VmInv'
  BY <1>4, access_faultKeeps, access_readKeeps, access_writeKeeps, Zenon
<1>5. ASSUME NEW p \in Proc, load(p) \/ syscall(p) \/ process_exit(p, "kernel") PROVE VmInv'
  BY <1>5, loadKeeps, syscallKeeps, process_exitKeeps, Zenon
<1>6. ASSUME NEW p \in Proc, NEW u \in Page, syscall_handler(p, u) PROVE VmInv'
  BY <1>6, syscall_handlerKeeps, Zenon
<1>7. QED BY <1>1, <1>3, <1>4, <1>5, <1>6, Zenon DEF Next

\* What the frame table, the page tables, the supplemental page tables and the
\* swap table say of each other holds at all times.
THEOREM VmInvariant == Spec => []VmInv
BY VmInit, VmStep, PTL DEF Spec

----------------------------------------------------------------------------
\* Of two sets of owners one is empty and the other has at most one element.
LEMMA OneOwner ==
  ASSUME NEW A, NEW B, A = {} \/ B = {}, \A x, y \in A : x = y, \A x, y \in B : x = y
  PROVE  LET owners == ({"page"} \X A) \cup ({"handler"} \X B)
         IN  /\ owners = {} <=> A = {} /\ B = {}
             /\ \A a, b \in owners : a = b
<1> DEFINE owners == ({"page"} \X A) \cup ({"handler"} \X B)
<1>1. ASSUME NEW x \in A PROVE <<"page", x>> \in owners
  OBVIOUS
<1>2. ASSUME NEW x \in B PROVE <<"handler", x>> \in owners
  OBVIOUS
<1>3. \A a \in owners : (\E x \in A : a = <<"page", x>>) \/ (\E x \in B : a = <<"handler", x>>)
  OBVIOUS
<1> HIDE DEF owners
<1>4. owners = {} <=> A = {} /\ B = {}
  BY <1>1, <1>2, <1>3, Zenon
<1>5. \A a, b \in owners : a = b
  BY <1>3, Zenon
<1>6. QED BY <1>4, <1>5, Zenon DEF owners

\* The invariant gives each frame its one owner.
LEMMA FramesOnce == VmInv => FramesOwnedOnce
<1> SUFFICES ASSUME VmInv, NEW k \in Frame
             PROVE  LET mappers == {x \in Proc \X Page : pte[x[1]][x[2]].frame = k}
                        takers == {p \in Proc : th[p].pc = "install" /\ th[p].frame = k}
                        owners == ({"page"} \X mappers) \cup ({"handler"} \X takers)
                    IN  /\ k \in pool <=> owners = {}
                        /\ \A a, b \in owners : a = b
                        /\ \A x \in mappers : ft[k].pid = x[1] /\ ft[k].upage = x[2]
  BY Zenon DEF FramesOwnedOnce
<1> DEFINE mappers == {x \in Proc \X Page : pte[x[1]][x[2]].frame = k}
           takers == {p \in Proc : th[p].pc = "install" /\ th[p].frame = k}
<1>0. Consistent
  BY Zenon DEF VmInv
<1> USE <1>0
<1>1. FrameOf(k) /\ \A p \in Proc, u \in Page : MapOf(p, u)
  BY Zenon DEF Consistent, Owners
<1>2. ASSUME NEW x \in mappers PROVE ft[k].pid = x[1] /\ ft[k].upage = x[2] /\ k \notin pool
  <2>1. x[1] \in Proc /\ x[2] \in Page /\ pte[x[1]][x[2]].frame = k /\ MapOf(x[1], x[2])
    BY <1>1, <1>2, Zenon
  <2>2. Present(x[1], x[2])
    BY <2>1, NoFrame, Zenon DEF Present
  <2>3. QED BY <2>1, <2>2, Zenon DEF MapOf
<1>3. \A x, y \in mappers : x = y
  BY <1>2
<1>4. \A p, q \in takers : p = q
  BY Zenon DEF Consistent, Places, PlaceOf, Busy
<1>5. takers # {} <=> Taken(k)
  BY Zenon DEF Taken
<1>6. mappers # {} <=> Mapped(k)
  <2>1. ASSUME Mapped(k) PROVE <<ft[k].pid, ft[k].upage>> \in mappers
    BY <2>1, Zenon DEF Mapped
  <2>2. ASSUME NEW x \in mappers PROVE Mapped(k)
    BY <1>2, Zenon DEF Mapped
  <2>3. QED BY <2>1, <2>2, Zenon
<1> HIDE DEF mappers, takers
<1>7. /\ k \in pool <=> mappers = {} /\ takers = {}
      /\ mappers = {} \/ takers = {}
  BY <1>1, <1>2, <1>5, <1>6, Zenon DEF FrameOf
<1> DEFINE owners == ({"page"} \X mappers) \cup ({"handler"} \X takers)
<1>8. (owners = {} <=> mappers = {} /\ takers = {}) /\ \A a, b \in owners : a = b
  BY <1>3, <1>4, <1>7, OneOwner, Zenon
<1> HIDE DEF owners
<1>9. /\ k \in pool <=> owners = {}
      /\ \A a, b \in owners : a = b
      /\ \A x \in mappers : ft[k].pid = x[1] /\ ft[k].upage = x[2]
  BY <1>2, <1>7, <1>8, Zenon
<1>10. QED BY <1>9, Zenon DEF owners, mappers, takers

\* Every frame is free, mapped by exactly one page, the one that its frame table
\* entry names, or held by the fault handler that is about to map it, whatever
\* faults, evictions and exits overlap (falloc_get_frame, ft_set,
\* pagedir_destroy).
THEOREM FramesHaveOneOwner == Spec => []FramesOwnedOnce
BY VmInvariant, FramesOnce, PTL

\* The invariant gives each slot in use its one owner.
LEMMA SlotsOnce == VmInv => SlotsOwnedOnce
<1> SUFFICES ASSUME VmInv PROVE SlotsOwnedOnce
  BY Zenon
<1>0. Consistent
  BY Zenon DEF VmInv
<1> USE <1>0
<1>1. panicked # "impossible"
  BY Zenon DEF Consistent, Swaps
<1>2. ASSUME NEW s \in SwapSlot, panicked = "no"
      PROVE  LET namers == {x \in Proc \X Page : spt[x[1]][x[2]] = [flag |-> "SWAP", ref |-> s]}
                 fillers == {p \in Proc : th[p].pc = "clear" /\ th[p].slot = s}
                 owners == ({"page"} \X namers) \cup ({"handler"} \X fillers)
             IN  /\ (swap[s] = NULL \/ s \in leaked) <=> owners = {}
                 /\ \A a, b \in owners : a = b
                 /\ s \in leaked => swap[s] # NULL
  <2> DEFINE namers == {x \in Proc \X Page : spt[x[1]][x[2]] = [flag |-> "SWAP", ref |-> s]}
             fillers == {p \in Proc : th[p].pc = "clear" /\ th[p].slot = s}
             named == \E p \in Proc, u \in Page : Names(p, u, s)
             filled == \E p \in Proc : Fills(p, s)
  <2>1. SlotOf(s)
    BY <1>2, Zenon DEF Consistent, Swaps
  <2>2. \A p \in Proc, u \in Page : Names(p, u, s) => swap[s] # NULL
    BY <1>2, Zenon DEF Consistent, Swaps, EntryOf, Names
  <2>3. \A x \in Proc \X Page : x \in namers <=> Names(x[1], x[2], s)
    <3> TAKE x \in Proc \X Page
    <3>1. PICK r \in SptEntry : r = spt[x[1]][x[2]]
      BY Zenon DEF Consistent, TypeOK, SwapTypes
    <3>2. r = [flag |-> "SWAP", ref |-> s] <=> r.flag = "SWAP" /\ r.ref = s
      BY DEF SptEntry
    <3>3. QED BY <3>1, <3>2, Zenon DEF Names
  <2>4. \A x, y \in namers : x = y
    <3> SUFFICES ASSUME NEW x \in namers, NEW y \in namers PROVE x = y
      BY Zenon
    <3>1. /\ x \in Proc \X Page /\ y \in Proc \X Page
          /\ x[1] \in Proc /\ x[2] \in Page /\ y[1] \in Proc /\ y[2] \in Page
      BY Zenon
    <3>2. Names(x[1], x[2], s) /\ Names(y[1], y[2], s)
      BY <2>3, <3>1, Zenon
    <3> HIDE DEF namers
    <3>3. \A p, q \in Proc, u, v \in Page : Names(p, u, s) /\ Names(q, v, s) => p = q /\ u = v
      BY <2>1, Zenon DEF SlotOf
    <3>4. PICK a \in Proc, b \in Proc, c \in Page, d \in Page :
            a = x[1] /\ b = y[1] /\ c = x[2] /\ d = y[2]
      BY <3>1, Zenon
    <3>5. Names(a, c, s) /\ Names(b, d, s)
      BY <3>2, <3>4, Zenon
    <3>6. a = b /\ c = d
      BY <3>3, <3>5, Zenon
    <3>7. x[1] = y[1] /\ x[2] = y[2]
      BY <3>4, <3>6, Zenon
    <3>8. QED BY <3>1, <3>7
  <2>5. namers # {} <=> named
    <3>1. ASSUME NEW p \in Proc, NEW u \in Page, Names(p, u, s) PROVE <<p, u>> \in namers
      BY <2>3, <3>1, Zenon
    <3>2. QED BY <2>3, <3>1, Zenon
  <2>6. \A p, q \in fillers : p = q
    BY Zenon DEF Consistent, Places, PlaceOf
  <2>7. fillers # {} <=> filled
    BY Zenon DEF Fills
  <2> HIDE DEF namers, fillers, named, filled
  <2>8. /\ ~(named /\ filled) /\ (named \/ filled => swap[s] # NULL /\ s \notin leaked)
        /\ swap[s] # NULL /\ s \notin leaked => named \/ filled
    BY <2>1, <2>2, Zenon DEF SlotOf, named, filled
  <2>9. s \in leaked => swap[s] # NULL
    BY <2>1, Zenon DEF SlotOf
  <2>10. /\ (swap[s] = NULL \/ s \in leaked) <=> namers = {} /\ fillers = {}
         /\ namers = {} \/ fillers = {}
    BY <2>5, <2>7, <2>8, Zenon
  <2> DEFINE owners == ({"page"} \X namers) \cup ({"handler"} \X fillers)
  <2>11. (owners = {} <=> namers = {} /\ fillers = {}) /\ \A a, b \in owners : a = b
    BY <2>4, <2>6, <2>10, OneOwner, Zenon
  <2> HIDE DEF owners
  <2>12. /\ (swap[s] = NULL \/ s \in leaked) <=> owners = {}
         /\ \A a, b \in owners : a = b
         /\ s \in leaked => swap[s] # NULL
    BY <2>9, <2>10, <2>11, Zenon
  <2>13. QED BY <2>12, Zenon DEF owners, namers, fillers
<1>3. QED BY <1>1, <1>2, Zenon DEF SlotsOwnedOnce

\* Every swap slot in use belongs to exactly one page, to an eviction that is
\* filling it, or to a page that was replaced, and the panics that evict and
\* page_fault declare impossible do not happen.
THEOREM SlotsHaveOneOwner == Spec => []SlotsOwnedOnce
BY VmInvariant, SlotsOnce, PTL

\* The invariant says where each page is kept.
LEMMA PagesKept == VmInv => ContentsKept
<1> SUFFICES ASSUME VmInv, NEW p \in Proc, NEW u \in Page, Kept(p, u), panicked = "no"
             PROVE  IF Present(p, u) THEN mem[pte[p][u].frame] = <<p, u, val[p][u]>>
                    ELSE IF spt[p][u].flag = "SWAP" THEN swap[spt[p][u].ref] = <<p, u, val[p][u]>>
                    ELSE spt[p][u].flag \in {"FILE", "ZERO"} => val[p][u] = 0
  BY Zenon DEF ContentsKept, Kept
<1>0. Consistent
  BY Zenon DEF VmInv
<1> USE <1>0
<1>1. HeldOf(p, u)
  BY Zenon DEF Consistent, Contents, PageOf
<1>2. QED BY <1>1, Zenon DEF HeldOf

\* A page holds what its process last wrote to it, in its frame, in its slot or
\* as the file or the zeros it is loaded from, however often evict takes its
\* frame and page_fault brings it back.
THEOREM PagesKeepTheirContents == Spec => []ContentsKept
BY VmInvariant, PagesKept, PTL

\* The invariant keeps evictions away from a pinned page.
LEMMA ValidatedMapped == VmInv => ValidatedStaysMapped
<1> SUFFICES ASSUME VmInv, NEW p \in Proc, th[p].pc \in {"kernel", "unpin"}
             PROVE  Present(p, th[p].page) /\ ~BeingEvicted(pte[p][th[p].page].frame)
  BY Zenon DEF ValidatedStaysMapped
<1>0. Consistent
  BY Zenon DEF VmInv
<1> USE <1>0
<1>1. PICK u \in Page : u = th[p].page
  BY Zenon DEF Consistent, Places, PlaceOf
<1>2. Present(p, u) /\ \A k \in Frame : pte[p][u].frame = k => ft[k].pinned
  BY <1>1, Zenon DEF Consistent, Owners, HandOf, Pinner
<1>3. PICK k \in Frame : k = pte[p][u].frame
  BY <1>2, PresentFrame, Zenon DEF Consistent, TypeOK
<1>4. ft[k].pid = p /\ ft[k].pinned /\ pagedir[p]
  <2>1. MapOf(p, u) /\ PlaceOf(p)
    BY Zenon DEF Consistent, Owners, Places
  <2>2. QED BY <1>2, <1>3, <2>1, Zenon DEF MapOf, PlaceOf
<1>5. \A q \in Proc : ~(th[q].pc = "clear" /\ th[q].frame = k)
  BY <1>4, Zenon DEF Consistent, Owners, HandOf, Clearer
<1>6. QED BY <1>1, <1>2, <1>3, <1>5, Zenon DEF BeingEvicted

\* A page that valid has accepted stays mapped until unpin, and no eviction has
\* chosen its frame: the body of a system call takes no page fault on its
\* buffer.
THEOREM ValidatedPagesStay == Spec => []ValidatedStaysMapped
BY VmInvariant, ValidatedMapped, PTL
=============================================================================
