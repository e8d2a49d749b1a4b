------------------------------ MODULE VmLemmas ------------------------------
(***************************************************************************)
(* What the theorems on demand paging rest on: the inductive invariant of  *)
(* module VirtualMemory, and that it is kept by the steps that load, read, *)
(* write, pin and free a page, by the faults and by the allocation of a    *)
(* free frame.                                                             *)
(***************************************************************************)
EXTENDS VirtualMemory, TLAPS

Point == {"none", "user", "fault", "falloc", "evict", "clear", "install", "stuck",
          "valid", "kernel", "unpin", "exit", "destroy"}
Flag == {"INVALID", "FILE", "ZERO", "MMRY", "SWAP"}
Content == Proc \X Page \X {0, 1}

Thread == [pc : Point, page : Page \cup {-1}, kernel : BOOLEAN,
           frame : Frame \cup {-1}, slot : SwapSlot \cup {-1}, again : BOOLEAN]
Pte == [frame : Frame \cup {-1}, accessed : BOOLEAN, dirty : BOOLEAN]
FtEntry == [pid : Proc \cup {NULL}, upage : Page \cup {-1}, pinned : BOOLEAN]
SptEntry == [flag : Flag, ref : SwapSlot \cup {-1}]

ThreadTypes ==
  /\ th \in [Proc -> Thread]
  /\ pf_sema \in Proc \cup {NULL} /\ ft_lock \in Proc \cup {NULL}
  /\ pagedir \in [Proc -> BOOLEAN]

TableTypes ==
  /\ pte \in [Proc -> [Page -> Pte]]
  /\ ft \in [Frame -> FtEntry]
  /\ pool \subseteq Frame /\ victim_idx \in Nat

SwapTypes ==
  /\ spt \in [Proc -> [Page -> SptEntry]]
  /\ swap \in [SwapSlot -> Content \cup {NULL}] /\ leaked \subseteq SwapSlot

DataTypes ==
  /\ mem \in [Frame -> Content \cup {NULL}] /\ val \in [Proc -> [Page -> {0, 1}]]

TypeOK == ThreadTypes /\ TableTypes /\ SwapTypes /\ DataTypes

\* Between page_fault() and its return, with pf_sema down.
Busy == {"falloc", "evict", "clear", "install", "stuck"}

PlaceOf(p) ==
  /\ pagedir[p] <=> th[p].pc \notin {"none", "destroy"}
  /\ th[p].pc \in Busy <=> pf_sema = p
  /\ th[p].pc \in {"clear", "stuck"} <=> ft_lock = p
  /\ th[p].pc \in {"fault", "valid", "kernel", "unpin"} \cup Busy => th[p].page \in Page
  /\ th[p].pc \in {"fault"} \cup Busy => ~Present(p, th[p].page)

Places == \A p \in Proc : PlaceOf(p)

\* Frame k is mapped by the page that its entry names; or it is in the hands of
\* the page fault handler.
Mapped(k) == ft[k].pid \in Proc /\ ft[k].upage \in Page /\ pte[ft[k].pid][ft[k].upage].frame = k
Taken(k) == \E p \in Proc : th[p].pc = "install" /\ th[p].frame = k

FrameOf(k) ==
  /\ ft[k].pid # NULL => ft[k].upage \in Page
  /\ k \notin pool => Mapped(k) \/ Taken(k)
  /\ ft[k].pid # NULL /\ pagedir[ft[k].pid] => Mapped(k) \/ Taken(k)
  /\ Taken(k) => k \notin pool /\ ~Mapped(k)

MapOf(p, u) ==
  Present(p, u) =>
    /\ pte[p][u].frame \notin pool
    /\ ft[pte[p][u].frame].pid = p /\ ft[pte[p][u].frame].upage = u
    /\ mem[pte[p][u].frame] # NULL

\* What the place of a process says of frames.
Taker(p) == th[p].pc = "install" => th[p].frame \in Frame
Clearer(p) ==
  th[p].pc = "clear" =>
    /\ th[p].frame \in Frame
    /\ \A k \in Frame :
         th[p].frame = k =>
           /\ panicked = "no" => Mapped(k)
           /\ \A q \in Proc : ft[k].pid = q /\ pagedir[q] => ~ft[k].pinned
Pinner(p) ==
  th[p].pc \in {"kernel", "unpin"} =>
    \A u \in Page : th[p].page = u => /\ Present(p, u)
                                      /\ \A k \in Frame : pte[p][u].frame = k => ft[k].pinned
Ended(p) == th[p].pc = "none" => \A k \in Frame : ft[k].pid # p

HandOf(p) == Taker(p) /\ Clearer(p) /\ Pinner(p) /\ Ended(p)

Owners ==
  /\ \A k \in Frame : FrameOf(k)
  /\ \A p \in Proc, u \in Page : MapOf(p, u)
  /\ \A p \in Proc : HandOf(p)

Names(p, u, s) == spt[p][u].flag = "SWAP" /\ spt[p][u].ref = s
Fills(p, s) == th[p].pc = "clear" /\ th[p].slot = s

EntryOf(p, u) ==
  /\ pagedir[p] /\ spt[p][u].flag = "MMRY" => Present(p, u)
  /\ Present(p, u) => spt[p][u].flag \in {"FILE", "ZERO", "MMRY"}
  /\ spt[p][u].flag = "SWAP" => spt[p][u].ref \in SwapSlot /\ swap[spt[p][u].ref] # NULL
  /\ th[p].pc = "none" => spt[p][u].flag = "INVALID"

SlotOf(s) ==
  /\ s \in leaked => /\ swap[s] # NULL /\ \A p \in Proc : ~Fills(p, s)
                     /\ \A p \in Proc, u \in Page : ~Names(p, u, s)
  /\ \A p \in Proc : Fills(p, s) => /\ swap[s] # NULL
                                    /\ \A q \in Proc, u \in Page : ~Names(q, u, s)
  /\ swap[s] # NULL /\ s \notin leaked =>
       \/ \E p \in Proc : Fills(p, s)
       \/ \E p \in Proc, u \in Page : Names(p, u, s)
  /\ \A p, q \in Proc, u, v \in Page : Names(p, u, s) /\ Names(q, v, s) => p = q /\ u = v

\* Process p is between the copy of page u of q, in frame k, and the removal of
\* the page.
Clears(p, k, q, u) == th[p].pc = "clear" /\ th[p].frame = k /\ ft[k].pid = q /\ ft[k].upage = u

\* A page that is dropped and not kept in a slot can be made again.
DropOf(p) ==
  \A k \in Frame, q \in Proc, u \in Page :
    Clears(p, k, q, u) /\ th[p].slot = -1 => spt[q][u].flag # "MMRY"

Swaps ==
  /\ panicked # "impossible"
  /\ panicked = "no" =>
       /\ \A p \in Proc, u \in Page : EntryOf(p, u)
       /\ \A s \in SwapSlot : SlotOf(s)
       /\ \A p \in Proc : DropOf(p)

Kept(p, u) == pagedir[p] /\ <<p, u>> \notin lost

HeldOf(p, u) ==
  /\ Present(p, u) => mem[pte[p][u].frame] = <<p, u, val[p][u]>>
  /\ Present(p, u) /\ ~pte[p][u].dirty /\ spt[p][u].flag # "MMRY" => val[p][u] = 0
  /\ ~Present(p, u) /\ spt[p][u].flag = "SWAP" => swap[spt[p][u].ref] = <<p, u, val[p][u]>>
  /\ ~Present(p, u) /\ spt[p][u].flag # "SWAP" => val[p][u] = 0

PageOf(p, u) == (Kept(p, u) => HeldOf(p, u)) /\ (th[p].pc = "none" => val[p][u] = 0)

\* What an eviction has copied is what its page still holds.
CopyOf(p) ==
  \A k \in Frame, q \in Proc, u \in Page :
    Clears(p, k, q, u) /\ Kept(q, u) =>
      IF th[p].slot = -1 THEN val[q][u] = 0 ELSE swap[th[p].slot] = <<q, u, val[q][u]>>

Contents ==
  panicked = "no" => /\ \A p \in Proc, u \in Page : PageOf(p, u)
                     /\ \A p \in Proc : CopyOf(p)

Consistent == TypeOK /\ Places /\ Owners /\ Swaps /\ Contents

\* The invariant.  It has a name of its own that is seldom expanded: what the
\* lemmas below say of a step is short.
VmInv == Consistent

----------------------------------------------------------------------------
\* The clock's hand points to a frame.
LEMMA HandIsFrame ==
  ASSUME VMAssumption, NEW n \in Nat
  PROVE  n % NFrames \in Frame
BY DEF VMAssumption, Frame

\* The frame of a page that is not present is none of the frames.
LEMMA NoFrame == \A k \in Frame : k # -1
BY DEF Frame

\* A page that is present is in a frame.
LEMMA PresentFrame ==
  ASSUME TableTypes, NEW p \in Proc, NEW u \in Page, Present(p, u)
  PROVE  pte[p][u].frame \in Frame
<1>1. pte[p][u].frame \in Frame \cup {-1}
  BY Zenon DEF TableTypes, Pte
<1>2. QED BY <1>1, Zenon DEF Present

\* The page that a mapped frame's entry names is present.
LEMMA MappedPresent ==
  ASSUME NEW k \in Frame, Mapped(k)
  PROVE  Present(ft[k].pid, ft[k].upage)
<1>1. pte[ft[k].pid][ft[k].upage].frame = k
  BY Zenon DEF Mapped
<1>2. QED BY <1>1, NoFrame, Zenon DEF Present

\* A frame stays mapped, or unmapped, if its entry names the same page and the
\* page stays in it, or out of it.
LEMMA MappedKept ==
  ASSUME NEW k \in Frame, ft'[k].pid = ft[k].pid, ft'[k].upage = ft[k].upage,
         \A p \in Proc, u \in Page :
           ft[k].pid = p /\ ft[k].upage = u => (pte'[p][u].frame = k <=> pte[p][u].frame = k)
  PROVE  Mapped(k)' <=> Mapped(k)
<1>1. CASE ft[k].pid \in Proc /\ ft[k].upage \in Page
  <2>1. PICK p \in Proc, u \in Page : p = ft[k].pid /\ u = ft[k].upage
    BY <1>1, Zenon
  <2>2. Mapped(k) <=> pte[p][u].frame = k
    BY <2>1, Zenon DEF Mapped
  <2>3. Mapped(k)' <=> pte'[p][u].frame = k
    BY <2>1, Zenon DEF Mapped
  <2>4. QED BY <2>1, <2>2, <2>3, Zenon
<1>2. CASE ~(ft[k].pid \in Proc /\ ft[k].upage \in Page)
  BY <1>2, Zenon DEF Mapped
<1>3. QED BY <1>1, <1>2, Zenon

\* A slot with the same contents, the same pages that name it and the same
\* evictions that fill it stays as it is.
LEMMA SlotKept ==
  ASSUME NEW s \in SwapSlot, SlotOf(s), swap'[s] = swap[s], s \in leaked' <=> s \in leaked,
         \A p \in Proc : Fills(p, s)' <=> Fills(p, s),
         \A p \in Proc, u \in Page : Names(p, u, s)' <=> Names(p, u, s)
  PROVE  SlotOf(s)'
<1>1. s \in leaked' => /\ swap'[s] # NULL /\ \A p \in Proc : ~Fills(p, s)'
                       /\ \A p \in Proc, u \in Page : ~Names(p, u, s)'
  BY Zenon DEF SlotOf
<1>2. ASSUME NEW p \in Proc, Fills(p, s)'
      PROVE  swap'[s] # NULL /\ \A q \in Proc, u \in Page : ~Names(q, u, s)'
  BY <1>2, Zenon DEF SlotOf
<1>3. ASSUME swap'[s] # NULL, s \notin leaked'
      PROVE  (\E p \in Proc : Fills(p, s)') \/ \E p \in Proc, u \in Page : Names(p, u, s)'
  BY <1>3, Zenon DEF SlotOf
<1>4. ASSUME NEW p \in Proc, NEW q \in Proc, NEW u \in Page, NEW v \in Page,
             Names(p, u, s)', Names(q, v, s)'
      PROVE  p = q /\ u = v
  <2>1. Names(p, u, s) /\ Names(q, v, s)
    BY <1>4, Zenon
  <2>2. \A a, b \in Proc, c, d \in Page : Names(a, c, s) /\ Names(b, d, s) => a = b /\ c = d
    BY Zenon DEF SlotOf
  <2>3. QED BY <2>1, <2>2, Zenon
<1>5. QED BY <1>1, <1>2, <1>3, <1>4, Zenon DEF SlotOf

\* The invariant holds at the start.
LEMMA VmInit == Init => VmInv
<1> SUFFICES ASSUME Init PROVE VmInv
  BY Zenon
<1> USE VMAssumption DEF Init
<1>1. ThreadTypes
  BY Zenon DEF ThreadTypes, Thread, Point, Out
<1>2. TableTypes
  BY Zenon DEF TableTypes, Pte, FtEntry, NotPresent
<1>3. SwapTypes /\ DataTypes
  BY Zenon DEF SwapTypes, DataTypes, SptEntry, NoEntry, Flag
<1>4. Places
  BY Zenon DEF Places, PlaceOf, Busy, Out
<1>5. Owners
  BY Zenon DEF Owners, FrameOf, MapOf, HandOf, Taker, Clearer, Pinner, Ended, Taken, Present, NotPresent, Out
<1>6. Swaps
  BY DEF Swaps, EntryOf, SlotOf, DropOf, Clears, Names, Fills, Present, NotPresent, NoEntry, Out
<1>7. Contents
  BY Zenon DEF Contents, PageOf, HeldOf, CopyOf, Clears, Kept, Out
<1>8. QED BY <1>1, <1>2, <1>3, <1>4, <1>5, <1>6, <1>7, Zenon DEF VmInv, Consistent, TypeOK

----------------------------------------------------------------------------
\* A step that neither takes a frame nor maps the one taken.
SameTake(q) ==
  /\ th'[q].pc = "install" <=> th[q].pc = "install"
  /\ th'[q].pc = "install" => th'[q].frame = th[q].frame

\* A step that goes neither to nor from pagedir_clear_page() nor to the end of
\* a process.
SameClear(q) ==
  /\ th'[q].pc = "clear" <=> th[q].pc = "clear"
  /\ th'[q].pc = "clear" => th'[q].frame = th[q].frame /\ th'[q].slot = th[q].slot
  /\ th'[q].pc = "none" => th[q].pc = "none"

\* Every frame stays with its page, and in the hands it is in.
KeepsFrames ==
  /\ pool' = pool
  /\ \A q \in Proc : SameTake(q) /\ SameClear(q)
  /\ \A q \in Proc : pagedir'[q] => pagedir[q] \/ \A k \in Frame : ft[k].pid # q
  /\ \A q \in Proc, u \in Page : pte'[q][u].frame = pte[q][u].frame
  /\ \A k \in Frame : /\ ft'[k].pid = ft[k].pid /\ ft'[k].upage = ft[k].upage
                      /\ mem'[k] = NULL => mem[k] = NULL

\* After such a step there are only the pins to look at.
LEMMA FramesKept ==
  ASSUME TableTypes, Owners, KeepsFrames, \A q \in Proc : Clearer(q)' /\ Pinner(q)'
  PROVE  Owners'
<1>1. \A k \in Frame : (Mapped(k)' <=> Mapped(k)) /\ (Taken(k)' <=> Taken(k))
  <2>1. ASSUME NEW k \in Frame PROVE Mapped(k)' <=> Mapped(k)
    <3>1. /\ ft'[k].pid = ft[k].pid /\ ft'[k].upage = ft[k].upage
          /\ \A q \in Proc, u \in Page : pte'[q][u].frame = pte[q][u].frame
      BY Zenon DEF KeepsFrames
    <3>2. QED BY <3>1, MappedKept
  <2>2. \A k \in Frame : Taken(k)' <=> Taken(k)
    BY Zenon DEF KeepsFrames, SameTake, Taken
  <2>3. QED BY <2>1, <2>2, Zenon
<1>2. \A q \in Proc, u \in Page : Present(q, u)' <=> Present(q, u)
  BY Zenon DEF KeepsFrames, Present
<1>3. ASSUME NEW k \in Frame PROVE FrameOf(k)'
  <2>1. FrameOf(k) /\ (ft[k].pid # NULL => ft[k].pid \in Proc)
    BY Zenon DEF Owners, TableTypes, FtEntry
  <2>2. QED BY <1>1, <2>1, Zenon DEF KeepsFrames, FrameOf
<1>4. ASSUME NEW q \in Proc, NEW u \in Page PROVE MapOf(q, u)'
  <2>1. MapOf(q, u) /\ (Present(q, u) => pte[q][u].frame \in Frame)
    BY PresentFrame, Zenon DEF Owners
  <2>2. ASSUME Present(q, u) PROVE MapOf(q, u)'
    <3>1. PICK k \in Frame : k = pte[q][u].frame
      BY <2>1, <2>2, Zenon
    <3>2. k \notin pool /\ ft[k].pid = q /\ ft[k].upage = u /\ mem[k] # NULL
      BY <2>1, <2>2, <3>1, Zenon DEF MapOf
    <3>3. /\ pool' = pool /\ pte'[q][u].frame = pte[q][u].frame
          /\ ft'[k].pid = ft[k].pid /\ ft'[k].upage = ft[k].upage
          /\ mem'[k] = NULL => mem[k] = NULL
      BY Zenon DEF KeepsFrames
    <3>4. QED BY <3>1, <3>2, <3>3, Zenon DEF MapOf
  <2>3. QED BY <1>2, <2>2, Zenon DEF MapOf
<1>5. ASSUME NEW q \in Proc PROVE HandOf(q)'
  <2>1. Taker(q) /\ Ended(q) /\ SameTake(q) /\ SameClear(q)
    BY Zenon DEF Owners, HandOf, KeepsFrames
  <2>2. Taker(q)' /\ Ended(q)'
    BY <2>1, Zenon DEF KeepsFrames, Taker, Ended, SameTake, SameClear
  <2>3. QED BY <2>2, Zenon DEF HandOf
<1>6. QED BY <1>3, <1>4, <1>5, Zenon DEF Owners

\* No page is pinned.
SamePin(q) ==
  th'[q].pc \in {"kernel", "unpin"} => th[q].pc \in {"kernel", "unpin"} /\ th'[q].page = th[q].page

\* If no pin changes either, all that is said of frames is kept.
LEMMA OwnersKept ==
  ASSUME TableTypes, Owners, KeepsFrames, UNCHANGED <<ft, panicked>>, \A q \in Proc : SamePin(q)
  PROVE  Owners'
<1>1. ASSUME NEW k \in Frame PROVE Mapped(k)' <=> Mapped(k)
  <2>1. /\ ft'[k].pid = ft[k].pid /\ ft'[k].upage = ft[k].upage
        /\ \A q \in Proc, u \in Page : pte'[q][u].frame = pte[q][u].frame
    BY Zenon DEF KeepsFrames
  <2>2. QED BY <2>1, MappedKept
<1>2. ASSUME NEW q \in Proc PROVE Clearer(q)' /\ Pinner(q)'
  <2>1. Clearer(q) /\ Pinner(q) /\ SamePin(q) /\ SameClear(q)
    BY Zenon DEF Owners, HandOf, KeepsFrames
  <2>2. Clearer(q)'
    BY <1>1, <2>1 DEF KeepsFrames, Clearer, SameClear
  <2>3. Pinner(q)'
    BY <2>1 DEF KeepsFrames, Pinner, SamePin, Present
  <2>4. QED BY <2>2, <2>3, Zenon
<1>3. QED BY <1>2, FramesKept, Zenon

\* Frames keep their pages, and the page tables of live processes too.
KeepsTables ==
  /\ UNCHANGED <<spt, swap, panicked>>
  /\ \A q \in Proc : (pagedir'[q] => pagedir[q]) /\ SameClear(q)
  /\ \A k \in Frame : ft'[k].pid = ft[k].pid /\ ft'[k].upage = ft[k].upage

KeepsSwaps ==
  /\ KeepsTables /\ leaked' = leaked
  /\ \A q \in Proc, u \in Page : /\ Present(q, u)' => Present(q, u)
                                 /\ pagedir'[q] /\ Present(q, u) => Present(q, u)'

\* Such a step keeps what is said of swap slots.
LEMMA SwapsKept ==
  ASSUME Swaps, KeepsSwaps
  PROVE  Swaps'
<1>1. panicked' = panicked /\ panicked # "impossible"
  BY Zenon DEF Swaps, KeepsSwaps, KeepsTables
<1> SUFFICES ASSUME panicked = "no"
    PROVE  /\ \A q \in Proc, u \in Page : EntryOf(q, u)'
           /\ \A s \in SwapSlot : SlotOf(s)'
           /\ \A q \in Proc : DropOf(q)'
  BY <1>1, Zenon DEF Swaps
<1>2. ASSUME NEW q \in Proc, NEW u \in Page PROVE EntryOf(q, u)'
  <2>1. EntryOf(q, u) /\ KeepsTables
    BY Zenon DEF Swaps, KeepsSwaps
  <2>2. QED BY <2>1, Zenon DEF KeepsSwaps, KeepsTables, SameClear, EntryOf
<1>3. ASSUME NEW s \in SwapSlot PROVE SlotOf(s)'
  <2>1. SlotOf(s) /\ KeepsTables
    BY Zenon DEF Swaps, KeepsSwaps
  <2>2. \A q \in Proc, u \in Page : Names(q, u, s)' <=> Names(q, u, s)
    BY <2>1, Zenon DEF KeepsTables, Names
  <2>3. \A q \in Proc : Fills(q, s)' <=> Fills(q, s)
    BY <2>1, Zenon DEF KeepsTables, SameClear, Fills
  <2>4. swap' = swap /\ leaked' = leaked
    BY <2>1, Zenon DEF KeepsTables, KeepsSwaps
  <2>5. QED BY <2>1, <2>2, <2>3, <2>4, SlotKept, Zenon
<1>4. ASSUME NEW q \in Proc PROVE DropOf(q)'
  <2>1. DropOf(q) /\ KeepsTables
    BY Zenon DEF Swaps, KeepsSwaps
  <2>2. QED BY <2>1 DEF KeepsTables, SameClear, DropOf, Clears
<1>5. QED BY <1>2, <1>3, <1>4, Zenon

KeepsContents ==
  /\ KeepsTables /\ UNCHANGED <<val, lost>>
  /\ \A q \in Proc, u \in Page :
       pagedir'[q] => /\ pte'[q][u].frame = pte[q][u].frame /\ pte'[q][u].dirty = pte[q][u].dirty
                      /\ Present(q, u) => mem'[pte[q][u].frame] = mem[pte[q][u].frame]

\* Such a step keeps what is said of the contents of pages.
LEMMA ContentsStay ==
  ASSUME Contents, KeepsContents
  PROVE  Contents'
<1>1. panicked' = panicked /\ KeepsTables
  BY Zenon DEF KeepsContents, KeepsTables
<1> SUFFICES ASSUME panicked = "no"
    PROVE  (\A q \in Proc, u \in Page : PageOf(q, u)') /\ (\A q \in Proc : CopyOf(q)')
  BY <1>1, Zenon DEF Contents
<1>2. \A q \in Proc, u \in Page : Kept(q, u)' => Kept(q, u)
  BY <1>1, Zenon DEF Kept, KeepsTables, KeepsContents
<1>3. ASSUME NEW q \in Proc, NEW u \in Page PROVE PageOf(q, u)'
  <2>1. PageOf(q, u) /\ (Kept(q, u)' => Kept(q, u) /\ pagedir'[q])
    BY <1>2, Zenon DEF Contents, Kept
  <2>2. /\ spt'[q][u] = spt[q][u] /\ val' = val /\ swap' = swap
        /\ th'[q].pc = "none" => th[q].pc = "none"
    BY <1>1, Zenon DEF KeepsContents, KeepsTables, SameClear
  <2>3. ASSUME Kept(q, u)' PROVE HeldOf(q, u)'
    <3>1. /\ HeldOf(q, u)
          /\ pte'[q][u].frame = pte[q][u].frame /\ pte'[q][u].dirty = pte[q][u].dirty
          /\ Present(q, u) => mem'[pte[q][u].frame] = mem[pte[q][u].frame]
      BY <2>1, <2>3, Zenon DEF KeepsContents, PageOf
    <3>2. QED BY <2>2, <3>1, Zenon DEF HeldOf, Present
  <2>4. QED BY <2>1, <2>2, <2>3, Zenon DEF PageOf
<1>4. ASSUME NEW q \in Proc PROVE CopyOf(q)'
  <2>1. CopyOf(q)
    BY Zenon DEF Contents
  <2>2. \A k \in Frame, r \in Proc, u \in Page :
          Clears(q, k, r, u)' => Clears(q, k, r, u) /\ th'[q].slot = th[q].slot
    BY <1>1, Zenon DEF KeepsTables, SameClear, Clears
  <2>3. val' = val /\ swap' = swap
    BY <1>1, Zenon DEF KeepsContents, KeepsTables
  <2>4. QED BY <1>2, <2>1, <2>2, <2>3, Zenon DEF CopyOf
<1>5. QED BY <1>3, <1>4, Zenon

----------------------------------------------------------------------------
\* A step of process p leaves the others where they are, and gives them no page.
Steps(p) ==
  \A q \in Proc \ {p} :
    /\ th'[q] = th[q] /\ pagedir'[q] = pagedir[q]
    /\ (pf_sema' = q <=> pf_sema = q) /\ (ft_lock' = q <=> ft_lock = q)
    /\ \A u \in Page : Present(q, u)' => Present(q, u)

\* Then only the place of p itself is to be looked at.
LEMMA PlacesKept ==
  ASSUME Places, NEW p \in Proc, Steps(p), PlaceOf(p)'
  PROVE  Places'
<1> SUFFICES ASSUME NEW q \in Proc \ {p} PROVE PlaceOf(q)'
  BY Zenon DEF Places
<1>1. PlaceOf(q)
  BY Zenon DEF Places
<1>2. QED BY <1>1, Zenon DEF PlaceOf, Steps, Busy

\* Page tables that differ in their accessed bits alone.
SameMap ==
  \A q \in Proc, u \in Page :
    pte'[q][u].frame = pte[q][u].frame /\ pte'[q][u].dirty = pte[q][u].dirty

\* A page table entry becomes r.
Puts(p, u, r) == pte' = [pte EXCEPT ![p][u] = r]

\* No other entry changes.
LEMMA PutsKeeps ==
  ASSUME TableTypes, NEW p \in Proc, NEW u \in Page, NEW r \in Pte, Puts(p, u, r)
  PROVE  /\ pte' \in [Proc -> [Page -> Pte]] /\ pte'[p][u] = r
         /\ \A q \in Proc, v \in Page : q # p \/ v # u => pte'[q][v] = pte[q][v]
<1>1. pte \in [Proc -> [Page -> Pte]]
  BY Zenon DEF TableTypes
<1>2. pte' \in [Proc -> [Page -> Pte]]
  BY <1>1, Zenon DEF Puts
<1>3. pte'[p][u] = r /\ \A q \in Proc, v \in Page : q # p \/ v # u => pte'[q][v] = pte[q][v]
  BY <1>1, Zenon DEF Puts
<1>4. QED BY <1>2, <1>3, Zenon

\* The processor sets an accessed bit.
Touches(p, u) == pte' = [pte EXCEPT ![p][u].accessed = TRUE]

\* What the page table maps stays the same.
LEMMA TouchKeeps ==
  ASSUME TableTypes, NEW p \in Proc, NEW u \in Page, Touches(p, u)
  PROVE  SameMap /\ pte' \in [Proc -> [Page -> Pte]]
<1>1. pte \in [Proc -> [Page -> Pte]] /\ pte[p][u] \in Pte
  BY Zenon DEF TableTypes
<1>2. PICK r \in Pte : r = [pte[p][u] EXCEPT !.accessed = TRUE]
  BY <1>1, Zenon DEF Pte
<1>3. r.frame = pte[p][u].frame /\ r.dirty = pte[p][u].dirty
  BY <1>1, <1>2, Zenon DEF Pte
<1>4. Puts(p, u, r)
  BY <1>2, Zenon DEF Touches, Puts
<1>5. /\ pte' \in [Proc -> [Page -> Pte]] /\ pte'[p][u] = r
      /\ \A q \in Proc, v \in Page : q # p \/ v # u => pte'[q][v] = pte[q][v]
  BY <1>4, PutsKeeps
<1>6. QED BY <1>3, <1>5, Zenon DEF SameMap

\* The clock clears accessed bits.
LEMMA ClearedKeeps ==
  ASSUME TableTypes, NEW n, pte' = Cleared(n)
  PROVE  SameMap /\ pte' \in [Proc -> [Page -> Pte]]
<1> DEFINE B(q, u) == \E i \in 0 .. n - 1 : ft[Hand(i)].pid = q /\ ft[Hand(i)].upage = u
<1>1. pte' = [q \in Proc |-> [u \in Page |-> [pte[q][u] EXCEPT !.accessed = @ /\ ~B(q, u)]]]
  BY Zenon DEF Cleared
<1> HIDE DEF B
<1>2. ASSUME NEW r \in Pte, NEW b \in BOOLEAN
      PROVE  LET s == [r EXCEPT !.accessed = b]
             IN  s \in Pte /\ s.frame = r.frame /\ s.dirty = r.dirty
  BY Zenon DEF Pte
<1>3. ASSUME NEW q \in Proc, NEW u \in Page
      PROVE  pte'[q][u] \in Pte /\ pte'[q][u].frame = pte[q][u].frame
                                /\ pte'[q][u].dirty = pte[q][u].dirty
  <2>1. pte[q][u] \in Pte
    BY Zenon DEF TableTypes
  <2>2. PICK b \in BOOLEAN : b = (pte[q][u].accessed /\ ~B(q, u))
    BY Zenon
  <2>3. pte'[q][u] = [pte[q][u] EXCEPT !.accessed = b]
    BY <1>1, <2>2
  <2>4. QED BY <1>2, <2>1, <2>3
<1>4. SameMap
  BY <1>3, Zenon DEF SameMap
<1>5. QED BY <1>1, <1>3, <1>4, Zenon

\* The places where a process holds no frame that is not mapped, has pinned
\* none, and has a page directory.
Calm == {"user", "fault", "falloc", "evict", "stuck", "valid", "exit"}

Quiet(p) ==
  /\ th[p].pc \in Calm /\ th'[p].pc \in Calm
  /\ SameMap
  /\ UNCHANGED <<pagedir, spt, ft, pool, mem, swap, panicked, val, lost, leaked>>

\* A step between such places keeps the invariant.
LEMMA QuietKeeps ==
  ASSUME VmInv, NEW p \in Proc, Steps(p), Quiet(p), PlaceOf(p)', ThreadTypes', TableTypes'
  PROVE  VmInv'
<1>0. Consistent
  BY Zenon DEF VmInv
<1> USE <1>0
<1>1. TypeOK'
  BY Zenon DEF Consistent, TypeOK, Quiet, SwapTypes, DataTypes
<1>2. \A q \in Proc : SameTake(q) /\ SameClear(q) /\ SamePin(q)
  BY Zenon DEF Steps, Quiet, Calm, SameTake, SameClear, SamePin
<1>3. Owners'
  <2>1. KeepsFrames
    BY <1>2, Zenon DEF KeepsFrames, Quiet, SameMap
  <2>2. QED BY <1>2, <2>1, OwnersKept, Zenon DEF Quiet, VmInv, Consistent, TypeOK
<1>4. KeepsTables
  BY <1>2, Zenon DEF KeepsTables, Quiet
<1>5. Swaps'
  BY <1>4, SwapsKept, Zenon DEF KeepsSwaps, Quiet, SameMap, Present, Consistent
<1>6. Contents'
  BY <1>4, ContentsStay, Zenon DEF KeepsContents, Quiet, SameMap, Consistent
<1>7. QED BY <1>1, <1>3, <1>5, <1>6, PlacesKept, Zenon DEF VmInv, Consistent

\* Process p moves, and no other.
Moves(p) == th' \in [Proc -> Thread] /\ \A q \in Proc \ {p} : th'[q] = th[q]

\* It takes or leaves a semaphore, or does not.
Signals(p) ==
  /\ pf_sema' = pf_sema \/ (pf_sema \in {p, NULL} /\ pf_sema' \in {p, NULL})
  /\ ft_lock' = ft_lock \/ (ft_lock \in {p, NULL} /\ ft_lock' \in {p, NULL})

\* The others hold the semaphores they held.
LEMMA SignalsKeep ==
  ASSUME VMAssumption, ThreadTypes, NEW p \in Proc, Signals(p)
  PROVE  /\ pf_sema' \in Proc \cup {NULL} /\ ft_lock' \in Proc \cup {NULL}
         /\ \A q \in Proc \ {p} : (pf_sema' = q <=> pf_sema = q) /\ (ft_lock' = q <=> ft_lock = q)
BY Zenon DEF VMAssumption, ThreadTypes, Signals

\* A step between calm places, with what is left to look at.
LEMMA PlainKeeps ==
  ASSUME VmInv, NEW p \in Proc, Moves(p), Signals(p), Quiet(p), PlaceOf(p)',
         pte' \in [Proc -> [Page -> Pte]], victim_idx' = victim_idx
  PROVE  VmInv'
<1>0. Consistent
  BY Zenon DEF VmInv
<1> USE <1>0
<1>1. ThreadTypes /\ TableTypes
  BY Zenon DEF Consistent, TypeOK
<1>2. /\ pf_sema' \in Proc \cup {NULL} /\ ft_lock' \in Proc \cup {NULL}
      /\ \A q \in Proc \ {p} : (pf_sema' = q <=> pf_sema = q) /\ (ft_lock' = q <=> ft_lock = q)
  BY <1>1, VMAssumption, SignalsKeep, Zenon
<1>3. ThreadTypes' /\ TableTypes'
  BY <1>1, <1>2, Zenon DEF ThreadTypes, TableTypes, Moves, Quiet
<1>4. Steps(p)
  BY <1>2, Zenon DEF Steps, Moves, Quiet, SameMap, Present
<1>5. QED BY <1>3, <1>4, QuietKeeps, Zenon

\* A thread gets a new record.
Becomes(p, r) == th' = [th EXCEPT ![p] = r]

\* No other thread does.
LEMMA BecomesMoves ==
  ASSUME ThreadTypes, NEW p \in Proc, NEW r \in Thread, Becomes(p, r)
  PROVE  Moves(p) /\ th'[p] = r
BY Zenon DEF ThreadTypes, Becomes, Moves

\* A thread starts on something: all of its record is set.
LEMMA StartMoves ==
  ASSUME ThreadTypes, NEW p \in Proc, NEW pc \in Point, NEW u \in Page \cup {-1}, NEW b \in BOOLEAN,
         Becomes(p, [Out EXCEPT !.pc = pc, !.page = u, !.kernel = b])
  PROVE  Moves(p) /\ th'[p].pc = pc /\ th'[p].page = u
<1>1. PICK r \in Thread : r = [Out EXCEPT !.pc = pc, !.page = u, !.kernel = b]
  BY Zenon DEF Thread, Out
<1>2. r.pc = pc /\ r.page = u
  BY <1>1, Zenon DEF Out
<1>3. QED BY <1>1, <1>2, BecomesMoves, Zenon

\* The same with the system call's flag left off.
LEMMA FaultMoves ==
  ASSUME ThreadTypes, NEW p \in Proc, NEW pc \in Point, NEW u \in Page,
         Becomes(p, [Out EXCEPT !.pc = pc, !.page = u])
  PROVE  Moves(p) /\ th'[p].pc = pc /\ th'[p].page = u
<1>1. PICK r \in Thread : r = [Out EXCEPT !.pc = pc, !.page = u]
  BY Zenon DEF Thread, Out
<1>2. r.pc = pc /\ r.page = u
  BY <1>1, Zenon DEF Out
<1>3. QED BY <1>1, <1>2, BecomesMoves, Zenon

\* The same with no page.
LEMMA LeaveMoves ==
  ASSUME ThreadTypes, NEW p \in Proc, NEW pc \in Point, Becomes(p, [Out EXCEPT !.pc = pc])
  PROVE  Moves(p) /\ th'[p].pc = pc
<1>1. PICK r \in Thread : r = [Out EXCEPT !.pc = pc]
  BY Zenon DEF Thread, Out
<1>2. r.pc = pc
  BY <1>1, Zenon DEF Out
<1>3. QED BY <1>1, <1>2, BecomesMoves, Zenon

\* A thread goes to another place in the same call.
Goes(p, pc, b) == th' = [th EXCEPT ![p].pc = pc, ![p].again = b]

\* It keeps its page, frame and slot.
LEMMA GoesMoves ==
  ASSUME ThreadTypes, NEW p \in Proc, NEW pc \in Point, NEW b \in BOOLEAN, Goes(p, pc, b)
  PROVE  /\ Moves(p) /\ th'[p].pc = pc /\ th'[p].page = th[p].page
         /\ th'[p].frame = th[p].frame /\ th'[p].slot = th[p].slot
<1>1. th \in [Proc -> Thread] /\ th[p] \in Thread
  BY Zenon DEF ThreadTypes
<1>2. PICK r \in Thread : r = [th[p] EXCEPT !.pc = pc, !.again = b]
  BY <1>1, Zenon DEF Thread
<1>3. r.pc = pc /\ r.page = th[p].page /\ r.frame = th[p].frame /\ r.slot = th[p].slot
  BY <1>1, <1>2, Zenon DEF Thread
<1>4. Becomes(p, r)
  BY <1>1, <1>2, Zenon DEF Goes, Becomes
<1>5. QED BY <1>3, <1>4, BecomesMoves, Zenon

\* The same for Goto.
LEMMA GotoMoves ==
  ASSUME ThreadTypes, NEW p \in Proc, NEW pc \in Point, Goto(p, pc)
  PROVE  /\ Moves(p) /\ th'[p].pc = pc /\ th'[p].page = th[p].page
         /\ th'[p].frame = th[p].frame /\ th'[p].slot = th[p].slot
<1>1. th \in [Proc -> Thread] /\ th[p] \in Thread
  BY Zenon DEF ThreadTypes
<1>2. PICK r \in Thread : r = [th[p] EXCEPT !.pc = pc]
  BY <1>1, Zenon DEF Thread
<1>3. r.pc = pc /\ r.page = th[p].page /\ r.frame = th[p].frame /\ r.slot = th[p].slot
  BY <1>1, <1>2, Zenon DEF Thread
<1>4. Becomes(p, r)
  BY <1>1, <1>2, Zenon DEF Goto, Becomes
<1>5. QED BY <1>3, <1>4, BecomesMoves, Zenon

----------------------------------------------------------------------------
\* The fault handler starts, or gives up.
LEMMA page_faultKeeps ==
  ASSUME VmInv, NEW p \in Proc, page_fault(p)
  PROVE  VmInv'
<1>0. Consistent
  BY Zenon DEF VmInv
<1> USE <1>0
<1>1. ThreadTypes /\ TableTypes /\ PlaceOf(p)
  BY Zenon DEF Consistent, TypeOK, Places
<1>2. PICK pc \in {"falloc", "exit"}, b \in BOOLEAN :
        Goes(p, pc, b) /\ pf_sema' = IF pc = "falloc" THEN p ELSE NULL
  BY Zenon DEF page_fault, Goes
<1>3. th[p].pc = "fault" /\ pf_sema = NULL
  BY Zenon DEF page_fault, Runs
<1>4. UNCHANGED <<pagedir, pte, spt, ft, victim_idx, pool, mem, swap, ft_lock, panicked, val, lost,
                  leaked>>
  BY Zenon DEF page_fault
<1>5. Moves(p) /\ th'[p].pc = pc /\ th'[p].page = th[p].page
  <2>1. pc \in Point
    BY Zenon DEF Point
  <2>2. QED BY <1>1, <1>2, <2>1, GoesMoves, Zenon
<1>6. Signals(p)
  BY <1>2, <1>3, <1>4, Zenon DEF Signals
<1>7. Quiet(p)
  BY <1>3, <1>4, <1>5, Zenon DEF Quiet, Calm, SameMap
<1>8. PlaceOf(p)'
  BY <1>1, <1>2, <1>3, <1>4, <1>5, VMAssumption, Zenon DEF PlaceOf, Busy, Present, VMAssumption
<1>9. QED BY <1>1, <1>4, <1>5, <1>6, <1>7, <1>8, PlainKeeps, Zenon DEF TableTypes

\* The pool is empty.
LEMMA falloc_evictKeeps ==
  ASSUME VmInv, NEW p \in Proc, falloc_get_frame(p), pool = {}
  PROVE  VmInv'
<1>0. Consistent
  BY Zenon DEF VmInv
<1> USE <1>0
<1>1. ThreadTypes /\ TableTypes /\ PlaceOf(p)
  BY Zenon DEF Consistent, TypeOK, Places
<1>2. Goto(p, "evict") /\ th[p].pc = "falloc"
  BY Zenon DEF falloc_get_frame, Runs
<1>3. UNCHANGED <<pagedir, pte, spt, ft, victim_idx, pool, mem, swap, pf_sema, ft_lock, panicked, val,
                  lost, leaked>>
  BY Zenon DEF falloc_get_frame
<1>4. Moves(p) /\ th'[p].pc = "evict" /\ th'[p].page = th[p].page
  BY <1>1, <1>2, GotoMoves, Zenon DEF Point
<1>5. Signals(p) /\ Quiet(p)
  BY <1>2, <1>3, <1>4, Zenon DEF Signals, Quiet, Calm, SameMap
<1>6. PlaceOf(p)'
  BY <1>1, <1>2, <1>3, <1>4, Zenon DEF PlaceOf, Busy, Present
<1>7. QED BY <1>1, <1>3, <1>4, <1>5, <1>6, PlainKeeps, Zenon DEF TableTypes

\* The clock meets the frame of a thread that no longer exists.
LEMMA evict_goneKeeps ==
  ASSUME VmInv, NEW p \in Proc, evict_gone(p)
  PROVE  VmInv'
<1>0. Consistent
  BY Zenon DEF VmInv
<1> USE <1>0
<1>1. ThreadTypes /\ TableTypes /\ PlaceOf(p)
  BY Zenon DEF Consistent, TypeOK, Places
<1>2. Goto(p, "stuck") /\ th[p].pc = "evict" /\ ft_lock = NULL /\ ft_lock' = p
  BY Zenon DEF evict_gone, Runs
<1>3. UNCHANGED <<pagedir, pte, spt, ft, victim_idx, pool, mem, swap, pf_sema, panicked, val,
                  lost, leaked>>
  BY Zenon DEF evict_gone
<1>4. Moves(p) /\ th'[p].pc = "stuck" /\ th'[p].page = th[p].page
  BY <1>1, <1>2, GotoMoves, Zenon DEF Point
<1>5. Signals(p) /\ Quiet(p)
  BY <1>2, <1>3, <1>4, Zenon DEF Signals, Quiet, Calm, SameMap
<1>6. PlaceOf(p)'
  BY <1>1, <1>2, <1>3, <1>4, Zenon DEF PlaceOf, Busy, Present
<1>7. QED BY <1>1, <1>3, <1>4, <1>5, <1>6, PlainKeeps, Zenon DEF TableTypes

\* Every frame is pinned.
LEMMA evict_noneKeeps ==
  ASSUME VmInv, NEW p \in Proc, evict_none(p)
  PROVE  VmInv'
<1>0. Consistent
  BY Zenon DEF VmInv
<1> USE <1>0
<1>1. ThreadTypes /\ TableTypes /\ PlaceOf(p)
  BY Zenon DEF Consistent, TypeOK, Places
<1>2. th[p].pc = "evict" /\ pte' = Cleared(2 * NFrames)
  BY Zenon DEF evict_none, Runs
<1>3. UNCHANGED <<pagedir, spt, ft, victim_idx, pool, mem, swap, ft_lock, panicked, val, lost, leaked>>
  BY Zenon DEF evict_none
<1>4. PICK pc \in {"falloc", "exit"} :
        /\ Moves(p) /\ th'[p].pc = pc /\ th'[p].page = th[p].page
        /\ pf_sema' = IF pc = "exit" THEN NULL ELSE pf_sema
  <2>1. CASE th[p].page \in Stack /\ ~th[p].again
    <3>1. Goes(p, "falloc", TRUE) /\ pf_sema' = pf_sema
      BY <2>1, Zenon DEF evict_none, Goes
    <3>2. QED BY <1>1, <3>1, GoesMoves, Zenon DEF Point
  <2>2. CASE ~(th[p].page \in Stack /\ ~th[p].again)
    <3>1. Goto(p, "exit") /\ pf_sema' = NULL
      BY <2>2, Zenon DEF evict_none
    <3>2. QED BY <1>1, <3>1, GotoMoves, Zenon DEF Point
  <2>3. QED BY <2>1, <2>2, Zenon
<1>5. SameMap /\ pte' \in [Proc -> [Page -> Pte]]
  BY <1>1, <1>2, ClearedKeeps, Zenon
<1>6. pf_sema = p
  BY <1>1, <1>2, Zenon DEF PlaceOf, Busy
<1>7. Signals(p)
  BY <1>3, <1>4, <1>6, Zenon DEF Signals
<1>8. Quiet(p)
  BY <1>2, <1>3, <1>4, <1>5, Zenon DEF Quiet, Calm
<1>9. PlaceOf(p)'
  <2>1. \A u \in Page : Present(p, u)' <=> Present(p, u)
    BY <1>5, Zenon DEF SameMap, Present
  <2>2. QED BY <1>1, <1>2, <1>3, <1>4, <1>6, <2>1, VMAssumption DEF PlaceOf, Busy, VMAssumption
<1>10. QED BY <1>3, <1>4, <1>5, <1>7, <1>8, <1>9, PlainKeeps, Zenon

\* An access to a page that is not present.
LEMMA access_faultKeeps ==
  ASSUME VmInv, NEW p \in Proc, NEW u \in Page, NEW write \in BOOLEAN, access(p, u, write),
         ~Present(p, u)
  PROVE  VmInv'
<1>0. Consistent
  BY Zenon DEF VmInv
<1> USE <1>0
<1>1. ThreadTypes /\ TableTypes /\ PlaceOf(p)
  BY Zenon DEF Consistent, TypeOK, Places
<1>2. Becomes(p, [Out EXCEPT !.pc = "fault", !.page = u]) /\ th[p].pc = "user"
  BY Zenon DEF access, Runs, Becomes
<1>3. UNCHANGED <<pagedir, pte, spt, ft, victim_idx, pool, mem, swap, pf_sema, ft_lock, panicked, val,
                  lost, leaked>>
  BY Zenon DEF access
<1>4. Moves(p) /\ th'[p].pc = "fault" /\ th'[p].page = u
  BY <1>1, <1>2, FaultMoves, Zenon DEF Point
<1>5. Signals(p) /\ Quiet(p)
  BY <1>2, <1>3, <1>4, Zenon DEF Signals, Quiet, Calm, SameMap
<1>6. PlaceOf(p)'
  BY <1>1, <1>2, <1>3, <1>4, Zenon DEF PlaceOf, Busy, Present
<1>7. QED BY <1>1, <1>3, <1>4, <1>5, <1>6, PlainKeeps, Zenon DEF TableTypes

\* A read of a page that is present.
LEMMA access_readKeeps ==
  ASSUME VmInv, NEW p \in Proc, NEW u \in Page, NEW write \in BOOLEAN, access(p, u, write),
         Present(p, u), ~write
  PROVE  VmInv'
<1>0. Consistent
  BY Zenon DEF VmInv
<1> USE <1>0
<1>1. ThreadTypes /\ TableTypes /\ PlaceOf(p)
  BY Zenon DEF Consistent, TypeOK, Places
<1>2. Touches(p, u) /\ th[p].pc = "user"
  BY Zenon DEF access, Runs, Touches
<1>3. UNCHANGED <<pagedir, spt, ft, victim_idx, pool, mem, swap, pf_sema, ft_lock, panicked, val,
                  lost, leaked, th>>
  BY Zenon DEF access
<1>4. Moves(p)
  BY <1>1, <1>3, Zenon DEF Moves, ThreadTypes
<1>5. SameMap /\ pte' \in [Proc -> [Page -> Pte]]
  BY <1>1, <1>2, TouchKeeps, Zenon
<1>6. Signals(p) /\ Quiet(p)
  BY <1>2, <1>3, <1>5, Zenon DEF Signals, Quiet, Calm
<1>7. PlaceOf(p)'
  BY <1>1, <1>2, <1>3, Zenon DEF PlaceOf, Busy
<1>8. QED BY <1>3, <1>4, <1>5, <1>6, <1>7, PlainKeeps, Zenon

\* A system call starts.
LEMMA syscall_handlerKeeps ==
  ASSUME VmInv, NEW p \in Proc, NEW u \in Page, syscall_handler(p, u)
  PROVE  VmInv'
<1>0. Consistent
  BY Zenon DEF VmInv
<1> USE <1>0
<1>1. ThreadTypes /\ TableTypes /\ PlaceOf(p)
  BY Zenon DEF Consistent, TypeOK, Places
<1>2. Becomes(p, [Out EXCEPT !.pc = "valid", !.page = u, !.kernel = TRUE]) /\ th[p].pc = "user"
  BY Zenon DEF syscall_handler, Runs, Becomes
<1>3. UNCHANGED <<pagedir, pte, spt, ft, victim_idx, pool, mem, swap, pf_sema, ft_lock, panicked, val,
                  lost, leaked>>
  BY Zenon DEF syscall_handler
<1>4. Moves(p) /\ th'[p].pc = "valid" /\ th'[p].page = u
  BY <1>1, <1>2, StartMoves, Zenon DEF Point
<1>5. Signals(p) /\ Quiet(p)
  BY <1>2, <1>3, <1>4, Zenon DEF Signals, Quiet, Calm, SameMap
<1>6. PlaceOf(p)'
  BY <1>1, <1>2, <1>3, <1>4, Zenon DEF PlaceOf, Busy
<1>7. QED BY <1>1, <1>3, <1>4, <1>5, <1>6, PlainKeeps, Zenon DEF TableTypes

\* The page of the argument is not present.
LEMMA valid_faultKeeps ==
  ASSUME VmInv, NEW p \in Proc, valid(p), ~Present(p, th[p].page)
  PROVE  VmInv'
<1>0. Consistent
  BY Zenon DEF VmInv
<1> USE <1>0
<1>1. ThreadTypes /\ TableTypes /\ PlaceOf(p)
  BY Zenon DEF Consistent, TypeOK, Places
<1>2. Goto(p, "fault") /\ th[p].pc = "valid"
  BY Zenon DEF valid, Runs
<1>3. UNCHANGED <<pagedir, pte, spt, ft, victim_idx, pool, mem, swap, pf_sema, ft_lock, panicked, val,
                  lost, leaked>>
  BY Zenon DEF valid
<1>4. Moves(p) /\ th'[p].pc = "fault" /\ th'[p].page = th[p].page
  BY <1>1, <1>2, GotoMoves, Zenon DEF Point
<1>5. Signals(p) /\ Quiet(p)
  BY <1>2, <1>3, <1>4, Zenon DEF Signals, Quiet, Calm, SameMap
<1>6. PlaceOf(p)'
  BY <1>1, <1>2, <1>3, <1>4, Zenon DEF PlaceOf, Busy, Present
<1>7. QED BY <1>1, <1>3, <1>4, <1>5, <1>6, PlainKeeps, Zenon DEF TableTypes

----------------------------------------------------------------------------
\* What a step on the flags of frames leaves alone.
Pins(p) ==
  /\ KeepsFrames /\ SameMap
  /\ UNCHANGED <<pagedir, spt, pool, mem, swap, panicked, val, lost, leaked, victim_idx, pf_sema, ft_lock>>
  /\ pte' \in [Proc -> [Page -> Pte]] /\ ft' \in [Frame -> FtEntry]

\* Such a step keeps the invariant if it keeps what is said of pins.
LEMMA PinsKeep ==
  ASSUME VmInv, NEW p \in Proc, Moves(p), Pins(p), PlaceOf(p)', \A q \in Proc : Clearer(q)' /\ Pinner(q)'
  PROVE  VmInv'
<1>0. Consistent
  BY Zenon DEF VmInv
<1> USE <1>0
<1>1. TypeOK'
  <2>1. ThreadTypes'
    BY Zenon DEF Consistent, TypeOK, ThreadTypes, Pins, Moves
  <2>2. TableTypes'
    BY Zenon DEF Consistent, TypeOK, TableTypes, Pins
  <2>3. SwapTypes' /\ DataTypes'
    BY Zenon DEF Consistent, TypeOK, SwapTypes, DataTypes, Pins
  <2>4. QED BY <2>1, <2>2, <2>3, Zenon DEF TypeOK
<1>2. Steps(p)
  BY Zenon DEF Steps, Moves, Pins, SameMap, Present
<1>3. Owners'
  BY FramesKept, Zenon DEF Pins, Consistent, TypeOK
<1>4. KeepsTables
  BY Zenon DEF KeepsTables, Pins, KeepsFrames
<1>5. Swaps'
  BY <1>4, SwapsKept, Zenon DEF KeepsSwaps, Pins, SameMap, Present, Consistent
<1>6. Contents'
  BY <1>4, ContentsStay, Zenon DEF KeepsContents, Pins, SameMap, Consistent
<1>7. QED BY <1>1, <1>2, <1>3, <1>5, <1>6, PlacesKept, Zenon DEF VmInv, Consistent

\* The entry of a frame changes its flag.
Flags(k, b) == ft' = [ft EXCEPT ![k].pinned = b]

\* It names the page it named.
LEMMA FlagsKeep ==
  ASSUME TableTypes, NEW k \in Frame, NEW b \in BOOLEAN, Flags(k, b)
  PROVE  /\ ft' \in [Frame -> FtEntry] /\ ft'[k].pinned = b
         /\ \A j \in Frame : ft'[j].pid = ft[j].pid /\ ft'[j].upage = ft[j].upage
         /\ \A j \in Frame \ {k} : ft'[j] = ft[j]
<1>1. ft \in [Frame -> FtEntry] /\ ft[k] \in FtEntry
  BY Zenon DEF TableTypes
<1>2. PICK r \in FtEntry : r = [ft[k] EXCEPT !.pinned = b]
  BY <1>1, Zenon DEF FtEntry
<1>3. r.pid = ft[k].pid /\ r.upage = ft[k].upage /\ r.pinned = b
  BY <1>1, <1>2, Zenon DEF FtEntry
<1>4. ft' = [ft EXCEPT ![k] = r]
  BY <1>1, <1>2, Zenon DEF Flags
<1>5. QED BY <1>1, <1>3, <1>4, Zenon

\* The page of the argument is present and is pinned: the lock of the frame
\* table is free, so no eviction has chosen its frame.
LEMMA valid_pinKeeps ==
  ASSUME VmInv, NEW p \in Proc, valid(p), Present(p, th[p].page)
  PROVE  VmInv'
<1>0. Consistent
  BY Zenon DEF VmInv
<1> USE <1>0
<1>1. ThreadTypes /\ TableTypes /\ PlaceOf(p) /\ Owners
  BY Zenon DEF Consistent, TypeOK, Places
<1>2. PICK u \in Page : u = th[p].page
  BY <1>1, Zenon DEF PlaceOf, valid, Runs
<1>3. PICK k \in Frame : k = pte[p][u].frame
  BY <1>1, <1>2 DEF TableTypes, Pte, Present
<1>4. Goto(p, "kernel") /\ th[p].pc = "valid" /\ ft_lock = NULL /\ Touches(p, u) /\ Flags(k, TRUE)
  BY <1>2, <1>3, Zenon DEF valid, Runs, Touches, Flags, ft_pin
<1>5. UNCHANGED <<pagedir, spt, victim_idx, pool, mem, swap, pf_sema, ft_lock, panicked, val,
                  lost, leaked>>
  BY Zenon DEF valid
<1>6. Moves(p) /\ th'[p].pc = "kernel" /\ th'[p].page = u
  BY <1>1, <1>2, <1>4, GotoMoves, Zenon DEF Point
<1>7. SameMap /\ pte' \in [Proc -> [Page -> Pte]]
  BY <1>1, <1>4, TouchKeeps, Zenon
<1>8. /\ ft' \in [Frame -> FtEntry] /\ ft'[k].pinned = TRUE
      /\ \A j \in Frame : ft'[j].pid = ft[j].pid /\ ft'[j].upage = ft[j].upage
      /\ \A j \in Frame \ {k} : ft'[j] = ft[j]
  BY <1>1, <1>4, FlagsKeep, Zenon
<1>9. Pins(p)
  <2>1. \A q \in Proc : SameTake(q) /\ SameClear(q)
    BY <1>4, <1>6, Zenon DEF Moves, SameTake, SameClear
  <2>2. KeepsFrames
    BY <1>5, <1>7, <1>8, <2>1, Zenon DEF KeepsFrames, SameMap
  <2>3. QED BY <1>5, <1>7, <1>8, <2>2, Zenon DEF Pins
<1>10. PlaceOf(p)'
  BY <1>1, <1>4, <1>5, <1>6, Zenon DEF PlaceOf, Busy
<1>11. ASSUME NEW q \in Proc PROVE Clearer(q)'
  <2>1. th[q].pc # "clear"
    BY <1>4, VMAssumption, Zenon DEF Consistent, Places, PlaceOf, VMAssumption
  <2>2. QED BY <1>4, <1>6, <2>1, Zenon DEF Moves, Clearer
<1>12. ASSUME NEW q \in Proc PROVE Pinner(q)'
  <2>1. CASE q = p
    BY <1>2, <1>3, <1>6, <1>7, <1>8, <2>1 DEF SameMap, Pinner, Present
  <2>2. CASE q # p
    <3>1. Pinner(q) /\ th'[q] = th[q]
      BY <1>1, <1>6, <2>2, Zenon DEF Owners, HandOf, Moves
    <3>2. QED BY <1>7, <1>8, <3>1 DEF SameMap, Pinner, Present
  <2>3. QED BY <2>1, <2>2, Zenon
<1>13. QED BY <1>6, <1>9, <1>10, <1>11, <1>12, PinsKeep, Zenon

\* The call returns: the frame is its own, so no other process has pinned it.
LEMMA unpinKeeps ==
  ASSUME VmInv, NEW p \in Proc, unpin(p)
  PROVE  VmInv'
<1>0. Consistent
  BY Zenon DEF VmInv
<1> USE <1>0
<1>1. ThreadTypes /\ TableTypes /\ PlaceOf(p) /\ Owners
  BY Zenon DEF Consistent, TypeOK, Places
<1>2. th[p].pc \in {"kernel", "unpin"} /\ ft_lock = NULL
  BY Zenon DEF unpin, Runs
<1>3. PICK u \in Page : u = th[p].page
  BY <1>1, <1>2, Zenon DEF PlaceOf
<1>4. Present(p, u)
  BY <1>1, <1>2, <1>3, Zenon DEF Owners, HandOf, Pinner
<1>5. PICK k \in Frame : k = pte[p][u].frame
  BY <1>1, <1>4 DEF TableTypes, Pte, Present
<1>6. Becomes(p, [Out EXCEPT !.pc = "user"]) /\ Flags(k, FALSE)
  BY <1>3, <1>4, <1>5, Zenon DEF unpin, Becomes, Flags, ft_unpin
<1>7. UNCHANGED <<pagedir, pte, spt, victim_idx, pool, mem, swap, pf_sema, ft_lock, panicked, val,
                  lost, leaked>>
  BY Zenon DEF unpin
<1>8. Moves(p) /\ th'[p].pc = "user"
  BY <1>1, <1>6, LeaveMoves, Zenon DEF Point
<1>9. /\ ft' \in [Frame -> FtEntry]
      /\ \A j \in Frame : ft'[j].pid = ft[j].pid /\ ft'[j].upage = ft[j].upage
      /\ \A j \in Frame \ {k} : ft'[j] = ft[j]
  BY <1>1, <1>6, FlagsKeep, Zenon
<1>10. Pins(p)
  <2>1. \A q \in Proc : SameTake(q) /\ SameClear(q)
    BY <1>2, <1>8, Zenon DEF Moves, SameTake, SameClear
  <2>2. KeepsFrames
    BY <1>7, <1>9, <2>1, Zenon DEF KeepsFrames
  <2>3. QED BY <1>1, <1>7, <1>9, <2>2, Zenon DEF Pins, SameMap, TableTypes
<1>11. PlaceOf(p)'
  BY <1>1, <1>2, <1>7, <1>8, Zenon DEF PlaceOf, Busy
<1>12. ASSUME NEW q \in Proc PROVE Clearer(q)'
  <2>1. th[q].pc # "clear"
    BY <1>2, VMAssumption, Zenon DEF Consistent, Places, PlaceOf, VMAssumption
  <2>2. QED BY <1>2, <1>8, <2>1, Zenon DEF Moves, Clearer
<1>13. ASSUME NEW q \in Proc PROVE Pinner(q)'
  <2>1. CASE q = p
    BY <1>8, <2>1, Zenon DEF Pinner
  <2>2. CASE q # p
    <3>1. Pinner(q) /\ th'[q] = th[q]
      BY <1>1, <1>8, <2>2, Zenon DEF Owners, HandOf, Moves
    <3>2. \A v \in Page : Present(q, v) => pte[q][v].frame # k
      <4>1. \A v \in Page : MapOf(q, v)
        BY <1>1, Zenon DEF Owners
      <4>2. ft[k].pid = p
        BY <1>1, <1>4, <1>5, Zenon DEF Owners, MapOf
      <4>3. QED BY <2>2, <4>1, <4>2, Zenon DEF MapOf
    <3>3. QED BY <1>7, <1>9, <3>1, <3>2 DEF Pinner, Present
  <2>3. QED BY <2>1, <2>2, Zenon
<1>14. QED BY <1>8, <1>10, <1>11, <1>12, <1>13, PinsKeep, Zenon

\* A process ends: it may hold a pinned page but no frame and no lock.
LEMMA process_exitKeeps ==
  ASSUME VmInv, NEW p \in Proc, NEW pc \in {"exit", "kernel"}, process_exit(p, pc)
  PROVE  VmInv'
<1>0. Consistent
  BY Zenon DEF VmInv
<1> USE <1>0
<1>1. ThreadTypes /\ TableTypes /\ PlaceOf(p) /\ Owners
  BY Zenon DEF Consistent, TypeOK, Places
<1>2. th[p].pc = pc /\ pagedir' = [pagedir EXCEPT ![p] = FALSE]
  BY Zenon DEF process_exit, Runs
<1>3. UNCHANGED <<pte, spt, ft, victim_idx, pool, mem, swap, pf_sema, ft_lock, panicked, val, lost, leaked>>
  BY Zenon DEF process_exit
<1>4. Moves(p) /\ th'[p].pc = "destroy"
  <2>1. Becomes(p, [Out EXCEPT !.pc = "destroy"])
    BY Zenon DEF process_exit, Becomes
  <2>2. QED BY <1>1, <2>1, LeaveMoves, Zenon DEF Point
<1>5. /\ pagedir' \in [Proc -> BOOLEAN] /\ ~pagedir'[p]
      /\ \A q \in Proc \ {p} : pagedir'[q] = pagedir[q]
  BY <1>1, <1>2, Zenon DEF ThreadTypes
<1>6. TypeOK'
  <2>1. ThreadTypes' /\ TableTypes'
    BY <1>1, <1>3, <1>4, <1>5, Zenon DEF ThreadTypes, TableTypes, Moves
  <2>2. QED BY <1>3, <2>1, Zenon DEF VmInv, Consistent, TypeOK, SwapTypes, DataTypes
<1>7. \A q \in Proc : SameTake(q) /\ SameClear(q) /\ SamePin(q)
  BY <1>2, <1>4, Zenon DEF Moves, SameTake, SameClear, SamePin
<1>8. \A q \in Proc : pagedir'[q] => pagedir[q]
  BY <1>5, Zenon
<1>9. Owners'
  <2>1. KeepsFrames
    BY <1>3, <1>7, <1>8, Zenon DEF KeepsFrames
  <2>2. QED BY <1>1, <1>3, <1>7, <2>1, OwnersKept, Zenon
<1>10. KeepsTables
  BY <1>3, <1>7, <1>8, Zenon DEF KeepsTables
<1>11. Swaps'
  BY <1>3, <1>10, SwapsKept, Zenon DEF KeepsSwaps, Present, Consistent
<1>12. Contents'
  BY <1>3, <1>10, ContentsStay, Zenon DEF KeepsContents, Consistent
<1>13. Steps(p)
  BY <1>3, <1>4, <1>5, Zenon DEF Steps, Moves, Present
<1>14. PlaceOf(p)'
  BY <1>1, <1>2, <1>3, <1>4, <1>5, Zenon DEF PlaceOf, Busy
<1>15. QED BY <1>6, <1>9, <1>11, <1>12, <1>13, <1>14, PlacesKept, Zenon DEF VmInv, Consistent

----------------------------------------------------------------------------
\* A store to page u of p, in frame k.
Writes(p, u, k) ==
  /\ \A q \in Proc, v \in Page : pte'[q][v].frame = pte[q][v].frame
  /\ \A q \in Proc, v \in Page : q # p \/ v # u =>
       pte'[q][v].dirty = pte[q][v].dirty /\ val'[q][v] = val[q][v]
  /\ pte'[p][u].dirty
  /\ mem'[k] = <<p, u, val'[p][u]>> /\ \A j \in Frame \ {k} : mem'[j] = mem[j]
  /\ lost \subseteq lost' /\ (BeingEvicted(k) => <<p, u>> \in lost')

\* What a store changes.
LEMMA StoreFacts ==
  ASSUME TypeOK, NEW p \in Proc, NEW u \in Page, NEW k \in Frame, k = pte[p][u].frame, Store(p, u)
  PROVE  /\ Writes(p, u, k)
         /\ pte' \in [Proc -> [Page -> Pte]] /\ DataTypes'
<1>1. pte \in [Proc -> [Page -> Pte]] /\ pte[p][u] \in Pte
  BY Zenon DEF TypeOK, TableTypes
<1>2. PICK r \in Pte : r = [pte[p][u] EXCEPT !.accessed = TRUE, !.dirty = TRUE]
  BY <1>1, Zenon DEF Pte
<1>3. r.frame = k /\ r.dirty
  BY <1>1, <1>2, Zenon DEF Pte
<1>4. Puts(p, u, r)
  BY <1>1, <1>2, Zenon DEF Store, Puts
<1>5. /\ pte' \in [Proc -> [Page -> Pte]] /\ pte'[p][u] = r
      /\ \A q \in Proc, v \in Page : q # p \/ v # u => pte'[q][v] = pte[q][v]
  BY <1>4, PutsKeeps, Zenon DEF TypeOK
<1>6. PICK n \in {0, 1} : n = 1 - val[p][u]
  BY DEF TypeOK, DataTypes
<1>7. val' = [val EXCEPT ![p][u] = n] /\ mem' = [mem EXCEPT ![k] = <<p, u, n>>]
  BY <1>6, Zenon DEF Store
<1>8. /\ val \in [Proc -> [Page -> {0, 1}]] /\ mem \in [Frame -> Content \cup {NULL}]
      /\ <<p, u, n>> \in Content
  BY Zenon DEF TypeOK, DataTypes, Content
<1>9. /\ val' \in [Proc -> [Page -> {0, 1}]] /\ val'[p][u] = n
      /\ \A q \in Proc, v \in Page : q # p \/ v # u => val'[q][v] = val[q][v]
  BY <1>7, <1>8, Zenon
<1>10. /\ mem' \in [Frame -> Content \cup {NULL}]
       /\ mem'[k] = <<p, u, n>> /\ \A j \in Frame \ {k} : mem'[j] = mem[j]
  BY <1>7, <1>8, Zenon
<1>11. lost \subseteq lost' /\ (BeingEvicted(k) => <<p, u>> \in lost')
  BY Zenon DEF Store
<1>12. \A q \in Proc, v \in Page : pte'[q][v].frame = pte[q][v].frame
  BY <1>3, <1>5, Zenon
<1>13. Writes(p, u, k)
  <2>1. /\ \A q \in Proc, v \in Page : q # p \/ v # u =>
             pte'[q][v].dirty = pte[q][v].dirty /\ val'[q][v] = val[q][v]
        /\ pte'[p][u].dirty /\ mem'[k] = <<p, u, val'[p][u]>>
    BY <1>3, <1>5, <1>9, <1>10, Zenon
  <2>2. QED BY <1>10, <1>11, <1>12, <2>1, Zenon DEF Writes
<1>14. QED BY <1>5, <1>9, <1>10, <1>13, Zenon DEF DataTypes

\* The page that is written to is where it was, the others are in other frames;
\* if it has been copied by an eviction it is not kept.
LEMMA WriteContents ==
  ASSUME TypeOK, Owners, Contents, panicked = "no",
         NEW p \in Proc, NEW u \in Page, NEW k \in Frame, k = pte[p][u].frame, Present(p, u),
         Writes(p, u, k), KeepsTables, pagedir' = pagedir, th[p].pc # "none"
  PROVE  Contents'
<1>1. panicked' = panicked /\ spt' = spt /\ swap' = swap
  BY Zenon DEF KeepsTables
<1>2. \A q \in Proc, v \in Page : Kept(q, v)' => Kept(q, v)
  BY Zenon DEF Kept, Writes
<1>3. \A q \in Proc, v \in Page : Present(q, v)' <=> Present(q, v)
  <2>1. \A q \in Proc, v \in Page : pte'[q][v].frame = pte[q][v].frame
    BY Zenon DEF Writes
  <2>2. QED BY <2>1, Zenon DEF Present
<1>4. PageOf(p, u)'
  <2>1. HeldOf(p, u)'
    BY <1>3, Zenon DEF Writes, HeldOf
  <2>2. th'[p].pc # "none"
    BY Zenon DEF KeepsTables, SameClear
  <2>3. QED BY <2>1, <2>2, Zenon DEF PageOf
<1>5. ASSUME NEW q \in Proc, NEW v \in Page, q # p \/ v # u PROVE PageOf(q, v)'
  <2>1. PageOf(q, v) /\ (th'[q].pc = "none" => th[q].pc = "none")
    BY Zenon DEF Contents, KeepsTables, SameClear
  <2>2. Present(q, v) => pte[q][v].frame \in Frame \ {k}
    <3>1. Present(q, v) => pte[q][v].frame \in Frame
      BY PresentFrame, Zenon DEF TypeOK
    <3>2. MapOf(q, v) /\ MapOf(p, u)
      BY Zenon DEF Owners
    <3>3. QED BY <1>5, <3>1, <3>2, Zenon DEF MapOf
  <2>3. /\ pte'[q][v].frame = pte[q][v].frame /\ pte'[q][v].dirty = pte[q][v].dirty
        /\ val'[q][v] = val[q][v]
        /\ Present(q, v) => mem'[pte[q][v].frame] = mem[pte[q][v].frame]
    <3>1. /\ pte'[q][v].frame = pte[q][v].frame /\ pte'[q][v].dirty = pte[q][v].dirty
          /\ val'[q][v] = val[q][v]
      BY <1>5, Zenon DEF Writes
    <3>2. \A j \in Frame \ {k} : mem'[j] = mem[j]
      BY Zenon DEF Writes
    <3>3. QED BY <2>2, <3>1, <3>2, Zenon
  <2>4. HeldOf(q, v) => HeldOf(q, v)'
    BY <1>1, <1>3, <2>3, Zenon DEF HeldOf
  <2>5. QED BY <1>2, <2>1, <2>3, <2>4, Zenon DEF PageOf
<1>6. ASSUME NEW q \in Proc PROVE CopyOf(q)'
  <2> SUFFICES ASSUME NEW j \in Frame, NEW r \in Proc, NEW v \in Page, Clears(q, j, r, v)', Kept(r, v)'
      PROVE  IF th'[q].slot = -1 THEN val'[r][v] = 0 ELSE swap'[th'[q].slot] = <<r, v, val'[r][v]>>
    BY Zenon DEF CopyOf
  <2>1. Clears(q, j, r, v) /\ th'[q].slot = th[q].slot
    BY Zenon DEF Clears, KeepsTables, SameClear
  <2>2. pte[r][v].frame = j
    BY <2>1, Zenon DEF Owners, HandOf, Clearer, Clears, Mapped
  <2>3. r # p \/ v # u
    <3> SUFFICES ASSUME r = p, v = u PROVE FALSE
      BY Zenon
    <3>1. BeingEvicted(k)
      BY <2>1, <2>2, Zenon DEF Clears, BeingEvicted
    <3>2. QED BY <3>1, Zenon DEF Writes, Kept
  <2>4. val'[r][v] = val[r][v] /\ CopyOf(q) /\ Kept(r, v)
    BY <1>2, <2>3, Zenon DEF Writes, Contents
  <2>5. IF th[q].slot = -1 THEN val[r][v] = 0 ELSE swap[th[q].slot] = <<r, v, val[r][v]>>
    BY <2>1, <2>4, Zenon DEF CopyOf
  <2>6. QED BY <1>1, <2>1, <2>4, <2>5, Zenon
<1>7. QED BY <1>4, <1>5, <1>6, Zenon DEF Contents

\* A store by the process or by a system call.
LEMMA WriteKeeps ==
  ASSUME VmInv, NEW p \in Proc, NEW u \in Page, Present(p, u), panicked = "no", Store(p, u),
         Moves(p), PlaceOf(p)', th[p].pc # "none", \A q \in Proc : SameTake(q) /\ SameClear(q) /\ SamePin(q),
         UNCHANGED <<pagedir, spt, ft, victim_idx, pool, swap, pf_sema, ft_lock, panicked, leaked>>
  PROVE  VmInv'
<1>0. Consistent
  BY Zenon DEF VmInv
<1> USE <1>0
<1>1. TypeOK /\ Owners /\ Contents /\ TableTypes
  BY Zenon DEF Consistent, TypeOK
<1>2. PICK k \in Frame : k = pte[p][u].frame
  BY <1>1, PresentFrame, Zenon
<1>3. Writes(p, u, k) /\ pte' \in [Proc -> [Page -> Pte]] /\ DataTypes'
  BY <1>1, <1>2, StoreFacts, Zenon
<1>4. TypeOK'
  <2>1. ThreadTypes' /\ TableTypes'
    BY <1>1, <1>3, Zenon DEF TypeOK, ThreadTypes, TableTypes, Moves
  <2>2. SwapTypes'
    BY <1>1, Zenon DEF TypeOK, SwapTypes
  <2>3. QED BY <1>3, <2>1, <2>2, Zenon DEF TypeOK
<1>5. KeepsFrames
  <2>1. <<p, u, val'[p][u]>> # NULL
    BY <1>3, VMAssumption DEF DataTypes, VMAssumption
  <2>2. QED BY <1>3, <2>1, Zenon DEF KeepsFrames, Writes
<1>6. Owners'
  BY <1>1, <1>5, OwnersKept, Zenon
<1>7. KeepsTables
  BY Zenon DEF KeepsTables
<1>8. Swaps'
  BY <1>3, <1>7, SwapsKept, Zenon DEF KeepsSwaps, Writes, Present, Consistent
<1>9. Contents'
  BY <1>1, <1>2, <1>3, <1>7, WriteContents, Zenon
<1>10. Steps(p)
  <2>1. \A q \in Proc, v \in Page : Present(q, v)' => Present(q, v)
    BY <1>3, Zenon DEF Writes, Present
  <2>2. QED BY <2>1, Zenon DEF Steps, Moves
<1>11. QED BY <1>4, <1>6, <1>8, <1>9, <1>10, PlacesKept, Zenon DEF VmInv, Consistent

\* A write to a page that is present.
LEMMA access_writeKeeps ==
  ASSUME VmInv, NEW p \in Proc, NEW u \in Page, NEW write \in BOOLEAN, access(p, u, write),
         Present(p, u), write
  PROVE  VmInv'
<1>0. Consistent
  BY Zenon DEF VmInv
<1> USE <1>0
<1>1. ThreadTypes /\ PlaceOf(p)
  BY Zenon DEF Consistent, TypeOK, Places
<1>2. Store(p, u) /\ th[p].pc = "user" /\ panicked = "no"
  BY Zenon DEF access, Runs
<1>3. UNCHANGED <<pagedir, spt, ft, victim_idx, pool, swap, pf_sema, ft_lock, panicked, leaked, th>>
  BY Zenon DEF access
<1>4. Moves(p) /\ \A q \in Proc : SameTake(q) /\ SameClear(q) /\ SamePin(q)
  BY <1>1, <1>3, Zenon DEF Moves, ThreadTypes, SameTake, SameClear, SamePin
<1>5. PlaceOf(p)'
  BY <1>1, <1>2, <1>3, Zenon DEF PlaceOf, Busy
<1>6. QED BY <1>2, <1>3, <1>4, <1>5, WriteKeeps, Zenon

\* A system call stores into its argument.
LEMMA syscallKeeps ==
  ASSUME VmInv, NEW p \in Proc, syscall(p)
  PROVE  VmInv'
<1>0. Consistent
  BY Zenon DEF VmInv
<1> USE <1>0
<1>1. ThreadTypes /\ PlaceOf(p)
  BY Zenon DEF Consistent, TypeOK, Places
<1>2. th[p].pc = "kernel" /\ panicked = "no" /\ Goto(p, "unpin")
  BY Zenon DEF syscall, Runs
<1>3. UNCHANGED <<pagedir, spt, ft, victim_idx, pool, swap, pf_sema, ft_lock, panicked, leaked>>
  BY Zenon DEF syscall
<1>4. PICK u \in Page : u = th[p].page
  BY <1>1, <1>2, Zenon DEF PlaceOf
<1>5. Present(p, u) /\ Store(p, u)
  BY <1>4, Zenon DEF syscall
<1>6. Moves(p) /\ th'[p].pc = "unpin" /\ th'[p].page = u
  BY <1>1, <1>2, <1>4, GotoMoves, Zenon DEF Point
<1>7. \A q \in Proc : SameTake(q) /\ SameClear(q) /\ SamePin(q)
  BY <1>2, <1>4, <1>6, Zenon DEF Moves, SameTake, SameClear, SamePin
<1>8. PlaceOf(p)'
  BY <1>1, <1>2, <1>3, <1>6, Zenon DEF PlaceOf, Busy
<1>9. QED BY <1>2, <1>3, <1>5, <1>6, <1>7, <1>8, WriteKeeps, Zenon

----------------------------------------------------------------------------
\* What load() does: the process has no frame and no slot before.
Loads(p) ==
  /\ Moves(p) /\ th[p].pc = "none" /\ th'[p].pc = "user" /\ panicked = "no"
  /\ pagedir'[p] /\ \A q \in Proc \ {p} : pagedir'[q] = pagedir[q] /\ spt'[q] = spt[q]
  /\ \A u \in Page : spt'[p][u].flag \in {"FILE", "ZERO", "INVALID"}
  /\ UNCHANGED <<pte, ft, victim_idx, pool, mem, swap, pf_sema, ft_lock, panicked, val, lost, leaked>>

\* The types after load(), and what it does.
LEMMA LoadFacts ==
  ASSUME TypeOK, NEW p \in Proc, load(p)
  PROVE  Loads(p) /\ TypeOK'
<1>1. th[p].pc = "none" /\ panicked = "no" /\ Goto(p, "user")
  BY Zenon DEF load, Runs
<1>2. Moves(p) /\ th'[p].pc = "user"
  BY <1>1, GotoMoves, Zenon DEF Point, TypeOK
<1>3. UNCHANGED <<pte, ft, victim_idx, pool, mem, swap, pf_sema, ft_lock, panicked, val, lost, leaked>>
  BY Zenon DEF load
<1>4. /\ pagedir' \in [Proc -> BOOLEAN] /\ pagedir'[p]
      /\ \A q \in Proc \ {p} : pagedir'[q] = pagedir[q]
  BY Zenon DEF TypeOK, ThreadTypes, load
<1>5. PICK f \in [Page -> SptEntry] :
        /\ spt' = [spt EXCEPT ![p] = f]
        /\ \A u \in Page : f[u].flag \in {"FILE", "ZERO", "INVALID"}
  <2> DEFINE f == [u \in Page |-> [flag |-> Loaded[u], ref |-> -1]]
  <2>1. f \in [Page -> SptEntry] /\ \A u \in Page : f[u].flag \in {"FILE", "ZERO", "INVALID"}
    BY VMAssumption, Zenon DEF VMAssumption, SptEntry, Flag
  <2>2. spt' = [spt EXCEPT ![p] = f]
    BY Zenon DEF load
  <2>3. QED BY <2>1, <2>2, Zenon
<1>6. spt \in [Proc -> [Page -> SptEntry]]
  BY Zenon DEF TypeOK, SwapTypes
<1>7. spt' \in [Proc -> [Page -> SptEntry]] /\ spt'[p] = f /\ \A q \in Proc \ {p} : spt'[q] = spt[q]
  BY <1>5, <1>6, Zenon
<1>8. Loads(p)
  BY <1>1, <1>2, <1>3, <1>4, <1>5, <1>7, Zenon DEF Loads
<1>9. ThreadTypes' /\ TableTypes'
  BY <1>2, <1>3, <1>4, Zenon DEF TypeOK, ThreadTypes, TableTypes, Moves
<1>10. SwapTypes' /\ DataTypes'
  BY <1>3, <1>7, Zenon DEF TypeOK, SwapTypes, DataTypes
<1>11. QED BY <1>8, <1>9, <1>10, Zenon DEF TypeOK

\* A process that has not started or has ended maps nothing.
LEMMA EndedHasNone ==
  ASSUME TypeOK, Owners, NEW p \in Proc, th[p].pc = "none"
  PROVE  (\A k \in Frame : ft[k].pid # p) /\ (\A u \in Page : ~Present(p, u))
<1>1. \A k \in Frame : ft[k].pid # p
  BY Zenon DEF Owners, HandOf, Ended
<1>2. ASSUME NEW u \in Page, Present(p, u) PROVE FALSE
  <2>1. pte[p][u].frame \in Frame /\ MapOf(p, u)
    BY <1>2 DEF TypeOK, TableTypes, Pte, Present, Owners
  <2>2. QED BY <1>1, <1>2, <2>1, Zenon DEF MapOf
<1>3. QED BY <1>1, <1>2, Zenon

\* load() keeps what is said of slots.
LEMMA LoadSwaps ==
  ASSUME TypeOK, Owners, Swaps, NEW p \in Proc, Loads(p)
  PROVE  Swaps'
<1>1. panicked = "no" /\ UNCHANGED <<pte, ft, swap, panicked, leaked>>
  BY Zenon DEF Loads
<1>2. (\A k \in Frame : ft[k].pid # p) /\ (\A u \in Page : ~Present(p, u))
  BY EndedHasNone, Zenon DEF Loads
<1>3. ASSUME NEW q \in Proc, NEW u \in Page PROVE EntryOf(q, u)'
  <2>1. CASE q = p
    <3>1. ~Present(p, u)' /\ th'[p].pc = "user" /\ spt'[p][u].flag \in {"FILE", "ZERO", "INVALID"}
      BY <1>1, <1>2, Zenon DEF Loads, Present
    <3>2. QED BY <2>1, <3>1, Zenon DEF EntryOf
  <2>2. CASE q # p
    <3>1. EntryOf(q, u) /\ th'[q] = th[q] /\ pagedir'[q] = pagedir[q] /\ spt'[q] = spt[q]
      BY <1>1, <2>2, Zenon DEF Swaps, Loads, Moves
    <3>2. QED BY <1>1, <3>1, Zenon DEF EntryOf, Present
  <2>3. QED BY <2>1, <2>2, Zenon
<1>4. ASSUME NEW s \in SwapSlot PROVE SlotOf(s)'
  <2>1. SlotOf(s) /\ \A u \in Page : EntryOf(p, u)
    BY <1>1, Zenon DEF Swaps
  <2>2. \A q \in Proc, u \in Page : Names(q, u, s)' <=> Names(q, u, s)
    BY <2>1, Zenon DEF Loads, Names, EntryOf
  <2>3. \A q \in Proc : Fills(q, s)' <=> Fills(q, s)
    BY Zenon DEF Loads, Moves, Fills
  <2>4. QED BY <1>1, <2>1, <2>2, <2>3, SlotKept, Zenon
<1>5. ASSUME NEW q \in Proc PROVE DropOf(q)'
  <2>1. DropOf(q)
    BY <1>1, Zenon DEF Swaps
  <2>2. \A k \in Frame, r \in Proc, u \in Page :
          Clears(q, k, r, u)' => Clears(q, k, r, u) /\ r # p /\ th'[q] = th[q]
    BY <1>1, <1>2, Zenon DEF Clears, Loads, Moves
  <2>3. \A r \in Proc \ {p} : spt'[r] = spt[r]
    BY Zenon DEF Loads
  <2>4. QED BY <2>1, <2>2, <2>3, Zenon DEF DropOf
<1>6. QED BY <1>1, <1>3, <1>4, <1>5, Zenon DEF Swaps

\* load() keeps what is said of contents: pages start as zeros or as the file.
LEMMA LoadContents ==
  ASSUME TypeOK, Owners, Contents, NEW p \in Proc, Loads(p)
  PROVE  Contents'
<1>1. panicked = "no" /\ UNCHANGED <<pte, ft, mem, swap, panicked, val, lost>>
  BY Zenon DEF Loads
<1>2. (\A k \in Frame : ft[k].pid # p) /\ (\A u \in Page : ~Present(p, u))
  BY EndedHasNone, Zenon DEF Loads
<1>3. ASSUME NEW q \in Proc, NEW u \in Page PROVE PageOf(q, u)'
  <2>1. PageOf(q, u)
    BY <1>1, Zenon DEF Contents
  <2>2. CASE q = p
    <3>1. ~Present(p, u)' /\ th'[p].pc = "user" /\ spt'[p][u].flag # "SWAP" /\ val'[p][u] = 0
      BY <1>1, <1>2, <2>1, <2>2, Zenon DEF Loads, Present, PageOf
    <3>2. QED BY <2>2, <3>1, Zenon DEF PageOf, HeldOf
  <2>3. CASE q # p
    <3>1. th'[q] = th[q] /\ pagedir'[q] = pagedir[q] /\ spt'[q] = spt[q]
      BY <2>3, Zenon DEF Loads, Moves
    <3>2. HeldOf(q, u) => HeldOf(q, u)'
      BY <1>1, <3>1, Zenon DEF HeldOf, Present
    <3>3. QED BY <1>1, <2>1, <3>1, <3>2, Zenon DEF PageOf, Kept
  <2>4. QED BY <2>2, <2>3, Zenon
<1>4. ASSUME NEW q \in Proc PROVE CopyOf(q)'
  <2>1. CopyOf(q)
    BY <1>1, Zenon DEF Contents
  <2>2. \A k \in Frame, r \in Proc, u \in Page :
          Clears(q, k, r, u)' => Clears(q, k, r, u) /\ r # p /\ th'[q] = th[q]
    BY <1>1, <1>2, Zenon DEF Clears, Loads, Moves
  <2>3. \A r \in Proc, u \in Page : r # p /\ Kept(r, u)' => Kept(r, u)
    BY <1>1, Zenon DEF Loads, Kept
  <2>4. QED BY <1>1, <2>1, <2>2, <2>3, Zenon DEF CopyOf
<1>5. QED BY <1>3, <1>4, Zenon DEF Contents

\* load() keeps the invariant.
LEMMA loadKeeps ==
  ASSUME VmInv, NEW p \in Proc, load(p)
  PROVE  VmInv'
<1>0. Consistent
  BY Zenon DEF VmInv
<1> USE <1>0
<1>1. TypeOK /\ Owners /\ PlaceOf(p) /\ TableTypes
  BY Zenon DEF Consistent, TypeOK, Places
<1>2. Loads(p) /\ TypeOK'
  BY <1>1, LoadFacts, Zenon
<1>3. UNCHANGED <<pte, ft, pool, mem, pf_sema, ft_lock, panicked>>
  BY <1>2, Zenon DEF Loads
<1>4. (\A k \in Frame : ft[k].pid # p) /\ (\A u \in Page : ~Present(p, u))
  BY <1>1, <1>2, EndedHasNone, Zenon DEF Loads
<1>5. \A q \in Proc : SameTake(q) /\ SameClear(q) /\ SamePin(q)
  BY <1>2, Zenon DEF Loads, Moves, SameTake, SameClear, SamePin
<1>6. Owners'
  <2>1. KeepsFrames
    BY <1>2, <1>3, <1>4, <1>5, Zenon DEF KeepsFrames, Loads
  <2>2. QED BY <1>1, <1>3, <1>5, <2>1, OwnersKept, Zenon
<1>7. Swaps' /\ Contents'
  BY <1>1, <1>2, LoadSwaps, LoadContents, Zenon DEF Consistent
<1>8. Steps(p)
  BY <1>2, <1>3, Zenon DEF Steps, Loads, Moves, Present
<1>9. PlaceOf(p)'
  BY <1>1, <1>2, <1>3, Zenon DEF PlaceOf, Busy, Loads
<1>10. QED BY <1>2, <1>6, <1>7, <1>8, <1>9, PlacesKept, Zenon DEF VmInv, Consistent

----------------------------------------------------------------------------
\* The handler takes frame m out of the pool.
Takes(p, m) ==
  /\ Moves(p) /\ th[p].pc = "falloc" /\ m \in pool
  /\ th'[p].pc = "install" /\ th'[p].frame = m /\ th'[p].page = th[p].page
  /\ pool' = pool \ {m}
  /\ UNCHANGED <<pagedir, pte, spt, ft, victim_idx, mem, swap, pf_sema, ft_lock, panicked, val, lost, leaked>>

\* It is the first of the pool.
LEMMA TakesFacts ==
  ASSUME TypeOK, NEW p \in Proc, falloc_get_frame(p), pool # {}
  PROVE  \E m \in Frame : Takes(p, m)
<1>1. ThreadTypes /\ pool \subseteq Frame /\ Frame \subseteq Nat
  BY DEF TypeOK, TableTypes, Frame
<1>2. PICK m \in pool : th' = [th EXCEPT ![p].pc = "install", ![p].frame = m] /\ pool' = pool \ {m}
  BY Zenon DEF falloc_get_frame, Least
<1>3. th[p].pc = "falloc"
  BY Zenon DEF falloc_get_frame, Runs
<1>4. th \in [Proc -> Thread] /\ th[p] \in Thread /\ m \in Frame
  BY <1>1, Zenon DEF ThreadTypes
<1>5. PICK r \in Thread : r = [th[p] EXCEPT !.pc = "install", !.frame = m]
  BY <1>4, Zenon DEF Thread, Point
<1>6. r.pc = "install" /\ r.page = th[p].page /\ r.frame = m
  BY <1>4, <1>5, Zenon DEF Thread
<1>7. Becomes(p, r)
  BY <1>2, <1>4, <1>5, Zenon DEF Becomes
<1>8. Moves(p) /\ th'[p] = r
  BY <1>1, <1>7, BecomesMoves, Zenon
<1>9. QED BY <1>2, <1>3, <1>4, <1>6, <1>8, Zenon DEF Takes, falloc_get_frame

\* The frame is nobody's: it was in the pool.
LEMMA TakesOwners ==
  ASSUME TypeOK, Owners, NEW p \in Proc, NEW m \in Frame, Takes(p, m)
  PROVE  Owners'
<1>1. UNCHANGED <<pagedir, pte, ft, mem, panicked>> /\ pool' = pool \ {m} /\ m \in pool
  BY Zenon DEF Takes
<1>2. ~Mapped(m)
  <2> SUFFICES ASSUME Mapped(m) PROVE FALSE
    BY Zenon
  <2>1. PICK q \in Proc, u \in Page : pte[q][u].frame = m
    BY Zenon DEF Mapped
  <2>2. m # -1 /\ MapOf(q, u)
    BY DEF Frame, Owners
  <2>3. QED BY <1>1, <2>1, <2>2, Zenon DEF MapOf, Present
<1>3. \A k \in Frame : Mapped(k)' <=> Mapped(k)
  BY <1>1, Zenon DEF Mapped
<1>4. \A k \in Frame : Taken(k)' <=> Taken(k) \/ k = m
  BY Zenon DEF Takes, Moves, Taken
<1>5. ASSUME NEW k \in Frame PROVE FrameOf(k)'
  <2>1. FrameOf(k)
    BY Zenon DEF Owners
  <2>2. QED BY <1>1, <1>2, <1>3, <1>4, <2>1, Zenon DEF FrameOf
<1>6. ASSUME NEW q \in Proc, NEW u \in Page PROVE MapOf(q, u)'
  <2>1. MapOf(q, u)
    BY Zenon DEF Owners
  <2>2. QED BY <1>1, <2>1, Zenon DEF MapOf, Present
<1>7. ASSUME NEW q \in Proc PROVE HandOf(q)'
  <2>1. CASE q = p
    BY <2>1, Zenon DEF Takes, HandOf, Taker, Clearer, Pinner, Ended
  <2>2. CASE q # p
    <3>1. HandOf(q) /\ th'[q] = th[q]
      BY <2>2, Zenon DEF Owners, Takes, Moves
    <3>2. Taker(q)' /\ Pinner(q)' /\ Ended(q)'
      BY <1>1, <3>1, Zenon DEF HandOf, Taker, Pinner, Ended, Present
    <3>3. Clearer(q)'
      BY <1>1, <1>3, <3>1, Zenon DEF HandOf, Clearer
    <3>4. QED BY <3>2, <3>3, Zenon DEF HandOf
  <2>3. QED BY <2>1, <2>2, Zenon
<1>8. QED BY <1>5, <1>6, <1>7, Zenon DEF Owners

\* A free frame is found.
LEMMA falloc_poolKeeps ==
  ASSUME VmInv, NEW p \in Proc, falloc_get_frame(p), pool # {}
  PROVE  VmInv'
<1>0. Consistent
  BY Zenon DEF VmInv
<1> USE <1>0
<1>1. TypeOK /\ Owners /\ PlaceOf(p)
  BY Zenon DEF Consistent, Places
<1>2. PICK m \in Frame : Takes(p, m)
  BY <1>1, TakesFacts, Zenon
<1>3. /\ UNCHANGED <<pagedir, pte, spt, ft, victim_idx, mem, swap, pf_sema, ft_lock, panicked, val, lost,
                     leaked>>
      /\ pool' \subseteq pool
  BY <1>2, Zenon DEF Takes
<1>4. TypeOK'
  <2>1. ThreadTypes' /\ TableTypes'
    BY <1>1, <1>2, <1>3, Zenon DEF TypeOK, ThreadTypes, TableTypes, Takes, Moves
  <2>2. QED BY <1>1, <1>3, <2>1, Zenon DEF TypeOK, SwapTypes, DataTypes
<1>5. KeepsTables
  BY <1>2, <1>3, Zenon DEF KeepsTables, Takes, Moves, SameClear
<1>6. Swaps' /\ Contents'
  <2>1. KeepsSwaps
    BY <1>3, <1>5, Zenon DEF KeepsSwaps, Present
  <2>2. KeepsContents
    BY <1>3, <1>5, Zenon DEF KeepsContents
  <2>3. QED BY <2>1, <2>2, SwapsKept, ContentsStay, Zenon DEF VmInv, Consistent
<1>7. Steps(p)
  BY <1>2, <1>3, Zenon DEF Steps, Takes, Moves, Present
<1>8. PlaceOf(p)'
  BY <1>1, <1>2, <1>3, Zenon DEF PlaceOf, Busy, Takes, Present
<1>9. QED BY <1>1, <1>2, <1>4, <1>6, <1>7, <1>8, TakesOwners, PlacesKept, Zenon DEF VmInv, Consistent

----------------------------------------------------------------------------
\* Page u of a process that has lost its page directory gives up frame k.
Frees(p, u, k) ==
  /\ th[p].pc = "destroy" /\ ft_lock = NULL /\ pte[p][u].frame = k
  /\ pool' = pool \cup {k} /\ mem'[k] = NULL /\ \A j \in Frame \ {k} : mem'[j] = mem[j]
  /\ ~Present(p, u)' /\ \A q \in Proc, v \in Page : q # p \/ v # u => pte'[q][v] = pte[q][v]
  /\ UNCHANGED <<pagedir, spt, ft, victim_idx, swap, pf_sema, ft_lock, th, panicked, val, lost, leaked>>

\* It is the first page that is present.
LEMMA FreesFacts ==
  ASSUME TypeOK, NEW p \in Proc, pagedir_destroy(p)
  PROVE  (\E u \in Page, k \in Frame : Frees(p, u, k)) /\ TypeOK'
<1>1. PICK u \in {v \in Page : Present(p, v)} :
        /\ falloc_free_frame(pte[p][u].frame) /\ pagedir_clear_page(p, u)
        /\ mem' = [mem EXCEPT ![pte[p][u].frame] = NULL]
  BY Zenon DEF pagedir_destroy, Least
<1>2. th[p].pc = "destroy" /\ ft_lock = NULL
  BY Zenon DEF pagedir_destroy, Runs
<1>3. u \in Page /\ Present(p, u)
  BY Zenon
<1>4. PICK k \in Frame : k = pte[p][u].frame
  BY <1>3 DEF TypeOK, TableTypes, Pte, Present
<1>5. /\ pool' = pool \cup {k} /\ Puts(p, u, NotPresent) /\ mem' = [mem EXCEPT ![k] = NULL]
      /\ th[p].pc = "destroy" /\ ft_lock = NULL
  BY <1>1, <1>2, <1>4, Zenon DEF falloc_free_frame, pagedir_clear_page, Puts
<1>6. UNCHANGED <<pagedir, spt, ft, victim_idx, swap, pf_sema, ft_lock, th, panicked, val, lost, leaked>>
  BY Zenon DEF pagedir_destroy
<1>7. PICK r \in Pte : r = NotPresent /\ r.frame = -1
  <2>1. NotPresent \in Pte /\ NotPresent.frame = -1
    BY Zenon DEF Pte, NotPresent
  <2>2. QED BY <2>1, Zenon
<1>8. /\ pte' \in [Proc -> [Page -> Pte]] /\ pte'[p][u] = r
      /\ \A q \in Proc, v \in Page : q # p \/ v # u => pte'[q][v] = pte[q][v]
  BY <1>3, <1>5, <1>7, PutsKeeps DEF TypeOK
<1>9. mem \in [Frame -> Content \cup {NULL}]
  BY Zenon DEF TypeOK, DataTypes
<1>10. /\ mem' \in [Frame -> Content \cup {NULL}]
       /\ mem'[k] = NULL /\ \A j \in Frame \ {k} : mem'[j] = mem[j]
  BY <1>5, <1>9, Zenon
<1>11. Frees(p, u, k)
  BY <1>4, <1>5, <1>6, <1>7, <1>8, <1>10, Zenon DEF Frees, Present
<1>12. ThreadTypes' /\ TableTypes'
  BY <1>5, <1>6, <1>8, Zenon DEF TypeOK, ThreadTypes, TableTypes
<1>13. SwapTypes' /\ DataTypes'
  BY <1>6, <1>10, Zenon DEF TypeOK, SwapTypes, DataTypes
<1>14. QED BY <1>3, <1>11, <1>12, <1>13, Zenon DEF TypeOK

\* The frame goes from its page to the pool.
LEMMA FreesOwners ==
  ASSUME TypeOK, Places, Owners, NEW p \in Proc, NEW u \in Page, NEW k \in Frame, Frees(p, u, k)
  PROVE  Owners'
<1>1. /\ UNCHANGED <<pagedir, ft, th, panicked>> /\ pool' = pool \cup {k} /\ pte[p][u].frame = k
      /\ th[p].pc = "destroy" /\ ft_lock = NULL
  BY Zenon DEF Frees
<1>2. k # -1 /\ Present(p, u)
  BY <1>1, NoFrame, Zenon DEF Present
<1>3. ft[k].pid = p /\ ft[k].upage = u /\ ~pagedir[p]
  <2>1. MapOf(p, u) /\ PlaceOf(p)
    BY Zenon DEF Owners, Places
  <2>2. QED BY <1>1, <1>2, <2>1, Zenon DEF MapOf, PlaceOf
<1>4. Mapped(k) /\ ~Taken(k)
  BY <1>1, <1>3, Zenon DEF Mapped, Owners, FrameOf
<1>5. ASSUME NEW j \in Frame PROVE FrameOf(j)'
  <2>1. FrameOf(j) /\ (Taken(j)' <=> Taken(j))
    BY <1>1, Zenon DEF Owners, Taken
  <2>2. CASE j = k
    <3>1. ~Mapped(k)'
      BY <1>1, <1>2, <1>3, Zenon DEF Mapped, Frees, Present, Frame
    <3>2. QED BY <1>1, <1>3, <1>4, <2>1, <2>2, <3>1, Zenon DEF FrameOf
  <2>3. CASE j # k
    <3>1. Mapped(j)' <=> Mapped(j)
      <4> SUFFICES ASSUME NEW q \in Proc, NEW v \in Page
                   PROVE  pte'[q][v].frame = j <=> pte[q][v].frame = j
        BY <1>1, MappedKept, Zenon
      <4>1. CASE q = p /\ v = u
        BY <1>1, <2>3, <4>1, NoFrame, Zenon DEF Frees, Present
      <4>2. CASE q # p \/ v # u
        BY <4>2, Zenon DEF Frees
      <4>3. QED BY <4>1, <4>2, Zenon
    <3>2. QED BY <1>1, <2>1, <2>3, <3>1, Zenon DEF FrameOf
  <2>4. QED BY <2>2, <2>3, Zenon
<1>6. ASSUME NEW q \in Proc, NEW v \in Page PROVE MapOf(q, v)'
  <2> SUFFICES ASSUME Present(q, v)', q # p \/ v # u PROVE MapOf(q, v)'
    BY Zenon DEF Frees, MapOf
  <2>1. pte'[q][v] = pte[q][v] /\ MapOf(q, v)
    BY Zenon DEF Frees, Owners
  <2>2. Present(q, v) /\ pte[q][v].frame \in Frame
    BY <2>1 DEF TypeOK, TableTypes, Pte, Present
  <2>3. pte[q][v].frame # k
    BY <1>3, <2>1, <2>2, Zenon DEF MapOf
  <2>4. mem'[pte[q][v].frame] = mem[pte[q][v].frame]
    BY <2>2, <2>3, Zenon DEF Frees
  <2>5. QED BY <1>1, <2>1, <2>2, <2>3, <2>4, Zenon DEF MapOf
<1>7. ASSUME NEW q \in Proc PROVE HandOf(q)'
  <2>1. HandOf(q) /\ th[q].pc # "clear"
    BY <1>1, VMAssumption, Zenon DEF Owners, Places, PlaceOf, VMAssumption
  <2>2. Taker(q)' /\ Clearer(q)' /\ Ended(q)'
    BY <1>1, <2>1, Zenon DEF HandOf, Taker, Clearer, Ended
  <2>3. Pinner(q)'
    <3> SUFFICES ASSUME q # p PROVE Pinner(q)'
      BY <1>1, Zenon DEF Pinner
    <3>1. \A v \in Page : pte'[q][v] = pte[q][v]
      BY Zenon DEF Frees
    <3>2. QED BY <1>1, <2>1, <3>1, Zenon DEF HandOf, Pinner, Present
  <2>4. QED BY <2>2, <2>3, Zenon DEF HandOf
<1>8. QED BY <1>5, <1>6, <1>7, Zenon DEF Owners

\* pagedir_destroy() keeps the invariant.
LEMMA pagedir_destroyKeeps ==
  ASSUME VmInv, NEW p \in Proc, pagedir_destroy(p)
  PROVE  VmInv'
<1>0. Consistent
  BY Zenon DEF VmInv
<1> USE <1>0
<1>1. TypeOK /\ Places /\ Owners /\ PlaceOf(p)
  BY Zenon DEF Consistent, Places
<1>2. TypeOK'
  BY <1>1, FreesFacts, Zenon
<1>3. PICK u \in Page, k \in Frame : Frees(p, u, k)
  BY <1>1, FreesFacts, Zenon
<1>4. UNCHANGED <<pagedir, spt, ft, swap, pf_sema, ft_lock, th, panicked, val, lost, leaked>>
  BY <1>3, Zenon DEF Frees
<1>5. ~pagedir[p] /\ th[p].pc = "destroy"
  BY <1>1, <1>3, Zenon DEF Frees, PlaceOf
<1>6. \A q \in Proc, v \in Page : Present(q, v)' => Present(q, v)
  BY <1>3, Zenon DEF Frees, Present
<1>7. KeepsTables
  BY <1>4, Zenon DEF KeepsTables, SameClear
<1>8. Swaps'
  <2>1. KeepsSwaps
    BY <1>3, <1>4, <1>5, <1>6, <1>7, Zenon DEF KeepsSwaps, Frees, Present
  <2>2. QED BY <2>1, SwapsKept, Zenon DEF VmInv, Consistent
<1>9. Contents'
  <2>1. ASSUME NEW q \in Proc, NEW v \in Page, pagedir'[q]
        PROVE  /\ pte'[q][v] = pte[q][v]
               /\ Present(q, v) => mem'[pte[q][v].frame] = mem[pte[q][v].frame]
    <3>1. q # p /\ pte'[q][v] = pte[q][v]
      BY <1>3, <1>4, <1>5, <2>1, Zenon DEF Frees
    <3>2. ASSUME Present(q, v) PROVE pte[q][v].frame \in Frame \ {k}
      <4>1. pte[q][v].frame \in Frame
        BY <1>1, <3>2, PresentFrame, Zenon DEF TypeOK
      <4>2. MapOf(q, v) /\ MapOf(p, u) /\ pte[p][u].frame = k /\ k # -1
        BY <1>1, <1>3, NoFrame, Zenon DEF Owners, Frees
      <4>3. QED BY <3>1, <3>2, <4>1, <4>2, Zenon DEF MapOf, Present
    <3>3. QED BY <1>3, <3>1, <3>2, Zenon DEF Frees
  <2>2. KeepsContents
    BY <1>4, <1>7, <2>1, Zenon DEF KeepsContents
  <2>3. QED BY <2>2, ContentsStay, Zenon DEF VmInv, Consistent
<1>10. Steps(p)
  BY <1>4, <1>6, Zenon DEF Steps
<1>11. PlaceOf(p)'
  BY <1>1, <1>4, <1>5, Zenon DEF PlaceOf, Busy
<1>12. QED BY <1>1, <1>2, <1>3, <1>8, <1>9, <1>10, <1>11, FreesOwners, PlacesKept, Zenon DEF VmInv, Consistent

----------------------------------------------------------------------------
\* What spt_free_process() and the end of the thread do.
Clean(p) ==
  /\ Moves(p) /\ th[p].pc = "destroy" /\ th'[p].pc = "none" /\ panicked = "no"
  /\ \A u \in Page : ~Present(p, u)
  /\ \A s \in SwapSlot : swap'[s] = IF \E u \in Page : Names(p, u, s) THEN NULL ELSE swap[s]
  /\ \A u \in Page : spt'[p][u].flag = "INVALID" /\ val'[p][u] = 0
  /\ \A q \in Proc \ {p} : spt'[q] = spt[q] /\ val'[q] = val[q]
  /\ \A k \in Frame : IF ft[k].pid = p THEN ft'[k].pid = NULL /\ ft'[k].pinned = ft[k].pinned
                      ELSE ft'[k] = ft[k]
  /\ \A q \in Proc \ {p}, u \in Page : <<q, u>> \in lost => <<q, u>> \in lost'
  /\ UNCHANGED <<pagedir, pte, victim_idx, pool, mem, pf_sema, ft_lock, panicked, leaked>>

\* The types after it.
LEMMA CleanTypes ==
  ASSUME TypeOK, NEW p \in Proc, spt_free_process(p), Moves(p)
  PROVE  TypeOK'
<1>1. UNCHANGED <<pagedir, pte, victim_idx, pool, mem, pf_sema, ft_lock, panicked, leaked>>
  BY Zenon DEF spt_free_process
<1>2. ft' \in [Frame -> FtEntry]
  <2>1. ft \in [Frame -> FtEntry]
    BY Zenon DEF TypeOK, TableTypes
  <2>2. \A r \in FtEntry : [r EXCEPT !.pid = NULL, !.upage = -1] \in FtEntry
    BY Zenon DEF FtEntry
  <2>3. QED BY <2>1, <2>2, Zenon DEF spt_free_process
<1>3. swap' \in [SwapSlot -> Content \cup {NULL}]
  BY Zenon DEF TypeOK, SwapTypes, spt_free_process, swap_in
<1>4. spt' \in [Proc -> [Page -> SptEntry]]
  <2>1. NoEntry \in SptEntry
    BY Zenon DEF NoEntry, SptEntry, Flag
  <2>2. [u \in Page |-> NoEntry] \in [Page -> SptEntry]
    BY <2>1, Zenon
  <2>3. QED BY <2>2, Zenon DEF TypeOK, SwapTypes, spt_free_process
<1>5. val' \in [Proc -> [Page -> {0, 1}]]
  BY Zenon DEF TypeOK, DataTypes, spt_free_process
<1>6. ThreadTypes' /\ TableTypes'
  BY <1>1, <1>2, Zenon DEF TypeOK, ThreadTypes, TableTypes, Moves
<1>7. SwapTypes' /\ DataTypes'
  BY <1>1, <1>3, <1>4, <1>5, Zenon DEF TypeOK, SwapTypes, DataTypes
<1>8. QED BY <1>6, <1>7, Zenon DEF TypeOK

\* spt_free_process() does that.
LEMMA CleanFacts ==
  ASSUME TypeOK, NEW p \in Proc, spt_free_process(p)
  PROVE  Clean(p) /\ TypeOK'
<1>1. /\ th[p].pc = "destroy" /\ panicked = "no" /\ \A u \in Page : ~Present(p, u)
      /\ UNCHANGED <<pagedir, pte, victim_idx, pool, mem, pf_sema, ft_lock, panicked, leaked>>
  BY Zenon DEF spt_free_process, Runs
<1>2. Moves(p) /\ th'[p].pc = "none"
  <2>1. Becomes(p, Out)
    BY Zenon DEF spt_free_process, Becomes
  <2>2. Out \in Thread /\ Out.pc = "none"
    BY Zenon DEF Out, Thread, Point
  <2>3. QED BY <2>1, <2>2, BecomesMoves, Zenon DEF TypeOK
<1>3. ASSUME NEW s \in SwapSlot
      PROVE  swap'[s] = IF \E u \in Page : Names(p, u, s) THEN NULL ELSE swap[s]
  <2>1. s \in Slots(p) <=> \E u \in Page : Names(p, u, s)
    BY Zenon DEF Slots, Names
  <2>2. swap'[s] = IF s \in Slots(p) THEN NULL ELSE swap[s]
    BY Zenon DEF spt_free_process, swap_in
  <2>3. QED BY <2>1, <2>2, Zenon
<1>4. (\A u \in Page : spt'[p][u].flag = "INVALID") /\ (\A q \in Proc \ {p} : spt'[q] = spt[q])
  BY Zenon DEF spt_free_process, TypeOK, SwapTypes, NoEntry
<1>5. (\A u \in Page : val'[p][u] = 0) /\ (\A q \in Proc \ {p} : val'[q] = val[q])
  BY Zenon DEF spt_free_process, TypeOK, DataTypes
<1>6. ASSUME NEW k \in Frame
      PROVE  IF ft[k].pid = p THEN ft'[k].pid = NULL /\ ft'[k].pinned = ft[k].pinned
             ELSE ft'[k] = ft[k]
  <2>1. ft[k] \in FtEntry
    BY Zenon DEF TypeOK, TableTypes
  <2>2. ft'[k] = IF ft[k].pid = p THEN [ft[k] EXCEPT !.pid = NULL, !.upage = -1] ELSE ft[k]
    BY Zenon DEF spt_free_process
  <2>3. QED BY <2>1, <2>2, Zenon DEF FtEntry
<1>7. \A q \in Proc \ {p}, u \in Page : <<q, u>> \in lost => <<q, u>> \in lost'
  BY Zenon DEF spt_free_process
<1>8. Clean(p)
  BY <1>1, <1>2, <1>3, <1>4, <1>5, <1>6, <1>7, Zenon DEF Clean
<1>9. QED BY <1>2, <1>8, CleanTypes, Zenon

\* The frames that the table names for it are free, or taken by the handler.
LEMMA CleanOwners ==
  ASSUME VmInv, NEW p \in Proc, Clean(p)
  PROVE  Owners'
<1>0. Consistent
  BY Zenon DEF VmInv
<1> USE <1>0
<1>1. UNCHANGED <<pagedir, pte, pool, mem, panicked>> /\ NULL \notin Proc /\ Owners /\ panicked = "no"
  BY VMAssumption, Zenon DEF Clean, VMAssumption, Consistent
<1>2. \A k \in Frame : Mapped(k)' <=> Mapped(k)
  <2> TAKE k \in Frame
  <2>1. CASE ft[k].pid = p
    <3>1. ft'[k].pid = NULL
      BY <2>1, Zenon DEF Clean
    <3>2. ~Mapped(k)'
      BY <1>1, <3>1, Zenon DEF Mapped
    <3>3. ASSUME Mapped(k) PROVE FALSE
      <4>1. Present(p, ft[k].upage) /\ ft[k].upage \in Page
        BY <2>1, <3>3, MappedPresent, Zenon DEF Mapped
      <4>2. QED BY <4>1, Zenon DEF Clean
    <3>4. QED BY <3>2, <3>3, Zenon
  <2>2. CASE ft[k].pid # p
    BY <1>1, <2>2, Zenon DEF Clean, Mapped
  <2>3. QED BY <2>1, <2>2, Zenon
<1>3. \A k \in Frame : Taken(k)' <=> Taken(k)
  BY Zenon DEF Clean, Moves, Taken
<1>4. \A k \in Frame : Mapped(k) => ft[k].pid # p
  <2> SUFFICES ASSUME NEW k \in Frame, Mapped(k), ft[k].pid = p PROVE FALSE
    BY Zenon
  <2>1. Present(p, ft[k].upage) /\ ft[k].upage \in Page
    BY MappedPresent, Zenon DEF Mapped
  <2>2. QED BY <2>1, Zenon DEF Clean
<1>5. ASSUME NEW k \in Frame PROVE FrameOf(k)'
  <2>1. FrameOf(k)
    BY <1>1, Zenon DEF Owners
  <2>2. ft'[k].pid = NULL \/ ft'[k] = ft[k]
    BY Zenon DEF Clean
  <2>3. QED BY <1>1, <1>2, <1>3, <2>1, <2>2, Zenon DEF FrameOf
<1>6. ASSUME NEW q \in Proc, NEW u \in Page PROVE MapOf(q, u)'
  <2> SUFFICES ASSUME Present(q, u)' PROVE MapOf(q, u)'
    BY Zenon DEF MapOf
  <2>1. MapOf(q, u) /\ Present(q, u) /\ q # p
    BY <1>1, Zenon DEF Owners, Present, Clean
  <2>2. pte[q][u].frame \in Frame
    BY <2>1 DEF Consistent, TypeOK, TableTypes, Pte, Present
  <2>3. ft'[pte[q][u].frame] = ft[pte[q][u].frame]
    BY <2>1, <2>2, Zenon DEF Clean, MapOf
  <2>4. QED BY <1>1, <2>1, <2>3, Zenon DEF MapOf
<1>7. ASSUME NEW q \in Proc PROVE HandOf(q)'
  <2>1. CASE q = p
    BY <1>1, <2>1, Zenon DEF Clean, HandOf, Taker, Clearer, Pinner, Ended
  <2>2. CASE q # p
    <3>1. HandOf(q) /\ th'[q] = th[q]
      BY <1>1, <2>2, Zenon DEF Owners, Clean, Moves
    <3>2. Taker(q)'
      BY <3>1, Zenon DEF HandOf, Taker
    <3>3. Ended(q)'
      BY <1>1, <3>1, Zenon DEF HandOf, Ended, Clean
    <3>4. Pinner(q)'
      <4>1. \A k \in Frame : ft[k].pinned => ft'[k].pinned
        BY Zenon DEF Clean
      <4>2. QED BY <1>1, <3>1, <4>1, Zenon DEF HandOf, Pinner, Present
    <3>5. Clearer(q)'
      <4>1. \A k \in Frame : Mapped(k) => ft'[k] = ft[k]
        BY <1>4, Zenon DEF Clean
      <4>2. QED BY <1>1, <1>2, <3>1, <4>1, Zenon DEF HandOf, Clearer
    <3>6. QED BY <3>2, <3>3, <3>4, <3>5, Zenon DEF HandOf
  <2>3. QED BY <2>1, <2>2, Zenon
<1>8. QED BY <1>5, <1>6, <1>7, Zenon DEF Owners

\* An eviction goes on with the page it goes on with.
LEMMA CleanClears ==
  ASSUME VmInv, NEW p \in Proc, Clean(p), NEW q \in Proc, NEW k \in Frame, NEW r \in Proc, NEW u \in Page,
         Clears(q, k, r, u)'
  PROVE  Clears(q, k, r, u) /\ r # p /\ q # p /\ th'[q] = th[q]
<1>1. q # p /\ th'[q] = th[q]
  BY Zenon DEF Clears, Clean, Moves
<1>2. ft'[k] = ft[k] /\ r # p
  BY VMAssumption, Zenon DEF Clears, Clean, VMAssumption
<1>3. QED BY <1>1, <1>2, Zenon DEF Clears

\* Only the slots that it names are freed.
LEMMA CleanSwaps ==
  ASSUME VmInv, NEW p \in Proc, Clean(p)
  PROVE  Swaps'
<1>0. Consistent
  BY Zenon DEF VmInv
<1> USE <1>0
<1>1. UNCHANGED <<pagedir, pte, panicked, leaked>> /\ panicked = "no" /\ Swaps
  BY Zenon DEF Clean, Consistent
<1>2. \A q \in Proc, u \in Page, s \in SwapSlot : Names(q, u, s)' <=> Names(q, u, s) /\ q # p
  BY Zenon DEF Clean, Names
<1>3. \A q \in Proc, s \in SwapSlot : Fills(q, s)' <=> Fills(q, s)
  BY Zenon DEF Clean, Moves, Fills
<1>4. ASSUME NEW s \in SwapSlot PROVE SlotOf(s)'
  <2>1. SlotOf(s) /\ swap'[s] = IF \E u \in Page : Names(p, u, s) THEN NULL ELSE swap[s]
    BY <1>1, Zenon DEF Swaps, Clean
  <2>2. CASE \E u \in Page : Names(p, u, s)
    <3>1. \A q \in Proc, v \in Page : ~Names(q, v, s)'
      BY <1>2, <2>1, <2>2, Zenon DEF SlotOf
    <3>2. s \notin leaked /\ \A q \in Proc : ~Fills(q, s)
      BY <2>1, <2>2, Zenon DEF SlotOf
    <3>3. QED BY <1>1, <1>3, <2>1, <2>2, <3>1, <3>2, Zenon DEF SlotOf
  <2>3. CASE ~ \E u \in Page : Names(p, u, s)
    <3>1. \A q \in Proc, v \in Page : Names(q, v, s)' <=> Names(q, v, s)
      BY <1>2, <2>3, Zenon
    <3>2. QED BY <1>1, <1>3, <2>1, <2>3, <3>1, SlotKept, Zenon
  <2>4. QED BY <2>2, <2>3, Zenon
<1>5. ASSUME NEW q \in Proc, NEW u \in Page PROVE EntryOf(q, u)'
  <2>1. CASE q = p
    <3>1. ~Present(p, u)' /\ spt'[p][u].flag = "INVALID"
      BY <1>1, Zenon DEF Clean, Present
    <3>2. QED BY <2>1, <3>1, Zenon DEF EntryOf
  <2>2. CASE q # p
    <3>1. EntryOf(q, u) /\ th'[q] = th[q] /\ spt'[q] = spt[q]
      BY <1>1, <2>2, Zenon DEF Swaps, Clean, Moves
    <3>2. ASSUME spt[q][u].flag = "SWAP" PROVE swap'[spt[q][u].ref] # NULL
      <4>1. PICK s \in SwapSlot : s = spt[q][u].ref /\ swap[s] # NULL
        BY <3>1, <3>2, Zenon DEF EntryOf
      <4>2. Names(q, u, s) /\ SlotOf(s)
        BY <1>1, <3>2, <4>1, Zenon DEF Names, Swaps
      <4>3. \A v \in Page : ~Names(p, v, s)
        BY <2>2, <4>2, Zenon DEF SlotOf
      <4>4. QED BY <4>1, <4>3, Zenon DEF Clean
    <3>3. QED BY <1>1, <3>1, <3>2, Zenon DEF EntryOf, Present
  <2>3. QED BY <2>1, <2>2, Zenon
<1>6. ASSUME NEW q \in Proc PROVE DropOf(q)'
  <2>1. DropOf(q) /\ \A r \in Proc \ {p} : spt'[r] = spt[r]
    BY <1>1, Zenon DEF Swaps, Clean
  <2>2. \A k \in Frame, r \in Proc, u \in Page :
          Clears(q, k, r, u)' => Clears(q, k, r, u) /\ r # p /\ th'[q] = th[q]
    BY CleanClears, Zenon
  <2>3. QED BY <2>1, <2>2, Zenon DEF DropOf
<1>7. QED BY <1>1, <1>4, <1>5, <1>6, Zenon DEF Swaps

\* No other page and no copy is touched.
LEMMA CleanContents ==
  ASSUME VmInv, NEW p \in Proc, Clean(p)
  PROVE  Contents'
<1>0. Consistent
  BY Zenon DEF VmInv
<1> USE <1>0
<1>1. UNCHANGED <<pagedir, pte, mem, panicked>> /\ panicked = "no" /\ Swaps /\ Contents
  BY Zenon DEF Clean, Consistent
<1>2. \A q \in Proc \ {p}, u \in Page : Kept(q, u)' => Kept(q, u)
  BY <1>1, Zenon DEF Clean, Kept
<1>3. ASSUME NEW q \in Proc, NEW u \in Page PROVE PageOf(q, u)'
  <2>1. CASE q = p
    <3>1. ~pagedir'[p] /\ val'[p][u] = 0
      BY <1>1, Zenon DEF Consistent, Places, PlaceOf, Clean
    <3>2. QED BY <2>1, <3>1, Zenon DEF PageOf, Kept
  <2>2. CASE q # p
    <3>1. PageOf(q, u) /\ th'[q] = th[q] /\ spt'[q] = spt[q] /\ val'[q] = val[q]
      BY <1>1, <2>2, Zenon DEF Contents, Clean, Moves
    <3>2. ASSUME spt[q][u].flag = "SWAP" PROVE swap'[spt[q][u].ref] = swap[spt[q][u].ref]
      <4>1. PICK s \in SwapSlot : s = spt[q][u].ref
        BY <1>1, <3>2, Zenon DEF Swaps, EntryOf
      <4>2. Names(q, u, s) /\ SlotOf(s)
        BY <1>1, <3>2, <4>1, Zenon DEF Names, Swaps
      <4>3. \A v \in Page : ~Names(p, v, s)
        BY <2>2, <4>2, Zenon DEF SlotOf
      <4>4. QED BY <4>1, <4>3, Zenon DEF Clean
    <3>3. HeldOf(q, u) => HeldOf(q, u)'
      BY <1>1, <3>1, <3>2, Zenon DEF HeldOf, Present
    <3>4. QED BY <1>2, <2>2, <3>1, <3>3, Zenon DEF PageOf
  <2>3. QED BY <2>1, <2>2, Zenon
<1>4. ASSUME NEW q \in Proc PROVE CopyOf(q)'
  <2> SUFFICES ASSUME NEW k \in Frame, NEW r \in Proc, NEW u \in Page, Clears(q, k, r, u)', Kept(r, u)'
      PROVE  IF th'[q].slot = -1 THEN val'[r][u] = 0 ELSE swap'[th'[q].slot] = <<r, u, val'[r][u]>>
    BY Zenon DEF CopyOf
  <2>1. Clears(q, k, r, u) /\ r # p /\ th'[q] = th[q]
    BY CleanClears, Zenon
  <2>2. CopyOf(q) /\ Kept(r, u) /\ val'[r] = val[r]
    BY <1>1, <1>2, <2>1, Zenon DEF Contents, Clean
  <2>3. ASSUME th[q].slot # -1 PROVE swap'[th[q].slot] = swap[th[q].slot]
    <3>1. PICK s \in SwapSlot : s = th[q].slot
      BY <2>3, Zenon DEF Consistent, TypeOK, ThreadTypes, Thread
    <3>2. Fills(q, s) /\ SlotOf(s)
      BY <1>1, <2>1, <3>1, Zenon DEF Fills, Clears, Swaps
    <3>3. \A v \in Page : ~Names(p, v, s)
      BY <3>2, Zenon DEF SlotOf
    <3>4. QED BY <3>1, <3>3, Zenon DEF Clean
  <2>4. IF th[q].slot = -1 THEN val[r][u] = 0 ELSE swap[th[q].slot] = <<r, u, val[r][u]>>
    BY <2>1, <2>2, Zenon DEF CopyOf
  <2>5. QED BY <2>1, <2>2, <2>3, <2>4, Zenon
<1>5. QED BY <1>3, <1>4, Zenon DEF Contents

\* spt_free_process() keeps the invariant.
LEMMA spt_freeKeeps ==
  ASSUME VmInv, NEW p \in Proc, spt_free_process(p)
  PROVE  VmInv'
<1>0. Consistent
  BY Zenon DEF VmInv
<1> USE <1>0
<1>1. Clean(p) /\ TypeOK'
  BY CleanFacts, Zenon DEF Consistent
<1>2. Steps(p)
  BY <1>1, Zenon DEF Steps, Clean, Moves, Present
<1>3. PlaceOf(p)'
  BY <1>1, Zenon DEF Consistent, Places, PlaceOf, Busy, Clean
<1>4. QED BY <1>1, <1>2, <1>3, CleanOwners, CleanSwaps, CleanContents, PlacesKept, Zenon DEF VmInv, Consistent
=============================================================================
