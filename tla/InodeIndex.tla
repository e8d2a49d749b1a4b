----------------------------- MODULE InodeIndex -----------------------------
(***************************************************************************)
(* The block index of a file (filesys/inode.c) as pure operators: how      *)
(* inode_create, inode_grow and inode_free_all build, lengthen and take    *)
(* down the tree of sectors of a file, and how byte_to_sector walks it.    *)
(*                                                                         *)
(* A computation is carried by a record st of the shared state it changes  *)
(* and of the C locals its callees report through pointers:                *)
(*   free   free_map, as the set of free sectors                           *)
(*   disk   contents of the sectors, seen through the buffer cache         *)
(*   new    the sector handed out last         cur   *cur_sectorsp         *)
(*   ok     success                            panic an ASSERT failed      *)
(* calloc is taken never to return NULL here.  parent and magic are left   *)
(* out of struct inode_disk.                                               *)
(***************************************************************************)
EXTENDS Integers, FiniteSets, FiniteSetsExt

CONSTANTS DiskSize,               \* sectors of the file system device
          BLOCK_SECTOR_SIZE, TOTAL_SECTOR_CNT,
          DIRECT_SECTOR_CNT, INDIRECT_SECTOR_CNT, FILESYS_LIMIT_SECTORS

ASSUME IndexAssumption ==
  /\ DiskSize \in Nat \ {0}
  /\ BLOCK_SECTOR_SIZE \in Nat \ {0}
  /\ DIRECT_SECTOR_CNT \in Nat
  /\ INDIRECT_SECTOR_CNT \in Nat
  /\ TOTAL_SECTOR_CNT \in Nat
  /\ DIRECT_SECTOR_CNT + INDIRECT_SECTOR_CNT <= TOTAL_SECTOR_CNT
  /\ FILESYS_LIMIT_SECTORS \in Nat

Sector == 0 .. DiskSize - 1
Slot == 0 .. TOTAL_SECTOR_CNT - 1

\* A sector holds a struct inode_disk or data, so a block has the fields of
\* the one and the bytes of the other.  A data byte is <<inode, position>>
\* once written, <<0, 0>> stands for a byte that is zero.
zeros == [sector |-> [k \in Slot |-> 0], length |-> 0,
          bytes |-> [i \in 0 .. BLOCK_SECTOR_SIZE - 1 |-> <<0, 0>>]]

\* calloc'ed struct inode_disk.
NewBlock == zeros

Least(a, b) == IF a < b THEN a ELSE b

bytes_to_sectors(size) ==
  (size + BLOCK_SECTOR_SIZE - 1) \div BLOCK_SECTOR_SIZE

\* Bytes below a block: 0 is a data sector, 1 an indirect block (filled by
\* inode_create_direct), 2 a doubly indirect one (inode_create_indirect).
Span(level) ==
  CASE level = 0 -> BLOCK_SECTOR_SIZE
    [] level = 1 -> TOTAL_SECTOR_CNT * BLOCK_SECTOR_SIZE
    [] level = 2 -> TOTAL_SECTOR_CNT * TOTAL_SECTOR_CNT * BLOCK_SECTOR_SIZE

\* What the k-th slot of an inode points to.
SlotLevel(k) ==
  CASE k < DIRECT_SECTOR_CNT -> 0
    [] k >= DIRECT_SECTOR_CNT /\ k < DIRECT_SECTOR_CNT + INDIRECT_SECTOR_CNT -> 1
    [] OTHER -> 2

DirectBytes == DIRECT_SECTOR_CNT * BLOCK_SECTOR_SIZE
IndirectBytes == INDIRECT_SECTOR_CNT * Span(1)

\* Op(v), with v evaluated once.
With(v, Op(_)) == CHOOSE r \in {Op(x) : x \in {v}} : TRUE

-----------------------------------------------------------------------------
(* The free map.  Both functions run under free_map_lock.                  *)

Start(free, disk) ==
  [free |-> free, disk |-> disk, new |-> 0, cur |-> 0, ok |-> TRUE, panic |-> FALSE]

free_map_allocate(st) ==
  IF st.free = {}
  THEN [st EXCEPT !.ok = FALSE]
  ELSE [st EXCEPT !.new = Min(st.free), !.free = @ \ {Min(st.free)}]

free_map_release(st, s) ==
  IF s \in st.free THEN [st EXCEPT !.panic = TRUE]
                   ELSE [st EXCEPT !.free = @ \cup {s}]

ReleaseAll(st, S) ==
  IF S \cap st.free # {} THEN [st EXCEPT !.panic = TRUE]
                         ELSE [st EXCEPT !.free = @ \cup S]

-----------------------------------------------------------------------------
(* Creation.                                                               *)

RECURSIVE Fill(_, _, _, _, _), Subtree(_, _, _)

\* The loop of inode_create (level 3), inode_create_indirect (level 2) and
\* inode_create_direct (level 1): slot after slot until left bytes are there.
Fill(st, blk, k, left, level) ==
  LET child == IF level = 3 THEN SlotLevel(k) ELSE level - 1
      next  == Least(left, Span(child))
  IN  IF left <= 0 \/ k >= TOTAL_SECTOR_CNT \/ st.cur >= FILESYS_LIMIT_SECTORS
      THEN [st |-> st, blk |-> blk]
      ELSE With(Subtree(st, child, next), LAMBDA st1 :
             IF ~st1.ok
             THEN [st |-> st1, blk |-> blk]
             ELSE With([blk EXCEPT !.sector[k] = st1.new, !.length = @ + next],
                    LAMBDA blk1 : Fill(st1, blk1, k + 1, left - next, level)))

\* Allocates a sector and makes it a data sector of zeros or an index block
\* over length bytes.  A block that cannot be completed is released, what was
\* allocated below it is not.
Subtree(st, level, length) ==
  With(free_map_allocate(st), LAMBDA a :
    IF ~a.ok THEN a
    ELSE IF level = 0
    THEN [a EXCEPT !.disk[a.new] = zeros, !.cur = @ + 1]
    ELSE With(Fill([a EXCEPT !.cur = @ + 1], NewBlock, 0, length, level), LAMBDA r :
           IF r.st.ok THEN [r.st EXCEPT !.disk[a.new] = r.blk, !.new = a.new]
                      ELSE free_map_release(r.st, a.new)))

inode_create(st, sector, length) ==
  With(Fill([st EXCEPT !.cur = 1], NewBlock, 0, length, 3), LAMBDA r :
    IF r.st.ok THEN [r.st EXCEPT !.disk[sector] = r.blk] ELSE r.st)

-----------------------------------------------------------------------------
(* Lookup and removal.                                                     *)

byte_to_sector(disk, data, pos) ==
  LET i == pos \div BLOCK_SECTOR_SIZE
      j == i - DIRECT_SECTOR_CNT
      k == j - INDIRECT_SECTOR_CNT * TOTAL_SECTOR_CNT
      outer == disk[data.sector[DIRECT_SECTOR_CNT + INDIRECT_SECTOR_CNT
                       + k \div (TOTAL_SECTOR_CNT * TOTAL_SECTOR_CNT)]]
      inner == disk[outer.sector[(k \div TOTAL_SECTOR_CNT) % TOTAL_SECTOR_CNT]]
  IN  CASE pos >= data.length -> -1
        [] pos < data.length /\ j < 0 -> data.sector[i]
        [] pos < data.length /\ j >= 0 /\ k < 0 ->
             disk[data.sector[DIRECT_SECTOR_CNT + j \div TOTAL_SECTOR_CNT]]
               .sector[j % TOTAL_SECTOR_CNT]
        [] pos < data.length /\ k >= 0 -> inner.sector[k % TOTAL_SECTOR_CNT]

\* Mutant: the indirect blocks themselves are not given back.
inode_free_all_KeepsIndirect(st, sector) ==
  LET data == st.disk[sector]
      n    == bytes_to_sectors(data.length)
      m    == n - DIRECT_SECTOR_CNT
      blocks == {i \in 0 .. TOTAL_SECTOR_CNT - DIRECT_SECTOR_CNT - 1 :
                   i * TOTAL_SECTOR_CNT < m}
  IN  ReleaseAll(st, {sector}
        \cup {data.sector[i] : i \in 0 .. Least(n, DIRECT_SECTOR_CNT) - 1}
        \cup UNION {{st.disk[data.sector[DIRECT_SECTOR_CNT + i]].sector[j] :
                j \in 0 .. Least(TOTAL_SECTOR_CNT, m - i * TOTAL_SECTOR_CNT) - 1} :
                i \in blocks})

\* The second loop is bounded by DIRECT_SECTOR_CNT + INDIRECT_SECTOR_CNT, so
\* it takes the doubly indirect block for one more indirect block: the blocks
\* below it are released as if they were data, the data below them never.
\* (Past TOTAL_SECTOR_CNT sectors in that block the loop would leave the
\* array; the sizes of the runs stay below that.)
inode_free_all(st, sector) ==
  LET data == st.disk[sector]
      n    == bytes_to_sectors(data.length)
      m    == n - DIRECT_SECTOR_CNT
      blocks == {i \in 0 .. TOTAL_SECTOR_CNT - DIRECT_SECTOR_CNT - 1 :
                   i * TOTAL_SECTOR_CNT < m}
  IN  ReleaseAll(st, {sector}
        \cup {data.sector[i] : i \in 0 .. Least(n, DIRECT_SECTOR_CNT) - 1}
        \cup {data.sector[DIRECT_SECTOR_CNT + i] : i \in blocks}
        \cup UNION {{st.disk[data.sector[DIRECT_SECTOR_CNT + i]].sector[j] :
                j \in 0 .. Least(TOTAL_SECTOR_CNT, m - i * TOTAL_SECTOR_CNT) - 1} :
                i \in blocks})

-----------------------------------------------------------------------------
(* Growth.  g is st with the inode's data, length_left and whether the     *)
(* loop of inode_grow spins.                                               *)

\* inode->data.length and length_left move together.
Lengthen(g, n) == [g EXCEPT !.data.length = @ + n, !.left = @ - n]

\* inode_grow counts an index block once more than inode_create does.
Counted(g, level) == [g EXCEPT !.cur = IF level = 0 THEN @ ELSE @ + 1]

RECURSIVE ExtendBlock(_, _, _), GrowLoop(_)

\* The inner while loops: append subtrees of the given level to a block.
ExtendBlock(g, blk, level) ==
  LET next == Least(g.left, Span(level))
  IN  IF \/ g.left <= 0
         \/ g.cur >= FILESYS_LIMIT_SECTORS
         \/ blk.length >= TOTAL_SECTOR_CNT * Span(level)
      THEN [st |-> g, blk |-> blk]
      ELSE With(Subtree(Counted(g, level), level, next), LAMBDA st1 :
             IF ~st1.ok
             THEN [st |-> st1, blk |-> blk]
             ELSE With([st |-> Lengthen(st1, next),
                        blk |-> [blk EXCEPT !.sector[blk.length \div Span(level)] = st1.new,
                                            !.length = @ + next]],
                    LAMBDA r : ExtendBlock(r.st, r.blk, level)))

\* Fills the last sector of an indirect block, then appends data sectors to
\* it; the block is written back only if every allocation succeeded.
AlignBlock(g, sector) ==
  LET blk  == g.disk[sector]
      gap  == (BLOCK_SECTOR_SIZE - (blk.length % BLOCK_SECTOR_SIZE)) % BLOCK_SECTOR_SIZE
      next == Least(g.left, gap)
  IN  With(ExtendBlock(Lengthen(g, next), [blk EXCEPT !.length = @ + next], 0),
        LAMBDA r : IF r.st.ok THEN [r.st EXCEPT !.disk[sector] = r.blk] ELSE r.st)

\* Hangs a new subtree into a slot of the inode.
AppendSlot(g, k, level) ==
  LET next == Least(g.left, Span(level))
  IN  With(Subtree(Counted(g, level), level, next), LAMBDA st1 :
        IF st1.ok THEN Lengthen([st1 EXCEPT !.data.sector[k] = st1.new], next) ELSE st1)

GrowDirect(g) ==
  LET used == g.data.length % BLOCK_SECTOR_SIZE
  IN  IF used # 0
      THEN Lengthen(g, Least(g.left, BLOCK_SECTOR_SIZE - used))
      ELSE AppendSlot(g, g.data.length \div BLOCK_SECTOR_SIZE, 0)

GrowIndirect(g) ==
  LET rest == g.data.length - DirectBytes
      k    == DIRECT_SECTOR_CNT + rest \div Span(1)
  IN  IF rest % Span(1) # 0
      THEN AlignBlock(g, g.data.sector[k])
      ELSE AppendSlot(g, k, 1)

\* When the block over the data (disk_inode2) has room, only that block is
\* written back: the new length of the doubly indirect block is dropped.
GrowDoubly(g) ==
  LET rest == g.data.length - DirectBytes - IndirectBytes
      k    == DIRECT_SECTOR_CNT + INDIRECT_SECTOR_CNT + rest \div Span(2)
      blk  == g.disk[g.data.sector[k]]
  IN  CASE rest % Span(2) = 0 -> AppendSlot(g, k, 2)
        [] rest % Span(2) # 0 /\ blk.length % Span(1) # 0 ->
             AlignBlock(g, blk.sector[blk.length \div Span(1)])
        [] rest % Span(2) # 0 /\ blk.length % Span(1) = 0 ->
             With(ExtendBlock(g, blk, 1), LAMBDA r :
               IF r.st.ok THEN [r.st EXCEPT !.disk[g.data.sector[k]] = r.blk] ELSE r.st)

\* A turn of the loop that neither lengthens the file nor allocates a sector
\* leaves everything it reads as it was, and is repeated for ever.
GrowLoop(g) ==
  IF g.left <= 0 \/ g.cur >= FILESYS_LIMIT_SECTORS \/ ~g.ok
  THEN g
  ELSE With(CASE g.data.length < DirectBytes -> GrowDirect(g)
              [] /\ g.data.length >= DirectBytes
                 /\ g.data.length < DirectBytes + IndirectBytes -> GrowIndirect(g)
              [] OTHER -> GrowDoubly(g),
         LAMBDA h : IF h.ok /\ h.left = g.left /\ h.cur = g.cur
                    THEN [h EXCEPT !.spins = TRUE]
                    ELSE GrowLoop(h))

\* Sectors of a file of that length, as inode_grow counts them against
\* FILESYS_LIMIT_SECTORS.  The loop over the indirect blocks is bounded by
\* DIRECT_SECTOR_CNT + INDIRECT_SECTOR_CNT here too.
length_to_total_sectors(length) ==
  LET n  == bytes_to_sectors(length)
      d  == Least(n, DIRECT_SECTOR_CNT)
      i  == Least(n - d, (DIRECT_SECTOR_CNT + INDIRECT_SECTOR_CNT) * TOTAL_SECTOR_CNT)
      up(a, b) == (a + b - 1) \div b
  IN  1 + n + up(i, TOTAL_SECTOR_CNT) + up(n - d - i, TOTAL_SECTOR_CNT)
        + up(n - d - i, TOTAL_SECTOR_CNT * TOTAL_SECTOR_CNT)

GrowStart(st, data, length) ==
  [free |-> st.free, disk |-> st.disk, new |-> 0, panic |-> st.panic,
   cur |-> length_to_total_sectors(data.length), ok |-> TRUE,
   data |-> data, left |-> length, spins |-> FALSE]

inode_grow(st, sector, data, length) ==
  With(GrowLoop(GrowStart(st, data, length)), LAMBDA g :
    IF g.ok /\ ~g.spins THEN [g EXCEPT !.disk[sector] = g.data] ELSE g)

-----------------------------------------------------------------------------
(* Reference: the sectors of the tree below an inode, by its shape.        *)

BlockSectors(disk, sector, n, level) ==
  LET RECURSIVE Below(_, _, _)
      Below(s, m, l) ==
        {s} \cup (IF l = 0 THEN {} ELSE
          LET per == Span(l - 1) \div BLOCK_SECTOR_SIZE
          IN  UNION {Below(disk[s].sector[k], m - k * per, l - 1) :
                       k \in {j \in Slot : j * per < m}})
  IN  Below(sector, n, level)

\* Data sectors before the k-th slot of an inode.
SectorsBefore(k) ==
  LET d == Least(k, DIRECT_SECTOR_CNT)
      i == Least(k - d, INDIRECT_SECTOR_CNT)
  IN  d + i * TOTAL_SECTOR_CNT + (k - d - i) * TOTAL_SECTOR_CNT * TOTAL_SECTOR_CNT

\* Sectors of the file whose inode has the given contents, the inode's own
\* sector excepted.
FileSectors(disk, data) ==
  LET n == bytes_to_sectors(data.length)
  IN  UNION {BlockSectors(disk, data.sector[k], n - SectorsBefore(k), SlotLevel(k)) :
               k \in {j \in Slot : SectorsBefore(j) < n}}
=============================================================================
