------------------------------- MODULE Inode --------------------------------
(***************************************************************************)
(* Files of the file system: filesys_create/open/remove on the names of    *)
(* one directory, struct file, and the in-memory inodes with inode_open,   *)
(* inode_close, inode_remove, inode_read_at and inode_write_at, run by     *)
(* several threads.  The block index is module InodeIndex.                 *)
(*                                                                         *)
(* A step is what runs between two points where the thread may lose the    *)
(* processor with an effect on others: acquiring grow_lock, releasing it,  *)
(* one access to a sector through the buffer cache.  Directory operations  *)
(* run under the directory's lock.  inode_grow and inode_free_all are one  *)
(* step: each of their allocations is atomic under free_map_lock, and the  *)
(* index they change is reached by nobody else meanwhile.                  *)
(***************************************************************************)
EXTENDS InodeIndex

CONSTANTS Thread, Name,
          InitialSizes,   \* initial_size of create
          Offsets, Sizes, \* OFFSET and SIZE of reads and writes
          MaxOps          \* bound: system calls made in all

VARIABLES
  free_map,     \* set of free sectors
  disk,         \* [Sector -> block], through the buffer cache
  dir,          \* the directory: [Name -> Sector], 0 for no entry
  open_inodes,  \* [Sector -> struct inode], open_cnt = 0 for not in the list
  fd,           \* [Thread -> struct file], inode = 0 for none
  th,           \* [Thread -> where the system call of the thread stands]
  panicked,     \* the kernel stopped in PANIC or ASSERT
  hung,         \* some thread spins in inode_grow
  ops,          \* system calls made
  hole,         \* history: [Sector -> positions of the file never written]
  leaked,       \* history: sectors a failed create left allocated
  misread       \* history: a read returned a byte the file never held

vars == <<free_map, disk, dir, open_inodes, fd, th, panicked, hung, ops,
          hole, leaked, misread>>

FREE_MAP_SECTOR == 0
ROOT_DIR_SECTOR == 1

NoInode == [open_cnt |-> 0, removed |-> FALSE, deny_write_cnt |-> 0,
            grow_lock |-> FALSE, data |-> NewBlock]

Idle == [pc |-> "idle", name |-> "", inode |-> 0, offset |-> 0, size |-> 0,
         locked |-> FALSE, sector |-> 0, chunk |-> 0]

NoFile == [inode |-> 0, deny_write |-> FALSE]

Init ==
  /\ free_map = Sector \ {FREE_MAP_SECTOR, ROOT_DIR_SECTOR}
  /\ disk = [s \in Sector |-> zeros]
  /\ dir = [n \in Name |-> 0]
  /\ open_inodes = [s \in Sector |-> NoInode]
  /\ fd = [t \in Thread |-> NoFile]
  /\ th = [t \in Thread |-> Idle]
  /\ panicked = "no"
  /\ hung = FALSE
  /\ ops = 0
  /\ hole = [s \in Sector |-> {}]
  /\ leaked = {}
  /\ misread = FALSE

\* A system call starts.
Call(t) == /\ panicked = "no"
           /\ th[t].pc = "idle"
           /\ ops < MaxOps
           /\ ops' = ops + 1

Runs(t, pc) == panicked = "no" /\ th[t].pc = pc /\ ops' = ops

Return(t) == th' = [th EXCEPT ![t] = Idle]

-----------------------------------------------------------------------------
(* Creating a file.                                                        *)

\* filesys_create up to the directory's lock: a sector for the inode, then
\* the index.  When inode_create fails, only the inode's sector is released.
filesys_create(t, n, initial_size) ==
  \E a \in {free_map_allocate(Start(free_map, disk))} :
    \E c \in {inode_create(a, a.new, initial_size)} :
      /\ Call(t)
      /\ IF a.ok /\ c.ok
         THEN /\ th' = [th EXCEPT ![t] = [Idle EXCEPT !.pc = "add", !.name = n,
                                                      !.inode = a.new]]
              /\ free_map' = c.free
              /\ disk' = c.disk
              /\ hole' = [hole EXCEPT ![a.new] = 0 .. initial_size - 1]
              /\ UNCHANGED leaked
         ELSE /\ free_map' = IF a.ok THEN c.free \cup {a.new} ELSE a.free
              /\ disk' = IF a.ok THEN c.disk ELSE a.disk
              /\ leaked' = leaked \cup (free_map \ free_map')
              /\ UNCHANGED <<th, hole>>
      /\ UNCHANGED <<dir, open_inodes, fd, panicked, hung, misread>>

\* The rest of filesys_create: dir_add fails if the name is in use, and then
\* the inode's sector is released, but not the sectors of its index.
dir_add(t) ==
  LET s == th[t].inode
  IN  /\ Runs(t, "add")
      /\ IF dir[th[t].name] = 0
         THEN /\ dir' = [dir EXCEPT ![th[t].name] = s]
              /\ UNCHANGED <<free_map, leaked>>
         ELSE /\ free_map' = free_map \cup {s}
              /\ leaked' = leaked \cup FileSectors(disk, disk[s])
              /\ UNCHANGED dir
      /\ Return(t)
      /\ UNCHANGED <<disk, open_inodes, fd, panicked, hung, hole, misread>>

-----------------------------------------------------------------------------
(* Opening, closing and removing.                                          *)

inode_open(opens, s) ==
  IF opens[s].open_cnt > 0
  THEN [opens EXCEPT ![s].open_cnt = @ + 1]
  ELSE [opens EXCEPT ![s] = [NoInode EXCEPT !.open_cnt = 1, !.data = disk[s]]]

filesys_open(t, n) ==
  /\ Call(t)
  /\ fd[t] = NoFile
  /\ dir[n] # 0
  /\ open_inodes' = inode_open(open_inodes, dir[n])
  /\ fd' = [fd EXCEPT ![t].inode = dir[n]]
  /\ UNCHANGED <<free_map, disk, dir, th, panicked, hung, hole, leaked, misread>>

\* The last opener takes the inode off the list; if the file was removed, its
\* sectors are given back.
inode_close(opens, s) ==
  LET last == opens[s].open_cnt = 1
  IN  /\ open_inodes' = [opens EXCEPT ![s] = IF last THEN NoInode
                                             ELSE [@ EXCEPT !.open_cnt = @ - 1]]
      /\ IF last /\ opens[s].removed
         THEN \E st \in {inode_free_all(Start(free_map, disk), s)} :
                free_map' = st.free /\ panicked' = IF st.panic THEN "assert" ELSE "no"
         ELSE UNCHANGED <<free_map, panicked>>

\* file_allow_write before inode_close.
file_close(t) ==
  LET s == fd[t].inode
  IN  /\ Call(t)
      /\ s # 0
      /\ inode_close(IF fd[t].deny_write
                     THEN [open_inodes EXCEPT ![s].deny_write_cnt = @ - 1]
                     ELSE open_inodes, s)
      /\ fd' = [fd EXCEPT ![t] = NoFile]
      /\ UNCHANGED <<disk, dir, th, hung, hole, leaked, misread>>

\* file_deny_write; inode_deny_write asserts that no opener denies twice.
file_deny_write(t) ==
  LET s == fd[t].inode
      n == open_inodes[s].deny_write_cnt + 1
  IN  /\ Call(t)
      /\ s # 0
      /\ IF fd[t].deny_write
         THEN UNCHANGED <<fd, open_inodes, panicked>>
         ELSE /\ fd' = [fd EXCEPT ![t].deny_write = TRUE]
              /\ open_inodes' = [open_inodes EXCEPT ![s].deny_write_cnt = n]
              /\ panicked' = IF n <= open_inodes[s].open_cnt THEN "no" ELSE "assert"
      /\ UNCHANGED <<free_map, disk, dir, th, hung, hole, leaked, misread>>

\* filesys_remove of a file under the directory's lock: lookup opens the
\* inode, dir_remove opens it again, erases the entry, marks it and closes it.
filesys_remove(t, n) ==
  LET s == dir[n]
      opens == inode_open(open_inodes, s)
  IN  /\ Call(t)
      /\ s # 0
      /\ dir' = [dir EXCEPT ![n] = 0]
      /\ open_inodes' = [opens EXCEPT ![s].removed = TRUE]
      /\ th' = [th EXCEPT ![t] = [Idle EXCEPT !.pc = "removed", !.inode = s]]
      /\ UNCHANGED <<free_map, disk, fd, panicked, hung, hole, leaked, misread>>

\* The inode_close of filesys_remove, after the lock is released.
remove_close(t) ==
  /\ Runs(t, "removed")
  /\ inode_close(open_inodes, th[t].inode)
  /\ Return(t)
  /\ UNCHANGED <<disk, dir, fd, hung, hole, leaked, misread>>

-----------------------------------------------------------------------------
(* Writing.                                                                *)

inode_write_at(t, offset, size) ==
  LET s == fd[t].inode
  IN  /\ Call(t)
      /\ s # 0
      /\ IF open_inodes[s].deny_write_cnt > 0
         THEN UNCHANGED th
         ELSE th' = [th EXCEPT ![t] = [Idle EXCEPT !.pc = "grow", !.inode = s,
                                         !.offset = offset, !.size = size]]
      /\ UNCHANGED <<free_map, disk, dir, open_inodes, fd, panicked, hung,
                     hole, leaked, misread>>

\* Mutant: the lock is released between growing the file and writing to it.
write_grow_Unlocked(t) ==
  LET s == th[t].inode
      end == th[t].offset + th[t].size
      len == open_inodes[s].data.length
  IN  /\ Runs(t, "grow")
      /\ ~open_inodes[s].grow_lock
      /\ IF end <= len
         THEN /\ th' = [th EXCEPT ![t].pc = "write"]
              /\ UNCHANGED <<free_map, disk, open_inodes, panicked, hung, hole>>
         ELSE \E g \in {inode_grow(Start(free_map, disk), s, open_inodes[s].data,
                                  end - len)} :
              /\ free_map' = g.free
              /\ disk' = g.disk
              /\ open_inodes' = [open_inodes EXCEPT ![s].data = g.data]
              /\ panicked' = IF g.ok THEN "no" ELSE "nospace"
              /\ hung' = (hung \/ g.spins)
              /\ hole' = [hole EXCEPT ![s] = @ \cup (len .. th[t].offset - 1)]
              /\ th' = [th EXCEPT ![t].pc = IF g.spins THEN "spin" ELSE "write",
                                  ![t].locked = TRUE]
      /\ UNCHANGED <<dir, fd, leaked, misread>>

\* Under grow_lock: a write past the end first grows the file, and keeps the
\* lock until the data is written.  A file that cannot grow is a PANIC.
write_grow(t) ==
  LET s == th[t].inode
      end == th[t].offset + th[t].size
      len == open_inodes[s].data.length
  IN  /\ Runs(t, "grow")
      /\ ~open_inodes[s].grow_lock
      /\ IF end <= len
         THEN /\ th' = [th EXCEPT ![t].pc = "write"]
              /\ UNCHANGED <<free_map, disk, open_inodes, panicked, hung, hole>>
         ELSE \E g \in {inode_grow(Start(free_map, disk), s, open_inodes[s].data,
                                  end - len)} :
              /\ free_map' = g.free
              /\ disk' = g.disk
              /\ open_inodes' = [open_inodes EXCEPT ![s].data = g.data,
                                                    ![s].grow_lock = TRUE]
              /\ panicked' = IF g.ok THEN "no" ELSE "nospace"
              /\ hung' = (hung \/ g.spins)
              /\ hole' = [hole EXCEPT ![s] = @ \cup (len .. th[t].offset - 1)]
              /\ th' = [th EXCEPT ![t].pc = IF g.spins THEN "spin" ELSE "write",
                                  ![t].locked = TRUE]
      /\ UNCHANGED <<dir, fd, leaked, misread>>

\* One turn of a loop over the sectors: where the bytes at offset are, and how
\* many of them are in this sector and in the file.
Chunk(t) ==
  LET data == open_inodes[th[t].inode].data
      sector_left == BLOCK_SECTOR_SIZE - (th[t].offset % BLOCK_SECTOR_SIZE)
  IN  Least(th[t].size, Least(data.length - th[t].offset, sector_left))

Locate(t, pc) ==
  LET data == open_inodes[th[t].inode].data
  IN  th' = [th EXCEPT ![t].pc = pc, ![t].chunk = Chunk(t),
               ![t].sector = byte_to_sector(disk, data, th[t].offset)]

Advance(t, pc) ==
  th' = [th EXCEPT ![t].pc = pc, ![t].offset = @ + th[t].chunk,
                   ![t].size = @ - th[t].chunk, ![t].chunk = 0, ![t].sector = 0]

write_locate(t) ==
  /\ Runs(t, "write")
  /\ th[t].size > 0 /\ Chunk(t) > 0
  /\ th[t].locked \/ ~open_inodes[th[t].inode].grow_lock
  /\ Locate(t, "write_chunk")
  /\ UNCHANGED <<free_map, disk, dir, open_inodes, fd, panicked, hung, hole,
                 leaked, misread>>

\* Positions of the chunk at hand.
Chunked(t) == th[t].offset .. th[t].offset + th[t].chunk - 1

\* Mutant: the rest of the sector is overwritten.
write_chunk_NoMerge(t) ==
  LET s == th[t].inode
      first == th[t].offset - (th[t].offset % BLOCK_SECTOR_SIZE)
  IN  /\ Runs(t, "write_chunk")
      /\ disk' = [disk EXCEPT ![th[t].sector].bytes =
                    [i \in DOMAIN @ |-> IF first + i \in Chunked(t)
                                        THEN <<s, first + i>> ELSE <<0, 0>>]]
      /\ hole' = [hole EXCEPT ![s] = @ \ Chunked(t)]
      /\ Advance(t, "write")
      /\ UNCHANGED <<free_map, dir, open_inodes, fd, panicked, hung, leaked, misread>>

write_chunk(t) ==
  LET s == th[t].inode
      first == th[t].offset - (th[t].offset % BLOCK_SECTOR_SIZE)
  IN  /\ Runs(t, "write_chunk")
      /\ disk' = [disk EXCEPT ![th[t].sector].bytes =
                    [i \in DOMAIN @ |-> IF first + i \in Chunked(t)
                                        THEN <<s, first + i>> ELSE @[i]]]
      /\ hole' = [hole EXCEPT ![s] = @ \ Chunked(t)]
      /\ Advance(t, "write")
      /\ UNCHANGED <<free_map, dir, open_inodes, fd, panicked, hung, leaked, misread>>

\* Mutant: the lock of a write that grew the file is not released.
write_done_KeepsLock(t) ==
  /\ Runs(t, "write")
  /\ th[t].size = 0 \/ Chunk(t) <= 0
  /\ Return(t)
  /\ UNCHANGED <<free_map, disk, dir, open_inodes, fd, panicked, hung, hole,
                 leaked, misread>>

write_done(t) ==
  LET s == th[t].inode
  IN  /\ Runs(t, "write")
      /\ \/ th[t].size = 0
         \/ /\ Chunk(t) <= 0
            /\ th[t].locked \/ ~open_inodes[s].grow_lock
      /\ open_inodes' = IF th[t].locked THEN [open_inodes EXCEPT ![s].grow_lock = FALSE]
                                        ELSE open_inodes
      /\ Return(t)
      /\ UNCHANGED <<free_map, disk, dir, fd, panicked, hung, hole, leaked, misread>>

-----------------------------------------------------------------------------
(* Reading: the lock is held to find the sector, not to read it.           *)

inode_read_at(t, offset, size) ==
  /\ Call(t)
  /\ fd[t].inode # 0
  /\ th' = [th EXCEPT ![t] = [Idle EXCEPT !.pc = "read", !.inode = fd[t].inode,
                                !.offset = offset, !.size = size]]
  /\ UNCHANGED <<free_map, disk, dir, open_inodes, fd, panicked, hung, hole,
                 leaked, misread>>

read_locate(t) ==
  /\ Runs(t, "read")
  /\ th[t].size > 0
  /\ ~open_inodes[th[t].inode].grow_lock
  /\ IF Chunk(t) > 0 THEN Locate(t, "read_chunk") ELSE Return(t)
  /\ UNCHANGED <<free_map, disk, dir, open_inodes, fd, panicked, hung, hole,
                 leaked, misread>>

\* What the file holds at a position: 0 where it was never written.
Byte(s, pos) == IF pos \in hole[s] THEN <<0, 0>> ELSE <<s, pos>>

read_chunk(t) ==
  /\ Runs(t, "read_chunk")
  /\ misread' = (misread \/ \E pos \in Chunked(t) :
                   disk[th[t].sector].bytes[pos % BLOCK_SECTOR_SIZE] # Byte(th[t].inode, pos))
  /\ Advance(t, "read")
  /\ UNCHANGED <<free_map, disk, dir, open_inodes, fd, panicked, hung, hole, leaked>>

read_done(t) ==
  /\ Runs(t, "read")
  /\ th[t].size = 0
  /\ Return(t)
  /\ UNCHANGED <<free_map, disk, dir, open_inodes, fd, panicked, hung, hole,
                 leaked, misread>>

-----------------------------------------------------------------------------
\* The thread goes on with the system call it is in.
Continue(t) ==
  \/ dir_add(t) \/ remove_close(t)
  \/ write_grow(t) \/ write_locate(t) \/ write_chunk(t) \/ write_done(t)
  \/ read_locate(t) \/ read_chunk(t) \/ read_done(t)

Next ==
  \E t \in Thread :
    \/ \E n \in Name :
         \/ \E size \in InitialSizes : filesys_create(t, n, size)
         \/ filesys_open(t, n)
         \/ filesys_remove(t, n)
    \/ file_close(t)
    \/ file_deny_write(t)
    \/ \E offset \in Offsets, size \in Sizes :
         \/ inode_write_at(t, offset, size)
         \/ inode_read_at(t, offset, size)
    \/ Continue(t)

Spec == Init /\ [][Next]_vars

\* Every runnable thread is scheduled again, and a thread waiting for grow_lock
\* gets it: strong fairness, as lock waiters are served in turn.
LiveSpec == Spec /\ \A t \in Thread : SF_vars(Continue(t))

-----------------------------------------------------------------------------
(* Properties.                                                             *)

\* Inodes in existence: named, open, or about to be named.
Files == {s \in Sector : \/ s \in {dir[n] : n \in Name}
                         \/ open_inodes[s].open_cnt > 0
                         \/ \E t \in Thread : th[t].pc = "add" /\ th[t].inode = s}
         \ {0}

Data(s) == IF open_inodes[s].open_cnt > 0 THEN open_inodes[s].data ELSE disk[s]

Owned(s) == {s} \cup FileSectors(disk, Data(s))

\* Every sector is free, or is the file system's own, or was lost by a failed
\* create, or belongs to exactly one file, removed files that are still open
\* included: allocation, growth, removal and close never share, lose or free
\* a sector in use (free_map_allocate, inode_grow, inode_free_all).
SectorsOwnedOnce ==
  panicked = "no" =>
    /\ \A s, u \in Files : s # u => Owned(s) \cap Owned(u) = {}
    /\ LET used == {FREE_MAP_SECTOR, ROOT_DIR_SECTOR} \cup UNION {Owned(s) : s \in Files}
       IN  /\ used \cap free_map = {}
           /\ leaked \cap (used \cup free_map) = {}
           /\ used \cup free_map \cup leaked = Sector

\* Every position of every file is found by byte_to_sector in a sector that
\* holds what was last written there, zero if nothing was; only the part a
\* growing write has yet to fill, under grow_lock, may differ.
FilesHoldWhatWasWritten ==
  panicked = "no" /\ ~hung =>
    \A s \in Files : \A pos \in 0 .. Data(s).length - 1 :
      \/ disk[byte_to_sector(disk, Data(s), pos)].bytes[pos % BLOCK_SECTOR_SIZE] = Byte(s, pos)
      \/ \E t \in Thread : th[t].inode = s /\ th[t].locked /\ pos >= th[t].offset

\* A read never returns a byte that was not written: "A may not read data
\* other than what B writes, e.g. if B's data is all nonzero bytes, A is not
\* allowed to see any zeros" (doc/filesys.texi:395), for reads and writes of
\* several sectors interleaved in any way.
ExtensionIsAtomic == ~misread

\* Every system call returns unless the kernel stops for want of space:
\* nobody waits for a grow_lock for ever (inode_read_at, inode_write_at).
CallsReturn ==
  \A t \in Thread : th[t].pc # "idle" ~> th[t].pc = "idle" \/ panicked # "no" \/ hung

\* inode_grow always comes to an end, whatever the length of the file and of
\* the growth: "You must support files as large as the partition".
InodeGrowReturns == ~hung
=============================================================================
