---------------------------- MODULE MCServices ----------------------------
(***************************************************************************)
(* One instance each of five modules that share no state: files and        *)
(* directories, the memory allocators, lists, hash tables and memory       *)
(* mapped files.  Each behaviour is a behaviour of one of them, while the  *)
(* others stay at their initial states.                                    *)
(***************************************************************************)
EXTENDS MCFiles

CONSTANTS t1, t2, file1, file2, Nil

VARIABLES
  part,
  pool, pool_lock, arena, free_list, desc_lock, live, th, mem_panicked,
  ptr, seq,
  h, iter, seen, set, ret,
  fds, proc, map_calls, want

files == vars
memory == <<pool, pool_lock, arena, free_list, desc_lock, live, th, mem_panicked>>
lists == <<ptr, seq>>
hash == <<h, iter, seen, set, ret>>
maps == <<fds, proc, map_calls, want>>
all == <<part, files, memory, lists, hash, maps>>

MCThread == {t1, t2}
MCSizes == {0, 1, 2, 4}
MCElem == 1 .. 5
MCValue == <<1, 2, 3, 1, 2>>
MCKeys == {[key |-> k, id |-> 1] : k \in 0 .. 4} \cup {[key |-> 0, id |-> 2]}
MCHash == [k \in 0 .. 4 |-> <<1, 5, 2, 3, 7>>[k + 1]]
MCFile == {file1, file2}
MCFd == {3, 4}
MCAddr == 1 .. 3
MCFileSizes == [x \in MCFile |-> IF x = file1 THEN 1 ELSE 2]

\* Six pages of memory; an arena of 6 bytes has a header of 3.
M == INSTANCE Memory WITH
       Thread <- MCThread, PGSIZE <- 6, SizeofArena <- 3, ELEM_BITS <- 2, SIZE_MAX <- 7,
       FreePages <- 6, UserPageLimit <- 2, Sizes <- MCSizes, MaxLive <- 3,
       panicked <- mem_panicked

\* Five elements, two pairs of equals among them.
L == INSTANCE Lists WITH Elem <- MCElem, Value <- MCValue

\* Five keys, one of them held by two elements; some hashes agree modulo a
\* small number of buckets.
HT == INSTANCE HashTable WITH
        Elem <- MCKeys, Hash <- MCHash, MIN_BUCKETS <- 1, BEST_ELEMS_PER_BUCKET <- 1

\* A file of one page and one of two, which can grow to two, and room for two
\* mappings.
MM == INSTANCE MemoryMaps WITH
        File <- MCFile, Fd <- MCFd, Addr <- MCAddr, MAX_MAP_CNT <- 2, MaxSize <- 2,
        Sizes <- MCFileSizes, MaxCalls <- 6, NULL <- Nil,
        file_list <- fds, calls <- map_calls

MCInit ==
  /\ part \in {"files", "memory", "lists", "hash", "maps"}
  /\ Init /\ M!Init /\ L!Init /\ HT!Init /\ MM!Init

MCNext ==
  \/ part = "files" /\ Next /\ UNCHANGED <<part, memory, lists, hash, maps>>
  \/ part = "memory" /\ M!Next /\ UNCHANGED <<part, files, lists, hash, maps>>
  \/ part = "lists" /\ L!Next /\ UNCHANGED <<part, files, memory, hash, maps>>
  \/ part = "hash" /\ HT!Next /\ UNCHANGED <<part, files, memory, lists, maps>>
  \/ part = "maps" /\ MM!Next /\ UNCHANGED <<part, files, memory, lists, hash>>

MCSpec == MCInit /\ [][MCNext]_all

-----------------------------------------------------------------------------
(* The properties of the modules that are instances here.                  *)

\* Pages and blocks are handed out to one owner at a time (palloc.c, malloc.c).
BlocksOwnedOnce == part = "memory" => M!BlocksOwnedOnce

\* The pointers form the sequence each operation promises (list.c).
ListsAreSequences == part = "lists" => L!ListsAreSequences

\* The table holds the set each operation promises, through resizing (hash.c).
HashIsSet == part = "hash" => HT!HashIsSet

\* What is stored through a mapping gets to its file (syscall.c, process.c).
MappedWritesKept == part = "maps" => MM!MappedWritesKept
=============================================================================
