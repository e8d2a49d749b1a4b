----------------------------- MODULE MemoryMaps -----------------------------
(***************************************************************************)
(* Memory mapped files of one process: mmap and munmap (syscall.c), the    *)
(* table of mappings (thread.c), and what page faults, evictions and exit  *)
(* do to the pages mapped.  Every operation holds pf_sema from beginning   *)
(* to end and is one step.  Sizes and positions are counted in pages, and  *)
(* a page holds one value.  Frames and swap slots are VirtualMemory's      *)
(* affair; mapping a directory or a running program is left out.           *)
(***************************************************************************)
EXTENDS Integers, SequencesExt

CONSTANTS
  File, Fd,
  Addr,         \* addresses passed to mmap
  MAX_MAP_CNT,
  MaxSize,      \* bound: pages of a file
  Sizes,        \* [File -> 1 .. MaxSize], the first sizes
  MaxCalls,     \* bound: so many accesses and system calls
  NULL

Page == {a + i : a \in Addr, i \in 0 .. MaxSize - 1}
Pos == 0 .. MaxSize - 1
MapId == 0 .. MAX_MAP_CNT - 1

VARIABLES
  file_list,    \* [Fd -> File \cup {NULL}]
  proc,         \* the address space, the mappings, and the files' contents
  calls,
  want          \* history: [File -> [Pos -> the value last stored there]]

vars == <<file_list, proc, calls, want>>

NotPresent == [present |-> FALSE, dirty |-> FALSE, val |-> 0]
NoEntry == [flag |-> "INVALID", file |-> NULL, pos |-> 0]
NoMap == [upage |-> 0, fd |-> 0]

Init ==
  /\ file_list = [d \in Fd |-> NULL]
  /\ proc = [st |-> "run",
             size |-> Sizes,
             data |-> [f \in File |-> [i \in Pos |-> 0]],
             spt |-> [u \in Page |-> NoEntry],
             pte |-> [u \in Page |-> NotPresent],  \* val: in the frame or in swap
             map_list |-> [id \in MapId |-> NoMap],
             astray |-> {}]  \* history: files the property excepts
  /\ calls = 0
  /\ want = [f \in File |-> [i \in Pos |-> 0]]

Mapped(f) == \E u \in Page : proc.spt[u].file = f

Call == proc.st = "run" /\ calls < MaxCalls /\ calls' = calls + 1

-----------------------------------------------------------------------------
(* Descriptors and files.                                                  *)

open(d, f) ==
  /\ Call
  /\ file_list[d] = NULL
  /\ file_list' = [file_list EXCEPT ![d] = f]
  /\ UNCHANGED <<proc, want>>

\* A mapping is recorded by its descriptor: closing it leaves munmap without
\* the file.
close(d) ==
  /\ Call
  /\ file_list[d] # NULL
  /\ file_list' = [file_list EXCEPT ![d] = NULL]
  /\ proc' = [proc EXCEPT !.astray =
                @ \cup (IF \E id \in MapId : proc.map_list[id].fd = d
                        THEN {file_list[d]} ELSE {})]
  /\ UNCHANGED want

\* A write system call past the end.
extend(d) ==
  /\ Call
  /\ file_list[d] # NULL
  /\ proc.size[file_list[d]] < MaxSize
  /\ proc' = [proc EXCEPT !.size[file_list[d]] = @ + 1]
  /\ UNCHANGED <<file_list, want>>

-----------------------------------------------------------------------------
(* Pages.  spt_set_kernel takes a new entry from malloc and does not set   *)
(* its file position: a page that goes to swap or comes back has any.      *)

spt_set(s, u, flag, pos) ==
  [s EXCEPT !.spt[u] = [flag |-> flag, file |-> NULL, pos |-> pos]]

spte_file_tell(s, u) == s.spt[u].pos

\* The page fault handler brings the page in.
page_fault(s, u, pos) ==
  LET e == s.spt[u]
      here(v) == [s EXCEPT !.pte[u] = [present |-> TRUE, dirty |-> FALSE, val |-> v]]
  IN  IF s.pte[u].present THEN s
      ELSE IF e.flag = "FILE" THEN here(s.data[e.file][spte_file_tell(s, u)])
      ELSE spt_set(here(s.pte[u].val), u, "MMRY", pos)

load(u) ==
  /\ Call
  /\ proc.spt[u].flag # "INVALID"
  /\ \E pos \in Pos : proc' = page_fault(proc, u, pos)
  /\ UNCHANGED <<file_list, want>>

store(u) ==
  LET e == proc.spt[u]
      v == IF e.flag = "FILE" THEN 1 - want[e.file][e.pos] ELSE 0
  IN  /\ Call
      /\ e.flag # "INVALID"
      /\ \E pos \in Pos :
           proc' = [page_fault(proc, u, pos) EXCEPT !.pte[u].dirty = TRUE, !.pte[u].val = v]
      /\ want' = IF e.flag = "FILE" THEN [want EXCEPT ![e.file][e.pos] = v] ELSE want
      /\ UNCHANGED file_list

\* falloc_get_frame takes the frame, for any process: a clean page of a file is
\* dropped, any other page goes to swap.
evict(u) ==
  LET e == proc.spt[u]
      swaps == e.flag = "MMRY" \/ proc.pte[u].dirty
      gone == [proc EXCEPT !.pte[u].present = FALSE, !.pte[u].dirty = FALSE,
                           !.astray = @ \cup (IF swaps /\ e.file # NULL THEN {e.file} ELSE {})]
  IN  /\ Call
      /\ proc.pte[u].present
      /\ IF swaps THEN \E pos \in Pos : proc' = spt_set(gone, u, "SWAP", pos)
         ELSE proc' = gone
      /\ UNCHANGED <<file_list, want>>

-----------------------------------------------------------------------------
(* mmap and munmap.                                                        *)

\* The first free entry, -1 if there is none.
thread_push_map(map_list) ==
  IF \A id \in MapId : map_list[id] # NoMap THEN -1
  ELSE CHOOSE id \in MapId : map_list[id] = NoMap /\ \A k \in 0 .. id - 1 : map_list[k] # NoMap

\* When the table is full the pages stay mapped although the call fails.
mmap(d, addr) ==
  LET f == file_list[d]
      pages == addr .. addr + proc.size[f] - 1
      id == thread_push_map(proc.map_list)
      set == [proc EXCEPT !.spt = [u \in Page |->
                IF u \in pages THEN [flag |-> "FILE", file |-> f, pos |-> u - addr] ELSE @[u]]]
  IN  /\ Call
      /\ f # NULL
      /\ proc.size[f] > 0
      /\ \A u \in pages : proc.spt[u].flag = "INVALID"
      /\ proc' = [set EXCEPT
                    !.map_list = [k \in MapId |-> IF k = id THEN [upage |-> addr, fd |-> d] ELSE @[k]],
                    !.astray = @ \cup (IF id = -1 \/ Mapped(f) THEN {f} ELSE {})]
      /\ UNCHANGED <<file_list, want>>

spt_remove(s, u) == [s EXCEPT !.spt[u] = NoEntry]

file_write_at(s, f, v, pos) ==
  [s EXCEPT !.data[f][pos] = v, !.size[f] = IF pos >= @ THEN pos + 1 ELSE @]

\* One turn of the loop.  spt_remove reads through the NULL it gets for a page
\* with no entry; the handler of that fault waits for pf_sema for ever.
unmap_page(s, f, u) ==
  LET e == s.spt[u]
      back == s.pte[u].dirty \/ e.flag = "SWAP"
      written == IF back THEN file_write_at(s, f, s.pte[u].val, spte_file_tell(s, u)) ELSE s
  IN  IF s.st = "stuck" THEN s
      ELSE IF e.flag = "INVALID" THEN [s EXCEPT !.st = "stuck"]
      ELSE spt_remove([written EXCEPT
             !.pte[u] = NotPresent,
             !.astray = @ \cup (IF e.file = f THEN {} ELSE {f, e.file} \ {NULL})], u)

thread_remove_map(s, id) == [s EXCEPT !.map_list[id] = NoMap]

\* The file is the one the descriptor names now, its length that of now.
munmap(s, id, files) ==
  LET map == s.map_list[id]
      f == files[map.fd]
  IN  IF s.st = "stuck" \/ map = NoMap THEN s
      ELSE IF f = NULL THEN thread_remove_map(s, id)
      ELSE FoldLeft(LAMBDA t, i : unmap_page(t, f, map.upage + i - 1),
                    thread_remove_map(s, id), [i \in 1 .. s.size[f] |-> i])

Munmap(id) ==
  /\ Call
  /\ proc' = munmap(proc, id, file_list)
  /\ UNCHANGED <<file_list, want>>

unmap_all(s, files) ==
  FoldLeft(LAMBDA t, i : munmap(t, i - 1, files), s, [i \in 1 .. MAX_MAP_CNT |-> i])

\* The pages that are still there go with the page directory.
exited(s) ==
  IF s.st = "stuck" THEN s
  ELSE [s EXCEPT !.st = "gone", !.spt = [u \in Page |-> NoEntry],
                 !.pte = [u \in Page |-> NotPresent]]

\* Mutant: the files are closed before the mappings are gone.
process_exit_ClosesFirst ==
  /\ proc.st = "run"
  /\ proc' = exited(unmap_all(proc, [d \in Fd |-> NULL]))
  /\ file_list' = [d \in Fd |-> NULL]
  /\ UNCHANGED <<calls, want>>

process_exit ==
  /\ proc.st = "run"
  /\ proc' = exited(unmap_all(proc, file_list))
  /\ file_list' = [d \in Fd |-> NULL]
  /\ UNCHANGED <<calls, want>>

Next ==
  \/ \E d \in Fd, f \in File : open(d, f)
  \/ \E d \in Fd : close(d) \/ extend(d)
  \/ \E d \in Fd, a \in Addr : mmap(d, a)
  \/ \E id \in MapId : Munmap(id)
  \/ \E u \in Page : load(u) \/ store(u) \/ evict(u)
  \/ process_exit

-----------------------------------------------------------------------------
(* Properties.                                                             *)

\* What a process stores through a mapping is never lost: it is in the file, or
\* in a dirty page still mapped, and a page brought in shows it.  At the latest
\* exit has written it back.  Excepted are files that munmap cannot serve, as
\* it goes by the descriptor and by positions that eviction forgets: the
\* descriptor of the mapping was closed, a dirty page went to swap, the file is
\* mapped twice or in a table that is full, or a file that has grown reaches
\* into the next mapping.
MappedWritesKept ==
  \A f \in File \ proc.astray, i \in Pos :
    LET pages == {u \in Page : proc.spt[u].file = f /\ proc.spt[u].pos = i}
    IN  /\ \/ proc.data[f][i] = want[f][i]
           \/ \E u \in pages : proc.pte[u].dirty /\ proc.pte[u].val = want[f][i]
        /\ \A u \in pages : proc.pte[u].present => proc.pte[u].val = want[f][i]
=============================================================================
