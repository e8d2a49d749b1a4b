---------------------------- MODULE BufferCache ----------------------------
(***************************************************************************)
(* The buffer cache of the file system (filesys/cache.c): the table of     *)
(* entries, its two levels of locks, eviction and the flush thread.        *)
(*                                                                         *)
(* A lock is its holder (module Monitor).  A step is what a thread does    *)
(* from one acquisition of a lock to the next.  The contents of a sector   *)
(* are a value; a write replaces it.                                       *)
(***************************************************************************)
EXTENDS Integers, Sequences, FiniteSets

CONSTANTS
  Client,            \* threads that read and write sectors
  Sector, Value,
  CACHE_SECTOR_CNT,
  MaxOps,            \* bound: so many requests are made
  NULL, flusher      \* flusher: cache_flush_thread

ASSUME CacheAssumption ==
  /\ CACHE_SECTOR_CNT \in Nat \ {0} /\ MaxOps \in Nat
  /\ NULL \notin Sector \cup Value \cup Client \cup {flusher}
  /\ flusher \notin Client

Thread == Client \cup {flusher}
Index  == 0 .. CACHE_SECTOR_CNT - 1

VARIABLES
  sector, accessed_cnt, dirty_cnt, in_use, \* ct[i]
  lock,        \* ct[i].lock: its holder
  cache_lock,  \* its holder
  data,        \* the cached contents
  disk,        \* the contents on fs_device
  victim_idx,
  pc, op, sec, val,   \* the request in progress: kind, sector, value written
  i,                  \* the index at hand
  result, min_accessed_cnt, \* cache_alloc()
  ops,         \* requests made
  latest,      \* history: the value last written to each sector
  stale,       \* history: a hit has used an entry given to another sector
  misread      \* history: a read has returned something else than latest

table == <<sector, accessed_cnt, dirty_cnt, in_use>>
alloc == <<result, min_accessed_cnt>>
req   == <<op, sec, val>>
vars  == <<table, lock, cache_lock, data, disk, victim_idx, pc, req, i, alloc,
           ops, latest, stale, misread>>

\* cache_init(); every sector has its own initial contents.
Init ==
  /\ sector = [n \in Index |-> NULL]
  /\ accessed_cnt = [n \in Index |-> 0]
  /\ dirty_cnt = [n \in Index |-> 0]
  /\ in_use = [n \in Index |-> FALSE]
  /\ lock = [n \in Index |-> NULL]
  /\ cache_lock = NULL
  /\ data = [n \in Index |-> NULL]
  /\ disk = [s \in Sector |-> s]
  /\ victim_idx = 0
  /\ pc = [t \in Thread |-> "idle"]
  /\ op = [t \in Thread |-> NULL]
  /\ sec = [t \in Thread |-> NULL]
  /\ val = [t \in Thread |-> NULL]
  /\ i = [t \in Thread |-> 0]
  /\ result = [t \in Thread |-> 0]
  /\ min_accessed_cnt = [t \in Thread |-> -1]
  /\ ops = 0
  /\ latest = [s \in Sector |-> s]
  /\ stale = FALSE /\ misread = FALSE

Goto(t, p) == pc' = [pc EXCEPT ![t] = p]
Set(f, x, v) == f' = [f EXCEPT ![x] = v]

\* The call returns: its locals are gone.
Return(t) ==
  /\ Goto(t, "idle")
  /\ Set(op, t, NULL) /\ Set(sec, t, NULL) /\ Set(val, t, NULL)
  /\ Set(i, t, 0) /\ Set(result, t, 0) /\ Set(min_accessed_cnt, t, -1)

----------------------------------------------------------------------------
(* cache_read_at() and cache_write_at().                                   *)

Request(t, o, s, v) ==
  /\ pc[t] = "idle" /\ ops < MaxOps
  /\ ops' = ops + 1
  /\ Set(op, t, o) /\ Set(sec, t, s) /\ Set(val, t, v)
  /\ Goto(t, "start")
  /\ UNCHANGED <<table, lock, cache_lock, data, disk, victim_idx, i, alloc, latest, stale, misread>>

cache_read_at(t, s) == Request(t, "read", s, NULL)
cache_write_at(t, s, v) == Request(t, "write", s, v)

\* Mutant: cache_lock is not kept while an entry is chosen.
Lookup_NoLock(t) ==
  /\ pc[t] = "start" /\ cache_lock = NULL
  /\ IF \E n \in Index : in_use[n] /\ sector[n] = sec[t]
     THEN /\ Set(i, t, CHOOSE n \in Index : in_use[n] /\ sector[n] = sec[t])
          /\ Goto(t, "hit") /\ UNCHANGED alloc
     ELSE /\ Set(i, t, 0) /\ Set(result, t, 0) /\ Set(min_accessed_cnt, t, -1)
          /\ Goto(t, "alloc")
  /\ UNCHANGED <<table, lock, cache_lock, data, disk, victim_idx, req, ops, latest, stale, misread>>

\* The table is searched under cache_lock, which a hit releases before it
\* takes the lock of the entry.
Lookup(t) ==
  /\ pc[t] = "start" /\ cache_lock = NULL
  /\ \/ \E n \in Index :
          /\ in_use[n] /\ sector[n] = sec[t]
          /\ \A k \in 0..n-1 : ~(in_use[k] /\ sector[k] = sec[t])
          /\ Set(i, t, n)
          /\ Goto(t, "hit")
          /\ UNCHANGED <<cache_lock, alloc>>
     \/ /\ \A n \in Index : ~(in_use[n] /\ sector[n] = sec[t])
        /\ cache_lock' = t
        /\ Set(i, t, 0) /\ Set(result, t, 0) /\ Set(min_accessed_cnt, t, -1)
        /\ Goto(t, "alloc")
  /\ UNCHANGED <<table, lock, data, disk, victim_idx, req, ops, latest, stale, misread>>

\* memcpy() between the entry n and the caller, with the entry's lock held;
\* before are the contents it finds there.
Transfer(t, n, before) ==
  /\ Set(accessed_cnt, n, accessed_cnt[n] + 1)
  /\ IF op[t] = "read"
     THEN /\ misread' = (misread \/ before # latest[sec[t]])
          /\ Set(data, n, before)
          /\ UNCHANGED <<dirty_cnt, latest>>
     ELSE /\ Set(data, n, val[t])
          /\ Set(dirty_cnt, n, dirty_cnt[n] + 1)
          /\ Set(latest, sec[t], val[t])
          /\ UNCHANGED misread

\* The hit, once the lock of the entry is free.
Hit(t) ==
  /\ pc[t] = "hit" /\ lock[i[t]] = NULL
  /\ Transfer(t, i[t], data[i[t]])
  /\ stale' = (stale \/ sector[i[t]] # sec[t])
  /\ Return(t)
  /\ UNCHANGED <<sector, in_use, lock, cache_lock, disk, victim_idx, ops>>

\* The miss: block_read() into the entry cache_alloc() has locked.
Fill(t) ==
  /\ pc[t] = "fill"
  /\ Transfer(t, result[t], disk[sec[t]])
  /\ Set(lock, result[t], NULL)
  /\ Return(t)
  /\ UNCHANGED <<sector, in_use, cache_lock, disk, victim_idx, ops, stale>>

----------------------------------------------------------------------------
(* cache_alloc(), with cache_lock held.                                    *)

\* Entry n becomes that of the sector asked for, and stays locked.
Assign(t, n) ==
  /\ Set(sector, n, sec[t])
  /\ Set(accessed_cnt, n, 0)
  /\ Set(dirty_cnt, n, 0)
  /\ Set(in_use, n, TRUE)
  /\ Set(lock, n, t)
  /\ cache_lock' = NULL
  /\ Goto(t, "fill")

\* One turn of the loop: a free entry ends it; otherwise the entry with the
\* fewest accesses so far is kept in mind, ties being broken by victim_idx.
ScanAlloc(t) ==
  LET n == i[t] IN
  /\ pc[t] = "alloc" /\ n < CACHE_SECTOR_CNT /\ lock[n] = NULL
  /\ \/ /\ ~in_use[n]
        /\ Set(result, t, n)
        /\ Assign(t, n)
        /\ UNCHANGED <<i, min_accessed_cnt>>
     \/ /\ in_use[n]
        /\ LET fewer == min_accessed_cnt[t] = -1 \/ accessed_cnt[n] < min_accessed_cnt[t]
               tie   == /\ accessed_cnt[n] = min_accessed_cnt[t]
                        /\ result[t] < victim_idx /\ victim_idx <= n
           IN  /\ Set(result, t, IF fewer \/ tie THEN n ELSE result[t])
               /\ Set(min_accessed_cnt, t,
                      IF fewer THEN accessed_cnt[n] ELSE min_accessed_cnt[t])
        /\ Set(i, t, n + 1)
        /\ UNCHANGED <<table, lock, cache_lock, pc>>
  /\ UNCHANGED <<data, disk, victim_idx, req, ops, latest, stale, misread>>

\* Mutant: the victim's contents are not written back.
Evict_NoWriteBack(t) ==
  /\ pc[t] = "alloc" /\ i[t] = CACHE_SECTOR_CNT /\ lock[result[t]] = NULL
  /\ Assign(t, result[t])
  /\ victim_idx' = victim_idx + 1
  /\ UNCHANGED <<data, disk, req, i, alloc, ops, latest, stale, misread>>

\* Mutant: a full table is searched again for a free entry.
Evict_Rescan(t) ==
  /\ pc[t] = "alloc" /\ i[t] = CACHE_SECTOR_CNT
  /\ Set(i, t, 0)
  /\ UNCHANGED <<table, lock, cache_lock, data, disk, victim_idx, pc, req, alloc,
                 ops, latest, stale, misread>>

\* Eviction: the victim is written back if it is dirty.
Evict(t) ==
  LET n == result[t] IN
  /\ pc[t] = "alloc" /\ i[t] = CACHE_SECTOR_CNT /\ lock[n] = NULL
  /\ IF dirty_cnt[n] > 0 THEN Set(disk, sector[n], data[n]) ELSE UNCHANGED disk
  /\ Assign(t, n)
  /\ victim_idx' = victim_idx + 1
  /\ UNCHANGED <<data, req, i, alloc, ops, latest, stale, misread>>

----------------------------------------------------------------------------
(* cache_flush(), which the flush thread calls every 50 ticks.             *)

cache_flush ==
  /\ pc[flusher] = "idle" /\ cache_lock = NULL
  /\ cache_lock' = flusher
  /\ Set(i, flusher, 0)
  /\ Goto(flusher, "flush")
  /\ UNCHANGED <<table, lock, data, disk, victim_idx, req, alloc, ops, latest, stale, misread>>

\* Mutant: only the first entry is ever written back.
FlushEntry_OnlyFirst ==
  LET n == i[flusher] IN
  /\ pc[flusher] = "flush" /\ n < CACHE_SECTOR_CNT /\ lock[n] = NULL
  /\ IF n = 0 /\ in_use[n] /\ dirty_cnt[n] > 0
     THEN Set(disk, sector[n], data[n]) /\ Set(dirty_cnt, n, 0)
     ELSE UNCHANGED <<disk, dirty_cnt>>
  /\ Set(i, flusher, n + 1)
  /\ UNCHANGED <<sector, accessed_cnt, in_use, lock, cache_lock, data,
                 victim_idx, pc, req, alloc, ops, latest, stale, misread>>

FlushEntry ==
  LET n == i[flusher] IN
  /\ pc[flusher] = "flush" /\ n < CACHE_SECTOR_CNT /\ lock[n] = NULL
  /\ IF in_use[n] /\ dirty_cnt[n] > 0
     THEN Set(disk, sector[n], data[n]) /\ Set(dirty_cnt, n, 0)
     ELSE UNCHANGED <<disk, dirty_cnt>>
  /\ Set(i, flusher, n + 1)
  /\ UNCHANGED <<sector, accessed_cnt, in_use, lock, cache_lock, data,
                 victim_idx, pc, req, alloc, ops, latest, stale, misread>>

FlushEnd ==
  /\ pc[flusher] = "flush" /\ i[flusher] = CACHE_SECTOR_CNT
  /\ cache_lock' = NULL
  /\ Goto(flusher, "idle")
  /\ UNCHANGED <<table, lock, data, disk, victim_idx, req, i, alloc, ops, latest, stale, misread>>

----------------------------------------------------------------------------
Serve(t) == Lookup(t) \/ Hit(t) \/ Fill(t) \/ ScanAlloc(t) \/ Evict(t)
Flush == cache_flush \/ FlushEntry \/ FlushEnd

Next == \/ \E t \in Client : \/ Serve(t)
                             \/ \E s \in Sector : \/ cache_read_at(t, s)
                                                  \/ \E v \in Value : cache_write_at(t, s, v)
        \/ Flush

\* A thread that can take the lock it waits for again and again gets it in
\* the end; the flush thread is woken by the timer.
Spec == Init /\ [][Next]_vars
LiveSpec == Spec /\ WF_vars(Flush) /\ \A t \in Client : SF_vars(Serve(t))

----------------------------------------------------------------------------
(* Properties.                                                             *)

\* No sector has two entries, however the searches and allocations of
\* several threads interleave.
UniqueEntry ==
  \A m, n \in Index : (in_use[m] /\ in_use[n] /\ sector[m] = sector[n]) => m = n

\* Somebody has assigned entry n and not yet filled it.
Filling(n) == \E t \in Client : pc[t] = "fill" /\ result[t] = n

\* What is cached for s, or else on disk.
Current(s) ==
  IF \E n \in Index : in_use[n] /\ sector[n] = s /\ ~Filling(n)
  THEN data[CHOOSE n \in Index : in_use[n] /\ sector[n] = s /\ ~Filling(n)]
  ELSE disk[s]

\* A read returns what was last written to the sector.
ReadsLatest == ~misread

\* The value last written to a sector is in its entry, or on disk when it
\* has none, whatever was evicted and flushed in between, and reads return it.
\* A hit that uses a stale entry is the only way to go wrong.
Coherent == ~stale => ReadsLatest /\ \A s \in Sector : Current(s) = latest[s]

\* Every request is served: nobody waits for an entry whose holder waits for
\* cache_lock.
RequestsServed == \A t \in Client : pc[t] # "idle" ~> pc[t] = "idle"

\* A written value reaches the disk, or is overwritten, even if nobody ever
\* touches its sector again (until a hit uses a stale entry).
WritesReachDisk ==
  \A s \in Sector, v \in Value :
    latest[s] = v ~> (disk[s] = v \/ latest[s] # v \/ stale)
====
