---------------------------- MODULE CacheProof ----------------------------
(***************************************************************************)
(* The buffer cache gives a sector one entry at most and, as long as no    *)
(* hit uses an entry that was given to another sector, keeps the last      *)
(* value written; for every number of threads, sectors and entries.        *)
(***************************************************************************)
EXTENDS BufferCache, TLAPS

Content == Sector \cup Value \cup {NULL}

Types ==
  /\ sector \in [Index -> Sector \cup {NULL}]
  /\ dirty_cnt \in [Index -> Nat]
  /\ in_use \in [Index -> BOOLEAN]
  /\ lock \in [Index -> Client \cup {NULL}]
  /\ data \in [Index -> Content]
  /\ disk \in [Sector -> Content]
  /\ latest \in [Sector -> Content]
  /\ pc \in [Thread -> {"idle", "start", "hit", "alloc", "fill", "flush"}]
  /\ op \in [Thread -> {"read", "write", NULL}]
  /\ sec \in [Thread -> Sector \cup {NULL}]
  /\ val \in [Thread -> Value \cup {NULL}]
  /\ i \in [Thread -> 0..CACHE_SECTOR_CNT]
  /\ result \in [Thread -> Index]

\* Entry n holds sector s.
Holds(n, s) == in_use[n] /\ sector[n] = s

\* What the place a thread has reached says of the table and its locks.
AtFlush ==
  /\ pc[flusher] \in {"idle", "flush"}
  /\ pc[flusher] = "flush" => cache_lock = flusher
  /\ \A t \in Client : pc[t] # "flush"
AtAny == \A t \in Client : pc[t] # "idle" => sec[t] \in Sector
AtHit == \A t \in Client : pc[t] = "hit" => i[t] \in Index /\ in_use[i[t]]
AtAlloc == \A t \in Client : pc[t] = "alloc" =>
             cache_lock = t /\ \A n \in Index : ~ Holds(n, sec[t])
AtFill == \A t \in Client : pc[t] = "fill" =>
            lock[result[t]] = t /\ Holds(result[t], sec[t])
Locks == \A n \in Index : lock[n] # NULL =>
           pc[lock[n]] = "fill" /\ result[lock[n]] = n /\ dirty_cnt[n] = 0
Places == AtFlush /\ AtAny /\ AtHit /\ AtAlloc /\ AtFill /\ Locks

Entries ==
  \A n \in Index : /\ in_use[n] => sector[n] \in Sector
                   /\ dirty_cnt[n] > 0 => in_use[n]

\* Where the last value written to a sector is: in its entry, which agrees
\* with the disk when it is clean, or on disk when it has none or one that
\* still has to be read.
Kept ==
  /\ ~ misread
  /\ \A n \in Index : in_use[n] /\ lock[n] = NULL =>
       /\ data[n] = latest[sector[n]]
       /\ dirty_cnt[n] = 0 => disk[sector[n]] = data[n]
  /\ \A n \in Index : in_use[n] /\ lock[n] # NULL => disk[sector[n]] = latest[sector[n]]
  /\ \A s \in Sector : (\A n \in Index : ~ Holds(n, s)) => disk[s] = latest[s]

CacheInv == Types /\ Places /\ Entries /\ UniqueEntry /\ (~ stale => Kept)

\* What the assumption on the constants says of threads and indices.
LEMMA Basics ==
  /\ 0 \in Index /\ 0 \in 0..CACHE_SECTOR_CNT
  /\ Client \subseteq Thread /\ flusher \in Thread /\ flusher \notin Client
  /\ Thread = Client \cup {flusher}
  /\ NULL \notin Client /\ NULL \notin Sector /\ NULL # flusher
BY CacheAssumption DEF Index, Thread

\* cache_init() leaves every entry free and every sector on disk.
LEMMA InitKeeps ==
  Init => CacheInv
<1> SUFFICES ASSUME Init PROVE CacheInv
  BY Zenon
<1>1. Types
  BY Basics, Zenon DEF Init, Types, Content
<1>2. Places
  BY Basics, Zenon DEF Init, Places, AtFlush, AtAny, AtHit, AtAlloc, AtFill, Locks
<1>3. Entries /\ UniqueEntry /\ Kept
  BY DEF Init, Entries, UniqueEntry, Kept, Holds
<1>4. QED BY <1>1, <1>2, <1>3, Zenon DEF CacheInv

\* A step that touches neither the entries, their locks, nor the contents.
LEMMA TableUnchanged ==
  ASSUME CacheInv,
         UNCHANGED <<sector, dirty_cnt, in_use, lock, data, disk, latest, stale, misread>>
  PROVE  Entries' /\ UniqueEntry' /\ (~ stale' => Kept')
BY Zenon DEF CacheInv, Entries, UniqueEntry, Kept, Holds

\* cache_read_at() and cache_write_at() are called.
LEMMA RequestKeeps ==
  ASSUME CacheInv, NEW t \in Client, NEW o \in {"read", "write"}, NEW s \in Sector,
         NEW v \in Value \cup {NULL}, Request(t, o, s, v)
  PROVE  CacheInv'
<1>1. /\ pc[t] = "idle" /\ pc' = [pc EXCEPT ![t] = "start"]
      /\ op' = [op EXCEPT ![t] = o] /\ sec' = [sec EXCEPT ![t] = s]
      /\ val' = [val EXCEPT ![t] = v]
      /\ UNCHANGED <<sector, dirty_cnt, in_use, lock, cache_lock, data, disk, i, result,
                     latest, stale, misread>>
  BY Zenon DEF Request, Set, Goto, table, alloc
<1>2. Types'
  BY Zenon, <1>1 DEF CacheInv, Types
<1>3. Entries' /\ UniqueEntry' /\ (~ stale' => Kept')
  BY <1>1, TableUnchanged, Zenon
<1>4. /\ t \in Thread /\ t # flusher /\ pc'[t] = "start" /\ sec'[t] = s
      /\ \A u \in Thread \ {t} : pc'[u] = pc[u] /\ sec'[u] = sec[u]
  BY <1>1, Basics, Zenon DEF CacheInv, Types
<1>5. Places'
  <2>1. AtFlush'
    BY <1>1, <1>4, Basics, Zenon DEF CacheInv, Types, Places, AtFlush
  <2>2. AtAny'
    BY <1>1, <1>4, Basics, Zenon DEF CacheInv, Types, Places, AtAny
  <2>3. AtHit'
    BY <1>1, <1>4, Basics, Zenon DEF CacheInv, Types, Places, AtHit
  <2>4. AtAlloc'
    BY <1>1, <1>4, Basics DEF CacheInv, Types, Places, AtAlloc, Holds
  <2>5. AtFill'
    BY <1>1, <1>4, Basics, Zenon DEF CacheInv, Types, Places, AtFill, Holds
  <2>6. Locks'
    BY <1>1, <1>4, Basics DEF CacheInv, Types, Places, Locks
  <2>7. QED BY <2>1, <2>2, <2>3, <2>4, <2>5, <2>6, Zenon DEF Places
<1>6. QED BY <1>2, <1>3, <1>5, Zenon DEF CacheInv

\* The search of the table: a hit, or a miss that keeps cache_lock.
LEMMA LookupKeeps ==
  ASSUME CacheInv, NEW t \in Client, Lookup(t)
  PROVE  CacheInv'
<1>1. /\ pc[t] = "start" /\ cache_lock = NULL
      /\ UNCHANGED <<sector, dirty_cnt, in_use, lock, data, disk, latest, stale, misread,
                     op, sec, val>>
  BY Zenon DEF Lookup, table, req
<1>2. Entries' /\ UniqueEntry' /\ (~ stale' => Kept')
  BY <1>1, TableUnchanged, Zenon
<1>3. t \in Thread /\ t # flusher /\ sec[t] \in Sector
  BY <1>1, Basics, Zenon DEF CacheInv, Places, AtAny
<1>4. CASE \E n \in Index : /\ in_use[n] /\ i' = [i EXCEPT ![t] = n]
                            /\ pc' = [pc EXCEPT ![t] = "hit"]
                            /\ UNCHANGED <<cache_lock, result>>
  <2>1. PICK n \in Index : /\ in_use[n] /\ i' = [i EXCEPT ![t] = n]
                           /\ pc' = [pc EXCEPT ![t] = "hit"]
                           /\ UNCHANGED <<cache_lock, result>>
    BY Zenon, <1>4
  <2>2. n \in 0..CACHE_SECTOR_CNT
    BY CacheAssumption DEF Index
  <2>3. Types'
    BY Zenon, <1>1, <2>1, <2>2 DEF CacheInv, Types
  <2>4. /\ pc'[t] = "hit" /\ i'[t] = n
        /\ \A u \in Thread \ {t} : pc'[u] = pc[u] /\ i'[u] = i[u]
    BY <1>3, <2>1, Zenon DEF CacheInv, Types
  <2>5. Places'
    <3>1. AtFlush'
      BY <1>1, <1>3, <2>1, <2>4, Basics, Zenon DEF CacheInv, Types, Places, AtFlush
    <3>2. AtAny'
      BY <1>1, <1>3, <2>1, <2>4, Basics, Zenon DEF CacheInv, Types, Places, AtAny
    <3>3. AtHit'
      BY <1>1, <1>3, <2>1, <2>4, Basics, Zenon DEF CacheInv, Types, Places, AtHit
    <3>4. AtAlloc'
      BY <1>1, <1>3, <2>1, <2>4, Basics, Zenon DEF CacheInv, Types, Places, AtAlloc, Holds
    <3>5. AtFill'
      BY <1>1, <1>3, <2>1, <2>4, Basics, Zenon DEF CacheInv, Types, Places, AtFill, Holds
    <3>6. Locks'
      BY <1>1, <1>3, <2>1, <2>4, Basics DEF CacheInv, Types, Places, Locks
    <3>7. QED BY <3>1, <3>2, <3>3, <3>4, <3>5, <3>6, Zenon DEF Places
  <2>6. QED BY <1>2, <2>3, <2>5, Zenon DEF CacheInv
<1>5. CASE /\ \A n \in Index : ~ Holds(n, sec[t])
           /\ cache_lock' = t
           /\ i' = [i EXCEPT ![t] = 0] /\ result' = [result EXCEPT ![t] = 0]
           /\ pc' = [pc EXCEPT ![t] = "alloc"]
  <2>1. Types'
    BY <1>1, <1>5, Basics, Zenon DEF CacheInv, Types
  <2>2. /\ pc'[t] = "alloc"
        /\ \A u \in Thread \ {t} : pc'[u] = pc[u] /\ i'[u] = i[u] /\ result'[u] = result[u]
    BY <1>3, <1>5, Zenon DEF CacheInv, Types
  <2>3. \A u \in Thread \ {t} : pc[u] # "alloc" /\ pc[u] # "flush"
    BY <1>1, Basics, Zenon DEF CacheInv, Places, AtFlush, AtAlloc
  <2>4. Places'
    <3>1. AtFlush'
      BY <1>1, <1>3, <1>5, <2>2, <2>3, Basics, Zenon DEF CacheInv, Types, Places, AtFlush
    <3>2. AtAny'
      BY <1>1, <1>3, <1>5, <2>2, <2>3, Basics, Zenon DEF CacheInv, Types, Places, AtAny
    <3>3. AtHit'
      BY <1>1, <1>3, <1>5, <2>2, <2>3, Basics, Zenon DEF CacheInv, Types, Places, AtHit
    <3>4. AtAlloc'
      BY <1>1, <1>3, <1>5, <2>2, <2>3, Basics DEF CacheInv, Types, Places, AtAlloc, Holds
    <3>5. AtFill'
      BY <1>1, <1>3, <1>5, <2>2, <2>3, Basics, Zenon DEF CacheInv, Types, Places, AtFill, Holds
    <3>6. Locks'
      BY <1>1, <1>3, <1>5, <2>2, <2>3, Basics DEF CacheInv, Types, Places, Locks
    <3>7. QED BY <3>1, <3>2, <3>3, <3>4, <3>5, <3>6, Zenon DEF Places
  <2>5. QED BY <1>2, <2>1, <2>4, Zenon DEF CacheInv
<1>6. QED BY <1>4, <1>5, Zenon DEF Lookup, Set, Goto, alloc, Holds

\* What a call that returns leaves of its thread.
LEMMA ReturnEffect ==
  ASSUME Types, NEW t \in Client, Return(t)
  PROVE  /\ pc' \in [Thread -> {"idle", "start", "hit", "alloc", "fill", "flush"}]
         /\ op' \in [Thread -> {"read", "write", NULL}]
         /\ sec' \in [Thread -> Sector \cup {NULL}]
         /\ val' \in [Thread -> Value \cup {NULL}]
         /\ i' \in [Thread -> 0..CACHE_SECTOR_CNT]
         /\ result' \in [Thread -> Index]
         /\ pc'[t] = "idle"
         /\ \A u \in Thread \ {t} : /\ pc'[u] = pc[u] /\ sec'[u] = sec[u]
                                    /\ i'[u] = i[u] /\ result'[u] = result[u]
BY Basics, Zenon DEF Types, Return, Goto, Set

\* What Transfer does to entry n: it reads the contents before, or replaces
\* them and the last value of the sector.
Transferred(t, n, before) ==
  /\ data' \in [Index -> Content] /\ dirty_cnt' \in [Index -> Nat]
  /\ latest' \in [Sector -> Content]
  /\ \A m \in Index \ {n} : data'[m] = data[m] /\ dirty_cnt'[m] = dirty_cnt[m]
  /\ \A s \in Sector \ {sec[t]} : latest'[s] = latest[s]
  /\ ~ misread /\ before = latest[sec[t]] => ~ misread'
  /\ \/ data'[n] = before /\ UNCHANGED <<dirty_cnt, latest>>
     \/ data'[n] = latest'[sec[t]] /\ dirty_cnt'[n] > 0

\* memcpy() to or from entry n, which holds the sector asked for or, with a
\* stale hit, another.
LEMMA TransferEffect ==
  ASSUME Types, NEW t \in Client, NEW n \in Index, NEW before \in Content,
         sec[t] \in Sector, Transfer(t, n, before)
  PROVE  Transferred(t, n, before)
<1>1. t \in Thread /\ val[t] \in Content
  BY Basics, Zenon DEF Types, Content
<1>2. CASE op[t] = "read"
  BY Zenon, <1>1, <1>2 DEF Transfer, Set, Types, Transferred
<1>3. CASE op[t] # "read"
  <2>1. /\ data' = [data EXCEPT ![n] = val[t]]
        /\ dirty_cnt' = [dirty_cnt EXCEPT ![n] = dirty_cnt[n] + 1]
        /\ latest' = [latest EXCEPT ![sec[t]] = val[t]]
        /\ misread' = misread
    BY <1>3, Zenon DEF Transfer, Set
  <2>2. dirty_cnt[n] \in Nat
    BY Zenon DEF Types
  <2>3. QED BY <1>1, <2>1, <2>2 DEF Types, Transferred
<1>4. QED BY <1>2, <1>3, Zenon

\* A hit copies to or from its entry, whatever sector that holds by now.
LEMMA HitKeeps ==
  ASSUME CacheInv, NEW t \in Client, Hit(t)
  PROVE  CacheInv'
<1>0. t \in Thread /\ t # flusher /\ sec[t] \in Sector /\ i[t] \in Index
  BY Basics, Zenon DEF Hit, CacheInv, Places, AtAny, AtHit, Types
<1>a. PICK n \in Index : n = i[t]
  BY <1>0, Zenon
<1>b. PICK before \in Content : before = data[n]
  BY Zenon DEF CacheInv, Types
<1>1. /\ pc[t] = "hit" /\ lock[n] = NULL /\ Transfer(t, n, before)
      /\ stale' = (stale \/ sector[n] # sec[t])
      /\ Return(t)
      /\ UNCHANGED <<sector, in_use, lock, cache_lock, disk>>
  BY <1>a, <1>b, Zenon DEF Hit, Transfer, Set
<1>2. in_use[n]
  BY <1>1, <1>a, Zenon DEF CacheInv, Places, AtHit
<1>3. Transferred(t, n, before)
  BY <1>0, <1>1, TransferEffect, Zenon DEF CacheInv
<1>4. /\ pc' \in [Thread -> {"idle", "start", "hit", "alloc", "fill", "flush"}]
      /\ op' \in [Thread -> {"read", "write", NULL}]
      /\ sec' \in [Thread -> Sector \cup {NULL}]
      /\ val' \in [Thread -> Value \cup {NULL}]
      /\ i' \in [Thread -> 0..CACHE_SECTOR_CNT]
      /\ result' \in [Thread -> Index]
      /\ pc'[t] = "idle"
      /\ \A u \in Thread \ {t} : /\ pc'[u] = pc[u] /\ sec'[u] = sec[u]
                                 /\ i'[u] = i[u] /\ result'[u] = result[u]
  BY <1>1, ReturnEffect, Zenon DEF CacheInv
<1>5. Types'
  BY <1>1, <1>3, <1>4, Zenon DEF CacheInv, Types, Transferred
<1>6. Places'
  <2>1. AtFlush'
    BY <1>0, <1>1, <1>2, <1>3, <1>4, Basics DEF CacheInv, Types, Places, AtFlush, Transferred
  <2>2. AtAny'
    BY <1>0, <1>1, <1>2, <1>3, <1>4, Basics, Zenon DEF CacheInv, Types, Places, AtAny, Transferred
  <2>3. AtHit'
    BY <1>0, <1>1, <1>2, <1>3, <1>4, Basics DEF CacheInv, Types, Places, AtHit, Transferred
  <2>4. AtAlloc'
    BY <1>0, <1>1, <1>2, <1>3, <1>4, Basics DEF CacheInv, Types, Places, AtAlloc, Holds, Transferred
  <2>5. AtFill'
    BY <1>0, <1>1, <1>2, <1>3, <1>4, Basics DEF CacheInv, Types, Places, AtFill, Holds, Transferred
  <2>6. Locks'
    BY <1>0, <1>1, <1>2, <1>3, <1>4, Basics DEF CacheInv, Types, Places, Locks, Transferred
  <2>7. QED BY <2>1, <2>2, <2>3, <2>4, <2>5, <2>6, Zenon DEF Places
<1>7. Entries' /\ UniqueEntry'
  BY <1>0, <1>1, <1>2, <1>3, Zenon DEF CacheInv, Entries, UniqueEntry, Transferred
<1>8. ASSUME ~ stale' PROVE Kept'
  <2>1. ~ stale /\ sector[n] = sec[t] /\ Kept /\ before = latest[sec[t]]
    BY Zenon, <1>b, <1>1, <1>2, <1>8 DEF CacheInv, Kept
  <2>2. ~ misread' /\ data'[n] = latest'[sec[t]]
    BY <1>3, <2>1, Zenon DEF Kept, Transferred
  <2>3. dirty_cnt'[n] = 0 => disk[sec[t]] = data'[n]
    BY <1>b, <1>0, <1>1, <1>2, <1>3, <2>1 DEF Kept, Transferred
  <2>4. \A m \in Index \ {n} : in_use[m] => sector[m] \in Sector \ {sec[t]}
    BY <1>0, <1>2, <2>1, Zenon DEF CacheInv, Entries, UniqueEntry
  <2>5. \A s \in Sector : (\A m \in Index : ~ Holds(m, s)) => s # sec[t]
    BY <1>0, <1>2, <2>1, Zenon DEF Holds
  <2>6. \A s : \A m \in Index : Holds(m, s)' <=> Holds(m, s)
    BY <1>1, Zenon DEF Holds
  <2>7. /\ \A m \in Index : in_use'[m] /\ lock'[m] = NULL =>
            /\ data'[m] = latest'[sector'[m]]
            /\ dirty_cnt'[m] = 0 => disk'[sector'[m]] = data'[m]
        /\ \A m \in Index : in_use'[m] /\ lock'[m] # NULL =>
            disk'[sector'[m]] = latest'[sector'[m]]
    BY <1>0, <1>1, <1>2, <1>3, <2>1, <2>2, <2>3, <2>4 DEF Kept, Transferred
  <2>8. \A s \in Sector : (\A m \in Index : ~ Holds(m, s)') => disk'[s] = latest'[s]
    BY <1>1, <1>3, <2>1, <2>5, <2>6, Zenon DEF Kept, Transferred
  <2>9. QED BY <2>2, <2>7, <2>8, Zenon DEF Kept
<1>9. QED BY <1>5, <1>6, <1>7, <1>8, Zenon DEF CacheInv

\* A miss reads its entry, which is still locked, from disk.
LEMMA FillKeeps ==
  ASSUME CacheInv, NEW t \in Client, Fill(t)
  PROVE  CacheInv'
<1>0. t \in Thread /\ t # flusher /\ sec[t] \in Sector /\ result[t] \in Index
  BY Basics, Zenon DEF Fill, CacheInv, Places, AtAny, Types
<1>a. PICK n \in Index : n = result[t]
  BY <1>0, Zenon
<1>b. PICK before \in Content : before = disk[sec[t]]
  BY <1>0, Zenon DEF CacheInv, Types
<1>1. /\ pc[t] = "fill" /\ Transfer(t, n, before) /\ lock' = [lock EXCEPT ![n] = NULL]
      /\ Return(t)
      /\ UNCHANGED <<sector, in_use, cache_lock, disk, stale>>
  BY <1>a, <1>b, Zenon DEF Fill, Transfer, Set
<1>2. lock[n] = t /\ t # NULL /\ in_use[n] /\ sector[n] = sec[t] /\ dirty_cnt[n] = 0
  <2>1. lock[n] = t /\ Holds(n, sec[t])
    BY <1>1, <1>a, Zenon DEF CacheInv, Places, AtFill
  <2>2. t # NULL
    BY Basics, Zenon
  <2>3. dirty_cnt[n] = 0
    BY <2>1, <2>2, Zenon DEF CacheInv, Places, Locks
  <2>4. QED BY <2>1, <2>2, <2>3, Zenon DEF Holds
<1>3. Transferred(t, n, before)
  BY <1>0, <1>1, TransferEffect, Zenon DEF CacheInv
<1>4. /\ pc' \in [Thread -> {"idle", "start", "hit", "alloc", "fill", "flush"}]
      /\ op' \in [Thread -> {"read", "write", NULL}]
      /\ sec' \in [Thread -> Sector \cup {NULL}]
      /\ val' \in [Thread -> Value \cup {NULL}]
      /\ i' \in [Thread -> 0..CACHE_SECTOR_CNT]
      /\ result' \in [Thread -> Index]
      /\ pc'[t] = "idle"
      /\ \A u \in Thread \ {t} : /\ pc'[u] = pc[u] /\ sec'[u] = sec[u]
                                 /\ i'[u] = i[u] /\ result'[u] = result[u]
  BY <1>1, ReturnEffect, Zenon DEF CacheInv
<1>5. /\ lock' \in [Index -> Client \cup {NULL}] /\ lock'[n] = NULL
      /\ \A m \in Index \ {n} : lock'[m] = lock[m]
  BY <1>1, Zenon DEF CacheInv, Types
<1>6. Types'
  BY <1>1, <1>3, <1>4, <1>5, Zenon DEF CacheInv, Types, Transferred
<1>7. Places'
  <2>1. \A u \in Client \ {t} : pc[u] = "fill" => result[u] # n
    BY <1>2, Zenon DEF CacheInv, Places, AtFill
  <2>2. \A m \in Index \ {n} : lock[m] # t
    BY <1>0, <1>2, <1>a DEF CacheInv, Places, Locks
  <2>3. \A m \in Index \ {n} : lock'[m] # NULL =>
          pc'[lock'[m]] = "fill" /\ result'[lock'[m]] = m /\ dirty_cnt'[m] = 0
    BY <1>3, <1>4, <1>5, <2>2, Basics DEF CacheInv, Types, Places, Locks, Transferred
  <2>4. QED
    <3>1. AtFlush'
      BY <1>0, <1>1, <1>4, <1>5, <2>1, <2>3, Basics DEF CacheInv, Types, Places, AtFlush
    <3>2. AtAny'
      BY <1>0, <1>1, <1>4, <1>5, <2>1, <2>3, Basics DEF CacheInv, Types, Places, AtAny
    <3>3. AtHit'
      BY <1>0, <1>1, <1>4, <1>5, <2>1, <2>3, Basics DEF CacheInv, Types, Places, AtHit
    <3>4. AtAlloc'
      BY <1>0, <1>1, <1>4, <1>5, <2>1, <2>3, Basics DEF CacheInv, Types, Places, AtAlloc, Holds
    <3>5. AtFill'
      BY <1>0, <1>1, <1>4, <1>5, <2>1, <2>3, Basics DEF CacheInv, Types, Places, AtFill, Holds
    <3>6. Locks'
      BY <1>0, <1>1, <1>4, <1>5, <2>1, <2>3, Basics, Zenon DEF CacheInv, Types, Places, Locks
    <3>7. QED BY <3>1, <3>2, <3>3, <3>4, <3>5, <3>6, Zenon DEF Places
<1>8. Entries' /\ UniqueEntry'
  BY <1>0, <1>1, <1>2, <1>3, Zenon DEF CacheInv, Entries, UniqueEntry, Transferred
<1>9. ASSUME ~ stale' PROVE Kept'
  <2>1. Kept /\ before = latest[sec[t]]
    BY <1>b, <1>1, <1>2, <1>9, Zenon DEF CacheInv, Kept
  <2>2. ~ misread' /\ data'[n] = latest'[sec[t]]
    BY <1>3, <2>1, Zenon DEF Kept, Transferred
  <2>3. dirty_cnt'[n] = 0 => disk[sec[t]] = data'[n]
    <3>1. data'[n] = before \/ dirty_cnt'[n] > 0
      BY <1>3, Zenon DEF Transferred
    <3>2. QED BY <1>b, <3>1
  <2>4. \A m \in Index \ {n} : in_use[m] => sector[m] \in Sector \ {sec[t]}
    BY <1>2, Zenon DEF CacheInv, Entries, UniqueEntry
  <2>5. \A s \in Sector : (\A m \in Index : ~ Holds(m, s)) => s # sec[t]
    BY <1>2, Zenon DEF Holds
  <2>6. \A s : \A m \in Index : Holds(m, s)' <=> Holds(m, s)
    BY <1>1, Zenon DEF Holds
  <2>7. /\ \A m \in Index : in_use'[m] /\ lock'[m] = NULL =>
            /\ data'[m] = latest'[sector'[m]]
            /\ dirty_cnt'[m] = 0 => disk'[sector'[m]] = data'[m]
        /\ \A m \in Index : in_use'[m] /\ lock'[m] # NULL =>
            disk'[sector'[m]] = latest'[sector'[m]]
    BY <1>1, <1>2, <1>3, <1>5, <2>1, <2>2, <2>3, <2>4 DEF Kept, Transferred
  <2>8. \A s \in Sector : (\A m \in Index : ~ Holds(m, s)') => disk'[s] = latest'[s]
    BY <1>1, <1>3, <2>1, <2>5, <2>6, Zenon DEF Kept, Transferred
  <2>9. QED BY <2>2, <2>7, <2>8, Zenon DEF Kept
<1>10. QED BY <1>6, <1>7, <1>8, <1>9, Zenon DEF CacheInv

\* The end of cache_alloc(): thread t has chosen entry n and written it back.
Assigned(t, n) ==
  /\ pc[t] = "alloc" /\ lock[n] = NULL /\ Assign(t, n)
  /\ result' \in [Thread -> Index] /\ result'[t] = n
  /\ \A u \in Thread \ {t} : result'[u] = result[u]
  /\ disk' = IF dirty_cnt[n] > 0 THEN [disk EXCEPT ![sector[n]] = data[n]] ELSE disk
  /\ UNCHANGED <<i, data, latest, stale, misread, op, sec, val>>

\* An entry that is free, or was written back, is given to the sector.
LEMMA AssignKeeps ==
  ASSUME CacheInv, NEW t \in Client, NEW n \in Index, Assigned(t, n)
  PROVE  CacheInv'
<1>a. pc[t] = "alloc" /\ lock[n] = NULL
  BY Zenon DEF Assigned
<1>b. /\ result' \in [Thread -> Index] /\ result'[t] = n
      /\ \A u \in Thread \ {t} : result'[u] = result[u]
  BY Zenon DEF Assigned
<1>c. disk' = IF dirty_cnt[n] > 0 THEN [disk EXCEPT ![sector[n]] = data[n]] ELSE disk
  BY Zenon DEF Assigned
<1>d. i' = i /\ sec' = sec /\ op' = op /\ val' = val
  BY Zenon DEF Assigned
<1>e. data' = data /\ latest' = latest /\ stale' = stale /\ misread' = misread
  BY Zenon DEF Assigned
<1>1. /\ sector' = [sector EXCEPT ![n] = sec[t]]
      /\ dirty_cnt' = [dirty_cnt EXCEPT ![n] = 0]
      /\ in_use' = [in_use EXCEPT ![n] = TRUE]
      /\ lock' = [lock EXCEPT ![n] = t]
      /\ cache_lock' = NULL /\ pc' = [pc EXCEPT ![t] = "fill"]
  BY Zenon DEF Assigned, Assign, Set, Goto
<1>2. /\ t \in Thread /\ t # flusher /\ t # NULL /\ sec[t] \in Sector
      /\ cache_lock = t /\ \A m \in Index : ~ Holds(m, sec[t])
  BY <1>a, Basics, Zenon DEF CacheInv, Places, AtAny, AtAlloc
<1>3. /\ sector'[n] = sec[t] /\ dirty_cnt'[n] = 0 /\ in_use'[n] /\ lock'[n] = t
      /\ \A m \in Index \ {n} : /\ sector'[m] = sector[m] /\ dirty_cnt'[m] = dirty_cnt[m]
                                /\ in_use'[m] = in_use[m] /\ lock'[m] = lock[m]
      /\ pc'[t] = "fill" /\ \A u \in Thread \ {t} : pc'[u] = pc[u]
  BY <1>1, <1>2, Zenon DEF CacheInv, Types
<1>4. disk' \in [Sector -> Content]
  <2>1. dirty_cnt[n] > 0 => sector[n] \in Sector /\ data[n] \in Content
    BY Zenon DEF CacheInv, Types, Entries
  <2>2. QED BY <1>c, <2>1, Zenon DEF CacheInv, Types
<1>5. Types'
  BY <1>1, <1>2, <1>4, <1>b, <1>d, <1>e, Zenon DEF CacheInv, Types
<1>6. Places'
  <2>1. \A u \in Thread \ {t} : pc[u] # "alloc" /\ pc[u] # "flush"
    BY <1>2, Basics, Zenon DEF CacheInv, Places, AtFlush, AtAlloc
  <2>2. \A u \in Client \ {t} : pc[u] = "fill" => result[u] # n
    BY <1>a, Basics DEF CacheInv, Places, AtFill
  <2>3. \A m \in Index \ {n} : lock[m] # t
    BY <1>2, <1>a, Zenon DEF CacheInv, Places, Locks
  <2>4. \A m \in Index : lock'[m] # NULL =>
          pc'[lock'[m]] = "fill" /\ result'[lock'[m]] = m /\ dirty_cnt'[m] = 0
    <3>1. \A m \in Index \ {n} : lock[m] # NULL =>
            /\ lock[m] \in Thread \ {t}
            /\ pc[lock[m]] = "fill" /\ result[lock[m]] = m /\ dirty_cnt[m] = 0
      BY <2>3, Basics DEF CacheInv, Types, Places, Locks
    <3>2. QED BY <1>3, <1>b, <3>1
  <2>5. \A u \in Client : pc'[u] = "fill" =>
          lock'[result'[u]] = u /\ in_use'[result'[u]] /\ sector'[result'[u]] = sec'[u]
    <3>1. \A u \in Client \ {t} : pc[u] = "fill" =>
            /\ result[u] \in Index \ {n}
            /\ lock[result[u]] = u /\ in_use[result[u]] /\ sector[result[u]] = sec[u]
      BY <2>2, Basics, Zenon DEF CacheInv, Types, Places, AtFill, Holds
    <3>2. QED BY <1>3, <1>b, <1>d, <3>1, Basics
  <2>6. \A u \in Client : pc'[u] = "hit" => i'[u] \in Index /\ in_use'[i'[u]]
    BY <1>3, <1>d, Basics DEF CacheInv, Places, AtHit
  <2>7. QED
    <3>1. AtFlush'
      BY <1>2, <1>3, <2>1, Basics, Zenon DEF CacheInv, Places, AtFlush
    <3>2. AtAny'
      BY <1>2, <1>3, <1>d, Basics, Zenon DEF CacheInv, Places, AtAny
    <3>3. AtHit'
      BY <2>6, Zenon DEF AtHit
    <3>4. AtAlloc'
      BY <1>3, <2>1, Basics, Zenon DEF AtAlloc
    <3>5. AtFill'
      BY <2>5, Zenon DEF AtFill, Holds
    <3>6. Locks'
      BY <2>4, Zenon DEF Locks
    <3>7. QED BY <3>1, <3>2, <3>3, <3>4, <3>5, <3>6, Zenon DEF Places
<1>7. Entries' /\ UniqueEntry'
  <2>1. \A m \in Index \ {n} : in_use[m] => sector[m] # sec[t]
    BY <1>2, Zenon DEF Holds
  <2>2. Entries'
    BY <1>2, <1>3, Zenon DEF CacheInv, Entries
  <2>3. UniqueEntry'
    <3> SUFFICES ASSUME NEW k \in Index, NEW m \in Index, in_use'[k], in_use'[m],
                        sector'[k] = sector'[m]
                 PROVE  k = m
      BY Zenon DEF UniqueEntry
    <3>1. CASE k # n /\ m # n
      <4>1. in_use[k] /\ in_use[m] /\ sector[k] = sector[m]
        BY <1>3, <3>1, Zenon
      <4>2. QED BY <4>1, Zenon DEF CacheInv, UniqueEntry
    <3>2. CASE k = n /\ m # n
      BY <1>3, <2>1, <3>2, Zenon
    <3>3. CASE k # n /\ m = n
      BY <1>3, <2>1, <3>3, Zenon
    <3>4. QED BY <3>1, <3>2, <3>3, Zenon
  <2>4. QED BY <2>2, <2>3, Zenon
<1>8. ASSUME ~ stale' PROVE Kept'
  <2>1. Kept
    BY <1>8, <1>e, Zenon DEF CacheInv
  <2>2. in_use[n] => /\ sector[n] \in Sector \ {sec[t]}
                     /\ disk'[sector[n]] = latest[sector[n]]
    <3> SUFFICES ASSUME in_use[n] PROVE /\ sector[n] \in Sector \ {sec[t]}
                                        /\ disk'[sector[n]] = latest[sector[n]]
      BY Zenon
    <3>1. sector[n] \in Sector \ {sec[t]} /\ data[n] = latest[sector[n]]
          /\ (dirty_cnt[n] = 0 => disk[sector[n]] = data[n]) /\ dirty_cnt[n] \in Nat
      BY <1>2, <1>a, <2>1, Zenon DEF CacheInv, Types, Entries, Kept, Holds
    <3>2. QED BY <1>c, <3>1 DEF CacheInv, Types
  <2>3. \A s \in Sector : s # sector[n] \/ ~ in_use[n] => disk'[s] = disk[s]
    BY <1>c, Zenon DEF CacheInv, Types, Entries
  <2>4. \A m \in Index \ {n} : in_use[m] => sector[m] \in Sector /\ disk'[sector[m]] = disk[sector[m]]
    BY <2>3, Zenon DEF CacheInv, Entries, UniqueEntry
  <2>5. disk'[sec[t]] = latest[sec[t]]
    BY <1>2, <2>1, <2>2, <2>3, Zenon DEF Kept
  <2>6. /\ \A m \in Index : in_use'[m] /\ lock'[m] = NULL =>
            /\ data'[m] = latest'[sector'[m]]
            /\ dirty_cnt'[m] = 0 => disk'[sector'[m]] = data'[m]
        /\ \A m \in Index : in_use'[m] /\ lock'[m] # NULL =>
            disk'[sector'[m]] = latest'[sector'[m]]
    <3> SUFFICES ASSUME NEW m \in Index, in_use'[m]
                 PROVE  /\ lock'[m] = NULL => /\ data'[m] = latest'[sector'[m]]
                                              /\ dirty_cnt'[m] = 0 => disk'[sector'[m]] = data'[m]
                        /\ lock'[m] # NULL => disk'[sector'[m]] = latest'[sector'[m]]
      BY Zenon
    <3>1. CASE m = n
      BY <1>2, <1>3, <1>e, <2>5, <3>1, Zenon
    <3>2. CASE m # n
      <4>1. /\ in_use[m] /\ sector'[m] = sector[m] /\ lock'[m] = lock[m]
            /\ dirty_cnt'[m] = dirty_cnt[m] /\ disk'[sector[m]] = disk[sector[m]]
        BY <1>3, <2>4, <3>2, Zenon
      <4>2. QED BY <1>e, <2>1, <4>1, Zenon DEF Kept
    <3>3. QED BY <3>1, <3>2, Zenon
  <2>7. ASSUME NEW s \in Sector, \A m \in Index : ~ Holds(m, s)'
        PROVE  disk'[s] = latest'[s]
    <3>1. \A m \in Index \ {n} : ~ Holds(m, s)
      BY Zenon, <1>3, <2>7 DEF Holds
    <3>2. CASE Holds(n, s)
      BY <1>e, <2>2, <3>2, Zenon DEF Holds
    <3>3. CASE ~ Holds(n, s)
      <4>1. disk[s] = latest[s]
        BY <2>1, <3>1, <3>3, Zenon DEF Kept
      <4>2. s # sector[n] \/ ~ in_use[n]
        BY <3>3, Zenon DEF Holds
      <4>3. QED BY <1>e, <2>3, <4>1, <4>2, Zenon
    <3>4. QED BY <3>2, <3>3, Zenon
  <2>8. QED BY <1>e, <2>1, <2>6, <2>7, Zenon DEF Kept
<1>9. QED BY <1>5, <1>6, <1>7, <1>8, Zenon DEF CacheInv

\* One turn of cache_alloc()'s loop.
LEMMA ScanKeeps ==
  ASSUME CacheInv, NEW t \in Client, ScanAlloc(t)
  PROVE  CacheInv'
<1>1. /\ pc[t] = "alloc" /\ i[t] < CACHE_SECTOR_CNT /\ lock[i[t]] = NULL
      /\ UNCHANGED <<data, disk, op, sec, val, latest, stale, misread>>
  BY Zenon DEF ScanAlloc, req
<1>2. t \in Thread /\ t # flusher /\ i[t] \in Index /\ i[t] + 1 \in 0..CACHE_SECTOR_CNT
  BY <1>1, Basics, CacheAssumption DEF CacheInv, Types, Index
<1>3. PICK n \in Index : n = i[t]
  BY <1>2, Zenon
<1>4. CASE ~ in_use[n] /\ result' = [result EXCEPT ![t] = n] /\ Assign(t, n) /\ i' = i
  <2>1. /\ result' \in [Thread -> Index] /\ result'[t] = n
        /\ \A u \in Thread \ {t} : result'[u] = result[u]
    BY <1>2, <1>4, Zenon DEF CacheInv, Types
  <2>2. ~ (dirty_cnt[n] > 0)
    BY <1>4, Zenon DEF CacheInv, Entries
  <2>3. disk' = IF dirty_cnt[n] > 0 THEN [disk EXCEPT ![sector[n]] = data[n]] ELSE disk
    BY <1>1, <2>2, Zenon
  <2>4. Assigned(t, n)
    BY <1>1, <1>3, <1>4, <2>1, <2>3, Zenon DEF Assigned
  <2>5. QED BY <2>4, AssignKeeps, Zenon
<1>5. CASE /\ \E r \in {n, result[t]} : result' = [result EXCEPT ![t] = r]
           /\ i' = [i EXCEPT ![t] = n + 1]
           /\ UNCHANGED <<sector, dirty_cnt, in_use, lock, cache_lock, pc>>
  <2>1. Types'
    BY <1>1, <1>2, <1>3, <1>5 DEF CacheInv, Types
  <2>2. \A u \in Thread \ {t} : result'[u] = result[u] /\ i'[u] = i[u]
    BY <1>5, Zenon DEF CacheInv, Types
  <2>3. \A m \in Index : lock[m] # t
    BY <1>1, <1>2, Basics, Zenon DEF CacheInv, Places, Locks
  <2>4. Places'
    <3>1. AtFlush'
      BY <1>1, <1>2, <1>5, <2>2, <2>3, Basics, Zenon DEF CacheInv, Types, Places, AtFlush
    <3>2. AtAny'
      BY <1>1, <1>2, <1>5, <2>2, <2>3, Basics, Zenon DEF CacheInv, Types, Places, AtAny
    <3>3. AtHit'
      BY <1>1, <1>2, <1>5, <2>2, <2>3, Basics, Zenon DEF CacheInv, Types, Places, AtHit
    <3>4. AtAlloc'
      BY <1>1, <1>2, <1>5, <2>2, <2>3, Basics, Zenon DEF CacheInv, Types, Places, AtAlloc, Holds
    <3>5. AtFill'
      BY <1>1, <1>2, <1>5, <2>2, <2>3, Basics DEF CacheInv, Types, Places, AtFill, Holds
    <3>6. Locks'
      BY <1>1, <1>2, <1>5, <2>2, <2>3, Basics DEF CacheInv, Types, Places, Locks
    <3>7. QED BY <3>1, <3>2, <3>3, <3>4, <3>5, <3>6, Zenon DEF Places
  <2>5. Entries' /\ UniqueEntry' /\ (~ stale' => Kept')
    BY <1>1, <1>5, TableUnchanged, Zenon
  <2>6. QED BY <2>1, <2>4, <2>5, Zenon DEF CacheInv
<1>6. \/ ~ in_use[n] /\ result' = [result EXCEPT ![t] = n] /\ Assign(t, n) /\ i' = i
      \/ /\ \E r \in {n, result[t]} : result' = [result EXCEPT ![t] = r]
         /\ i' = [i EXCEPT ![t] = n + 1]
         /\ UNCHANGED <<sector, dirty_cnt, in_use, lock, cache_lock, pc>>
  BY <1>3, Zenon DEF ScanAlloc, Assign, Set, Goto, table
<1>7. QED BY <1>4, <1>5, <1>6, Zenon

\* Eviction writes a dirty victim back before its entry changes hands.
LEMMA EvictKeeps ==
  ASSUME CacheInv, NEW t \in Client, Evict(t)
  PROVE  CacheInv'
<1>1. t \in Thread /\ result[t] \in Index
  BY Basics, Zenon DEF CacheInv, Types
<1>2. PICK n \in Index : n = result[t]
  BY <1>1, Zenon
<1>3. /\ pc[t] = "alloc" /\ lock[n] = NULL /\ Assign(t, n)
      /\ disk' = IF dirty_cnt[n] > 0 THEN [disk EXCEPT ![sector[n]] = data[n]] ELSE disk
      /\ UNCHANGED <<i, data, latest, stale, misread, op, sec, val, result>>
  BY <1>2, Zenon DEF Evict, Assign, Set, Goto, req, alloc
<1>4. /\ result' \in [Thread -> Index] /\ result'[t] = n
      /\ \A u \in Thread \ {t} : result'[u] = result[u]
  BY <1>2, <1>3, Zenon DEF CacheInv, Types
<1>5. Assigned(t, n)
  BY <1>3, <1>4, Zenon DEF Assigned
<1>6. QED BY <1>5, AssignKeeps, Zenon

\* cache_flush() takes cache_lock, writes the dirty entries back one by one,
\* and lets go of the lock.
LEMMA FlushKeeps ==
  ASSUME CacheInv, Flush
  PROVE  CacheInv'
<1>1. CASE cache_flush
  <2>1. /\ pc[flusher] = "idle" /\ cache_lock = NULL /\ cache_lock' = flusher
        /\ i' = [i EXCEPT ![flusher] = 0] /\ pc' = [pc EXCEPT ![flusher] = "flush"]
        /\ UNCHANGED <<sector, dirty_cnt, in_use, lock, data, disk, latest, stale, misread,
                       op, sec, val, result>>
    BY <1>1, Zenon DEF cache_flush, Set, Goto, table, req, alloc
  <2>2. Types'
    BY <2>1, Basics, Zenon DEF CacheInv, Types
  <2>3. /\ pc'[flusher] = "flush"
        /\ \A u \in Client : pc'[u] = pc[u] /\ i'[u] = i[u]
        /\ \A u \in Client : pc[u] # "alloc"
    BY <2>1, Basics, Zenon DEF CacheInv, Types, Places, AtFlush, AtAlloc
  <2>4. Places'
    <3>1. AtFlush'
      BY <2>1, <2>3, Basics, Zenon DEF CacheInv, Types, Places, AtFlush
    <3>2. AtAny'
      BY <2>1, <2>3, Basics, Zenon DEF CacheInv, Types, Places, AtAny
    <3>3. AtHit'
      BY <2>1, <2>3, Basics, Zenon DEF CacheInv, Types, Places, AtHit
    <3>4. AtAlloc'
      BY <2>1, <2>3, Basics, Zenon DEF CacheInv, Types, Places, AtAlloc, Holds
    <3>5. AtFill'
      BY <2>1, <2>3, Basics, Zenon DEF CacheInv, Types, Places, AtFill, Holds
    <3>6. Locks'
      BY <2>1, <2>3, Basics DEF CacheInv, Types, Places, Locks
    <3>7. QED BY <3>1, <3>2, <3>3, <3>4, <3>5, <3>6, Zenon DEF Places
  <2>5. Entries' /\ UniqueEntry' /\ (~ stale' => Kept')
    BY <2>1, TableUnchanged, Zenon
  <2>6. QED BY <2>2, <2>4, <2>5, Zenon DEF CacheInv
<1>2. CASE FlushEntry
  <2>1. /\ pc[flusher] = "flush" /\ i[flusher] < CACHE_SECTOR_CNT
        /\ i[flusher] \in Index /\ i[flusher] + 1 \in 0..CACHE_SECTOR_CNT
    BY <1>2, Basics, CacheAssumption DEF FlushEntry, CacheInv, Types, Index
  <2>2. PICK n \in Index : n = i[flusher]
    BY <2>1, Zenon
  <2>3. /\ lock[n] = NULL /\ i' = [i EXCEPT ![flusher] = n + 1]
        /\ \/ /\ in_use[n]
              /\ disk' = [disk EXCEPT ![sector[n]] = data[n]]
              /\ dirty_cnt' = [dirty_cnt EXCEPT ![n] = 0]
           \/ disk' = disk /\ dirty_cnt' = dirty_cnt
        /\ UNCHANGED <<sector, in_use, lock, cache_lock, data, latest, stale, misread,
                       pc, op, sec, val, result>>
    BY <1>2, <2>2, Zenon DEF FlushEntry, Set, req, alloc
  <2>4. in_use[n] => sector[n] \in Sector /\ data[n] \in Content
    BY Zenon DEF CacheInv, Types, Entries
  <2>5. Types'
    <3>1. i' \in [Thread -> 0..CACHE_SECTOR_CNT]
      BY Zenon, <2>1, <2>2, <2>3 DEF CacheInv, Types
    <3>2. disk' \in [Sector -> Content] /\ dirty_cnt' \in [Index -> Nat]
      BY <2>3, <2>4 DEF CacheInv, Types
    <3>3. QED BY <2>3, <3>1, <3>2, Zenon DEF CacheInv, Types
  <2>6. /\ \A u \in Client : i'[u] = i[u]
        /\ \A m \in Index : dirty_cnt'[m] = dirty_cnt[m] \/ (m = n /\ dirty_cnt'[m] = 0)
    BY <2>3, Basics, Zenon DEF CacheInv, Types
  <2>7. Places'
    <3>1. AtFlush'
      BY <2>3, <2>6, Basics, Zenon DEF CacheInv, Types, Places, AtFlush
    <3>2. AtAny'
      BY <2>3, <2>6, Basics, Zenon DEF CacheInv, Types, Places, AtAny
    <3>3. AtHit'
      BY <2>3, <2>6, Basics, Zenon DEF CacheInv, Types, Places, AtHit
    <3>4. AtAlloc'
      BY <2>3, <2>6, Basics, Zenon DEF CacheInv, Types, Places, AtAlloc, Holds
    <3>5. AtFill'
      BY <2>3, <2>6, Basics, Zenon DEF CacheInv, Types, Places, AtFill, Holds
    <3>6. Locks'
      BY <2>3, <2>6, Basics, Zenon DEF CacheInv, Types, Places, Locks
    <3>7. QED BY <3>1, <3>2, <3>3, <3>4, <3>5, <3>6, Zenon DEF Places
  <2>8. Entries' /\ UniqueEntry'
    BY <2>3, <2>6, Zenon DEF CacheInv, Entries, UniqueEntry
  <2>9. ASSUME ~ stale' PROVE Kept'
    <3>1. Kept
      BY <2>3, <2>9, Zenon DEF CacheInv
    <3>2. CASE disk' = disk /\ dirty_cnt' = dirty_cnt
      BY <2>3, <3>1, <3>2, Zenon DEF Kept, Holds
    <3>3. CASE /\ in_use[n]
               /\ disk' = [disk EXCEPT ![sector[n]] = data[n]]
               /\ dirty_cnt' = [dirty_cnt EXCEPT ![n] = 0]
      <4>1. /\ sector[n] \in Sector /\ disk'[sector[n]] = data[n]
            /\ data[n] = latest[sector[n]]
            /\ \A s \in Sector \ {sector[n]} : disk'[s] = disk[s]
            /\ \A m \in Index \ {n} : dirty_cnt'[m] = dirty_cnt[m]
        BY <2>3, <2>4, <3>1, <3>3, Zenon DEF CacheInv, Types, Kept
      <4>2. \A m \in Index \ {n} : in_use[m] => sector[m] \in Sector \ {sector[n]}
        BY <3>3, Zenon DEF CacheInv, Entries, UniqueEntry
      <4>3. \A s : \A m \in Index : Holds(m, s)' <=> Holds(m, s)
        BY <2>3, Zenon DEF Holds
      <4>4. \A s \in Sector : (\A m \in Index : ~ Holds(m, s)') => disk'[s] = latest'[s]
        <5> SUFFICES ASSUME NEW s \in Sector, \A m \in Index : ~ Holds(m, s)'
                     PROVE  disk'[s] = latest'[s]
          BY Zenon
        <5>1. \A m \in Index : ~ Holds(m, s)
          BY <4>3, Zenon
        <5>2. disk[s] = latest[s]
          BY <3>1, <5>1, Zenon DEF Kept
        <5>3. s # sector[n]
          BY <3>3, <5>1, Zenon DEF Holds
        <5>4. QED BY <2>3, <4>1, <5>2, <5>3, Zenon
      <4>5. /\ \A m \in Index : in_use'[m] /\ lock'[m] = NULL =>
                /\ data'[m] = latest'[sector'[m]]
                /\ dirty_cnt'[m] = 0 => disk'[sector'[m]] = data'[m]
            /\ \A m \in Index : in_use'[m] /\ lock'[m] # NULL =>
                disk'[sector'[m]] = latest'[sector'[m]]
        BY <2>3, <3>1, <4>1, <4>2, Zenon DEF Kept
      <4>6. QED BY <2>3, <3>1, <4>4, <4>5, Zenon DEF Kept
    <3>4. QED BY <2>3, <3>2, <3>3, Zenon
  <2>10. QED BY <2>5, <2>7, <2>8, <2>9, Zenon DEF CacheInv
<1>3. CASE FlushEnd
  <2>1. /\ pc[flusher] = "flush" /\ cache_lock' = NULL
        /\ pc' = [pc EXCEPT ![flusher] = "idle"]
        /\ UNCHANGED <<sector, dirty_cnt, in_use, lock, data, disk, latest, stale, misread,
                       i, op, sec, val, result>>
    BY Zenon, <1>3 DEF FlushEnd, Goto, table, req, alloc
  <2>2. Types'
    BY Zenon, <2>1 DEF CacheInv, Types
  <2>3. /\ pc'[flusher] = "idle" /\ \A u \in Client : pc'[u] = pc[u] /\ pc[u] # "alloc"
    BY <2>1, Basics, Zenon DEF CacheInv, Types, Places, AtFlush, AtAlloc
  <2>4. Places'
    <3>1. AtFlush'
      BY <2>1, <2>3, Basics, Zenon DEF CacheInv, Types, Places, AtFlush
    <3>2. AtAny'
      BY <2>1, <2>3, Basics, Zenon DEF CacheInv, Types, Places, AtAny
    <3>3. AtHit'
      BY <2>1, <2>3, Basics, Zenon DEF CacheInv, Types, Places, AtHit
    <3>4. AtAlloc'
      BY <2>1, <2>3, Basics, Zenon DEF CacheInv, Types, Places, AtAlloc, Holds
    <3>5. AtFill'
      BY <2>1, <2>3, Basics, Zenon DEF CacheInv, Types, Places, AtFill, Holds
    <3>6. Locks'
      BY <2>1, <2>3, Basics DEF CacheInv, Types, Places, Locks
    <3>7. QED BY <3>1, <3>2, <3>3, <3>4, <3>5, <3>6, Zenon DEF Places
  <2>5. Entries' /\ UniqueEntry' /\ (~ stale' => Kept')
    BY <2>1, TableUnchanged, Zenon
  <2>6. QED BY <2>2, <2>4, <2>5, Zenon DEF CacheInv
<1>4. QED BY <1>1, <1>2, <1>3, Zenon DEF Flush

\* Every step of the cache keeps the invariant.
LEMMA NextKeeps ==
  ASSUME CacheInv, [Next]_vars
  PROVE  CacheInv'
<1>1. CASE \E t \in Client : Serve(t)
  BY <1>1, LookupKeeps, HitKeeps, FillKeeps, ScanKeeps, EvictKeeps, Zenon DEF Serve
<1>2. CASE \E t \in Client, s \in Sector :
             cache_read_at(t, s) \/ \E v \in Value : cache_write_at(t, s, v)
  BY <1>2, RequestKeeps, Zenon DEF cache_read_at, cache_write_at
<1>3. CASE UNCHANGED vars
  <2>1. UNCHANGED <<sector, dirty_cnt, in_use, lock, cache_lock, data, disk, latest, stale,
                    misread, pc, op, sec, val, i, result>>
    BY <1>3, Zenon DEF vars, table, req, alloc
  <2>2. Types' /\ Places'
    BY <2>1, Zenon DEF CacheInv, Types, Places, AtFlush, AtAny, AtHit, AtAlloc, AtFill, Locks, Holds
  <2>3. Entries' /\ UniqueEntry' /\ (~ stale' => Kept')
    BY <2>1, TableUnchanged, Zenon
  <2>4. QED BY <2>2, <2>3, Zenon DEF CacheInv
<1>4. QED BY <1>1, <1>2, <1>3, FlushKeeps, Zenon DEF Next

\* The invariant of the table, its locks and the contents holds in every
\* reachable state.
THEOREM CacheInvariance ==
  Spec => []CacheInv
BY InitKeeps, NextKeeps, PTL DEF Spec

\* cache_alloc() never gives a sector a second entry.
THEOREM EntriesAreUnique ==
  Spec => []UniqueEntry
<1>1. CacheInv => UniqueEntry
  BY Zenon DEF CacheInv
<1>2. QED BY <1>1, CacheInvariance, PTL

\* Reads, writes, evictions and flushes keep the last value written to every
\* sector, and reads return it, until a hit uses a stale entry.
THEOREM CacheIsCoherent ==
  Spec => []Coherent
<1>1. CacheInv => Coherent
  <2> SUFFICES ASSUME CacheInv, ~ stale, NEW s \in Sector
               PROVE  ReadsLatest /\ Current(s) = latest[s]
    BY Zenon DEF Coherent, CacheInv, Kept, ReadsLatest
  <2>1. Kept
    BY Zenon DEF CacheInv
  <2>2. \A n \in Index : Filling(n) <=> lock[n] # NULL
    <3>1. \A n \in Index : lock[n] # NULL => lock[n] \in Client
      BY Zenon DEF CacheInv, Types
    <3>2. QED BY <3>1, Basics DEF CacheInv, Places, AtFlush, AtAny, AtHit, AtAlloc, AtFill, Locks, Filling
  <2>3. CASE \E n \in Index : in_use[n] /\ sector[n] = s /\ ~ Filling(n)
    <3> DEFINE n == CHOOSE m \in Index : in_use[m] /\ sector[m] = s /\ ~ Filling(m)
    <3>1. n \in Index /\ in_use[n] /\ sector[n] = s /\ ~ Filling(n)
      BY <2>3, Zenon
    <3>2. Current(s) = data[n]
      BY <2>3, Zenon DEF Current
    <3> HIDE DEF n
    <3>3. QED BY <2>1, <2>2, <3>1, <3>2, Zenon DEF Kept, ReadsLatest
  <2>4. CASE ~ \E n \in Index : in_use[n] /\ sector[n] = s /\ ~ Filling(n)
    <3>1. Current(s) = disk[s]
      BY <2>4, Zenon DEF Current
    <3>2. CASE \E n \in Index : Holds(n, s)
      <4>1. PICK n \in Index : in_use[n] /\ sector[n] = s
        BY <3>2, Zenon DEF Holds
      <4>2. lock[n] # NULL
        BY <2>2, <2>4, <4>1, Zenon
      <4>3. disk[sector[n]] = latest[sector[n]]
        BY <2>1, <4>1, <4>2, Zenon DEF Kept
      <4>4. QED BY <2>1, <3>1, <4>1, <4>3, Zenon DEF Kept, ReadsLatest
    <3>3. CASE \A n \in Index : ~ Holds(n, s)
      BY <2>1, <3>1, <3>3, Zenon DEF Kept, ReadsLatest
    <3>4. QED BY <3>2, <3>3, Zenon
  <2>5. QED BY <2>3, <2>4, Zenon
<1>2. QED BY <1>1, CacheInvariance, PTL
====
