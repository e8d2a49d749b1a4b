------------------------------- MODULE Memory -------------------------------
(***************************************************************************)
(* The allocators of pages (threads/palloc.c) and of blocks                *)
(* (threads/malloc.c), and the bitmaps they rest on (lib/kernel/bitmap.c). *)
(*                                                                         *)
(* An address counts units of memory, PGSIZE of them to a page; a struct   *)
(* bitmap and an element of a bitmap take one each.  A step ends where     *)
(* another thread can run to an effect: bits are tested and set one group, *)
(* and cleared one bit, at a time, with interrupts on.  What blocks hold   *)
(* is left out.                                                            *)
(***************************************************************************)
EXTENDS Integers, Sequences, FiniteSets, SequencesExt

CONSTANTS
  Thread,
  PGSIZE, SizeofArena, ELEM_BITS, SIZE_MAX,
  FreePages, UserPageLimit,  \* pages of memory, and at most for the user pool
  Sizes,                     \* bound: arguments of malloc() and calloc()
  MaxLive                    \* bound: blocks handed out at once

VARIABLES
  pool,       \* [kernel, user -> used_map, base]
  pool_lock,  \* [kernel, user -> holder]
  arena,      \* [page -> header at its start]; desc is 0 for a big block
  free_list,  \* [descriptor -> sequence of addresses]
  desc_lock,  \* [descriptor -> holder]
  live,       \* history: memory handed out, [addr, len, pages]
  th,         \* [Thread -> the call in progress]
  panicked    \* "no", "pages" (PAL_ASSERT) or "assert"
vars == <<pool, pool_lock, arena, free_list, desc_lock, live, th, panicked>>

DIV_ROUND_UP(x, step) == (x + step - 1) \div step
Nobody == "nobody"
Idle == [pc |-> "idle", d |-> 0, size |-> 0, cnt |-> 0, idx |-> 0, pool |-> "kernel",
         old |-> -1]

----------------------------------------------------------------------------
(* Bitmaps: elements of ELEM_BITS bits, an element being the set of its 1s. *)

elem_idx(i) == i \div ELEM_BITS
bit_mask(i) == {i % ELEM_BITS}
elem_cnt(n) == DIV_ROUND_UP(n, ELEM_BITS)
bitmap_buf_size(n) == 1 + elem_cnt(n)
bitmap_mark(b, i) == [b EXCEPT !.bits[elem_idx(i)] = @ \cup bit_mask(i)]
bitmap_reset(b, i) == [b EXCEPT !.bits[elem_idx(i)] = @ \ bit_mask(i)]
bitmap_set(b, i, value) == IF value THEN bitmap_mark(b, i) ELSE bitmap_reset(b, i)
bitmap_test(b, i) == b.bits[elem_idx(i)] \cap bit_mask(i) # {}
bitmap_set_multiple(b, start, cnt, value) ==
  FoldLeft(LAMBDA c, i : bitmap_set(c, start + i - 1, value), b, [i \in 1 .. cnt |-> i])
bitmap_contains(b, start, cnt, value) ==
  \E i \in start .. start + cnt - 1 : bitmap_test(b, i) = value
bitmap_all(b, start, cnt) == ~ bitmap_contains(b, start, cnt, FALSE)
bitmap_create_in_buf(n) ==
  [bit_cnt |-> n, bits |-> [e \in 0 .. elem_cnt(n) - 1 |-> {}]]

----------------------------------------------------------------------------
(* Pools.  The bitmap of a pool is in its first pages.                     *)

init_pool(base, page_cnt) ==
  LET bm_pages == DIV_ROUND_UP(bitmap_buf_size(page_cnt), PGSIZE) IN
  [used_map |-> bitmap_create_in_buf(page_cnt - bm_pages), base |-> base + bm_pages]

palloc_init ==
  LET half == FreePages \div 2
      user == IF half > UserPageLimit THEN UserPageLimit ELSE half
  IN  [kernel |-> init_pool(0, FreePages - user), user |-> init_pool(FreePages - user, user)]

page_from_pool(p, page) ==
  page >= pool[p].base /\ page < pool[p].base + pool[p].used_map.bit_cnt

PoolOf(page) == IF page_from_pool("kernel", page) THEN "kernel" ELSE "user"

----------------------------------------------------------------------------
(* Descriptors: block sizes 1, 2, 4, ... below half a page.                *)

block_size(d) == 2 ^ (d - 1)
Desc == {d \in 1 .. PGSIZE : block_size(d) < PGSIZE \div 2}
blocks_per_arena(d) == (PGSIZE - SizeofArena) \div block_size(d)
arena_to_block(a, d, idx) == a * PGSIZE + SizeofArena + idx * block_size(d)
block_to_arena(b) == b \div PGSIZE
block_is_valid(b) ==
  LET a == arena[block_to_arena(b)]
      ofs == (b % PGSIZE) - SizeofArena
  IN  a.magic /\ IF a.desc = 0 THEN ofs = 0 ELSE ofs % block_size(a.desc) = 0
Blocks(a, d) == [i \in 1 .. blocks_per_arena(d) |-> arena_to_block(a, d, i - 1)]
NoArena == [magic |-> FALSE, desc |-> 0, free_cnt |-> 0]

Init ==
  /\ pool = palloc_init
  /\ pool_lock = [p \in {"kernel", "user"} |-> Nobody]
  /\ arena = [a \in 0 .. FreePages - 1 |-> NoArena]
  /\ free_list = [d \in Desc |-> <<>>]
  /\ desc_lock = [d \in Desc |-> Nobody]
  /\ live = {} /\ panicked = "no"
  /\ th = [t \in Thread |-> Idle]

At(t, pc) == panicked = "no" /\ th[t].pc = pc
Goto(t, pc) == th' = [th EXCEPT ![t].pc = pc]
Room == Cardinality(live) + Cardinality({t \in Thread : th[t].pc # "idle"}) < MaxLive
Return(t) == th' = [th EXCEPT ![t] = Idle]
Release(t) == desc_lock' = [d \in Desc |-> IF desc_lock[d] = t THEN Nobody ELSE desc_lock[d]]

----------------------------------------------------------------------------
(* palloc_get_multiple(): th.idx is the index bitmap_scan() has come to.   *)

palloc_get(t, p, cnt) ==
  /\ At(t, "idle") /\ cnt > 0 /\ Room
  /\ th' = [th EXCEPT ![t] = [Idle EXCEPT !.pc = "pool", !.pool = p, !.cnt = cnt]]
  /\ UNCHANGED <<pool, pool_lock, arena, free_list, desc_lock, live, panicked>>

\* Mutant: the lock of the pool is not taken.
pool_free_Always(t) == TRUE
pool_free(t) == pool_lock[th[t].pool] = Nobody

PoolLock(t) ==
  /\ At(t, "pool") /\ pool_free(t)
  /\ pool_lock' = [pool_lock EXCEPT ![th[t].pool] = t]
  /\ Goto(t, "scan")
  /\ UNCHANGED <<pool, arena, free_list, desc_lock, live, panicked>>

\* A turn of the loop of bitmap_scan().
bitmap_scan(t) ==
  LET b == pool[th[t].pool].used_map
      last == b.bit_cnt - th[t].cnt
  IN
  /\ At(t, "scan")
  /\ \/ /\ th[t].idx > last
        /\ pool_lock' = [pool_lock EXCEPT ![th[t].pool] = Nobody]
        /\ Goto(t, "none")
     \/ /\ th[t].idx <= last
        /\ th' = IF bitmap_contains(b, th[t].idx, th[t].cnt, TRUE)
                   THEN [th EXCEPT ![t].idx = @ + 1] ELSE [th EXCEPT ![t].pc = "flip"]
        /\ UNCHANGED pool_lock
  /\ UNCHANGED <<pool, arena, free_list, desc_lock, live, panicked>>

\* The rest of bitmap_scan_and_flip(), and what follows the lock_release().
Flip(t) ==
  LET x == th[t] IN
  /\ At(t, "flip")
  /\ pool' = [pool EXCEPT ![x.pool].used_map = bitmap_set_multiple(@, x.idx, x.cnt, TRUE)]
  /\ pool_lock' = [pool_lock EXCEPT ![x.pool] = Nobody]
  /\ IF x.size = 0
       THEN /\ live' = live \cup {[addr  |-> (pool[x.pool].base + x.idx) * PGSIZE,
                                   len   |-> x.cnt * PGSIZE, pages |-> TRUE]}
            /\ Return(t)
       ELSE Goto(t, "got") /\ UNCHANGED live
  /\ UNCHANGED <<arena, free_list, desc_lock, panicked>>

\* There are too few pages: a null pointer, or a panic if PAL_ASSERT is set.
NoPages(t) ==
  /\ At(t, "none")
  /\ Release(t) /\ Return(t)
  /\ panicked' \in IF th[t].size = 0 /\ th[t].pool = "kernel" THEN {"no", "pages"} ELSE {"no"}
  /\ UNCHANGED <<pool, pool_lock, arena, free_list, live>>

\* palloc_free_multiple(): the pages are overwritten, then their bits cleared.
palloc_free_multiple(t, page, cnt) ==
  LET p == PoolOf(page)
      i == page - pool[p].base
  IN
  /\ arena' = [a \in DOMAIN arena |-> IF a \in page .. page + cnt - 1 THEN NoArena ELSE arena[a]]
  /\ panicked' = IF page_from_pool(p, page) /\ i + cnt <= pool[p].used_map.bit_cnt
                    /\ bitmap_all(pool[p].used_map, i, cnt) THEN "no" ELSE "assert"
  /\ th' = [th EXCEPT ![t] = [@ EXCEPT !.pc = "clear", !.pool = p, !.idx = i, !.cnt = cnt]]

Clear(t) ==
  LET x == th[t] IN
  /\ At(t, "clear")
  /\ pool' = [pool EXCEPT ![x.pool].used_map = bitmap_set(@, x.idx, FALSE)]
  /\ IF x.cnt > 1
       THEN th' = [th EXCEPT ![t].idx = @ + 1, ![t].cnt = @ - 1] /\ UNCHANGED desc_lock
       ELSE Return(t) /\ Release(t)
  /\ UNCHANGED <<pool_lock, arena, free_list, live, panicked>>

\* Nobody is about to free the block in a realloc().
Mine(b) == b \in live /\ \A t \in Thread : th[t].old # b.addr

palloc_free(t, b) ==
  /\ At(t, "idle") /\ Mine(b) /\ b.pages
  /\ palloc_free_multiple(t, b.addr \div PGSIZE, b.len \div PGSIZE)
  /\ live' = live \ {b}
  /\ UNCHANGED <<pool, pool_lock, free_list, desc_lock>>

----------------------------------------------------------------------------
(* malloc(), free() and the calls built on them.                           *)

malloc(t, size, old) ==
  LET fits == {d \in Desc : block_size(d) >= size}
      x == [Idle EXCEPT !.size = size, !.old = old]
  IN
  /\ At(t, "idle") /\ size # 0 /\ Room
  /\ th' = [th EXCEPT ![t] =
       IF fits # {} THEN [x EXCEPT !.pc = "desc", !.d = CHOOSE d \in fits : \A e \in fits : d <= e]
       ELSE [x EXCEPT !.pc = "pool", !.cnt = DIV_ROUND_UP(size + SizeofArena, PGSIZE)]]
  /\ UNCHANGED <<pool, pool_lock, arena, free_list, desc_lock, live, panicked>>

calloc(t, a, b) ==
  \E size \in {(a * b) % (SIZE_MAX + 1)} : size >= a /\ size >= b /\ malloc(t, size, -1)

\* A success hands the block out; the old block of a realloc() is then freed.
Got(t, b) ==
  /\ live' = live \cup {b}
  /\ th' = [th EXCEPT ![t] = IF @.old = -1 THEN Idle ELSE [Idle EXCEPT !.pc = "free", !.old = th[t].old]]

Small(addr, d) == [addr |-> addr, len |-> block_size(d), pages |-> FALSE]

\* lock_acquire (&d->lock): the first free block, or a page for a new arena.
DescLock(t) ==
  LET d == th[t].d IN
  /\ At(t, "desc") /\ desc_lock[d] = Nobody
  /\ IF free_list[d] = <<>>
       THEN /\ desc_lock' = [desc_lock EXCEPT ![d] = t]
            /\ th' = [th EXCEPT ![t].pc = "pool", ![t].cnt = 1]
            /\ UNCHANGED <<arena, free_list, live>>
       ELSE \E b \in {Head(free_list[d])} :
            /\ free_list' = [free_list EXCEPT ![d] = Tail(@)]
            /\ arena' = [arena EXCEPT ![block_to_arena(b)].free_cnt = @ - 1]
            /\ Got(t, Small(b, d))
            /\ UNCHANGED desc_lock
  /\ UNCHANGED <<pool, pool_lock, panicked>>

\* The pages are there: a big block, or an arena whose first block is returned.
NewArena(t) ==
  LET x == th[t]
      a == pool[x.pool].base + x.idx
  IN
  /\ At(t, "got")
  /\ IF x.d = 0
       THEN /\ arena' = [arena EXCEPT ![a] = [magic |-> TRUE, desc |-> 0, free_cnt |-> x.cnt]]
            /\ Got(t, [addr |-> a * PGSIZE + SizeofArena, len |-> x.cnt * PGSIZE - SizeofArena,
                       pages |-> FALSE])
            /\ UNCHANGED free_list
       ELSE /\ arena' = [arena EXCEPT ![a] = [magic |-> TRUE, desc |-> x.d,
                                              free_cnt |-> blocks_per_arena(x.d) - 1]]
            /\ free_list' = [free_list EXCEPT ![x.d] = Tail(@ \o Blocks(a, x.d))]
            /\ Got(t, Small(Head(Blocks(a, x.d)), x.d))
  /\ Release(t)
  /\ UNCHANGED <<pool, pool_lock, panicked>>

realloc(t, b, size) ==
  /\ Mine(b) /\ ~ b.pages
  /\ malloc(t, size, b.addr)

free(t, b) ==
  /\ At(t, "idle") /\ Mine(b) /\ ~ b.pages
  /\ th' = [th EXCEPT ![t].pc = "free", ![t].old = b.addr]
  /\ UNCHANGED <<pool, pool_lock, arena, free_list, desc_lock, live, panicked>>

unused(d, free_cnt) == free_cnt >= blocks_per_arena(d)

\* free(), from the test of the arena on, at the lock_acquire (&d->lock) if any.
Free(t) ==
  LET b == th[t].old
      a == block_to_arena(b)
      d == arena[a].desc
      list == <<b>> \o free_list[d]
  IN
  /\ At(t, "free")
  /\ live' = {x \in live : x.addr # b}
  /\ IF ~ block_is_valid(b)
       THEN panicked' = "assert" /\ UNCHANGED <<arena, free_list, desc_lock, th>>
       ELSE \/ d = 0 /\ palloc_free_multiple(t, a, arena[a].free_cnt)
               /\ UNCHANGED <<free_list, desc_lock>>
            \/ d # 0 /\ desc_lock[d] = Nobody /\ ~ unused(d, arena[a].free_cnt + 1)
               /\ free_list' = [free_list EXCEPT ![d] = list]
               /\ arena' = [arena EXCEPT ![a].free_cnt = @ + 1]
               /\ Return(t) /\ UNCHANGED <<desc_lock, panicked>>
            \/ d # 0 /\ desc_lock[d] = Nobody /\ unused(d, arena[a].free_cnt + 1)
               /\ free_list' = [free_list EXCEPT ![d] =
                                  SelectSeq(list, LAMBDA e : e \notin Range(Blocks(a, d)))]
               /\ desc_lock' = [desc_lock EXCEPT ![d] = t]
               /\ palloc_free_multiple(t, a, 1)
  /\ UNCHANGED <<pool, pool_lock>>

Next ==
  \E t \in Thread :
    \/ \E p \in {"kernel", "user"}, cnt \in {1, 2} : palloc_get(t, p, cnt)
    \/ \E size \in Sizes : malloc(t, size, -1)
    \/ \E a, b \in Sizes : calloc(t, a, b)
    \/ \E b \in live, size \in Sizes : realloc(t, b, size)
    \/ \E b \in live : free(t, b) \/ palloc_free(t, b)
    \/ PoolLock(t) \/ bitmap_scan(t) \/ Flip(t) \/ NoPages(t)
    \/ DescLock(t) \/ NewArena(t) \/ Free(t) \/ Clear(t)

Spec == Init /\ [][Next]_vars

----------------------------------------------------------------------------
Units(b) == b.addr .. b.addr + b.len - 1
PagesOf(b) == {u \div PGSIZE : u \in Units(b)}
FreeBlocks == UNION {{Small(b, d) : b \in Range(free_list[d])} : d \in Desc}
Used(page) ==
  \E p \in {"kernel", "user"} : page_from_pool(p, page)
                               /\ bitmap_test(pool[p].used_map, page - pool[p].base)

\* No unit of memory has two owners: blocks and pages handed out and free
\* blocks are disjoint, clear of arena headers and in pages marked used;
\* an arena counts its free blocks; no assertion of palloc.c or malloc.c
\* fails; and with no call in progress a page is marked used only for an
\* arena or a block.  Hazard: pages are freed without the pool's lock.
BlocksOwnedOnce ==
  /\ panicked # "assert"
  /\ \A b, c \in live \cup FreeBlocks : b # c => Units(b) \cap Units(c) = {}
  /\ live \cap FreeBlocks = {}
  /\ \A b \in live \cup FreeBlocks :
       /\ \A page \in PagesOf(b) : Used(page)
       /\ b.pages \/ arena[block_to_arena(b.addr)].magic
       /\ b.pages \/ b.addr % PGSIZE >= SizeofArena
  /\ \A d \in Desc : IsInjective(free_list[d])
  /\ \A a \in DOMAIN arena : arena[a].magic /\ arena[a].desc # 0 =>
       arena[a].free_cnt =
         Cardinality({b \in FreeBlocks : block_to_arena(b.addr) = a})
  /\ (\A t \in Thread : th[t].pc = "idle") =>
       \A page \in DOMAIN arena : Used(page) =>
         arena[page].magic \/ \E b \in live : page \in PagesOf(b)
=============================================================================
