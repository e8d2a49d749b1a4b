------------------------------ MODULE HashTable ------------------------------
(***************************************************************************)
(* The hash table of lib/kernel/hash.c, which holds the supplemental page  *)
(* table.  A bucket is a sequence; the number of buckets follows the       *)
(* number of elements, unless the memory for new buckets cannot be had.    *)
(***************************************************************************)
EXTENDS Integers, Sequences, FiniteSets, SequencesExt

CONSTANTS
  Elem,                   \* elements, [key, id]: less() compares keys
  Hash,                   \* [key -> hash value]
  MIN_BUCKETS,            \* 4 in the code
  BEST_ELEMS_PER_BUCKET   \* 2 in the code

VARIABLES
  h,     \* [elem_cnt, buckets]; bucket_cnt is the length of buckets
  iter,  \* the iterator: [valid, bucket, pos]; pos is 0 on the bucket's head
  seen,  \* history: what hash_next() has returned since hash_first()
  set,   \* history: the elements that should be in the table
  ret    \* what the last call returned, and what it should have: <<is, should>>
vars == <<h, iter, seen, set, ret>>

bucket_cnt(t) == Len(t.buckets)
Null == [key |-> -1, id |-> 0]
NoIter == [valid |-> FALSE, bucket |-> 1, pos |-> 0]

\* x & (bucket_cnt - 1), where bucket_cnt is a power of 2.
find_bucket(t, e) == (Hash[e.key] % bucket_cnt(t)) + 1

find_elem(t, b, e) ==
  LET at == SelectInSeq(t.buckets[b], LAMBDA x : x.key = e.key) IN
  IF at = 0 THEN Null ELSE t.buckets[b][at]

\* Clearing the lowest 1 until one is left keeps the highest.
power_of_2(n) == CHOOSE p \in {2 ^ i : i \in 0 .. n} : p <= n /\ n < 2 * p

\* Mutant: the elements keep their bucket numbers.
move_Same(t, i, e) == i
move(t, i, e) == find_bucket(t, e)

\* The elements of the old buckets, each pushed to the front of its new one.
Moved(t, n) ==
  LET new == [t EXCEPT !.buckets = [i \in 1 .. n |-> <<>>]] IN
  FoldLeft(LAMBDA u, i :
             FoldLeft(LAMBDA v, e : [v EXCEPT !.buckets[move(v, i, e)] = <<e>> \o @],
                      u, t.buckets[i]),
           new, [i \in 1 .. bucket_cnt(t) |-> i])

\* The tables rehash() may leave: malloc() may fail.
rehash(t) ==
  LET want == t.elem_cnt \div BEST_ELEMS_PER_BUCKET
      n == power_of_2(IF want < MIN_BUCKETS THEN MIN_BUCKETS ELSE want)
  IN  IF n = bucket_cnt(t) THEN {t} ELSE {t, Moved(t, n)}

insert_elem(t, b, e) ==
  [t EXCEPT !.elem_cnt = @ + 1, !.buckets[b] = <<e>> \o @]
remove_elem(t, e) ==
  [elem_cnt |-> t.elem_cnt - 1,
   buckets  |-> [b \in DOMAIN t.buckets |-> SelectSeq(t.buckets[b], LAMBDA x : x # e)]]

hash_clear(t) == [elem_cnt |-> 0, buckets |-> [b \in DOMAIN t.buckets |-> <<>>]]
hash_init == hash_clear([elem_cnt |-> 0, buckets |-> [b \in 1 .. MIN_BUCKETS |-> <<>>]])
hash_size(t) == t.elem_cnt
hash_empty(t) == t.elem_cnt = 0

----------------------------------------------------------------------------
Init ==
  /\ h = hash_init /\ set = {} /\ ret = <<Null, Null>>
  /\ iter = NoIter /\ seen = <<>>

Equal(e) == {x \in set : x.key = e.key}
Expected(e) == IF Equal(e) = {} THEN Null ELSE CHOOSE x \in Equal(e) : TRUE
Modify(t) == h' \in rehash(t) /\ iter' = NoIter /\ seen' = <<>>

hash_insert(e) ==
  LET b == find_bucket(h, e)
      old == find_elem(h, b, e)
  IN
  /\ e \notin set
  /\ Modify(IF old = Null THEN insert_elem(h, b, e) ELSE h)
  /\ set' = IF Equal(e) = {} THEN set \cup {e} ELSE set
  /\ ret' = <<old, Expected(e)>>

hash_replace(e) ==
  LET b == find_bucket(h, e)
      old == find_elem(h, b, e)
  IN
  /\ e \notin set
  /\ Modify(insert_elem(IF old = Null THEN h ELSE remove_elem(h, old), b, e))
  /\ set' = (set \ Equal(e)) \cup {e}
  /\ ret' = <<old, Expected(e)>>

hash_find(e) == find_elem(h, find_bucket(h, e), e)

hash_delete(e) ==
  LET found == hash_find(e) IN
  /\ IF found = Null THEN UNCHANGED <<h, iter, seen>> ELSE Modify(remove_elem(h, found))
  /\ set' = set \ Equal(e)
  /\ ret' = <<found, Expected(e)>>

\* hash_clear() called on a table in use; hash_destroy() does the same and frees the buckets.
Clear ==
  /\ h' = hash_clear(h) /\ set' = {}
  /\ iter' = NoIter /\ seen' = <<>> /\ UNCHANGED ret

hash_first ==
  /\ iter' = [valid |-> TRUE, bucket |-> 1, pos |-> 0] /\ seen' = <<>>
  /\ UNCHANGED <<h, set, ret>>

\* The next element of the bucket, or the first of the next bucket that has one.
hash_next ==
  LET later == {b \in iter.bucket + 1 .. bucket_cnt(h) : h.buckets[b] # <<>>} IN
  /\ iter.valid /\ iter.bucket <= bucket_cnt(h)
  /\ \/ /\ iter.pos < Len(h.buckets[iter.bucket])
        /\ iter' = [iter EXCEPT !.pos = @ + 1]
        /\ seen' = Append(seen, h.buckets[iter.bucket][iter.pos + 1])
     \/ /\ iter.pos = Len(h.buckets[iter.bucket]) /\ later # {}
        /\ \E b \in {CHOOSE x \in later : \A y \in later : x <= y} :
             iter' = [iter EXCEPT !.bucket = b, !.pos = 1]
             /\ seen' = Append(seen, h.buckets[b][1])
     \/ /\ iter.pos = Len(h.buckets[iter.bucket]) /\ later = {}
        /\ iter' = [iter EXCEPT !.bucket = bucket_cnt(h) + 1]
        /\ UNCHANGED seen
  /\ UNCHANGED <<h, set, ret>>

\* hash_apply() calls ACTION on the elements in this order.
hash_apply(t) == FlattenSeq(t.buckets)

Next ==
  \/ \E e \in Elem : hash_insert(e) \/ hash_replace(e) \/ hash_delete(e)
  \/ Clear \/ hash_first \/ hash_next

Spec == Init /\ [][Next]_vars

----------------------------------------------------------------------------
\* The table is the set the calls make it, whether its buckets could be
\* replaced or not: it counts its elements, hash_find() finds exactly
\* those, hash_insert(), hash_replace() and hash_delete() return the equal
\* element there was, hash_apply() reaches every element once, and so does
\* an iteration that runs to its end.  Hazard: rehash() moves every element
\* in the middle of an insertion or a deletion.
HashIsSet ==
  /\ hash_size(h) = Cardinality(set) /\ (hash_empty(h) <=> set = {})
  /\ \A e \in Elem : hash_find(e) = Expected(e)
  /\ IsInjective(hash_apply(h)) /\ Range(hash_apply(h)) = set
  /\ ret[1] = ret[2]
  /\ IsInjective(seen) /\ Range(seen) \subseteq set
  /\ (iter.valid /\ iter.bucket > bucket_cnt(h)) => Range(seen) = set
=============================================================================
