-------------------------------- MODULE Lists --------------------------------
(***************************************************************************)
(* Doubly linked lists (lib/kernel/list.c), at the level of their          *)
(* pointers.  A node is an integer: an element is positive, and the head   *)
(* and the tail of list L, which every list has, are negative.  The caller *)
(* only inserts an element that is in no list and removes one that is.     *)
(***************************************************************************)
EXTENDS Integers, Sequences, FiniteSets, TLC, SequencesExt

CONSTANTS
  Elem,   \* the elements, 1 .. n
  Value   \* [Elem -> what less() compares]

VARIABLES
  ptr,    \* [node -> prev, next]
  seq     \* history: what each list should hold
vars == <<ptr, seq>>

List == {1, 2}
NULL == 0
list_head(L) == -2 * L
list_tail(L) == -2 * L - 1
Node == Elem \cup {list_head(L) : L \in List} \cup {list_tail(L) : L \in List}
less(a, b) == Value[a] < Value[b]

is_head(p, e) == p[e].prev = NULL /\ p[e].next # NULL
is_interior(p, e) == p[e].prev # NULL /\ p[e].next # NULL
is_tail(p, e) == p[e].prev # NULL /\ p[e].next = NULL

list_init(L) == list_head(L) :> [prev |-> NULL, next |-> list_tail(L)]
             @@ list_tail(L) :> [prev |-> list_head(L), next |-> NULL]
list_begin(p, L) == p[list_head(L)].next
list_end(L) == list_tail(L)
list_rbegin(p, L) == p[list_tail(L)].prev
list_rend(L) == list_head(L)
list_next(p, e) == p[e].next
list_prev(p, e) == p[e].prev
list_empty(p, L) == list_begin(p, L) = list_end(L)
list_front(p, L) == p[list_head(L)].next
list_back(p, L) == p[list_tail(L)].prev

list_insert(p, before, elem) ==
  [p EXCEPT ![elem] = [prev |-> p[before].prev, next |-> before],
            ![p[before].prev].next = elem,
            ![before].prev = elem]

unlink(p, first, last) ==
  [p EXCEPT ![p[first].prev].next = p[last].next, ![p[last].next].prev = p[first].prev]

list_splice(p, before, first, end) ==
  IF first = end THEN p
  ELSE LET last == list_prev(p, end)
           q == unlink(p, first, last)
       IN  [q EXCEPT ![first].prev = q[before].prev, ![last].next = before,
                     ![q[before].prev].next = first, ![before].prev = last]

list_push_front(p, L, elem) == list_insert(p, list_begin(p, L), elem)
list_push_back(p, L, elem) == list_insert(p, list_end(L), elem)
list_remove(p, elem) ==
  [p EXCEPT ![p[elem].prev].next = p[elem].next, ![p[elem].next].prev = p[elem].prev]
list_pop_front(p, L) == list_remove(p, list_front(p, L))
list_pop_back(p, L) == list_remove(p, list_back(p, L))

RECURSIVE count(_, _, _)
count(p, e, L) == IF e = list_end(L) THEN 0 ELSE 1 + count(p, list_next(p, e), L)
list_size(p, L) == count(p, list_begin(p, L), L)

RECURSIVE turn(_, _, _)
turn(p, e, L) ==
  IF e = list_end(L) THEN p
  ELSE turn([p EXCEPT ![e] = [prev |-> p[e].next, next |-> p[e].prev]], p[e].next, L)
list_reverse(p, L) ==
  LET h == list_head(L)
      t == list_tail(L)
      q == turn(p, list_begin(p, L), L)
      r == [q EXCEPT ![h].next = q[t].prev, ![t].prev = q[h].next]
      first == r[h].next
      last == r[t].prev
  IN  IF list_empty(p, L) THEN p
      ELSE [r EXCEPT ![first].prev = r[last].next, ![last].next = r[first].prev]

RECURSIVE is_sorted(_, _, _)
is_sorted(p, a, b) ==
  LET n == list_next(p, a) IN
  IF a = b \/ n = b THEN TRUE ELSE ~ less(n, a) /\ is_sorted(p, n, b)

RECURSIVE find_end_of_run(_, _, _)
find_end_of_run(p, a, b) ==
  LET n == list_next(p, a) IN
  IF n # b /\ ~ less(n, list_prev(p, n)) THEN find_end_of_run(p, n, b) ELSE n

\* Mutant: of two equal elements the later run's goes first.
in_order_Strict(a, b) == less(a, b)
in_order(a, b) == ~ less(b, a)

RECURSIVE inplace_merge(_, _, _, _)
inplace_merge(p, a0, a1b0, b1) ==
  IF a0 = a1b0 \/ a1b0 = b1 THEN p
  ELSE IF in_order(a0, a1b0) THEN inplace_merge(p, list_next(p, a0), a1b0, b1)
  ELSE LET n == list_next(p, a1b0) IN
       inplace_merge(list_splice(p, a0, list_prev(p, n), n), a0, n, b1)

\* A pass of list_sort() from a0 on, and the number of runs it puts out.
RECURSIVE pass(_, _, _, _)
pass(p, a0, L, output_run_cnt) ==
  LET end == list_end(L)
      a1b0 == find_end_of_run(p, a0, end)
      b1 == find_end_of_run(p, a1b0, end)
  IN  IF a0 = end THEN <<p, output_run_cnt>>
      ELSE IF a1b0 = end THEN <<p, output_run_cnt + 1>>
      ELSE pass(inplace_merge(p, a0, a1b0, b1), b1, L, output_run_cnt + 1)

RECURSIVE list_sort(_, _)
list_sort(p, L) ==
  LET r == pass(p, list_begin(p, L), L, 0) IN
  IF r[2] > 1 THEN list_sort(r[1], L) ELSE r[1]

RECURSIVE place(_, _, _, _)
place(p, e, L, elem) ==
  IF e = list_end(L) \/ less(elem, e) THEN e ELSE place(p, list_next(p, e), L, elem)
list_insert_ordered(p, L, elem) == list_insert(p, place(p, list_begin(p, L), L, elem), elem)

RECURSIVE unique_from(_, _, _, _)
unique_from(p, elem, L, duplicates) ==
  LET next == list_next(p, elem) IN
  IF next = list_end(L) THEN p
  ELSE IF ~ less(elem, next) /\ ~ less(next, elem)
    THEN unique_from(list_push_back(list_remove(p, next), duplicates, next), elem, L, duplicates)
    ELSE unique_from(p, next, L, duplicates)
list_unique(p, L, duplicates) ==
  IF list_empty(p, L) THEN p ELSE unique_from(p, list_begin(p, L), L, duplicates)

RECURSIVE max_from(_, _, _, _)
max_from(p, e, L, max) ==
  IF e = list_end(L) THEN max
  ELSE max_from(p, list_next(p, e), L, IF less(max, e) THEN e ELSE max)
list_max(p, L) == LET b == list_begin(p, L) IN
  IF b = list_end(L) THEN b ELSE max_from(p, list_next(p, b), L, b)

RECURSIVE min_from(_, _, _, _)
min_from(p, e, L, min) ==
  IF e = list_end(L) THEN min
  ELSE min_from(p, list_next(p, e), L, IF less(e, min) THEN e ELSE min)
list_min(p, L) == LET b == list_begin(p, L) IN
  IF b = list_end(L) THEN b ELSE min_from(p, list_next(p, b), L, b)

----------------------------------------------------------------------------
(* What the operations promise, on sequences.                              *)

Sorted(s) ==
  LET rank(i) == Cardinality({j \in DOMAIN s : \/ less(s[j], s[i])
                                               \/ ~ less(s[i], s[j]) /\ j <= i})
  IN  [k \in DOMAIN s |-> s[CHOOSE i \in DOMAIN s : rank(i) = k]]
Repeats(s) == {i \in DOMAIN s : i > 1 /\ Value[s[i]] = Value[s[i - 1]]}
Only(s, I) == FoldLeft(LAMBDA r, i : IF i \in I THEN Append(r, s[i]) ELSE r, <<>>,
                       [i \in DOMAIN s |-> i])
First(s, Better(_, _), L) ==
  IF s = <<>> THEN list_tail(L)
  ELSE s[CHOOSE i \in DOMAIN s : /\ \A j \in DOMAIN s : ~ Better(s[j], s[i])
                                 /\ \A j \in 1 .. i - 1 : Better(s[i], s[j])]
Loose == Elem \ UNION {Range(seq[L]) : L \in List}

Init ==
  /\ ptr = [e \in Elem |-> [prev |-> NULL, next |-> NULL]] @@ list_init(1) @@ list_init(2)
  /\ seq = [L \in List |-> <<>>]

Change(p, L, s) == ptr' = p /\ seq' = [seq EXCEPT ![L] = s]

Push(L, e) ==
  \/ Change(list_push_front(ptr, L, e), L, <<e>> \o seq[L])
  \/ Change(list_push_back(ptr, L, e), L, Append(seq[L], e))
  \/ \E i \in DOMAIN seq[L] :
       Change(list_insert(ptr, seq[L][i], e), L, InsertAt(seq[L], i, e))
  \/ /\ is_sorted(ptr, list_begin(ptr, L), list_end(L))
     /\ Change(list_insert_ordered(ptr, L, e), L, Sorted(Append(seq[L], e)))

\* The caller of list_remove() may free the element: its pointers mean nothing.
Forget(p, e) == [p EXCEPT ![e] = [prev |-> NULL, next |-> NULL]]

Pop(L) ==
  /\ seq[L] # <<>>
  /\ \/ Change(Forget(list_pop_front(ptr, L), list_front(ptr, L)), L, Tail(seq[L]))
     \/ Change(Forget(list_pop_back(ptr, L), list_back(ptr, L)), L, Front(seq[L]))
     \/ \E i \in DOMAIN seq[L] :
          Change(Forget(list_remove(ptr, seq[L][i]), seq[L][i]), L, RemoveAt(seq[L], i))

\* Elements i .. j - 1 of list K go before element k of list L.
Splice(K, L, i, j, k) ==
  LET at(M, n) == IF n <= Len(seq[M]) THEN seq[M][n] ELSE list_tail(M)
      mid == SubSeq(seq[K], i, j - 1)
      rest == SubSeq(seq[K], 1, i - 1) \o SubSeq(seq[K], j, Len(seq[K]))
  IN
  /\ K # L
  /\ ptr' = list_splice(ptr, at(L, k), at(K, i), at(K, j))
  /\ seq' = [seq EXCEPT ![K] = rest,
               ![L] = SubSeq(@, 1, k - 1) \o mid \o SubSeq(@, k, Len(@))]

Rearrange(L) ==
  \/ Change(list_reverse(ptr, L), L, Reverse(seq[L]))
  \/ Change(list_sort(ptr, L), L, Sorted(seq[L]))

Unique(L, M) ==
  /\ L # M
  /\ ptr' = list_unique(ptr, L, M)
  /\ seq' = [seq EXCEPT ![L] = Only(@, DOMAIN @ \ Repeats(@)),
                        ![M] = @ \o Only(seq[L], Repeats(seq[L]))]

Next ==
  \/ \E L \in List, e \in Loose : Push(L, e)
  \/ \E L \in List : Pop(L) \/ Rearrange(L)
  \/ \E K, L \in List : Unique(K, L)
  \/ \E K, L \in List : \E i \in 1 .. Len(seq[K]) + 1, k \in 1 .. Len(seq[L]) + 1 :
       \E j \in i .. Len(seq[K]) + 1 : Splice(K, L, i, j, k)

Spec == Init /\ [][Next]_vars

----------------------------------------------------------------------------
\* The nodes met from e on, by next or prev pointers, up to one that is no element.
Walk(f, e) ==
  LET w[n \in 0 .. Cardinality(Elem) + 1] ==
        IF n = 0 THEN <<e>> ELSE IF Last(w[n - 1]) \in Elem
                                   THEN Append(w[n - 1], f[Last(w[n - 1])]) ELSE w[n - 1]
  IN  w[Cardinality(Elem) + 1]

\* Whatever calls are made, following the next pointers of a list from its
\* head gives the sequence the calls should have left, in order and with
\* equal elements in their old order after a list_sort(), following the
\* prev pointers from its tail gives the reverse, and list_size(),
\* list_max() and list_min() answer for that sequence.  Hazard: list_sort(),
\* list_unique() and list_reverse() rewrite the pointers they walk along.
ListsAreSequences ==
  /\ \A L \in List :
       /\ is_head(ptr, list_head(L)) /\ is_tail(ptr, list_tail(L))
       /\ Walk([e \in Node |-> list_next(ptr, e)], list_begin(ptr, L)) = Append(seq[L], list_end(L))
       /\ Walk([e \in Node |-> list_prev(ptr, e)], list_rbegin(ptr, L))
            = Append(Reverse(seq[L]), list_rend(L))
       /\ \A i \in DOMAIN seq[L] : is_interior(ptr, seq[L][i])
       /\ list_size(ptr, L) = Len(seq[L])
       /\ list_max(ptr, L) = First(seq[L], LAMBDA a, b : less(b, a), L)
       /\ list_min(ptr, L) = First(seq[L], less, L)
=============================================================================
