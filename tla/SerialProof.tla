---------------------------- MODULE SerialProof ----------------------------
(***************************************************************************)
(* The character devices keep the order of the bytes, for queues of any    *)
(* size and any number of readers and writers.  First the circular buffer  *)
(* of devices/intq.c without its remainders, and what intq_putc() and      *)
(* intq_getc() do to its contents as a sequence; then the input buffer and *)
(* the output path, each with its own invariant and one step per action.   *)
(***************************************************************************)
EXTENDS SerialPort, TLAPS

\* A position inside the buffer is its own remainder.
LEMMA ModSmall ==
  ASSUME NEW a \in Int, 0 <= a, a < INTQ_BUFSIZE
  PROVE  a % INTQ_BUFSIZE = a
  BY SerialAssumption

\* One turn too far: the remainder wraps around once.
LEMMA ModOver ==
  ASSUME NEW a \in Int, INTQ_BUFSIZE <= a, a < 2 * INTQ_BUFSIZE
  PROVE  a % INTQ_BUFSIZE = a - INTQ_BUFSIZE
  BY SerialAssumption

\* A negative distance: the remainder wraps around once.
LEMMA ModUnder ==
  ASSUME NEW a \in Int, -INTQ_BUFSIZE <= a, a < 0
  PROVE  a % INTQ_BUFSIZE = a + INTQ_BUFSIZE
  BY SerialAssumption

\* A queue of bytes of S.
Queue(S) ==
  [buf : [Index -> S \cup {NULL}], head : Index, tail : Index,
   not_full : Thread \cup {NULL}, not_empty : Thread \cup {NULL}]

\* The way from position t to position h, and the position i steps after t.
Way(t, h) == IF t <= h THEN h - t ELSE h + INTQ_BUFSIZE - t
Nth(t, i) == IF t + i < INTQ_BUFSIZE THEN t + i ELSE t + i - INTQ_BUFSIZE

\* The number of bytes in a queue, and the place of the i-th.
Size(q) == Way(q.tail, q.head)
Slot(q, i) == Nth(q.tail, i - 1)

\* next() goes to the following position, from the last one to 0.
LEMMA NextFacts ==
  ASSUME NEW i \in Index
  PROVE  /\ next(i) \in Index
         /\ next(i) = IF i + 1 < INTQ_BUFSIZE THEN i + 1 ELSE 0
<1>1. CASE i + 1 < INTQ_BUFSIZE
  <2>1. (i + 1) % INTQ_BUFSIZE = i + 1
    BY <1>1, ModSmall, SerialAssumption DEF Index
  <2> QED BY <1>1, <2>1, SerialAssumption DEF next, Index
<1>2. CASE ~(i + 1 < INTQ_BUFSIZE)
  <2>1. (i + 1) % INTQ_BUFSIZE = (i + 1) - INTQ_BUFSIZE
    BY <1>2, ModOver, SerialAssumption DEF Index
  <2> QED BY <1>2, <2>1, SerialAssumption DEF next, Index
<1> QED BY <1>1, <1>2, Zenon

\* How the distance between two positions changes when one moves on: what the
\* tests for an empty and for a full queue see, and why one slot stays unused.
LEMMA WayFacts ==
  ASSUME NEW h \in Index, NEW t \in Index
  PROVE  /\ Way(t, h) \in 0 .. INTQ_BUFSIZE - 1
         /\ (h - t) % INTQ_BUFSIZE = Way(t, h)
         /\ h = t <=> Way(t, h) = 0
         /\ next(h) = t <=> Way(t, h) = INTQ_BUFSIZE - 1
         /\ next(h) # t => Way(t, next(h)) = Way(t, h) + 1
         /\ h # t => Way(next(t), h) = Way(t, h) - 1
         /\ Nth(t, Way(t, h)) = h
<1>1. /\ Way(t, h) \in 0 .. INTQ_BUFSIZE - 1
      /\ h = t <=> Way(t, h) = 0
      /\ Nth(t, Way(t, h)) = h
  BY SerialAssumption DEF Index, Way, Nth
<1>2. (h - t) % INTQ_BUFSIZE = Way(t, h)
  <2>1. CASE t <= h
    BY <2>1, ModSmall, SerialAssumption DEF Index, Way
  <2>2. CASE ~(t <= h)
    <3>1. (h - t) % INTQ_BUFSIZE = (h - t) + INTQ_BUFSIZE
      BY <2>2, ModUnder, SerialAssumption DEF Index
    <3> QED BY <2>2, <3>1, SerialAssumption DEF Index, Way
  <2> QED BY <2>1, <2>2, Zenon
<1>3. next(h) = t <=> Way(t, h) = INTQ_BUFSIZE - 1
  BY NextFacts, SerialAssumption DEF Index, Way
<1>4. next(h) # t => Way(t, next(h)) = Way(t, h) + 1
  BY NextFacts, SerialAssumption DEF Index, Way
<1>5. h # t => Way(next(t), h) = Way(t, h) - 1
  BY NextFacts, SerialAssumption DEF Index, Way
<1> QED BY <1>1, <1>2, <1>3, <1>4, <1>5, Zenon

\* The positions of the bytes of a queue: none is the head, where the next byte
\* goes, and they stay when the tail moves on.
LEMMA NthFacts ==
  ASSUME NEW h \in Index, NEW t \in Index, NEW i \in 1 .. Way(t, h)
  PROVE  /\ Nth(t, i - 1) \in Index
         /\ Nth(t, i - 1) # h
         /\ (t + i - 1) % INTQ_BUFSIZE = Nth(t, i - 1)
         /\ i # 1 => Nth(next(t), i - 2) = Nth(t, i - 1)
<1>1. i \in Nat /\ i >= 1 /\ i < INTQ_BUFSIZE
  BY WayFacts, SerialAssumption
<1>2. Nth(t, i - 1) \in Index /\ Nth(t, i - 1) # h
  BY <1>1, SerialAssumption DEF Index, Nth, Way
<1>3. (t + i - 1) % INTQ_BUFSIZE = Nth(t, i - 1)
  <2>1. PICK a \in Int : a = t + i - 1 /\ 0 <= a /\ a < 2 * INTQ_BUFSIZE
    BY <1>1, SerialAssumption DEF Index
  <2>2. Nth(t, i - 1) = IF a < INTQ_BUFSIZE THEN a ELSE a - INTQ_BUFSIZE
    BY <1>1, <2>1, SerialAssumption DEF Index, Nth
  <2>3. CASE a < INTQ_BUFSIZE
    BY <2>1, <2>2, <2>3, ModSmall, Zenon
  <2>4. CASE ~(a < INTQ_BUFSIZE)
    <3>1. a % INTQ_BUFSIZE = a - INTQ_BUFSIZE
      BY <2>1, <2>4, ModOver, SerialAssumption
    <3> QED BY <2>1, <2>2, <2>4, <3>1, Zenon
  <2> QED BY <2>3, <2>4, Zenon
<1>4. i # 1 => Nth(next(t), i - 2) = Nth(t, i - 1)
  BY <1>1, NextFacts, SerialAssumption DEF Index, Nth
<1> QED BY <1>2, <1>3, <1>4, Zenon

\* The size of a queue, and what intq_empty() and intq_full() test.
LEMMA SizeFacts ==
  ASSUME NEW S, NEW q \in Queue(S)
  PROVE  /\ q.head \in Index /\ q.tail \in Index
         /\ Size(q) \in Nat /\ Size(q) < INTQ_BUFSIZE
         /\ (q.head - q.tail) % INTQ_BUFSIZE = Size(q)
         /\ intq_empty(q) <=> Size(q) = 0
         /\ intq_full(q) <=> Size(q) = INTQ_BUFSIZE - 1
<1>1. q.head \in Index /\ q.tail \in Index
  BY Zenon DEF Queue
<1>2. Way(q.tail, q.head) \in Nat /\ Way(q.tail, q.head) < INTQ_BUFSIZE
  BY <1>1, WayFacts, SerialAssumption
<1> QED BY <1>1, <1>2, WayFacts DEF Size, intq_empty, intq_full

\* Where the i-th byte of a queue is.
LEMMA SlotFacts ==
  ASSUME NEW S, NEW q \in Queue(S), NEW i \in 1 .. Size(q)
  PROVE  /\ Slot(q, i) \in Index
         /\ Slot(q, i) # q.head
         /\ (q.tail + i - 1) % INTQ_BUFSIZE = Slot(q, i)
  BY SizeFacts, NthFacts DEF Size, Slot

\* The bytes of a queue, without remainders.
Bytes(q) == [i \in 1 .. Size(q) |-> q.buf[Slot(q, i)]]

\* The contents of a queue, without remainders.
LEMMA ContentsBytes ==
  ASSUME NEW S, NEW q \in Queue(S)
  PROVE  Contents(q) = Bytes(q)
<1>1. (q.head - q.tail) % INTQ_BUFSIZE = Size(q)
  BY SizeFacts, Zenon
<1>2. \A i \in 1 .. Size(q) : (q.tail + i - 1) % INTQ_BUFSIZE = Slot(q, i)
  BY SlotFacts, Zenon
<1> QED BY <1>1, <1>2, Zenon DEF Contents, Bytes

\* The contents of a queue are a sequence, as long as the queue.
LEMMA ContentsFacts ==
  ASSUME NEW S, NEW q \in Queue(S)
  PROVE  /\ Contents(q) \in Seq(S \cup {NULL})
         /\ Len(Contents(q)) = Size(q)
         /\ \A i \in 1 .. Size(q) : Contents(q)[i] = q.buf[Slot(q, i)]
<1>1. Size(q) \in Nat
  BY SizeFacts, SerialAssumption, Zenon
<1>2. \A i \in 1 .. Size(q) : q.buf[Slot(q, i)] \in S \cup {NULL}
  BY SlotFacts, Zenon DEF Queue
<1>3. Bytes(q) \in Seq(S \cup {NULL}) /\ Len(Bytes(q)) = Size(q)
  BY <1>1, <1>2 DEF Bytes
<1> QED BY <1>3, ContentsBytes, Zenon DEF Bytes

\* Sequences of one length are equal if their elements are.
LEMMA SeqEqual ==
  ASSUME NEW X, NEW s \in Seq(X), NEW t \in Seq(X), Len(s) = Len(t),
         \A i \in 1 .. Len(s) : s[i] = t[i]
  PROVE  s = t
  OBVIOUS

\* Two queues with the same bytes and the same ends hold the same.
LEMMA SameContents ==
  ASSUME NEW q, NEW r, r.buf = q.buf, r.head = q.head, r.tail = q.tail
  PROVE  Contents(r) = Contents(q)
  BY Zenon DEF Contents

\* intq_putc() on a queue that is not full appends the byte.
LEMMA PutFacts ==
  ASSUME NEW S, NEW q \in Queue(S), NEW b \in S, ~intq_full(q)
  PROVE  /\ Put(q, b) \in Queue(S)
         /\ Contents(Put(q, b)) = Append(Contents(q), b)
<1>0. PICK r : r = Put(q, b)
  BY Zenon
<1>1. /\ q.head \in Index /\ q.tail \in Index /\ q.buf \in [Index -> S \cup {NULL}]
      /\ q.not_full \in Thread \cup {NULL}
  BY Zenon DEF Queue
<1>2. r \in Queue(S)
  BY <1>0, <1>1, NextFacts, Zenon DEF Put, Queue
<1>3. r.head = next(q.head) /\ r.tail = q.tail /\ r.buf = [q.buf EXCEPT ![q.head] = b]
  BY <1>0, Zenon DEF Put, Queue
<1>4. Size(q) \in Nat /\ Size(q) < INTQ_BUFSIZE - 1
  BY SizeFacts, SerialAssumption
<1>5. Size(r) = Size(q) + 1
  BY <1>1, <1>3, WayFacts DEF Size, intq_full
<1>6. \A i : Slot(r, i) = Slot(q, i)
  BY <1>3, Zenon DEF Slot
<1>7. \A i \in 1 .. Size(q) : r.buf[Slot(r, i)] = q.buf[Slot(q, i)]
  BY <1>1, <1>3, <1>6, SlotFacts
<1>8. Slot(r, Size(q) + 1) = q.head
  <2>1. (Size(q) + 1) - 1 = Size(q)
    BY <1>4
  <2> QED BY <1>1, <1>3, <2>1, WayFacts DEF Slot, Size
<1>9. r.buf[Slot(r, Size(q) + 1)] = b
  BY <1>1, <1>3, <1>8, Zenon
<1>10. /\ Contents(q) \in Seq(S \cup {NULL}) /\ Len(Contents(q)) = Size(q)
       /\ \A i \in 1 .. Size(q) : Contents(q)[i] = q.buf[Slot(q, i)]
  BY ContentsFacts, Zenon
<1>11. /\ Contents(r) \in Seq(S \cup {NULL}) /\ Len(Contents(r)) = Size(q) + 1
       /\ \A i \in 1 .. Size(q) + 1 : Contents(r)[i] = r.buf[Slot(r, i)]
  BY <1>2, <1>5, ContentsFacts, Zenon
<1>12. /\ Append(Contents(q), b) \in Seq(S \cup {NULL})
       /\ Len(Append(Contents(q), b)) = Size(q) + 1
       /\ \A i \in 1 .. Size(q) : Append(Contents(q), b)[i] = Contents(q)[i]
       /\ Append(Contents(q), b)[Size(q) + 1] = b
  BY <1>4, <1>10
<1>13. ASSUME NEW i \in 1 .. Size(q) + 1
       PROVE  Contents(r)[i] = Append(Contents(q), b)[i]
  <2>1. i \in 1 .. Size(q) \/ i = Size(q) + 1
    BY <1>4
  <2> QED BY <2>1, <1>7, <1>9, <1>10, <1>11, <1>12, Zenon
<1>14. Contents(r) = Append(Contents(q), b)
  BY <1>11, <1>12, <1>13, SeqEqual, Zenon
<1> QED BY <1>0, <1>2, <1>14, Zenon

\* intq_getc() on a queue that is not empty removes the first byte, and makes
\* room.
LEMMA TakeFacts ==
  ASSUME NEW S, NEW q \in Queue(S), ~intq_empty(q)
  PROVE  /\ Take(q) \in Queue(S)
         /\ ~intq_full(Take(q))
         /\ Front(q) = Contents(q)[1]
         /\ Len(Contents(q)) > 0
         /\ Contents(Take(q)) = Tail(Contents(q))
<1>0. PICK r : r = Take(q)
  BY Zenon
<1>1. /\ q.head \in Index /\ q.tail \in Index /\ q.buf \in [Index -> S \cup {NULL}]
      /\ q.not_empty \in Thread \cup {NULL}
  BY Zenon DEF Queue
<1>2. r \in Queue(S)
  BY <1>0, <1>1, NextFacts, Zenon DEF Take, Queue
<1>3. r.head = q.head /\ r.tail = next(q.tail) /\ r.buf = q.buf
  BY <1>0, Zenon DEF Take, Queue
<1>4. Size(q) \in Nat /\ Size(q) > 0 /\ Size(q) < INTQ_BUFSIZE
  BY SizeFacts, SerialAssumption
<1>5. Size(r) = Size(q) - 1
  BY <1>1, <1>3, WayFacts DEF Size, intq_empty
<1>6. ~intq_full(r)
  BY <1>2, <1>4, <1>5, SizeFacts, SerialAssumption
<1>7. ASSUME NEW i \in 1 .. Size(q) - 1
      PROVE  Slot(r, i) = Slot(q, i + 1)
  <2>1. PICK j \in 1 .. Size(q) : j = i + 1 /\ j # 1 /\ j - 1 = i /\ j - 2 = i - 1
    BY <1>4
  <2>2. PICK h \in Index, t \in Index : h = q.head /\ t = q.tail
    BY <1>1, Zenon
  <2>3. j \in 1 .. Way(t, h)
    BY <2>1, <2>2, Zenon DEF Size
  <2>4. Nth(next(t), j - 2) = Nth(t, j - 1)
    BY <2>1, <2>3, NthFacts
  <2> QED BY <1>3, <2>1, <2>2, <2>4, Zenon DEF Slot
<1>8. Slot(q, 1) = q.tail
  BY <1>1, SerialAssumption DEF Slot, Nth, Index
<1>9. /\ Contents(q) \in Seq(S \cup {NULL}) /\ Len(Contents(q)) = Size(q)
      /\ \A i \in 1 .. Size(q) : Contents(q)[i] = q.buf[Slot(q, i)]
  BY ContentsFacts, Zenon
<1>10. Front(q) = Contents(q)[1]
  BY <1>4, <1>8, <1>9 DEF Front
<1>11. /\ Contents(r) \in Seq(S \cup {NULL}) /\ Len(Contents(r)) = Size(q) - 1
       /\ \A i \in 1 .. Size(q) - 1 : Contents(r)[i] = r.buf[Slot(r, i)]
  BY <1>2, <1>5, ContentsFacts, Zenon
<1>12. /\ Tail(Contents(q)) \in Seq(S \cup {NULL})
       /\ Len(Tail(Contents(q))) = Size(q) - 1
       /\ \A i \in 1 .. Size(q) - 1 : Tail(Contents(q))[i] = Contents(q)[i + 1]
  BY <1>4, <1>9
<1>13. ASSUME NEW i \in 1 .. Size(q) - 1
       PROVE  Contents(r)[i] = Tail(Contents(q))[i]
  <2>1. i + 1 \in 1 .. Size(q)
    BY <1>4
  <2> QED BY <2>1, <1>3, <1>7, <1>9, <1>11, <1>12, Zenon
<1>14. Contents(r) = Tail(Contents(q))
  BY <1>11, <1>12, <1>13, SeqEqual, Zenon
<1> QED BY <1>0, <1>2, <1>4, <1>6, <1>9, <1>10, <1>14, Zenon

----------------------------------------------------------------------------
(* Sequences.                                                              *)

\* Concatenation is associative.
LEMMA ConcatAssoc ==
  ASSUME NEW X, NEW s \in Seq(X), NEW t \in Seq(X), NEW u \in Seq(X)
  PROVE  (s \o t) \o u = s \o (t \o u)
  OBVIOUS

\* Appending to a concatenation appends to its second part.
LEMMA ConcatAppend ==
  ASSUME NEW X, NEW s \in Seq(X), NEW t \in Seq(X), NEW b \in X
  PROVE  s \o Append(t, b) = Append(s \o t, b)
  OBVIOUS

\* A sequence of one element is appended.
LEMMA ConcatSingle ==
  ASSUME NEW X, NEW s \in Seq(X), NEW b \in X
  PROVE  s \o <<b>> = Append(s, b)
  OBVIOUS

\* The empty sequence adds nothing.
LEMMA ConcatEmpty ==
  ASSUME NEW X, NEW s \in Seq(X)
  PROVE  s \o <<>> = s /\ <<>> \o s = s /\ <<>> \in Seq(X)
  OBVIOUS

\* The elements of a concatenation.
LEMMA ConcatType ==
  ASSUME NEW X, NEW s \in Seq(X), NEW t \in Seq(X)
  PROVE  s \o t \in Seq(X)
  OBVIOUS

\* The elements of a sequence with one more.
LEMMA AppendType ==
  ASSUME NEW X, NEW s \in Seq(X), NEW b \in X
  PROVE  Append(s, b) \in Seq(X) /\ <<b>> \in Seq(X)
  OBVIOUS

\* A sequence is its first element and the others.
LEMMA HeadTail ==
  ASSUME NEW X, NEW s \in Seq(X), Len(s) > 0
  PROVE  s[1] \in X /\ Tail(s) \in Seq(X) /\ <<s[1]>> \o Tail(s) = s
  OBVIOUS

\* A sequence is its last element and the others.
LEMMA FrontLast ==
  ASSUME NEW X, NEW s \in Seq(X), Len(s) > 0
  PROVE  /\ s[Len(s)] \in X /\ SubSeq(s, 1, Len(s) - 1) \in Seq(X)
         /\ SubSeq(s, 1, Len(s) - 1) \o <<s[Len(s)]>> = s
  OBVIOUS

----------------------------------------------------------------------------
(* The input buffer.                                                       *)

\* The bytes in the buffer are those received and not yet read.
InputInv ==
  /\ buffer \in Queue(Nat)
  /\ received \in Nat /\ read \in Nat /\ read <= received
  /\ InputInOrder

\* The bytes that came after the m-th, up to the n-th.
Came(m, n) == [i \in 1 .. n - m |-> m + i]

\* One more byte comes, the first of them is read.
LEMMA CameFacts ==
  ASSUME NEW m \in Nat, NEW n \in Nat, m <= n
  PROVE  /\ Len(Came(m, n)) = n - m
         /\ Append(Came(m, n), n + 1) = Came(m, n + 1)
         /\ m # n => Tail(Came(m, n)) = Came(m + 1, n)
<1>1. n - m \in Nat
  OBVIOUS
<1>2. Came(m, n) \in Seq(Nat) /\ Len(Came(m, n)) = n - m
  BY <1>1 DEF Came
<1>3. Append(Came(m, n), n + 1) = Came(m, n + 1)
  BY <1>1, <1>2 DEF Came
<1>4. ASSUME m # n
      PROVE  Tail(Came(m, n)) = Came(m + 1, n)
  <2>1. n - (m + 1) \in Nat /\ n - (m + 1) = (n - m) - 1
    BY <1>4
  <2>2. Came(m + 1, n) \in Seq(Nat) /\ Len(Came(m + 1, n)) = n - (m + 1)
    BY <2>1 DEF Came
  <2>3. Tail(Came(m, n)) \in Seq(Nat) /\ Len(Tail(Came(m, n))) = (n - m) - 1
    BY <1>2, <2>1
  <2>4. ASSUME NEW i \in 1 .. n - (m + 1)
        PROVE  Tail(Came(m, n))[i] = Came(m + 1, n)[i]
    <3>1. i + 1 \in 1 .. n - m /\ i \in 1 .. Len(Tail(Came(m, n)))
      BY <2>1, <2>3
    <3>2. Tail(Came(m, n))[i] = Came(m, n)[i + 1]
      BY <1>2, <3>1
    <3>3. Came(m, n)[i + 1] = m + (i + 1) /\ Came(m + 1, n)[i] = (m + 1) + i
      BY <3>1, Zenon DEF Came
    <3>4. m + (i + 1) = (m + 1) + i
      BY <3>1
    <3> QED BY <3>2, <3>3, <3>4, Zenon
  <2> QED BY <2>1, <2>2, <2>3, <2>4, SeqEqual, Zenon
<1> QED BY <1>2, <1>3, <1>4, Zenon

\* serial_interrupt() or keyboard_interrupt() puts a byte into the buffer.
LEMMA InputPut ==
  ASSUME InputInv, ~intq_full(buffer), buffer' = Put(buffer, received + 1),
         received' = received + 1, read' = read
  PROVE  InputInv'
<1>1. buffer \in Queue(Nat) /\ received \in Nat /\ read \in Nat /\ read <= received
  BY Zenon DEF InputInv
<1>2. received' \in Nat /\ read' \in Nat /\ read' <= received'
  BY <1>1
<1>3. Contents(buffer) = Came(read, received)
  BY Zenon DEF InputInv, InputInOrder, Came
<1>4. buffer' \in Queue(Nat) /\ Contents(buffer') = Append(Contents(buffer), received + 1)
  BY <1>1, PutFacts
<1>5. Append(Came(read, received), received + 1) = Came(read, received + 1)
  BY <1>1, CameFacts, Zenon
<1>6. Contents(buffer') = Came(read', received')
  BY <1>3, <1>4, <1>5, Zenon
<1> QED BY <1>2, <1>4, <1>6, Zenon DEF InputInv, InputInOrder, Came, Contents

\* input_getc() takes one out.
LEMMA InputTake ==
  ASSUME InputInv, ~intq_empty(buffer), buffer' = Take(buffer),
         received' = received, read' = read + 1
  PROVE  InputInv'
<1>1. buffer \in Queue(Nat) /\ received \in Nat /\ read \in Nat /\ read <= received
  BY Zenon DEF InputInv
<1>2. Contents(buffer) = Came(read, received)
  BY Zenon DEF InputInv, InputInOrder, Came
<1>3. /\ buffer' \in Queue(Nat) /\ Contents(buffer') = Tail(Contents(buffer))
      /\ Len(Contents(buffer)) > 0
  BY <1>1, TakeFacts, Zenon
<1>4. Len(Came(read, received)) = received - read
  BY <1>1, CameFacts, Zenon
<1>5. read # received
  BY <1>1, <1>2, <1>3, <1>4
<1>6. received' \in Nat /\ read' \in Nat /\ read' <= received'
  BY <1>1, <1>5
<1>7. Tail(Came(read, received)) = Came(read + 1, received)
  BY <1>1, <1>5, CameFacts, Zenon
<1>8. Contents(buffer') = Came(read', received')
  BY <1>2, <1>3, <1>7, Zenon
<1> QED BY <1>3, <1>6, <1>8, Zenon DEF InputInv, InputInOrder, Came, Contents

\* A reader goes to sleep, or the buffer is left alone.
LEMMA InputSame ==
  ASSUME InputInv, received' = received, read' = read,
         \/ buffer' = buffer
         \/ \E t \in Thread : buffer' = [buffer EXCEPT !.not_empty = t]
  PROVE  InputInv'
<1>1. /\ buffer' \in Queue(Nat) /\ buffer'.buf = buffer.buf
      /\ buffer'.head = buffer.head /\ buffer'.tail = buffer.tail
  BY Zenon DEF InputInv, Queue
<1>2. Contents(buffer') = Contents(buffer)
  BY <1>1, SameContents, Zenon
<1> QED BY <1>1, <1>2, Zenon DEF InputInv, InputInOrder, Contents

\* Every step keeps the invariant of the input buffer.
LEMMA InputStep ==
  ASSUME InputInv, [Next]_vars
  PROVE  InputInv'
<1>1. CASE UNCHANGED <<buffer, received, read>>
  BY <1>1, InputSame, Zenon
<1>2. ASSUME NEW t \in Reader, input_getc(t) PROVE InputInv'
  <2>1. received' = received
    BY <1>2, Zenon DEF input_getc
  <2>2. CASE ~intq_empty(buffer) /\ buffer' = Take(buffer) /\ read' = read + 1
    BY <2>1, <2>2, InputTake, Zenon
  <2>3. CASE wait(t)
    BY <2>1, <2>3, InputSame, Zenon DEF wait, Thread
  <2>4. CASE UNCHANGED <<buffer, read>>
    BY <2>1, <2>4, InputSame, Zenon
  <2> QED BY <1>2, <2>2, <2>3, <2>4, Zenon DEF input_getc
<1>3. ASSUME NEW t \in Reader, LockAcquired(t) PROVE InputInv'
  BY <1>3, InputSame, Zenon DEF LockAcquired, wait, Thread
<1>4. CASE serial_interrupt
  <2>1. CASE rbr # NULL /\ ~intq_full(buffer)
    BY <1>4, <2>1, InputPut, Zenon DEF serial_interrupt
  <2>2. CASE ~(rbr # NULL /\ ~intq_full(buffer))
    BY <1>4, <2>2, InputSame, Zenon DEF serial_interrupt
  <2> QED BY <2>1, <2>2, Zenon
<1>5. CASE keyboard_interrupt
  BY <1>5, InputPut, Zenon DEF keyboard_interrupt
<1>6. ASSUME NEW t \in Writer, acquire_console(t) \/ serial_putc(t) \/ release_console(t)
      PROVE  UNCHANGED <<buffer, received, read>>
  BY <1>6, Zenon DEF acquire_console, serial_putc, release_console, input
<1>7. ASSUME serial_init_queue \/ serial_putc_off \/ serial_flush \/ Hardware
      PROVE  UNCHANGED <<buffer, received, read>>
  BY <1>7, Zenon DEF serial_init_queue, serial_putc_off, serial_flush, Hardware, Arrive, Transmitted,
              input
<1>8. CASE UNCHANGED vars
  BY <1>1, <1>8, Zenon DEF vars, input
<1> QED BY <1>1, <1>2, <1>3, <1>4, <1>5, <1>6, <1>7, <1>8, Zenon DEF Next, Interrupt

----------------------------------------------------------------------------
(* The output: the transmit queue, the transmitter and the line.           *)

\* A byte of the output: who printed it, and its place among that one's bytes.
Byte == (Writer \cup {irq}) \X Nat

\* What is on its way out is what was written.
Sending ==
  /\ txq \in Queue(Byte) /\ Contents(txq) \in Seq(Byte)
  /\ thr \in Byte \cup {NULL}
  /\ sent \in Seq(Byte)
  /\ OutputInOrder

\* Before serial_init_queue() the queue is empty, so that polling overtakes
\* nothing.
OutputInv ==
  /\ Sending
  /\ printed \in [Writer \cup {irq} -> Nat]
  /\ mode \in {"POLL", "QUEUE"}
  /\ mode = "POLL" => intq_empty(txq)

\* Associativity, for sequences of output bytes.
LEMMA BytesAssoc == \A s, t, u \in Seq(Byte) : (s \o t) \o u = s \o (t \o u)
<1> TAKE s, t, u \in Seq(Byte)
<1> QED OBVIOUS

\* Appending, for sequences of output bytes.
LEMMA BytesAppend ==
  \A s, t \in Seq(Byte), b \in Byte : s \o Append(t, b) = Append(s \o t, b)
<1> TAKE s, t \in Seq(Byte), b \in Byte
<1> QED OBVIOUS

\* The byte that the transmitter holds, as a sequence.
LEMMA LineFacts ==
  ASSUME thr \in Byte \cup {NULL}
  PROVE  /\ Line \in Seq(Byte)
         /\ thr \in Byte => Line = <<thr>>
         /\ thr = NULL => Line = <<>>
<1>1. NULL \notin Byte
  BY SerialAssumption, Zenon DEF Byte
<1>2. thr \in Byte => Line = <<thr>>
  BY <1>1, Zenon DEF Line
<1>3. thr = NULL => Line = <<>>
  BY Zenon DEF Line
<1>4. thr \in Byte => <<thr>> \in Seq(Byte)
  BY AppendType, ConcatEmpty
<1>5. <<>> \in Seq(Byte)
  OBVIOUS
<1> QED BY <1>2, <1>3, <1>4, <1>5, Zenon

\* The same after a step.
LEMMA LineNext ==
  /\ thr' \in Byte => Line' = <<thr'>>
  /\ thr' = NULL => Line' = <<>>
  BY SerialAssumption, Zenon DEF Line, Byte

\* What Sending says of the parts of the output.
LEMMA SendingFacts ==
  ASSUME Sending
  PROVE  /\ txq \in Queue(Byte) /\ Contents(txq) \in Seq(Byte)
         /\ thr \in Byte \cup {NULL} /\ sent \in Seq(Byte) /\ Line \in Seq(Byte)
         /\ sent \o Line \in Seq(Byte)
         /\ written = (sent \o Line) \o Contents(txq)
<1>1. /\ txq \in Queue(Byte) /\ Contents(txq) \in Seq(Byte)
      /\ thr \in Byte \cup {NULL} /\ sent \in Seq(Byte)
      /\ written = (sent \o Line) \o Contents(txq)
  BY Zenon DEF Sending, OutputInOrder
<1>2. Line \in Seq(Byte)
  BY <1>1, LineFacts, Zenon
<1>3. sent \o Line \in Seq(Byte)
  BY <1>1, <1>2, ConcatType, Zenon
<1> QED BY <1>1, <1>2, <1>3, Zenon

\* What is to be shown of a step: the parts after it add up to what has then
\* been written.
LEMMA SendingNext ==
  ASSUME NEW c \in Seq(Byte), NEW l,
         txq' \in Queue(Byte), Contents(txq') = c, thr' \in Byte \cup {NULL},
         sent' \in Seq(Byte), Line' = l, (sent' \o l) \o c = written'
  PROVE  Sending'
<1>1. Contents(txq)' = Contents(txq')
  BY Zenon DEF Contents
<1>2. OutputInOrder'
  BY <1>1, Zenon DEF OutputInOrder
<1> QED BY <1>1, <1>2, Zenon DEF Sending

\* A byte goes into the queue.
LEMMA Queued ==
  ASSUME Sending, NEW b \in Byte, ~intq_full(txq), txq' = Put(txq, b),
         thr' = thr, sent' = sent, written' = Append(written, b)
  PROVE  Sending'
<1> DEFINE c == Contents(txq)
<1>1. /\ txq \in Queue(Byte) /\ c \in Seq(Byte)
      /\ thr \in Byte \cup {NULL} /\ sent \in Seq(Byte)
      /\ sent \o Line \in Seq(Byte)
      /\ written = (sent \o Line) \o c
  BY SendingFacts, Zenon
<1>2. txq' \in Queue(Byte) /\ Contents(txq') = Append(c, b)
  BY <1>1, PutFacts, Zenon
<1> HIDE DEF c
<1>3. Append(c, b) \in Seq(Byte)
  BY <1>1, AppendType, Zenon
<1>4. (sent \o Line) \o Append(c, b) = Append((sent \o Line) \o c, b)
  BY <1>1, BytesAppend, Zenon
<1>5. Line' = Line
  BY Zenon DEF Line
<1> QED BY <1>1, <1>2, <1>3, <1>4, <1>5, SendingNext, Zenon

\* A byte goes to the transmitter, nothing is queued.
LEMMA Polled ==
  ASSUME Sending, NEW b \in Byte, intq_empty(txq), txq' = txq,
         putc_poll(b), written' = Append(written, b)
  PROVE  Sending'
<1>1. /\ txq \in Queue(Byte) /\ Contents(txq) \in Seq(Byte)
      /\ sent \o Line \in Seq(Byte)
      /\ written = (sent \o Line) \o Contents(txq)
  BY SendingFacts, Zenon
<1>2. Contents(txq) = <<>>
  <2>1. Len(Contents(txq)) = 0
    BY <1>1, SizeFacts, ContentsFacts, Zenon
  <2> QED BY <1>1, <2>1
<1>3. sent' = sent \o Line /\ thr' = b /\ Line' = <<b>>
  BY LineNext, Zenon DEF putc_poll
<1>4. written' = (sent \o Line) \o <<b>>
  BY <1>1, <1>2, ConcatEmpty, ConcatSingle
<1>5. ((sent \o Line) \o <<b>>) \o <<>> = (sent \o Line) \o <<b>> /\ <<>> \in Seq(Byte)
  BY <1>1, AppendType, ConcatType, ConcatEmpty, Zenon
<1> QED BY <1>1, <1>2, <1>3, <1>4, <1>5, SendingNext, Zenon

\* The oldest byte of a queue of bytes.
LEMMA Oldest ==
  ASSUME Sending, ~intq_empty(txq)
  PROVE  /\ Front(txq) \in Byte /\ Take(txq) \in Queue(Byte) /\ ~intq_full(Take(txq))
         /\ Contents(Take(txq)) \in Seq(Byte)
         /\ Contents(txq) = <<Front(txq)>> \o Contents(Take(txq))
<1>1. txq \in Queue(Byte) /\ Contents(txq) \in Seq(Byte)
  BY SendingFacts, Zenon
<1>2. /\ Take(txq) \in Queue(Byte) /\ ~intq_full(Take(txq))
      /\ Front(txq) = Contents(txq)[1] /\ Len(Contents(txq)) > 0
      /\ Contents(Take(txq)) = Tail(Contents(txq))
  BY <1>1, TakeFacts, Zenon
<1> QED BY <1>1, <1>2, HeadTail, Zenon

\* The oldest byte of a full queue goes to the transmitter, a byte into the queue.
LEMMA PolledFull ==
  ASSUME Sending, NEW b \in Byte, intq_full(txq), txq' = Put(Take(txq), b),
         putc_poll(Front(txq)), written' = Append(written, b)
  PROVE  Sending'
<1>1. /\ txq \in Queue(Byte) /\ Contents(txq) \in Seq(Byte)
      /\ sent \o Line \in Seq(Byte)
      /\ written = (sent \o Line) \o Contents(txq)
  BY SendingFacts, Zenon
<1>2. ~intq_empty(txq)
  <2>1. INTQ_BUFSIZE - 1 # 0
    BY SerialAssumption
  <2>2. intq_empty(txq) <=> Size(txq) = 0
    BY <1>1, SizeFacts, Zenon
  <2>3. intq_full(txq) <=> Size(txq) = INTQ_BUFSIZE - 1
    BY <1>1, SizeFacts, Zenon
  <2> QED BY <2>1, <2>2, <2>3, Zenon
<1>3. PICK f \in Byte, c \in Seq(Byte) :
        /\ f = Front(txq) /\ c = Contents(Take(txq)) /\ Contents(txq) = <<f>> \o c
        /\ Take(txq) \in Queue(Byte) /\ ~intq_full(Take(txq))
  BY <1>2, Oldest, Zenon
<1>4. txq' \in Queue(Byte) /\ Contents(txq') = Append(c, b)
  BY <1>3, PutFacts, Zenon
<1>5. sent' = sent \o Line /\ thr' = f /\ Line' = <<f>>
  BY <1>3, LineNext, Zenon DEF putc_poll
<1>6. Append(c, b) \in Seq(Byte) /\ <<f>> \in Seq(Byte)
  BY <1>3, AppendType, Zenon
<1>7. written' = Append((sent \o Line) \o (<<f>> \o c), b)
  BY <1>1, <1>3, Zenon
<1>8. (sent \o Line) \o (<<f>> \o c) = ((sent \o Line) \o <<f>>) \o c
  <2>1. PICK s \in Seq(Byte), g \in Seq(Byte) : s = sent \o Line /\ g = <<f>>
    BY <1>1, <1>6, Zenon
  <2>2. (s \o g) \o c = s \o (g \o c)
    BY <1>3, BytesAssoc, Zenon
  <2> QED BY <2>1, <2>2, Zenon
<1>9. (sent \o Line) \o <<f>> \in Seq(Byte)
  BY <1>1, <1>6, ConcatType, Zenon
<1>10. ((sent \o Line) \o <<f>>) \o Append(c, b) = Append(((sent \o Line) \o <<f>>) \o c, b)
  <2>1. PICK s \in Seq(Byte) : s = (sent \o Line) \o <<f>>
    BY <1>9, Zenon
  <2>2. s \o Append(c, b) = Append(s \o c, b)
    BY <1>3, BytesAppend, Zenon
  <2> QED BY <2>1, <2>2, Zenon
<1>11. (sent' \o <<f>>) \o Append(c, b) = written'
  BY <1>5, <1>7, <1>8, <1>10, Zenon
<1> QED BY <1>1, <1>4, <1>5, <1>6, <1>11, SendingNext, Zenon

\* The oldest byte of the queue goes to the idle transmitter.
LEMMA Dequeued ==
  ASSUME Sending, ~intq_empty(txq), thr = NULL, txq' = Take(txq), thr' = Front(txq),
         sent' = sent, written' = written
  PROVE  Sending'
<1>1. sent \in Seq(Byte) /\ written = (sent \o Line) \o Contents(txq)
  BY SendingFacts, Zenon
<1>2. PICK f \in Byte, c \in Seq(Byte) :
        /\ f = Front(txq) /\ c = Contents(Take(txq)) /\ Contents(txq) = <<f>> \o c
        /\ Take(txq) \in Queue(Byte)
  BY Oldest, Zenon
<1>3. Line = <<>> /\ Line' = <<f>>
  BY <1>2, LineFacts, LineNext, Zenon
<1>4. sent \o Line = sent
  BY <1>1, <1>3, ConcatEmpty, Zenon
<1>5. <<f>> \in Seq(Byte)
  BY <1>2, AppendType, Zenon
<1>6. sent \o (<<f>> \o c) = (sent \o <<f>>) \o c
  <2>1. PICK g \in Seq(Byte) : g = <<f>>
    BY <1>5, Zenon
  <2>2. (sent \o g) \o c = sent \o (g \o c)
    BY <1>1, <1>2, BytesAssoc, Zenon
  <2> QED BY <2>1, <2>2, Zenon
<1>7. (sent' \o <<f>>) \o c = written'
  BY <1>1, <1>2, <1>4, <1>6, Zenon
<1> QED BY <1>1, <1>2, <1>3, <1>7, SendingNext, Zenon

\* The byte of the transmitter is out.
LEMMA SentOut ==
  ASSUME Sending, thr # NULL, txq' = txq, sent' = Append(sent, thr), thr' = NULL,
         written' = written
  PROVE  Sending'
<1>1. /\ txq \in Queue(Byte) /\ Contents(txq) \in Seq(Byte)
      /\ thr \in Byte /\ sent \in Seq(Byte)
      /\ written = (sent \o Line) \o Contents(txq)
  BY SendingFacts, Zenon
<1>2. Line = <<thr>> /\ Line' = <<>>
  BY <1>1, LineFacts, LineNext, Zenon
<1>3. Append(sent, thr) \in Seq(Byte) /\ sent \o <<thr>> = Append(sent, thr)
  BY <1>1, AppendType, ConcatSingle, Zenon
<1>4. Append(sent, thr) \o <<>> = Append(sent, thr)
  BY <1>3, ConcatEmpty, Zenon
<1>5. (sent' \o <<>>) \o Contents(txq) = written'
  BY <1>1, <1>2, <1>3, <1>4, Zenon
<1> QED BY <1>1, <1>2, <1>3, <1>5, SendingNext, Zenon

\* A flush sends everything, and leaves the last byte to the transmitter.
LEMMA Flushed ==
  ASSUME Sending, serial_flush
  PROVE  Sending'
<1> DEFINE all == Line \o Contents(txq)
<1>1. /\ txq \in Queue(Byte) /\ Contents(txq) \in Seq(Byte)
      /\ sent \in Seq(Byte) /\ Line \in Seq(Byte)
      /\ written = (sent \o Line) \o Contents(txq)
  BY SendingFacts, Zenon
<1>2. /\ ~intq_empty(txq)
      /\ txq' = [txq EXCEPT !.tail = txq.head, !.not_full = NULL]
      /\ sent' = sent \o SubSeq(all, 1, Len(all) - 1)
      /\ thr' = all[Len(all)]
      /\ written' = written
  BY Zenon DEF serial_flush
<1>3. txq' \in Queue(Byte) /\ txq'.head = txq'.tail
  BY <1>1, <1>2, Zenon DEF Queue
<1>4. Contents(txq') = <<>>
  <2>1. Size(txq') = 0
    BY <1>3, SizeFacts, Zenon DEF intq_empty
  <2>2. Contents(txq') \in Seq(Byte \cup {NULL}) /\ Len(Contents(txq')) = Size(txq')
    BY <1>3, ContentsFacts, Zenon
  <2> QED BY <2>1, <2>2
<1>5. Len(Contents(txq)) > 0
  BY <1>1, <1>2, TakeFacts, Zenon
<1>6. all \in Seq(Byte) /\ Len(all) > 0
  BY <1>1, <1>5
<1>7. PICK s \in Seq(Byte), f \in Byte :
        s = SubSeq(all, 1, Len(all) - 1) /\ f = all[Len(all)] /\ s \o <<f>> = all
  BY <1>6, FrontLast, Zenon
<1>8. written = sent \o (s \o <<f>>)
  <2>1. \A u \in Seq(Byte) : (sent \o Line) \o u = sent \o (Line \o u)
    BY <1>1, BytesAssoc, Zenon
  <2>2. (sent \o Line) \o Contents(txq) = sent \o all
    BY <1>1, <2>1, Zenon
  <2> QED BY <1>1, <1>7, <2>2, Zenon
<1> HIDE DEF all
<1>a. s \in Seq(Byte) /\ f \in Byte
  BY <1>7, Zenon
<1>9. thr' = f /\ sent' = sent \o s /\ Line' = <<f>>
  BY <1>2, <1>7, LineNext, Zenon
<1>10. <<f>> \in Seq(Byte) /\ sent \o s \in Seq(Byte) /\ <<>> \in Seq(Byte)
  <2>1. <<f>> \in Seq(Byte)
    BY <1>7, AppendType, Zenon
  <2>3. sent \o s \in Seq(Byte)
    BY <1>1, <1>7, ConcatType, Zenon
  <2> QED BY <2>1, <2>3
<1>11. (sent \o s) \o <<f>> = sent \o (s \o <<f>>)
  <2>1. PICK g \in Seq(Byte) : g = <<f>>
    BY <1>10, Zenon
  <2>2. \A u \in Seq(Byte) : (sent \o s) \o u = sent \o (s \o u)
    BY <1>1, <1>a, BytesAssoc, Zenon
  <2>3. (sent \o s) \o g = sent \o (s \o g)
    BY <2>2, <2>1, Zenon
  <2> QED BY <2>1, <2>3, Zenon
<1>12. ((sent \o s) \o <<f>>) \o <<>> = (sent \o s) \o <<f>>
  BY <1>10, ConcatType, ConcatEmpty, Zenon
<1>13. (sent' \o <<f>>) \o <<>> = written'
  BY <1>2, <1>8, <1>9, <1>11, <1>12, Zenon
<1> QED BY <1>3, <1>4, <1>7, <1>9, <1>10, <1>13, SendingNext, Zenon

\* Only who waits for room has changed.
LEMMA SendingSame ==
  ASSUME Sending, thr' = thr, sent' = sent, written' = written,
         txq' = txq \/ \E t \in Thread : txq' = [txq EXCEPT !.not_full = t]
  PROVE  Sending'
<1>1. /\ txq \in Queue(Byte) /\ Contents(txq) \in Seq(Byte)
      /\ thr \in Byte \cup {NULL} /\ sent \in Seq(Byte)
      /\ written = (sent \o Line) \o Contents(txq)
  BY SendingFacts, Zenon
<1>2. /\ txq' \in Queue(Byte) /\ txq'.buf = txq.buf
      /\ txq'.head = txq.head /\ txq'.tail = txq.tail
  BY <1>1, Zenon DEF Queue
<1>3. Contents(txq') = Contents(txq)
  BY <1>2, SameContents, Zenon
<1>4. Line' = Line
  BY Zenon DEF Line
<1> QED BY <1>1, <1>2, <1>3, <1>4, SendingNext, Zenon

\* Every step keeps the invariant of the output.
LEMMA OutputStep ==
  ASSUME OutputInv, [Next]_vars
  PROVE  OutputInv'
<1>1. /\ Sending /\ printed \in [Writer \cup {irq} -> Nat]
      /\ mode \in {"POLL", "QUEUE"} /\ (mode = "POLL" => intq_empty(txq))
  BY Zenon DEF OutputInv
<1>2. \A t \in Writer \cup {irq} : /\ <<t, printed[t] + 1>> \in Byte
                                   /\ [printed EXCEPT ![t] = @ + 1] \in [Writer \cup {irq} -> Nat]
  BY <1>1 DEF Byte
<1>3. CASE UNCHANGED <<txq, thr, sent, written, printed, mode>>
  <2>1. Sending'
    BY <1>1, <1>3, SendingSame, Zenon
  <2> QED BY <1>1, <1>3, <2>1, Zenon DEF OutputInv, intq_empty
<1>4. ASSUME NEW t \in Writer, serial_putc(t) PROVE OutputInv'
  <2>1. PICK b \in Byte : b = <<t, printed[t] + 1>>
    BY <1>2, Zenon
  <2>2. mode' = mode
    BY <1>4, Zenon DEF serial_putc
  <2>3. CASE mode = "QUEUE" /\ intq_full(txq)
    <3>1. /\ txq' = [txq EXCEPT !.not_full = t] /\ printed' = printed
          /\ thr' = thr /\ sent' = sent /\ written' = written
      BY <1>4, <2>3, Zenon DEF serial_putc
    <3>2. Sending'
      BY <1>1, <3>1, SendingSame, Zenon DEF Thread
    <3> QED BY <1>1, <2>2, <2>3, <3>1, <3>2, Zenon DEF OutputInv
  <2>4. CASE ~(mode = "QUEUE" /\ intq_full(txq))
    <3>1. written' = Append(written, b) /\ printed' = [printed EXCEPT ![t] = @ + 1]
      BY <1>4, <2>1, <2>4, Zenon DEF serial_putc
    <3>2. CASE mode = "QUEUE"
      <4>1. txq' = Put(txq, b) /\ thr' = thr /\ sent' = sent
        BY <1>4, <2>1, <2>4, <3>2, Zenon DEF serial_putc
      <4>2. Sending'
        BY <1>1, <2>4, <3>1, <3>2, <4>1, Queued, Zenon
      <4> QED BY <1>2, <2>2, <3>1, <3>2, <4>2, Zenon DEF OutputInv
    <3>3. CASE mode = "POLL"
      <4>1. putc_poll(b) /\ txq' = txq
        BY <1>4, <2>1, <2>4, <3>3, Zenon DEF serial_putc
      <4>2. Sending'
        BY <1>1, <3>1, <3>3, <4>1, Polled, Zenon
      <4> QED BY <1>1, <1>2, <2>2, <3>1, <3>3, <4>1, <4>2, Zenon DEF OutputInv, intq_empty
    <3> QED BY <1>1, <3>2, <3>3, Zenon
  <2> QED BY <2>3, <2>4, Zenon
<1>5. CASE serial_putc_off
  <2>1. PICK b \in Byte : b = <<irq, printed[irq] + 1>>
    BY <1>2, Zenon
  <2>2. /\ mode' = mode /\ written' = Append(written, b)
        /\ printed' = [printed EXCEPT ![irq] = @ + 1]
    BY <1>5, <2>1, Zenon DEF serial_putc_off
  <2>3. CASE mode = "POLL"
    <3>1. putc_poll(b) /\ txq' = txq
      BY <1>5, <2>1, <2>3, Zenon DEF serial_putc_off
    <3>2. Sending'
      BY <1>1, <2>2, <2>3, <3>1, Polled, Zenon
    <3> QED BY <1>1, <1>2, <2>2, <2>3, <3>1, <3>2, Zenon DEF OutputInv, intq_empty
  <2>4. CASE mode = "QUEUE" /\ intq_full(txq)
    <3>1. putc_poll(Front(txq)) /\ txq' = Put(Take(txq), b)
      BY <1>5, <2>1, <2>4, Zenon DEF serial_putc_off
    <3>2. Sending'
      BY <1>1, <2>2, <2>4, <3>1, PolledFull, Zenon
    <3> QED BY <1>2, <2>2, <2>4, <3>2, Zenon DEF OutputInv
  <2>5. CASE mode = "QUEUE" /\ ~intq_full(txq)
    <3>1. thr' = thr /\ sent' = sent /\ txq' = Put(txq, b)
      BY <1>5, <2>1, <2>5, Zenon DEF serial_putc_off
    <3>2. Sending'
      BY <1>1, <2>2, <2>5, <3>1, Queued, Zenon
    <3> QED BY <1>2, <2>2, <2>5, <3>2, Zenon DEF OutputInv
  <2> QED BY <1>1, <2>3, <2>4, <2>5, Zenon
<1>6. CASE serial_flush
  <2>1. Sending'
    BY <1>1, <1>6, Flushed, Zenon
  <2>2. mode' = mode /\ printed' = printed /\ ~intq_empty(txq)
    BY <1>6, Zenon DEF serial_flush, console
  <2> QED BY <1>1, <2>1, <2>2, Zenon DEF OutputInv
<1>7. CASE serial_interrupt
  <2>1. /\ mode' = mode /\ printed' = printed /\ sent' = sent /\ written' = written
    BY <1>7, Zenon DEF serial_interrupt, console
  <2>2. CASE ~intq_empty(txq) /\ thr = NULL
    <3>1. txq' = Take(txq) /\ thr' = Front(txq)
      BY <1>7, <2>2, Zenon DEF serial_interrupt
    <3>2. Sending'
      BY <1>1, <2>1, <2>2, <3>1, Dequeued, Zenon
    <3> QED BY <1>1, <2>1, <2>2, <3>2, Zenon DEF OutputInv
  <2>3. CASE ~(~intq_empty(txq) /\ thr = NULL)
    <3>1. txq' = txq /\ thr' = thr
      BY <1>7, <2>3, Zenon DEF serial_interrupt
    <3> QED BY <1>3, <2>1, <3>1, Zenon
  <2> QED BY <2>2, <2>3, Zenon
<1>8. CASE Transmitted
  <2>1. Sending'
    BY <1>1, <1>8, SentOut, Zenon DEF Transmitted
  <2>2. mode' = mode /\ printed' = printed /\ txq' = txq
    BY <1>8, Zenon DEF Transmitted, console
  <2> QED BY <1>1, <2>1, <2>2, Zenon DEF OutputInv, intq_empty
<1>9. CASE serial_init_queue
  <2>1. UNCHANGED <<txq, thr, sent, written, printed>> /\ mode' = "QUEUE"
    BY <1>9, Zenon DEF serial_init_queue, output, console
  <2>2. Sending'
    BY <1>1, <2>1, SendingSame, Zenon
  <2> QED BY <1>1, <2>1, <2>2, Zenon DEF OutputInv
<1>10. ASSUME \/ \E t \in Writer : acquire_console(t) \/ release_console(t)
              \/ \E t \in Reader : input_getc(t) \/ LockAcquired(t)
              \/ keyboard_interrupt \/ Arrive
       PROVE  UNCHANGED <<txq, thr, sent, written, printed, mode>>
  BY <1>10, Zenon DEF acquire_console, release_console, input_getc, LockAcquired, keyboard_interrupt,
               Arrive, output, console
<1>11. CASE UNCHANGED vars
  BY <1>3, <1>11, Zenon DEF vars, output, console
<1> QED BY <1>3, <1>4, <1>5, <1>6, <1>7, <1>8, <1>9, <1>10, <1>11, Zenon
        DEF Next, Interrupt, Hardware

----------------------------------------------------------------------------
\* The invariant of the character devices.
SerialInv == InputInv /\ OutputInv

\* intq_init() makes an empty queue.
LEMMA InitQueue ==
  ASSUME NEW S
  PROVE  intq_init \in Queue(S) /\ intq_empty(intq_init) /\ Contents(intq_init) = <<>>
<1>1. intq_init \in Queue(S) /\ intq_empty(intq_init)
  <2>1. 0 \in Index
    BY SerialAssumption DEF Index
  <2>2. [i \in Index |-> NULL] \in [Index -> S \cup {NULL}]
    BY Zenon
  <2> QED BY <2>1, <2>2, Zenon DEF intq_init, Queue, intq_empty
<1>2. Len(Contents(intq_init)) = 0 /\ Contents(intq_init) \in Seq(S \cup {NULL})
  BY <1>1, SizeFacts, ContentsFacts, Zenon
<1> QED BY <1>1, <1>2

\* The invariant of the character devices holds in every state: the bytes in
\* the input buffer are those received and not yet read, in order; what was
\* sent, what the transmitter holds and what is queued make up what was
\* written; and nothing is queued before serial_init_queue().
THEOREM SerialInvariant == Spec => []SerialInv
<1>1. Init => SerialInv
  <2> SUFFICES ASSUME Init PROVE SerialInv
    BY Zenon
  <2>1. /\ buffer = intq_init /\ txq = intq_init /\ thr = NULL /\ mode = "POLL"
        /\ received = 0 /\ read = 0 /\ written = <<>> /\ sent = <<>>
        /\ printed = [t \in Writer \cup {irq} |-> 0]
    BY Zenon DEF Init
  <2>2. /\ buffer \in Queue(Nat) /\ txq \in Queue(Byte) /\ intq_empty(txq)
        /\ Contents(buffer) = <<>> /\ Contents(txq) = <<>>
    BY <2>1, InitQueue, Zenon
  <2>3. InputInv
    BY <2>1, <2>2 DEF InputInv, InputInOrder
  <2>4. Line = <<>>
    BY <2>1, Zenon DEF Line
  <2>5. <<>> \in Seq(Byte) /\ (<<>> \o <<>>) \o <<>> = <<>>
    OBVIOUS
  <2>6. Sending
    BY <2>1, <2>2, <2>4, <2>5, Zenon DEF Sending, OutputInOrder
  <2>7. OutputInv
    BY <2>1, <2>2, <2>6, Zenon DEF OutputInv
  <2> QED BY <2>3, <2>7, Zenon DEF SerialInv
<1>2. SerialInv /\ [Next]_vars => SerialInv'
  BY InputStep, OutputStep, Zenon DEF SerialInv
<1> QED BY <1>1, <1>2, PTL DEF Spec

\* input_getc() returns the bytes in the order in which they came, none twice
\* and none overwritten, for every size of the buffer and any number of
\* readers (intq_putc(), intq_getc()).
THEOREM InputIsInOrder == Spec => []InputInOrder
<1>1. SerialInv => InputInOrder
  BY Zenon DEF SerialInv, InputInv
<1> QED BY <1>1, SerialInvariant, PTL

\* Bytes leave the port in the order in which serial_putc() accepted them,
\* whether by interrupt, by polling around a full queue or by a flush, for
\* every size of the queue and any number of writers.
THEOREM OutputIsInOrder == Spec => []OutputInOrder
<1>1. SerialInv => OutputInOrder
  BY Zenon DEF SerialInv, OutputInv, Sending
<1> QED BY <1>1, SerialInvariant, PTL
====
