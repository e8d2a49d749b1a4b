---------------------------- MODULE ListLemmas ----------------------------
(***************************************************************************)
(* What the kernel's list operations (lib/kernel/list.c) do to the set of  *)
(* elements of a list without repetitions.                                 *)
(***************************************************************************)
EXTENDS Integers, Sequences, Functions, TLAPS

\* list_pop_front() removes the first element and keeps the others apart.
LEMMA PopFront ==
  ASSUME NEW S, NEW s \in Seq(S), s # <<>>, IsInjective(s)
  PROVE  /\ Head(s) \in S /\ Head(s) \in Range(s)
         /\ Tail(s) \in Seq(S)
         /\ IsInjective(Tail(s))
         /\ Range(Tail(s)) = Range(s) \ {Head(s)}
<1>1. /\ Head(s) = s[1] /\ Head(s) \in S /\ Tail(s) \in Seq(S)
      /\ Len(s) \in Nat \ {0}
      /\ DOMAIN s = 1..Len(s) /\ DOMAIN Tail(s) = 1..(Len(s) - 1)
      /\ \A i \in 1..(Len(s) - 1) : Tail(s)[i] = s[i + 1]
  OBVIOUS
<1>2. IsInjective(Tail(s))
  BY <1>1 DEF IsInjective
<1>3. \A x : x \in Range(Tail(s)) <=> \E i \in 2..Len(s) : s[i] = x
  <2>1. \A x : x \in Range(Tail(s)) <=> \E i \in 1..(Len(s) - 1) : s[i + 1] = x
    BY <1>1, Zenon DEF Range
  <2>2. ASSUME NEW i \in 2..Len(s) PROVE i - 1 \in 1..(Len(s) - 1) /\ s[(i - 1) + 1] = s[i]
    BY <1>1
  <2>3. \A i \in 1..(Len(s) - 1) : i + 1 \in 2..Len(s)
    BY <1>1
  <2>4. QED BY <2>1, <2>2, <2>3, Zenon
<1>4. \A x : x \in Range(s) <=> \E i \in 1..Len(s) : s[i] = x
  BY <1>1, Zenon DEF Range
<1>5. Range(Tail(s)) = Range(s) \ {Head(s)}
  <2>1. \A i \in 2..Len(s) : s[i] # s[1]
    BY <1>1 DEF IsInjective
  <2>2. 1..Len(s) = {1} \cup 2..Len(s)
    BY <1>1
  <2>3. QED BY <1>1, <1>3, <1>4, <2>1, <2>2
<1>6. QED BY <1>1, <1>2, <1>4, <1>5

\* list_push_back() of an element that is not on the list.
LEMMA PushBack ==
  ASSUME NEW S, NEW s \in Seq(S), IsInjective(s), NEW e \in S, e \notin Range(s)
  PROVE  /\ Append(s, e) \in Seq(S)
         /\ Append(s, e) # <<>>
         /\ IsInjective(Append(s, e))
         /\ Range(Append(s, e)) = Range(s) \cup {e}
<1>1. /\ Append(s, e) \in Seq(S) /\ Len(s) \in Nat
      /\ DOMAIN s = 1..Len(s) /\ DOMAIN Append(s, e) = 1..(Len(s) + 1)
      /\ Append(s, e) # <<>>
      /\ \A i \in 1..(Len(s) + 1) :
           Append(s, e)[i] = IF i <= Len(s) THEN s[i] ELSE e
  OBVIOUS
<1>2. \A i \in 1..Len(s) : s[i] # e
  BY <1>1, Zenon DEF Range
<1>3. IsInjective(Append(s, e))
  BY <1>1, <1>2 DEF IsInjective
<1>4. \A x : x \in Range(Append(s, e)) <=> \E i \in 1..(Len(s) + 1) : Append(s, e)[i] = x
  BY <1>1, Zenon DEF Range
<1>5. \A x : x \in Range(s) <=> \E i \in 1..Len(s) : s[i] = x
  BY <1>1, Zenon DEF Range
<1>6. 1..(Len(s) + 1) = 1..Len(s) \cup {Len(s) + 1}
  BY <1>1
<1>7. Range(Append(s, e)) = Range(s) \cup {e}
  BY <1>1, <1>4, <1>5, <1>6
<1>8. QED BY <1>1, <1>3, <1>7, Zenon

\* list_init() makes a list without elements.
LEMMA EmptyList ==
  /\ \A S : <<>> \in Seq(S)
  /\ Range(<<>>) = {}
  /\ IsInjective(<<>>)
BY DEF Range, IsInjective

\* The front and the rest of a list: they share no element and together they
\* are the list.
LEMMA Split ==
  ASSUME NEW S, NEW s \in Seq(S), IsInjective(s), NEW n \in 0..Len(s)
  PROVE  LET f == SubSeq(s, 1, n)
             r == SubSeq(s, n + 1, Len(s))
         IN  /\ f \in Seq(S) /\ IsInjective(f)
             /\ r \in Seq(S) /\ IsInjective(r)
             /\ Range(f) \cup Range(r) = Range(s)
             /\ Range(f) \cap Range(r) = {}
<1> DEFINE f == SubSeq(s, 1, n)
           r == SubSeq(s, n + 1, Len(s))
<1>1. /\ Len(s) \in Nat /\ n \in Nat /\ n <= Len(s) /\ DOMAIN s = 1..Len(s)
      /\ \A i \in 1..Len(s) : s[i] \in S
  OBVIOUS
<1>2. /\ f \in Seq(S) /\ DOMAIN f = 1..n
      /\ \A i \in 1..n : f[i] = s[i]
  BY <1>1
<1>3. /\ r \in Seq(S) /\ DOMAIN r = 1..(Len(s) - n)
      /\ \A i \in 1..(Len(s) - n) : r[i] = s[n + i]
  BY <1>1
<1> HIDE DEF f, r
<1>4. IsInjective(f) /\ IsInjective(r)
  <2>1. \A i, j \in 1..Len(s) : s[i] = s[j] => i = j
    BY <1>1, Zenon DEF IsInjective
  <2>2. IsInjective(f)
    BY <1>1, <1>2, <2>1 DEF IsInjective
  <2>3. \A i, j \in 1..(Len(s) - n) : r[i] = r[j] => i = j
    <3> SUFFICES ASSUME NEW i \in 1..(Len(s) - n), NEW j \in 1..(Len(s) - n), r[i] = r[j]
                 PROVE  i = j
      BY Zenon
    <3>1. n + i \in 1..Len(s) /\ n + j \in 1..Len(s) /\ s[n + i] = s[n + j]
      BY <1>1, <1>3
    <3>2. QED BY <1>1, <2>1, <3>1
  <2>4. IsInjective(r)
    BY <1>3, <2>3, Zenon DEF IsInjective
  <2>5. QED BY <2>2, <2>4, Zenon
<1>5. \A x : x \in Range(s) <=> \E i \in 1..Len(s) : s[i] = x
  BY <1>1, Zenon DEF Range
<1>6. \A x : x \in Range(f) <=> \E i \in 1..n : s[i] = x
  BY <1>2, Zenon DEF Range
<1>7. \A x : x \in Range(r) <=> \E i \in (n + 1)..Len(s) : s[i] = x
  <2>1. \A x : x \in Range(r) <=> \E i \in 1..(Len(s) - n) : s[n + i] = x
    BY <1>3, Zenon DEF Range
  <2>2. \A i \in (n + 1)..Len(s) : i - n \in 1..(Len(s) - n) /\ n + (i - n) = i
    BY <1>1
  <2>3. \A i \in 1..(Len(s) - n) : n + i \in (n + 1)..Len(s)
    BY <1>1
  <2>4. QED BY <2>1, <2>2, <2>3, Zenon
<1>8. 1..Len(s) = 1..n \cup (n + 1)..Len(s)
  BY <1>1
<1>9. \A i \in 1..n, j \in (n + 1)..Len(s) : s[i] # s[j]
  BY <1>1 DEF IsInjective
<1>10. Range(f) \cup Range(r) = Range(s)
  BY <1>5, <1>6, <1>7, <1>8, Zenon
<1>11. Range(f) \cap Range(r) = {}
  BY <1>6, <1>7, <1>9, Zenon
<1>12. QED BY <1>2, <1>3, <1>4, <1>10, <1>11, Zenon DEF f, r

\* Two lists that share no element, one after the other.
LEMMA Join ==
  ASSUME NEW S, NEW a \in Seq(S), NEW b \in Seq(S),
         IsInjective(a), IsInjective(b), Range(a) \cap Range(b) = {}
  PROVE  /\ a \o b \in Seq(S)
         /\ IsInjective(a \o b)
         /\ Range(a \o b) = Range(a) \cup Range(b)
<1>1. /\ Len(a) \in Nat /\ Len(b) \in Nat
      /\ DOMAIN a = 1..Len(a) /\ DOMAIN b = 1..Len(b)
      /\ a \o b \in Seq(S) /\ DOMAIN (a \o b) = 1..(Len(a) + Len(b))
      /\ \A i \in 1..(Len(a) + Len(b)) :
           (a \o b)[i] = IF i <= Len(a) THEN a[i] ELSE b[i - Len(a)]
  OBVIOUS
<1>2. \A i \in 1..Len(a), j \in 1..Len(b) : a[i] # b[j]
  <2>1. \A i \in 1..Len(a) : a[i] \in Range(a)
    BY <1>1, Zenon DEF Range
  <2>2. \A i \in 1..Len(b) : b[i] \in Range(b)
    BY <1>1, Zenon DEF Range
  <2>3. QED BY <2>1, <2>2, Zenon
<1>3. IsInjective(a \o b)
  <2> SUFFICES ASSUME NEW i \in 1..(Len(a) + Len(b)), NEW j \in 1..(Len(a) + Len(b)),
                      (a \o b)[i] = (a \o b)[j]
               PROVE  i = j
    BY <1>1, Zenon DEF IsInjective
  <2>1. CASE i <= Len(a) /\ j <= Len(a)
    BY <2>1, <1>1 DEF IsInjective
  <2>2. CASE i > Len(a) /\ j > Len(a)
    <3>1. i - Len(a) \in 1..Len(b) /\ j - Len(a) \in 1..Len(b)
      BY <2>2, <1>1
    <3>2. b[i - Len(a)] = b[j - Len(a)]
      BY <2>2, <1>1
    <3>3. i - Len(a) = j - Len(a)
      BY <3>1, <3>2, <1>1, Zenon DEF IsInjective
    <3>4. QED BY <3>3, <1>1
  <2>3. CASE i <= Len(a) /\ j > Len(a)
    <3>1. i \in 1..Len(a) /\ j - Len(a) \in 1..Len(b)
      BY <2>3, <1>1
    <3>2. QED BY <3>1, <2>3, <1>1, <1>2
  <2>4. CASE i > Len(a) /\ j <= Len(a)
    <3>1. j \in 1..Len(a) /\ i - Len(a) \in 1..Len(b)
      BY <2>4, <1>1
    <3>2. QED BY <3>1, <2>4, <1>1, <1>2
  <2>5. QED BY <2>1, <2>2, <2>3, <2>4, <1>1
<1>4. \A x : x \in Range(a \o b) <=> \E i \in 1..(Len(a) + Len(b)) : (a \o b)[i] = x
  BY <1>1, Zenon DEF Range
<1>5. \A x : x \in Range(a) <=> \E i \in 1..Len(a) : a[i] = x
  BY <1>1, Zenon DEF Range
<1>6. \A x : x \in Range(b) <=> \E i \in 1..Len(b) : b[i] = x
  BY <1>1, Zenon DEF Range
<1>7. \A i \in 1..Len(a) : i \in 1..(Len(a) + Len(b)) /\ (a \o b)[i] = a[i]
  BY <1>1
<1>8. \A i \in 1..Len(b) : i + Len(a) \in 1..(Len(a) + Len(b)) /\ (a \o b)[i + Len(a)] = b[i]
  BY <1>1
<1>9. \A i \in 1..(Len(a) + Len(b)) :
         \/ i \in 1..Len(a)
         \/ i - Len(a) \in 1..Len(b) /\ (a \o b)[i] = b[i - Len(a)]
  BY <1>1
<1>10. Range(a \o b) = Range(a) \cup Range(b)
  <2>1. ASSUME NEW x \in Range(a \o b) PROVE x \in Range(a) \cup Range(b)
    <3>1. PICK i \in 1..(Len(a) + Len(b)) : (a \o b)[i] = x
      BY <1>4, Zenon
    <3>2. CASE i \in 1..Len(a)
      BY <3>1, <3>2, <1>5, <1>7, Zenon
    <3>3. CASE i - Len(a) \in 1..Len(b) /\ (a \o b)[i] = b[i - Len(a)]
      BY <3>1, <3>3, <1>6, Zenon
    <3>4. QED BY <3>2, <3>3, <1>9, Zenon
  <2>2. Range(a) \subseteq Range(a \o b)
    BY <1>4, <1>5, <1>7, Zenon
  <2>3. Range(b) \subseteq Range(a \o b)
    BY <1>4, <1>6, <1>8, Zenon
  <2>4. QED BY <2>1, <2>2, <2>3, Zenon
<1>11. QED BY <1>1, <1>3, <1>10, Zenon

\* list_insert() of an element that is not on the list.
LEMMA Insert ==
  ASSUME NEW S, NEW s \in Seq(S), IsInjective(s),
         NEW k \in 0..Len(s), NEW e \in S, e \notin Range(s)
  PROVE  LET i == Append(SubSeq(s, 1, k), e) \o SubSeq(s, k + 1, Len(s))
         IN  i \in Seq(S) /\ IsInjective(i) /\ Range(i) = Range(s) \cup {e}
<1> DEFINE f == SubSeq(s, 1, k)
           r == SubSeq(s, k + 1, Len(s))
           h == Append(f, e)
<1>1. /\ f \in Seq(S) /\ IsInjective(f) /\ r \in Seq(S) /\ IsInjective(r)
      /\ Range(f) \cup Range(r) = Range(s) /\ Range(f) \cap Range(r) = {}
  BY Split, Zenon
<1> HIDE DEF f, r
<1>2. /\ h \in Seq(S) /\ IsInjective(h) /\ Range(h) = Range(f) \cup {e}
  BY <1>1, PushBack
<1> HIDE DEF h
<1>3. /\ h \o r \in Seq(S) /\ IsInjective(h \o r)
      /\ Range(h \o r) = Range(h) \cup Range(r)
  <2>1. Range(h) \cap Range(r) = {}
    BY <1>1, <1>2, Zenon
  <2>2. QED BY <1>1, <1>2, <2>1, Join
<1>4. Range(h \o r) = Range(s) \cup {e}
  BY <1>1, <1>2, <1>3, Zenon
<1>5. QED BY <1>3, <1>4, Zenon DEF f, r, h

\* list_remove() of the element at place k.
LEMMA RemovePlace ==
  ASSUME NEW S, NEW s \in Seq(S), IsInjective(s), NEW k \in 1..Len(s)
  PROVE  LET r == SubSeq(s, 1, k - 1) \o SubSeq(s, k + 1, Len(s))
         IN  r \in Seq(S) /\ IsInjective(r) /\ Range(r) = Range(s) \ {s[k]}
<1> DEFINE a == SubSeq(s, 1, k - 1)
           f == SubSeq(s, 1, k)
           b == SubSeq(s, k + 1, Len(s))
<1>1. /\ k - 1 \in 0..Len(s) /\ k \in 0..Len(s) /\ Len(s) \in Nat
      /\ DOMAIN s = 1..Len(s)
  OBVIOUS
<1>2. a \in Seq(S) /\ IsInjective(a)
  BY <1>1, Split, Zenon
<1>3. /\ b \in Seq(S) /\ IsInjective(b)
      /\ Range(f) \cup Range(b) = Range(s) /\ Range(f) \cap Range(b) = {}
  BY <1>1, Split, Zenon
<1>4. \A x : x \in Range(a) <=> \E i \in 1..(k - 1) : s[i] = x
  <2>1. DOMAIN a = 1..(k - 1) /\ \A i \in 1..(k - 1) : a[i] = s[i]
    BY <1>1
  <2>2. QED BY <2>1, Zenon DEF Range
<1>5. \A x : x \in Range(f) <=> \E i \in 1..k : s[i] = x
  <2>1. DOMAIN f = 1..k /\ \A i \in 1..k : f[i] = s[i]
    BY <1>1
  <2>2. QED BY <2>1, Zenon DEF Range
<1> HIDE DEF a, f, b
<1>6. 1..k = 1..(k - 1) \cup {k} /\ \A i \in 1..(k - 1) : s[i] # s[k]
  BY <1>1 DEF IsInjective
<1>7. Range(a) = Range(f) \ {s[k]} /\ s[k] \in Range(f)
  BY <1>4, <1>5, <1>6
<1>8. /\ a \o b \in Seq(S) /\ IsInjective(a \o b) /\ Range(a \o b) = Range(a) \cup Range(b)
  <2>1. Range(a) \cap Range(b) = {}
    BY <1>3, <1>7, Zenon
  <2>2. QED BY <1>2, <1>3, <2>1, Join
<1>9. Range(a \o b) = Range(s) \ {s[k]}
  BY <1>3, <1>7, <1>8, Zenon
<1>10. QED BY <1>8, <1>9, Zenon DEF a, b

\* Taking the first n elements off a list leaves the others, in their order.
LEMMA DropFront ==
  ASSUME NEW S, NEW s \in Seq(S), NEW n \in 0..Len(s),
         NEW r, r = SubSeq(s, n + 1, Len(s))
  PROVE  /\ Len(r) = Len(s) - n /\ DOMAIN r = 1..(Len(s) - n)
         /\ \A i \in 1..(Len(s) - n) : r[i] = s[n + i] /\ n + i \in 1..Len(s)
<1>1. PICK l \in Nat : l = Len(s)
  OBVIOUS
<1>2. n \in Nat /\ n <= l /\ l - n \in Nat /\ l - (n + 1) + 1 = l - n
  BY <1>1
<1>3. ASSUME NEW i \in 1..(l - n)
      PROVE  n + i \in 1..l /\ i + (n + 1) - 1 = n + i
  BY <1>2
<1>4. Len(r) = l - n /\ DOMAIN r = 1..(l - n)
  BY <1>1, <1>2
<1>5. \A i \in 1..(l - n) : r[i] = s[i + (n + 1) - 1]
  BY <1>1, <1>2
<1>6. QED BY <1>1, <1>3, <1>4, <1>5, Zenon
=============================================================================
