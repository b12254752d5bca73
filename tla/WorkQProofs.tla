---------------------------- MODULE WorkQProofs ----------------------------
(***************************************************************************)
(* Proofs about work items and work queues, for any number of items,       *)
(* queues and clients, on one CPU and on several.                          *)
(***************************************************************************)
EXTENDS WorkQ, TLAPS, WellFoundedInduction, FiniteSetTheorems, SequenceTheorems

-----------------------------------------------------------------------------
(* Lists without repetition: what is linked, and what is ahead of what.    *)

In(s, x) == \E j \in 1..Len(s) : s[j] = x

Before(s, x, y) == \E j, k \in 1..Len(s) : j < k /\ s[j] = x /\ s[k] = y

NoDup(s) == \A j, k \in 1..Len(s) : s[j] = s[k] => j = k

(* r is s with e inserted at position k. *)
IsInsertion(r, s, e, k) ==
  /\ Len(r) = Len(s) + 1
  /\ \A i \in 1..(k - 1) : r[i] = s[i]
  /\ r[k] = e
  /\ \A i \in k..Len(s) : r[i + 1] = s[i]

(* r is s with e, at position k, taken out. *)
IsRemoval(r, s, e, k) ==
  /\ s[k] = e
  /\ Len(r) = Len(s) - 1
  /\ \A i \in 1..(k - 1) : r[i] = s[i]
  /\ \A i \in k..(Len(s) - 1) : r[i] = s[i + 1]

(* Inserting an item that is not linked keeps the others in order and puts *)
(* it behind exactly the ones that were ahead of its position.             *)
LEMMA InsertionFacts ==
  ASSUME NEW S, NEW s \in Seq(S), NEW r \in Seq(S), NEW e \in S,
         NEW k \in 1..(Len(s) + 1), IsInsertion(r, s, e, k)
  PROVE  /\ NoDup(s) /\ ~In(s, e) => NoDup(r)
         /\ \A x : In(r, x) <=> In(s, x) \/ x = e
         /\ \A x, y : Before(s, x, y) => Before(r, x, y)
         /\ \A x : (\E i \in 1..(k - 1) : s[i] = x) => Before(r, x, e)
<1> DEFINE f(i) == IF i < k THEN i ELSE i + 1
<1>0. Len(s) \in Nat /\ Len(r) \in Nat
  OBVIOUS
<1>1. \A i \in 1..Len(s) : f(i) \in 1..Len(r) /\ f(i) # k /\ r[f(i)] = s[i]
  BY <1>0 DEF IsInsertion
<1>2. \A i \in 1..Len(r) : i = k \/ \E j \in 1..Len(s) : i = f(j)
  <2>1. TAKE i \in 1..Len(r)
  <2>2. CASE i < k
    BY <2>2, <1>0 DEF IsInsertion
  <2>3. CASE i > k
    <3>1. i - 1 \in 1..Len(s) /\ i = f(i - 1)
      BY <2>3, <1>0 DEF IsInsertion
    <3>2. QED
      BY <3>1
  <2>4. QED
    BY <2>2, <2>3, <1>0
<1>3. \A i, j \in 1..Len(s) : i < j <=> f(i) < f(j)
  BY <1>0
<1>4. k \in 1..Len(r) /\ r[k] = e
  BY <1>0 DEF IsInsertion
<1>5. \A i, j \in 1..Len(s) : f(i) = f(j) => i = j
  BY <1>0
<1>6. \A i \in 1..(k - 1) : f(i) < k /\ i \in 1..Len(s)
  BY <1>0
<1> HIDE DEF f
<1>7. NoDup(s) /\ ~In(s, e) => NoDup(r)
  <2>1. SUFFICES ASSUME NoDup(s), ~In(s, e), NEW i \in 1..Len(r), NEW j \in 1..Len(r),
                        r[i] = r[j]
                 PROVE  i = j
    BY DEF NoDup
  <2>2. CASE i = k \/ j = k
    <3>1. \A n \in 1..Len(r) : n # k => r[n] # e
      <4>1. TAKE n \in 1..Len(r)
      <4>2. SUFFICES ASSUME n # k PROVE r[n] # e
        OBVIOUS
      <4>3. PICK l \in 1..Len(s) : n = f(l)
        BY <4>2, <1>2
      <4>4. r[n] = s[l]
        BY <4>3, <1>1
      <4>5. QED
        BY <2>1, <4>4 DEF In
    <3>2. QED
      BY <2>1, <2>2, <3>1, <1>4
  <2>3. CASE i # k /\ j # k
    <3>1. PICK x \in 1..Len(s) : i = f(x)
      BY <2>3, <1>2
    <3>2. PICK y \in 1..Len(s) : j = f(y)
      BY <2>3, <1>2
    <3>3. s[x] = s[y]
      BY <2>1, <3>1, <3>2, <1>1
    <3>4. x = y
      BY <2>1, <3>3 DEF NoDup
    <3>5. QED
      BY <3>1, <3>2, <3>4
  <2>4. QED
    BY <2>2, <2>3
<1>8. \A x : In(r, x) <=> In(s, x) \/ x = e
  BY <1>1, <1>2, <1>4 DEF In
<1>9. \A x, y : Before(s, x, y) => Before(r, x, y)
  BY <1>1, <1>3 DEF Before
<1>10. \A x : (\E i \in 1..(k - 1) : s[i] = x) => Before(r, x, e)
  BY <1>1, <1>4, <1>6 DEF Before
<1>11. QED
  BY <1>7, <1>8, <1>9, <1>10

(* Taking an item out keeps the others in order. *)
LEMMA RemovalFacts ==
  ASSUME NEW S, NEW s \in Seq(S), NEW r \in Seq(S), NEW e \in S,
         NEW k \in 1..Len(s), IsRemoval(r, s, e, k), NoDup(s)
  PROVE  /\ NoDup(r)
         /\ \A x : In(r, x) <=> In(s, x) /\ x # e
         /\ \A x, y : x # e /\ y # e => (Before(s, x, y) <=> Before(r, x, y))
<1> DEFINE f(i) == IF i < k THEN i ELSE i + 1
<1>0. Len(s) \in Nat /\ Len(r) \in Nat
  OBVIOUS
<1>1. \A i \in 1..Len(r) : f(i) \in 1..Len(s) /\ f(i) # k /\ s[f(i)] = r[i]
  BY <1>0 DEF IsRemoval
<1>2. \A i \in 1..Len(s) : i = k \/ \E j \in 1..Len(r) : i = f(j)
  <2>1. TAKE i \in 1..Len(s)
  <2>2. CASE i < k
    BY <2>2, <1>0, SMTT(30) DEF IsRemoval
  <2>3. CASE i > k
    <3>1. i - 1 \in 1..Len(r) /\ i = f(i - 1)
      BY <2>3, <1>0 DEF IsRemoval
    <3>2. QED
      BY <3>1
  <2>4. QED
    BY <2>2, <2>3, <1>0
<1>3. \A i, j \in 1..Len(r) : i < j <=> f(i) < f(j)
  BY <1>0
<1>4. s[k] = e
  BY DEF IsRemoval
<1>5. \A i, j \in 1..Len(r) : f(i) = f(j) => i = j
  BY <1>0
<1> HIDE DEF f
<1>6. NoDup(r)
  BY <1>1, <1>5 DEF NoDup
<1>7. \A x : In(r, x) <=> In(s, x) /\ x # e
  <2>1. ASSUME NEW x, In(r, x) PROVE In(s, x) /\ x # e
    <3>1. PICK i \in 1..Len(r) : r[i] = x
      BY <2>1 DEF In
    <3>2. s[f(i)] = x /\ f(i) \in 1..Len(s) /\ f(i) # k
      BY <3>1, <1>1
    <3>3. QED
      BY <3>2, <1>4 DEF In, NoDup
  <2>2. ASSUME NEW x, In(s, x), x # e PROVE In(r, x)
    <3>1. PICK i \in 1..Len(s) : s[i] = x
      BY <2>2 DEF In
    <3>2. PICK j \in 1..Len(r) : i = f(j)
      BY <3>1, <2>2, <1>2, <1>4
    <3>3. QED
      BY <3>1, <3>2, <1>1 DEF In
  <2>3. QED
    BY <2>1, <2>2
<1>8. \A x, y : x # e /\ y # e => (Before(s, x, y) <=> Before(r, x, y))
  <2>1. SUFFICES ASSUME NEW x, NEW y, x # e, y # e
                 PROVE  Before(s, x, y) <=> Before(r, x, y)
    OBVIOUS
  <2>2. ASSUME Before(s, x, y) PROVE Before(r, x, y)
    <3>1. PICK i, j \in 1..Len(s) : i < j /\ s[i] = x /\ s[j] = y
      BY <2>2 DEF Before
    <3>2. i # k /\ j # k
      BY <3>1, <2>1, <1>4
    <3>3. PICK a, b \in 1..Len(r) : i = f(a) /\ j = f(b)
      BY <3>2, <1>2
    <3>4. a < b /\ r[a] = x /\ r[b] = y
      BY <3>1, <3>3, <1>1, <1>3
    <3>5. QED
      BY <3>4 DEF Before
  <2>3. ASSUME Before(r, x, y) PROVE Before(s, x, y)
    BY <2>3, <1>1, <1>3 DEF Before
  <2>4. QED
    BY <2>2, <2>3
<1>9. QED
  BY <1>6, <1>7, <1>8

(* sys_slist_append *)
LEMMA AppendIsInsertion ==
  ASSUME NEW S, NEW s \in Seq(S), NEW e \in S
  PROVE  Append(s, e) \in Seq(S) /\ IsInsertion(Append(s, e), s, e, Len(s) + 1)
  BY DEF IsInsertion

LEMMA AppendFacts ==
  ASSUME NEW S, NEW s \in Seq(S), NEW e \in S, NoDup(s), ~In(s, e)
  PROVE  /\ Append(s, e) \in Seq(S)
         /\ NoDup(Append(s, e))
         /\ \A x : In(Append(s, e), x) <=> In(s, x) \/ x = e
         /\ \A x, y : Before(s, x, y) => Before(Append(s, e), x, y)
         /\ \A x : In(s, x) => Before(Append(s, e), x, e)
<1>1. PICK r \in Seq(S) : r = Append(s, e) /\ IsInsertion(r, s, e, Len(s) + 1)
  BY AppendIsInsertion
<1>2. PICK k \in 1..(Len(s) + 1) : k = Len(s) + 1 /\ k - 1 = Len(s)
  <2>1. Len(s) + 1 \in 1..(Len(s) + 1) /\ (Len(s) + 1) - 1 = Len(s)
    OBVIOUS
  <2>2. QED
    BY <2>1
<1>3. /\ NoDup(r)
      /\ \A x : In(r, x) <=> In(s, x) \/ x = e
      /\ \A x, y : Before(s, x, y) => Before(r, x, y)
      /\ \A x : (\E i \in 1..(k - 1) : s[i] = x) => Before(r, x, e)
  <2>1. IsInsertion(r, s, e, k)
    BY <1>1, <1>2
  <2>2. QED
    BY <2>1, InsertionFacts
<1>4. QED
  BY <1>1, <1>2, <1>3 DEF In

(* sys_slist_insert, at any position *)
LEMMA InsertAtIsInsertion ==
  ASSUME NEW S, NEW s \in Seq(S), NEW e \in S, NEW k \in 1..(Len(s) + 1)
  PROVE  InsertAt(s, k, e) \in Seq(S) /\ IsInsertion(InsertAt(s, k, e), s, e, k)
<1> DEFINE a == SubSeq(s, 1, k - 1)
           b == SubSeq(s, k, Len(s))
<1>0. Len(s) \in Nat /\ k \in Nat /\ 1 <= k /\ k <= Len(s) + 1
  OBVIOUS
<1>1. /\ a \in Seq(S) /\ Len(a) = k - 1
      /\ \A i \in 1..(k - 1) : a[i] = s[i]
  BY <1>0, SubSeqProperties
<1>2. /\ b \in Seq(S) /\ Len(b) = Len(s) - k + 1
      /\ \A i \in 1..(Len(s) - k + 1) : b[i] = s[k + i - 1]
  BY <1>0, SubSeqProperties
<1>3. InsertAt(s, k, e) = (a \o <<e>>) \o b
  BY DEF InsertAt
<1> HIDE DEF a, b
<1>4. /\ a \o <<e>> \in Seq(S)
      /\ Len(a \o <<e>>) = k
      /\ \A i \in 1..(k - 1) : (a \o <<e>>)[i] = s[i]
      /\ (a \o <<e>>)[k] = e
  <2>1. /\ <<e>> \in Seq(S) /\ Len(<<e>>) = 1 /\ <<e>>[1] = e
    OBVIOUS
  <2>2. /\ a \o <<e>> \in Seq(S)
        /\ Len(a \o <<e>>) = Len(a) + Len(<<e>>)
        /\ \A i \in 1..(Len(a) + Len(<<e>>)) :
             (a \o <<e>>)[i] = IF i <= Len(a) THEN a[i] ELSE <<e>>[i - Len(a)]
    BY <1>1, <2>1, ConcatProperties
  <2>3. QED
    BY <1>0, <1>1, <2>1, <2>2
<1> DEFINE d == a \o <<e>>
<1>5. /\ d \in Seq(S) /\ Len(d) = k
      /\ \A i \in 1..(k - 1) : d[i] = s[i]
      /\ d[k] = e
      /\ InsertAt(s, k, e) = d \o b
  BY <1>3, <1>4
<1> HIDE DEF d
<1>6. /\ d \o b \in Seq(S)
      /\ Len(d \o b) = Len(d) + Len(b)
      /\ \A i \in 1..(Len(d) + Len(b)) :
           (d \o b)[i] = IF i <= Len(d) THEN d[i] ELSE b[i - Len(d)]
  BY <1>2, <1>5, ConcatProperties
<1>7. \A i \in k..Len(s) : (d \o b)[i + 1] = s[i]
  <2>1. TAKE i \in k..Len(s)
  <2>2. i + 1 \in 1..(Len(d) + Len(b)) /\ ~(i + 1 <= Len(d))
    BY <1>0, <1>2, <1>5
  <2>3. (d \o b)[i + 1] = b[i + 1 - k]
    BY <1>5, <1>6, <2>2
  <2>4. i + 1 - k \in 1..(Len(s) - k + 1) /\ k + (i + 1 - k) - 1 = i
    BY <1>0
  <2>5. QED
    BY <1>2, <2>3, <2>4
<1>8. \A i \in 1..(k - 1) : (d \o b)[i] = s[i]
  BY <1>0, <1>2, <1>5, <1>6
<1>9. Len(d \o b) = Len(s) + 1 /\ (d \o b)[k] = e
  BY <1>0, <1>2, <1>5, <1>6
<1>10. QED
  BY <1>5, <1>6, <1>7, <1>8, <1>9 DEF IsInsertion

(* queue_flusher_locked: the flusher is behind the item, if that is linked *)
LEMMA FlusherIsInsertion ==
  ASSUME NEW S, NEW s \in Seq(S), NEW w, NEW c \in S
  PROVE  /\ WithFlusher(s, w, c) \in Seq(S)
         /\ \E k \in 1..(Len(s) + 1) :
              /\ IsInsertion(WithFlusher(s, w, c), s, c, k)
              /\ In(s, w) => \E i \in 1..(k - 1) : s[i] = w
<1>0. Len(s) \in Nat
  OBVIOUS
<1>1. CASE In(s, w)
  <2> DEFINE n == IndexIn(s, w)
  <2>1. n \in 1..Len(s) /\ s[n] = w
    BY <1>1 DEF In, IndexIn
  <2>2. WithFlusher(s, w, c) = InsertAt(s, n + 1, c)
    BY <1>1 DEF In, WithFlusher
  <2> HIDE DEF n
  <2>3. IsInsertion(InsertAt(s, n + 1, c), s, c, n + 1) /\ InsertAt(s, n + 1, c) \in Seq(S)
    BY <2>1, <1>0, InsertAtIsInsertion
  <2>4. n + 1 \in 1..(Len(s) + 1) /\ n \in 1..((n + 1) - 1)
    BY <2>1, <1>0
  <2>5. QED
    BY <2>1, <2>2, <2>3, <2>4
<1>2. CASE ~In(s, w)
  <2>1. WithFlusher(s, w, c) = <<c>> \o s
    BY <1>2 DEF In, WithFlusher
  <2>2. IsInsertion(<<c>> \o s, s, c, 1) /\ <<c>> \o s \in Seq(S)
    BY <1>0 DEF IsInsertion
  <2>3. QED
    BY <2>1, <2>2, <1>0, <1>2
<1>3. QED
  BY <1>1, <1>2

(* sys_slist_get, which takes the first item *)
LEMMA TailIsRemoval ==
  ASSUME NEW S, NEW s \in Seq(S), s # <<>>
  PROVE  /\ Tail(s) \in Seq(S) /\ Head(s) \in S /\ In(s, Head(s))
         /\ 1 \in 1..Len(s) /\ IsRemoval(Tail(s), s, Head(s), 1)
         /\ NoDup(s) => \A x : ~Before(s, x, Head(s))
<1>0. Len(s) \in Nat /\ Len(s) >= 1 /\ Head(s) = s[1] /\ Len(Tail(s)) = Len(s) - 1
  BY EmptySeq, HeadTailProperties
<1>1. \A i \in 1..(Len(s) - 1) : Tail(s)[i] = s[i + 1]
  BY <1>0, HeadTailProperties
<1>2. Tail(s) \in Seq(S) /\ Head(s) \in S
  BY <1>0, HeadTailProperties
<1>3. QED
  BY <1>0, <1>1, <1>2 DEF IsRemoval, In, Before, NoDup

(* sys_slist_find_and_remove of an item that is linked *)
LEMMA RemoveAtIsRemoval ==
  ASSUME NEW S, NEW s \in Seq(S), NEW k \in 1..Len(s)
  PROVE  RemoveAt(s, k) \in Seq(S) /\ IsRemoval(RemoveAt(s, k), s, s[k], k)
<1> DEFINE a == SubSeq(s, 1, k - 1)
           b == SubSeq(s, k + 1, Len(s))
<1>0. Len(s) \in Nat /\ k \in Nat /\ 1 <= k /\ k <= Len(s)
  OBVIOUS
<1>1. /\ a \in Seq(S) /\ Len(a) = k - 1
      /\ \A i \in 1..(k - 1) : a[i] = s[i]
  BY <1>0, SubSeqProperties
<1>2. /\ b \in Seq(S) /\ Len(b) = Len(s) - k
      /\ \A i \in 1..(Len(s) - k) : b[i] = s[k + i]
  BY <1>0, SubSeqProperties
<1>3. RemoveAt(s, k) = a \o b
  BY DEF RemoveAt
<1> HIDE DEF a, b
<1>4. /\ a \o b \in Seq(S)
      /\ Len(a \o b) = Len(a) + Len(b)
      /\ \A i \in 1..(Len(a) + Len(b)) :
           (a \o b)[i] = IF i <= Len(a) THEN a[i] ELSE b[i - Len(a)]
  BY <1>1, <1>2, ConcatProperties
<1>5. \A i \in k..(Len(s) - 1) : (a \o b)[i] = s[i + 1]
  BY <1>0, <1>1, <1>2, <1>4
<1>6. \A i \in 1..(k - 1) : (a \o b)[i] = s[i]
  BY <1>0, <1>1, <1>2, <1>4
<1>7. QED
  BY <1>0, <1>1, <1>2, <1>3, <1>4, <1>5, <1>6 DEF IsRemoval

LEMMA RemoveFirstIsRemoval ==
  ASSUME NEW S, NEW s \in Seq(S), NEW e, In(s, e)
  PROVE  /\ RemoveFirst(s, e) \in Seq(S)
         /\ \E k \in 1..Len(s) : IsRemoval(RemoveFirst(s, e), s, e, k)
<1> DEFINE I == {i \in 1..Len(s) : s[i] = e}
<1>1. I \in SUBSET Nat /\ I # {}
  BY DEF In
<1>2. \E m \in I : \A k \in I : ~ (<<k, m>> \in OpToRel(<, Nat))
  BY <1>1, NatLessThanWellFounded, WFMin
<1>3. PICK m \in I : \A k \in I : ~ (<<k, m>> \in OpToRel(<, Nat))
  BY <1>2
<1>4. \A k \in I : m <= k
  <2>1. TAKE k \in I
  <2>2. <<k, m>> \in Nat \X Nat
    BY <1>1
  <2>3. ~(k < m)
    BY <1>3, <2>2 DEF OpToRel
  <2>4. QED
    BY <2>3, <1>1
<1>5. Min(I) \in I
  BY <1>4 DEF Min
<1>6. SelectInSeq(s, LAMBDA v : v = e) = Min(I)
  BY <1>1 DEF SelectInSeq
<1>7. RemoveFirst(s, e) = RemoveAt(s, Min(I))
  BY <1>6 DEF RemoveFirst, In
<1> HIDE DEF I
<1>8. Min(I) \in 1..Len(s) /\ s[Min(I)] = e
  BY <1>5 DEF I
<1>9. QED
  BY <1>7, <1>8, RemoveAtIsRemoval

LEMMA RemoveFirstFacts ==
  ASSUME NEW S, NEW s \in Seq(S), NEW e \in S, In(s, e), NoDup(s)
  PROVE  /\ RemoveFirst(s, e) \in Seq(S)
         /\ NoDup(RemoveFirst(s, e))
         /\ \A x : In(RemoveFirst(s, e), x) <=> In(s, x) /\ x # e
         /\ \A x, y : x # e /\ y # e =>
              (Before(s, x, y) <=> Before(RemoveFirst(s, e), x, y))
<1>1. PICK r \in Seq(S) : r = RemoveFirst(s, e)
  BY RemoveFirstIsRemoval
<1>2. PICK k \in 1..Len(s) : IsRemoval(r, s, e, k)
  BY <1>1, RemoveFirstIsRemoval
<1>3. /\ NoDup(r)
      /\ \A x : In(r, x) <=> In(s, x) /\ x # e
      /\ \A x, y : x # e /\ y # e => (Before(s, x, y) <=> Before(r, x, y))
  BY <1>2, RemovalFacts
<1>4. QED
  BY <1>1, <1>3

LEMMA TailFacts ==
  ASSUME NEW S, NEW s \in Seq(S), s # <<>>, NoDup(s)
  PROVE  /\ Tail(s) \in Seq(S) /\ Head(s) \in S /\ In(s, Head(s))
         /\ NoDup(Tail(s))
         /\ \A x : In(Tail(s), x) <=> In(s, x) /\ x # Head(s)
         /\ \A x, y : x # Head(s) /\ y # Head(s) =>
              (Before(s, x, y) <=> Before(Tail(s), x, y))
         /\ \A x : ~Before(s, x, Head(s))
<1>1. PICK r \in Seq(S), h \in S, k \in 1..Len(s) :
        r = Tail(s) /\ h = Head(s) /\ IsRemoval(r, s, h, k)
  BY TailIsRemoval
<1>2. /\ NoDup(r)
      /\ \A x : In(r, x) <=> In(s, x) /\ x # h
      /\ \A x, y : x # h /\ y # h => (Before(s, x, y) <=> Before(r, x, y))
  <2>1. IsRemoval(r, s, h, k)
    BY <1>1
  <2>2. QED
    BY <2>1, RemovalFacts
<1>3. QED
  BY <1>1, <1>2, TailIsRemoval

LEMMA FlusherFacts ==
  ASSUME NEW S, NEW s \in Seq(S), NEW w, NEW c \in S, NoDup(s), ~In(s, c)
  PROVE  /\ WithFlusher(s, w, c) \in Seq(S)
         /\ NoDup(WithFlusher(s, w, c))
         /\ \A x : In(WithFlusher(s, w, c), x) <=> In(s, x) \/ x = c
         /\ \A x, y : Before(s, x, y) => Before(WithFlusher(s, w, c), x, y)
         /\ In(s, w) => Before(WithFlusher(s, w, c), w, c)
<1>1. PICK r \in Seq(S) : r = WithFlusher(s, w, c)
  BY FlusherIsInsertion
<1>2. PICK k \in 1..(Len(s) + 1) :
         IsInsertion(r, s, c, k) /\ (In(s, w) => \E i \in 1..(k - 1) : s[i] = w)
  BY <1>1, FlusherIsInsertion
<1>3. /\ NoDup(r)
      /\ \A x : In(r, x) <=> In(s, x) \/ x = c
      /\ \A x, y : Before(s, x, y) => Before(r, x, y)
      /\ \A x : (\E i \in 1..(k - 1) : s[i] = x) => Before(r, x, c)
  BY <1>2, InsertionFacts
<1>4. QED
  BY <1>1, <1>2, <1>3

-----------------------------------------------------------------------------
(* The inductive invariant *)

One(b) == IF b THEN 1 ELSE 0

(* An item is linked exactly while QUEUED is set, and in the queue it was  *)
(* last submitted to.                                                      *)
QueuedOK ==
  /\ \A w \in Works : "QUEUED" \in flags[w] => last[w] \in Queues
  /\ \A q \in Queues, w \in Works :
       In(pending[q], w) <=> "QUEUED" \in flags[w] /\ last[w] = q

(* The thread that runs an item is the one of the queue it was last        *)
(* submitted to: a submission during the run goes to the same queue.       *)
RunningOK ==
  /\ \A w \in Works : "RUNNING" \in flags[w] => last[w] \in Queues
  /\ \A q \in Queues, w \in Works :
       worker[q].it = w <=> "RUNNING" \in flags[w] /\ last[w] = q

ListsOK == \A q \in Queues : NoDup(pending[q])

(* A flusher is linked once, or run by one thread, and only while its      *)
(* client waits in a flush.                                                *)
FlusherBusy(c) == call[c].op = "flush" /\ ~sync[c]

FlushersOK ==
  \A c \in Clients :
    /\ flags[c] \subseteq {"RUNNING", "FLUSHING"}
    /\ "RUNNING" \in flags[c] => \E q \in Queues : worker[q].it = c
    /\ call[c].op = "flush" => call[c].on \in Works
    /\ \A q \in Queues :
         /\ In(pending[q], c) => "RUNNING" \notin flags[c] /\ FlusherBusy(c)
         /\ worker[q].it = c => "RUNNING" \in flags[c] /\ FlusherBusy(c)
    /\ \A q, r \in Queues :
         /\ In(pending[q], c) /\ In(pending[r], c) => q = r
         /\ worker[q].it = c /\ worker[r].it = c => q = r

(* CANCELING keeps an item out of the queue until its run ends. *)
CancelingOK ==
  \A w \in Works :
    /\ "FLUSHING" \notin flags[w]
    /\ "CANCELING" \in flags[w] => "RUNNING" \in flags[w] /\ "QUEUED" \notin flags[w]

(* pending_cancels holds threads that wait in a synchronous cancel. *)
CancelsOK ==
  /\ NoDup(cancels)
  /\ \A c \in Clients : In(cancels, c) => call[c].op = "cancel" /\ ~sync[c]

StartedOK ==
  \A q \in Queues :
    /\ worker[q].st = "off" <=> "STARTED" \notin qflags[q]
    /\ worker[q].st = "off" => pending[q] = <<>> /\ qflags[q] = {}

(* The runs a flush waits for are the one its queue's thread is in and the *)
(* one ahead of its flusher.                                               *)
OwedFor(c, q) ==
  /\ worker[q].it = c => owed[c] = 0
  /\ In(pending[q], c) =>
       owed[c] <= One(worker[q].it = call[c].on)
                    + One(Before(pending[q], call[c].on, c))

OwedOK ==
  /\ \A c \in Clients : call[c].op = "flush" /\ sync[c] => owed[c] = 0
  /\ \A c \in Clients, q \in Queues : OwedFor(c, q)

WorkInv ==
  /\ WTypeOK
  /\ QueuedOK
  /\ RunningOK
  /\ ListsOK
  /\ FlushersOK
  /\ CancelingOK
  /\ CancelsOK
  /\ StartedOK
  /\ NoSleepOnWork
  /\ PluggedStaysEmpty
  /\ OwedOK

(* On one CPU DELAYED says that the timeout is linked, or its handler is   *)
(* about to run, or the delay was K_FOREVER.                               *)
DelayOK ==
  /\ \A w \in Works : armed[w] \/ firing = w => "DELAYED" \in flags[w]
  /\ \A w \in Works : "DELAYED" \in flags[w] => armed[w] \/ firing = w \/ endless[w]
  /\ \A w \in Works : ~(armed[w] /\ firing = w)
  /\ ~relinked
  /\ ~skipped

(* The variables WorkInv is about; delayVars are only typed. *)
CoreTypeOK ==
  /\ flags \in [Items -> SUBSET WorkFlags]
  /\ last \in [Works -> Queues \cup {None}]
  /\ pending \in [Queues -> Seq(Items)]
  /\ qflags \in [Queues -> SUBSET QueueFlags]
  /\ worker \in [Queues -> [st : {"off", "loop", "wait"}, it : {None}]
                              \cup [st : {"run"}, it : Items]]
  /\ cancels \in Seq(Clients)
  /\ call \in [Clients -> [op : {"none", "flush", "cancel", "drain"},
                           on : Works \cup Queues \cup {None}]]
  /\ sync \in [Clients -> BOOLEAN]
  /\ owed \in [Clients -> 0..2]

DelayTypeOK ==
  /\ armed \in [Works -> BOOLEAN]
  /\ firing \in Works \cup {None}
  /\ target \in [Works -> Queues \cup {None}]
  /\ endless \in [Works -> BOOLEAN]
  /\ relinked \in BOOLEAN
  /\ skipped \in BOOLEAN

CoreInv ==
  /\ CoreTypeOK
  /\ QueuedOK
  /\ RunningOK
  /\ ListsOK
  /\ FlushersOK
  /\ CancelingOK
  /\ CancelsOK
  /\ StartedOK
  /\ NoSleepOnWork
  /\ PluggedStaysEmpty
  /\ OwedOK

LEMMA WorkInvParts == WorkInv <=> CoreInv /\ DelayTypeOK
  BY DEF WorkInv, CoreInv, WTypeOK, CoreTypeOK, DelayTypeOK

(* A list that is not empty has something linked. *)
LEMMA EmptyList ==
  ASSUME NEW S, NEW s \in Seq(S)
  PROVE  s = <<>> <=> \A x : ~In(s, x)
<1>1. ASSUME s # <<>> PROVE In(s, s[1])
  <2>1. Len(s) \in Nat /\ Len(s) # 0
    BY <1>1, EmptySeq
  <2>2. QED
    BY <2>1 DEF In
<1>2. ASSUME s = <<>> PROVE \A x : ~In(s, x)
  BY <1>2 DEF In
<1>3. QED
  BY <1>1, <1>2

(* A queue's thread runs an item or none, and its state says which. *)
LEMMA WorkerFacts ==
  ASSUME CoreTypeOK, NEW q \in Queues
  PROVE  /\ worker[q] = [st |-> worker[q].st, it |-> worker[q].it]
         /\ worker[q].st \in {"off", "loop", "wait", "run"}
         /\ worker[q].st = "run" <=> worker[q].it # None
         /\ worker[q].it \in Items \cup {None}
  BY WorkAssumption DEF CoreTypeOK, Items

(* notify_queue_locked *)
LEMMA NotifiedFacts ==
  ASSUME CoreTypeOK, NEW to \in Queues, worker' = Notified(to)
  PROVE  /\ worker' \in [Queues -> [st : {"off", "loop", "wait"}, it : {None}]
                                    \cup [st : {"run"}, it : Items]]
         /\ \A r \in Queues :
              /\ worker'[r].it = worker[r].it
              /\ worker'[r].st = IF r = to /\ worker[r].st = "wait" THEN "loop"
                                 ELSE worker[r].st
<1>1. worker' = [worker EXCEPT ![to] =
                   [worker[to] EXCEPT !.st = IF @ = "wait" THEN "loop" ELSE @]]
  BY DEF Notified
<1>2. worker[to] = [st |-> worker[to].st, it |-> worker[to].it]
  BY WorkerFacts
<1>3. worker' = [worker EXCEPT ![to] =
                   [st |-> IF worker[to].st = "wait" THEN "loop" ELSE worker[to].st,
                    it |-> worker[to].it]]
  BY <1>1, <1>2
<1>4. worker[to] \in [st : {"off", "loop", "wait"}, it : {None}] \cup [st : {"run"}, it : Items]
  BY DEF CoreTypeOK
<1>5. [st |-> IF worker[to].st = "wait" THEN "loop" ELSE worker[to].st,
       it |-> worker[to].it]
        \in [st : {"off", "loop", "wait"}, it : {None}] \cup [st : {"run"}, it : Items]
  BY <1>4
<1>6. QED
  BY <1>3, <1>5 DEF CoreTypeOK

(* A step that sets or clears DELAYED and changes nothing else here. *)
LEMMA FlagsOnlyInv ==
  ASSUME CoreInv, flags' \in [Items -> SUBSET WorkFlags],
         \A i \in Clients : flags'[i] = flags[i],
         \A i \in Works : flags'[i] \ {"DELAYED"} = flags[i] \ {"DELAYED"},
         UNCHANGED <<last, pending, worker, qflags, cancels, call, sync, owed>>
  PROVE  CoreInv'
<1>0. /\ CoreTypeOK /\ QueuedOK /\ RunningOK /\ ListsOK /\ FlushersOK /\ CancelingOK
      /\ CancelsOK /\ StartedOK /\ NoSleepOnWork /\ PluggedStaysEmpty /\ OwedOK
  BY DEF CoreInv
<1>1. \A w \in Works : \A f \in {"RUNNING", "CANCELING", "QUEUED", "FLUSHING"} :
        f \in flags'[w] <=> f \in flags[w]
  OBVIOUS
<1>2. CoreTypeOK'
  BY <1>0 DEF CoreTypeOK
<1>3. QueuedOK'
  BY <1>0, <1>1 DEF QueuedOK
<1>4. RunningOK'
  BY <1>0, <1>1 DEF RunningOK
<1>5. FlushersOK'
  BY <1>0 DEF FlushersOK, FlusherBusy
<1>6. CancelingOK'
  BY <1>0, <1>1 DEF CancelingOK
<1>7. ListsOK' /\ CancelsOK' /\ StartedOK' /\ NoSleepOnWork' /\ PluggedStaysEmpty' /\ OwedOK'
  BY <1>0 DEF ListsOK, CancelsOK, StartedOK, NoSleepOnWork, PluggedStaysEmpty, OwedOK,
       OwedFor, One
<1>8. QED
  BY <1>2, <1>3, <1>4, <1>5, <1>6, <1>7 DEF CoreInv

(* submit_to_queue_locked *)
LEMMA SubmitInv ==
  ASSUME CoreInv, NEW w \in Works, NEW q \in Queues \cup {None},
         NEW ctx, NEW drop \in SUBSET {"DELAYED"}, SubmitLocked(w, q, ctx, drop),
         UNCHANGED <<qflags, clientVars>>
  PROVE  CoreInv'
<1> DEFINE to == SubmitQueue(w, q)
<1>0. /\ CoreTypeOK /\ QueuedOK /\ RunningOK /\ ListsOK /\ FlushersOK /\ CancelingOK
      /\ CancelsOK /\ StartedOK /\ NoSleepOnWork /\ PluggedStaysEmpty /\ OwedOK
  BY DEF CoreInv
<1>a. UNCHANGED <<qflags, cancels, call, sync, owed>>
  BY DEF clientVars
<1>b. w \in Items /\ Clients \subseteq Items /\ Works \subseteq Items /\ w \notin Clients
      /\ None \notin Items /\ \A c \in Clients : c \notin Works
  BY WorkAssumption DEF Items
<1>1. CASE Accepted(w, q, ctx)
  <2>1. /\ "CANCELING" \notin flags[w] /\ "QUEUED" \notin flags[w]
        /\ to \in Queues /\ "STARTED" \in qflags[to]
        /\ "PLUGGED" \in qflags[to] => "DRAIN" \in qflags[to]
    BY <1>1, <1>0 DEF Accepted, QueueAccepts, SubmitQueue, CoreTypeOK
  <2>2. "RUNNING" \in flags[w] => to = last[w]
    BY DEF SubmitQueue
  <2>3. /\ flags' = [flags EXCEPT ![w] = (@ \ drop) \cup {"QUEUED"}]
        /\ pending' = [pending EXCEPT ![to] = Append(@, w)]
        /\ last' = [last EXCEPT ![w] = to]
        /\ worker' = Notified(to)
    BY <1>1 DEF SubmitLocked
  <2> HIDE DEF to
  <2>4. /\ flags'[w] = (flags[w] \ drop) \cup {"QUEUED"}
        /\ \A i \in Items : i # w => flags'[i] = flags[i]
        /\ flags' \in [Items -> SUBSET WorkFlags]
    BY <2>3, <1>0, <1>b DEF CoreTypeOK, WorkFlags
  <2>5. /\ last'[w] = to /\ \A v \in Works : v # w => last'[v] = last[v]
        /\ last' \in [Works -> Queues \cup {None}]
    BY <2>1, <2>3, <1>0 DEF CoreTypeOK
  <2>6. /\ worker' \in [Queues -> [st : {"off", "loop", "wait"}, it : {None}]
                                    \cup [st : {"run"}, it : Items]]
        /\ \A r \in Queues :
              /\ worker'[r].it = worker[r].it
              /\ worker'[r].st = IF r = to /\ worker[r].st = "wait" THEN "loop"
                                 ELSE worker[r].st
    BY <2>1, <2>3, <1>0, NotifiedFacts
  <2>7. /\ pending[to] \in Seq(Items) /\ NoDup(pending[to]) /\ ~In(pending[to], w)
        /\ pending'[to] = Append(pending[to], w)
        /\ \A r \in Queues : r # to => pending'[r] = pending[r]
    BY <2>1, <2>3, <1>0 DEF CoreTypeOK, ListsOK, QueuedOK
  <2>8. /\ pending'[to] \in Seq(Items) /\ NoDup(pending'[to])
        /\ \A x : In(pending'[to], x) <=> In(pending[to], x) \/ x = w
        /\ \A x, y : Before(pending[to], x, y) => Before(pending'[to], x, y)
    <3>1. PICK s \in Seq(Items) : s = pending[to]
      BY <2>7
    <3>2. QED
      BY <2>7, <3>1, <1>b, AppendFacts
  <2>9. \A r \in Queues :
          /\ NoDup(pending'[r])
          /\ \A x : In(pending'[r], x) <=> In(pending[r], x) \/ (r = to /\ x = w)
          /\ \A x, y : Before(pending[r], x, y) => Before(pending'[r], x, y)
    BY <2>7, <2>8, <1>0 DEF ListsOK
  <2>10. CoreTypeOK'
    <3>1. pending' \in [Queues -> Seq(Items)]
      BY <2>3, <2>7, <2>8, <1>0 DEF CoreTypeOK
    <3>2. QED
      BY <2>4, <2>5, <2>6, <3>1, <1>a, <1>0 DEF CoreTypeOK
  <2>11. QueuedOK'
    BY <2>1, <2>4, <2>5, <2>9, <1>b, <1>0 DEF QueuedOK
  <2>12. RunningOK'
    BY <2>1, <2>2, <2>4, <2>5, <2>6, <1>b, <1>0 DEF RunningOK
  <2>13. ListsOK'
    BY <2>9 DEF ListsOK
  <2>14. FlushersOK'
    <3>1. \A c \in Clients : flags'[c] = flags[c]
      BY <2>4, <1>b
    <3>2. \A c \in Clients, r \in Queues :
            /\ In(pending'[r], c) <=> In(pending[r], c)
            /\ worker'[r].it = c <=> worker[r].it = c
      BY <2>6, <2>9, <1>b
    <3>3. QED
      BY <3>1, <3>2, <1>a, <1>0 DEF FlushersOK, FlusherBusy
  <2>15. CancelingOK'
    BY <2>1, <2>4, <1>b, <1>0 DEF CancelingOK
  <2>16. CancelsOK'
    BY <1>a, <1>0 DEF CancelsOK
  <2>17. StartedOK'
    BY <2>1, <2>6, <2>7, <1>a, <1>0 DEF StartedOK
  <2>18. NoSleepOnWork'
    BY <2>6, <2>7, <1>a, <1>0 DEF NoSleepOnWork
  <2>19. PluggedStaysEmpty'
    BY <2>1, <2>6, <2>7, <1>a, <1>0 DEF PluggedStaysEmpty
  <2>20. OwedOK'
    <3>1. SUFFICES ASSUME NEW c \in Clients, NEW r \in Queues
                   PROVE  OwedFor(c, r)'
      BY <1>a, <1>0 DEF OwedOK
    <3>2. OwedFor(c, r) /\ owed[c] \in 0..2
      BY <1>0 DEF OwedOK, CoreTypeOK
    <3>3. /\ In(pending'[r], c) <=> In(pending[r], c)
          /\ worker'[r].it = worker[r].it
          /\ Before(pending[r], call[c].on, c) => Before(pending'[r], call[c].on, c)
      BY <2>6, <2>9, <1>b
    <3>4. QED
      BY <3>2, <3>3, <1>a DEF OwedFor, One
  <2>21. QED
    BY <2>10, <2>11, <2>12, <2>13, <2>14, <2>15, <2>16, <2>17, <2>18, <2>19, <2>20
       DEF CoreInv
<1>2. CASE ~Accepted(w, q, ctx)
  <2>1. /\ flags' = [flags EXCEPT ![w] = @ \ drop]
        /\ UNCHANGED <<last, pending, worker>>
    BY <1>2 DEF SubmitLocked
  <2>2. /\ flags'[w] = flags[w] \ drop
        /\ \A i \in Items : i # w => flags'[i] = flags[i]
        /\ flags' \in [Items -> SUBSET WorkFlags]
    BY <2>1, <1>0, <1>b DEF CoreTypeOK
  <2>3. QED
    BY <2>1, <2>2, <1>a, <1>b, FlagsOnlyInv
<1>3. QED
  BY <1>1, <1>2

(* A flag that an item has counts as one run. *)
LEMMA CountRunning ==
  ASSUME NEW F
  PROVE  Cardinality(F \cap {"RUNNING"}) = One("RUNNING" \in F)
<1>1. CASE "RUNNING" \in F
  <2>1. F \cap {"RUNNING"} = {"RUNNING"}
    BY <1>1
  <2>2. QED
    BY <1>1, <2>1, FS_Singleton DEF One
<1>2. CASE "RUNNING" \notin F
  <2>1. F \cap {"RUNNING"} = {}
    BY <1>2
  <2>2. QED
    BY <1>2, <2>1, FS_EmptySet DEF One
<1>3. QED
  BY <1>1, <1>2

LEMMA CallFacts ==
  ASSUME CoreTypeOK, NEW c \in Clients
  PROVE  /\ call[c].op \in {"none", "flush", "cancel", "drain"}
         /\ call[c].on \in Works \cup Queues \cup {None}
         /\ \A o, x : call[c] = [op |-> o, on |-> x]
                        <=> call[c].op = o /\ call[c].on = x
<1>1. call[c] \in [op : {"none", "flush", "cancel", "drain"},
                   on : Works \cup Queues \cup {None}]
  BY DEF CoreTypeOK
<1>2. call[c] = [op |-> call[c].op, on |-> call[c].on]
  BY <1>1
<1>3. QED
  BY <1>1, <1>2

(* One of the runs that the flushes of w wait for is over. *)
LEMMA OwedLessFacts ==
  ASSUME CoreTypeOK, NEW w, NEW n \in Nat, owed' = OwedLess(w, n)
  PROVE  /\ owed' \in [Clients -> 0..2]
         /\ \A c \in Clients :
              owed'[c] = IF call[c].op = "flush" /\ call[c].on = w /\ owed[c] > n
                         THEN owed[c] - 1 ELSE owed[c]
<1>1. \A c \in Clients :
        owed'[c] = IF call[c].op = "flush" /\ call[c].on = w /\ owed[c] > n
                   THEN owed[c] - 1 ELSE owed[c]
  BY CallFacts DEF OwedLess
<1>2. \A c \in Clients : owed[c] \in 0..2
  BY DEF CoreTypeOK
<1>3. \A c \in Clients : owed'[c] \in 0..2
  BY <1>1, <1>2
<1>4. owed' = [c \in Clients |-> owed'[c]]
  BY DEF OwedLess
<1>5. QED
  BY <1>1, <1>3, <1>4

(* A client that makes no call joins pending_cancels, or nothing of the    *)
(* clients' changes.                                                       *)
JoinsCancels(w) ==
  \/ UNCHANGED <<cancels, call, sync>>
  \/ \E c \in Clients :
       /\ call[c] = NoCall
       /\ cancels' = Append(cancels, c)
       /\ call' = [call EXCEPT ![c] = [op |-> "cancel", on |-> w]]
       /\ sync' = [sync EXCEPT ![c] = FALSE]

LEMMA JoinsCancelsFacts ==
  ASSUME CoreTypeOK, CancelsOK, NEW w \in Works, JoinsCancels(w)
  PROVE  /\ cancels' \in Seq(Clients)
         /\ call' \in [Clients -> [op : {"none", "flush", "cancel", "drain"},
                                   on : Works \cup Queues \cup {None}]]
         /\ sync' \in [Clients -> BOOLEAN]
         /\ CancelsOK'
         /\ \A c \in Clients :
              /\ call[c].op = "flush" <=> call'[c].op = "flush"
              /\ call[c].op = "flush" => call'[c] = call[c] /\ sync'[c] = sync[c]
<1>1. CASE UNCHANGED <<cancels, call, sync>>
  BY <1>1 DEF CoreTypeOK, CancelsOK
<1>2. ASSUME NEW c \in Clients, call[c] = NoCall, cancels' = Append(cancels, c),
             call' = [call EXCEPT ![c] = [op |-> "cancel", on |-> w]],
             sync' = [sync EXCEPT ![c] = FALSE]
      PROVE  /\ cancels' \in Seq(Clients)
             /\ call' \in [Clients -> [op : {"none", "flush", "cancel", "drain"},
                                       on : Works \cup Queues \cup {None}]]
             /\ sync' \in [Clients -> BOOLEAN]
             /\ CancelsOK'
             /\ \A d \in Clients :
                  /\ call[d].op = "flush" <=> call'[d].op = "flush"
                  /\ call[d].op = "flush" => call'[d] = call[d] /\ sync'[d] = sync[d]
  <2>1. call[c].op = "none"
    BY <1>2 DEF NoCall
  <2>2. ~In(cancels, c) /\ NoDup(cancels) /\ cancels \in Seq(Clients)
    BY <2>1 DEF CancelsOK, CoreTypeOK
  <2>3. /\ cancels' \in Seq(Clients) /\ NoDup(cancels')
        /\ \A x : In(cancels', x) <=> In(cancels, x) \/ x = c
    <3>1. PICK s \in Seq(Clients) : s = cancels
      BY <2>2
    <3>2. QED
      BY <2>2, <3>1, <1>2, AppendFacts
  <2>4. [op |-> "cancel", on |-> w] \in [op : {"none", "flush", "cancel", "drain"},
                                         on : Works \cup Queues \cup {None}]
    OBVIOUS
  <2>5. /\ call' \in [Clients -> [op : {"none", "flush", "cancel", "drain"},
                                  on : Works \cup Queues \cup {None}]]
        /\ call'[c].op = "cancel"
        /\ \A d \in Clients : d # c => call'[d] = call[d]
    BY <2>4, <1>2 DEF CoreTypeOK
  <2>6. /\ sync' \in [Clients -> BOOLEAN] /\ ~sync'[c]
        /\ \A d \in Clients : d # c => sync'[d] = sync[d]
    BY <1>2 DEF CoreTypeOK
  <2>7. CancelsOK'
    BY <2>3, <2>5, <2>6 DEF CancelsOK
  <2>8. \A d \in Clients :
          /\ call[d].op = "flush" <=> call'[d].op = "flush"
          /\ call[d].op = "flush" => call'[d] = call[d] /\ sync'[d] = sync[d]
    BY <2>1, <2>5, <2>6
  <2>9. QED
    BY <2>3, <2>5, <2>6, <2>7, <2>8
<1>3. QED
  BY <1>1, <1>2 DEF JoinsCancels

(* cancel_async_locked *)
LEMMA CancelInv ==
  ASSUME CoreInv, NEW w \in Works, CancelLocked(w), JoinsCancels(w),
         UNCHANGED <<last, worker, qflags>>
  PROVE  CoreInv'
<1> DEFINE queued == "QUEUED" \in flags[w] /\ "CANCELING" \notin flags[w]
           g == flags[w] \ (IF queued THEN {"DELAYED", "QUEUED"} ELSE {"DELAYED"})
           n == One("RUNNING" \in flags[w])
           lq == last[w]
<1>0. /\ CoreTypeOK /\ QueuedOK /\ RunningOK /\ ListsOK /\ FlushersOK /\ CancelingOK
      /\ CancelsOK /\ StartedOK /\ NoSleepOnWork /\ PluggedStaysEmpty /\ OwedOK
  BY DEF CoreInv
<1>b. w \in Items /\ Clients \subseteq Items /\ Works \subseteq Items /\ w \notin Clients
      /\ None \notin Items /\ \A c \in Clients : c \notin Works
  BY WorkAssumption DEF Items
<1>c. /\ cancels' \in Seq(Clients)
      /\ call' \in [Clients -> [op : {"none", "flush", "cancel", "drain"},
                                on : Works \cup Queues \cup {None}]]
      /\ sync' \in [Clients -> BOOLEAN]
      /\ CancelsOK'
      /\ \A c \in Clients :
           /\ call[c].op = "flush" <=> call'[c].op = "flush"
           /\ call[c].op = "flush" => call'[c] = call[c] /\ sync'[c] = sync[c]
  BY <1>0, JoinsCancelsFacts
<1>1. /\ flags' = [flags EXCEPT ![w] = IF g = {} THEN g ELSE g \cup {"CANCELING"}]
      /\ pending' = IF queued THEN [pending EXCEPT ![lq] = RemoveFirst(pending[lq], w)]
                    ELSE pending
      /\ owed' = IF queued THEN OwedLess(w, n) ELSE owed
  BY CountRunning DEF CancelLocked, Gone
<1>2. /\ flags'[w] = IF g = {} THEN g ELSE g \cup {"CANCELING"}
      /\ \A i \in Items : i # w => flags'[i] = flags[i]
      /\ flags' \in [Items -> SUBSET WorkFlags]
  BY <1>1, <1>0, <1>b DEF CoreTypeOK, WorkFlags
<1>3. flags[w] \in SUBSET WorkFlags /\ "FLUSHING" \notin flags[w]
  BY <1>0, <1>b DEF CoreTypeOK, CancelingOK
<1>4. queued <=> "QUEUED" \in flags[w]
  BY <1>0 DEF CancelingOK
<1>5. /\ "QUEUED" \notin flags'[w] /\ "FLUSHING" \notin flags'[w]
      /\ "RUNNING" \in flags'[w] <=> "RUNNING" \in flags[w]
      /\ "CANCELING" \in flags'[w] => "RUNNING" \in flags[w]
  <2>1. g \subseteq {"RUNNING", "CANCELING"} /\ ("CANCELING" \in g => "RUNNING" \in g)
        /\ ("RUNNING" \in g <=> "RUNNING" \in flags[w])
    BY <1>3, <1>4, <1>0 DEF CancelingOK, WorkFlags
  <2>2. QED
    BY <2>1, <1>2
<1>6. n \in Nat /\ n <= 1
  BY DEF One
<1> HIDE DEF g, n
<1>7. /\ owed' \in [Clients -> 0..2]
      /\ \A c \in Clients :
           owed'[c] = IF queued /\ call[c].op = "flush" /\ call[c].on = w /\ owed[c] > n
                      THEN owed[c] - 1 ELSE owed[c]
  <2>1. CASE queued
    <3>1. PICK m \in Nat : m = n
      BY <1>6
    <3>2. QED
      BY <2>1, <3>1, <1>0, <1>1, OwedLessFacts
  <2>2. CASE ~queued
    BY <2>2, <1>0, <1>1 DEF CoreTypeOK
  <2>3. QED
    BY <2>1, <2>2
<1>8. queued => lq \in Queues /\ In(pending[lq], w)
  BY <1>0 DEF QueuedOK
<1> HIDE DEF lq
<1>9. /\ pending' \in [Queues -> Seq(Items)]
      /\ \A r \in Queues :
           /\ NoDup(pending'[r])
           /\ \A x : In(pending'[r], x) <=> In(pending[r], x) /\ ~(queued /\ r = lq /\ x = w)
           /\ \A x, y : x # w /\ y # w =>
                 (Before(pending[r], x, y) <=> Before(pending'[r], x, y))
           /\ r # lq => pending'[r] = pending[r]
  <2>1. CASE queued
    <3>1. PICK s \in Seq(Items) : s = pending[lq] /\ NoDup(s) /\ In(s, w)
      BY <2>1, <1>8, <1>0 DEF CoreTypeOK, ListsOK
    <3>2. /\ RemoveFirst(s, w) \in Seq(Items) /\ NoDup(RemoveFirst(s, w))
          /\ \A x : In(RemoveFirst(s, w), x) <=> In(s, x) /\ x # w
          /\ \A x, y : x # w /\ y # w =>
               (Before(s, x, y) <=> Before(RemoveFirst(s, w), x, y))
      BY <3>1, <1>b, RemoveFirstFacts
    <3>3. /\ pending' \in [Queues -> Seq(Items)]
          /\ pending'[lq] = RemoveFirst(s, w)
          /\ \A r \in Queues : r # lq => pending'[r] = pending[r]
      BY <2>1, <3>1, <3>2, <1>1, <1>8, <1>0 DEF CoreTypeOK
    <3>4. QED
      BY <2>1, <3>1, <3>2, <3>3, <1>0 DEF ListsOK
  <2>2. CASE ~queued
    <3>1. pending' = pending
      BY <2>2, <1>1
    <3>2. QED
      BY <2>2, <3>1, <1>0 DEF CoreTypeOK, ListsOK
  <2>3. QED
    BY <2>1, <2>2
<1>10. CoreTypeOK'
  BY <1>0, <1>2, <1>7, <1>9, <1>c DEF CoreTypeOK
<1>11. QueuedOK'
  <2>1. \A v \in Works : v # w => ("QUEUED" \in flags'[v] <=> "QUEUED" \in flags[v])
    BY <1>2, <1>b
  <2>2. QED
    BY <2>1, <1>0, <1>4, <1>5, <1>9 DEF QueuedOK, lq
<1>12. RunningOK'
  <2>1. \A v \in Works : "RUNNING" \in flags'[v] <=> "RUNNING" \in flags[v]
    BY <1>2, <1>5, <1>b
  <2>2. QED
    BY <2>1, <1>0 DEF RunningOK
<1>13. ListsOK'
  BY <1>9 DEF ListsOK
<1>14. FlushersOK'
  <2>1. \A c \in Clients : flags'[c] = flags[c]
    BY <1>2, <1>b
  <2>2. \A c \in Clients, r \in Queues : In(pending'[r], c) <=> In(pending[r], c)
    BY <1>9, <1>b
  <2>3. \A c \in Clients : /\ FlusherBusy(c)' <=> FlusherBusy(c)
                           /\ call'[c].op = "flush" => call[c].on = call'[c].on
                                                       /\ call[c].op = "flush"
    BY <1>c DEF FlusherBusy
  <2>4. QED
    BY <2>1, <2>2, <2>3, <1>0 DEF FlushersOK
<1>15. CancelingOK'
  <2>1. \A v \in Works : v # w => flags'[v] = flags[v]
    BY <1>2, <1>b
  <2>2. QED
    BY <2>1, <1>0, <1>5 DEF CancelingOK
<1>16. \A r \in Queues : pending[r] = <<>> => pending'[r] = <<>>
  BY <1>0, <1>9, EmptyList DEF CoreTypeOK
<1>17. StartedOK' /\ NoSleepOnWork' /\ PluggedStaysEmpty'
  BY <1>0, <1>16 DEF StartedOK, NoSleepOnWork, PluggedStaysEmpty
<1>18. OwedOK'
  <2>0. \A c \in Clients : owed[c] \in 0..2 /\ owed'[c] \in 0..2 /\ owed'[c] <= owed[c]
    BY <1>0, <1>7, <1>6 DEF CoreTypeOK
  <2>1. ASSUME NEW c \in Clients PROVE call'[c].op = "flush" /\ sync'[c] => owed'[c] = 0
    BY <2>0, <1>0, <1>c DEF OwedOK
  <2>2. ASSUME NEW c \in Clients, NEW r \in Queues PROVE OwedFor(c, r)'
    <3>0. OwedFor(c, r)
      BY <1>0 DEF OwedOK
    <3>1. worker'[r].it = c => owed'[c] = 0
      BY <3>0, <2>0 DEF OwedFor
    <3>2. ASSUME In(pending'[r], c)
          PROVE  owed'[c] <= One(worker'[r].it = call'[c].on)
                              + One(Before(pending'[r], call'[c].on, c))
      <4>1. In(pending[r], c) /\ call[c].op = "flush" /\ call'[c] = call[c] /\ c # w
        BY <3>2, <1>9, <1>b, <1>0, <1>c DEF FlushersOK, FlusherBusy
      <4>2. owed[c] <= One(worker[r].it = call[c].on) + One(Before(pending[r], call[c].on, c))
        BY <3>0, <4>1 DEF OwedFor
      <4>3. CASE call[c].on # w
        BY <4>1, <4>2, <4>3, <2>0, <1>9 DEF One
      <4>4. CASE call[c].on = w /\ (~queued \/ r # lq)
        <5>1. pending'[r] = pending[r]
          BY <4>4, <1>1, <1>9
        <5>2. QED
          BY <4>1, <4>2, <5>1, <2>0 DEF One
      <4>5. CASE call[c].on = w /\ queued /\ r = lq
        <5>1. worker[r].it = w <=> "RUNNING" \in flags[w]
          BY <4>5, <1>0 DEF RunningOK, lq
        <5>2. n = One(worker[r].it = w)
          BY <5>1 DEF n, One
        <5>3. owed[c] <= n + 1
          BY <4>2, <4>5, <5>2, <2>0, <1>6 DEF One
        <5>4. owed'[c] <= n
          BY <4>1, <4>5, <5>3, <2>0, <1>6, <1>7
        <5>5. QED
          BY <4>1, <4>5, <5>2, <5>4, <2>0, <1>6 DEF One
      <4>6. QED
        BY <4>3, <4>4, <4>5
    <3>3. QED
      BY <3>1, <3>2 DEF OwedFor
  <2>3. QED
    BY <2>1, <2>2 DEF OwedOK
<1>19. QED
  BY <1>10, <1>11, <1>12, <1>13, <1>14, <1>15, <1>17, <1>18, <1>c DEF CoreInv

LEMMA CountRuns ==
  ASSUME NEW F
  PROVE  Cardinality(F \cap {"QUEUED", "RUNNING"})
           = One("QUEUED" \in F) + One("RUNNING" \in F)
<1>1. CASE "QUEUED" \in F /\ "RUNNING" \in F
  <2>1. F \cap {"QUEUED", "RUNNING"} = {"QUEUED"} \cup {"RUNNING"}
    BY <1>1
  <2>2. /\ IsFiniteSet({"QUEUED"}) /\ Cardinality({"QUEUED"}) = 1
        /\ "RUNNING" \notin {"QUEUED"}
    BY FS_Singleton
  <2>3. Cardinality({"QUEUED"} \cup {"RUNNING"}) = 2
    BY <2>2, FS_AddElement
  <2>4. QED
    BY <1>1, <2>1, <2>3 DEF One
<1>2. CASE "QUEUED" \in F /\ "RUNNING" \notin F
  <2>1. F \cap {"QUEUED", "RUNNING"} = {"QUEUED"}
    BY <1>2
  <2>2. Cardinality({"QUEUED"}) = 1
    BY FS_Singleton
  <2>3. QED
    BY <1>2, <2>1, <2>2 DEF One
<1>3. CASE "QUEUED" \notin F /\ "RUNNING" \in F
  <2>1. F \cap {"QUEUED", "RUNNING"} = {"RUNNING"}
    BY <1>3
  <2>2. QED
    BY <1>3, <2>1, FS_Singleton, SMTT(30) DEF One
<1>4. CASE "QUEUED" \notin F /\ "RUNNING" \notin F
  <2>1. F \cap {"QUEUED", "RUNNING"} = {}
    BY <1>4
  <2>2. QED
    BY <1>4, <2>1, FS_EmptySet DEF One
<1>5. QED
  BY <1>1, <1>2, <1>3, <1>4

(* A client that is in no call has no flusher in use. *)
LEMMA IdleFlusher ==
  ASSUME CoreInv, NEW c \in Clients, call[c] = NoCall
  PROVE  /\ call[c].op = "none" /\ ~In(cancels, c)
         /\ \A r \in Queues : ~In(pending[r], c) /\ worker[r].it # c
<1>1. call[c].op = "none"
  BY DEF NoCall
<1>2. QED
  BY <1>1 DEF CoreInv, FlushersOK, FlusherBusy, CancelsOK

(* work_flush_locked: the client's flusher enters the queue to of an item  *)
(* that is queued there or runs there.  The item may have been submitted   *)
(* by the same call (k_work_flush_delayable).                              *)
EnterFlush(c, w, to, s) ==
  /\ call[c] = NoCall
  /\ worker[to].st # "off"
  /\ "PLUGGED" \in qflags[to] => "DRAIN" \in qflags[to]
                                   \/ pending[to] # <<>> \/ worker[to].st = "run"
  /\ flags' \in [Items -> SUBSET WorkFlags]
  /\ \A i \in Items : i \notin {c, w} => flags'[i] = flags[i]
  /\ flags'[c] = {"FLUSHING"}
  /\ "RUNNING" \in flags'[w] <=> "RUNNING" \in flags[w]
  /\ "CANCELING" \in flags'[w] <=> "CANCELING" \in flags[w]
  /\ "FLUSHING" \notin flags'[w]
  /\ last' \in [Works -> Queues \cup {None}]
  /\ \A v \in Works : v # w => last'[v] = last[v]
  /\ last'[w] = to
  /\ "RUNNING" \in flags[w] => last[w] = to
  /\ "CANCELING" \in flags[w] => "QUEUED" \notin flags'[w]
  /\ \A r \in Queues \ {to} : ~In(pending[r], w)
  /\ s \in Seq(Items) /\ NoDup(s)
  /\ \A x : In(s, x) <=> In(pending[to], x) \/ x = c \/ (x = w /\ "QUEUED" \in flags'[w])
  /\ In(pending[to], w) => "QUEUED" \in flags'[w]
  /\ \A x, y : Before(pending[to], x, y) => Before(s, x, y)
  /\ "QUEUED" \in flags'[w] => Before(s, w, c)
  /\ pending' = [pending EXCEPT ![to] = s]
  /\ worker' = Notified(to)
  /\ call' = [call EXCEPT ![c] = [op |-> "flush", on |-> w]]
  /\ sync' = [sync EXCEPT ![c] = FALSE]
  /\ owed' = [owed EXCEPT ![c] = One("QUEUED" \in flags'[w]) + One("RUNNING" \in flags[w])]
  /\ UNCHANGED <<qflags, cancels>>

LEMMA EnterFlushInv ==
  ASSUME CoreInv, NEW c \in Clients, NEW w \in Works, NEW to \in Queues, NEW s,
         EnterFlush(c, w, to, s)
  PROVE  CoreInv'
<1> USE DEF EnterFlush
<1>0. /\ CoreTypeOK /\ QueuedOK /\ RunningOK /\ ListsOK /\ FlushersOK /\ CancelingOK
      /\ CancelsOK /\ StartedOK /\ NoSleepOnWork /\ PluggedStaysEmpty /\ OwedOK
  BY DEF CoreInv
<1>b. w \in Items /\ Clients \subseteq Items /\ Works \subseteq Items /\ w \notin Clients
      /\ None \notin Items /\ \A d \in Clients : d \notin Works
  BY WorkAssumption DEF Items
<1>c. /\ call[c].op = "none" /\ ~In(cancels, c)
      /\ \A r \in Queues : ~In(pending[r], c) /\ worker[r].it # c
  BY IdleFlusher
<1>1. /\ \A v \in Works : v # w => flags'[v] = flags[v]
      /\ \A d \in Clients : d # c => flags'[d] = flags[d]
  BY <1>b
<1>2. /\ worker' \in [Queues -> [st : {"off", "loop", "wait"}, it : {None}]
                                  \cup [st : {"run"}, it : Items]]
      /\ \A r \in Queues :
            /\ worker'[r].it = worker[r].it
            /\ worker'[r].st = IF r = to /\ worker[r].st = "wait" THEN "loop"
                               ELSE worker[r].st
  BY <1>0, NotifiedFacts
<1>3. /\ pending' \in [Queues -> Seq(Items)] /\ pending'[to] = s
      /\ \A r \in Queues : r # to => pending'[r] = pending[r]
  BY <1>0 DEF CoreTypeOK
<1>4. \A r \in Queues :
        /\ NoDup(pending'[r])
        /\ \A x : In(pending'[r], x) <=>
             \/ In(pending[r], x)
             \/ r = to /\ (x = c \/ (x = w /\ "QUEUED" \in flags'[w]))
        /\ \A x, y : Before(pending[r], x, y) => Before(pending'[r], x, y)
  BY <1>0, <1>3 DEF ListsOK
<1>5. /\ call' \in [Clients -> [op : {"none", "flush", "cancel", "drain"},
                                on : Works \cup Queues \cup {None}]]
      /\ call'[c].op = "flush" /\ call'[c].on = w
      /\ \A d \in Clients : d # c => call'[d] = call[d]
  <2>1. [op |-> "flush", on |-> w] \in [op : {"none", "flush", "cancel", "drain"},
                                        on : Works \cup Queues \cup {None}]
    OBVIOUS
  <2>2. QED
    BY <2>1, <1>0 DEF CoreTypeOK
<1>6. /\ sync' \in [Clients -> BOOLEAN] /\ ~sync'[c]
      /\ \A d \in Clients : d # c => sync'[d] = sync[d]
  BY <1>0 DEF CoreTypeOK
<1>7. /\ owed' \in [Clients -> 0..2]
      /\ owed'[c] = One("QUEUED" \in flags'[w]) + One("RUNNING" \in flags[w])
      /\ \A d \in Clients : d # c => owed'[d] = owed[d]
  <2>1. One("QUEUED" \in flags'[w]) + One("RUNNING" \in flags[w]) \in 0..2
    BY DEF One
  <2>2. QED
    BY <2>1, <1>0 DEF CoreTypeOK
<1>10. CoreTypeOK'
  BY <1>0, <1>2, <1>3, <1>5, <1>6, <1>7 DEF CoreTypeOK
<1>11. QueuedOK'
  <2>1. \A v \in Works : "QUEUED" \in flags'[v] => last'[v] \in Queues
    BY <1>0, <1>1 DEF QueuedOK
  <2>2. ASSUME NEW r \in Queues, NEW v \in Works, v # w
        PROVE  In(pending'[r], v) <=> "QUEUED" \in flags'[v] /\ last'[v] = r
    BY <2>2, <1>0, <1>1, <1>4, <1>b DEF QueuedOK
  <2>3. ASSUME NEW r \in Queues
        PROVE  In(pending'[r], w) <=> "QUEUED" \in flags'[w] /\ last'[w] = r
    BY <2>3, <1>4, <1>b
  <2>4. QED
    BY <2>1, <2>2, <2>3 DEF QueuedOK
<1>12. RunningOK'
  BY <1>0, <1>1, <1>2 DEF RunningOK
<1>13. ListsOK'
  BY <1>4 DEF ListsOK
<1>14. FlushersOK'
  <2>1. ASSUME NEW d \in Clients, d # c
        PROVE  /\ flags'[d] = flags[d] /\ call'[d] = call[d]
               /\ FlusherBusy(d)' <=> FlusherBusy(d)
               /\ \A r \in Queues : /\ In(pending'[r], d) <=> In(pending[r], d)
                                    /\ worker'[r].it = d <=> worker[r].it = d
    BY <2>1, <1>1, <1>2, <1>4, <1>5, <1>6, <1>b DEF FlusherBusy
  <2>2. /\ \A r \in Queues : /\ In(pending'[r], c) <=> r = to
                             /\ worker'[r].it # c
        /\ FlusherBusy(c)' /\ "RUNNING" \notin flags'[c]
        /\ call'[c].on \in Works
    <3>1. \A r \in Queues : (In(pending'[r], c) <=> r = to) /\ worker'[r].it # c
      BY <1>2, <1>4, <1>c, <1>b
    <3>2. "RUNNING" \notin flags'[c]
      OBVIOUS
    <3>3. QED
      BY <3>1, <3>2, <1>5, <1>6 DEF FlusherBusy
  <2>3. QED
    BY <2>1, <2>2, <1>0 DEF FlushersOK
<1>15. CancelingOK'
  BY <1>0, <1>1 DEF CancelingOK
<1>16. CancelsOK'
  BY <1>0, <1>c, <1>5, <1>6 DEF CancelsOK
<1>17. StartedOK'
  BY <1>0, <1>2, <1>3 DEF StartedOK
<1>18. NoSleepOnWork'
  BY <1>0, <1>2, <1>3 DEF NoSleepOnWork
<1>19. PluggedStaysEmpty'
  BY <1>0, <1>2, <1>3 DEF PluggedStaysEmpty
<1>20. OwedOK'
  <2>1. \A d \in Clients : call'[d].op = "flush" /\ sync'[d] => owed'[d] = 0
    BY <1>0, <1>5, <1>6, <1>7 DEF OwedOK
  <2>2. ASSUME NEW d \in Clients, NEW r \in Queues, d # c
        PROVE  OwedFor(d, r)'
    <3>1. OwedFor(d, r) /\ owed[d] \in 0..2
      BY <1>0 DEF OwedOK, CoreTypeOK
    <3>2. /\ In(pending'[r], d) <=> In(pending[r], d)
          /\ worker'[r].it = worker[r].it /\ call'[d] = call[d] /\ owed'[d] = owed[d]
          /\ Before(pending[r], call[d].on, d) => Before(pending'[r], call[d].on, d)
      BY <2>2, <1>2, <1>4, <1>5, <1>7, <1>b
    <3>3. QED
      BY <3>1, <3>2 DEF OwedFor, One
  <2>3. ASSUME NEW r \in Queues PROVE OwedFor(c, r)'
    <3>1. worker'[r].it # c
      BY <1>2, <1>c
    <3>2. ASSUME In(pending'[r], c)
          PROVE  owed'[c] <= One(worker'[r].it = call'[c].on)
                               + One(Before(pending'[r], call'[c].on, c))
      <4>1. r = to
        BY <3>2, <1>4, <1>c
      <4>2. "RUNNING" \in flags[w] => worker'[to].it = w
        <5>1. "RUNNING" \in flags[w] => last[w] = to
          OBVIOUS
        <5>2. "RUNNING" \in flags[w] => worker[to].it = w
          BY <1>0, <5>1 DEF RunningOK
        <5>3. QED
          BY <1>2, <5>2
      <4>3. "QUEUED" \in flags'[w] => Before(pending'[to], w, c)
        BY <1>3
      <4>4. QED
        BY <4>1, <4>2, <4>3, <1>5, <1>7 DEF One
    <3>3. QED
      BY <3>1, <3>2 DEF OwedFor
  <2>4. QED
    BY <2>1, <2>2, <2>3 DEF OwedOK
<1>21. QED
  BY <1>10, <1>11, <1>12, <1>13, <1>14, <1>15, <1>16, <1>17, <1>18, <1>19, <1>20
     DEF CoreInv

(* k_work_flush, and k_work_flush_delayable of an item already submitted *)
LEMMA FlushInv ==
  ASSUME CoreInv, NEW c \in Clients, NEW w \in Works, call[c] = NoCall,
         flags[w] \cap {"QUEUED", "RUNNING"} # {}, FlushLocked(c, w),
         flags' \in [Items -> SUBSET WorkFlags],
         \A i \in Items : i \notin {c, w} => flags'[i] = flags[i],
         flags'[c] = {"FLUSHING"},
         flags'[w] \ {"DELAYED"} = flags[w] \ {"DELAYED"},
         UNCHANGED <<last, qflags, cancels>>
  PROVE  CoreInv'
<1>0. /\ CoreTypeOK /\ QueuedOK /\ RunningOK /\ ListsOK /\ CancelingOK
      /\ StartedOK /\ PluggedStaysEmpty
  BY DEF CoreInv
<1>b. w \in Items /\ c \in Items /\ w \notin Clients
  BY WorkAssumption DEF Items
<1>1. PICK to \in Queues : to = last[w]
  BY <1>0 DEF QueuedOK, RunningOK
<1>2. \A f \in {"RUNNING", "CANCELING", "QUEUED", "FLUSHING"} : f \in flags'[w] <=> f \in flags[w]
  OBVIOUS
<1>3. /\ pending[to] \in Seq(Items) /\ NoDup(pending[to]) /\ ~In(pending[to], c)
      /\ \A r \in Queues : In(pending[r], w) <=> "QUEUED" \in flags[w] /\ r = to
  BY <1>0, <1>1, IdleFlusher DEF CoreTypeOK, ListsOK, QueuedOK
<1>4. PICK p \in Seq(Items) : p = pending[to]
  BY <1>3
<1>5. PICK s \in Seq(Items) : s = WithFlusher(p, w, c)
  BY <1>3, <1>4, <1>b, FlusherFacts
<1>6. /\ NoDup(s)
      /\ \A x : In(s, x) <=> In(p, x) \/ x = c
      /\ \A x, y : Before(p, x, y) => Before(s, x, y)
      /\ In(p, w) => Before(s, w, c)
  BY <1>3, <1>4, <1>5, <1>b, FlusherFacts
<1>7. pending[to] # <<>> \/ worker[to].st = "run"
  <2>1. CASE "QUEUED" \in flags[w]
    <3>1. In(pending[to], w)
      BY <2>1, <1>3
    <3>2. QED
      BY <3>1, <1>3, EmptyList
  <2>2. CASE "RUNNING" \in flags[w]
    <3>1. worker[to].it = w /\ w # None
      BY <2>2, <1>0, <1>1, <1>b, WorkAssumption DEF RunningOK, Items
    <3>2. QED
      BY <3>1, <1>0, WorkerFacts
  <2>3. QED
    BY <2>1, <2>2
<1>8. worker[to].st # "off"
  BY <1>7, <1>0 DEF StartedOK
<1>9. /\ pending' = [pending EXCEPT ![to] = s]
      /\ worker' = Notified(to)
      /\ call' = [call EXCEPT ![c] = [op |-> "flush", on |-> w]]
      /\ sync' = [sync EXCEPT ![c] = FALSE]
  BY <1>0, <1>1, <1>4, <1>5 DEF FlushLocked, CoreTypeOK
<1>10. owed' = [owed EXCEPT ![c] = One("QUEUED" \in flags'[w]) + One("RUNNING" \in flags[w])]
  <2>1. One("QUEUED" \in flags'[w]) = One("QUEUED" \in flags[w])
    BY <1>2 DEF One
  <2>2. QED
    BY <2>1, CountRuns DEF FlushLocked
<1>11. /\ "RUNNING" \in flags'[w] <=> "RUNNING" \in flags[w]
       /\ "CANCELING" \in flags'[w] <=> "CANCELING" \in flags[w]
       /\ "FLUSHING" \notin flags'[w]
       /\ "CANCELING" \in flags[w] => "QUEUED" \notin flags'[w]
  BY <1>0, <1>2 DEF CancelingOK
<1>12. /\ last' \in [Works -> Queues \cup {None}]
       /\ \A v \in Works : v # w => last'[v] = last[v]
       /\ last'[w] = to
       /\ "RUNNING" \in flags[w] => last[w] = to
  BY <1>0, <1>1 DEF CoreTypeOK
<1>13. /\ \A r \in Queues \ {to} : ~In(pending[r], w)
       /\ \A x : In(s, x) <=> In(pending[to], x) \/ x = c \/ (x = w /\ "QUEUED" \in flags'[w])
       /\ In(pending[to], w) => "QUEUED" \in flags'[w]
       /\ \A x, y : Before(pending[to], x, y) => Before(s, x, y)
       /\ "QUEUED" \in flags'[w] => Before(s, w, c)
  BY <1>2, <1>3, <1>4, <1>6
<1>14. "PLUGGED" \in qflags[to] => "DRAIN" \in qflags[to]
                                     \/ pending[to] # <<>> \/ worker[to].st = "run"
  BY <1>7
<1>15. s \in Seq(Items) /\ NoDup(s) /\ UNCHANGED <<qflags, cancels>>
  BY <1>6
<1>16. EnterFlush(c, w, to, s)
  BY <1>8, <1>9, <1>10, <1>11, <1>12, <1>13, <1>14, <1>15 DEF EnterFlush
<1>17. QED
  BY <1>16, EnterFlushInv

(* k_work_flush_delayable of a scheduled item: it is submitted first. *)
LEMMA FlushDelayedInv ==
  ASSUME CoreInv, NEW c \in Clients, NEW w \in Works, DelayTypeOK, FlushDelayed(c, w)
  PROVE  CoreInv'
<1>0. /\ CoreTypeOK /\ QueuedOK /\ RunningOK /\ ListsOK /\ CancelingOK
      /\ StartedOK /\ PluggedStaysEmpty
  BY DEF CoreInv
<1>b. w \in Items /\ c \in Items /\ w \notin Clients /\ w # c
  BY WorkAssumption DEF Items
<1>1. PICK to : to = SubmitQueue(w, target[w])
  OBVIOUS
<1>2. /\ call[c] = NoCall
      /\ "CANCELING" \notin flags[w] /\ "QUEUED" \notin flags[w]
      /\ to \in Queues /\ "STARTED" \in qflags[to]
      /\ "PLUGGED" \in qflags[to] => "DRAIN" \in qflags[to]
  BY <1>0, <1>1 DEF FlushDelayed, Accepted, QueueAccepts, SubmitQueue, CoreTypeOK,
       DelayTypeOK
<1>3. "RUNNING" \in flags[w] => last[w] = to
  BY <1>1 DEF SubmitQueue
<1>4. /\ flags' = [flags EXCEPT ![w] = (@ \ {"DELAYED"}) \cup {"QUEUED"}, ![c] = {"FLUSHING"}]
      /\ last' = [last EXCEPT ![w] = to]
      /\ pending' = [pending EXCEPT ![to] = @ \o <<w, c>>]
      /\ worker' = Notified(to)
      /\ call' = [call EXCEPT ![c] = [op |-> "flush", on |-> w]]
      /\ sync' = [sync EXCEPT ![c] = FALSE]
      /\ owed' = [owed EXCEPT ![c] = Cardinality(flags[w] \cap {"RUNNING"}) + 1]
      /\ UNCHANGED <<qflags, cancels>>
  BY <1>1 DEF FlushDelayed
<1>5. /\ flags' \in [Items -> SUBSET WorkFlags]
      /\ \A i \in Items : i \notin {c, w} => flags'[i] = flags[i]
      /\ flags'[c] = {"FLUSHING"}
      /\ flags'[w] = (flags[w] \ {"DELAYED"}) \cup {"QUEUED"}
  BY <1>4, <1>0, <1>b DEF CoreTypeOK, WorkFlags
<1>6. /\ "RUNNING" \in flags'[w] <=> "RUNNING" \in flags[w]
      /\ "CANCELING" \in flags'[w] <=> "CANCELING" \in flags[w]
      /\ "FLUSHING" \notin flags'[w]
      /\ "CANCELING" \in flags[w] => "QUEUED" \notin flags'[w]
      /\ "QUEUED" \in flags'[w]
  BY <1>0, <1>2, <1>5 DEF CancelingOK
<1>7. /\ last' \in [Works -> Queues \cup {None}]
      /\ \A v \in Works : v # w => last'[v] = last[v]
      /\ last'[w] = to
  BY <1>0, <1>2, <1>4 DEF CoreTypeOK
<1>8. /\ pending[to] \in Seq(Items) /\ NoDup(pending[to]) /\ ~In(pending[to], c)
      /\ \A r \in Queues : ~In(pending[r], w)
  BY <1>0, <1>2, IdleFlusher DEF CoreTypeOK, ListsOK, QueuedOK
<1>9. PICK p \in Seq(Items) : p = pending[to]
  BY <1>8
<1>10. /\ Append(p, w) \in Seq(Items) /\ NoDup(Append(p, w))
       /\ \A x : In(Append(p, w), x) <=> In(p, x) \/ x = w
       /\ \A x, y : Before(p, x, y) => Before(Append(p, w), x, y)
  BY <1>8, <1>9, <1>2, <1>b, AppendFacts
<1>11. PICK m \in Seq(Items) : m = Append(p, w)
  BY <1>10
<1>12. ~In(m, c) /\ NoDup(m) /\ In(m, w)
  BY <1>8, <1>9, <1>10, <1>11, <1>2, <1>b
<1>13. PICK s \in Seq(Items) : s = Append(m, c)
  BY <1>12, <1>b, AppendFacts
<1>14. /\ NoDup(s)
       /\ \A x : In(s, x) <=> In(m, x) \/ x = c
       /\ \A x, y : Before(m, x, y) => Before(s, x, y)
       /\ Before(s, w, c)
  BY <1>12, <1>13, <1>b, AppendFacts
<1>15. p \o <<w, c>> = s
  BY <1>9, <1>11, <1>13, <1>b
<1>16. pending' = [pending EXCEPT ![to] = s]
  BY <1>0, <1>2, <1>4, <1>9, <1>15 DEF CoreTypeOK
<1>17. owed' = [owed EXCEPT ![c] = One("QUEUED" \in flags'[w]) + One("RUNNING" \in flags[w])]
  <2>1. Cardinality(flags[w] \cap {"RUNNING"}) + 1
          = One("QUEUED" \in flags'[w]) + One("RUNNING" \in flags[w])
    BY <1>6, CountRunning DEF One
  <2>2. QED
    BY <1>4, <2>1
<1>18. /\ \A r \in Queues \ {to} : ~In(pending[r], w)
       /\ \A x : In(s, x) <=> In(pending[to], x) \/ x = c \/ (x = w /\ "QUEUED" \in flags'[w])
       /\ In(pending[to], w) => "QUEUED" \in flags'[w]
       /\ \A x, y : Before(pending[to], x, y) => Before(s, x, y)
       /\ "QUEUED" \in flags'[w] => Before(s, w, c)
  BY <1>6, <1>8, <1>9, <1>10, <1>11, <1>14
<1>19. worker[to].st # "off"
  BY <1>0, <1>2 DEF StartedOK
<1>20. EnterFlush(c, w, to, s)
  BY <1>2, <1>3, <1>4, <1>5, <1>6, <1>7, <1>14, <1>16, <1>17, <1>18, <1>19 DEF EnterFlush
<1>21. QED
  BY <1>2, <1>20, EnterFlushInv

(* The thread in k_sem_take wakes. *)
LEMMA SyncReturnInv ==
  ASSUME CoreInv, NEW c \in Clients, SyncReturn(c)
  PROVE  CoreInv'
<1>0. /\ CoreTypeOK /\ QueuedOK /\ RunningOK /\ ListsOK /\ FlushersOK /\ CancelingOK
      /\ CancelsOK /\ StartedOK /\ NoSleepOnWork /\ PluggedStaysEmpty /\ OwedOK
  BY DEF CoreInv
<1>1. /\ sync[c]
      /\ call' = [call EXCEPT ![c] = NoCall]
      /\ sync' = [sync EXCEPT ![c] = FALSE]
      /\ UNCHANGED <<flags, last, pending, worker, qflags, cancels, owed>>
  BY DEF SyncReturn, workVars
<1>2. /\ call' \in [Clients -> [op : {"none", "flush", "cancel", "drain"},
                                on : Works \cup Queues \cup {None}]]
      /\ call'[c].op = "none"
      /\ \A d \in Clients : d # c => call'[d] = call[d]
  BY <1>0, <1>1 DEF CoreTypeOK, NoCall
<1>3. /\ sync' \in [Clients -> BOOLEAN]
      /\ \A d \in Clients : d # c => sync'[d] = sync[d]
  BY <1>0, <1>1 DEF CoreTypeOK
<1>4. /\ ~In(cancels, c)
      /\ \A r \in Queues : ~In(pending[r], c) /\ worker[r].it # c
  BY <1>0, <1>1 DEF CancelsOK, FlushersOK, FlusherBusy
<1>5. CoreTypeOK'
  BY <1>0, <1>1, <1>2, <1>3 DEF CoreTypeOK
<1>6. QueuedOK' /\ RunningOK' /\ ListsOK' /\ CancelingOK' /\ StartedOK' /\ NoSleepOnWork'
      /\ PluggedStaysEmpty'
  BY <1>0, <1>1 DEF QueuedOK, RunningOK, ListsOK, CancelingOK, StartedOK, NoSleepOnWork,
       PluggedStaysEmpty
<1>7. FlushersOK'
  BY <1>0, <1>1, <1>2, <1>3, <1>4 DEF FlushersOK, FlusherBusy
<1>8. CancelsOK'
  BY <1>0, <1>1, <1>2, <1>3, <1>4 DEF CancelsOK
<1>9. OwedOK'
  <2>1. \A d \in Clients : call'[d].op = "flush" /\ sync'[d] => owed'[d] = 0
    BY <1>0, <1>1, <1>2, <1>3 DEF OwedOK
  <2>2. \A d \in Clients, r \in Queues : OwedFor(d, r)'
    BY <1>0, <1>1, <1>2, <1>4 DEF OwedOK, OwedFor, One
  <2>3. QED
    BY <2>1, <2>2 DEF OwedOK
<1>10. QED
  BY <1>5, <1>6, <1>7, <1>8, <1>9 DEF CoreInv

(* k_work_queue_start *)
LEMMA StartInv ==
  ASSUME CoreInv, NEW q \in Queues, Start(q)
  PROVE  CoreInv'
<1>0. /\ CoreTypeOK /\ QueuedOK /\ RunningOK /\ ListsOK /\ FlushersOK /\ CancelingOK
      /\ CancelsOK /\ StartedOK /\ NoSleepOnWork /\ PluggedStaysEmpty /\ OwedOK
  BY DEF CoreInv
<1>1. /\ "STARTED" \notin qflags[q]
      /\ qflags' = [qflags EXCEPT ![q] = {"STARTED"}]
      /\ worker' = [worker EXCEPT ![q].st = "loop"]
      /\ UNCHANGED <<flags, last, pending, cancels, call, sync, owed>>
  BY DEF Start, clientVars
<1>2. worker[q].st = "off" /\ worker[q].it = None /\ pending[q] = <<>>
  BY <1>0, <1>1, WorkerFacts DEF StartedOK
<1>3. worker' = [worker EXCEPT ![q] = [st |-> "loop", it |-> None]]
  <2>1. worker[q] = [st |-> "off", it |-> None]
    BY <1>0, <1>2, WorkerFacts
  <2>2. worker' = [worker EXCEPT ![q] = [worker[q] EXCEPT !.st = "loop"]]
    BY <1>1
  <2>3. [[st |-> "off", it |-> None] EXCEPT !.st = "loop"] = [st |-> "loop", it |-> None]
    OBVIOUS
  <2>4. [worker[q] EXCEPT !.st = "loop"] = [st |-> "loop", it |-> None]
    BY <2>1, <2>3
  <2>5. QED
    BY <2>2, <2>4
<1>4. /\ worker' \in [Queues -> [st : {"off", "loop", "wait"}, it : {None}]
                                  \cup [st : {"run"}, it : Items]]
      /\ worker'[q].st = "loop"
      /\ \A r \in Queues : worker'[r].it = worker[r].it
      /\ \A r \in Queues : r # q => worker'[r].st = worker[r].st
  BY <1>0, <1>2, <1>3 DEF CoreTypeOK
<1>5. /\ qflags' \in [Queues -> SUBSET QueueFlags]
      /\ qflags'[q] = {"STARTED"}
      /\ \A r \in Queues : r # q => qflags'[r] = qflags[r]
  BY <1>0, <1>1 DEF CoreTypeOK, QueueFlags
<1>6. CoreTypeOK'
  BY <1>0, <1>1, <1>4, <1>5 DEF CoreTypeOK
<1>7. QueuedOK' /\ ListsOK' /\ CancelingOK' /\ CancelsOK'
  BY <1>0, <1>1 DEF QueuedOK, ListsOK, CancelingOK, CancelsOK
<1>8. RunningOK'
  BY <1>0, <1>1, <1>4 DEF RunningOK
<1>9. FlushersOK'
  <2>1. \A c \in Clients, r \in Queues : worker'[r].it = c <=> worker[r].it = c
    BY <1>4
  <2>2. QED
    BY <2>1, <1>0, <1>1 DEF FlushersOK, FlusherBusy
<1>10. StartedOK' /\ NoSleepOnWork'
  BY <1>0, <1>1, <1>4, <1>5 DEF StartedOK, NoSleepOnWork
<1>11. PluggedStaysEmpty'
  BY <1>0, <1>1, <1>4, <1>5 DEF PluggedStaysEmpty
<1>12. OwedOK'
  BY <1>0, <1>1, <1>4 DEF OwedOK, OwedFor, One
<1>13. QED
  BY <1>6, <1>7, <1>8, <1>9, <1>10, <1>11, <1>12 DEF CoreInv

(* k_work_queue_drain *)
LEMMA DrainInv ==
  ASSUME CoreInv, NEW c \in Clients, NEW q \in Queues, NEW plug \in BOOLEAN,
         Drain(c, q, plug)
  PROVE  CoreInv'
<1>0. /\ CoreTypeOK /\ QueuedOK /\ RunningOK /\ ListsOK /\ FlushersOK /\ CancelingOK
      /\ CancelsOK /\ StartedOK /\ NoSleepOnWork /\ PluggedStaysEmpty /\ OwedOK
  BY DEF CoreInv
<1>1. /\ call[c] = NoCall /\ "STARTED" \in qflags[q]
      /\ qflags' = [qflags EXCEPT ![q] =
                      @ \cup {"DRAIN"} \cup (IF plug THEN {"PLUGGED"} ELSE {})]
      /\ worker' = Notified(q)
      /\ call' = [call EXCEPT ![c] = [op |-> "drain", on |-> q]]
      /\ UNCHANGED <<flags, last, pending, cancels, sync, owed>>
  BY DEF Drain
<1>2. /\ call[c].op = "none" /\ ~In(cancels, c)
      /\ \A r \in Queues : ~In(pending[r], c) /\ worker[r].it # c
  BY <1>1, IdleFlusher
<1>3. /\ worker' \in [Queues -> [st : {"off", "loop", "wait"}, it : {None}]
                                  \cup [st : {"run"}, it : Items]]
      /\ \A r \in Queues :
            /\ worker'[r].it = worker[r].it
            /\ worker'[r].st = IF r = q /\ worker[r].st = "wait" THEN "loop"
                               ELSE worker[r].st
  BY <1>0, <1>1, NotifiedFacts
<1>4. /\ qflags' \in [Queues -> SUBSET QueueFlags]
      /\ "DRAIN" \in qflags'[q] /\ "STARTED" \in qflags'[q]
      /\ \A r \in Queues : r # q => qflags'[r] = qflags[r]
  BY <1>0, <1>1 DEF CoreTypeOK, QueueFlags
<1>5. /\ call' \in [Clients -> [op : {"none", "flush", "cancel", "drain"},
                                on : Works \cup Queues \cup {None}]]
      /\ call'[c].op = "drain"
      /\ \A d \in Clients : d # c => call'[d] = call[d]
  <2>1. [op |-> "drain", on |-> q] \in [op : {"none", "flush", "cancel", "drain"},
                                        on : Works \cup Queues \cup {None}]
    OBVIOUS
  <2>2. QED
    BY <2>1, <1>0, <1>1 DEF CoreTypeOK
<1>6. CoreTypeOK'
  BY <1>0, <1>1, <1>3, <1>4, <1>5 DEF CoreTypeOK
<1>7. QueuedOK' /\ ListsOK' /\ CancelingOK'
  BY <1>0, <1>1 DEF QueuedOK, ListsOK, CancelingOK
<1>8. RunningOK'
  BY <1>0, <1>1, <1>3 DEF RunningOK
<1>9. FlushersOK'
  <2>1. \A d \in Clients, r \in Queues : worker'[r].it = d <=> worker[r].it = d
    BY <1>3
  <2>2. \A d \in Clients : d # c => (FlusherBusy(d)' <=> FlusherBusy(d))
    BY <1>1, <1>5 DEF FlusherBusy
  <2>3. QED
    BY <2>1, <2>2, <1>0, <1>1, <1>2, <1>5 DEF FlushersOK
<1>10. CancelsOK'
  BY <1>0, <1>1, <1>2, <1>5 DEF CancelsOK
<1>11. StartedOK' /\ NoSleepOnWork' /\ PluggedStaysEmpty'
  BY <1>0, <1>1, <1>3, <1>4 DEF StartedOK, NoSleepOnWork, PluggedStaysEmpty
<1>12. OwedOK'
  <2>1. \A d \in Clients : call'[d].op = "flush" /\ sync'[d] => owed'[d] = 0
    BY <1>0, <1>1, <1>5 DEF OwedOK
  <2>2. \A d \in Clients, r \in Queues : OwedFor(d, r)'
    BY <1>0, <1>1, <1>2, <1>3, <1>5 DEF OwedOK, OwedFor, One
  <2>3. QED
    BY <2>1, <2>2 DEF OwedOK
<1>13. QED
  BY <1>6, <1>7, <1>8, <1>9, <1>10, <1>11, <1>12 DEF CoreInv

(* k_work_queue_unplug *)
LEMMA UnplugInv ==
  ASSUME CoreInv, NEW q \in Queues, Unplug(q)
  PROVE  CoreInv'
<1>0. /\ CoreTypeOK /\ QueuedOK /\ RunningOK /\ ListsOK /\ FlushersOK /\ CancelingOK
      /\ CancelsOK /\ StartedOK /\ NoSleepOnWork /\ PluggedStaysEmpty /\ OwedOK
  BY DEF CoreInv
<1>1. /\ qflags' = [qflags EXCEPT ![q] = @ \ {"PLUGGED"}]
      /\ UNCHANGED <<flags, last, pending, worker, cancels, call, sync, owed>>
  BY DEF Unplug, workVars, clientVars
<1>2. /\ qflags' \in [Queues -> SUBSET QueueFlags]
      /\ qflags'[q] = qflags[q] \ {"PLUGGED"}
      /\ \A r \in Queues : r # q => qflags'[r] = qflags[r]
  BY <1>0, <1>1 DEF CoreTypeOK, QueueFlags
<1>3. CoreTypeOK'
  BY <1>0, <1>1, <1>2 DEF CoreTypeOK
<1>4. QueuedOK' /\ ListsOK' /\ CancelingOK' /\ RunningOK' /\ CancelsOK'
  BY <1>0, <1>1 DEF QueuedOK, ListsOK, CancelingOK, RunningOK, CancelsOK
<1>5. FlushersOK' /\ OwedOK'
  BY <1>0, <1>1 DEF FlushersOK, FlusherBusy, OwedOK, OwedFor, One
<1>6. StartedOK' /\ NoSleepOnWork' /\ PluggedStaysEmpty'
  BY <1>0, <1>1, <1>2 DEF StartedOK, NoSleepOnWork, PluggedStaysEmpty
<1>7. QED
  BY <1>3, <1>4, <1>5, <1>6 DEF CoreInv

(* work_queue_main with an empty list *)
LEMMA WorkerSleepInv ==
  ASSUME CoreInv, NEW q \in Queues, WorkerSleep(q)
  PROVE  CoreInv'
<1>0. /\ CoreTypeOK /\ QueuedOK /\ RunningOK /\ ListsOK /\ FlushersOK /\ CancelingOK
      /\ CancelsOK /\ StartedOK /\ NoSleepOnWork /\ PluggedStaysEmpty /\ OwedOK
  BY DEF CoreInv
<1>1. /\ worker[q].st = "loop" /\ pending[q] = <<>>
      /\ worker' = [worker EXCEPT ![q].st = "wait"]
      /\ qflags' = [qflags EXCEPT ![q] = @ \ {"DRAIN"}]
      /\ UNCHANGED <<flags, last, pending, cancels, sync, owed>>
  BY DEF WorkerSleep
<1>2. worker[q].it = None /\ worker' = [worker EXCEPT ![q] = [st |-> "wait", it |-> None]]
  <2>1. worker[q].it = None
    BY <1>0, <1>1, WorkerFacts
  <2>2. worker[q] = [st |-> "loop", it |-> None]
    BY <2>1, <1>0, <1>1, WorkerFacts
  <2>3. worker' = [worker EXCEPT ![q] = [worker[q] EXCEPT !.st = "wait"]]
    BY <1>1
  <2>4. [[st |-> "loop", it |-> None] EXCEPT !.st = "wait"] = [st |-> "wait", it |-> None]
    OBVIOUS
  <2>5. [worker[q] EXCEPT !.st = "wait"] = [st |-> "wait", it |-> None]
    BY <2>2, <2>4
  <2>6. QED
    BY <2>1, <2>3, <2>5
<1>3. /\ worker' \in [Queues -> [st : {"off", "loop", "wait"}, it : {None}]
                                  \cup [st : {"run"}, it : Items]]
      /\ worker'[q].st = "wait"
      /\ \A r \in Queues : worker'[r].it = worker[r].it
      /\ \A r \in Queues : r # q => worker'[r].st = worker[r].st
  BY <1>0, <1>2 DEF CoreTypeOK
<1>4. /\ qflags' \in [Queues -> SUBSET QueueFlags]
      /\ qflags'[q] = qflags[q] \ {"DRAIN"}
      /\ \A r \in Queues : r # q => qflags'[r] = qflags[r]
  BY <1>0, <1>1 DEF CoreTypeOK, QueueFlags
<1>5. /\ call' \in [Clients -> [op : {"none", "flush", "cancel", "drain"},
                                on : Works \cup Queues \cup {None}]]
      /\ \A d \in Clients :
           call[d].op \in {"flush", "cancel"} \/ call'[d].op \in {"flush", "cancel"}
             => call'[d] = call[d]
  <2>1. CASE "DRAIN" \in qflags[q]
    <3>1. call' = [c \in Clients |-> IF call[c] = [op |-> "drain", on |-> q]
                                     THEN NoCall ELSE call[c]]
      BY <2>1 DEF WorkerSleep
    <3>2. \A d \in Clients : call'[d] = IF call[d].op = "drain" /\ call[d].on = q
                                        THEN NoCall ELSE call[d]
      BY <3>1, <1>0, CallFacts
    <3>3. NoCall \in [op : {"none", "flush", "cancel", "drain"},
                      on : Works \cup Queues \cup {None}] /\ NoCall.op = "none"
      BY DEF NoCall
    <3>4. QED
      BY <3>1, <3>2, <3>3, <1>0 DEF CoreTypeOK
  <2>2. CASE "DRAIN" \notin qflags[q]
    <3>1. call' = call
      BY <2>2 DEF WorkerSleep
    <3>2. QED
      BY <3>1, <1>0 DEF CoreTypeOK
  <2>3. QED
    BY <2>1, <2>2
<1>6. CoreTypeOK'
  BY <1>0, <1>1, <1>3, <1>4, <1>5 DEF CoreTypeOK
<1>7. QueuedOK' /\ ListsOK' /\ CancelingOK'
  BY <1>0, <1>1 DEF QueuedOK, ListsOK, CancelingOK
<1>8. RunningOK'
  BY <1>0, <1>1, <1>3 DEF RunningOK
<1>9. FlushersOK'
  <2>1. \A d \in Clients, r \in Queues : worker'[r].it = d <=> worker[r].it = d
    BY <1>3
  <2>2. \A d \in Clients : /\ FlusherBusy(d)' <=> FlusherBusy(d)
                           /\ call'[d].op = "flush" => call[d].op = "flush"
                                                       /\ call'[d].on = call[d].on
    BY <1>1, <1>5 DEF FlusherBusy
  <2>3. QED
    BY <2>1, <2>2, <1>0, <1>1 DEF FlushersOK
<1>10. CancelsOK'
  BY <1>0, <1>1, <1>5 DEF CancelsOK
<1>11. StartedOK' /\ NoSleepOnWork' /\ PluggedStaysEmpty'
  BY <1>0, <1>1, <1>3, <1>4 DEF StartedOK, NoSleepOnWork, PluggedStaysEmpty
<1>12. OwedOK'
  <2>1. \A d \in Clients : call'[d].op = "flush" /\ sync'[d] => owed'[d] = 0
    BY <1>0, <1>1, <1>5 DEF OwedOK
  <2>2. ASSUME NEW d \in Clients, NEW r \in Queues PROVE OwedFor(d, r)'
    <3>1. OwedFor(d, r)
      BY <1>0 DEF OwedOK
    <3>2. In(pending[r], d) => call'[d] = call[d]
      BY <1>0, <1>5 DEF FlushersOK, FlusherBusy
    <3>3. QED
      BY <3>1, <3>2, <1>1, <1>3 DEF OwedFor, One
  <2>3. QED
    BY <2>1, <2>2 DEF OwedOK
<1>13. QED
  BY <1>6, <1>7, <1>8, <1>9, <1>10, <1>11, <1>12 DEF CoreInv

(* work_queue_main takes the first item. *)
LEMMA WorkerTakeInv ==
  ASSUME CoreInv, NEW q \in Queues, WorkerTake(q)
  PROVE  CoreInv'
<1>0. /\ CoreTypeOK /\ QueuedOK /\ RunningOK /\ ListsOK /\ FlushersOK /\ CancelingOK
      /\ CancelsOK /\ StartedOK /\ NoSleepOnWork /\ PluggedStaysEmpty /\ OwedOK
  BY DEF CoreInv
<1>b. Clients \subseteq Items /\ Works \subseteq Items /\ None \notin Items
      /\ (\A c \in Clients : c \notin Works) /\ Items = Works \cup Clients
  BY WorkAssumption DEF Items
<1>1. PICK i : i = Head(pending[q])
  OBVIOUS
<1>2. /\ worker[q].st = "loop" /\ pending[q] # <<>>
      /\ pending' = [pending EXCEPT ![q] = Tail(@)]
      /\ flags' = [flags EXCEPT ![i] = (@ \cup {"RUNNING"}) \ {"QUEUED"}]
      /\ worker' = [worker EXCEPT ![q] = [st |-> "run", it |-> i]]
      /\ qflags' = [qflags EXCEPT ![q] = @ \cup {"BUSY"}]
      /\ UNCHANGED <<last, cancels, call, sync, owed>>
  BY <1>1 DEF WorkerTake, clientVars
<1>3. worker[q].it = None
  BY <1>0, <1>2, WorkerFacts
<1>4. PICK p \in Seq(Items) : p = pending[q] /\ p # <<>> /\ NoDup(p)
  BY <1>0, <1>2 DEF CoreTypeOK, ListsOK
<1>5. /\ Tail(p) \in Seq(Items) /\ i \in Items /\ In(p, i)
      /\ NoDup(Tail(p))
      /\ \A x : In(Tail(p), x) <=> In(p, x) /\ x # i
      /\ \A x, y : x # i /\ y # i => (Before(p, x, y) <=> Before(Tail(p), x, y))
      /\ \A x : ~Before(p, x, i)
  BY <1>1, <1>4, TailFacts
<1>6. /\ pending' \in [Queues -> Seq(Items)]
      /\ pending'[q] = Tail(p)
      /\ \A r \in Queues : r # q => pending'[r] = pending[r]
  BY <1>0, <1>2, <1>4, <1>5 DEF CoreTypeOK
<1>7. \A r \in Queues :
        /\ NoDup(pending'[r])
        /\ \A x : In(pending'[r], x) <=> In(pending[r], x) /\ ~(r = q /\ x = i)
        /\ \A x, y : r # q \/ (x # i /\ y # i) =>
             (Before(pending[r], x, y) <=> Before(pending'[r], x, y))
  BY <1>0, <1>4, <1>5, <1>6 DEF ListsOK
<1>8. /\ flags' \in [Items -> SUBSET WorkFlags]
      /\ flags'[i] = (flags[i] \cup {"RUNNING"}) \ {"QUEUED"}
      /\ \A x \in Items : x # i => flags'[x] = flags[x]
  BY <1>0, <1>2, <1>5 DEF CoreTypeOK, WorkFlags
<1>9. /\ worker' \in [Queues -> [st : {"off", "loop", "wait"}, it : {None}]
                                  \cup [st : {"run"}, it : Items]]
      /\ worker'[q].st = "run" /\ worker'[q].it = i
      /\ \A r \in Queues : r # q => worker'[r] = worker[r]
  BY <1>0, <1>2, <1>5 DEF CoreTypeOK
<1>10. /\ qflags' \in [Queues -> SUBSET QueueFlags]
       /\ \A f \in {"STARTED", "DRAIN", "PLUGGED"} : \A r \in Queues :
            f \in qflags'[r] <=> f \in qflags[r]
       /\ \A r \in Queues : r # q => qflags'[r] = qflags[r]
  BY <1>0, <1>2 DEF CoreTypeOK, QueueFlags
<1>11. i \in Works => /\ "QUEUED" \in flags[i] /\ last[i] = q
                      /\ "CANCELING" \notin flags[i]
  BY <1>0, <1>4, <1>5 DEF QueuedOK, CancelingOK
<1>12. CoreTypeOK'
  BY <1>0, <1>2, <1>6, <1>8, <1>9, <1>10 DEF CoreTypeOK
<1>13. QueuedOK'
  <2>1. ASSUME NEW v \in Works, v # i
        PROVE  /\ "QUEUED" \in flags'[v] => last'[v] \in Queues
               /\ \A r \in Queues : In(pending'[r], v) <=> "QUEUED" \in flags'[v] /\ last'[v] = r
    BY <2>1, <1>0, <1>2, <1>7, <1>8, <1>b DEF QueuedOK
  <2>2. ASSUME i \in Works
        PROVE  /\ "QUEUED" \notin flags'[i]
               /\ \A r \in Queues : ~In(pending'[r], i)
    BY <2>2, <1>0, <1>7, <1>8, <1>11 DEF QueuedOK
  <2>3. QED
    BY <2>1, <2>2 DEF QueuedOK
<1>14. RunningOK'
  <2>1. ASSUME NEW v \in Works, v # i
        PROVE  /\ "RUNNING" \in flags'[v] => last'[v] \in Queues
               /\ \A r \in Queues : worker'[r].it = v <=> "RUNNING" \in flags'[v] /\ last'[v] = r
    <3>1. flags'[v] = flags[v] /\ last'[v] = last[v]
      BY <2>1, <1>2, <1>8, <1>b
    <3>2. \A r \in Queues : worker'[r].it = v <=> worker[r].it = v
      BY <2>1, <1>3, <1>9, <1>b
    <3>3. QED
      BY <3>1, <3>2, <1>0 DEF RunningOK
  <2>2. ASSUME i \in Works
        PROVE  /\ "RUNNING" \in flags'[i] /\ last'[i] = q
               /\ \A r \in Queues : worker'[r].it = i <=> r = q
    <3>1. "RUNNING" \in flags'[i] /\ last'[i] = q
      BY <2>2, <1>2, <1>8, <1>11
    <3>2. \A r \in Queues : r # q => worker[r].it # i
      BY <2>2, <1>0, <1>11 DEF RunningOK
    <3>3. QED
      BY <3>1, <3>2, <1>9
  <2>3. QED
    BY <2>1, <2>2 DEF RunningOK
<1>15. ListsOK'
  BY <1>7 DEF ListsOK
<1>16. FlushersOK'
  <2>1. ASSUME NEW d \in Clients, d # i
        PROVE  /\ flags'[d] = flags[d]
               /\ \A r \in Queues : /\ In(pending'[r], d) <=> In(pending[r], d)
                                    /\ worker'[r].it = d <=> worker[r].it = d
    BY <2>1, <1>3, <1>7, <1>8, <1>9, <1>b
  <2>2. \A d \in Clients : FlusherBusy(d)' <=> FlusherBusy(d)
    BY <1>2 DEF FlusherBusy
  <2>3. ASSUME i \in Clients
        PROVE  /\ flags'[i] \subseteq {"RUNNING", "FLUSHING"}
               /\ "RUNNING" \in flags'[i] /\ FlusherBusy(i)
               /\ \A r \in Queues : /\ ~In(pending'[r], i)
                                    /\ worker'[r].it = i <=> r = q
    <3>1. /\ In(pending[q], i) /\ FlusherBusy(i) /\ flags[i] \subseteq {"RUNNING", "FLUSHING"}
          /\ \A r \in Queues : /\ In(pending[r], i) => r = q
                               /\ worker[r].it # i
      BY <2>3, <1>0, <1>4, <1>5 DEF FlushersOK
    <3>2. QED
      BY <3>1, <1>7, <1>8, <1>9
  <2>4. QED
    BY <2>1, <2>2, <2>3, <1>0, <1>2 DEF FlushersOK
<1>17. CancelingOK'
  <2>1. \A v \in Works : v # i => flags'[v] = flags[v]
    BY <1>8, <1>b
  <2>2. QED
    BY <2>1, <1>0, <1>8, <1>11 DEF CancelingOK
<1>18. CancelsOK'
  BY <1>0, <1>2 DEF CancelsOK
<1>19. StartedOK' /\ NoSleepOnWork' /\ PluggedStaysEmpty'
  <2>1. StartedOK'
    BY <1>0, <1>2, <1>6, <1>9, <1>10 DEF StartedOK
  <2>2. NoSleepOnWork'
    BY <1>0, <1>6, <1>9, <1>10 DEF NoSleepOnWork
  <2>3. PluggedStaysEmpty'
    BY <1>0, <1>2, <1>6, <1>9, <1>10 DEF PluggedStaysEmpty
  <2>4. QED
    BY <2>1, <2>2, <2>3
<1>20. OwedOK'
  <2>1. \A d \in Clients : call'[d].op = "flush" /\ sync'[d] => owed'[d] = 0
    BY <1>0, <1>2 DEF OwedOK
  <2>2. ASSUME NEW d \in Clients, NEW r \in Queues PROVE OwedFor(d, r)'
    <3>0. OwedFor(d, r) /\ owed[d] \in 0..2 /\ owed' = owed /\ call' = call
      BY <1>0, <1>2 DEF OwedOK, CoreTypeOK
    <3>1. worker'[r].it = d => owed'[d] = 0
      <4>1. CASE r # q
        BY <4>1, <3>0, <1>9 DEF OwedFor
      <4>2. CASE r = q /\ i = d
        <5>1. In(pending[q], d) /\ ~Before(pending[q], call[d].on, d)
          BY <4>2, <1>4, <1>5
        <5>2. call[d].on # None
          BY <5>1, <1>0, <1>b DEF FlushersOK, FlusherBusy
        <5>3. QED
          BY <4>2, <5>1, <5>2, <3>0, <1>3 DEF OwedFor, One
      <4>3. QED
        BY <4>1, <4>2, <1>9
    <3>2. ASSUME In(pending'[r], d)
          PROVE  owed'[d] <= One(worker'[r].it = call'[d].on)
                               + One(Before(pending'[r], call'[d].on, d))
      <4>1. /\ In(pending[r], d) /\ ~(r = q /\ d = i)
            /\ call[d].on \in Works
        BY <3>2, <1>0, <1>7 DEF FlushersOK, FlusherBusy
      <4>2. owed[d] <= One(worker[r].it = call[d].on) + One(Before(pending[r], call[d].on, d))
        BY <3>0, <4>1 DEF OwedFor
      <4>3. CASE r # q
        <5>1. Before(pending[r], call[d].on, d) <=> Before(pending'[r], call[d].on, d)
          BY <4>3, <1>7
        <5>2. QED
          BY <4>2, <4>3, <5>1, <3>0, <1>9 DEF One
      <4>4. CASE r = q /\ call[d].on = i
        <5>1. worker[r].it # call[d].on
          BY <4>1, <4>4, <1>3, <1>b
        <5>2. owed[d] <= 1
          BY <4>2, <5>1, <3>0 DEF One
        <5>3. QED
          BY <4>4, <5>2, <3>0, <1>9 DEF One
      <4>5. CASE r = q /\ call[d].on # i
        <5>1. worker[r].it # call[d].on
          BY <4>1, <4>5, <1>3, <1>b
        <5>2. Before(pending[r], call[d].on, d) <=> Before(pending'[r], call[d].on, d)
          BY <4>1, <4>5, <1>7
        <5>3. QED
          BY <4>2, <5>1, <5>2, <3>0 DEF One
      <4>6. QED
        BY <4>3, <4>4, <4>5
    <3>3. QED
      BY <3>1, <3>2 DEF OwedFor
  <2>3. QED
    BY <2>1, <2>2 DEF OwedOK
<1>21. QED
  BY <1>12, <1>13, <1>14, <1>15, <1>16, <1>17, <1>18, <1>19, <1>20 DEF CoreInv

(* The cancel that finalize_cancel_locked completes is the first for the   *)
(* item: there is one at most.                                             *)
LEMMA FirstCancelFacts ==
  ASSUME CoreTypeOK, CancelsOK, NEW i, NEW k \in FirstCancel(i)
  PROVE  /\ k \in 1..Len(cancels) /\ cancels[k] \in Clients
         /\ call[cancels[k]].on = i
         /\ In(cancels, cancels[k])
         /\ \A j \in FirstCancel(i) : j = k
<1>1. cancels \in Seq(Clients) /\ Len(cancels) \in Nat
  BY DEF CoreTypeOK
<1>2. /\ k \in 1..Len(cancels) /\ call[cancels[k]].on = i
      /\ \A j \in 1..(k - 1) : call[cancels[j]].on # i
  BY DEF FirstCancel
<1>3. ASSUME NEW j \in FirstCancel(i) PROVE j = k
  <2>1. /\ j \in 1..Len(cancels) /\ call[cancels[j]].on = i
        /\ \A l \in 1..(j - 1) : call[cancels[l]].on # i
    BY <1>3 DEF FirstCancel
  <2>2. ~(j < k) /\ ~(k < j)
    BY <1>1, <1>2, <2>1
  <2>3. QED
    BY <1>1, <1>2, <2>1, <2>2
<1>4. cancels[k] \in Clients
  BY <1>1, <1>2
<1>5. QED
  BY <1>2, <1>3, <1>4 DEF In

(* The handler has returned. *)
LEMMA WorkerDoneInv ==
  ASSUME CoreInv, NEW q \in Queues, WorkerDone(q)
  PROVE  CoreInv'
<1>0. /\ CoreTypeOK /\ QueuedOK /\ RunningOK /\ ListsOK /\ FlushersOK /\ CancelingOK
      /\ CancelsOK /\ StartedOK /\ NoSleepOnWork /\ PluggedStaysEmpty /\ OwedOK
  BY DEF CoreInv
<1>b. Clients \subseteq Items /\ Works \subseteq Items /\ None \notin Items
      /\ (\A c \in Clients : c \notin Works) /\ Items = Works \cup Clients
  BY WorkAssumption DEF Items
<1>1. PICK i, done : /\ i = worker[q].it
                     /\ done = IF "CANCELING" \in flags[i] THEN FirstCancel(i) ELSE {}
  OBVIOUS
<1>2. /\ worker[q].st = "run"
      /\ flags' = [flags EXCEPT ![i] = @ \ {"RUNNING", "FLUSHING", "CANCELING"}]
      /\ sync' = [c \in Clients |-> sync[c] \/ c = i \/ \E k \in done : cancels[k] = c]
      /\ cancels' = IF done = {} THEN cancels
                    ELSE RemoveAt(cancels, CHOOSE k \in done : TRUE)
      /\ owed' = OwedLess(i, 0)
      /\ worker' = [worker EXCEPT ![q] = [st |-> "loop", it |-> None]]
      /\ qflags' = [qflags EXCEPT ![q] = @ \ {"BUSY"}]
      /\ UNCHANGED <<last, pending, call>>
  BY <1>1 DEF WorkerDone
<1>3. i \in Items
  BY <1>0, <1>1, <1>2, WorkerFacts
<1>4. \A k \in done : /\ k \in 1..Len(cancels) /\ cancels[k] \in Clients
                      /\ call[cancels[k]].on = i /\ call[cancels[k]].op = "cancel"
                      /\ In(cancels, cancels[k])
                      /\ \A j \in done : j = k
  BY <1>0, <1>1, FirstCancelFacts DEF CancelsOK
<1>5. /\ cancels' \in Seq(Clients) /\ NoDup(cancels')
      /\ \A x : In(cancels', x) <=> In(cancels, x) /\ ~\E k \in done : cancels[k] = x
  <2>1. CASE done = {}
    BY <2>1, <1>0, <1>2 DEF CoreTypeOK, CancelsOK
  <2>2. CASE done # {}
    <3>1. PICK k \in done : k = CHOOSE l \in done : TRUE
      BY <2>2
    <3>2. PICK s \in Seq(Clients) : s = cancels /\ NoDup(s) /\ k \in 1..Len(s) /\ s[k] \in Clients
      BY <3>1, <1>0, <1>4 DEF CoreTypeOK, CancelsOK
    <3>3. PICK r \in Seq(Clients) : r = RemoveAt(s, k) /\ IsRemoval(r, s, s[k], k)
      BY <3>2, RemoveAtIsRemoval
    <3>4. PICK e \in Clients : e = s[k]
      BY <3>2
    <3>5. NoDup(r) /\ \A x : In(r, x) <=> In(s, x) /\ x # e
      <4>1. IsRemoval(r, s, e, k)
        BY <3>3, <3>4
      <4>2. QED
        BY <4>1, <3>2, RemovalFacts
    <3>6. cancels' = r
      BY <2>2, <3>1, <3>2, <3>3, <1>2
    <3>7. \A x : (\E j \in done : cancels[j] = x) <=> x = e
      BY <3>1, <3>2, <3>4, <1>4
    <3>8. QED
      BY <3>2, <3>5, <3>6, <3>7
  <2>3. QED
    BY <2>1, <2>2
<1>6. /\ sync' \in [Clients -> BOOLEAN]
      /\ \A c \in Clients : sync'[c] <=> sync[c] \/ c = i \/ \E k \in done : cancels[k] = c
      /\ \A c \in Clients : call[c].op = "flush" => (sync'[c] <=> sync[c] \/ c = i)
  <2>1. \A c \in Clients : sync[c] \in BOOLEAN
    BY <1>0 DEF CoreTypeOK
  <2>2. sync' \in [Clients -> BOOLEAN]
    BY <1>2, <2>1
  <2>3. \A c \in Clients : sync'[c] <=> sync[c] \/ c = i \/ \E k \in done : cancels[k] = c
    BY <1>2
  <2>4. QED
    BY <2>2, <2>3, <1>4
<1>7. /\ owed' \in [Clients -> 0..2]
      /\ \A c \in Clients :
           owed'[c] = IF call[c].op = "flush" /\ call[c].on = i /\ owed[c] > 0
                      THEN owed[c] - 1 ELSE owed[c]
      /\ \A c \in Clients : owed[c] \in 0..2
  BY <1>0, <1>2, OwedLessFacts DEF CoreTypeOK
<1>8. /\ flags' \in [Items -> SUBSET WorkFlags]
      /\ flags'[i] = flags[i] \ {"RUNNING", "FLUSHING", "CANCELING"}
      /\ \A x \in Items : x # i => flags'[x] = flags[x]
  BY <1>0, <1>2, <1>3 DEF CoreTypeOK
<1>9. /\ worker' \in [Queues -> [st : {"off", "loop", "wait"}, it : {None}]
                                  \cup [st : {"run"}, it : Items]]
      /\ worker'[q].st = "loop" /\ worker'[q].it = None
      /\ \A r \in Queues : r # q => worker'[r] = worker[r]
  BY <1>0, <1>2 DEF CoreTypeOK
<1>10. /\ qflags' \in [Queues -> SUBSET QueueFlags]
       /\ \A f \in {"STARTED", "DRAIN", "PLUGGED"} : \A r \in Queues :
            f \in qflags'[r] <=> f \in qflags[r]
       /\ \A r \in Queues : r # q => qflags'[r] = qflags[r]
  BY <1>0, <1>2 DEF CoreTypeOK, QueueFlags
<1>11. \A r \in Queues : worker[r].it = i <=> r = q
  <2>1. CASE i \in Works
    BY <2>1, <1>0, <1>1 DEF RunningOK
  <2>2. CASE i \in Clients
    BY <2>2, <1>0, <1>1 DEF FlushersOK
  <2>3. QED
    BY <2>1, <2>2, <1>3, <1>b
<1>12. CoreTypeOK'
  BY <1>0, <1>2, <1>5, <1>6, <1>7, <1>8, <1>9, <1>10 DEF CoreTypeOK
<1>13. QueuedOK'
  <2>1. \A v \in Works : "QUEUED" \in flags'[v] <=> "QUEUED" \in flags[v]
    BY <1>8, <1>b
  <2>2. QED
    BY <2>1, <1>0, <1>2 DEF QueuedOK
<1>14. RunningOK'
  <2>1. ASSUME NEW v \in Works, v # i
        PROVE  /\ "RUNNING" \in flags'[v] <=> "RUNNING" \in flags[v]
               /\ \A r \in Queues : worker'[r].it = v <=> worker[r].it = v
    BY <2>1, <1>1, <1>8, <1>9, <1>b
  <2>2. ASSUME i \in Works
        PROVE  /\ "RUNNING" \notin flags'[i]
               /\ \A r \in Queues : worker'[r].it # i
    BY <2>2, <1>8, <1>9, <1>11, <1>b
  <2>3. QED
    BY <2>1, <2>2, <1>0, <1>2 DEF RunningOK
<1>15. ListsOK'
  BY <1>0, <1>2 DEF ListsOK
<1>16. FlushersOK'
  <2>1. ASSUME NEW d \in Clients, d # i
        PROVE  /\ flags'[d] = flags[d]
               /\ \A r \in Queues : worker'[r].it = d <=> worker[r].it = d
               /\ FlusherBusy(d)' <=> FlusherBusy(d)
    <3>1. flags'[d] = flags[d]
      BY <2>1, <1>8, <1>b
    <3>2. \A r \in Queues : worker'[r].it = d <=> worker[r].it = d
      BY <2>1, <1>1, <1>9, <1>b
    <3>3. FlusherBusy(d)' <=> FlusherBusy(d)
      BY <2>1, <1>2, <1>6 DEF FlusherBusy
    <3>4. QED
      BY <3>1, <3>2, <3>3
  <2>2. ASSUME i \in Clients
        PROVE  /\ flags'[i] \subseteq {"RUNNING", "FLUSHING"} /\ "RUNNING" \notin flags'[i]
               /\ \A r \in Queues : ~In(pending[r], i) /\ worker'[r].it # i
    <3>1. flags[i] \subseteq {"RUNNING", "FLUSHING"} /\ \A r \in Queues : ~In(pending[r], i)
      BY <2>2, <1>0, <1>1 DEF FlushersOK
    <3>2. \A r \in Queues : worker'[r].it # i
      BY <2>2, <1>9, <1>11, <1>b
    <3>3. QED
      BY <3>1, <3>2, <1>8
  <2>3. QED
    BY <2>1, <2>2, <1>0, <1>2 DEF FlushersOK
<1>17. CancelingOK'
  <2>1. \A v \in Works : v # i => flags'[v] = flags[v]
    BY <1>8, <1>b
  <2>2. QED
    BY <2>1, <1>0, <1>8 DEF CancelingOK
<1>18. CancelsOK'
  <2>1. ASSUME NEW c \in Clients, In(cancels', c) PROVE call[c].op = "cancel" /\ ~sync'[c]
    <3>1. /\ In(cancels, c) /\ ~\E k \in done : cancels[k] = c
      BY <2>1, <1>5
    <3>2. call[c].op = "cancel" /\ ~sync[c]
      BY <3>1, <1>0 DEF CancelsOK
    <3>3. c # i
      BY <3>2, <1>0, <1>1 DEF FlushersOK, FlusherBusy
    <3>4. QED
      BY <3>1, <3>2, <3>3, <1>6
  <2>2. QED
    BY <2>1, <1>2, <1>5 DEF CancelsOK
<1>19. StartedOK' /\ NoSleepOnWork' /\ PluggedStaysEmpty'
  <2>1. StartedOK'
    BY <1>0, <1>2, <1>9, <1>10 DEF StartedOK
  <2>2. NoSleepOnWork'
    BY <1>0, <1>2, <1>9, <1>10 DEF NoSleepOnWork
  <2>3. PluggedStaysEmpty'
    BY <1>0, <1>2, <1>9, <1>10 DEF PluggedStaysEmpty
  <2>4. QED
    BY <2>1, <2>2, <2>3
<1>20. OwedOK'
  <2>0. \A c \in Clients : owed'[c] \in 0..2 /\ owed'[c] <= owed[c]
    BY <1>7
  <2>1. ASSUME NEW d \in Clients, call'[d].op = "flush", sync'[d] PROVE owed'[d] = 0
    <3>1. call[d].op = "flush" /\ (sync[d] \/ d = i)
      BY <2>1, <1>2, <1>6
    <3>2. owed[d] = 0
      BY <3>1, <1>0, <1>1 DEF OwedOK, OwedFor
    <3>3. QED
      BY <3>2, <2>0
  <2>2. ASSUME NEW d \in Clients, NEW r \in Queues PROVE OwedFor(d, r)'
    <3>0. OwedFor(d, r) /\ owed[d] \in 0..2 /\ call' = call /\ pending' = pending
      BY <1>0, <1>2 DEF OwedOK, CoreTypeOK
    <3>1. worker'[r].it = d => owed'[d] = 0
      <4>1. worker'[r].it = d => worker[r].it = d
        BY <1>9, <1>b
      <4>2. QED
        BY <4>1, <3>0, <2>0 DEF OwedFor
    <3>2. ASSUME In(pending[r], d)
          PROVE  owed'[d] <= One(worker'[r].it = call[d].on)
                               + One(Before(pending[r], call[d].on, d))
      <4>1. call[d].on \in Works /\ call[d].op = "flush"
        BY <3>2, <1>0 DEF FlushersOK, FlusherBusy
      <4>2. owed[d] <= One(worker[r].it = call[d].on) + One(Before(pending[r], call[d].on, d))
        BY <3>0, <3>2 DEF OwedFor
      <4>3. CASE r # q
        BY <4>2, <4>3, <2>0, <3>0, <1>9 DEF One
      <4>4. CASE r = q /\ call[d].on = i
        <5>1. owed[d] <= 1 + One(Before(pending[r], call[d].on, d))
          BY <4>2, <3>0 DEF One
        <5>2. owed'[d] <= One(Before(pending[r], call[d].on, d))
          BY <4>1, <4>4, <5>1, <3>0, <1>7 DEF One
        <5>3. QED
          BY <5>2, <2>0 DEF One
      <4>5. CASE r = q /\ call[d].on # i
        BY <4>2, <4>5, <2>0, <3>0, <1>1 DEF One
      <4>6. QED
        BY <4>3, <4>4, <4>5
    <3>3. QED
      BY <3>0, <3>1, <3>2 DEF OwedFor
  <2>3. QED
    BY <2>1, <2>2 DEF OwedOK
<1>21. QED
  BY <1>12, <1>13, <1>14, <1>15, <1>16, <1>17, <1>18, <1>19, <1>20 DEF CoreInv

-----------------------------------------------------------------------------
LEMMA WorkInitInv == WInit => WorkInv
<1> SUFFICES ASSUME WInit PROVE WorkInv
  OBVIOUS
<1>0. /\ \A i \in Items : flags[i] = {}
      /\ \A q \in Queues : /\ pending[q] = <<>> /\ qflags[q] = {}
                           /\ worker[q].st = "off" /\ worker[q].it = None
      /\ \A c \in Clients : call[c].op = "none"
      /\ cancels = <<>>
  BY DEF WInit, NoCall
<1>1. WTypeOK
  <2>1. NoCall \in [op : {"none", "flush", "cancel", "drain"},
                    on : Works \cup Queues \cup {None}]
    BY DEF NoCall
  <2>2. call \in [Clients -> [op : {"none", "flush", "cancel", "drain"},
                              on : Works \cup Queues \cup {None}]]
    BY <2>1 DEF WInit
  <2>3. worker \in [Queues -> [st : {"off", "loop", "wait"}, it : {None}]
                                \cup [st : {"run"}, it : Items]]
    BY DEF WInit
  <2>4. pending \in [Queues -> Seq(Items)] /\ cancels \in Seq(Clients)
    BY DEF WInit
  <2>5. /\ flags \in [Items -> SUBSET WorkFlags] /\ qflags \in [Queues -> SUBSET QueueFlags]
        /\ last \in [Works -> Queues \cup {None}] /\ target \in [Works -> Queues \cup {None}]
    BY DEF WInit
  <2>6. /\ armed \in [Works -> BOOLEAN] /\ endless \in [Works -> BOOLEAN] /\ sync \in [Clients -> BOOLEAN]
        /\ owed \in [Clients -> 0..2]
    BY DEF WInit
  <2>7. firing \in Works \cup {None} /\ relinked \in BOOLEAN /\ skipped \in BOOLEAN
    BY DEF WInit
  <2>8. QED
    BY <2>2, <2>3, <2>4, <2>5, <2>6, <2>7 DEF WTypeOK
<1>2. \A q \in Queues : NoDup(pending[q]) /\ \A x : ~In(pending[q], x)
  BY <1>0 DEF NoDup, In
<1>3. NoDup(cancels) /\ \A x : ~In(cancels, x)
  BY <1>0 DEF NoDup, In
<1>4. Works \subseteq Items /\ Clients \subseteq Items /\ None \notin Items
  BY WorkAssumption DEF Items
<1>5. QueuedOK /\ RunningOK /\ CancelingOK
  BY <1>0, <1>2, <1>4 DEF QueuedOK, RunningOK, CancelingOK
<1>6. FlushersOK /\ OwedOK
  BY <1>0, <1>2, <1>4 DEF FlushersOK, OwedOK, OwedFor
<1>7. ListsOK /\ CancelsOK /\ StartedOK /\ NoSleepOnWork /\ PluggedStaysEmpty
  BY <1>0, <1>2, <1>3 DEF ListsOK, CancelsOK, StartedOK, NoSleepOnWork, PluggedStaysEmpty
<1>8. QED
  BY <1>1, <1>5, <1>6, <1>7 DEF WorkInv

(* The timeouts' variables keep their types. *)
LEMMA DelayTypeNext ==
  ASSUME DelayTypeOK, WNext
  PROVE  DelayTypeOK'
<1> USE DEF DelayTypeOK
<1>0. Delayables \subseteq Works
  BY WorkAssumption
<1>1. ASSUME UNCHANGED delayVars PROVE DelayTypeOK'
  BY <1>1 DEF delayVars
<1>2. ASSUME NEW w \in Works, armed' = Unscheduled(w), UNCHANGED <<firing, target, endless, relinked>>,
             skipped' \in BOOLEAN
      PROVE  DelayTypeOK'
  BY <1>2 DEF Unscheduled
<1>3. ASSUME NEW w \in Works \ Delayables, NEW q \in Queues \cup {None}, NEW ctx \in Contexts,
             Submit(w, q, ctx)
      PROVE  DelayTypeOK'
  BY <1>1, <1>3 DEF Submit
<1>4. ASSUME NEW w \in Delayables, NEW q \in Queues, NEW forever \in BOOLEAN,
             Schedule(w, q, forever) \/ Reschedule(w, q, forever)
      PROVE  DelayTypeOK'
  <2>1. PICK linked : /\ linked = armed \/ linked = Unscheduled(w)
                      /\ ScheduleLocked(w, q, forever, linked)
                      /\ firing' = firing /\ skipped' = skipped
    BY <1>4 DEF Schedule, Reschedule
  <2>2. linked \in [Works -> BOOLEAN]
    BY <2>1 DEF Unscheduled
  <2>3. QED
    BY <1>0, <2>1, <2>2 DEF ScheduleLocked
<1>5. ASSUME NEW w \in Delayables, NEW q \in Queues, NEW ctx \in Contexts, ScheduleNow(w, q, ctx)
      PROVE  DelayTypeOK'
  BY <1>1, <1>5 DEF ScheduleNow
<1>6. ASSUME NEW w \in Delayables, NEW q \in Queues, NEW ctx \in Contexts, RescheduleNow(w, q, ctx)
      PROVE  DelayTypeOK'
  BY <1>0, <1>2, <1>6 DEF RescheduleNow
<1>7. ASSUME NEW w \in Delayables, Expire(w) PROVE DelayTypeOK'
  BY <1>0, <1>7 DEF Expire
<1>8. ASSUME WorkTimeout PROVE DelayTypeOK'
  BY <1>8 DEF WorkTimeout
<1>9. ASSUME NEW w \in Works, Cancel(w) PROVE DelayTypeOK'
  BY <1>2, <1>9 DEF Cancel, CancelLocked
<1>10. ASSUME NEW c \in Clients, NEW w \in Works, CancelSync(c, w) PROVE DelayTypeOK'
  BY <1>2, <1>10 DEF CancelSync, CancelLocked
<1>11. ASSUME NEW c \in Clients, NEW w \in Works, Flush(c, w) PROVE DelayTypeOK'
  BY <1>1, <1>11 DEF Flush
<1>12. ASSUME NEW c \in Clients, NEW w \in Delayables, FlushDelayed(c, w) PROVE DelayTypeOK'
  BY <1>0, <1>12 DEF FlushDelayed
<1>13. ASSUME NEW c \in Clients, NEW w \in Delayables, FlushDelayable(c, w) PROVE DelayTypeOK'
  <2>1. skipped' \in BOOLEAN
    BY <1>13 DEF FlushDelayable, Accepted
  <2>2. QED
    BY <2>1, <1>0, <1>2, <1>13 DEF FlushDelayable
<1>14. ASSUME NEW c \in Clients, SyncReturn(c) PROVE DelayTypeOK'
  BY <1>1, <1>14 DEF SyncReturn
<1>15. ASSUME NEW q \in Queues, Start(q) \/ Unplug(q) \/ Worker(q) PROVE DelayTypeOK'
  BY <1>1, <1>15 DEF Start, Unplug, Worker, WorkerTake, WorkerSleep, WorkerDone
<1>16. ASSUME NEW c \in Clients, NEW q \in Queues, NEW plug \in BOOLEAN, Drain(c, q, plug)
       PROVE  DelayTypeOK'
  BY <1>1, <1>16 DEF Drain
<1>17. QED
  BY <1>3, <1>4, <1>5, <1>6, <1>7, <1>8, <1>9, <1>10, <1>11, <1>12, <1>13, <1>14, <1>15,
     <1>16 DEF WNext

LEMMA CoreNext ==
  ASSUME CoreInv, DelayTypeOK, WNext
  PROVE  CoreInv'
<1>0. Delayables \subseteq Works /\ Works \subseteq Items /\ Clients \subseteq Items
      /\ \A c \in Clients : c \notin Works
  BY WorkAssumption DEF Items
<1>t. flags \in [Items -> SUBSET WorkFlags]
  BY DEF CoreInv, CoreTypeOK
<1>1. ASSUME NEW w \in Works, NEW q \in Queues \cup {None}, NEW ctx, Submit(w, q, ctx)
      PROVE  CoreInv'
  BY <1>1, SubmitInv DEF Submit
<1>2. ASSUME NEW w \in Delayables, NEW q \in Queues, NEW forever \in BOOLEAN,
             Schedule(w, q, forever) \/ Reschedule(w, q, forever)
      PROVE  CoreInv'
  <2>1. /\ flags' = [flags EXCEPT ![w] = @ \cup {"DELAYED"}]
        /\ UNCHANGED <<last, pending, worker, qflags, cancels, call, sync, owed>>
    BY <1>2 DEF Schedule, Reschedule, ScheduleLocked, clientVars
  <2>2. /\ flags' \in [Items -> SUBSET WorkFlags]
        /\ \A i \in Items : flags'[i] = IF i = w THEN flags[i] \cup {"DELAYED"} ELSE flags[i]
    BY <2>1, <1>0, <1>t DEF WorkFlags
  <2>3. QED
    BY <2>1, <2>2, <1>0, FlagsOnlyInv
<1>3. ASSUME NEW w \in Delayables, NEW q \in Queues, NEW ctx,
             ScheduleNow(w, q, ctx) \/ RescheduleNow(w, q, ctx)
      PROVE  CoreInv'
  <2>1. CASE ScheduleNow(w, q, ctx)
    BY <2>1, <1>0, SubmitInv DEF ScheduleNow
  <2>2. CASE RescheduleNow(w, q, ctx)
    BY <2>2, <1>0, SubmitInv DEF RescheduleNow
  <2>3. QED
    BY <1>3, <2>1, <2>2
<1>4. ASSUME NEW w \in Delayables, Expire(w) PROVE CoreInv'
  <2>1. UNCHANGED <<flags, last, pending, worker, qflags, cancels, call, sync, owed>>
    BY <1>4 DEF Expire, workVars, clientVars
  <2>2. QED
    BY <2>1, <1>t, FlagsOnlyInv
<1>5. ASSUME WorkTimeout PROVE CoreInv'
  <2>1. firing \in Works /\ target[firing] \in Queues \cup {None}
    BY <1>5 DEF WorkTimeout, DelayTypeOK
  <2>2. CASE "DELAYED" \in flags[firing]
    BY <2>1, <2>2, <1>5, SubmitInv DEF WorkTimeout
  <2>3. CASE "DELAYED" \notin flags[firing]
    <3>1. UNCHANGED <<flags, last, pending, worker, qflags, cancels, call, sync, owed>>
      BY <2>3, <1>5 DEF WorkTimeout, workVars, clientVars
    <3>2. QED
      BY <3>1, <1>t, FlagsOnlyInv
  <2>4. QED
    BY <2>2, <2>3
<1>6. ASSUME NEW w \in Works, Cancel(w) PROVE CoreInv'
  BY <1>6, CancelInv DEF Cancel, JoinsCancels
<1>7. ASSUME NEW c \in Clients, NEW w \in Works, CancelSync(c, w) PROVE CoreInv'
  <2>1. JoinsCancels(w)
    BY <1>7 DEF CancelSync, JoinsCancels
  <2>2. QED
    BY <2>1, <1>7, CancelInv DEF CancelSync
<1>8. ASSUME NEW c \in Clients, NEW w \in Works, Flush(c, w) PROVE CoreInv'
  <2>1. /\ flags' \in [Items -> SUBSET WorkFlags]
        /\ \A i \in Items : i \notin {c, w} => flags'[i] = flags[i]
        /\ flags'[c] = {"FLUSHING"}
        /\ flags'[w] \ {"DELAYED"} = flags[w] \ {"DELAYED"}
    BY <1>8, <1>0, <1>t DEF Flush, WorkFlags
  <2>2. QED
    BY <2>1, <1>8, FlushInv DEF Flush
<1>9. ASSUME NEW c \in Clients, NEW w \in Delayables, FlushDelayed(c, w) PROVE CoreInv'
  BY <1>0, <1>9, FlushDelayedInv
<1>10. ASSUME NEW c \in Clients, NEW w \in Delayables, FlushDelayable(c, w) PROVE CoreInv'
  <2>1. CASE flags[w] \cap {"QUEUED", "RUNNING"} # {}
    <3>1. flags' = [flags EXCEPT ![w] = @ \ {"DELAYED"}, ![c] = {"FLUSHING"}]
      BY <2>1, <1>10 DEF FlushDelayable
    <3>2. /\ flags' \in [Items -> SUBSET WorkFlags]
          /\ \A i \in Items : i \notin {c, w} => flags'[i] = flags[i]
          /\ flags'[c] = {"FLUSHING"}
          /\ flags'[w] \ {"DELAYED"} = flags[w] \ {"DELAYED"}
      BY <3>1, <1>0, <1>t DEF WorkFlags
    <3>3. /\ call[c] = NoCall /\ FlushLocked(c, w)
          /\ UNCHANGED <<last, qflags, cancels>>
      BY <2>1, <1>10 DEF FlushDelayable
    <3>4. QED
      BY <2>1, <3>2, <3>3, <1>0, FlushInv
  <2>2. CASE flags[w] \cap {"QUEUED", "RUNNING"} = {}
    <3>1. /\ flags' = [flags EXCEPT ![w] = @ \ {"DELAYED"}]
          /\ UNCHANGED <<last, pending, worker, qflags, cancels, call, sync, owed>>
      BY <2>2, <1>10 DEF FlushDelayable
    <3>2. /\ flags' \in [Items -> SUBSET WorkFlags]
          /\ \A i \in Items : flags'[i] = IF i = w THEN flags[i] \ {"DELAYED"} ELSE flags[i]
      BY <3>1, <1>0, <1>t DEF WorkFlags
    <3>3. QED
      BY <3>1, <3>2, <1>0, FlagsOnlyInv
  <2>3. QED
    BY <2>1, <2>2
<1>11. ASSUME NEW c \in Clients, SyncReturn(c) PROVE CoreInv'
  BY <1>11, SyncReturnInv
<1>12. ASSUME NEW q \in Queues, Start(q) \/ Unplug(q) \/ Worker(q) PROVE CoreInv'
  BY <1>12, StartInv, UnplugInv, WorkerTakeInv, WorkerSleepInv, WorkerDoneInv DEF Worker
<1>13. ASSUME NEW c \in Clients, NEW q \in Queues, NEW plug \in BOOLEAN, Drain(c, q, plug)
       PROVE  CoreInv'
  BY <1>13, DrainInv
<1>14. QED
  BY <1>0, <1>1, <1>2, <1>3, <1>4, <1>5, <1>6, <1>7, <1>8, <1>9, <1>10, <1>11, <1>12, <1>13
     DEF WNext

LEMMA WorkNextInv == WorkInv /\ [WNext]_vars => WorkInv'
<1> SUFFICES ASSUME WorkInv, [WNext]_vars PROVE WorkInv'
  OBVIOUS
<1>0. CoreInv /\ DelayTypeOK
  BY WorkInvParts
<1>1. CASE WNext
  <2>1. CoreInv' /\ DelayTypeOK'
    BY <1>0, <1>1, CoreNext, DelayTypeNext
  <2>2. QED
    BY <2>1 DEF WorkInv, CoreInv, WTypeOK, CoreTypeOK, DelayTypeOK
<1>2. CASE UNCHANGED vars
  <2>1. UNCHANGED <<flags, last, pending, worker, qflags, cancels, call, sync, owed,
                    armed, firing, target, endless, relinked, skipped>>
    BY <1>2 DEF vars, workVars, delayVars, clientVars
  <2>2. CoreInv'
    BY <2>1, <1>0, FlagsOnlyInv DEF CoreInv, CoreTypeOK
  <2>3. DelayTypeOK'
    BY <2>1, <1>0 DEF DelayTypeOK
  <2>4. QED
    BY <2>2, <2>3 DEF WorkInv, CoreInv, WTypeOK, CoreTypeOK, DelayTypeOK
<1>3. QED
  BY <1>1, <1>2

(* WorkInv, with the types in it, holds always. *)
LEMMA WorkInvariant == WSpec => []WorkInv
<1>1. QED
  BY WorkInitInv, WorkNextInv, PTL DEF WSpec

(* A handler is never run by two queue threads at once, to whatever queue  *)
(* its item is submitted meanwhile (work_queue_main,                       *)
(* submit_to_queue_locked).                                                *)
THEOREM WorkNotReentrant == WSpec => []NotReentrant
<1>1. WorkInv => NotReentrant
  <2> SUFFICES ASSUME WorkInv PROVE NotReentrant
    OBVIOUS
  <2>0. CoreTypeOK /\ RunningOK /\ FlushersOK
    BY WorkInvParts DEF CoreInv
  <2>b. None \notin Items /\ Items = Works \cup Clients
    BY WorkAssumption DEF Items
  <2>1. \A q \in Queues, i \in Items : worker[q].it = i => worker[q].st = "run"
    BY <2>0, <2>b, WorkerFacts
  <2>2. ASSUME NEW i \in Works
        PROVE  /\ \A q, r \in Queues : worker[q].it = i /\ worker[r].it = i => q = r
               /\ "RUNNING" \in flags[i] <=> \E q \in Queues : worker[q].it = i
    BY <2>0 DEF RunningOK
  <2>3. ASSUME NEW i \in Clients
        PROVE  /\ \A q, r \in Queues : worker[q].it = i /\ worker[r].it = i => q = r
               /\ "RUNNING" \in flags[i] <=> \E q \in Queues : worker[q].it = i
    BY <2>0 DEF FlushersOK
  <2>4. QED
    BY <2>1, <2>2, <2>3, <2>b DEF NotReentrant
<1>2. QED
  BY WorkInvariant, <1>1, PTL

(* The node inside an item is in at most one place of one list, and there  *)
(* exactly while the item is QUEUED (queue_submit_locked,                  *)
(* queue_remove_locked).                                                   *)
THEOREM WorkQueuedOnce == WSpec => []QueuedOnce
<1>1. WorkInv => QueuedOnce
  <2> SUFFICES ASSUME WorkInv PROVE QueuedOnce
    OBVIOUS
  <2>0. CoreTypeOK /\ QueuedOK /\ FlushersOK /\ ListsOK
    BY WorkInvParts DEF CoreInv
  <2>1. ASSUME NEW q \in Queues, NEW r \in Queues, NEW j \in 1..Len(pending[q]),
               NEW k \in 1..Len(pending[r]), pending[q][j] = pending[r][k]
        PROVE  q = r /\ j = k
    <3>1. PICK x \in Items : x = pending[q][j]
      BY <2>0 DEF CoreTypeOK
    <3>2. In(pending[q], x) /\ In(pending[r], x)
      BY <2>1, <3>1 DEF In
    <3>3. q = r
      <4>1. CASE x \in Works
        BY <3>2, <4>1, <2>0 DEF QueuedOK
      <4>2. CASE x \in Clients
        BY <3>2, <4>2, <2>0 DEF FlushersOK
      <4>3. QED
        BY <3>1, <4>1, <4>2 DEF Items
    <3>4. QED
      BY <3>3, <2>1, <2>0 DEF ListsOK, NoDup
  <2>2. \A w \in Works : "QUEUED" \in flags[w] <=> \E q \in Queues : In(pending[q], w)
    BY <2>0 DEF QueuedOK
  <2>3. \A w \in Works : "QUEUED" \in flags[w] => In(pending[last[w]], w)
    BY <2>0 DEF QueuedOK
  <2>4. QED
    BY <2>1, <2>2, <2>3 DEF QueuedOnce, In
<1>2. QED
  BY WorkInvariant, <1>1, PTL

(* Nothing is refused as canceling for ever: a thread runs the item, and   *)
(* finalize_cancel_locked() follows the run (cancel_async_locked).         *)
THEOREM WorkCancelingIsRunning == WSpec => []CancelingIsRunning
<1>1. WorkInv => CancelingIsRunning
  BY DEF WorkInv, CancelingOK, CancelingIsRunning
<1>2. QED
  BY WorkInvariant, <1>1, PTL

(* No queue thread sleeps while its list holds work or a drain waits       *)
(* (notify_queue_locked, work_queue_main).                                 *)
THEOREM WorkNoLostNotification == WSpec => []NoSleepOnWork
<1>1. WorkInv => NoSleepOnWork
  BY DEF WorkInv
<1>2. QED
  BY WorkInvariant, <1>1, PTL

(* k_work_flush() returns only after every run that was queued or in       *)
(* progress when it was called, wherever its flusher was linked            *)
(* (queue_flusher_locked).                                                 *)
THEOREM WorkFlushWaitsForRuns == WSpec => []FlushWaitsForRuns
<1>1. WorkInv => FlushWaitsForRuns
  BY DEF WorkInv, OwedOK, FlushWaitsForRuns
<1>2. QED
  BY WorkInvariant, <1>1, PTL

(* A plugged queue that was drained stays empty until it is unplugged      *)
(* (k_work_queue_drain, queue_submit_locked).                              *)
THEOREM WorkPluggedStaysEmpty == WSpec => []PluggedStaysEmpty
<1>1. WorkInv => PluggedStaysEmpty
  BY DEF WorkInv
<1>2. QED
  BY WorkInvariant, <1>1, PTL

(* A k_work_cancel_sync() that waits is released with its item idle but    *)
(* for a new schedule: nothing was queued behind the cancelled run         *)
(* (finalize_cancel_locked, submit_to_queue_locked).                       *)
THEOREM WorkCancelledIsIdle == WSpec => CancelledIsIdle
<1> DEFINE Idle == \A c \in Clients :
             (call[c].op = "cancel" /\ ~sync[c] /\ sync'[c])
               => flags'[call[c].on] \subseteq {"DELAYED"}
<1>1. ASSUME WorkInv, WNext, NEW c \in Clients, call[c].op = "cancel", ~sync[c], sync'[c]
      PROVE  flags'[call[c].on] \subseteq {"DELAYED"}
  <2>0. CoreTypeOK /\ FlushersOK /\ CancelingOK /\ CancelsOK
    BY <1>1, WorkInvParts DEF CoreInv
  <2>1. PICK q \in Queues : WorkerDone(q)
    <3>1. \A d \in Clients : sync' = [sync EXCEPT ![d] = FALSE] => ~sync'[c]
      BY <1>1, <2>0 DEF CoreTypeOK
    <3>2. sync' # sync
      BY <1>1
    <3>3. QED
      BY <1>1, <3>1, <3>2 DEF WNext, Submit, Schedule, Reschedule, ScheduleNow, RescheduleNow,
         Expire, WorkTimeout, Cancel, CancelSync, Flush, FlushDelayed, FlushDelayable,
         FlushLocked, SyncReturn, Start, Drain, Unplug, Worker, WorkerTake, WorkerSleep,
         clientVars
  <2>2. PICK i, done : /\ i = worker[q].it
                       /\ done = IF "CANCELING" \in flags[i] THEN FirstCancel(i) ELSE {}
    OBVIOUS
  <2>3. /\ worker[q].st = "run"
        /\ flags' = [flags EXCEPT ![i] = @ \ {"RUNNING", "FLUSHING", "CANCELING"}]
        /\ sync' = [d \in Clients |-> sync[d] \/ d = i \/ \E k \in done : cancels[k] = d]
    BY <2>1, <2>2 DEF WorkerDone
  <2>4. c # i
    BY <1>1, <2>0, <2>2 DEF FlushersOK, FlusherBusy
  <2>5. \E k \in done : cancels[k] = c
    BY <1>1, <2>3, <2>4
  <2>6. call[c].on = i /\ "CANCELING" \in flags[i]
    BY <2>0, <2>2, <2>5, FirstCancelFacts
  <2>7. i \in Items /\ flags[i] \in SUBSET WorkFlags
    BY <2>0, <2>2, <2>3, WorkerFacts DEF CoreTypeOK
  <2>8. "QUEUED" \notin flags[i]
    <3>1. CASE i \in Works
      BY <3>1, <2>0, <2>6 DEF CancelingOK
    <3>2. CASE i \in Clients
      BY <3>2, <2>0 DEF FlushersOK
    <3>3. QED
      BY <2>7, <3>1, <3>2 DEF Items
  <2>9. QED
    BY <2>0, <2>3, <2>6, <2>7, <2>8 DEF CoreTypeOK, WorkFlags
<1>2. WorkInv /\ [WNext]_vars => [Idle]_vars
  BY <1>1
<1>3. QED
  BY WorkInvariant, <1>2, PTL DEF WSpec, CancelledIsIdle

-----------------------------------------------------------------------------
(* Delayable items on one CPU *)

LEMMA DelaySame ==
  ASSUME DelayOK, \A v \in Works : "DELAYED" \in flags'[v] <=> "DELAYED" \in flags[v],
         UNCHANGED <<armed, firing, endless, relinked, skipped>>
  PROVE  DelayOK'
  BY DEF DelayOK

(* No handler is due, and item w is unscheduled. *)
LEMMA DelayDropped ==
  ASSUME DelayOK, DelayTypeOK, NEW w \in Works, firing = None,
         "DELAYED" \notin flags'[w],
         \A v \in Works : v # w => ("DELAYED" \in flags'[v] <=> "DELAYED" \in flags[v]),
         armed' = Unscheduled(w) \/ armed' = [armed EXCEPT ![w] = FALSE],
         UNCHANGED <<firing, endless, relinked, skipped>>
  PROVE  DelayOK'
<1>1. armed[w] => "DELAYED" \in flags[w]
  BY DEF DelayOK
<1>2. ~armed'[w] /\ \A v \in Works : v # w => armed'[v] = armed[v]
  BY <1>1 DEF Unscheduled, DelayTypeOK
<1>3. None \notin Works
  BY WorkAssumption
<1>4. QED
  BY <1>2, <1>3 DEF DelayOK

LEMMA SubmitDelay ==
  ASSUME CoreTypeOK, NEW w \in Works, NEW q, NEW ctx, NEW drop,
         SubmitLocked(w, q, ctx, drop)
  PROVE  /\ "DELAYED" \in flags'[w] <=> "DELAYED" \in flags[w] /\ "DELAYED" \notin drop
         /\ \A v \in Works : v # w => flags'[v] = flags[v]
<1>1. w \in Items /\ Works \subseteq Items /\ flags \in [Items -> SUBSET WorkFlags]
  BY DEF CoreTypeOK, Items
<1>2. \/ flags' = [flags EXCEPT ![w] = (@ \ drop) \cup {"QUEUED"}]
      \/ flags' = [flags EXCEPT ![w] = @ \ drop]
  BY DEF SubmitLocked
<1>3. QED
  BY <1>1, <1>2

LEMMA DelayNext ==
  ASSUME ~SMP, WorkInv, DelayOK, WNext
  PROVE  DelayOK'
<1>0. CoreTypeOK /\ DelayTypeOK /\ CancelingOK
  BY WorkInvParts DEF CoreInv
<1>b. /\ Delayables \subseteq Works /\ Works \subseteq Items /\ Clients \subseteq Items
      /\ (\A c \in Clients : c \notin Works) /\ None \notin Works
      /\ flags \in [Items -> SUBSET WorkFlags]
  BY <1>0, WorkAssumption DEF Items, CoreTypeOK
<1>1. ASSUME NEW w \in Works, NEW q, NEW ctx, Submit(w, q, ctx) \/ ScheduleNow(w, q, ctx)
      PROVE  DelayOK'
  <2>1. SubmitLocked(w, q, ctx, {}) /\ UNCHANGED <<armed, firing, endless, relinked, skipped>>
    BY <1>1 DEF Submit, ScheduleNow, delayVars
  <2>2. QED
    BY <2>1, <1>0, SubmitDelay, DelaySame
<1>2. ASSUME NEW w \in Delayables, NEW q \in Queues, NEW forever \in BOOLEAN,
             Schedule(w, q, forever) \/ Reschedule(w, q, forever)
      PROVE  DelayOK'
  <2>1. PICK linked : /\ \/ linked = armed /\ flags[w] \subseteq {"RUNNING"}
                         \/ linked = Unscheduled(w)
                      /\ ScheduleLocked(w, q, forever, linked)
                      /\ firing = None /\ firing' = None /\ skipped' = skipped
    BY <1>2 DEF Schedule, Reschedule, NoInterrupt
  <2>2. w \in Works /\ (armed[w] => "DELAYED" \in flags[w])
    BY <1>b DEF DelayOK
  <2>3. /\ linked \in [Works -> BOOLEAN] /\ ~linked[w]
        /\ \A v \in Works : v # w => linked[v] = armed[v]
    BY <2>1, <2>2, <1>0 DEF Unscheduled, DelayTypeOK
  <2>4. /\ flags' = [flags EXCEPT ![w] = @ \cup {"DELAYED"}]
        /\ armed' = [linked EXCEPT ![w] = @ \/ ~forever]
        /\ endless' = [endless EXCEPT ![w] = forever]
        /\ relinked' = (relinked \/ (linked[w] /\ ~forever))
    BY <2>1 DEF ScheduleLocked
  <2>5. /\ "DELAYED" \in flags'[w]
        /\ \A v \in Works : v # w => flags'[v] = flags[v]
    BY <2>2, <2>4, <1>b
  <2>6. /\ armed'[w] \/ endless'[w]
        /\ \A v \in Works : v # w => armed'[v] = armed[v] /\ endless'[v] = endless[v]
    BY <2>2, <2>3, <2>4, <1>0 DEF DelayTypeOK
  <2>7. ~relinked'
    BY <2>3, <2>4 DEF DelayOK
  <2>8. QED
    BY <2>1, <2>5, <2>6, <2>7, <1>b DEF DelayOK
<1>3. ASSUME NEW w \in Delayables, NEW q, NEW ctx, RescheduleNow(w, q, ctx)
      PROVE  DelayOK'
  <2>1. /\ firing = None /\ armed' = Unscheduled(w)
        /\ SubmitLocked(w, q, ctx, {"DELAYED"})
        /\ UNCHANGED <<firing, endless, relinked, skipped>>
    BY <1>3 DEF RescheduleNow, NoInterrupt
  <2>2. /\ "DELAYED" \notin flags'[w]
        /\ \A v \in Works : v # w => flags'[v] = flags[v]
    BY <2>1, <1>0, <1>b, SubmitDelay
  <2>3. QED
    BY <2>1, <2>2, <1>0, <1>b, DelayDropped
<1>4. ASSUME NEW w \in Delayables, Expire(w) PROVE DelayOK'
  <2>1. /\ firing = None /\ armed[w] /\ firing' = w /\ armed' = [armed EXCEPT ![w] = FALSE]
        /\ UNCHANGED <<flags, endless, relinked, skipped>>
    BY <1>4 DEF Expire, workVars
  <2>2. ~armed'[w] /\ \A v \in Works : v # w => armed'[v] = armed[v]
    BY <2>1, <1>0, <1>b DEF DelayTypeOK
  <2>3. QED
    BY <2>1, <2>2, <1>b DEF DelayOK
<1>5. ASSUME WorkTimeout PROVE DelayOK'
  <2>1. /\ firing \in Works /\ firing' = None /\ UNCHANGED <<armed, endless, relinked, skipped>>
        /\ "DELAYED" \in flags[firing] /\ ~armed[firing]
    BY <1>5, <1>0 DEF WorkTimeout, DelayTypeOK, DelayOK
  <2>2. SubmitLocked(firing, target[firing], None, {"DELAYED"})
    BY <2>1, <1>5 DEF WorkTimeout
  <2>3. /\ "DELAYED" \notin flags'[firing]
        /\ \A v \in Works : v # firing => flags'[v] = flags[v]
    BY <2>1, <2>2, <1>0, SubmitDelay
  <2>4. QED
    BY <2>1, <2>3, <1>b DEF DelayOK
<1>6. ASSUME NEW w \in Works, CancelLocked(w), firing = None,
             UNCHANGED <<firing, endless, relinked, skipped>>
      PROVE  DelayOK'
  <2>1. /\ "DELAYED" \notin flags'[w]
        /\ \A v \in Works : v # w => flags'[v] = flags[v]
        /\ armed' = Unscheduled(w)
    BY <1>6, <1>b DEF CancelLocked
  <2>2. QED
    BY <2>1, <1>0, <1>6, DelayDropped
<1>7. ASSUME NEW w \in Works, Cancel(w) PROVE DelayOK'
  BY <1>6, <1>7 DEF Cancel, NoInterrupt
<1>8. ASSUME NEW c \in Clients, NEW w \in Works, CancelSync(c, w) PROVE DelayOK'
  BY <1>6, <1>8 DEF CancelSync, NoInterrupt
<1>9. ASSUME NEW c \in Clients, NEW w \in Works, Flush(c, w) PROVE DelayOK'
  <2>1. /\ \A v \in Works : flags'[v] = flags[v]
        /\ UNCHANGED <<armed, firing, endless, relinked, skipped>>
    BY <1>9, <1>b DEF Flush, delayVars
  <2>2. QED
    BY <2>1, DelaySame
<1>10. ASSUME NEW c \in Clients, NEW w \in Delayables, FlushDelayed(c, w) PROVE DelayOK'
  <2>1. /\ firing = None /\ armed' = [armed EXCEPT ![w] = FALSE]
        /\ flags' = [flags EXCEPT ![w] = (@ \ {"DELAYED"}) \cup {"QUEUED"},
                                  ![c] = {"FLUSHING"}]
        /\ UNCHANGED <<firing, endless, relinked, skipped>>
    BY <1>10 DEF FlushDelayed, NoInterrupt
  <2>2. /\ "DELAYED" \notin flags'[w]
        /\ \A v \in Works : v # w => flags'[v] = flags[v]
    BY <2>1, <1>b
  <2>3. QED
    BY <2>1, <2>2, <1>0, <1>b, DelayDropped
<1>11. ASSUME NEW c \in Clients, NEW w \in Delayables, FlushDelayable(c, w) PROVE DelayOK'
  <2>1. /\ firing = None /\ armed' = Unscheduled(w) /\ flags[w] # {}
        /\ \/ flags' = [flags EXCEPT ![w] = @ \ {"DELAYED"}, ![c] = {"FLUSHING"}]
           \/ flags' = [flags EXCEPT ![w] = @ \ {"DELAYED"}]
        /\ UNCHANGED <<firing, endless, relinked>>
    BY <1>11 DEF FlushDelayable, NoInterrupt
  <2>2. /\ "DELAYED" \notin flags'[w]
        /\ \A v \in Works : v # w => flags'[v] = flags[v]
    BY <2>1, <1>b
  <2>3. skipped' = skipped
    <3>1. "DELAYED" \in flags[w] /\ ~endless[w] => armed[w]
      BY <2>1, <1>b DEF DelayOK
    <3>2. ~("DELAYED" \in flags[w] /\ ~endless[w] /\ Accepted(w, target[w], None))
      BY <3>1, <1>11 DEF FlushDelayable
    <3>3. skipped' = (skipped \/ ("DELAYED" \in flags[w] /\ ~endless[w]
                                    /\ Accepted(w, target[w], None)))
      BY <1>11 DEF FlushDelayable
    <3>4. QED
      BY <3>2, <3>3, <1>0 DEF DelayTypeOK
  <2>4. QED
    BY <2>1, <2>2, <2>3, <1>0, <1>b, DelayDropped
<1>12. ASSUME UNCHANGED <<flags, armed, firing, endless, relinked, skipped>> PROVE DelayOK'
  BY <1>12, DelaySame
<1>13. ASSUME NEW c \in Clients, SyncReturn(c) PROVE DelayOK'
  BY <1>12, <1>13 DEF SyncReturn, workVars, delayVars
<1>14. ASSUME NEW q \in Queues, Start(q) \/ Unplug(q) \/ WorkerSleep(q) PROVE DelayOK'
  BY <1>12, <1>14 DEF Start, Unplug, WorkerSleep, workVars, delayVars
<1>15. ASSUME NEW c \in Clients, NEW q \in Queues, NEW plug \in BOOLEAN, Drain(c, q, plug)
       PROVE  DelayOK'
  BY <1>12, <1>15 DEF Drain, delayVars
<1>16. ASSUME NEW q \in Queues, WorkerTake(q) \/ WorkerDone(q) PROVE DelayOK'
  <2>1. /\ \E i : \/ flags' = [flags EXCEPT ![i] = (@ \cup {"RUNNING"}) \ {"QUEUED"}]
                  \/ flags' = [flags EXCEPT ![i] = @ \ {"RUNNING", "FLUSHING", "CANCELING"}]
        /\ UNCHANGED <<armed, firing, endless, relinked, skipped>>
    BY <1>16 DEF WorkerTake, WorkerDone, delayVars
  <2>2. \A v \in Works : "DELAYED" \in flags'[v] <=> "DELAYED" \in flags[v]
    BY <2>1, <1>b
  <2>3. QED
    BY <2>1, <2>2, DelaySame
<1>17. QED
  BY <1>b, <1>1, <1>2, <1>3, <1>4, <1>5, <1>7, <1>8, <1>9, <1>10, <1>11, <1>13, <1>14, <1>15,
     <1>16 DEF WNext, Worker

LEMMA DelayInvariant ==
  ASSUME ~SMP
  PROVE  WSpec => []DelayOK
<1>1. WInit => DelayOK
  BY WorkAssumption DEF WInit, DelayOK, Items
<1>2. WorkInv /\ DelayOK /\ [WNext]_vars => DelayOK'
  <2>1. ASSUME WorkInv, DelayOK, UNCHANGED vars PROVE DelayOK'
    BY <2>1, DelaySame DEF vars, workVars, delayVars
  <2>2. QED
    BY <2>1, DelayNext
<1>3. QED
  BY WorkInvariant, <1>1, <1>2, PTL DEF WSpec

(* On one CPU k_work_flush_delayable() submits what is scheduled with a    *)
(* delay that ends: with DELAYED set and any delay but K_FOREVER the       *)
(* timeout is linked, unless its handler is about to run.                  *)
THEOREM WorkFlushSubmits ==
  ASSUME ~SMP
  PROVE  WSpec => []FlushSubmitsScheduled
<1>1. DelayOK => FlushSubmitsScheduled
  BY DEF DelayOK, FlushSubmitsScheduled
<1>2. QED
  BY DelayInvariant, <1>1, PTL

(* On one CPU z_add_timeout()'s assertion holds: no item's timeout is      *)
(* started while it is linked (schedule_for_queue_locked).                 *)
THEOREM WorkAddedOnce ==
  ASSUME ~SMP
  PROVE  WSpec => []AddedOnce
<1>1. DelayOK => AddedOnce
  BY DEF DelayOK, AddedOnce
<1>2. QED
  BY DelayInvariant, <1>1, PTL

============================================================================
