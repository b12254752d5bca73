----------------------------- MODULE SchedProofs -----------------------------
(***************************************************************************)
(* Theorems about the two lists of the kernel that are walked and changed  *)
(* under a lock: the timeout list, and the scheduler's run queue.  They    *)
(* share the lemmas on sequences.                                          *)
(*                                                                         *)
(* The timeout list, for every set of timeouts, delays and ticks: the      *)
(* deltas and the compare registers are right on any number of CPUs; that  *)
(* nothing expires early is a theorem for one CPU, as another CPU's        *)
(* announcement is the clock for a thread that adds a timeout meanwhile.   *)
(*                                                                         *)
(* The scheduler, for every set of threads, priorities and CPUs: a thread  *)
(* is in one place, whatever interleaves; who asks for a halt is released; *)
(* on two CPUs, interrupts that spin do not wait for each other.           *)
(***************************************************************************)
EXTENDS Sched, Timeouts, TLAPS, WellFoundedInduction, SequenceTheorems,
        FiniteSetTheorems

(* A set of naturals that is not empty has a least element. *)
LEMMA LeastNatural ==
  ASSUME NEW S \in SUBSET Nat, S # {}
  PROVE  Min(S) \in S /\ \A k \in S : Min(S) =< k
<1>1. \E m \in S : \A k \in S : ~ (<<k, m>> \in OpToRel(<, Nat))
  BY NatLessThanWellFounded, WFMin
<1>2. PICK m \in S : \A k \in S : ~ (<<k, m>> \in OpToRel(<, Nat))
  BY <1>1
<1>3. \A k \in S : m =< k
  <2>1. TAKE k \in S
  <2>2. <<k, m>> \in Nat \X Nat
    OBVIOUS
  <2>3. ~ (k < m)
    BY <1>2, <2>2 DEF OpToRel
  <2>4. QED
    BY <2>3
<1>4. QED
  BY <1>3 DEF Min

LEMMA MaxOfTwo ==
  ASSUME NEW a \in Int, NEW b \in Int
  PROVE  Max({a, b}) = IF a >= b THEN a ELSE b
<1> DEFINE m == IF a >= b THEN a ELSE b
<1>1. m \in {a, b} /\ \A y \in {a, b} : m >= y
  OBVIOUS
<1>2. \A x \in {a, b} : (\A y \in {a, b} : x >= y) => x = m
  OBVIOUS
<1> HIDE DEF m
<1>3. Max({a, b}) = m
  BY <1>1, <1>2 DEF Max
<1>4. QED
  BY <1>3 DEF m

(* r is sq with e inserted at position k. *)
Inserted(r, sq, e, k) ==
  /\ Len(r) = Len(sq) + 1
  /\ \A i \in 1..(k - 1) : r[i] = sq[i]
  /\ r[k] = e
  /\ \A i \in k..Len(sq) : r[i + 1] = sq[i]

LEMMA InsertAtFacts ==
  ASSUME NEW S, NEW sq \in Seq(S), NEW e \in S, NEW k \in 1..(Len(sq) + 1)
  PROVE  InsertAt(sq, k, e) \in Seq(S) /\ Inserted(InsertAt(sq, k, e), sq, e, k)
<1> DEFINE a == SubSeq(sq, 1, k - 1)
           b == SubSeq(sq, k, Len(sq))
<1>0. Len(sq) \in Nat /\ k \in Nat /\ 1 <= k /\ k <= Len(sq) + 1
  OBVIOUS
<1>1. /\ a \in Seq(S) /\ Len(a) = k - 1
      /\ \A i \in 1..(k - 1) : a[i] = sq[i]
  BY <1>0, SubSeqProperties
<1>2. /\ b \in Seq(S) /\ Len(b) = Len(sq) - k + 1
      /\ \A i \in 1..(Len(sq) - k + 1) : b[i] = sq[k + i - 1]
  BY <1>0, SubSeqProperties
<1>3. InsertAt(sq, k, e) = (a \o <<e>>) \o b
  BY DEF InsertAt
<1> HIDE DEF a, b
<1> DEFINE d == a \o <<e>>
<1>4. /\ d \in Seq(S) /\ Len(d) = k
      /\ \A i \in 1..(k - 1) : d[i] = sq[i]
      /\ d[k] = e
  <2>1. /\ <<e>> \in Seq(S) /\ Len(<<e>>) = 1 /\ <<e>>[1] = e
    OBVIOUS
  <2>2. /\ d \in Seq(S)
        /\ Len(d) = Len(a) + Len(<<e>>)
        /\ \A i \in 1..(Len(a) + Len(<<e>>)) :
             d[i] = IF i <= Len(a) THEN a[i] ELSE <<e>>[i - Len(a)]
    BY <1>1, <2>1, ConcatProperties
  <2> HIDE DEF d
  <2>3. Len(d) = k
    BY <1>0, <1>1, <2>1, <2>2
  <2>4. \A i \in 1..(k - 1) : d[i] = sq[i]
    BY <1>0, <1>1, <2>1, <2>2
  <2>5. d[k] = e
    <3>1. k \in 1..(Len(a) + Len(<<e>>)) /\ ~(k <= Len(a)) /\ k - Len(a) = 1
      BY <1>0, <1>1, <2>1
    <3>2. d[k] = <<e>>[k - Len(a)]
      BY <2>2, <3>1
    <3>3. QED
      BY <2>1, <3>1, <3>2
  <2>6. QED
    BY <2>2, <2>3, <2>4, <2>5
<1>5. InsertAt(sq, k, e) = d \o b
  BY <1>3
<1> HIDE DEF d
<1>6. /\ d \o b \in Seq(S)
      /\ Len(d \o b) = Len(d) + Len(b)
      /\ \A i \in 1..(Len(d) + Len(b)) :
           (d \o b)[i] = IF i <= Len(d) THEN d[i] ELSE b[i - Len(d)]
  BY <1>2, <1>4, ConcatProperties
<1>7. \A i \in k..Len(sq) : (d \o b)[i + 1] = sq[i]
  <2>1. TAKE i \in k..Len(sq)
  <2>2. i + 1 \in 1..(Len(d) + Len(b)) /\ ~(i + 1 <= Len(d))
    BY <1>0, <1>2, <1>4
  <2>3. (d \o b)[i + 1] = b[i + 1 - k]
    BY <1>4, <1>6, <2>2
  <2>4. i + 1 - k \in 1..(Len(sq) - k + 1) /\ k + (i + 1 - k) - 1 = i
    BY <1>0
  <2>5. QED
    BY <1>2, <2>3, <2>4
<1>8. \A i \in 1..(k - 1) : (d \o b)[i] = sq[i]
  BY <1>0, <1>2, <1>4, <1>6
<1>9. Len(d \o b) = Len(sq) + 1 /\ (d \o b)[k] = e
  BY <1>0, <1>2, <1>4, <1>6
<1>10. QED
  BY <1>5, <1>6, <1>7, <1>8, <1>9 DEF Inserted

LEMMA RemoveAtFacts ==
  ASSUME NEW S, NEW sq \in Seq(S), NEW k \in 1..Len(sq)
  PROVE  /\ RemoveAt(sq, k) \in Seq(S) /\ Len(RemoveAt(sq, k)) = Len(sq) - 1
         /\ \A i \in 1..(k - 1) : RemoveAt(sq, k)[i] = sq[i]
         /\ \A i \in k..(Len(sq) - 1) : RemoveAt(sq, k)[i] = sq[i + 1]
<1> DEFINE a == SubSeq(sq, 1, k - 1)
           b == SubSeq(sq, k + 1, Len(sq))
<1>0. Len(sq) \in Nat /\ k \in Nat /\ 1 <= k /\ k <= Len(sq)
  OBVIOUS
<1>1. /\ a \in Seq(S) /\ Len(a) = k - 1
      /\ \A i \in 1..(k - 1) : a[i] = sq[i]
  BY <1>0, SubSeqProperties
<1>2. /\ b \in Seq(S) /\ Len(b) = Len(sq) - k
      /\ \A i \in 1..(Len(sq) - k) : b[i] = sq[k + i]
  BY <1>0, SubSeqProperties
<1>3. RemoveAt(sq, k) = a \o b
  BY DEF RemoveAt
<1> HIDE DEF a, b
<1>4. /\ a \o b \in Seq(S)
      /\ Len(a \o b) = Len(a) + Len(b)
      /\ \A i \in 1..(Len(a) + Len(b)) :
           (a \o b)[i] = IF i <= Len(a) THEN a[i] ELSE b[i - Len(a)]
  BY <1>1, <1>2, ConcatProperties
<1>5. \A i \in k..(Len(sq) - 1) : (a \o b)[i] = sq[i + 1]
  BY <1>0, <1>1, <1>2, <1>4
<1>6. \A i \in 1..(k - 1) : (a \o b)[i] = sq[i]
  BY <1>0, <1>1, <1>2, <1>4
<1>7. QED
  BY <1>0, <1>1, <1>2, <1>3, <1>4, <1>5, <1>6

-----------------------------------------------------------------------------
(* The list describes the deadlines: no node is linked twice, and a node's *)
(* delta is the distance from the deadline before it.                      *)
Node == [to : Timeouts, dticks : Nat]

Unique(l) == \A i, j \in 1..Len(l) : l[i].to = l[j].to => i = j

Chained(l, dl, tick) ==
  \A i \in 1..Len(l) :
    dl[l[i].to] = (IF i = 1 THEN tick ELSE dl[l[i - 1].to]) + l[i].dticks

ListOK ==
  /\ list \in Seq(Node)
  /\ currTick \in Int
  /\ deadline \in [Timeouts -> Int]
  /\ Unique(list)
  /\ Chained(list, deadline, currTick)

LEMMA NodeFacts ==
  ASSUME NEW l \in Seq(Node)
  PROVE  /\ Len(l) \in Nat
         /\ \A i \in 1..Len(l) : /\ l[i] \in Node /\ l[i].to \in Timeouts
                                 /\ l[i].dticks \in Nat
<1>1. Len(l) \in Nat /\ \A i \in 1..Len(l) : l[i] \in Node
  OBVIOUS
<1>2. \A n \in Node : n.to \in Timeouts /\ n.dticks \in Nat
  BY DEF Node
<1>3. QED
  BY <1>1, <1>2

(* One step of the sum in timeout_rem(). *)
SumStep(l, f, i) == IF i = 0 THEN 0 ELSE f[i - 1] + l[i].dticks

LEMMA SumExists ==
  ASSUME NEW l, NEW n \in Nat
  PROVE  \E f : f = [i \in 0..n |-> SumStep(l, f, i)]
<1> DEFINE P(k) == \E f : f = [i \in 0..k |-> SumStep(l, f, i)]
           Bad == {k \in Nat : ~P(k)}
<1>1. P(0)
  <2>1. [i \in 0..0 |-> 0] = [i \in 0..0 |-> SumStep(l, [j \in 0..0 |-> 0], i)]
    BY DEF SumStep
  <2>2. QED
    BY <2>1
<1>2. ASSUME NEW k \in Nat, P(k)
      PROVE  P(k + 1)
  <2>1. PICK f : f = [i \in 0..k |-> SumStep(l, f, i)]
    BY <1>2
  <2> DEFINE g == [i \in 0..(k + 1) |-> IF i = k + 1 THEN SumStep(l, f, i) ELSE f[i]]
  <2>2. \A i \in 0..(k + 1) : i # 0 => i - 1 \in 0..k /\ g[i - 1] = f[i - 1]
    OBVIOUS
  <2>3. \A i \in 0..(k + 1) : SumStep(l, g, i) = SumStep(l, f, i)
    <3>1. TAKE i \in 0..(k + 1)
    <3>2. i # 0 => g[i - 1] = f[i - 1]
      BY <2>2
    <3> HIDE DEF g
    <3>3. QED
      BY <3>2 DEF SumStep
  <2>4. \A i \in 0..(k + 1) : g[i] = SumStep(l, f, i)
    <3>1. TAKE i \in 0..(k + 1)
    <3>2. CASE i = k + 1
      BY <3>2
    <3>3. CASE i # k + 1
      <4>1. i \in 0..k
        BY <3>3
      <4>2. f[i] = SumStep(l, f, i)
        BY <2>1, <4>1
      <4>3. QED
        BY <3>3, <4>2
    <3>4. QED
      BY <3>2, <3>3
  <2>5. g = [i \in 0..(k + 1) |-> g[i]]
    OBVIOUS
  <2> HIDE DEF g
  <2>6. g = [i \in 0..(k + 1) |-> SumStep(l, g, i)]
    BY <2>3, <2>4, <2>5
  <2>7. QED
    BY <2>6
<1> HIDE DEF P
<1>3. Bad = {}
  <2>1. SUFFICES ASSUME Bad # {} PROVE FALSE
    OBVIOUS
  <2>2. PICK k \in Bad : \A j \in Bad : k =< j
    <3>1. Bad \in SUBSET Nat
      OBVIOUS
    <3> HIDE DEF Bad
    <3>2. QED
      BY <2>1, <3>1, LeastNatural
  <2>3. k # 0 /\ k \in Nat /\ ~P(k)
    BY <1>1, <2>2
  <2>4. k - 1 \in Nat /\ k - 1 \notin Bad /\ (k - 1) + 1 = k
    BY <2>2, <2>3
  <2>5. P(k - 1)
    BY <2>4
  <2>6. P((k - 1) + 1)
    BY <1>2, <2>4, <2>5
  <2>7. QED
    BY <2>3, <2>4, <2>6
<1>4. QED
  BY <1>3 DEF P

(* timeout_rem() is what is left until the deadline the node was added     *)
(* with.                                                                   *)
LEMMA ThroughFacts ==
  ASSUME ListOK
  PROVE  /\ Through(0) = 0
         /\ \A k \in 1..Len(list) : Through(k) = deadline[list[k].to] - currTick
<1> DEFINE Sum == CHOOSE f : f = [i \in 0..Len(list) |-> SumStep(list, f, i)]
<1>1. \A k : Through(k) = Sum[k]
  BY DEF Through, SumStep
<1>2. Len(list) \in Nat
  BY NodeFacts DEF ListOK
<1>3. Sum = [i \in 0..Len(list) |-> SumStep(list, Sum, i)]
  BY <1>2, SumExists
<1> HIDE DEF Sum
<1>4. \A i \in 0..Len(list) : Sum[i] = SumStep(list, Sum, i)
  BY <1>3
<1>5. Sum[0] = 0
  <2>1. 0 \in 0..Len(list) /\ Sum[0] = SumStep(list, Sum, 0)
    BY <1>2, <1>4
  <2>2. QED
    BY <2>1 DEF SumStep
<1> DEFINE Off(k) == deadline[list[k].to] - currTick
           Bad == {k \in 1..Len(list) : Sum[k] # Off(k)}
<1>6. \A k \in 1..Len(list) :
        /\ deadline[list[k].to] \in Int /\ list[k].dticks \in Nat /\ currTick \in Int
        /\ deadline[list[k].to] =
             (IF k = 1 THEN currTick ELSE deadline[list[k - 1].to]) + list[k].dticks
  BY NodeFacts DEF ListOK, Chained
<1>7. ASSUME NEW k \in 1..Len(list), k # 1 => Sum[k - 1] = Off(k - 1)
      PROVE  Sum[k] = Off(k)
  <2>1. k \in 0..Len(list) /\ k # 0
    BY <1>2
  <2>2. Sum[k] = Sum[k - 1] + list[k].dticks
    BY <1>4, <2>1 DEF SumStep
  <2>3. CASE k = 1
    <3>1. Sum[k] = list[k].dticks /\ deadline[list[k].to] = currTick + list[k].dticks
      BY <1>5, <1>6, <2>2, <2>3
    <3>2. QED
      BY <1>6, <3>1
  <2>4. CASE k # 1
    <3>1. k - 1 \in 1..Len(list)
      BY <1>2, <2>4
    <3>2. /\ Sum[k] = (deadline[list[k - 1].to] - currTick) + list[k].dticks
          /\ deadline[list[k].to] = deadline[list[k - 1].to] + list[k].dticks
      BY <1>6, <1>7, <2>2, <2>4
    <3>3. QED
      BY <1>6, <3>1, <3>2, SMTT(30)
  <2>5. QED
    BY <2>3, <2>4
<1>8. Bad = {}
  <2>1. SUFFICES ASSUME Bad # {} PROVE FALSE
    OBVIOUS
  <2>2. PICK k \in Bad : \A j \in Bad : k =< j
    <3>1. Bad \in SUBSET Nat
      BY <1>2
    <3> HIDE DEF Bad
    <3>2. QED
      BY <2>1, <3>1, LeastNatural
  <2>3. k \in 1..Len(list) /\ Sum[k] # Off(k)
    BY <2>2
  <2>4. k # 1 => k - 1 \in 1..Len(list) /\ k - 1 \notin Bad
    BY <1>2, <2>2, <2>3
  <2>5. k # 1 => Sum[k - 1] = Off(k - 1)
    BY <2>4
  <2> HIDE DEF Off
  <2>6. QED
    BY <1>7, <2>3, <2>5
<1>9. QED
  BY <1>1, <1>5, <1>8

-----------------------------------------------------------------------------
(* The operations on the list. *)

(* Nodes of the list do not notice what the deadline of another becomes. *)
LEMMA OtherDeadlines ==
  ASSUME ListOK, NEW t \in Timeouts, NEW x
  PROVE  \A i \in 1..Len(list) : list[i].to # t =>
           [deadline EXCEPT ![t] = x][list[i].to] = deadline[list[i].to]
BY NodeFacts DEF ListOK

LEMMA InsertPosFacts ==
  ASSUME ListOK, NEW d \in Nat
  PROVE  /\ InsertPos(d) \in 1..(Len(list) + 1)
         /\ InsertPos(d) # Len(list) + 1 => Through(InsertPos(d)) > d
         /\ InsertPos(d) # 1 => Through(InsertPos(d) - 1) <= d
<1> DEFINE S == {i \in 1..Len(list) : Through(i) > d} \cup {Len(list) + 1}
           p == Min(S)
<1>1. Len(list) \in Nat
  BY NodeFacts DEF ListOK
<1>2. InsertPos(d) = p
  BY DEF InsertPos
<1>3. S \in SUBSET Nat /\ S # {}
  BY <1>1
<1>4. p \in S /\ \A k \in S : p =< k
  <2> HIDE DEF S
  <2>1. QED
    BY <1>3, LeastNatural
<1>5. \A k \in 1..Len(list) : Through(k) \in Int
  <2>1. \A k \in 1..Len(list) : deadline[list[k].to] \in Int /\ currTick \in Int
    BY NodeFacts DEF ListOK
  <2>2. QED
    BY <2>1, ThroughFacts
<1> HIDE DEF p
<1>6. p \in 1..(Len(list) + 1) /\ (p # Len(list) + 1 => Through(p) > d)
  BY <1>1, <1>4
<1>7. ASSUME p # 1 PROVE Through(p - 1) <= d
  <2>1. p - 1 \in 1..Len(list) /\ ~(p =< p - 1)
    BY <1>1, <1>6, <1>7
  <2>2. p - 1 \notin S
    BY <1>4, <2>1
  <2>3. ~(Through(p - 1) > d)
    BY <2>1, <2>2
  <2>4. QED
    BY <1>5, <2>1, <2>3
<1>8. QED
  BY <1>2, <1>6, <1>7

(* z_add_timeout() links the node where its deadline belongs and takes its *)
(* share from the next one's delta.                                        *)
LEMMA InsertFacts ==
  ASSUME ListOK, NEW t \in Timeouts, ~Linked(t), NEW d \in Nat
  PROVE  /\ Insert(t, d) \in Seq(Node) /\ Unique(Insert(t, d))
         /\ Chained(Insert(t, d), [deadline EXCEPT ![t] = currTick + d], currTick)
         /\ Insert(t, d) # <<>>
         /\ Insert(t, d)[1].to # t => list # <<>> /\ Insert(t, d)[1] = list[1]
<1>0. /\ list \in Seq(Node) /\ Len(list) \in Nat /\ currTick \in Int
      /\ \A i \in 1..Len(list) :
           /\ list[i] \in Node /\ list[i].to \in Timeouts /\ list[i].dticks \in Nat
           /\ list[i].to # t
           /\ deadline[list[i].to] \in Int
           /\ Through(i) = deadline[list[i].to] - currTick
           /\ deadline[list[i].to] =
                (IF i = 1 THEN currTick ELSE deadline[list[i - 1].to]) + list[i].dticks
  <2>1. list \in Seq(Node) /\ currTick \in Int
    BY DEF ListOK
  <2>2. /\ Len(list) \in Nat
        /\ \A i \in 1..Len(list) :
             list[i] \in Node /\ list[i].to \in Timeouts /\ list[i].dticks \in Nat
    BY <2>1, NodeFacts
  <2>3. \A i \in 1..Len(list) : list[i].to # t /\ deadline[list[i].to] \in Int
    BY <2>2 DEF Linked, ListOK
  <2>4. \A i \in 1..Len(list) : Through(i) = deadline[list[i].to] - currTick
    BY ThroughFacts
  <2>5. \A i \in 1..Len(list) : deadline[list[i].to] =
                (IF i = 1 THEN currTick ELSE deadline[list[i - 1].to]) + list[i].dticks
    BY DEF ListOK, Chained
  <2>6. QED
    BY <2>1, <2>2, <2>3, <2>4, <2>5
<1>1. PICK p \in 1..(Len(list) + 1) : p = InsertPos(d)
  BY InsertPosFacts
<1>2. /\ p # Len(list) + 1 => Through(p) > d
      /\ p # 1 => Through(p - 1) <= d
  BY <1>1, InsertPosFacts
<1> DEFINE rest == [i \in 1..Len(list) |->
                      IF i = p THEN [list[i] EXCEPT !.dticks = Through(p) - d]
                      ELSE list[i]]
           node == [to |-> t, dticks |-> d - Through(p - 1)]
           r == InsertAt(rest, p, node)
<1>3. Insert(t, d) = r
  BY <1>1 DEF Insert
<1>4. \A i \in 1..Len(list) :
        /\ rest[i] \in Node /\ rest[i].to = list[i].to
        /\ rest[i].dticks = IF i = p THEN Through(p) - d ELSE list[i].dticks
        /\ i # p => rest[i] = list[i]
  <2>1. SUFFICES ASSUME NEW i \in 1..Len(list)
        PROVE  /\ rest[i] \in Node /\ rest[i].to = list[i].to
               /\ rest[i].dticks = IF i = p THEN Through(p) - d ELSE list[i].dticks
               /\ i # p => rest[i] = list[i]
    OBVIOUS
  <2>2. CASE i = p
    <3>1. Through(p) \in Int /\ Through(p) > d
      BY <1>0, <1>2, <2>2, SMTT(30)
    <3>2. PICK x \in Nat : x = Through(p) - d
      BY <3>1
    <3>3. rest[i] = [list[i] EXCEPT !.dticks = x] /\ list[i] \in Node
      BY <1>0, <2>2, <3>2
    <3>4. QED
      BY <2>2, <3>2, <3>3 DEF Node
  <2>3. CASE i # p
    BY <1>0, <2>3
  <2>4. QED
    BY <2>2, <2>3
<1>5. rest \in Seq(Node) /\ Len(rest) = Len(list)
  <2>1. rest \in [1..Len(list) -> Node]
    BY <1>4
  <2>2. QED
    BY <1>0, <2>1
<1>6. node \in Node /\ node.to = t /\ node.dticks = d - Through(p - 1)
  <2>1. d - Through(p - 1) \in Nat
    <3>1. CASE p = 1
      BY <3>1, ThroughFacts
    <3>2. CASE p # 1
      <4>1. p - 1 \in 1..Len(list)
        BY <1>0, <3>2
      <4>2. Through(p - 1) \in Int
        BY <1>0, <4>1, SMTT(30)
      <4>3. QED
        BY <1>2, <3>2, <4>2
    <3>3. QED
      BY <3>1, <3>2
  <2>2. QED
    BY <2>1 DEF Node
<1> HIDE DEF rest, node
<1>7. r \in Seq(Node) /\ Inserted(r, rest, node, p)
  BY <1>5, <1>6, InsertAtFacts
<1> HIDE DEF r
<1>8. /\ Len(r) = Len(list) + 1
      /\ \A i \in 1..(p - 1) : r[i] = list[i]
      /\ r[p] = node
      /\ \A i \in p..Len(list) :
           /\ r[i + 1].to = list[i].to
           /\ r[i + 1].dticks = IF i = p THEN Through(p) - d ELSE list[i].dticks
  BY <1>0, <1>4, <1>5, <1>7 DEF Inserted
<1>9. \A i \in 1..Len(r) :
        \/ i < p /\ i \in 1..Len(list) /\ r[i] = list[i]
        \/ i = p /\ r[i].to = t
        \/ i > p /\ i - 1 \in 1..Len(list) /\ r[i].to = list[i - 1].to
  <2>1. TAKE i \in 1..Len(r)
  <2>2. CASE i < p
    BY <1>0, <1>8, <2>2
  <2>3. CASE i = p
    BY <1>6, <1>8, <2>3
  <2>4. CASE i > p
    <3>1. i - 1 \in p..Len(list) /\ i - 1 \in 1..Len(list) /\ (i - 1) + 1 = i
      BY <1>0, <1>8, <2>4
    <3>2. QED
      BY <1>8, <2>4, <3>1
  <2>5. QED
    BY <2>2, <2>3, <2>4
<1>10. Unique(r)
  <2>1. SUFFICES ASSUME NEW i \in 1..Len(r), NEW j \in 1..Len(r), r[i].to = r[j].to
                 PROVE  i = j
    BY DEF Unique
  <2>2. \A m, n \in 1..Len(list) : list[m].to = list[n].to => m = n
    BY DEF ListOK, Unique
  <2>3. CASE i = p \/ j = p
    <3>1. \A m \in 1..Len(r) : m # p => r[m].to # t
      BY <1>0, <1>9, ZenonT(30)
    <3>2. p \in 1..Len(r) /\ r[p].to = t
      BY <1>0, <1>6, <1>8
    <3>3. QED
      BY <2>1, <2>3, <3>1, <3>2
  <2>4. CASE i # p /\ j # p
    <3> DEFINE g(m) == IF m < p THEN m ELSE m - 1
    <3>1. \A m \in 1..Len(r) : m # p =>
            g(m) \in 1..Len(list) /\ r[m].to = list[g(m)].to
      BY <1>9
    <3>2. g(i) \in 1..Len(list) /\ g(j) \in 1..Len(list)
          /\ list[g(i)].to = list[g(j)].to
      BY <2>1, <2>4, <3>1
    <3>3. g(i) = g(j)
      <4> HIDE DEF g
      <4>1. QED
        BY <2>2, <3>2
    <3>4. QED
      BY <1>0, <2>4, <3>3
  <2>5. QED
    BY <2>3, <2>4
<1> DEFINE dl == [deadline EXCEPT ![t] = currTick + d]
<1>11. dl[t] = currTick + d /\ \A i \in 1..Len(list) : dl[list[i].to] = deadline[list[i].to]
  BY <1>0, OtherDeadlines DEF ListOK
<1> HIDE DEF dl
<1>12. Chained(r, dl, currTick)
  <2>1. SUFFICES ASSUME NEW i \in 1..Len(r)
                 PROVE  dl[r[i].to] =
                          (IF i = 1 THEN currTick ELSE dl[r[i - 1].to]) + r[i].dticks
    BY DEF Chained
  <2>2. CASE i < p
    <3>1. i \in 1..Len(list) /\ r[i] = list[i]
      BY <1>9, <2>2
    <3>2. i # 1 => i - 1 \in 1..Len(list) /\ r[i - 1] = list[i - 1]
      <4>1. i # 1 => i - 1 \in 1..(p - 1) /\ i - 1 \in 1..Len(list)
        BY <1>0, <2>2
      <4>2. QED
        BY <1>8, <4>1
    <3>3. QED
      BY <1>0, <1>11, <3>1, <3>2
  <2>3. CASE i = p
    <3>1. r[i].to = t /\ r[i].dticks = d - Through(p - 1)
      BY <1>6, <1>8, <2>3
    <3>2. CASE p = 1
      BY <1>0, <1>11, <2>3, <3>1, <3>2, ThroughFacts
    <3>3. CASE p # 1
      <4>1. p - 1 \in 1..Len(list) /\ p - 1 \in 1..(p - 1)
        BY <1>0, <3>3
      <4>2. dl[r[p - 1].to] = deadline[list[p - 1].to]
        BY <1>8, <1>11, <4>1
      <4>3. Through(p - 1) = deadline[list[p - 1].to] - currTick
            /\ deadline[list[p - 1].to] \in Int
        BY <1>0, <4>1
      <4>4. QED
        BY <1>0, <1>11, <2>3, <3>1, <3>3, <4>2, <4>3
    <3>4. QED
      BY <3>2, <3>3
  <2>4. CASE i > p
    <3>1. i - 1 \in p..Len(list) /\ i - 1 \in 1..Len(list) /\ (i - 1) + 1 = i /\ i # 1
      BY <1>0, <1>8, <2>4
    <3>2. /\ r[i].to = list[i - 1].to
          /\ r[i].dticks = IF i - 1 = p THEN Through(p) - d ELSE list[i - 1].dticks
      BY <1>8, <3>1
    <3>3. CASE i - 1 = p
      <4>1. r[i - 1].to = t
        BY <1>6, <1>8, <3>3
      <4>2. /\ Through(p) = deadline[list[p].to] - currTick
            /\ deadline[list[p].to] \in Int
        BY <1>0, <3>1, <3>3
      <4>3. dl[r[i].to] = deadline[list[p].to] /\ dl[r[i - 1].to] = currTick + d
        BY <1>11, <3>1, <3>2, <3>3, <4>1
      <4>4. QED
        BY <1>0, <3>1, <3>2, <3>3, <4>2, <4>3
    <3>4. CASE i - 1 # p
      <4>1. /\ i - 2 \in p..Len(list) /\ i - 2 \in 1..Len(list) /\ (i - 2) + 1 = i - 1
            /\ (i - 1) - 1 = i - 2 /\ i - 1 # 1
        BY <1>0, <3>1, <3>4
      <4>2. r[i - 1].to = list[i - 2].to
        BY <1>8, <4>1
      <4>3. deadline[list[i - 1].to] = deadline[list[i - 2].to] + list[i - 1].dticks
        BY <1>0, <3>1, <4>1
      <4>4. QED
        BY <1>11, <3>1, <3>2, <3>4, <4>1, <4>2, <4>3
    <3>5. QED
      BY <3>3, <3>4
  <2>5. QED
    BY <2>2, <2>3, <2>4
<1>13. r # <<>>
  <2>1. Len(r) # 0 /\ Len(<<>>) = 0
    BY <1>0, <1>8
  <2>2. QED
    BY <2>1
<1>14. r[1].to # t => list # <<>> /\ r[1] = list[1]
  <2>1. ASSUME r[1].to # t PROVE list # <<>> /\ r[1] = list[1]
    <3>1. p # 1
      BY <1>6, <1>8, <2>1
    <3>2. 1 \in 1..(p - 1) /\ Len(list) # 0
      BY <1>0, <3>1
    <3>3. QED
      BY <1>8, <3>2
  <2>2. QED
    BY <2>1
<1>15. QED
  BY <1>3, <1>7, <1>10, <1>12, <1>13, <1>14 DEF dl

(* remove_timeout(): the next node takes over the delta of the one that    *)
(* goes.                                                                   *)
LEMMA RemoveFacts ==
  ASSUME ListOK, NEW t \in Timeouts, Linked(t)
  PROVE  /\ RemoveTimeout(t) \in Seq(Node) /\ Unique(RemoveTimeout(t))
         /\ Chained(RemoveTimeout(t), [deadline EXCEPT ![t] = 0], currTick)
         /\ RemoveTimeout(t) # <<>> =>
              list # <<>> /\ RemoveTimeout(t)[1].dticks >= list[1].dticks
<1>0. /\ list \in Seq(Node) /\ Len(list) \in Nat /\ currTick \in Int
      /\ \A i \in 1..Len(list) :
           /\ list[i] \in Node /\ list[i].to \in Timeouts /\ list[i].dticks \in Nat
           /\ deadline[list[i].to] \in Int
           /\ deadline[list[i].to] =
                (IF i = 1 THEN currTick ELSE deadline[list[i - 1].to]) + list[i].dticks
  <2>1. list \in Seq(Node) /\ currTick \in Int
    BY DEF ListOK
  <2>2. /\ Len(list) \in Nat
        /\ \A i \in 1..Len(list) :
             list[i] \in Node /\ list[i].to \in Timeouts /\ list[i].dticks \in Nat
    BY <2>1, NodeFacts
  <2>3. \A i \in 1..Len(list) : deadline[list[i].to] \in Int
    BY <2>2 DEF ListOK
  <2>4. \A i \in 1..Len(list) : deadline[list[i].to] =
                (IF i = 1 THEN currTick ELSE deadline[list[i - 1].to]) + list[i].dticks
    BY DEF ListOK, Chained
  <2>5. QED
    BY <2>1, <2>2, <2>3, <2>4
<1>1. PICK p \in 1..Len(list) :
        list[p].to = t /\ p = CHOOSE i \in 1..Len(list) : list[i].to = t
  BY DEF Linked
<1>u. \A m, n \in 1..Len(list) : list[m].to = list[n].to => m = n
  BY DEF ListOK, Unique
<1> DEFINE rest == [i \in 1..Len(list) |->
                      IF i = p + 1
                      THEN [list[i] EXCEPT !.dticks = @ + list[p].dticks]
                      ELSE list[i]]
           r == RemoveAt(rest, p)
<1>2. RemoveTimeout(t) = r
  BY <1>1 DEF RemoveTimeout
<1>3. \A i \in 1..Len(list) :
        /\ rest[i] \in Node /\ rest[i].to = list[i].to
        /\ rest[i].dticks = list[i].dticks + (IF i = p + 1 THEN list[p].dticks ELSE 0)
        /\ i # p + 1 => rest[i] = list[i]
  <2>1. SUFFICES ASSUME NEW i \in 1..Len(list)
        PROVE  /\ rest[i] \in Node /\ rest[i].to = list[i].to
               /\ rest[i].dticks =
                    list[i].dticks + (IF i = p + 1 THEN list[p].dticks ELSE 0)
               /\ i # p + 1 => rest[i] = list[i]
    OBVIOUS
  <2>2. CASE i = p + 1
    <3>1. PICK x \in Nat : x = list[i].dticks + list[p].dticks
      BY <1>0
    <3>2. rest[i] = [list[i] EXCEPT !.dticks = x] /\ list[i] \in Node
      BY <1>0, <2>2, <3>1
    <3>3. QED
      BY <2>2, <3>1, <3>2 DEF Node
  <2>3. CASE i # p + 1
    BY <1>0, <2>3
  <2>4. QED
    BY <2>2, <2>3
<1>4. rest \in Seq(Node) /\ Len(rest) = Len(list)
  <2>1. rest \in [1..Len(list) -> Node]
    BY <1>3
  <2>2. QED
    BY <1>0, <2>1
<1> HIDE DEF rest
<1>5. /\ r \in Seq(Node) /\ Len(r) = Len(rest) - 1
      /\ \A i \in 1..(p - 1) : r[i] = rest[i]
      /\ \A i \in p..(Len(rest) - 1) : r[i] = rest[i + 1]
  BY <1>4, RemoveAtFacts
<1> HIDE DEF r
<1>6. /\ Len(r) = Len(list) - 1
      /\ \A i \in 1..(p - 1) : i \in 1..Len(list) /\ r[i] = list[i]
      /\ \A i \in p..(Len(list) - 1) :
           /\ i + 1 \in 1..Len(list)
           /\ r[i].to = list[i + 1].to
           /\ r[i].dticks = list[i + 1].dticks + (IF i = p THEN list[p].dticks ELSE 0)
  <2>1. \A i \in 1..(p - 1) : i \in 1..Len(list) /\ i # p + 1 /\ r[i] = list[i]
    BY <1>0, <1>3, <1>4, <1>5
  <2>2. \A i \in p..(Len(list) - 1) : i + 1 \in 1..Len(list) /\ r[i] = rest[i + 1]
    BY <1>0, <1>4, <1>5
  <2>3. QED
    BY <1>0, <1>3, <1>4, <1>5, <2>1, <2>2
<1> DEFINE g(m) == IF m < p THEN m ELSE m + 1
<1>7. \A m \in 1..Len(r) : g(m) \in 1..Len(list) /\ g(m) # p /\ r[m].to = list[g(m)].to
  <2>1. TAKE m \in 1..Len(r)
  <2>2. CASE m < p
    <3>1. m \in 1..(p - 1)
      BY <2>2
    <3>2. QED
      BY <1>6, <2>2, <3>1
  <2>3. CASE m >= p
    <3>1. m \in p..(Len(list) - 1)
      BY <1>0, <1>6, <2>3
    <3>2. QED
      BY <1>6, <2>3, <3>1
  <2>4. QED
    BY <2>2, <2>3
<1>8. \A i, j \in 1..Len(r) : g(i) = g(j) => i = j
  BY <1>0, <1>6
<1>9. Unique(r)
  <2> HIDE DEF g
  <2>1. QED
    BY <1>7, <1>8, <1>u DEF Unique
<1> DEFINE dl == [deadline EXCEPT ![t] = 0]
<1>10. \A i \in 1..Len(list) : i # p => dl[list[i].to] = deadline[list[i].to]
  BY <1>1, <1>u, OtherDeadlines
<1> HIDE DEF dl
<1>11. Chained(r, dl, currTick)
  <2>1. SUFFICES ASSUME NEW i \in 1..Len(r)
                 PROVE  dl[r[i].to] =
                          (IF i = 1 THEN currTick ELSE dl[r[i - 1].to]) + r[i].dticks
    BY DEF Chained
  <2>2. CASE i < p
    <3>1. i \in 1..Len(list) /\ i # p /\ r[i] = list[i]
      BY <1>6, <2>2
    <3>2. i # 1 => /\ i - 1 \in 1..Len(list) /\ i - 1 # p
                   /\ r[i - 1] = list[i - 1]
      BY <1>0, <1>6, <2>2
    <3>3. QED
      BY <1>0, <1>10, <3>1, <3>2
  <2>3. CASE i = p
    <3>1. /\ i + 1 \in 1..Len(list) /\ i + 1 # p /\ i + 1 # 1 /\ (i + 1) - 1 = i
          /\ r[i].to = list[i + 1].to
          /\ r[i].dticks = list[i + 1].dticks + list[p].dticks
      BY <1>0, <1>6, <2>3
    <3>2. /\ dl[r[i].to] = deadline[list[i + 1].to]
          /\ deadline[list[i + 1].to] = deadline[list[p].to] + list[i + 1].dticks
      BY <1>0, <1>10, <2>3, <3>1
    <3>3. /\ list[i + 1].dticks \in Nat /\ list[p].dticks \in Nat
          /\ deadline[list[p].to] \in Int
      BY <1>0, <3>1
    <3>4. CASE i = 1
      <4>1. deadline[list[p].to] = currTick + list[p].dticks
        BY <1>0, <2>3, <3>4
      <4>2. dl[r[i].to] = (currTick + list[p].dticks) + list[i + 1].dticks
        BY <3>2, <4>1
      <4>3. currTick \in Int
        BY <1>0
      <4>4. QED
        BY <3>1, <3>3, <3>4, <4>2, <4>3
    <3>5. CASE i # 1
      <4>1. i - 1 \in 1..(p - 1) /\ i - 1 \in 1..Len(list) /\ i - 1 # p
        BY <1>0, <2>3, <3>5
      <4>2. dl[r[i - 1].to] = deadline[list[i - 1].to]
        BY <1>6, <1>10, <4>1
      <4>3. deadline[list[p].to] = deadline[list[i - 1].to] + list[p].dticks
            /\ deadline[list[i - 1].to] \in Int
        BY <1>0, <2>3, <3>5, <4>1
      <4>4. QED
        BY <1>0, <3>1, <3>2, <3>3, <3>5, <4>2, <4>3, SMTT(30)
    <3>6. QED
      BY <3>4, <3>5
  <2>4. CASE i > p
    <3>1. /\ i + 1 \in 1..Len(list) /\ i + 1 # p /\ i + 1 # 1 /\ (i + 1) - 1 = i
          /\ i \in 1..Len(list) /\ i # p /\ i # 1
          /\ r[i].to = list[i + 1].to /\ r[i].dticks = list[i + 1].dticks
      BY <1>0, <1>6, <2>4
    <3>2. i - 1 \in p..(Len(list) - 1) /\ (i - 1) + 1 = i
      BY <1>0, <1>6, <2>4
    <3>3. r[i - 1].to = list[i].to
      BY <1>6, <3>2
    <3>4. deadline[list[i + 1].to] = deadline[list[i].to] + list[i + 1].dticks
      BY <1>0, <3>1
    <3>5. QED
      BY <1>10, <3>1, <3>3, <3>4
  <2>5. QED
    BY <2>2, <2>3, <2>4
<1>12. ASSUME r # <<>> PROVE list # <<>> /\ r[1].dticks >= list[1].dticks
  <2>1. 1 \in 1..Len(r) /\ Len(list) # 0
    BY <1>0, <1>5, <1>6, <1>12
  <2>2. CASE p = 1
    <3>1. r[1].dticks = list[2].dticks + list[1].dticks /\ 2 \in 1..Len(list)
      BY <1>0, <1>6, <2>1, <2>2
    <3>2. list[2].dticks \in Nat /\ list[1].dticks \in Nat
      BY <1>0, <3>1
    <3>3. QED
      BY <2>1, <3>1, <3>2
  <2>3. CASE p # 1
    <3>1. 1 \in 1..(p - 1) /\ r[1] = list[1] /\ list[1].dticks \in Nat
      BY <1>0, <1>6, <2>3
    <3>2. QED
      BY <2>1, <3>1
  <2>4. QED
    BY <2>2, <2>3
<1>13. QED
  BY <1>2, <1>5, <1>9, <1>11, <1>12 DEF dl

(* sys_clock_announce() takes the first node and moves curr_tick to its    *)
(* deadline.                                                               *)
LEMMA PopFacts ==
  ASSUME ListOK, list # <<>>
  PROVE  /\ list[1].to \in Timeouts /\ list[1].dticks \in Nat
         /\ currTick + list[1].dticks = deadline[list[1].to]
         /\ Tail(list) \in Seq(Node) /\ Unique(Tail(list))
         /\ Chained(Tail(list), [deadline EXCEPT ![list[1].to] = 0],
                    currTick + list[1].dticks)
<1>0. /\ list \in Seq(Node) /\ Len(list) \in Nat /\ Len(list) # 0 /\ currTick \in Int
      /\ \A i \in 1..Len(list) :
           list[i] \in Node /\ list[i].to \in Timeouts /\ list[i].dticks \in Nat
      /\ \A i \in 1..Len(list) :
           deadline[list[i].to] =
             (IF i = 1 THEN currTick ELSE deadline[list[i - 1].to]) + list[i].dticks
      /\ \A m, n \in 1..Len(list) : list[m].to = list[n].to => m = n
  <2>1. list \in Seq(Node) /\ currTick \in Int
    BY DEF ListOK
  <2>2. Len(list) # 0
    BY <2>1
  <2>3. QED
    BY <2>1, <2>2, NodeFacts DEF ListOK, Chained, Unique
<1>1. /\ Tail(list) \in Seq(Node) /\ Len(Tail(list)) = Len(list) - 1
      /\ \A i \in 1..(Len(list) - 1) : Tail(list)[i] = list[i + 1]
  BY <1>0
<1>2. 1 \in 1..Len(list)
  BY <1>0
<1> DEFINE r == Tail(list)
           dl == [deadline EXCEPT ![list[1].to] = 0]
<1>3. /\ r \in Seq(Node) /\ Len(r) = Len(list) - 1
      /\ \A i \in 1..Len(r) : /\ i + 1 \in 1..Len(list) /\ i + 1 # 1 /\ (i + 1) - 1 = i
                              /\ i \in 1..Len(list) /\ r[i] = list[i + 1]
  BY <1>0, <1>1
<1>4. \A i \in 1..Len(list) : i # 1 => dl[list[i].to] = deadline[list[i].to]
  BY <1>0, <1>2, OtherDeadlines
<1> HIDE DEF r, dl
<1>5. Unique(r)
  <2>1. SUFFICES ASSUME NEW i \in 1..Len(r), NEW j \in 1..Len(r), r[i].to = r[j].to
                 PROVE  i = j
    BY DEF Unique
  <2>2. i + 1 = j + 1
    <3>1. PICK m \in 1..Len(list) : m = i + 1 /\ r[i] = list[m]
      BY <1>3
    <3>2. PICK n \in 1..Len(list) : n = j + 1 /\ r[j] = list[n]
      BY <1>3
    <3>3. m = n
      BY <1>0, <2>1, <3>1, <3>2
    <3>4. QED
      BY <3>1, <3>2, <3>3
  <2>3. QED
    BY <2>2
<1>6. currTick + list[1].dticks = deadline[list[1].to]
  BY <1>0, <1>2
<1>7. Chained(r, dl, currTick + list[1].dticks)
  <2>1. SUFFICES ASSUME NEW i \in 1..Len(r)
                 PROVE  dl[r[i].to] = (IF i = 1 THEN currTick + list[1].dticks
                                       ELSE dl[r[i - 1].to]) + r[i].dticks
    BY DEF Chained
  <2>2. /\ dl[r[i].to] = deadline[list[i + 1].to]
        /\ deadline[list[i + 1].to] = deadline[list[i].to] + r[i].dticks
    <3>1. PICK m \in 1..Len(list) : m = i + 1 /\ m # 1 /\ m - 1 = i /\ r[i] = list[m]
      BY <1>3
    <3>2. deadline[list[m].to] = deadline[list[m - 1].to] + list[m].dticks
      BY <1>0, <3>1
    <3>3. dl[list[m].to] = deadline[list[m].to]
      BY <1>4, <3>1
    <3>4. QED
      BY <3>1, <3>2, <3>3
  <2>3. CASE i = 1
    BY <1>6, <2>2, <2>3
  <2>4. CASE i # 1
    <3>1. i - 1 \in 1..Len(r) /\ (i - 1) + 1 = i
      BY <1>0, <1>3, <2>4
    <3>2. dl[r[i - 1].to] = deadline[list[i].to]
      BY <1>3, <1>4, <2>4, <3>1
    <3>3. QED
      BY <2>2, <2>4, <3>2
  <2>5. QED
    BY <2>3, <2>4
<1>8. QED
  BY <1>0, <1>2, <1>3, <1>5, <1>6, <1>7 DEF r, dl

(* The end of an announcement: the ticks that reach no deadline come off   *)
(* the first delta.                                                        *)
LEMMA TrimFacts ==
  ASSUME ListOK, list # <<>>, NEW rem \in Int, ~(list[1].dticks <= rem)
  PROVE  /\ [list EXCEPT ![1].dticks = @ - rem] \in Seq(Node)
         /\ Unique([list EXCEPT ![1].dticks = @ - rem])
         /\ Chained([list EXCEPT ![1].dticks = @ - rem], deadline, currTick + rem)
<1>0. /\ list \in Seq(Node) /\ Len(list) \in Nat /\ Len(list) # 0 /\ currTick \in Int
      /\ \A i \in 1..Len(list) :
           list[i] \in Node /\ list[i].to \in Timeouts /\ list[i].dticks \in Nat
      /\ \A i \in 1..Len(list) :
           deadline[list[i].to] =
             (IF i = 1 THEN currTick ELSE deadline[list[i - 1].to]) + list[i].dticks
      /\ \A m, n \in 1..Len(list) : list[m].to = list[n].to => m = n
  <2>1. list \in Seq(Node) /\ currTick \in Int
    BY DEF ListOK
  <2>2. Len(list) # 0
    BY <2>1
  <2>3. QED
    BY <2>1, <2>2, NodeFacts DEF ListOK, Chained, Unique
<1>1. 1 \in 1..Len(list)
  BY <1>0
<1>2. PICK x \in Nat : x = list[1].dticks - rem
  BY <1>0, <1>1
<1>3. PICK n \in Node : n = [list[1] EXCEPT !.dticks = x]
  BY <1>0, <1>1 DEF Node
<1>4. n.to = list[1].to /\ n.dticks = x
  BY <1>0, <1>1, <1>3 DEF Node
<1> DEFINE r == [list EXCEPT ![1].dticks = @ - rem]
<1>5. r = [list EXCEPT ![1] = n]
  BY <1>2, <1>3
<1> HIDE DEF r
<1>6. /\ r \in Seq(Node) /\ Len(r) = Len(list) /\ r[1] = n
      /\ \A i \in 1..Len(list) : i # 1 => r[i] = list[i]
  BY <1>0, <1>1, <1>5
<1>7. \A i \in 1..Len(list) : r[i].to = list[i].to
  BY <1>4, <1>6
<1>8. Unique(r)
  BY <1>0, <1>6, <1>7 DEF Unique
<1>9. Chained(r, deadline, currTick + rem)
  <2>1. SUFFICES ASSUME NEW i \in 1..Len(list)
                 PROVE  deadline[r[i].to] = (IF i = 1 THEN currTick + rem
                                             ELSE deadline[r[i - 1].to]) + r[i].dticks
    BY <1>6 DEF Chained
  <2>2. CASE i = 1
    <3>1. deadline[r[i].to] = currTick + list[1].dticks /\ r[i].dticks = x
      BY <1>0, <1>4, <1>6, <1>7, <2>2
    <3>2. list[1].dticks \in Nat /\ currTick \in Int
      BY <1>0, <1>1
    <3>3. QED
      BY <1>2, <2>2, <3>1, <3>2
  <2>3. CASE i # 1
    <3>1. i - 1 \in 1..Len(list)
      BY <1>0, <2>3
    <3>2. QED
      BY <1>0, <1>6, <1>7, <2>3, <3>1
  <2>4. QED
    BY <2>2, <2>3
<1>10. QED
  BY <1>6, <1>8, <1>9 DEF r

-----------------------------------------------------------------------------
(* The invariant on any number of CPUs. *)
ClockOK ==
  /\ now \in Nat /\ lastTick \in Nat /\ lastTick <= now
  /\ remaining \in Int
  /\ compare \in [Cpus -> Int]
  /\ isr \in [Cpus -> [pc : {"out", "announce", "handler"}, ticks : Nat,
                       to : SUBSET Timeouts]]

(* Announced ticks that are not processed are somebody's to process: a CPU *)
(* that leaves its ticks in announce_remaining leaves them to a CPU that   *)
(* is in a handler, and programs its own timer when it is done.            *)
RemainingHandled == remaining # 0 => \E c \in Cpus : isr[c].pc = "handler"

TimeoutInv == ListOK /\ ClockOK /\ RemainingHandled /\ WakeupProgrammed

(* The head's deadline, as a compare value. *)
LEMMA HeadCompare ==
  ASSUME ClockOK, NEW l \in Seq(Node), l # <<>>
  PROVE  /\ l[1].dticks \in Nat /\ CompareFor(l) \in Int
         /\ CompareFor(l) = Max({now, lastTick + l[1].dticks})
         /\ CompareFor(l) >= now /\ CompareFor(l) >= lastTick + l[1].dticks
<1>1. 1 \in 1..Len(l)
  OBVIOUS
<1>2. l[1].dticks \in Nat
  BY <1>1, NodeFacts
<1>3. PICK a \in Int : a = now
  BY DEF ClockOK
<1>4. PICK b \in Int : b = lastTick + l[1].dticks
  BY <1>2 DEF ClockOK
<1>5. Max({a, b}) = IF a >= b THEN a ELSE b
  BY MaxOfTwo
<1>6. CompareFor(l) = Max({a, b})
  BY <1>3, <1>4 DEF CompareFor
<1>7. QED
  BY <1>2, <1>3, <1>4, <1>5, <1>6

LEMMA CompareIsInt ==
  ASSUME ClockOK, NEW l \in Seq(Node)
  PROVE  CompareFor(l) \in Int
<1>1. CASE l = <<>>
  BY <1>1, TimeoutsAssumption DEF CompareFor, Masked
<1>2. CASE l # <<>>
  BY <1>2, HeadCompare
<1>3. QED
  BY <1>1, <1>2

LEMMA AddTimeoutInv ==
  ASSUME TimeoutInv, NEW c \in Cpus, NEW t \in Timeouts, NEW d \in Nat, NEW dueAt,
         AddTimeout(c, t, d, dueAt)
  PROVE  TimeoutInv'
<1>0. ListOK /\ ClockOK /\ RemainingHandled /\ WakeupProgrammed
  BY DEF TimeoutInv
<1>1. /\ ~Linked(t) /\ list' = Insert(t, d) /\ Program(c, t)
      /\ deadline' = [deadline EXCEPT ![t] = currTick + d]
      /\ UNCHANGED <<now, lastTick, isr, currTick, remaining>>
  BY DEF AddTimeout
<1>2. /\ list' \in Seq(Node) /\ Unique(list') /\ Chained(list', deadline', currTick)
      /\ list' # <<>>
      /\ list'[1].to # t => list # <<>> /\ list'[1] = list[1]
  BY <1>0, <1>1, InsertFacts
<1>3. ListOK'
  BY <1>0, <1>1, <1>2 DEF ListOK
<1>4. CompareFor(list') \in Int
  BY <1>0, <1>2, CompareIsInt
<1>5. ClockOK'
  BY <1>0, <1>1, <1>4 DEF ClockOK, Program
<1>6. RemainingHandled'
  BY <1>0, <1>1 DEF RemainingHandled
<1>7. WakeupProgrammed'
  <2>1. SUFFICES ASSUME \A k \in Cpus : isr[k].pc = "out"
                 PROVE  \E k \in Cpus :
                          compare'[k] <= Max({now, lastTick + list'[1].dticks})
    BY <1>1 DEF WakeupProgrammed
  <2>2. remaining = 0
    BY <1>0, <2>1 DEF RemainingHandled
  <2>3. CASE list'[1].to = t
    <3>1. compare'[c] = CompareFor(list')
      BY <1>0, <1>1, <2>2, <2>3 DEF Program, ClockOK
    <3>2. CompareFor(list') = Max({now, lastTick + list'[1].dticks})
      BY <1>0, <1>2, HeadCompare
    <3>3. QED
      BY <1>4, <3>1, <3>2
  <2>4. CASE list'[1].to # t
    <3>1. compare' = compare /\ list # <<>> /\ list'[1] = list[1]
      BY <1>1, <1>2, <2>4 DEF Program
    <3>2. QED
      BY <1>0, <2>1, <3>1 DEF WakeupProgrammed
  <2>5. QED
    BY <2>3, <2>4
<1>8. QED
  BY <1>3, <1>5, <1>6, <1>7 DEF TimeoutInv

LEMMA DticksFacts ==
  ASSUME ListOK, ClockOK
  PROVE  /\ Elapsed \in Nat
         /\ \A ticks \in Delays : ticks \in Nat /\ DticksRel(ticks) \in Nat
         /\ \A tick \in AbsTicks : /\ tick \in Nat /\ DticksAbs(tick) \in Nat
                                   /\ currTick + DticksAbs(tick) >= tick
<1>1. Elapsed \in Nat
  BY DEF ClockOK, Elapsed
<1>2. \A ticks \in Delays : ticks \in Nat /\ DticksRel(ticks) \in Nat
  BY <1>1, TimeoutsAssumption DEF DticksRel
<1>3. ASSUME NEW tick \in AbsTicks
      PROVE  /\ tick \in Nat /\ DticksAbs(tick) \in Nat
             /\ currTick + DticksAbs(tick) >= tick
  <2>1. tick \in Nat /\ currTick \in Int
    BY TimeoutsAssumption DEF ListOK
  <2>2. PICK x \in Int : x = tick - currTick
    BY <2>1
  <2>3. Max({1, x}) = IF 1 >= x THEN 1 ELSE x
    BY MaxOfTwo
  <2>4. DticksAbs(tick) = IF 1 >= x THEN 1 ELSE x
    BY <2>2, <2>3 DEF DticksAbs
  <2>5. QED
    BY <2>1, <2>2, <2>4
<1>4. QED
  BY <1>1, <1>2, <1>3

LEMMA AbortTimeoutInv ==
  ASSUME TimeoutInv, NEW c \in Cpus, NEW t \in Timeouts, AbortTimeout(c, t)
  PROVE  TimeoutInv'
<1>0. ListOK /\ ClockOK /\ RemainingHandled /\ WakeupProgrammed
  BY DEF TimeoutInv
<1>1. /\ Linked(t) /\ list' = RemoveTimeout(t)
      /\ deadline' = [deadline EXCEPT ![t] = 0]
      /\ UNCHANGED <<now, lastTick, compare, isr, currTick, remaining>>
  BY DEF AbortTimeout, Forget
<1>2. /\ list' \in Seq(Node) /\ Unique(list') /\ Chained(list', deadline', currTick)
      /\ list' # <<>> => list # <<>> /\ list'[1].dticks >= list[1].dticks
  BY <1>0, <1>1, RemoveFacts
<1>3. ListOK'
  BY <1>0, <1>1, <1>2 DEF ListOK
<1>4. ClockOK' /\ RemainingHandled'
  BY <1>0, <1>1 DEF ClockOK, RemainingHandled
<1>5. WakeupProgrammed'
  <2>1. SUFFICES ASSUME list' # <<>>, \A k \in Cpus : isr[k].pc = "out"
                 PROVE  \E k \in Cpus :
                          compare[k] <= Max({now, lastTick + list'[1].dticks})
    BY <1>1 DEF WakeupProgrammed
  <2>2. PICK k \in Cpus : compare[k] <= Max({now, lastTick + list[1].dticks})
    BY <1>0, <1>2, <2>1 DEF WakeupProgrammed
  <2>3. PICK e \in Nat : e = list[1].dticks
    BY <1>0, <1>2, <2>1, HeadCompare DEF ListOK
  <2>4. PICK f \in Nat : f = list'[1].dticks
    BY <1>0, <1>2, <2>1, HeadCompare
  <2>5. now \in Int /\ lastTick \in Int /\ compare[k] \in Int /\ f >= e
    BY <1>0, <1>2, <2>1, <2>3, <2>4 DEF ClockOK
  <2>6. /\ Max({now, lastTick + e}) = IF now >= lastTick + e THEN now ELSE lastTick + e
        /\ Max({now, lastTick + f}) = IF now >= lastTick + f THEN now ELSE lastTick + f
    BY <2>5, MaxOfTwo
  <2>7. QED
    BY <2>2, <2>3, <2>4, <2>5, <2>6
<1>6. QED
  BY <1>3, <1>4, <1>5 DEF TimeoutInv

LEMMA TickInv ==
  ASSUME TimeoutInv, Tick
  PROVE  TimeoutInv'
<1>0. ListOK /\ ClockOK /\ RemainingHandled /\ WakeupProgrammed
  BY DEF TimeoutInv
<1>1. /\ now' = now + 1
      /\ UNCHANGED <<lastTick, compare, isr, list, currTick, remaining, deadline>>
  BY DEF Tick
<1>2. ListOK' /\ ClockOK' /\ RemainingHandled'
  BY <1>0, <1>1 DEF ListOK, ClockOK, RemainingHandled
<1>3. WakeupProgrammed'
  <2>1. SUFFICES ASSUME list # <<>>, \A k \in Cpus : isr[k].pc = "out"
                 PROVE  \E k \in Cpus :
                          compare[k] <= Max({now + 1, lastTick + list[1].dticks})
    BY <1>1 DEF WakeupProgrammed
  <2>2. PICK k \in Cpus : compare[k] <= Max({now, lastTick + list[1].dticks})
    BY <1>0, <2>1 DEF WakeupProgrammed
  <2>3. PICK e \in Nat : e = list[1].dticks
    BY <1>0, <2>1, HeadCompare DEF ListOK
  <2>4. now \in Int /\ lastTick \in Int /\ compare[k] \in Int
    BY <1>0 DEF ClockOK
  <2>5. /\ Max({now, lastTick + e}) = IF now >= lastTick + e THEN now ELSE lastTick + e
        /\ Max({now + 1, lastTick + e}) =
             IF now + 1 >= lastTick + e THEN now + 1 ELSE lastTick + e
    BY <2>4, MaxOfTwo
  <2>6. QED
    BY <2>2, <2>3, <2>4, <2>5
<1>4. QED
  BY <1>2, <1>3 DEF TimeoutInv

LEMMA TimerIsrInv ==
  ASSUME TimeoutInv, NEW c \in Cpus, TimerIsr(c)
  PROVE  TimeoutInv'
<1>0. ListOK /\ ClockOK /\ RemainingHandled /\ WakeupProgrammed
  BY DEF TimeoutInv
<1>1. /\ isr[c].pc = "out"
      /\ isr' = [isr EXCEPT ![c] = [pc |-> "announce", ticks |-> now - lastTick,
                                    to |-> {}]]
      /\ lastTick' = now
      /\ compare' = [compare EXCEPT ![c] = Masked]
      /\ UNCHANGED <<now, list, currTick, remaining, deadline>>
  BY DEF TimerIsr
<1>2. isr'[c].pc = "announce" /\ \A k \in Cpus : k # c => isr'[k] = isr[k]
  BY <1>0, <1>1 DEF ClockOK
<1>3. ListOK'
  BY <1>0, <1>1 DEF ListOK
<1>4. ClockOK'
  <2>1. now - lastTick \in Nat /\ Masked \in Int
    BY <1>0, TimeoutsAssumption DEF ClockOK, Masked
  <2>2. [pc |-> "announce", ticks |-> now - lastTick, to |-> {}]
          \in [pc : {"out", "announce", "handler"}, ticks : Nat, to : SUBSET Timeouts]
    BY <2>1
  <2>3. QED
    BY <1>0, <1>1, <2>1, <2>2 DEF ClockOK
<1>5. RemainingHandled'
  BY <1>0, <1>1, <1>2 DEF RemainingHandled
<1>6. WakeupProgrammed'
  BY <1>2 DEF WakeupProgrammed
<1>7. QED
  BY <1>3, <1>4, <1>5, <1>6 DEF TimeoutInv

LEMMA AnnounceLoopInv ==
  ASSUME TimeoutInv, NEW c \in Cpus, NEW rem \in Int, AnnounceLoop(c, rem),
         UNCHANGED <<now, lastTick>>
  PROVE  TimeoutInv'
<1>0. ListOK /\ ClockOK
  BY DEF TimeoutInv
<1>1. CASE list # <<>> /\ list[1].dticks <= rem
  <2>1. /\ currTick' = currTick + list[1].dticks
        /\ list' = Tail(list)
        /\ deadline' = [deadline EXCEPT ![list[1].to] = 0]
        /\ remaining' = rem
        /\ isr' = [isr EXCEPT ![c] = [pc |-> "handler", ticks |-> list[1].dticks,
                                      to |-> {list[1].to}]]
        /\ compare' = compare
    BY <1>1 DEF AnnounceLoop, Forget
  <2>2. /\ list[1].to \in Timeouts /\ list[1].dticks \in Nat
        /\ list' \in Seq(Node) /\ Unique(list')
        /\ Chained(list', deadline', currTick')
    BY <1>0, <1>1, <2>1, PopFacts
  <2>3. ListOK'
    BY <1>0, <2>1, <2>2 DEF ListOK
  <2>4. ClockOK'
    <3>1. [pc |-> "handler", ticks |-> list[1].dticks, to |-> {list[1].to}]
            \in [pc : {"out", "announce", "handler"}, ticks : Nat, to : SUBSET Timeouts]
      BY <2>2
    <3>2. QED
      BY <1>0, <2>1, <3>1 DEF ClockOK
  <2>5. isr'[c].pc = "handler"
    BY <1>0, <2>1 DEF ClockOK
  <2>6. RemainingHandled' /\ WakeupProgrammed'
    BY <2>5 DEF RemainingHandled, WakeupProgrammed
  <2>7. QED
    BY <2>3, <2>4, <2>6 DEF TimeoutInv
<1>2. CASE ~(list # <<>> /\ list[1].dticks <= rem)
  <2>1. /\ currTick' = currTick + rem
        /\ list' = IF list = <<>> THEN list
                   ELSE [list EXCEPT ![1].dticks = @ - rem]
        /\ remaining' = 0
        /\ compare' = [compare EXCEPT ![c] = CompareFor(list')]
        /\ isr' = [isr EXCEPT ![c] = Out]
        /\ deadline' = deadline
    BY <1>2 DEF AnnounceLoop
  <2>2. list' \in Seq(Node) /\ Unique(list') /\ Chained(list', deadline', currTick')
    <3>1. CASE list = <<>>
      <4>1. list' = list /\ list' = <<>>
        BY <2>1, <3>1
      <4>2. QED
        BY <1>0, <4>1 DEF ListOK, Unique, Chained
    <3>2. CASE list # <<>>
      BY <1>0, <1>2, <2>1, <3>2, TrimFacts
    <3>3. QED
      BY <3>1, <3>2
  <2>3. ListOK'
    BY <1>0, <2>1, <2>2 DEF ListOK
  <2>4. CompareFor(list') \in Int
    BY <1>0, <2>2, CompareIsInt
  <2>5. Out \in [pc : {"out", "announce", "handler"}, ticks : Nat, to : SUBSET Timeouts]
    BY DEF Out
  <2>6. ClockOK'
    BY <1>0, <2>1, <2>4, <2>5 DEF ClockOK
  <2>7. RemainingHandled'
    BY <2>1 DEF RemainingHandled
  <2>8. WakeupProgrammed'
    <3>1. SUFFICES ASSUME list' # <<>>
                   PROVE  \E k \in Cpus :
                            compare'[k] <= Max({now, lastTick + list'[1].dticks})
      BY DEF WakeupProgrammed
    <3>2. compare'[c] = CompareFor(list')
      BY <1>0, <2>1 DEF ClockOK
    <3>3. CompareFor(list') = Max({now, lastTick + list'[1].dticks})
      BY <1>0, <2>2, <3>1, HeadCompare
    <3>4. QED
      BY <2>4, <3>2, <3>3
  <2>9. QED
    BY <2>3, <2>6, <2>7, <2>8 DEF TimeoutInv
<1>3. QED
  BY <1>1, <1>2

LEMMA AnnounceInv ==
  ASSUME TimeoutInv, NEW c \in Cpus, Announce(c)
  PROVE  TimeoutInv'
<1>0. ListOK /\ ClockOK /\ RemainingHandled /\ WakeupProgrammed
  BY DEF TimeoutInv
<1>t. isr[c].ticks \in Nat /\ isr[c].pc = "announce"
  BY <1>0 DEF ClockOK, Announce
<1>1. CASE remaining # 0
  <2>1. /\ remaining' = remaining + isr[c].ticks
        /\ isr' = [isr EXCEPT ![c] = Out]
        /\ UNCHANGED <<now, lastTick, compare, list, currTick, deadline>>
    BY <1>1 DEF Announce
  <2>2. PICK k \in Cpus : isr[k].pc = "handler"
    BY <1>0, <1>1 DEF RemainingHandled
  <2>3. isr'[k].pc = "handler"
    BY <1>0, <1>t, <2>1, <2>2 DEF ClockOK
  <2>4. ListOK'
    BY <1>0, <2>1 DEF ListOK
  <2>5. Out \in [pc : {"out", "announce", "handler"}, ticks : Nat, to : SUBSET Timeouts]
    BY DEF Out
  <2>6. ClockOK'
    BY <1>0, <1>t, <2>1, <2>5 DEF ClockOK
  <2>7. RemainingHandled' /\ WakeupProgrammed'
    BY <2>3 DEF RemainingHandled, WakeupProgrammed
  <2>8. QED
    BY <2>4, <2>6, <2>7 DEF TimeoutInv
<1>2. CASE remaining = 0
  <2>1. AnnounceLoop(c, isr[c].ticks) /\ UNCHANGED <<now, lastTick>>
    BY <1>2 DEF Announce
  <2>2. PICK rem \in Int : rem = isr[c].ticks
    BY <1>t
  <2>3. QED
    BY <2>1, <2>2, AnnounceLoopInv
<1>3. QED
  BY <1>1, <1>2

LEMMA HandlerDoneInv ==
  ASSUME TimeoutInv, NEW c \in Cpus, HandlerDone(c)
  PROVE  TimeoutInv'
<1>1. AnnounceLoop(c, remaining - isr[c].ticks) /\ UNCHANGED <<now, lastTick>>
  BY DEF HandlerDone
<1>2. PICK rem \in Int : rem = remaining - isr[c].ticks
  BY DEF TimeoutInv, ClockOK
<1>3. QED
  BY <1>1, <1>2, AnnounceLoopInv

LEMMA TimeoutInitInv == TInit => TimeoutInv
<1> SUFFICES ASSUME TInit PROVE TimeoutInv
  OBVIOUS
<1>1. ListOK
  BY DEF TInit, ListOK, Unique, Chained
<1>2. ClockOK
  <2>1. Out \in [pc : {"out", "announce", "handler"}, ticks : Nat, to : SUBSET Timeouts]
    BY DEF Out
  <2>2. QED
    BY <2>1 DEF TInit, ClockOK
<1>3. RemainingHandled /\ WakeupProgrammed
  BY DEF TInit, RemainingHandled, WakeupProgrammed
<1>4. QED
  BY <1>1, <1>2, <1>3 DEF TimeoutInv

LEMMA TimeoutInvNext ==
  ASSUME TimeoutInv, [TNext]_toVars
  PROVE  TimeoutInv'
<1>0. ListOK /\ ClockOK
  BY DEF TimeoutInv
<1>1. CASE Tick
  BY <1>1, TickInv
<1>2. CASE \E c \in Cpus : TimerIsr(c)
  BY <1>2, TimerIsrInv
<1>3. CASE \E c \in Cpus : Announce(c)
  BY <1>3, AnnounceInv
<1>4. CASE \E c \in Cpus : HandlerDone(c)
  BY <1>4, HandlerDoneInv
<1>5. CASE \E c \in Cpus, t \in Timeouts : AbortTimeout(c, t)
  BY <1>5, AbortTimeoutInv
<1>6. ASSUME NEW c \in Cpus, NEW t \in Timeouts, NEW ticks \in Delays,
             AddRelative(c, t, ticks)
      PROVE  TimeoutInv'
  <2>1. PICK d \in Nat : d = DticksRel(ticks)
    BY <1>0, DticksFacts
  <2>2. PICK x : AddTimeout(c, t, d, x)
    BY <1>6, <2>1 DEF AddRelative
  <2>3. QED
    BY <2>2, AddTimeoutInv
<1>7. ASSUME NEW c \in Cpus, NEW t \in Timeouts, NEW tick \in AbsTicks,
             AddAbsolute(c, t, tick)
      PROVE  TimeoutInv'
  <2>1. PICK d \in Nat : d = DticksAbs(tick)
    BY <1>0, DticksFacts
  <2>2. AddTimeout(c, t, d, tick)
    BY <1>7, <2>1 DEF AddAbsolute
  <2>3. QED
    BY <2>2, AddTimeoutInv
<1>8. CASE UNCHANGED toVars
  BY <1>8 DEF toVars, TimeoutInv, ListOK, ClockOK, RemainingHandled, WakeupProgrammed,
              Unique, Chained
<1>9. QED
  BY <1>1, <1>2, <1>3, <1>4, <1>5, <1>6, <1>7, <1>8 DEF TNext

LEMMA TimeoutInvariant == TSpec => []TimeoutInv
<1>1. QED
  BY TimeoutInitInv, TimeoutInvNext, PTL DEF TSpec

(* z_timeout_expires() returns the tick the timeout was added for, on any  *)
(* number of CPUs: the sum of the deltas up to a node and curr_tick always *)
(* add up to its deadline, whatever is added, aborted or announced.        *)
THEOREM TimeoutDeadlinesKept == TSpec => []DeadlinesKept
<1>1. ASSUME TimeoutInv PROVE DeadlinesKept
  <2>1. ListOK
    BY <1>1 DEF TimeoutInv
  <2>2. SUFFICES ASSUME NEW i \in 1..Len(list)
                 PROVE  currTick + TimeoutRem(list[i].to) = deadline[list[i].to]
    BY DEF DeadlinesKept
  <2>3. (CHOOSE j \in 1..Len(list) : list[j].to = list[i].to) = i
    BY <2>1 DEF ListOK, Unique
  <2>4. TimeoutRem(list[i].to) = deadline[list[i].to] - currTick
    BY <2>1, <2>3, ThroughFacts DEF TimeoutRem
  <2>5. currTick \in Int /\ deadline[list[i].to] \in Int
    BY <2>1, NodeFacts DEF ListOK
  <2>6. QED
    BY <2>4, <2>5
<1>2. QED
  BY TimeoutInvariant, <1>1, PTL

(* While no CPU is in the timer interrupt, the compare register of some    *)
(* CPU fires no later than the first deadline, on any number of CPUs.      *)
THEOREM TimeoutWakeupProgrammed == TSpec => []WakeupProgrammed
<1>1. TimeoutInv => WakeupProgrammed
  BY DEF TimeoutInv
<1>2. QED
  BY TimeoutInvariant, <1>1, PTL

-----------------------------------------------------------------------------
(* One CPU: every tick the driver has reported is in curr_tick, except     *)
(* those of the announcement in progress, so curr_tick is never ahead of   *)
(* the hardware; and no deadline is before the time the caller asked for.  *)
OneCpuOK(c) ==
  /\ due \in [Timeouts -> Int]
  /\ \A t \in Timeouts : due[t] <= deadline[t]
  /\ isr[c].pc = "out" => currTick = lastTick /\ remaining = 0
  /\ isr[c].pc = "announce" => currTick + isr[c].ticks = lastTick /\ remaining = 0
  /\ isr[c].pc = "handler" => currTick + remaining - isr[c].ticks = lastTick

LEMMA OneCpuAdd ==
  ASSUME TimeoutInv, NEW c \in Cpus, OneCpuOK(c), NEW k, NEW t \in Timeouts,
         NEW d \in Nat, NEW dueAt \in Int, dueAt <= currTick + d,
         AddTimeout(k, t, d, dueAt)
  PROVE  OneCpuOK(c)'
<1>1. /\ deadline' = [deadline EXCEPT ![t] = currTick + d]
      /\ due' = [due EXCEPT ![t] = dueAt]
      /\ UNCHANGED <<lastTick, isr, currTick, remaining>>
  BY DEF AddTimeout
<1>2. deadline \in [Timeouts -> Int] /\ currTick \in Int
  BY DEF TimeoutInv, ListOK
<1>3. QED
  BY <1>1, <1>2 DEF OneCpuOK

(* From the test of the loop to the next handler: a timeout that expires   *)
(* is due, and the ticks it took are accounted for.                        *)
LEMMA OneCpuLoop ==
  ASSUME TimeoutInv, NEW c \in Cpus, OneCpuOK(c), NEW rem \in Int,
         currTick + rem = lastTick, AnnounceLoop(c, rem), UNCHANGED <<now, lastTick>>
  PROVE  /\ OneCpuOK(c)'
         /\ \A t \in isr'[c].to : due[t] <= now
<1>0. /\ ListOK /\ ClockOK /\ due \in [Timeouts -> Int]
      /\ \A t \in Timeouts : due[t] <= deadline[t]
      /\ deadline \in [Timeouts -> Int] /\ currTick \in Int
      /\ lastTick \in Int /\ now \in Int /\ lastTick <= now
  BY DEF TimeoutInv, OneCpuOK, ListOK, ClockOK
<1>1. CASE list # <<>> /\ list[1].dticks <= rem
  <2>1. PICK t \in Timeouts : t = list[1].to
    BY <1>0, <1>1, PopFacts
  <2>2. PICK x \in Nat : x = list[1].dticks
    BY <1>0, <1>1, PopFacts
  <2>3. deadline[t] = currTick + x
    BY <1>0, <1>1, <2>1, <2>2, PopFacts
  <2>4. /\ currTick' = currTick + x
        /\ deadline' = [deadline EXCEPT ![t] = 0]
        /\ due' = [due EXCEPT ![t] = 0]
        /\ remaining' = rem
        /\ isr' = [isr EXCEPT ![c] = [pc |-> "handler", ticks |-> x, to |-> {t}]]
    BY <1>1, <2>1, <2>2 DEF AnnounceLoop, Forget
  <2>5. isr'[c].pc = "handler" /\ isr'[c].ticks = x /\ isr'[c].to = {t}
    BY <1>0, <2>4 DEF ClockOK
  <2>6. due[t] <= now
    BY <1>0, <1>1, <2>2, <2>3
  <2>7. currTick' + remaining' - isr'[c].ticks = lastTick'
    BY <1>0, <2>2, <2>4, <2>5
  <2>8. due' \in [Timeouts -> Int] /\ \A u \in Timeouts : due'[u] <= deadline'[u]
    BY <1>0, <2>4
  <2>9. QED
    BY <2>5, <2>6, <2>7, <2>8 DEF OneCpuOK
<1>2. CASE ~(list # <<>> /\ list[1].dticks <= rem)
  <2>1. /\ currTick' = currTick + rem /\ remaining' = 0
        /\ isr' = [isr EXCEPT ![c] = Out]
        /\ UNCHANGED <<deadline, due>>
    BY <1>2 DEF AnnounceLoop
  <2>2. isr'[c].pc = "out" /\ isr'[c].to = {}
    BY <1>0, <2>1 DEF ClockOK, Out
  <2>3. QED
    BY <1>0, <2>1, <2>2 DEF OneCpuOK
<1>3. QED
  BY <1>1, <1>2

LEMMA OneCpuNext ==
  ASSUME NEW c, Cpus = {c}, TimeoutInv, OneCpuOK(c), [TNext]_toVars
  PROVE  /\ OneCpuOK(c)'
         /\ (Announce(c) \/ HandlerDone(c)) => \A t \in isr'[c].to : due[t] <= now
<1>0. /\ ListOK /\ ClockOK /\ c \in Cpus
      /\ currTick \in Int /\ lastTick \in Nat /\ now \in Nat /\ lastTick <= now
      /\ remaining \in Int /\ isr[c].ticks \in Nat
  BY DEF TimeoutInv, ListOK, ClockOK
<1>1. ASSUME Announce(c)
      PROVE  OneCpuOK(c)' /\ \A t \in isr'[c].to : due[t] <= now
  <2>1. PICK rem \in Int : rem = isr[c].ticks
    BY <1>0
  <2>2. isr[c].pc = "announce" /\ remaining = 0 /\ currTick + rem = lastTick
    BY <1>1, <2>1 DEF Announce, OneCpuOK
  <2>3. AnnounceLoop(c, rem) /\ UNCHANGED <<now, lastTick>>
    BY <1>1, <2>1, <2>2 DEF Announce
  <2>4. QED
    BY <1>0, <2>2, <2>3, OneCpuLoop
<1>2. ASSUME HandlerDone(c)
      PROVE  OneCpuOK(c)' /\ \A t \in isr'[c].to : due[t] <= now
  <2>1. PICK rem \in Int : rem = remaining - isr[c].ticks
    BY <1>0
  <2>2. isr[c].pc = "handler" /\ currTick + rem = lastTick
    BY <1>0, <1>2, <2>1 DEF HandlerDone, OneCpuOK
  <2>3. AnnounceLoop(c, rem) /\ UNCHANGED <<now, lastTick>>
    BY <1>2, <2>1 DEF HandlerDone
  <2>4. QED
    BY <1>0, <2>2, <2>3, OneCpuLoop
<1>3. ASSUME Tick
      PROVE  OneCpuOK(c)'
  BY <1>3 DEF Tick, OneCpuOK
<1>4. ASSUME TimerIsr(c)
      PROVE  OneCpuOK(c)'
  <2>1. /\ isr[c].pc = "out" /\ lastTick' = now
        /\ isr' = [isr EXCEPT ![c] = [pc |-> "announce", ticks |-> now - lastTick,
                                      to |-> {}]]
        /\ UNCHANGED <<currTick, remaining, deadline, due>>
    BY <1>4 DEF TimerIsr
  <2>2. isr'[c].pc = "announce" /\ isr'[c].ticks = now - lastTick
    BY <1>0, <2>1 DEF ClockOK
  <2>3. currTick' + isr'[c].ticks = lastTick' /\ remaining' = 0
    BY <1>0, <2>1, <2>2 DEF OneCpuOK
  <2>4. QED
    BY <2>1, <2>2, <2>3 DEF OneCpuOK
<1>5. ASSUME \E t \in Timeouts : AbortTimeout(c, t)
      PROVE  OneCpuOK(c)'
  <2>1. PICK t \in Timeouts : AbortTimeout(c, t)
    BY <1>5
  <2>2. /\ deadline' = [deadline EXCEPT ![t] = 0] /\ due' = [due EXCEPT ![t] = 0]
        /\ UNCHANGED <<lastTick, isr, currTick, remaining>>
    BY <2>1 DEF AbortTimeout, Forget
  <2>3. deadline \in [Timeouts -> Int]
    BY <1>0 DEF ListOK
  <2>4. QED
    BY <2>2, <2>3 DEF OneCpuOK
<1>6. ASSUME NEW t \in Timeouts, NEW ticks \in Delays, AddRelative(c, t, ticks)
      PROVE  OneCpuOK(c)'
  <2>1. ticks \in Nat /\ Elapsed \in Nat
    BY <1>0, DticksFacts
  <2>2. PICK d \in Nat : d = DticksRel(ticks)
    BY <1>0, DticksFacts
  <2>3. d = ticks + 1 + Elapsed
    BY <2>2 DEF DticksRel
  <2>4. PICK x : /\ x = (IF isr[c].pc = "handler" THEN currTick ELSE now) + ticks + 1
                 /\ AddTimeout(c, t, d, x)
    BY <1>6, <2>2 DEF AddRelative
  <2>5. CASE isr[c].pc = "handler"
    <3>1. x = currTick + ticks + 1
      BY <2>4, <2>5
    <3>2. x \in Int /\ x <= currTick + d
      BY <1>0, <2>1, <2>3, <3>1
    <3>3. QED
      BY <1>0, <2>4, <3>2, OneCpuAdd
  <2>6. CASE isr[c].pc # "handler"
    <3>1. isr[c].pc = "out"
      BY <1>0, <1>6, <2>6 DEF AddRelative, ClockOK
    <3>2. currTick = lastTick /\ remaining = 0
      BY <3>1 DEF OneCpuOK
    <3>3. Elapsed = now - lastTick /\ x = now + ticks + 1
      BY <2>4, <2>6, <3>2 DEF Elapsed
    <3>4. x \in Int /\ x <= currTick + d
      BY <1>0, <2>1, <2>3, <3>2, <3>3
    <3>5. QED
      BY <1>0, <2>4, <3>4, OneCpuAdd
  <2>7. QED
    BY <2>5, <2>6
<1>7. ASSUME NEW t \in Timeouts, NEW tick \in AbsTicks, AddAbsolute(c, t, tick)
      PROVE  OneCpuOK(c)'
  <2>1. PICK d \in Nat : d = DticksAbs(tick)
    BY <1>0, DticksFacts
  <2>2. tick \in Int /\ tick <= currTick + d
    BY <1>0, <2>1, DticksFacts
  <2>3. AddTimeout(c, t, d, tick)
    BY <1>7, <2>1 DEF AddAbsolute
  <2>4. QED
    BY <1>0, <2>2, <2>3, OneCpuAdd
<1>8. ASSUME UNCHANGED toVars
      PROVE  OneCpuOK(c)'
  BY <1>8 DEF toVars, OneCpuOK
<1>9. OneCpuOK(c)'
  BY <1>1, <1>2, <1>3, <1>4, <1>5, <1>6, <1>7, <1>8 DEF TNext
<1>10. QED
  BY <1>1, <1>2, <1>9

(* On one CPU no handler runs before the caller's delay has elapsed or its *)
(* absolute time has come.                                                 *)
THEOREM TimeoutNeverEarly ==
  ASSUME NEW cpu, Cpus = {cpu}
  PROVE  TSpec => NeverEarly
<1> DEFINE Due == \A c \in Cpus : (Announce(c) \/ HandlerDone(c))
                    => \A t \in isr'[c].to : due[t] <= now
<1>1. TInit => OneCpuOK(cpu)
  BY DEF TInit, OneCpuOK, Out
<1>2. TimeoutInv /\ OneCpuOK(cpu) /\ [TNext]_toVars => OneCpuOK(cpu)'
  BY OneCpuNext
<1>3. TimeoutInv /\ OneCpuOK(cpu) /\ [TNext]_toVars =>
        [Due]_toVars
  BY OneCpuNext
<1> HIDE DEF Due
<1>4. TSpec => [][Due]_toVars
  BY TimeoutInvariant, <1>1, <1>2, <1>3, PTL DEF TSpec
<1>5. QED
  BY <1>4 DEF NeverEarly, Due

-----------------------------------------------------------------------------
(* Lists of threads without repetition.                                    *)

In(q, x) == \E j \in 1..Len(q) : q[j] = x
NoDup(q) == \A j, k \in 1..Len(q) : q[j] = q[k] => j = k

LEMMA InsertedOnce ==
  ASSUME NEW S, NEW q \in Seq(S), NEW r \in Seq(S), NEW e \in S,
         NEW k \in 1..(Len(q) + 1), Inserted(r, q, e, k)
  PROVE  /\ \A x : In(r, x) <=> In(q, x) \/ x = e
         /\ NoDup(q) /\ ~In(q, e) => NoDup(r)
<1> DEFINE f(i) == IF i < k THEN i ELSE i + 1
<1>0. Len(q) \in Nat /\ Len(r) \in Nat
  OBVIOUS
<1>1. \A i \in 1..Len(q) : f(i) \in 1..Len(r) /\ f(i) # k /\ r[f(i)] = q[i]
  BY <1>0 DEF Inserted
<1>2. \A i \in 1..Len(r) : i = k \/ \E j \in 1..Len(q) : i = f(j)
  <2>1. TAKE i \in 1..Len(r)
  <2>2. CASE i < k
    BY <2>2, <1>0 DEF Inserted
  <2>3. CASE i > k
    <3>1. i - 1 \in 1..Len(q) /\ i = f(i - 1)
      BY <2>3, <1>0 DEF Inserted
    <3>2. QED
      BY <3>1
  <2>4. QED
    BY <2>2, <2>3, <1>0
<1>3. k \in 1..Len(r) /\ r[k] = e
  BY <1>0 DEF Inserted
<1> HIDE DEF f
<1>4. \A x : In(r, x) <=> In(q, x) \/ x = e
  BY <1>1, <1>2, <1>3 DEF In
<1>5. ASSUME NoDup(q), ~In(q, e), NEW i \in 1..Len(r), NEW j \in 1..Len(r), r[i] = r[j]
      PROVE  i = j
  <2>1. CASE i = k \/ j = k
    <3>1. \A n \in 1..Len(r) : n # k => r[n] # e
      BY <1>1, <1>2, <1>5 DEF In
    <3>2. QED
      BY <1>3, <1>5, <2>1, <3>1
  <2>2. CASE i # k /\ j # k
    <3>1. PICK m \in 1..Len(q), n \in 1..Len(q) : i = f(m) /\ j = f(n)
      BY <1>2, <2>2
    <3>2. q[m] = q[n]
      BY <1>1, <1>5, <3>1
    <3>3. QED
      BY <1>5, <3>1, <3>2 DEF NoDup
  <2>3. QED
    BY <2>1, <2>2
<1>6. QED
  BY <1>4, <1>5 DEF NoDup

(* z_priq_dumb_add links one thread more. *)
LEMMA PriqAddLinks ==
  ASSUME NEW q \in Seq(Threads), NEW t \in Threads, NEW p
  PROVE  /\ PriqAdd(q, t, p) \in Seq(Threads)
         /\ \A x : In(PriqAdd(q, t, p), x) <=> In(q, x) \/ x = t
         /\ NoDup(q) /\ ~In(q, t) => NoDup(PriqAdd(q, t, p))
<1>1. PICK k \in 1..(Len(q) + 1) : k = PriqPos(q, t, p)
  <2>1. LowerPrio(q, t, p) \in SUBSET Nat /\ LowerPrio(q, t, p) \subseteq 1..Len(q)
    BY DEF LowerPrio
  <2>2. LowerPrio(q, t, p) # {} => Min(LowerPrio(q, t, p)) \in 1..Len(q)
    BY <2>1, LeastNatural
  <2>3. Len(q) \in Nat
    OBVIOUS
  <2>4. QED
    BY <2>2, <2>3 DEF PriqPos
<1>2. PICK r \in Seq(Threads) : r = PriqAdd(q, t, p) /\ Inserted(r, q, t, k)
  BY <1>1, InsertAtFacts DEF PriqAdd
<1>3. Inserted(r, q, t, k)
  BY <1>2
<1>4. QED
  BY <1>2, <1>3, InsertedOnce

(* sys_dlist_remove unlinks one. *)
LEMMA RemoveFirstUnlinks ==
  ASSUME NEW q \in Seq(Threads), NEW t \in Threads
  PROVE  /\ RemoveFirst(q, t) \in Seq(Threads)
         /\ NoDup(q) => /\ NoDup(RemoveFirst(q, t))
                        /\ \A x : In(RemoveFirst(q, t), x) <=> In(q, x) /\ x # t
<1>1. CASE ~In(q, t)
  <2>1. RemoveFirst(q, t) = q
    BY <1>1 DEF RemoveFirst, In
  <2>2. QED
    BY <1>1, <2>1
<1>2. CASE In(q, t)
  <2> DEFINE I == {i \in 1..Len(q) : q[i] = t}
  <2>1. I \in SUBSET Nat /\ I # {}
    BY <1>2 DEF In
  <2>2. SelectInSeq(q, LAMBDA v : v = t) = Min(I)
    BY <2>1 DEF SelectInSeq
  <2>3. RemoveFirst(q, t) = RemoveAt(q, Min(I))
    BY <1>2, <2>2 DEF RemoveFirst, In
  <2>4. Min(I) \in 1..Len(q) /\ q[Min(I)] = t
    <3> HIDE DEF I
    <3>1. Min(I) \in I
      BY <2>1, LeastNatural
    <3>2. QED
      BY <3>1 DEF I
  <2>5. PICK k \in 1..Len(q) : k = Min(I) /\ q[k] = t
    BY <2>4
  <2> HIDE DEF I
  <2>6. PICK r \in Seq(Threads) :
          /\ r = RemoveFirst(q, t) /\ Len(r) = Len(q) - 1
          /\ \A i \in 1..(k - 1) : r[i] = q[i]
          /\ \A i \in k..(Len(q) - 1) : r[i] = q[i + 1]
    BY SMTT(30), <2>3, <2>5, RemoveAtFacts
  <2> DEFINE f(i) == IF i < k THEN i ELSE i + 1
  <2>7. Len(q) \in Nat /\ Len(r) \in Nat
    OBVIOUS
  <2>8. \A i \in 1..Len(r) : f(i) \in 1..Len(q) /\ f(i) # k /\ q[f(i)] = r[i]
    BY <2>6, <2>7
  <2>9. \A i \in 1..Len(q) : i = k \/ \E j \in 1..Len(r) : i = f(j)
    <3>1. TAKE i \in 1..Len(q)
    <3>2. CASE i < k
      <4>1. i \in 1..Len(r) /\ i = f(i)
        BY <2>6, <2>7, <3>2
      <4>2. QED
        BY <4>1
    <3>3. CASE i > k
      <4>1. i - 1 \in 1..Len(r) /\ i = f(i - 1)
        BY <2>6, <2>7, <3>3
      <4>2. QED
        BY <4>1
    <3>4. QED
      BY <2>7, <3>2, <3>3
  <2>10. \A i, j \in 1..Len(r) : f(i) = f(j) => i = j
    BY <2>7
  <2> HIDE DEF f
  <2>11. ASSUME NoDup(q) PROVE NoDup(r)
    BY <2>8, <2>10, <2>11 DEF NoDup
  <2>12. ASSUME NoDup(q), NEW x PROVE In(r, x) <=> In(q, x) /\ x # t
    <3>1. ASSUME In(r, x) PROVE In(q, x) /\ x # t
      <4>1. PICK i \in 1..Len(r) : r[i] = x
        BY <3>1 DEF In
      <4>2. f(i) \in 1..Len(q) /\ q[f(i)] = x /\ f(i) # k
        BY <2>8, <4>1
      <4>3. QED
        BY <2>5, <2>12, <4>2 DEF In, NoDup
    <3>2. ASSUME In(q, x), x # t PROVE In(r, x)
      <4>1. PICK i \in 1..Len(q) : q[i] = x
        BY <3>2 DEF In
      <4>2. PICK j \in 1..Len(r) : i = f(j)
        BY <2>5, <2>9, <3>2, <4>1
      <4>3. QED
        BY <2>8, <4>1, <4>2 DEF In
    <3>3. QED
      BY <3>1, <3>2
  <2>13. QED
    BY <2>6, <2>11, <2>12
<1>3. QED
  BY <1>1, <1>2

-----------------------------------------------------------------------------
(* The scheduler.  First what is said of the record a, then of the whole   *)
(* state.                                                                  *)

SchedRecs ==
  [prio : [Threads -> Int], locked : [Threads -> 0..MaxLock],
   flags : [Threads -> SUBSET Flags], queued : [Threads -> BOOLEAN],
   mask : [Threads -> SUBSET CPUs], timeout : [Threads -> BOOLEAN],
   runq : Seq(Threads), waitq : [Waits -> Seq(Threads)],
   cur : [CPUs -> Threads \cup {Idle, Dummy}], isr : [CPUs -> BOOLEAN],
   cache : Threads \cup {Idle, Dummy}, swapOk : [CPUs -> BOOLEAN],
   mirqp : [CPUs -> Threads \cup {None}], slicing : BOOLEAN,
   sliceOn : [CPUs -> BOOLEAN], sliceExp : [CPUs -> BOOLEAN],
   pendingIpi : SUBSET CPUs]

(* The list and _THREAD_QUEUED: a thread that is flagged and not linked    *)
(* runs, on SMP.                                                           *)
RunqOK(a) ==
  /\ NoDup(a.runq)
  /\ \A t \in Threads :
       /\ In(a.runq, t) => a.queued[t]
       /\ a.queued[t] => In(a.runq, t) \/ (SMP /\ \E d \in CPUs : a.cur[d] = t)

CurOK(a) ==
  \A c, d \in CPUs : a.cur[c] \in Threads /\ a.cur[c] = a.cur[d] => c = d

(* On SMP.  x is the CPU that is inside the scheduler, or None: what its   *)
(* own thread may be for the moment, others may not see.                   *)
RunningOK(a, d, x) ==
  LET t == a.cur[d]
  IN  t \in Threads =>
        /\ ~In(a.runq, t)
        /\ "prestart" \notin a.flags[t]
        /\ d # x => /\ ~a.isr[d] => ~Prevented(a, t)
                    /\ "pending" \notin a.flags[t] /\ ~a.timeout[t]
                    /\ "resume" \in ops => "suspended" \notin a.flags[t]
                    /\ "prio" \in ops => ~a.queued[t]

FlagsOK(a) ==
  /\ \A t \in Threads :
       /\ a.queued[t] => ~Prevented(a, t)
       /\ a.timeout[t] => "suspended" \in a.flags[t] /\ "sleep" \in ops
  /\ \A w \in Waits :
       /\ NoDup(a.waitq[w])
       /\ \A t \in Threads : In(a.waitq[w], t) => "pending" \in a.flags[t]
  /\ "prio" \in ops => ~a.slicing

RecOK(a, x) ==
  /\ a \in SchedRecs
  /\ RunqOK(a) /\ CurOK(a)
  /\ SMP => FlagsOK(a) /\ \A d \in CPUs : RunningOK(a, d, x)

(* The thread a CPU is about to switch to belongs to that CPU alone. *)
NextOK(a, t) ==
  /\ t \in Threads \cup {Idle}
  /\ t \in Threads => ~Prevented(a, t) /\ ~a.queued[t]

HolderOK ==
  \/ holder = NoHolder
  \/ /\ SMP
     /\ holder \in [cpu : CPUs, th : Threads \cup {Idle}, isr : BOOLEAN]
     /\ NextOK(s, holder.th)

CallOps == {"run", "wakeup", "resched", "spin", "suspend", "halt", "abort",
            "join", "announce", "fire"}

(* A timeout that was unlinked belongs to a thread that sleeps. *)
FiringOK(c) ==
  pc[c].op = "fire" =>
    /\ pc[c].th \in Threads
    /\ SMP => /\ "sleep" \in ops
              /\ "suspended" \in s.flags[pc[c].th] /\ ~s.timeout[pc[c].th]
              /\ \A d \in CPUs : s.cur[d] = pc[c].th => holder.cpu = d

CallsOK ==
  /\ pc \in [Threads \cup CPUs -> [op : CallOps, th : Threads \cup {None}]]
  /\ \A y \in Threads \cup CPUs :
       /\ pc[y].op \in {"wakeup", "suspend"} => pc[y].th \in Threads
       /\ pc[y].op = "wakeup" => "wakeup" \in ops
  /\ \A c \in CPUs :
       /\ pc[c].op = "suspend" => "isr_suspend" \in ops
       /\ FiringOK(c)
  /\ \A c, d \in CPUs :
       pc[c].op \in {"announce", "fire"} /\ pc[d].op \in {"announce", "fire"} => c = d

SchedInv ==
  /\ ops \in Workloads
  /\ leaving \in [CPUs -> Threads \cup {None}]
  /\ ipi \in [CPUs -> BOOLEAN]
  /\ HolderOK /\ CallsOK
  /\ RecOK(s, holder.cpu)

(* The calls that section 3 of the README shows not to go together on SMP. *)
SafeCalls(w) ==
  /\ "sleep" \in w => w \cap {"wakeup", "resume"} = {}
  /\ "prio" \in w => w \cap {"slice", "slice_set", "wakeup"} = {}
  /\ "resume" \in w => w \cap {"isr_suspend", "isr_abort"} = {}

CallsAreSafe == SMP => \A w \in Workloads : SafeCalls(w)

-----------------------------------------------------------------------------
(* Steps that leave alone what RecOK speaks of.                            *)

Same(a, b) ==
  /\ b \in SchedRecs
  /\ b.runq = a.runq /\ b.queued = a.queued /\ b.cur = a.cur
  /\ b.flags = a.flags /\ b.waitq = a.waitq /\ b.timeout = a.timeout
  /\ b.isr = a.isr /\ b.slicing = a.slicing

LEMMA SameRecOK ==
  ASSUME NEW a, NEW b, NEW x, Same(a, b), RecOK(a, x)
  PROVE  RecOK(b, x)
BY DEF Same, RecOK, RunqOK, CurOK, FlagsOK, RunningOK, Prevented

LEMMA SameTrans ==
  ASSUME NEW a, NEW b, NEW d, Same(a, b), Same(b, d)
  PROVE  Same(a, d)
BY DEF Same

LEMMA SchedTypes ==
  /\ SMP \in BOOLEAN
  /\ Idle \notin Threads \cup CPUs /\ Dummy \notin Threads \cup CPUs
  /\ None \notin Threads \cup CPUs
  BY SchedAssumption

LEMMA ResetSliceSame ==
  ASSUME NEW a \in SchedRecs, NEW c \in CPUs, NEW t
  PROVE  Same(a, ResetSlice(a, c, t))
<1>1. PICK v \in BOOLEAN : v = Sliceable(a, t)
  BY DEF Sliceable
<1>2. PICK b : b = [a EXCEPT !.sliceOn[c] = v]
  OBVIOUS
<1>3. Same(a, b)
  BY <1>2 DEF Same, SchedRecs
<1>4. ResetSlice(a, c, t) = [b EXCEPT !.sliceExp[c] = FALSE]
  BY <1>1, <1>2 DEF ResetSlice
<1>5. Same(b, [b EXCEPT !.sliceExp[c] = FALSE])
  BY <1>3 DEF Same, SchedRecs
<1>6. QED
  BY <1>3, <1>4, <1>5, SameTrans

LEMMA FlagIpiSame ==
  ASSUME NEW a \in SchedRecs, NEW m \in SUBSET CPUs
  PROVE  Same(a, FlagIpi(a, m))
BY DEF Same, SchedRecs, FlagIpi

LEMMA MirqpSame ==
  ASSUME NEW a \in SchedRecs, NEW c \in CPUs, NEW v \in Threads \cup {None}
  PROVE  Same(a, [a EXCEPT !.mirqp[c] = v])
BY DEF Same, SchedRecs

LEMMA SwapOkSame ==
  ASSUME NEW a \in SchedRecs, NEW c \in CPUs, NEW v \in BOOLEAN
  PROVE  Same(a, [a EXCEPT !.swapOk[c] = v])
BY DEF Same, SchedRecs

LEMMA CacheSame ==
  ASSUME NEW a \in SchedRecs, NEW v \in Threads \cup {Idle, Dummy}
  PROVE  Same(a, [a EXCEPT !.cache = v])
BY DEF Same, SchedRecs

LEMMA UpdateMetaIrqSame ==
  ASSUME NEW a \in SchedRecs, NEW c \in CPUs, NEW t
  PROVE  Same(a, UpdateMetaIrq(a, c, t))
<1>1. PICK v \in Threads \cup {None} :
        UpdateMetaIrq(a, c, t) = [a EXCEPT !.mirqp[c] = v]
  <2>1. a.mirqp[c] \in Threads \cup {None}
    BY DEF SchedRecs
  <2>2. ~Preemptible(a, a.cur[c]) => a.cur[c] \in Threads
    BY DEF Preemptible
  <2>3. QED
    BY <2>1, <2>2 DEF UpdateMetaIrq
<1>2. QED
  BY <1>1, MirqpSame

(* The thread that is picked: the first one in the queue that may run on   *)
(* the CPU, or the one a metaIRQ thread has displaced.                     *)
LEMMA RunqBestFacts ==
  ASSUME NEW a \in SchedRecs, NEW c \in CPUs
  PROVE  \/ RunqBest(a, c) = None
         \/ RunqBest(a, c) \in Threads /\ In(a.runq, RunqBest(a, c))
<1> DEFINE fit == {i \in 1..Len(a.runq) : c \in a.mask[a.runq[i]]}
<1>1. fit \in SUBSET Nat /\ fit \subseteq 1..Len(a.runq)
  OBVIOUS
<1>2. RunqBest(a, c) = IF fit = {} THEN None ELSE a.runq[Min(fit)]
  BY DEF RunqBest
<1> HIDE DEF fit
<1>3. CASE fit # {}
  <2>1. Min(fit) \in 1..Len(a.runq)
    BY <1>1, <1>3, LeastNatural
  <2>2. a.runq \in Seq(Threads)
    BY DEF SchedRecs
  <2>3. a.runq[Min(fit)] \in Threads
    BY <2>1, <2>2
  <2>4. QED
    BY <1>2, <1>3, <2>1, <2>3 DEF In
<1>4. QED
  BY <1>2, <1>3

LEMMA PickFacts ==
  ASSUME NEW a \in SchedRecs, NEW c \in CPUs
  PROVE  /\ Same(a, Pick(a, c).st)
         /\ Pick(a, c).th \in Threads \cup {Idle}
         /\ Pick(a, c).th \in Threads =>
              In(a.runq, Pick(a, c).th) \/ ~Prevented(a, Pick(a, c).th)
<1>1. PICK n : n = RunqBest(a, c)
  OBVIOUS
<1>2. n = None \/ (n \in Threads /\ In(a.runq, n))
  BY <1>1, RunqBestFacts
<1>3. a.mirqp[c] \in Threads \cup {None}
  BY DEF SchedRecs
<1>4. PICK f : f = BackFromMetaIrq(a, c, n)
  OBVIOUS
<1>5. /\ f.mirqp \in Threads \cup {None}
      /\ f.th = n \/ (f.th = a.mirqp[c] /\ f.th # None /\ ~Prevented(a, f.th))
  BY <1>3, <1>4 DEF BackFromMetaIrq
<1>6. Pick(a, c) = [st |-> [a EXCEPT !.mirqp[c] = f.mirqp],
                    th |-> IF f.th = None THEN Idle ELSE f.th]
  BY <1>1, <1>4 DEF Pick, Picked
<1>7. Same(a, Pick(a, c).st)
  BY <1>5, <1>6, MirqpSame
<1>8. QED
  BY <1>2, <1>3, <1>5, <1>6, <1>7, SchedTypes

LEMMA UpdateCacheSame ==
  ASSUME NEW a \in SchedRecs, NEW c \in CPUs, NEW ok \in BOOLEAN
  PROVE  Same(a, UpdateCache(a, c, ok))
<1>1. CASE SMP
  BY <1>1, SwapOkSame DEF UpdateCache
<1>2. CASE ~SMP
  <2>1. PICK b, t : /\ b = Pick(a, c).st /\ t = Pick(a, c).th
                    /\ Same(a, b) /\ t \in Threads \cup {Idle}
    BY PickFacts
  <2>2. UpdateCache(a, c, ok) = Cache(b, c, t, ok)
    BY <1>2, <2>1 DEF UpdateCache, CachePick
  <2>3. b \in SchedRecs
    BY <2>1 DEF Same
  <2>4. CASE ShouldPreempt(b, c, t, ok)
    <3>1. PICK d : d = (IF t # b.cur[c] THEN ResetSlice(b, c, t) ELSE b)
      OBVIOUS
    <3>2. Same(b, d)
      BY <2>3, <3>1, ResetSliceSame DEF Same
    <3>3. d \in SchedRecs
      BY <3>2 DEF Same
    <3>4. PICK e : e = UpdateMetaIrq(d, c, t)
      OBVIOUS
    <3>5. Same(d, e)
      BY <3>3, <3>4, UpdateMetaIrqSame
    <3>6. Same(e, [e EXCEPT !.cache = t])
      BY <2>1, <3>5, CacheSame DEF Same
    <3>7. UpdateCache(a, c, ok) = [e EXCEPT !.cache = t]
      BY <2>2, <2>4, <3>1, <3>4 DEF Cache
    <3>8. QED
      BY <2>1, <3>2, <3>5, <3>6, <3>7 DEF Same
  <2>5. CASE ~ShouldPreempt(b, c, t, ok)
    <3>1. UpdateCache(a, c, ok) = [b EXCEPT !.cache = b.cur[c]]
      BY <2>2, <2>5 DEF Cache
    <3>2. b.cur[c] \in Threads \cup {Idle, Dummy}
      BY <2>3 DEF SchedRecs
    <3>3. QED
      BY <2>1, <2>3, <3>1, <3>2, CacheSame DEF Same
  <2>6. QED
    BY <2>4, <2>5
<1>3. QED
  BY <1>1, <1>2

LEMMA FlagReadySame ==
  ASSUME NEW a \in SchedRecs, NEW c \in CPUs, NEW t
  PROVE  Same(a, FlagReady(a, c, t))
<1>1. IpiMask(a, c, t) \in SUBSET CPUs
  BY DEF IpiMask
<1>2. QED
  BY <1>1, FlagIpiSame DEF FlagReady

-----------------------------------------------------------------------------
(* The run queue.                                                          *)

(* All but the queue and its flags is the same. *)
SameThreads(a, b) ==
  /\ b \in SchedRecs
  /\ b.cur = a.cur /\ b.flags = a.flags /\ b.waitq = a.waitq
  /\ b.timeout = a.timeout /\ b.isr = a.isr /\ b.slicing = a.slicing

LEMMA QueueFields ==
  ASSUME NEW a \in SchedRecs, NEW c \in CPUs, NEW t \in Threads
  PROVE  LET b == QueueThread(a, c, t)
         IN  /\ SameThreads(a, b)
             /\ b.queued = [a.queued EXCEPT ![t] = TRUE]
             /\ b.runq = IF ShouldQueue(a, c, t) THEN PriqAdd(a.runq, t, a.prio) ELSE a.runq
<1>1. a.runq \in Seq(Threads)
  BY DEF SchedRecs
<1>2. PICK r \in Seq(Threads) :
        r = IF ShouldQueue(a, c, t) THEN PriqAdd(a.runq, t, a.prio) ELSE a.runq
  BY <1>1, PriqAddLinks
<1>3. PICK v \in BOOLEAN : v = (a.swapOk[c] \/ (SMP /\ t = a.cur[c]))
  OBVIOUS
<1>4. PICK d : d = [a EXCEPT !.queued[t] = TRUE]
  OBVIOUS
<1>5. d \in SchedRecs
  BY <1>4 DEF SchedRecs
<1>6. PICK e : e = [d EXCEPT !.runq = r]
  OBVIOUS
<1>7. e \in SchedRecs
  BY <1>2, <1>5, <1>6 DEF SchedRecs
<1>8. QueueThread(a, c, t) = [e EXCEPT !.swapOk[c] = v]
  BY <1>2, <1>3, <1>4, <1>6 DEF QueueThread, SchedRecs
<1>9. Same(e, [e EXCEPT !.swapOk[c] = v])
  BY <1>7, SwapOkSame
<1>10. SameThreads(a, e) /\ e.runq = r /\ e.queued = [a.queued EXCEPT ![t] = TRUE]
  BY <1>4, <1>5, <1>6, <1>7 DEF SameThreads, SchedRecs
<1>11. QED
  BY <1>2, <1>8, <1>9, <1>10 DEF Same, SameThreads

LEMMA DequeueFields ==
  ASSUME NEW a \in SchedRecs, NEW c \in CPUs, NEW t \in Threads
  PROVE  LET b == DequeueThread(a, c, t)
         IN  /\ SameThreads(a, b)
             /\ b.queued = [a.queued EXCEPT ![t] = FALSE]
             /\ b.runq = IF ShouldQueue(a, c, t) THEN RemoveFirst(a.runq, t) ELSE a.runq
<1>1. a.runq \in Seq(Threads)
  BY DEF SchedRecs
<1>2. PICK r \in Seq(Threads) :
        r = IF ShouldQueue(a, c, t) THEN RemoveFirst(a.runq, t) ELSE a.runq
  BY <1>1, RemoveFirstUnlinks
<1>4. PICK d : d = [a EXCEPT !.queued[t] = FALSE]
  OBVIOUS
<1>5. d \in SchedRecs
  BY <1>4 DEF SchedRecs
<1>6. DequeueThread(a, c, t) = [d EXCEPT !.runq = r]
  BY <1>2, <1>4 DEF DequeueThread, SchedRecs
<1>7. QED
  BY ZenonT(30), <1>2, <1>4, <1>5, <1>6 DEF SameThreads, SchedRecs

(* A thread that is ready and not linked may be queued; one that runs, by  *)
(* its own CPU only.                                                       *)
LEMMA QueueOK ==
  ASSUME NEW a, NEW x, RecOK(a, x), NEW c \in CPUs, NEW t \in Threads,
         ~In(a.runq, t),
         SMP => /\ ~Prevented(a, t)
                /\ \A d \in CPUs : a.cur[d] = t => d = c
                /\ "prio" \in ops /\ a.cur[c] = t => x = c
  PROVE  RecOK(QueueThread(a, c, t), x) /\ SameThreads(a, QueueThread(a, c, t))
<1>1. a \in SchedRecs /\ a.runq \in Seq(Threads) /\ a.queued \in [Threads -> BOOLEAN]
  BY DEF RecOK, SchedRecs
<1>2. PICK b : b = QueueThread(a, c, t)
  OBVIOUS
<1>3. /\ SameThreads(a, b) /\ b.queued = [a.queued EXCEPT ![t] = TRUE]
      /\ b.runq = IF ShouldQueue(a, c, t) THEN PriqAdd(a.runq, t, a.prio) ELSE a.runq
  BY <1>1, <1>2, QueueFields
<1>4. /\ NoDup(b.runq)
      /\ \A u : In(b.runq, u) <=> In(a.runq, u) \/ (u = t /\ ShouldQueue(a, c, t))
  BY <1>1, <1>3, PriqAddLinks DEF RecOK, RunqOK
<1>5. ShouldQueue(a, c, t) \/ (SMP /\ a.cur[c] = t)
  BY DEF ShouldQueue
<1>6. RunqOK(b)
  BY <1>1, <1>3, <1>4, <1>5 DEF RecOK, RunqOK, SameThreads
<1>7. CurOK(b)
  BY <1>3 DEF RecOK, CurOK, SameThreads
<1>8. ASSUME SMP PROVE FlagsOK(b)
  BY <1>1, <1>3, <1>8 DEF RecOK, FlagsOK, SameThreads, Prevented
<1>9. ASSUME SMP, NEW d \in CPUs PROVE RunningOK(b, d, x)
  <2>1. RunningOK(a, d, x)
    BY <1>9 DEF RecOK
  <2>2. CASE a.cur[d] = t
    <3>1. d = c /\ ~ShouldQueue(a, c, t)
      BY <1>9, <2>2 DEF ShouldQueue
    <3>2. QED
      BY <1>3, <1>4, <1>9, <2>1, <2>2, <3>1 DEF RunningOK, SameThreads, Prevented
  <2>3. CASE a.cur[d] # t
    BY <1>1, <1>3, <1>4, <2>1, <2>3 DEF RunningOK, SameThreads, Prevented
  <2>4. QED
    BY <2>2, <2>3
<1>10. QED
  BY <1>2, <1>3, <1>6, <1>7, <1>8, <1>9 DEF RecOK, SameThreads

(* A thread may always be taken out. *)
LEMMA DequeueOK ==
  ASSUME NEW a, NEW x, RecOK(a, x), NEW c \in CPUs, NEW t \in Threads
  PROVE  LET b == DequeueThread(a, c, t)
         IN  /\ RecOK(b, x) /\ SameThreads(a, b)
             /\ ~b.queued[t] /\ ~In(b.runq, t)
             /\ \A u \in Threads : b.queued[u] => a.queued[u]
<1>1. a \in SchedRecs /\ a.runq \in Seq(Threads) /\ a.queued \in [Threads -> BOOLEAN]
  BY DEF RecOK, SchedRecs
<1>2. PICK b : b = DequeueThread(a, c, t)
  OBVIOUS
<1>3. /\ SameThreads(a, b) /\ b.queued = [a.queued EXCEPT ![t] = FALSE]
      /\ b.runq = IF ShouldQueue(a, c, t) THEN RemoveFirst(a.runq, t) ELSE a.runq
  BY <1>1, <1>2, DequeueFields
<1>4. NoDup(a.runq)
  BY DEF RecOK, RunqOK
<1>5. ShouldQueue(a, c, t) \/ (SMP /\ a.cur[c] = t /\ ~In(a.runq, t))
  BY DEF ShouldQueue, RecOK, RunningOK
<1>6. /\ NoDup(b.runq)
      /\ \A u : In(b.runq, u) <=> In(a.runq, u) /\ u # t
  BY <1>1, <1>3, <1>4, <1>5, RemoveFirstUnlinks
<1>7. RunqOK(b)
  BY <1>1, <1>3, <1>6 DEF RecOK, RunqOK, SameThreads
<1>8. CurOK(b)
  BY <1>3 DEF RecOK, CurOK, SameThreads
<1>9. ASSUME SMP PROVE FlagsOK(b)
  BY <1>1, <1>3, <1>9 DEF RecOK, FlagsOK, SameThreads, Prevented
<1>10. ASSUME SMP, NEW d \in CPUs PROVE RunningOK(b, d, x)
  <2>1. RunningOK(a, d, x)
    BY <1>10 DEF RecOK
  <2>2. \A u \in Threads : b.queued[u] => a.queued[u]
    BY <1>1, <1>3
  <2>3. QED
    BY <1>3, <1>6, <2>1, <2>2 DEF RunningOK, SameThreads, Prevented
<1>11. QED
  BY <1>1, <1>2, <1>3, <1>6, <1>7, <1>8, <1>9, <1>10 DEF RecOK, SameThreads

LEMMA UnqueueOK ==
  ASSUME NEW a, NEW x, RecOK(a, x), NEW c \in CPUs, NEW t
  PROVE  LET b == Unqueue(a, c, t)
         IN  /\ RecOK(b, x) /\ SameThreads(a, b)
             /\ t \in Threads => ~b.queued[t] /\ ~In(b.runq, t)
             /\ \A u \in Threads : b.queued[u] => a.queued[u]
<1>1. CASE Queued(a, t)
  BY <1>1, DequeueOK DEF Unqueue, Queued
<1>2. CASE ~Queued(a, t)
  <2>1. SameThreads(a, a)
    BY DEF SameThreads, RecOK
  <2>2. QED
    BY <1>2, <2>1 DEF Unqueue, Queued, RecOK, RunqOK
<1>3. QED
  BY <1>1, <1>2

(* ready_thread *)
LEMMA ReadyThreadOK ==
  ASSUME NEW a, NEW x, RecOK(a, x), NEW c \in CPUs, NEW t \in Threads,
         SMP => /\ \A d \in CPUs : a.cur[d] = t => d = c
                /\ "prio" \in ops /\ a.cur[c] = t => x = c
  PROVE  RecOK(ReadyThread(a, c, t), x) /\ SameThreads(a, ReadyThread(a, c, t))
<1>1. CASE a.queued[t] \/ ~Ready(a, t)
  BY <1>1 DEF ReadyThread, SameThreads, RecOK
<1>2. CASE ~a.queued[t] /\ Ready(a, t)
  <2>1. PICK b : b = QueueThread(a, c, t)
    OBVIOUS
  <2>2. ~In(a.runq, t) /\ ~Prevented(a, t)
    BY <1>2 DEF RecOK, RunqOK, Ready
  <2>3. RecOK(b, x) /\ SameThreads(a, b)
    BY <2>1, <2>2, QueueOK
  <2>4. PICK d : d = UpdateCache(b, c, FALSE)
    OBVIOUS
  <2>5. Same(b, d)
    BY <2>3, <2>4, UpdateCacheSame DEF RecOK
  <2>6. Same(d, FlagReady(d, c, t))
    BY <2>5, FlagReadySame DEF Same
  <2>7. ReadyThread(a, c, t) = FlagReady(d, c, t)
    BY <1>2, <2>1, <2>4 DEF ReadyThread
  <2>8. Same(b, ReadyThread(a, c, t))
    BY <2>5, <2>6, <2>7, SameTrans
  <2>9. QED
    BY <2>3, <2>8, SameRecOK DEF Same, SameThreads
<1>3. QED
  BY <1>1, <1>2

-----------------------------------------------------------------------------
(* Threads that leave a wait queue.                                        *)

(* The threads of S have been taken out of their wait queues. *)
Emptied(a, b, S) ==
  /\ b \in SchedRecs
  /\ b.cur = a.cur /\ b.isr = a.isr /\ b.slicing = a.slicing
  /\ \A u \in Threads :
       /\ b.flags[u] = IF u \in S THEN a.flags[u] \ {"pending"} ELSE a.flags[u]
       /\ b.timeout[u] => a.timeout[u] /\ u \notin S
  /\ SMP => \A v \in Waits, u \in Threads :
              In(b.waitq[v], u) <=> In(a.waitq[v], u) /\ u \notin S

LEMMA EmptiedTrans ==
  ASSUME NEW a, NEW b, NEW d, NEW S, NEW T, Emptied(a, b, S), Emptied(b, d, T)
  PROVE  Emptied(a, d, S \cup T)
BY DEF Emptied

LEMMA UnpendFields ==
  ASSUME NEW a \in SchedRecs, NEW t \in Threads
  PROVE  LET b == Unpend(a, t)
         IN  /\ b \in SchedRecs
             /\ b.runq = a.runq /\ b.queued = a.queued /\ b.cur = a.cur
             /\ b.timeout = a.timeout /\ b.isr = a.isr /\ b.slicing = a.slicing
             /\ b.flags = [a.flags EXCEPT ![t] = @ \ {"pending"}]
             /\ b.waitq = [w \in Waits |-> RemoveFirst(a.waitq[w], t)]
<1>1. a.waitq \in [Waits -> Seq(Threads)]
  BY DEF SchedRecs
<1>2. PICK g \in [Waits -> Seq(Threads)] : g = [w \in Waits |-> RemoveFirst(a.waitq[w], t)]
  BY <1>1, RemoveFirstUnlinks
<1>3. PICK d : d = [a EXCEPT !.flags[t] = @ \ {"pending"}]
  OBVIOUS
<1>4. d \in SchedRecs
  BY <1>3 DEF SchedRecs
<1>5. Unpend(a, t) = [d EXCEPT !.waitq = g]
  BY <1>2, <1>3 DEF Unpend, SchedRecs
<1>6. QED
  BY ZenonT(30), <1>2, <1>3, <1>4, <1>5 DEF SchedRecs

LEMMA TimeoutFields ==
  ASSUME NEW a \in SchedRecs, NEW t \in Threads, NEW v \in BOOLEAN
  PROVE  LET b == [a EXCEPT !.timeout[t] = v]
         IN  /\ b \in SchedRecs
             /\ b.runq = a.runq /\ b.queued = a.queued /\ b.cur = a.cur
             /\ b.flags = a.flags /\ b.isr = a.isr /\ b.slicing = a.slicing
             /\ b.waitq = a.waitq
             /\ b.timeout = [a.timeout EXCEPT ![t] = v]
BY DEF SchedRecs

LEMMA UntimedOK ==
  ASSUME NEW a, NEW x, RecOK(a, x), NEW t \in Threads
  PROVE  RecOK([a EXCEPT !.timeout[t] = FALSE], x)
<1>1. a \in SchedRecs /\ a.timeout \in [Threads -> BOOLEAN]
  BY DEF RecOK, SchedRecs
<1>2. PICK b : b = [a EXCEPT !.timeout[t] = FALSE]
  OBVIOUS
<1>3. /\ b \in SchedRecs
      /\ b.runq = a.runq /\ b.queued = a.queued /\ b.cur = a.cur
      /\ b.flags = a.flags /\ b.isr = a.isr /\ b.slicing = a.slicing
      /\ b.waitq = a.waitq
      /\ b.timeout = [a.timeout EXCEPT ![t] = FALSE]
  BY <1>1, <1>2, TimeoutFields
<1>8. \A u \in Threads : b.timeout[u] => a.timeout[u]
  BY <1>1, <1>3
<1>4. RunqOK(b) /\ CurOK(b)
  BY <1>3 DEF RecOK, RunqOK, CurOK
<1>5. ASSUME SMP PROVE FlagsOK(b)
  BY <1>3, <1>5, <1>8 DEF RecOK, FlagsOK, Prevented
<1>6. ASSUME SMP, NEW d \in CPUs PROVE RunningOK(b, d, x)
  BY <1>3, <1>6, <1>8 DEF RecOK, RunningOK, Prevented
<1>7. QED
  BY <1>2, <1>3, <1>4, <1>5, <1>6 DEF RecOK

(* unpend_thread_no_timeout *)
LEMMA UnpendOK ==
  ASSUME NEW a, NEW x, RecOK(a, x), NEW t \in Threads
  PROVE  /\ RecOK(Unpend(a, t), x) /\ Unpend(a, t).timeout = a.timeout
         /\ Unpend(a, t).queued = a.queued
         /\ Unpend(a, t).flags = [a.flags EXCEPT ![t] = @ \ {"pending"}]
         /\ ~a.timeout[t] => Emptied(a, Unpend(a, t), {t})
<1>1. /\ a \in SchedRecs /\ a.flags \in [Threads -> SUBSET Flags]
      /\ a.waitq \in [Waits -> Seq(Threads)] /\ a.timeout \in [Threads -> BOOLEAN]
  BY DEF RecOK, SchedRecs
<1>2. PICK b : b = Unpend(a, t)
  OBVIOUS
<1>3. /\ b \in SchedRecs
      /\ b.runq = a.runq /\ b.queued = a.queued /\ b.cur = a.cur
      /\ b.timeout = a.timeout /\ b.isr = a.isr /\ b.slicing = a.slicing
      /\ b.flags = [a.flags EXCEPT ![t] = @ \ {"pending"}]
      /\ b.waitq = [w \in Waits |-> RemoveFirst(a.waitq[w], t)]
  BY <1>1, <1>2, UnpendFields
<1>4. \A u \in Threads :
        b.flags[u] = IF u = t THEN a.flags[u] \ {"pending"} ELSE a.flags[u]
  BY <1>1, <1>3
<1>5. ASSUME SMP, NEW w \in Waits
      PROVE  /\ NoDup(b.waitq[w])
             /\ \A u : In(b.waitq[w], u) <=> In(a.waitq[w], u) /\ u # t
  <2>1. NoDup(a.waitq[w]) /\ a.waitq[w] \in Seq(Threads)
    BY <1>1, <1>5 DEF RecOK, FlagsOK
  <2>2. b.waitq[w] = RemoveFirst(a.waitq[w], t)
    BY <1>3
  <2>3. QED
    BY <2>1, <2>2, RemoveFirstUnlinks
<1>6. RunqOK(b) /\ CurOK(b)
  BY <1>3 DEF RecOK, RunqOK, CurOK
<1>7. \A u : Prevented(b, u) => Prevented(a, u)
  BY <1>4 DEF Prevented
<1>8. ASSUME SMP PROVE FlagsOK(b)
  <2>1. \A u \in Threads :
          /\ b.queued[u] => ~Prevented(b, u)
          /\ b.timeout[u] => "suspended" \in b.flags[u] /\ "sleep" \in ops
    BY <1>3, <1>4, <1>7, <1>8 DEF RecOK, FlagsOK
  <2>2. \A w \in Waits, u \in Threads : In(b.waitq[w], u) => "pending" \in b.flags[u]
    BY <1>4, <1>5, <1>8 DEF RecOK, FlagsOK
  <2>3. QED
    BY <1>3, <1>5, <1>8, <2>1, <2>2 DEF RecOK, FlagsOK
<1>9. ASSUME SMP, NEW d \in CPUs PROVE RunningOK(b, d, x)
  <2>1. RunningOK(a, d, x)
    BY <1>9 DEF RecOK
  <2>2. QED
    BY <1>3, <1>4, <1>7, <2>1 DEF RunningOK
<1>10. ~a.timeout[t] => Emptied(a, b, {t})
  BY <1>3, <1>4, <1>5 DEF Emptied
<1>11. QED
  BY <1>2, <1>3, <1>6, <1>8, <1>9, <1>10 DEF RecOK

(* One turn of unpend_all, and what k_sem_give and its like do. *)
LEMMA UnpendUntimedOK ==
  ASSUME NEW a, NEW x, RecOK(a, x), NEW t \in Threads
  PROVE  LET b == [Unpend(a, t) EXCEPT !.timeout[t] = FALSE]
         IN  RecOK(b, x) /\ Emptied(a, b, {t}) /\ b.queued = a.queued
<1>1. PICK d : d = Unpend(a, t)
  OBVIOUS
<1>2. /\ RecOK(d, x) /\ d.timeout = a.timeout /\ d.queued = a.queued
      /\ d.flags = [a.flags EXCEPT ![t] = @ \ {"pending"}]
  BY <1>1, UnpendOK
<1>3. /\ d \in SchedRecs /\ a \in SchedRecs /\ a.timeout \in [Threads -> BOOLEAN]
      /\ a.flags \in [Threads -> SUBSET Flags]
  BY <1>2 DEF RecOK, SchedRecs
<1>4. PICK b : b = [d EXCEPT !.timeout[t] = FALSE]
  OBVIOUS
<1>5. RecOK(b, x)
  BY <1>2, <1>4, UntimedOK
<1>6. PICK e : e = [a EXCEPT !.timeout[t] = FALSE]
  OBVIOUS
<1>7. /\ b \in SchedRecs /\ b.queued = d.queued /\ b.cur = d.cur /\ b.flags = d.flags
      /\ b.isr = d.isr /\ b.slicing = d.slicing /\ b.waitq = d.waitq
      /\ b.timeout = [d.timeout EXCEPT ![t] = FALSE]
  BY <1>3, <1>4, TimeoutFields
<1>8. /\ d.cur = a.cur /\ d.isr = a.isr /\ d.slicing = a.slicing
      /\ d.waitq = [w \in Waits |-> RemoveFirst(a.waitq[w], t)]
  BY <1>1, <1>3, UnpendFields
<1>9. ASSUME SMP, NEW w \in Waits
      PROVE  \A u : In(b.waitq[w], u) <=> In(a.waitq[w], u) /\ u # t
  <2>1. NoDup(a.waitq[w]) /\ a.waitq[w] \in Seq(Threads)
    BY <1>3, <1>9 DEF RecOK, FlagsOK, SchedRecs
  <2>2. b.waitq[w] = RemoveFirst(a.waitq[w], t)
    BY <1>7, <1>8
  <2>3. QED
    BY <2>1, <2>2, RemoveFirstUnlinks
<1>10. \A u \in Threads :
         b.flags[u] = IF u = t THEN a.flags[u] \ {"pending"} ELSE a.flags[u]
  BY <1>2, <1>3, <1>7
<1>11. \A u \in Threads : b.timeout[u] => a.timeout[u] /\ u # t
  BY <1>2, <1>3, <1>7
<1>12. Emptied(a, b, {t})
  BY <1>7, <1>8, <1>9, <1>10, <1>11 DEF Emptied
<1>13. QED
  BY <1>1, <1>2, <1>4, <1>5, <1>7, <1>12

LEMMA WakeOneOK ==
  ASSUME NEW a, NEW x, RecOK(a, x), NEW c \in CPUs, NEW t \in Threads,
         SMP => /\ \A d \in CPUs : a.cur[d] = t => d = c
                /\ "prio" \in ops /\ a.cur[c] = t => x = c
  PROVE  RecOK(WakeOne(a, c, t), x) /\ Emptied(a, WakeOne(a, c, t), {t})
<1>1. PICK b : b = [Unpend(a, t) EXCEPT !.timeout[t] = FALSE]
  OBVIOUS
<1>2. RecOK(b, x) /\ Emptied(a, b, {t})
  BY <1>1, UnpendUntimedOK
<1>3. b.cur = a.cur
  BY <1>2 DEF Emptied
<1>4. PICK e : e = ReadyThread(b, c, t)
  OBVIOUS
<1>5. RecOK(e, x) /\ SameThreads(b, e)
  BY <1>2, <1>3, <1>4, ReadyThreadOK
<1>6. Emptied(a, e, {t})
  BY <1>2, <1>5 DEF Emptied, SameThreads
<1>7. QED
  BY <1>1, <1>4, <1>5, <1>6 DEF WakeOne

(* unpend_all, as a walk of the queue. *)
WakeStep(a, c, q, f, n) == IF n = 0 THEN a ELSE WakeOne(f[n - 1], c, q[n])

LEMMA WakeWalkExists ==
  ASSUME NEW a, NEW c, NEW q, NEW n \in Nat
  PROVE  \E f : f = [m \in 0..n |-> WakeStep(a, c, q, f, m)]
<1> DEFINE P(k) == \E f : f = [m \in 0..k |-> WakeStep(a, c, q, f, m)]
           Bad == {k \in Nat : ~P(k)}
<1>1. P(0)
  <2>1. [m \in 0..0 |-> a] = [m \in 0..0 |-> WakeStep(a, c, q, [i \in 0..0 |-> a], m)]
    BY DEF WakeStep
  <2>2. QED
    BY <2>1
<1>2. ASSUME NEW k \in Nat, P(k)
      PROVE  P(k + 1)
  <2>1. PICK f : f = [m \in 0..k |-> WakeStep(a, c, q, f, m)]
    BY <1>2
  <2> DEFINE g == [m \in 0..(k + 1) |->
                     IF m = k + 1 THEN WakeStep(a, c, q, f, m) ELSE f[m]]
  <2>2. \A m \in 0..(k + 1) : m # 0 => m - 1 \in 0..k /\ g[m - 1] = f[m - 1]
    OBVIOUS
  <2>3. \A m \in 0..(k + 1) : WakeStep(a, c, q, g, m) = WakeStep(a, c, q, f, m)
    <3>1. TAKE m \in 0..(k + 1)
    <3>2. m # 0 => g[m - 1] = f[m - 1]
      BY <2>2
    <3> HIDE DEF g
    <3>3. QED
      BY <3>2 DEF WakeStep
  <2>4. \A m \in 0..(k + 1) : g[m] = WakeStep(a, c, q, f, m)
    <3>1. TAKE m \in 0..(k + 1)
    <3>2. CASE m = k + 1
      BY <3>2
    <3>3. CASE m # k + 1
      <4>1. m \in 0..k
        BY <3>3
      <4>2. f[m] = WakeStep(a, c, q, f, m)
        BY <2>1, <4>1
      <4>3. QED
        BY <3>3, <4>2
    <3>4. QED
      BY <3>2, <3>3
  <2>5. g = [m \in 0..(k + 1) |-> g[m]]
    OBVIOUS
  <2> HIDE DEF g
  <2>6. g = [m \in 0..(k + 1) |-> WakeStep(a, c, q, g, m)]
    BY <2>3, <2>4, <2>5
  <2>7. QED
    BY <2>6
<1> HIDE DEF P
<1>3. Bad = {}
  <2>1. SUFFICES ASSUME Bad # {} PROVE FALSE
    OBVIOUS
  <2>2. PICK k \in Bad : \A j \in Bad : k =< j
    <3>1. Bad \in SUBSET Nat
      OBVIOUS
    <3> HIDE DEF Bad
    <3>2. QED
      BY <2>1, <3>1, LeastNatural
  <2>3. k # 0 /\ k \in Nat /\ ~P(k)
    BY <1>1, <2>2
  <2>4. k - 1 \in Nat /\ k - 1 \notin Bad /\ (k - 1) + 1 = k
    BY <2>2, <2>3
  <2>5. P(k - 1)
    BY <2>4
  <2>6. P((k - 1) + 1)
    BY <1>2, <2>4, <2>5
  <2>7. QED
    BY <2>3, <2>4, <2>6
<1>4. QED
  BY <1>3 DEF P

WaitingOn(q) == {u \in Threads : In(q, u)}

(* It empties the queue.  Nobody in it runs, but for the thread of the CPU *)
(* that is inside the scheduler.                                           *)
LEMMA UnpendAllOK ==
  ASSUME NEW a, NEW x, RecOK(a, x), NEW c \in CPUs, x = c \/ x = None, NEW w \in Waits
  PROVE  /\ RecOK(UnpendAll(a, c, w), x)
         /\ Emptied(a, UnpendAll(a, c, w), WaitingOn(a.waitq[w]))
<1> DEFINE q == a.waitq[w]
           Walk == CHOOSE f : f = [n \in 0..Len(q) |-> WakeStep(a, c, q, f, n)]
           First(n) == {u \in Threads : \E i \in 1..n : q[i] = u}
           Good(n) == RecOK(Walk[n], x) /\ Emptied(a, Walk[n], First(n))
<1>1. a \in SchedRecs /\ q \in Seq(Threads) /\ Len(q) \in Nat
  BY DEF RecOK, SchedRecs
<1>2. UnpendAll(a, c, w) = Walk[Len(q)]
  BY DEF UnpendAll, WakeStep
<1>3. Walk = [n \in 0..Len(q) |-> WakeStep(a, c, q, Walk, n)]
  BY <1>1, WakeWalkExists
<1> HIDE DEF Walk
<1>4. \A n \in 0..Len(q) : Walk[n] = WakeStep(a, c, q, Walk, n)
  BY <1>3
<1>5. Good(0)
  <2>1. 0 \in 0..Len(q) /\ Walk[0] = WakeStep(a, c, q, Walk, 0)
    BY <1>1, <1>4
  <2>2. Walk[0] = a
    BY <2>1 DEF WakeStep
  <2>3. First(0) = {}
    OBVIOUS
  <2>4. Emptied(a, a, {})
    BY <1>1 DEF Emptied
  <2>5. QED
    BY <2>2, <2>3, <2>4
<1>6. ASSUME NEW k \in 0..Len(q), k # 0, Good(k - 1)
      PROVE  Good(k)
  <2>1. k \in 1..Len(q)
    BY <1>1, <1>6
  <2>2. PICK t \in Threads : t = q[k] /\ In(q, t)
    BY <1>1, <2>1 DEF In
  <2>3. PICK b : b = Walk[k - 1] /\ RecOK(b, x) /\ Emptied(a, b, First(k - 1))
    BY <1>6
  <2>4. Walk[k] = WakeOne(b, c, t)
    BY <1>4, <1>6, <2>2, <2>3 DEF WakeStep
  <2>5. SMP => \A d \in CPUs : b.cur[d] = t => d = x
    <3>1. b.cur = a.cur
      BY <2>3 DEF Emptied
    <3>2. SMP => "pending" \in a.flags[t]
      BY <2>2 DEF RecOK, FlagsOK
    <3>3. QED
      BY <3>1, <3>2 DEF RecOK, RunningOK
  <2>6. None \notin CPUs
    BY SchedTypes
  <2>7. /\ SMP => \A d \in CPUs : b.cur[d] = t => d = c
        /\ SMP /\ b.cur[c] = t => x = c
    BY <2>5, <2>6
  <2>8. PICK e : e = WakeOne(b, c, t)
    OBVIOUS
  <2>9. RecOK(e, x) /\ Emptied(b, e, {t})
    BY <2>3, <2>7, <2>8, WakeOneOK
  <2>10. First(k) = First(k - 1) \cup {t}
    BY <1>1, <2>1, <2>2
  <2> HIDE DEF First
  <2>11. Emptied(a, e, First(k))
    BY <2>3, <2>9, <2>10, EmptiedTrans
  <2>12. QED
    BY <2>4, <2>8, <2>9, <2>11
<1> DEFINE Bad == {n \in 0..Len(q) : ~Good(n)}
<1> HIDE DEF Good
<1>7. Bad = {}
  <2>1. SUFFICES ASSUME Bad # {} PROVE FALSE
    OBVIOUS
  <2>2. PICK k \in Bad : \A j \in Bad : k =< j
    <3>1. Bad \in SUBSET Nat
      BY <1>1
    <3> HIDE DEF Bad
    <3>2. QED
      BY <2>1, <3>1, LeastNatural
  <2>3. k # 0 /\ k \in 0..Len(q) /\ ~Good(k)
    BY <1>5, <2>2
  <2>4. k - 1 \in 0..Len(q) /\ k - 1 \notin Bad
    BY <1>1, <2>2, <2>3
  <2>5. QED
    BY <1>6, <2>3, <2>4
<1>8. Good(Len(q))
  BY <1>1, <1>7
<1>9. First(Len(q)) = WaitingOn(q)
  BY DEF WaitingOn, In
<1>10. QED
  BY <1>2, <1>8, <1>9 DEF Good

-----------------------------------------------------------------------------
(* Halting.                                                                *)

(* What the handler of a thread's timeout relies on once the timeout has   *)
(* been unlinked, and the steps that leave it alone.                       *)
Fires(a, t, x) ==
  /\ "suspended" \in a.flags[t] /\ ~a.timeout[t]
  /\ \A d \in CPUs : a.cur[d] = t => x = d

Keeps(a, b) ==
  /\ \A d \in CPUs : b.cur[d] \in Threads => b.cur[d] = a.cur[d]
  /\ \A u \in Threads : /\ "suspended" \in a.flags[u] => "suspended" \in b.flags[u]
                        /\ b.timeout[u] => a.timeout[u]

LEMMA KeepsFires ==
  ASSUME NEW a, NEW b, NEW x, NEW t \in Threads, Keeps(a, b), Fires(a, t, x)
  PROVE  Fires(b, t, x)
BY DEF Keeps, Fires

LEMMA KeepsTrans ==
  ASSUME NEW a, NEW b, NEW d, Keeps(a, b), Keeps(b, d)
  PROVE  Keeps(a, d)
BY DEF Keeps

LEMMA SameKeeps ==
  ASSUME NEW a, NEW b
  PROVE  /\ Same(a, b) => Keeps(a, b)
         /\ SameThreads(a, b) => Keeps(a, b)
         /\ \A S : Emptied(a, b, S) => Keeps(a, b)
BY DEF Same, SameThreads, Emptied, Keeps

LEMMA FlagFields ==
  ASSUME NEW a \in SchedRecs, NEW t \in Threads, NEW S \in SUBSET Flags
  PROVE  LET b == [a EXCEPT !.flags[t] = S]
         IN  /\ b \in SchedRecs
             /\ b.runq = a.runq /\ b.queued = a.queued /\ b.cur = a.cur
             /\ b.timeout = a.timeout /\ b.isr = a.isr /\ b.slicing = a.slicing
             /\ b.waitq = a.waitq
             /\ \A u \in Threads : b.flags[u] = IF u = t THEN S ELSE a.flags[u]
BY DEF SchedRecs

(* A thread may get a flag if it is out of the run queue and, on SMP, does *)
(* not run but on the CPU that is inside the scheduler; one that was       *)
(* interrupted may be suspended or die.  A request to halt is always fine. *)
Requests == {"aborting", "suspending"}

LEMMA MarkOK ==
  ASSUME NEW a, NEW x, RecOK(a, x), NEW t \in Threads, NEW f \in Flags \ {"prestart"},
         ~a.queued[t] \/ f \in Requests,
         SMP => \A d \in CPUs : a.cur[d] = t =>
                  \/ d = x \/ f \in Requests
                  \/ /\ f \in {"dead", "suspended"} /\ a.isr[d]
                     /\ f = "suspended" => "resume" \notin ops
  PROVE  LET b == [a EXCEPT !.flags[t] = @ \cup {f}]
         IN  /\ RecOK(b, x) /\ Keeps(a, b) /\ f \in b.flags[t]
             /\ b.cur = a.cur /\ b.isr = a.isr /\ b.queued = a.queued /\ b.timeout = a.timeout
             /\ b.runq = a.runq
<1>1. a \in SchedRecs /\ a.flags[t] \cup {f} \in SUBSET Flags
  BY DEF RecOK, SchedRecs
<1>2. PICK b : b = [a EXCEPT !.flags[t] = a.flags[t] \cup {f}]
  OBVIOUS
<1>3. /\ b \in SchedRecs
      /\ b.runq = a.runq /\ b.queued = a.queued /\ b.cur = a.cur
      /\ b.timeout = a.timeout /\ b.isr = a.isr /\ b.slicing = a.slicing
      /\ b.waitq = a.waitq
      /\ \A u \in Threads : b.flags[u] = IF u = t THEN a.flags[t] \cup {f} ELSE a.flags[u]
  BY SMTT(30), <1>1, <1>2, FlagFields
<1>4. RunqOK(b) /\ CurOK(b)
  BY <1>3 DEF RecOK, RunqOK, CurOK
<1>5. \A u : Prevented(b, u) => Prevented(a, u) \/ (u = t /\ f \notin Requests)
  BY <1>3 DEF Prevented, Flags, Requests
<1>6. ASSUME SMP PROVE FlagsOK(b)
  BY <1>3, <1>5, <1>6 DEF RecOK, FlagsOK
<1>7. ASSUME SMP, NEW d \in CPUs PROVE RunningOK(b, d, x)
  <2>1. RunningOK(a, d, x)
    BY <1>7 DEF RecOK
  <2>2. CASE a.cur[d] # t
    BY <1>3, <1>5, <2>1, <2>2 DEF RunningOK
  <2>3. CASE a.cur[d] = t
    <3>1. CASE d = x
      BY <1>3, <2>1, <2>3, <3>1 DEF RunningOK
    <3>2. CASE f \in Requests
      BY <1>3, <1>5, <2>1, <2>3, <3>2 DEF RunningOK, Requests
    <3>3. CASE f \in {"dead", "suspended"} /\ a.isr[d] /\ (f = "suspended" => "resume" \notin ops)
      BY <1>3, <2>1, <2>3, <3>3 DEF RunningOK
    <3>4. QED
      BY <1>7, <2>3, <3>1, <3>2, <3>3
  <2>4. QED
    BY <2>2, <2>3
<1>8. Keeps(a, b)
  BY <1>3 DEF Keeps
<1>9. QED
  BY <1>2, <1>3, <1>4, <1>6, <1>7, <1>8 DEF RecOK

(* Flags that have no part in it are cleared freely. *)
LEMMA UnmarkOK ==
  ASSUME NEW a, NEW x, RecOK(a, x), NEW t \in Threads
  PROVE  LET b == [a EXCEPT !.flags[t] = @ \ Requests]
         IN  /\ RecOK(b, x) /\ Keeps(a, b)
             /\ b.cur = a.cur /\ b.isr = a.isr
             /\ \A f \in a.flags[t] \ Requests : f \in b.flags[t]
<1>1. a \in SchedRecs /\ a.flags[t] \ Requests \in SUBSET Flags
  BY DEF RecOK, SchedRecs
<1>2. PICK b : b = [a EXCEPT !.flags[t] = a.flags[t] \ Requests]
  OBVIOUS
<1>3. /\ b \in SchedRecs
      /\ b.runq = a.runq /\ b.queued = a.queued /\ b.cur = a.cur
      /\ b.timeout = a.timeout /\ b.isr = a.isr /\ b.slicing = a.slicing
      /\ b.waitq = a.waitq
      /\ \A u \in Threads : b.flags[u] = IF u = t THEN a.flags[t] \ Requests ELSE a.flags[u]
  BY SMTT(60), <1>1, <1>2, FlagFields
<1>4. RunqOK(b) /\ CurOK(b)
  BY <1>3 DEF RecOK, RunqOK, CurOK
<1>5. \A u : Prevented(b, u) <=> Prevented(a, u)
  BY <1>3 DEF Prevented, Requests
<1>6. \A u \in Threads : \A f \in {"prestart", "pending", "suspended"} :
        f \in b.flags[u] <=> f \in a.flags[u]
  BY <1>3 DEF Requests
<1>7. ASSUME SMP PROVE FlagsOK(b)
  BY <1>3, <1>5, <1>6, <1>7 DEF RecOK, FlagsOK
<1>8. ASSUME SMP, NEW d \in CPUs PROVE RunningOK(b, d, x)
  BY <1>3, <1>5, <1>6, <1>8 DEF RecOK, RunningOK
<1>9. Keeps(a, b)
  BY <1>3, <1>6 DEF Keeps
<1>10. QED
  BY <1>2, <1>3, <1>4, <1>7, <1>8, <1>9 DEF RecOK

(* _thread_dummy takes the place of a dead thread. *)
LEMMA DummyOK ==
  ASSUME NEW a, NEW x, RecOK(a, x), NEW c \in CPUs,
         SMP /\ a.cur[c] \in Threads => Prevented(a, a.cur[c])
  PROVE  LET b == [a EXCEPT !.cur[c] = Dummy]
         IN  RecOK(b, x) /\ Keeps(a, b) /\ b.flags = a.flags /\ b.isr = a.isr
<1>1. a \in SchedRecs /\ a.cur \in [CPUs -> Threads \cup {Idle, Dummy}]
  BY DEF RecOK, SchedRecs
<1>2. PICK b : b = [a EXCEPT !.cur[c] = Dummy]
  OBVIOUS
<1>3. /\ b \in SchedRecs
      /\ b.runq = a.runq /\ b.queued = a.queued /\ b.flags = a.flags
      /\ b.timeout = a.timeout /\ b.isr = a.isr /\ b.slicing = a.slicing
      /\ b.waitq = a.waitq
  BY <1>1, <1>2 DEF SchedRecs
<1>4. \A d \in CPUs : b.cur[d] = IF d = c THEN Dummy ELSE a.cur[d]
  BY <1>1, <1>2
<1>5. RunqOK(b)
  <2>1. SMP => ~Queued(a, a.cur[c])
    BY DEF RecOK, FlagsOK, Queued
  <2>2. QED
    BY <1>3, <1>4, <2>1 DEF RecOK, RunqOK, Queued
<1>6. CurOK(b)
  BY <1>4, SchedTypes DEF RecOK, CurOK
<1>7. ASSUME SMP PROVE FlagsOK(b)
  BY <1>3, <1>7 DEF RecOK, FlagsOK, Prevented
<1>8. ASSUME SMP, NEW d \in CPUs PROVE RunningOK(b, d, x)
  BY <1>3, <1>4, <1>8, SchedTypes DEF RecOK, RunningOK, Prevented
<1>9. Keeps(a, b)
  BY <1>3, <1>4, SchedTypes DEF Keeps
<1>10. QED
  BY <1>2, <1>3, <1>5, <1>6, <1>7, <1>8, <1>9 DEF RecOK

(* The thread is marked, then taken out of the run queue. *)
LEMMA UnqueueMarked ==
  ASSUME NEW a \in SchedRecs, NEW c \in CPUs, NEW t \in Threads, NEW f
  PROVE  Unqueue([a EXCEPT !.flags[t] = @ \cup {f}], c, t)
           = [Unqueue(a, c, t) EXCEPT !.flags[t] = @ \cup {f}]
<1>1. PICK b : b = [a EXCEPT !.flags[t] = a.flags[t] \cup {f}]
  OBVIOUS
<1>2. /\ b.queued = a.queued /\ b.cur = a.cur /\ b.runq = a.runq
      /\ b.flags = [a.flags EXCEPT ![t] = a.flags[t] \cup {f}]
  BY <1>1 DEF SchedRecs
<1>3. ShouldQueue(b, c, t) = ShouldQueue(a, c, t) /\ Queued(b, t) = Queued(a, t)
  BY <1>2 DEF ShouldQueue, Queued
<1>4. PICK r : r = IF ShouldQueue(a, c, t) THEN RemoveFirst(a.runq, t) ELSE a.runq
  OBVIOUS
<1>5. DequeueThread(b, c, t) = [b EXCEPT !.queued = [a.queued EXCEPT ![t] = FALSE], !.runq = r]
  BY <1>1, <1>2, <1>3, <1>4 DEF DequeueThread, SchedRecs
<1>6. DequeueThread(a, c, t) = [a EXCEPT !.queued = [a.queued EXCEPT ![t] = FALSE], !.runq = r]
  BY <1>4 DEF DequeueThread, SchedRecs
<1>7. [DequeueThread(a, c, t) EXCEPT !.flags[t] = @ \cup {f}] = DequeueThread(b, c, t)
  BY <1>1, <1>5, <1>6 DEF SchedRecs
<1>8. QED
  BY <1>1, <1>3, <1>7 DEF Unqueue

LEMMA LeaveOK ==
  ASSUME NEW a, NEW x, RecOK(a, x), NEW c \in CPUs, x = c \/ x = None,
         NEW t \in Threads, NEW new
  PROVE  LET b == Leave(a, c, t, new)
         IN  /\ RecOK(b, x) /\ Keeps(a, b) /\ b.cur = a.cur /\ b.isr = a.isr
             /\ \A f \in a.flags[t] \ {"pending"} : f \in b.flags[t]
<1>1. CASE new # "dead"
  <2>1. Keeps(a, a)
    BY DEF Keeps
  <2>2. QED
    BY <1>1, <2>1 DEF Leave
<1>2. CASE new = "dead"
  <2>1. PICK b : b = [Unpend(a, t) EXCEPT !.timeout[t] = FALSE]
    OBVIOUS
  <2>2. RecOK(b, x) /\ Emptied(a, b, {t})
    BY <2>1, UnpendUntimedOK
  <2>3. <<"join", t>> \in Waits
    BY DEF Waits
  <2>4. PICK d, S : d = UnpendAll(b, c, <<"join", t>>) /\ RecOK(d, x) /\ Emptied(b, d, S)
    BY <2>2, <2>3, UnpendAllOK
  <2>5. Leave(a, c, t, new) = d
    BY <1>2, <2>1, <2>4 DEF Leave
  <2>6. Keeps(a, b) /\ Keeps(b, d)
    BY <2>2, <2>4, SameKeeps
  <2>7. d.cur = a.cur /\ d.isr = a.isr
    BY <2>2, <2>4 DEF Emptied
  <2>8. \A f \in a.flags[t] \ {"pending"} : f \in d.flags[t]
    BY <2>2, <2>4 DEF Emptied
  <2>9. QED
    BY <2>4, <2>5, <2>6, <2>7, <2>8, KeepsTrans
<1>3. QED
  BY <1>1, <1>2

LEMMA ReleaseHaltersOK ==
  ASSUME NEW a, NEW x, RecOK(a, x), NEW c \in CPUs, x = c \/ x = None, NEW t \in Threads
  PROVE  LET b == ReleaseHalters(a, c, t)
         IN  /\ RecOK(b, x) /\ Keeps(a, b) /\ b.cur = a.cur /\ b.isr = a.isr
             /\ \A f \in a.flags[t] \ {"pending"} : f \in b.flags[t]
<1>1. CASE ~SMP
  <2>1. Keeps(a, a)
    BY DEF Keeps
  <2>2. QED
    BY <1>1, <2>1 DEF ReleaseHalters
<1>2. CASE SMP
  <2>1. <<"halt", t>> \in Waits
    BY DEF Waits
  <2>2. PICK d, S : d = UnpendAll(a, c, <<"halt", t>>) /\ RecOK(d, x) /\ Emptied(a, d, S)
    BY <2>1, UnpendAllOK
  <2>3. ReleaseHalters(a, c, t) = d
    BY <1>2, <2>2 DEF ReleaseHalters
  <2>4. Keeps(a, d)
    BY <2>2, SameKeeps
  <2>5. /\ d.cur = a.cur /\ d.isr = a.isr
        /\ \A f \in a.flags[t] \ {"pending"} : f \in d.flags[t]
    BY <2>2 DEF Emptied
  <2>6. QED
    BY <2>2, <2>3, <2>4, <2>5
<1>3. QED
  BY <1>1, <1>2

(* halt_thread: the thread is the CPU's own or runs nowhere.  Its own      *)
(* thread may halt inside the scheduler, or in an interrupt where nobody   *)
(* resumes it.                                                             *)
LEMMA HaltThreadOK ==
  ASSUME NEW a, NEW x, RecOK(a, x), NEW c \in CPUs, x = c \/ x = None,
         NEW t \in Threads, NEW new \in {"dead", "suspended"},
         SMP => \A d \in CPUs : a.cur[d] = t => d = c,
         SMP /\ a.cur[c] = t =>
           x = c \/ (a.isr[c] /\ (new = "suspended" => "resume" \notin ops))
  PROVE  LET b == HaltThread(a, c, t, new)
         IN  /\ RecOK(b, x) /\ Keeps(a, b) /\ b.isr = a.isr
             /\ \A d \in CPUs : b.cur[d] = a.cur[d] \/ b.cur[d] = Dummy
<1>1. CASE new \in a.flags[t]
  <2>1. Keeps(a, a)
    BY DEF Keeps
  <2>2. QED
    BY <1>1, <2>1 DEF HaltThread
<1>2. CASE new \notin a.flags[t]
  <2>1. a \in SchedRecs
    BY DEF RecOK
  <2>2. PICK b : /\ b = Unqueue(a, c, t) /\ RecOK(b, x) /\ SameThreads(a, b)
                 /\ ~b.queued[t]
    BY UnqueueOK
  <2>3. b.cur = a.cur /\ b.isr = a.isr /\ Keeps(a, b)
    BY <2>2, SameKeeps DEF SameThreads
  <2>4. new \in Flags \ {"prestart"} /\ new \notin Requests
    BY DEF Flags, Requests
  <2>5. PICK d : d = [b EXCEPT !.flags[t] = @ \cup {new}]
    OBVIOUS
  <2>6. /\ RecOK(d, x) /\ Keeps(b, d) /\ new \in d.flags[t]
        /\ d.cur = a.cur /\ d.isr = a.isr
    BY <2>2, <2>3, <2>4, <2>5, MarkOK
  <2>7. d = Unqueue([a EXCEPT !.flags[t] = @ \cup {new}], c, t)
    BY <2>1, <2>2, <2>5, UnqueueMarked
  <2>8. PICK e : /\ e = Leave(d, c, t, new) /\ RecOK(e, x) /\ Keeps(d, e)
                 /\ e.cur = a.cur /\ e.isr = a.isr /\ new \in e.flags[t]
    BY <2>6, LeaveOK
  <2>9. PICK g : /\ g = ReleaseHalters(e, c, t) /\ RecOK(g, x) /\ Keeps(e, g)
                 /\ g.cur = a.cur /\ g.isr = a.isr /\ new \in g.flags[t]
    BY <2>8, ReleaseHaltersOK
  <2>10. PICK h : h = UpdateCache(g, c, TRUE)
    OBVIOUS
  <2>11. Same(g, h)
    BY <2>9, <2>10, UpdateCacheSame DEF RecOK
  <2>12. /\ RecOK(h, x) /\ Keeps(g, h)
         /\ h.cur = a.cur /\ h.isr = a.isr /\ new \in h.flags[t]
    BY <2>9, <2>11, SameRecOK, SameKeeps DEF Same
  <2>13. PICK k : k = [h EXCEPT !.flags[t] = @ \ Requests]
    OBVIOUS
  <2>14. /\ RecOK(k, x) /\ Keeps(h, k)
         /\ k.cur = a.cur /\ k.isr = a.isr /\ new \in k.flags[t]
    BY <2>4, <2>12, <2>13, UnmarkOK
  <2>15. h \in SchedRecs /\ k \in SchedRecs
    BY <2>12, <2>14 DEF RecOK
  <2>16. Keeps(a, k)
    BY <2>3, <2>6, <2>8, <2>9, <2>12, <2>14, KeepsTrans
  <2>17. PICK v : v = IF new = "dead" /\ a.cur[c] = t /\ a.isr[c] THEN Dummy ELSE a.cur[c]
    OBVIOUS
  <2>18. HaltThread(a, c, t, new) = [h EXCEPT !.flags[t] = @ \ {"aborting", "suspending"},
            !.cur[c] = IF new = "dead" /\ @ = t /\ a.isr[c] THEN Dummy ELSE @]
    BY <1>2, <2>7, <2>8, <2>9, <2>10 DEF HaltThread
  <2>19. HaltThread(a, c, t, new) = [k EXCEPT !.cur[c] = v]
    BY <2>12, <2>13, <2>15, <2>17, <2>18 DEF Requests, SchedRecs
  <2>20. CASE v = a.cur[c]
    <3>1. [k EXCEPT !.cur[c] = v] = k
      BY <2>14, <2>15, <2>20 DEF SchedRecs
    <3>2. QED
      BY <2>14, <2>16, <2>19, <3>1
  <2>21. CASE v = Dummy /\ a.cur[c] = t
    <3>1. Prevented(k, t)
      BY <2>14 DEF Prevented
    <3>6. RecOK(k, x) /\ Prevented(k, k.cur[c]) /\ k.isr = a.isr
      BY <2>14, <2>21, <3>1
    <3>7. PICK m : m = [k EXCEPT !.cur[c] = Dummy]
      OBVIOUS
    <3>2. m = [k EXCEPT !.cur[c] = Dummy] /\ RecOK(m, x) /\ Keeps(k, m) /\ m.isr = a.isr
      BY <3>6, <3>7, DummyOK
    <3>3. Keeps(a, m)
      BY <2>16, <3>2, KeepsTrans
    <3>4. \A d_1 \in CPUs : m.cur[d_1] = a.cur[d_1] \/ m.cur[d_1] = Dummy
      BY <2>14, <2>15, <3>2 DEF SchedRecs
    <3>5. QED
      BY <2>19, <2>21, <3>2, <3>3, <3>4
  <2>22. QED
    BY <2>17, <2>20, <2>21
<1>3. QED
  BY <1>1, <1>2

(* What a CPU does to its own thread if that was told to halt. *)
LEMMA HaltCurrentOK ==
  ASSUME NEW a, NEW x, RecOK(a, x), NEW c \in CPUs,
         x = c \/ (x = None /\ a.isr[c] /\ "resume" \notin ops)
  PROVE  LET b == HaltCurrent(a, c)
         IN  /\ RecOK(b, x) /\ Keeps(a, b) /\ b.isr = a.isr
             /\ \A d \in CPUs : b.cur[d] = a.cur[d] \/ b.cur[d] = Dummy
<1>1. CASE ~Halting(a, a.cur[c])
  <2>1. Keeps(a, a)
    BY DEF Keeps
  <2>2. QED
    BY <1>1, <2>1 DEF HaltCurrent
<1>2. CASE Halting(a, a.cur[c])
  <2>1. PICK t \in Threads : t = a.cur[c]
    BY <1>2 DEF Halting
  <2>2. PICK new \in {"dead", "suspended"} :
          new = IF "aborting" \in a.flags[t] THEN "dead" ELSE "suspended"
    OBVIOUS
  <2>3. HaltCurrent(a, c) = HaltThread(a, c, t, new)
    BY <1>2, <2>1, <2>2 DEF HaltCurrent
  <2>4. \A d \in CPUs : a.cur[d] = t => d = c
    BY <2>1 DEF RecOK, CurOK
  <2>5. QED
    BY <2>1, <2>3, <2>4, HaltThreadOK
<1>3. QED
  BY <1>1, <1>2

-----------------------------------------------------------------------------
(* The choice of the next thread.                                          *)

LEMMA WeighFacts ==
  ASSUME NEW a, NEW c \in CPUs, RecOK(a, c), NEW n \in Threads \cup {Idle},
         n \in Threads => ~Prevented(a, n)
  PROVE  /\ Weigh(a, c, n) \in Threads \cup {Idle}
         /\ Weigh(a, c, n) \in Threads => ~Prevented(a, Weigh(a, c, n))
<1>1. a.cur[c] \in Threads \cup {Idle, Dummy}
  BY DEF RecOK, SchedRecs
<1>2. Prevented(a, Dummy)
  BY DEF Prevented
<1>3. CASE Weigh(a, c, n) = n
  BY <1>3
<1>4. CASE Weigh(a, c, n) = a.cur[c] /\ ~Prevented(a, a.cur[c])
  BY <1>1, <1>2, <1>4
<1>5. QED
  BY <1>3, <1>4 DEF Weigh

LEMMA RequeueOK ==
  ASSUME NEW a, NEW c \in CPUs, RecOK(a, c), NEW new
  PROVE  RecOK(Requeue(a, c, new), c) /\ SameThreads(a, Requeue(a, c, new))
<1>1. CASE Requeue(a, c, new) = a
  <2>1. SameThreads(a, a)
    BY DEF SameThreads, RecOK
  <2>2. QED
    BY <1>1, <2>1
<1>2. CASE /\ Requeue(a, c, new) = QueueThread(a, c, a.cur[c])
           /\ ~Prevented(a, a.cur[c]) /\ a.cur[c] # Idle /\ ~Queued(a, a.cur[c])
  <2>1. a.cur[c] \in Threads \cup {Idle, Dummy}
    BY DEF RecOK, SchedRecs
  <2>2. Prevented(a, Dummy)
    BY DEF Prevented
  <2>3. PICK t \in Threads : t = a.cur[c] /\ ~Prevented(a, t)
    BY <1>2, <2>1, <2>2
  <2>4. ~In(a.runq, t)
    BY <1>2, <2>3 DEF RecOK, RunqOK, Queued
  <2>5. \A d \in CPUs : a.cur[d] = t => d = c
    BY <2>3 DEF RecOK, CurOK
  <2>6. QED
    BY <1>2, <2>3, <2>4, <2>5, QueueOK
<1>3. QED
  BY <1>1, <1>2 DEF Requeue

LEMMA ExchangeOK ==
  ASSUME NEW a, NEW c \in CPUs, RecOK(a, c), NEW new \in Threads \cup {Idle},
         new \in Threads => ~Prevented(a, new)
  PROVE  LET n == Exchange(a, c, new)
         IN  /\ RecOK(n.st, c) /\ SameThreads(a, n.st)
             /\ n.th = new /\ NextOK(n.st, new)
<1>1. PICK b : b = Requeue(a, c, new) /\ RecOK(b, c) /\ SameThreads(a, b)
  BY RequeueOK
<1>2. PICK d : /\ d = Unqueue(b, c, new) /\ RecOK(d, c) /\ SameThreads(b, d)
               /\ new \in Threads => ~d.queued[new]
  BY <1>1, UnqueueOK
<1>3. d \in SchedRecs
  BY <1>2 DEF RecOK
<1>4. PICK e : e = [d EXCEPT !.swapOk[c] = FALSE]
  OBVIOUS
<1>5. Same(d, e)
  BY <1>3, <1>4, SwapOkSame
<1>6. RecOK(e, c)
  BY <1>2, <1>5, SameRecOK
<1>7. e.flags = a.flags /\ e.queued = d.queued /\ SameThreads(a, e)
  BY <1>1, <1>2, <1>5 DEF SameThreads, Same
<1>8. NextOK(e, new)
  BY <1>2, <1>7 DEF NextOK, Prevented
<1>9. Exchange(a, c, new).st = e /\ Exchange(a, c, new).th = new
  BY <1>1, <1>2, <1>4 DEF Exchange
<1>10. QED
  BY <1>6, <1>7, <1>8, <1>9

LEMMA NextUpOK ==
  ASSUME SMP, NEW a, NEW c \in CPUs, RecOK(a, c)
  PROVE  LET n == NextUp(a, c)
         IN  /\ RecOK(n.st, c) /\ Keeps(a, n.st) /\ NextOK(n.st, n.th)
             /\ \A d \in CPUs : n.st.cur[d] = a.cur[d] \/ n.st.cur[d] = Dummy
<1>1. PICK h : /\ h = HaltCurrent(a, c) /\ RecOK(h, c) /\ Keeps(a, h)
               /\ \A d \in CPUs : h.cur[d] = a.cur[d] \/ h.cur[d] = Dummy
  BY HaltCurrentOK
<1>2. h \in SchedRecs
  BY <1>1 DEF RecOK
<1>14. PICK p, t : p = Pick(h, c).st /\ t = Pick(h, c).th
  OBVIOUS
<1>3. /\ p = Pick(h, c).st /\ t = Pick(h, c).th /\ Same(h, p) /\ t \in Threads \cup {Idle}
      /\ t \in Threads => In(h.runq, t) \/ ~Prevented(h, t)
  BY <1>2, <1>14, PickFacts
<1>4. RecOK(p, c)
  BY <1>1, <1>3, SameRecOK
<1>5. p.runq = h.runq /\ p.flags = h.flags /\ p.cur = h.cur
  BY <1>3 DEF Same
<1>6. t \in Threads => ~Prevented(p, t)
  <2>1. Prevented(p, t) = Prevented(h, t)
    BY <1>5 DEF Prevented
  <2>2. t \in Threads /\ In(p.runq, t) => ~Prevented(p, t)
    BY <1>4 DEF RecOK, RunqOK, FlagsOK
  <2>3. QED
    BY <1>3, <1>5, <2>1, <2>2
<1>7. PICK new \in Threads \cup {Idle} :
        new = Weigh(p, c, t) /\ (new \in Threads => ~Prevented(p, new))
  BY <1>3, <1>4, <1>6, WeighFacts
<1>8. PICK n : n = Exchange(p, c, new)
  OBVIOUS
<1>9. RecOK(n.st, c) /\ SameThreads(p, n.st) /\ n.th = new /\ NextOK(n.st, new)
  BY <1>4, <1>7, <1>8, ExchangeOK
<1>10. NextUp(a, c) = n
  BY <1>1, <1>3, <1>7, <1>8 DEF NextUp, WeighPick
<1>11. Keeps(a, n.st)
  BY <1>1, <1>3, <1>9, SameKeeps, KeepsTrans
<1>12. n.st.cur = h.cur
  BY <1>5, <1>9 DEF SameThreads
<1>13. QED
  BY <1>1, <1>9, <1>10, <1>11, <1>12

(* The CPU's own thread, chosen again, is an ordinary running thread. *)
LEMMA KeptOK ==
  ASSUME NEW a, NEW c \in CPUs, NEW t, RecOK(a, c), NextOK(a, t),
         a.cur[c] = t \/ a.cur[c] = Dummy
  PROVE  RecOK(a, None)
<1>1. ASSUME SMP, NEW d \in CPUs PROVE RunningOK(a, d, None)
  <2>1. CASE d # c
    BY <1>1, <2>1 DEF RecOK, RunningOK
  <2>2. CASE d = c
    <3>1. CASE a.cur[c] \in Threads
      <4>1. a.cur[c] = t
        BY <3>1, SchedTypes
      <4>2. ~Prevented(a, t) /\ ~a.queued[t]
        BY <3>1, <4>1 DEF NextOK
      <4>3. "pending" \notin a.flags[t] /\ "suspended" \notin a.flags[t]
        BY <3>1, <4>1, <4>2 DEF Prevented
      <4>4. ~a.timeout[t]
        BY <1>1, <3>1, <4>1, <4>3 DEF RecOK, FlagsOK
      <4>5. RunningOK(a, c, c)
        BY <1>1 DEF RecOK
      <4>6. QED
        BY <2>2, <4>1, <4>2, <4>3, <4>4, <4>5 DEF RunningOK
    <3>2. CASE a.cur[c] \notin Threads
      BY <2>2, <3>2 DEF RunningOK
    <3>3. QED
      BY <3>1, <3>2
  <2>3. QED
    BY <2>1, <2>2
<1>2. QED
  BY <1>1 DEF RecOK

LEMMA WithinOK ==
  ASSUME NEW a, NEW c, RecOK(a, None)
  PROVE  RecOK(a, c)
<1>1. None \notin CPUs
  BY SchedTypes
<1>2. ASSUME SMP, NEW d \in CPUs PROVE RunningOK(a, d, c)
  <2>1. RunningOK(a, d, None) /\ d # None
    BY <1>1, <1>2 DEF RecOK
  <2>2. QED
    BY <2>1 DEF RunningOK
<1>3. QED
  BY <1>2 DEF RecOK

-----------------------------------------------------------------------------
(* The context switch.                                                     *)

HolderFits(h, a) ==
  \/ h = NoHolder
  \/ /\ SMP
     /\ h \in [cpu : CPUs, th : Threads \cup {Idle}, isr : BOOLEAN]
     /\ NextOK(a, h.th)

(* What a section under the lock leaves behind if it was about to leave a. *)
Lands(a) ==
  /\ RecOK(s', holder'.cpu) /\ HolderFits(holder', s')
  /\ leaving' \in [CPUs -> Threads \cup {None}]
  /\ ipi' \in [CPUs -> BOOLEAN] /\ ops' = ops
  /\ SMP => \A t \in Threads : Fires(a, t, None) => Fires(s', t, holder'.cpu)

LEMMA SendSame ==
  ASSUME NEW a \in SchedRecs, NEW c, NEW i, Send(c, a, i)
  PROVE  Same(a, s') /\ ipi' \in [CPUs -> BOOLEAN]
<1>1. s' = [a EXCEPT !.pendingIpi = {}]
  BY DEF Send
<1>2. Same(a, s')
  BY <1>1 DEF Same, SchedRecs
<1>3. ipi' = [d \in CPUs |-> i[d] \/ (d \in a.pendingIpi /\ d # c)]
  BY DEF Send, Signalled
<1>4. ipi' \in [CPUs -> BOOLEAN]
  BY <1>3
<1>5. QED
  BY <1>2, <1>4

LEMMA HistoryOps ==
  ASSUME History PROVE ops' = ops
BY DEF History

LEMMA NoSwitchLands ==
  ASSUME NEW a, NEW c, NEW i, RecOK(a, None), NoSwitch(c, a, i), holder = NoHolder,
         leaving \in [CPUs -> Threads \cup {None}]
  PROVE  Lands(a)
<1>1. Same(a, s') /\ ipi' \in [CPUs -> BOOLEAN]
  BY SendSame DEF NoSwitch, RecOK
<1>2. holder' = NoHolder /\ holder'.cpu = None /\ leaving' = leaving /\ ops' = ops
  BY HistoryOps DEF NoSwitch, NoHolder
<1>3. RecOK(s', holder'.cpu)
  BY <1>1, <1>2, SameRecOK
<1>4. \A t \in Threads : Fires(a, t, None) => Fires(s', t, None)
  BY <1>1, SameKeeps, KeepsFires
<1>5. QED
  BY <1>1, <1>2, <1>3, <1>4 DEF Lands, HolderFits

LEMMA UnlockLands ==
  ASSUME NEW a, RecOK(a, None), Unlock(a), holder = NoHolder,
         leaving \in [CPUs -> Threads \cup {None}], ipi \in [CPUs -> BOOLEAN]
  PROVE  Lands(a)
<1>1. s' = a /\ leaving' = leaving /\ ipi' = ipi /\ ops' = ops
  BY HistoryOps DEF Unlock
<1>2. holder' = NoHolder /\ holder'.cpu = None
  BY DEF Unlock, NoHolder
<1>3. QED
  BY <1>1, <1>2 DEF Lands, HolderFits

(* The record after the switch: the incoming thread is not queued and runs *)
(* nowhere, the outgoing one is linked if it was flagged.                  *)
LEMMA SwitchedOK ==
  ASSUME SMP, NEW a, NEW c \in CPUs, RecOK(a, c), NEW t, NextOK(a, t),
         t \in Threads => \A d \in CPUs : a.cur[d] # t,
         NEW b \in SchedRecs,
         /\ b.queued = a.queued /\ b.flags = a.flags /\ b.waitq = a.waitq
         /\ b.timeout = a.timeout /\ b.isr = a.isr /\ b.slicing = a.slicing
         /\ b.cur = [a.cur EXCEPT ![c] = t],
         b.runq = IF Queued(a, a.cur[c]) THEN PriqAdd(a.runq, a.cur[c], a.prio) ELSE a.runq
  PROVE  RecOK(b, None)
<1>1. /\ a \in SchedRecs /\ a.runq \in Seq(Threads)
      /\ a.cur \in [CPUs -> Threads \cup {Idle, Dummy}]
  BY DEF RecOK, SchedRecs
<1>2. \A d \in CPUs : b.cur[d] = IF d = c THEN t ELSE a.cur[d]
  BY <1>1
<1>3. a.cur[c] \in Threads => ~In(a.runq, a.cur[c])
  BY DEF RecOK, RunningOK
<1>4. /\ NoDup(b.runq)
      /\ \A u : In(b.runq, u) <=> In(a.runq, u) \/ (u = a.cur[c] /\ Queued(a, u))
  <2>1. CASE Queued(a, a.cur[c])
    BY <1>1, <1>3, <2>1, PriqAddLinks DEF Queued, RecOK, RunqOK
  <2>2. CASE ~Queued(a, a.cur[c])
    BY <2>2 DEF RecOK, RunqOK
  <2>3. QED
    BY <2>1, <2>2
<1>5. RunqOK(b)
  <2>1. \A u \in Threads : In(b.runq, u) => b.queued[u]
    BY <1>4 DEF RecOK, RunqOK, Queued
  <2>2. ASSUME NEW u \in Threads, b.queued[u]
        PROVE  In(b.runq, u) \/ \E d \in CPUs : b.cur[d] = u
    <3>1. CASE u = a.cur[c]
      BY <1>4, <2>2, <3>1 DEF Queued
    <3>2. CASE u # a.cur[c]
      BY <1>2, <1>4, <2>2, <3>2 DEF RecOK, RunqOK
    <3>3. QED
      BY <3>1, <3>2
  <2>3. QED
    BY <1>4, <2>1, <2>2 DEF RunqOK
<1>6. CurOK(b)
  BY <1>2 DEF RecOK, CurOK
<1>7. FlagsOK(b)
  BY DEF RecOK, FlagsOK, Prevented
<1>8. ASSUME NEW d \in CPUs PROVE RunningOK(b, d, None)
  <2>1. CASE d = c
    <3>1. CASE t \in Threads
      <4>1. ~Prevented(a, t) /\ ~a.queued[t]
        BY <3>1 DEF NextOK
      <4>2. ~In(b.runq, t)
        BY <1>4, <3>1, <4>1 DEF RecOK, RunqOK, Queued
      <4>3. a.flags[t] \cap {"pending", "prestart", "dead", "suspended"} = {}
        BY <3>1, <4>1 DEF Prevented
      <4>4. /\ "pending" \notin a.flags[t] /\ "suspended" \notin a.flags[t]
            /\ "prestart" \notin a.flags[t]
        BY <4>3
      <4>5. ~a.timeout[t]
        BY <3>1, <4>4 DEF RecOK, FlagsOK
      <4>6. ~Prevented(b, t)
        BY <4>1 DEF Prevented
      <4>7. b.cur[d] = t
        BY <1>2, <2>1
      <4>8. QED
        BY <4>1, <4>2, <4>4, <4>5, <4>6, <4>7 DEF RunningOK
    <3>2. CASE t \notin Threads
      BY <1>2, <2>1, <3>2 DEF RunningOK
    <3>3. QED
      BY <3>1, <3>2
  <2>2. CASE d # c
    <3>1. RunningOK(a, d, c) /\ b.cur[d] = a.cur[d]
      BY <1>2, <2>2 DEF RecOK
    <3>2. a.cur[d] \in Threads => a.cur[d] # a.cur[c]
      BY <2>2 DEF RecOK, CurOK
    <3>3. a.cur[d] \in Threads => ~In(b.runq, a.cur[d])
      BY <1>4, <3>1, <3>2 DEF RunningOK
    <3>4. \A u : Prevented(b, u) = Prevented(a, u)
      BY DEF Prevented
    <3>5. QED
      BY <2>2, <3>1, <3>3, <3>4 DEF RunningOK
  <2>3. QED
    BY <2>1, <2>2
<1>9. QED
  BY <1>5, <1>6, <1>7, <1>8 DEF RecOK

LEMMA PutBackFields ==
  ASSUME NEW a \in SchedRecs, NEW c, NEW t, NEW old, NEW fromIsr
  PROVE  LET b == PutBack(a, c, t, old, fromIsr)
         IN  /\ SameThreads(a, b) /\ b.queued = a.queued
             /\ b.runq = IF Queued(a, old) THEN PriqAdd(a.runq, old, a.prio) ELSE a.runq
<1>1. CASE ~Queued(a, old)
  BY <1>1 DEF PutBack, SameThreads
<1>2. CASE Queued(a, old)
  <2>10. PICK m \in SUBSET CPUs :
           PutBack(a, c, t, old, fromIsr) =
             [FlagIpi(a, m) EXCEPT !.runq = PriqAdd(@, old, a.prio)]
    <3>1. IpiMask(a, c, old) \in SUBSET CPUs
      BY DEF IpiMask
    <3>2. QED
      BY <1>2, <3>1 DEF PutBack
  <2>11. PICK b : b = FlagIpi(a, m)
    OBVIOUS
  <2>1. PutBack(a, c, t, old, fromIsr) =
          [b EXCEPT !.runq = PriqAdd(b.runq, old, a.prio)]
    BY <2>10, <2>11
  <2>2. Same(a, b)
    BY <2>11, FlagIpiSame
  <2>3. a.runq \in Seq(Threads) /\ old \in Threads
    BY <1>2 DEF SchedRecs, Queued
  <2>4. PICK r \in Seq(Threads) : r = PriqAdd(a.runq, old, a.prio)
    BY <2>3, PriqAddLinks
  <2>5. b \in SchedRecs /\ b.runq = a.runq
    BY <2>2 DEF Same
  <2>6. PICK d : d = [b EXCEPT !.runq = r]
    OBVIOUS
  <2>7. SameThreads(b, d) /\ d.queued = b.queued /\ d.runq = r
    BY <2>5, <2>6 DEF SameThreads, SchedRecs
  <2>8. PutBack(a, c, t, old, fromIsr) = d
    BY <2>1, <2>4, <2>5, <2>6
  <2>9. QED
    BY <1>2, <2>2, <2>4, <2>7, <2>8 DEF Same, SameThreads
<1>3. QED
  BY <1>1, <1>2

LEMMA FinishSwitchLands ==
  ASSUME SMP, NEW a, NEW c \in CPUs, RecOK(a, c), NEW t, NextOK(a, t),
         t \in Threads => \A d \in CPUs : a.cur[d] # t,
         NEW i, NEW fromIsr, FinishSwitch(c, a, t, i, fromIsr),
         leaving \in [CPUs -> Threads \cup {None}]
  PROVE  /\ Lands(a)
         /\ holder' = NoHolder /\ holder'.cpu = None
         /\ \A u \in Threads : Fires(a, u, c) => Fires(s', u, None)
<1>1. a \in SchedRecs /\ t \in Threads \cup {Idle}
  BY DEF RecOK, NextOK
<1>2. PICK b : b = [a EXCEPT !.swapOk[c] = FALSE, !.cur[c] = t]
  OBVIOUS
<1>3. /\ b \in SchedRecs /\ b.runq = a.runq /\ b.prio = a.prio
      /\ b.queued = a.queued /\ b.flags = a.flags /\ b.waitq = a.waitq
      /\ b.timeout = a.timeout /\ b.isr = a.isr /\ b.slicing = a.slicing
      /\ b.cur = [a.cur EXCEPT ![c] = t]
  BY <1>1, <1>2 DEF SchedRecs
<1>4. PICK d : d = ResetSlice(b, c, t)
  OBVIOUS
<1>5. Same(b, d) /\ d.prio = b.prio
  BY <1>3, <1>4, ResetSliceSame DEF ResetSlice, SchedRecs
<1>6. PICK e : e = PutBack(d, c, t, a.cur[c], fromIsr)
  OBVIOUS
<1>7. /\ SameThreads(d, e) /\ e.queued = d.queued
      /\ e.runq = IF Queued(d, a.cur[c]) THEN PriqAdd(d.runq, a.cur[c], d.prio) ELSE d.runq
  BY <1>5, <1>6, PutBackFields DEF Same
<1>8. Queued(d, a.cur[c]) = Queued(a, a.cur[c])
  BY <1>3, <1>5 DEF Queued, Same
<1>9. /\ e \in SchedRecs
      /\ e.queued = a.queued /\ e.flags = a.flags /\ e.waitq = a.waitq
      /\ e.timeout = a.timeout /\ e.isr = a.isr /\ e.slicing = a.slicing
      /\ e.cur = [a.cur EXCEPT ![c] = t]
      /\ e.runq = IF Queued(a, a.cur[c]) THEN PriqAdd(a.runq, a.cur[c], a.prio) ELSE a.runq
  BY <1>3, <1>5, <1>7, <1>8 DEF Same, SameThreads
<1>10. RecOK(e, None)
  BY <1>1, <1>9, SwitchedOK
<1>11. Send(c, e, i)
  BY <1>2, <1>4, <1>6 DEF FinishSwitch
<1>12. Same(e, s') /\ ipi' \in [CPUs -> BOOLEAN]
  BY <1>9, <1>11, SendSame
<1>13. RecOK(s', None)
  BY <1>10, <1>12, SameRecOK
<1>14. holder' = NoHolder /\ holder'.cpu = None /\ ops' = ops
  BY HistoryOps DEF FinishSwitch, NoHolder
<1>15. leaving' \in [CPUs -> Threads \cup {None}]
  BY DEF FinishSwitch
<1>16. ASSUME NEW u \in Threads, Fires(a, u, c) PROVE Fires(s', u, None)
  <2>1. u # t
    BY <1>16 DEF Fires, NextOK, Prevented
  <2>2. a.cur \in [CPUs -> Threads \cup {Idle, Dummy}]
    BY <1>1 DEF SchedRecs
  <2>3. \A k \in CPUs : e.cur[k] = IF k = c THEN t ELSE a.cur[k]
    BY <1>9, <2>2
  <2>4. Fires(e, u, None)
    BY <1>9, <1>16, <2>1, <2>3 DEF Fires
  <2>5. QED
    BY <1>12, <2>4, SameKeeps, KeepsFires
<1>17. \A u \in Threads : Fires(a, u, None) => Fires(a, u, c)
  BY SchedTypes DEF Fires
<1>18. QED
  BY <1>12, <1>13, <1>14, <1>15, <1>16, <1>17 DEF Lands, HolderFits

LEMMA SwitchToLands ==
  ASSUME SMP, NEW a, NEW c \in CPUs, RecOK(a, c), NEW t, NextOK(a, t),
         NEW i \in [CPUs -> BOOLEAN], NEW fromIsr \in BOOLEAN, SwitchTo(c, a, t, i, fromIsr),
         leaving \in [CPUs -> Threads \cup {None}]
  PROVE  Lands(a)
<1>1. CASE Saved(a, t)
  <2>1. t \in Threads => \A d \in CPUs : a.cur[d] # t
    BY <1>1 DEF Saved
  <2>2. FinishSwitch(c, a, t, i, fromIsr)
    BY <1>1 DEF SwitchTo
  <2>3. QED
    BY <2>1, <2>2, FinishSwitchLands
<1>2. CASE ~Saved(a, t)
  <2>1. /\ s' = a /\ ipi' = i /\ leaving' = leaving
        /\ holder' = [cpu |-> c, th |-> t, isr |-> fromIsr] /\ ops' = ops
    BY <1>2, HistoryOps DEF SwitchTo
  <2>2. holder'.cpu = c /\ holder'.th = t
    BY <2>1
  <2>3. t \in Threads \cup {Idle}
    BY DEF NextOK
  <2>4. holder' \in [cpu : CPUs, th : Threads \cup {Idle}, isr : BOOLEAN]
    BY <2>1, <2>3
  <2>5. \A u \in Threads : Fires(a, u, None) => Fires(a, u, c)
    BY SchedTypes DEF Fires
  <2>6. QED
    BY <2>1, <2>2, <2>4, <2>5 DEF Lands, HolderFits
<1>3. QED
  BY <1>1, <1>2

LEMMA LandsFrom ==
  ASSUME NEW a, NEW b, Keeps(a, b), Lands(b)
  PROVE  Lands(a)
<1>1. \A t \in Threads : Fires(a, t, None) => Fires(b, t, None)
  BY KeepsFires
<1>2. QED
  BY <1>1 DEF Lands

(* One CPU: who runs is no matter. *)
LEMMA OneCpuCur ==
  ASSUME ~SMP, NEW a, NEW x, RecOK(a, x), NEW c \in CPUs, NEW v \in Threads \cup {Idle, Dummy}
  PROVE  RecOK([a EXCEPT !.cur[c] = v], None)
<1>1. PICK d : CPUs = {d}
  BY SchedAssumption, FS_Singleton
<1>2. a \in SchedRecs
  BY DEF RecOK
<1>3. PICK b : b = [a EXCEPT !.cur[c] = v]
  OBVIOUS
<1>4. b \in SchedRecs /\ b.runq = a.runq /\ b.queued = a.queued
  BY <1>2, <1>3 DEF SchedRecs
<1>5. CurOK(b)
  BY <1>1 DEF CurOK
<1>6. RunqOK(b)
  BY <1>4 DEF RecOK, RunqOK
<1>7. QED
  BY <1>3, <1>4, <1>5, <1>6 DEF RecOK

LEMMA SwapLands ==
  ASSUME NEW a, NEW c \in CPUs, RecOK(a, c), NEW i \in [CPUs -> BOOLEAN],
         Swap(c, a, i), holder = NoHolder, leaving \in [CPUs -> Threads \cup {None}]
  PROVE  Lands(a)
<1>1. CASE ~SMP
  <2>1. a.cache \in Threads \cup {Idle, Dummy}
    BY DEF RecOK, SchedRecs
  <2>2. PICK b : b = [a EXCEPT !.cur[c] = a.cache]
    OBVIOUS
  <2>3. RecOK(b, None)
    BY <1>1, <2>1, <2>2, OneCpuCur
  <2>4. NoSwitch(c, b, i)
    BY <1>1, <2>2 DEF Swap
  <2>5. Lands(b)
    BY <2>3, <2>4, NoSwitchLands
  <2>6. QED
    BY <1>1, <2>5 DEF Lands
<1>2. CASE SMP
  <2>1. PICK n : n = NextUp(a, c)
    OBVIOUS
  <2>2. /\ RecOK(n.st, c) /\ Keeps(a, n.st) /\ NextOK(n.st, n.th)
        /\ n.st.cur[c] = a.cur[c] \/ n.st.cur[c] = Dummy
    BY <1>2, <2>1, NextUpOK
  <2>3. SwapFrom(c, a.cur[c], n, i)
    BY <1>2, <2>1 DEF Swap
  <2>4. CASE n.th = a.cur[c]
    <3>1. RecOK(n.st, None)
      BY <2>2, <2>4, KeptOK
    <3>2. NoSwitch(c, n.st, i)
      BY <2>3, <2>4 DEF SwapFrom
    <3>3. QED
      BY <2>2, <3>1, <3>2, NoSwitchLands, LandsFrom
  <2>5. CASE n.th # a.cur[c]
    <3>1. SwitchTo(c, n.st, n.th, i, FALSE)
      BY <2>3, <2>5 DEF SwapFrom
    <3>2. Lands(n.st)
      BY <1>2, <2>2, <3>1, SwitchToLands
    <3>3. QED
      BY <2>2, <3>2, LandsFrom
  <2>6. QED
    BY <2>4, <2>5
<1>3. QED
  BY <1>1, <1>2

LEMMA RescheduleLands ==
  ASSUME NEW a, NEW c \in CPUs, RecOK(a, None), Reschedule(c, a), holder = NoHolder,
         leaving \in [CPUs -> Threads \cup {None}], ipi \in [CPUs -> BOOLEAN]
  PROVE  Lands(a)
<1>1. PICK b : b = IF SMP THEN [a EXCEPT !.swapOk[c] = FALSE] ELSE a
  OBVIOUS
<1>2. a \in SchedRecs
  BY DEF RecOK
<1>3. Same(a, b)
  BY <1>1, <1>2, SwapOkSame DEF Same
<1>4. RecOK(b, None) /\ RecOK(b, c)
  BY <1>3, SameRecOK, WithinOK
<1>5. Swap(c, b, ipi) \/ NoSwitch(c, b, ipi)
  BY <1>1 DEF Reschedule
<1>6. Lands(b)
  BY <1>4, <1>5, SwapLands, NoSwitchLands
<1>7. QED
  BY <1>3, <1>6, SameKeeps, LandsFrom

-----------------------------------------------------------------------------
(* What an action leaves.                                                  *)

CallFits(y, w) ==
  /\ w \in [op : CallOps, th : Threads \cup {None}]
  /\ w.op \in {"wakeup", "suspend"} => w.th \in Threads
  /\ w.op = "wakeup" => "wakeup" \in ops
  /\ w.op = "suspend" /\ y \in CPUs => "isr_suspend" \in ops

LEMMA RecOKNext ==
  ASSUME NEW x, RecOK(s', x), ops' = ops, x = holder'.cpu
  PROVE  RecOK(s, holder.cpu)'
BY DEF RecOK, RunqOK, CurOK, FlagsOK, RunningOK, Prevented, SchedRecs

LEMMA FiringKept ==
  ASSUME SchedInv, ops' = ops, NEW c \in CPUs, pc'[c] = pc[c],
         SMP /\ "sleep" \in ops =>
           \A u \in Threads : Fires(s, u, holder.cpu) => Fires(s', u, holder'.cpu)
  PROVE  FiringOK(c)'
<1>1. FiringOK(c)
  BY DEF SchedInv, CallsOK
<1>2. CASE pc[c].op = "fire"
  <2>1. pc[c].th \in Threads /\ (SMP => "sleep" \in ops)
    BY <1>1, <1>2 DEF FiringOK
  <2>2. SMP => Fires(s, pc[c].th, holder.cpu)
    BY <1>1, <1>2 DEF FiringOK, Fires
  <2>3. SMP => Fires(s', pc[c].th, holder'.cpu)
    BY <2>1, <2>2
  <2>4. QED
    BY <2>1, <2>3 DEF FiringOK, Fires
<1>3. CASE pc[c].op # "fire"
  BY <1>3 DEF FiringOK
<1>4. QED
  BY <1>2, <1>3

LEMMA CallsStay ==
  ASSUME SchedInv, ops' = ops, pc' = pc,
         SMP /\ "sleep" \in ops =>
           \A u \in Threads : Fires(s, u, holder.cpu) => Fires(s', u, holder'.cpu)
  PROVE  CallsOK'
<1>1. \A c \in CPUs : FiringOK(c)'
  BY FiringKept
<1>2. QED
  BY <1>1 DEF SchedInv, CallsOK

LEMMA CallsMove ==
  ASSUME SchedInv, ops' = ops, NEW y \in Threads \cup CPUs, NEW w, CallFits(y, w),
         w.op \notin {"announce", "fire"}, pc' = [pc EXCEPT ![y] = w],
         SMP /\ "sleep" \in ops =>
           \A u \in Threads : Fires(s, u, holder.cpu) => Fires(s', u, holder'.cpu)
  PROVE  CallsOK'
<1>1. pc \in [Threads \cup CPUs -> [op : CallOps, th : Threads \cup {None}]]
  BY DEF SchedInv, CallsOK
<1>2. \A z \in Threads \cup CPUs : pc'[z] = IF z = y THEN w ELSE pc[z]
  BY <1>1
<1>3. ASSUME NEW c \in CPUs PROVE FiringOK(c)'
  <2>1. CASE c = y
    BY <1>2, <2>1 DEF FiringOK
  <2>2. CASE c # y
    <3>1. pc'[c] = pc[c]
      BY <1>2, <2>2
    <3>2. QED
      BY <3>1, FiringKept
  <2>3. QED
    BY <2>1, <2>2
<1>4. (pc \in [Threads \cup CPUs -> [op : CallOps, th : Threads \cup {None}]])'
  BY <1>1 DEF CallFits
<1>5. \A z \in Threads \cup CPUs :
        /\ pc'[z].op \in {"wakeup", "suspend"} => pc'[z].th \in Threads
        /\ pc'[z].op = "wakeup" => "wakeup" \in ops'
  BY <1>2 DEF SchedInv, CallsOK, CallFits
<1>6. \A c \in CPUs : pc'[c].op = "suspend" => "isr_suspend" \in ops'
  BY <1>2 DEF SchedInv, CallsOK, CallFits
<1>7. \A c, d \in CPUs :
        pc'[c].op \in {"announce", "fire"} /\ pc'[d].op \in {"announce", "fire"} => c = d
  BY <1>2 DEF SchedInv, CallsOK
<1>8. QED
  BY <1>3, <1>4, <1>5, <1>6, <1>7 DEF CallsOK

(* Every section under the lock ends in one of these two ways. *)
Faithful(a) ==
  SMP /\ "sleep" \in ops => \A u \in Threads : Fires(s, u, None) => Fires(a, u, None)

LEMMA LandsKeepsFires ==
  ASSUME NEW a, Lands(a), holder = NoHolder, Faithful(a)
  PROVE  SMP /\ "sleep" \in ops =>
           \A u \in Threads : Fires(s, u, holder.cpu) => Fires(s', u, holder'.cpu)
<1>1. holder.cpu = None
  BY DEF NoHolder
<1>2. QED
  BY <1>1 DEF Lands, Faithful

LEMMA LandsInv ==
  ASSUME SchedInv, NEW a, Lands(a), CallsOK'
  PROVE  SchedInv'
<1>1. RecOK(s, holder.cpu)'
  BY RecOKNext DEF Lands
<1>2. HolderOK'
  BY DEF Lands, HolderFits, HolderOK, NextOK, Prevented
<1>3. QED
  BY <1>1, <1>2 DEF SchedInv, Lands

LEMMA StayInv ==
  ASSUME SchedInv, NEW a, Lands(a), holder = NoHolder, Faithful(a), pc' = pc
  PROVE  SchedInv'
<1>1. ops' = ops
  BY DEF Lands
<1>2. CallsOK'
  BY <1>1, LandsKeepsFires, CallsStay
<1>3. QED
  BY <1>2, LandsInv

LEMMA GotoInv ==
  ASSUME SchedInv, NEW a, Lands(a), holder = NoHolder, Faithful(a),
         NEW c \in CPUs, NEW w, Goto(c, w), Ctx(c) \in Threads \cup CPUs,
         CallFits(Ctx(c), w), w.op \notin {"announce", "fire"}
  PROVE  SchedInv'
<1>1. ops' = ops
  BY DEF Lands
<1>2. PICK y \in Threads \cup CPUs : y = Ctx(c)
  OBVIOUS
<1>3. pc' = [pc EXCEPT ![y] = w]
  BY <1>2 DEF Goto
<1>4. SMP /\ "sleep" \in ops =>
        \A u \in Threads : Fires(s, u, holder.cpu) => Fires(s', u, holder'.cpu)
  BY LandsKeepsFires
<1>5. CallsOK'
  BY <1>1, <1>2, <1>3, <1>4, CallsMove
<1>6. QED
  BY <1>5, LandsInv

-----------------------------------------------------------------------------
(* What the calls do to the record before they leave the scheduler.        *)

(* A thread is released: started, resumed or woken from its sleep. *)
LEMMA ClearOK ==
  ASSUME NEW a, NEW x, RecOK(a, x), NEW t \in Threads,
         NEW S \in SUBSET {"prestart", "suspended"},
         SMP /\ "suspended" \in S => ~a.timeout[t]
  PROVE  LET b == [a EXCEPT !.flags[t] = @ \ S]
         IN  /\ RecOK(b, x) /\ b.cur = a.cur /\ b.isr = a.isr /\ b.timeout = a.timeout
             /\ \A u \in Threads : b.flags[u] = IF u = t THEN a.flags[t] \ S ELSE a.flags[u]
<1>1. a \in SchedRecs /\ a.flags[t] \ S \in SUBSET Flags
  BY DEF RecOK, SchedRecs
<1>2. PICK b : b = [a EXCEPT !.flags[t] = a.flags[t] \ S]
  OBVIOUS
<1>3. /\ b \in SchedRecs
      /\ b.runq = a.runq /\ b.queued = a.queued /\ b.cur = a.cur
      /\ b.timeout = a.timeout /\ b.isr = a.isr /\ b.slicing = a.slicing
      /\ b.waitq = a.waitq
      /\ \A u \in Threads : b.flags[u] = IF u = t THEN a.flags[t] \ S ELSE a.flags[u]
  BY SMTT(30), <1>1, <1>2, FlagFields
<1>4. RunqOK(b) /\ CurOK(b)
  BY <1>3 DEF RecOK, RunqOK, CurOK
<1>5. \A u : Prevented(b, u) => Prevented(a, u)
  BY <1>3 DEF Prevented
<1>6. \A u \in Threads : "pending" \in b.flags[u] <=> "pending" \in a.flags[u]
  BY <1>3
<1>7. ASSUME SMP PROVE FlagsOK(b)
  <2>1. \A u \in Threads :
          /\ b.queued[u] => ~Prevented(b, u)
          /\ b.timeout[u] => "suspended" \in b.flags[u] /\ "sleep" \in ops
    BY <1>3, <1>5, <1>7 DEF RecOK, FlagsOK
  <2>2. QED
    BY <1>3, <1>6, <1>7, <2>1 DEF RecOK, FlagsOK
<1>8. ASSUME SMP, NEW d \in CPUs PROVE RunningOK(b, d, x)
  <2>1. RunningOK(a, d, x) /\ \A u \in Threads : b.flags[u] \subseteq a.flags[u]
    BY <1>3, <1>8 DEF RecOK
  <2>2. QED
    BY <1>3, <1>5, <2>1 DEF RunningOK
<1>9. QED
  BY <1>2, <1>3, <1>4, <1>7, <1>8 DEF RecOK

(* A thread starts to sleep. *)
LEMMA TimedOK ==
  ASSUME NEW a, NEW x, RecOK(a, x), NEW t \in Threads, "suspended" \in a.flags[t],
         "sleep" \in ops, SMP => \A d \in CPUs : a.cur[d] = t => d = x
  PROVE  RecOK([a EXCEPT !.timeout[t] = TRUE], x)
<1>1. a \in SchedRecs /\ a.timeout \in [Threads -> BOOLEAN]
  BY DEF RecOK, SchedRecs
<1>2. PICK b : b = [a EXCEPT !.timeout[t] = TRUE]
  OBVIOUS
<1>3. /\ b \in SchedRecs
      /\ b.runq = a.runq /\ b.queued = a.queued /\ b.cur = a.cur
      /\ b.flags = a.flags /\ b.isr = a.isr /\ b.slicing = a.slicing
      /\ b.waitq = a.waitq
      /\ b.timeout = [a.timeout EXCEPT ![t] = TRUE]
  BY <1>1, <1>2, TimeoutFields
<1>4. \A u \in Threads : b.timeout[u] => a.timeout[u] \/ u = t
  BY <1>1, <1>3
<1>5. RunqOK(b) /\ CurOK(b)
  BY <1>3 DEF RecOK, RunqOK, CurOK
<1>6. ASSUME SMP PROVE FlagsOK(b)
  BY <1>3, <1>4, <1>6 DEF RecOK, FlagsOK, Prevented
<1>7. ASSUME SMP, NEW d \in CPUs PROVE RunningOK(b, d, x)
  BY <1>3, <1>4, <1>7 DEF RecOK, RunningOK, Prevented
<1>8. QED
  BY <1>2, <1>3, <1>5, <1>6, <1>7 DEF RecOK

(* unready_thread *)
LEMMA UnreadyOK ==
  ASSUME NEW a, NEW x, RecOK(a, x), NEW c \in CPUs, NEW t \in Threads
  PROVE  LET b == UnreadyThread(a, c, t)
         IN  RecOK(b, x) /\ SameThreads(a, b) /\ ~b.queued[t]
<1>1. PICK b : b = Unqueue(a, c, t) /\ RecOK(b, x) /\ SameThreads(a, b) /\ ~b.queued[t]
  BY UnqueueOK
<1>2. PICK ok \in BOOLEAN : ok = (t = a.cur[c])
  OBVIOUS
<1>3. PICK d : d = UpdateCache(b, c, ok)
  OBVIOUS
<1>4. Same(b, d)
  BY <1>1, <1>3, UpdateCacheSame DEF RecOK
<1>5. UnreadyThread(a, c, t) = d
  BY <1>1, <1>2, <1>3 DEF UnreadyThread
<1>6. QED
  BY <1>1, <1>4, <1>5, SameRecOK DEF Same, SameThreads

(* A CPU's own thread pends. *)
LEMMA AddToWaitqOK ==
  ASSUME NEW a, NEW c \in CPUs, RecOK(a, c), NEW t \in Threads, a.cur[c] = t,
         SMP => "pending" \notin a.flags[t], NEW w \in Waits
  PROVE  RecOK(AddToWaitq(a, c, t, w), c) /\ Keeps(a, AddToWaitq(a, c, t, w))
<1>1. PICK b : b = UnreadyThread(a, c, t) /\ RecOK(b, c) /\ SameThreads(a, b) /\ ~b.queued[t]
  BY UnreadyOK
<1>2. \A d \in CPUs : b.cur[d] = t => d = c
  BY <1>1 DEF RecOK, CurOK, SameThreads
<1>3. PICK d : d = [b EXCEPT !.flags[t] = @ \cup {"pending"}]
  OBVIOUS
<1>4. "pending" \in Flags \ {"prestart"}
  BY DEF Flags
<1>5. RecOK(d, c) /\ Keeps(b, d) /\ "pending" \in d.flags[t] /\ d.cur = b.cur
  BY <1>1, <1>2, <1>3, <1>4, MarkOK
<1>6. b \in SchedRecs /\ d \in SchedRecs /\ d.waitq \in [Waits -> Seq(Threads)]
  BY <1>1, <1>5 DEF RecOK, SchedRecs
<1>7. d.waitq = a.waitq
  BY <1>1, <1>3, <1>6 DEF SchedRecs, SameThreads
<1>8. PICK q \in Seq(Threads) : q = PriqAdd(d.waitq[w], t, a.prio)
  BY <1>6, PriqAddLinks
<1>9. PICK e : e = [d EXCEPT !.waitq[w] = q]
  OBVIOUS
<1>10. AddToWaitq(a, c, t, w) = e
  BY <1>1, <1>3, <1>6, <1>8, <1>9 DEF AddToWaitq, SchedRecs
<1>11. /\ e \in SchedRecs
       /\ e.runq = d.runq /\ e.queued = d.queued /\ e.cur = d.cur /\ e.flags = d.flags
       /\ e.timeout = d.timeout /\ e.isr = d.isr /\ e.slicing = d.slicing
       /\ e.waitq = [d.waitq EXCEPT ![w] = q]
  BY <1>6, <1>9 DEF SchedRecs
<1>12. ASSUME SMP, NEW v \in Waits
       PROVE  NoDup(e.waitq[v]) /\ \A u \in Threads : In(e.waitq[v], u) => "pending" \in e.flags[u]
  <2>1. /\ NoDup(d.waitq[v]) /\ d.waitq[v] \in Seq(Threads)
        /\ \A u \in Threads : In(d.waitq[v], u) => "pending" \in d.flags[u]
    BY <1>5, <1>6, <1>12 DEF RecOK, FlagsOK
  <2>2. CASE v # w
    BY <1>6, <1>11, <2>1, <2>2
  <2>3. CASE v = w
    <3>1. e.waitq[v] = q
      BY <1>6, <1>11, <2>3
    <3>2. ~In(d.waitq[w], t)
      BY <1>7, <1>12 DEF RecOK, FlagsOK
    <3>3. NoDup(q) /\ \A u : In(q, u) <=> In(d.waitq[w], u) \/ u = t
      BY <1>8, <2>1, <2>3, <3>2, PriqAddLinks
    <3>4. QED
      BY <1>5, <1>11, <2>1, <2>3, <3>1, <3>3
  <2>4. QED
    BY <2>2, <2>3
<1>13. RunqOK(e) /\ CurOK(e)
  BY <1>5, <1>11 DEF RecOK, RunqOK, CurOK
<1>14. ASSUME SMP PROVE FlagsOK(e)
  <2>1. FlagsOK(d)
    BY <1>5, <1>14 DEF RecOK
  <2>2. QED
    BY <1>11, <1>12, <1>14, <2>1 DEF FlagsOK, Prevented
<1>15. ASSUME SMP, NEW k \in CPUs PROVE RunningOK(e, k, c)
  BY <1>5, <1>11, <1>15 DEF RecOK, RunningOK, Prevented
<1>16. Keeps(a, b) /\ Keeps(d, e)
  BY <1>1, <1>11, SameKeeps DEF Keeps
<1>17. QED
  BY <1>5, <1>10, <1>11, <1>13, <1>14, <1>15, <1>16, KeepsTrans DEF RecOK

(* z_time_slice *)
LEMMA TimeSliceOK ==
  ASSUME NEW a, NEW x, RecOK(a, x), NEW c \in CPUs
  PROVE  RecOK(TimeSlice(a, c), x) /\ SameThreads(a, TimeSlice(a, c))
<1>1. CASE ~(a.sliceExp[c] /\ Sliceable(a, a.cur[c]))
  BY <1>1 DEF TimeSlice, SameThreads, RecOK
<1>2. CASE a.sliceExp[c] /\ Sliceable(a, a.cur[c])
  <2>1. PICK t \in Threads : t = a.cur[c] /\ ~Prevented(a, t) /\ a.slicing
    BY <1>2 DEF Sliceable
  <2>2. PICK b : /\ b = Unqueue(a, c, t) /\ RecOK(b, x) /\ SameThreads(a, b)
                 /\ ~b.queued[t] /\ ~In(b.runq, t)
    BY UnqueueOK
  <2>3. ~Prevented(b, t) /\ b.cur = a.cur
    BY <2>1, <2>2 DEF SameThreads, Prevented
  <2>4. \A d \in CPUs : a.cur[d] = t => d = c
    BY <2>1 DEF RecOK, CurOK
  <2>5. SMP => "prio" \notin ops
    BY <2>1 DEF RecOK, FlagsOK
  <2>6. PICK d : d = QueueThread(b, c, t)
    OBVIOUS
  <2>7. RecOK(d, x) /\ SameThreads(b, d)
    BY <2>2, <2>3, <2>4, <2>5, <2>6, QueueOK
  <2>8. PICK e : e = UpdateCache(d, c, t = a.cur[c])
    OBVIOUS
  <2>9. Same(d, e)
    BY <2>7, <2>8, UpdateCacheSame DEF RecOK
  <2>10. Same(e, ResetSlice(e, c, t))
    BY <2>9, ResetSliceSame DEF Same
  <2>11. TimeSlice(a, c) = ResetSlice(e, c, t)
    BY <1>2, <2>1, <2>2, <2>6, <2>8 DEF TimeSlice, MoveToEnd
  <2>12. Same(d, TimeSlice(a, c))
    BY <2>9, <2>10, <2>11, SameTrans
  <2>13. QED
    BY <2>2, <2>7, <2>12, SameRecOK DEF Same, SameThreads
<1>3. QED
  BY <1>1, <1>2

(* An interrupt begins on a CPU, or ends on the one that is inside the     *)
(* scheduler.                                                              *)
LEMMA IsrOK ==
  ASSUME NEW a, NEW x, RecOK(a, x), NEW c \in CPUs, NEW v \in BOOLEAN, v \/ x = c
  PROVE  LET b == [a EXCEPT !.isr[c] = v]
         IN  /\ RecOK(b, x) /\ b.cur = a.cur /\ b.flags = a.flags
             /\ b.timeout = a.timeout /\ b.queued = a.queued
<1>1. a \in SchedRecs /\ a.isr \in [CPUs -> BOOLEAN]
  BY DEF RecOK, SchedRecs
<1>2. PICK b : b = [a EXCEPT !.isr[c] = v]
  OBVIOUS
<1>3. /\ b \in SchedRecs
      /\ b.runq = a.runq /\ b.queued = a.queued /\ b.cur = a.cur
      /\ b.flags = a.flags /\ b.timeout = a.timeout /\ b.slicing = a.slicing
      /\ b.waitq = a.waitq
      /\ \A d \in CPUs : b.isr[d] = IF d = c THEN v ELSE a.isr[d]
  BY <1>1, <1>2 DEF SchedRecs
<1>4. RunqOK(b) /\ CurOK(b)
  BY <1>3 DEF RecOK, RunqOK, CurOK
<1>5. ASSUME SMP PROVE FlagsOK(b)
  BY <1>3, <1>5 DEF RecOK, FlagsOK, Prevented
<1>6. ASSUME SMP, NEW d \in CPUs PROVE RunningOK(b, d, x)
  <2>1. RunningOK(a, d, x)
    BY <1>6 DEF RecOK
  <2>2. d # x /\ ~b.isr[d] => ~a.isr[d]
    BY <1>3
  <2>3. \A u : Prevented(b, u) = Prevented(a, u)
    BY <1>3 DEF Prevented
  <2>4. QED
    BY <1>3, <2>1, <2>2, <2>3 DEF RunningOK
<1>7. QED
  BY <1>2, <1>3, <1>4, <1>5, <1>6 DEF RecOK

LEMMA PrioSame ==
  ASSUME NEW a \in SchedRecs, NEW t \in Threads, NEW p \in Int
  PROVE  Same(a, [a EXCEPT !.prio[t] = p])
BY DEF Same, SchedRecs

LEMMA LockedSame ==
  ASSUME NEW a \in SchedRecs, NEW t \in Threads, NEW n \in 0..MaxLock
  PROVE  Same(a, [a EXCEPT !.locked[t] = n])
BY DEF Same, SchedRecs

LEMMA MaskSame ==
  ASSUME NEW a \in SchedRecs, NEW t \in Threads, NEW m \in SUBSET CPUs
  PROVE  Same(a, [a EXCEPT !.mask[t] = m])
BY DEF Same, SchedRecs

LEMMA SliceSame ==
  ASSUME NEW a \in SchedRecs, NEW d \in CPUs
  PROVE  Same(a, [a EXCEPT !.sliceOn[d] = FALSE, !.sliceExp[d] = TRUE])
<1>1. PICK b : b = [a EXCEPT !.sliceOn[d] = FALSE]
  OBVIOUS
<1>2. Same(a, b)
  BY <1>1 DEF Same, SchedRecs
<1>3. Same(b, [b EXCEPT !.sliceExp[d] = TRUE])
  BY <1>2 DEF Same, SchedRecs
<1>4. [a EXCEPT !.sliceOn[d] = FALSE, !.sliceExp[d] = TRUE] = [b EXCEPT !.sliceExp[d] = TRUE]
  BY <1>1
<1>5. QED
  BY <1>2, <1>3, <1>4, SameTrans

LEMMA SlicingOK ==
  ASSUME NEW a, NEW x, RecOK(a, x), NEW v \in BOOLEAN, SMP /\ "prio" \in ops => ~v
  PROVE  RecOK([a EXCEPT !.slicing = v], x) /\ Keeps(a, [a EXCEPT !.slicing = v])
<1>1. a \in SchedRecs
  BY DEF RecOK
<1>2. PICK b : b = [a EXCEPT !.slicing = v]
  OBVIOUS
<1>3. /\ b \in SchedRecs
      /\ b.runq = a.runq /\ b.queued = a.queued /\ b.cur = a.cur
      /\ b.flags = a.flags /\ b.timeout = a.timeout /\ b.isr = a.isr
      /\ b.waitq = a.waitq /\ b.slicing = v
  BY <1>1, <1>2 DEF SchedRecs
<1>4. RunqOK(b) /\ CurOK(b)
  BY <1>3 DEF RecOK, RunqOK, CurOK
<1>5. ASSUME SMP PROVE FlagsOK(b)
  BY <1>3, <1>5 DEF RecOK, FlagsOK, Prevented
<1>6. ASSUME SMP, NEW d \in CPUs PROVE RunningOK(b, d, x)
  BY <1>3, <1>6 DEF RecOK, RunningOK, Prevented
<1>7. Keeps(a, b)
  BY <1>3 DEF Keeps
<1>8. QED
  BY <1>2, <1>3, <1>4, <1>5, <1>6, <1>7 DEF RecOK

-----------------------------------------------------------------------------
(* The calls.                                                              *)

LEMMA Begins ==
  ASSUME SchedInv, holder = NoHolder
  PROVE  /\ RecOK(s, None) /\ s \in SchedRecs
         /\ leaving \in [CPUs -> Threads \cup {None}] /\ ipi \in [CPUs -> BOOLEAN]
         /\ \A c \in CPUs : RecOK(s, c)
<1>1. RecOK(s, None)
  BY DEF SchedInv, NoHolder
<1>2. QED
  BY <1>1, WithinOK DEF SchedInv, RecOK

LEMMA CallFacts ==
  ASSUME SchedInv, NEW c \in CPUs, NEW op, Calls(c, op)
  PROVE  /\ holder = NoHolder /\ op \in ops
         /\ Ctx(c) \in Threads \cup CPUs
         /\ SMP => \A t \in Threads : s.cur[c] = t /\ ~s.isr[c] => ~Prevented(s, t)
<1>1. holder = NoHolder /\ op \in ops /\ Ctx(c) \in Threads \cup CPUs
  BY DEF Calls, Free
<1>2. RecOK(s, None) /\ c # None
  BY <1>1, Begins, SchedTypes
<1>3. QED
  BY <1>1, <1>2 DEF RecOK, RunningOK

LEMMA ThreadCallFacts ==
  ASSUME SchedInv, NEW c \in CPUs, NEW op, ThreadCalls(c, op)
  PROVE  /\ holder = NoHolder /\ op \in ops
         /\ ~s.isr[c] /\ Ctx(c) = s.cur[c] /\ s.cur[c] \in Threads
         /\ SMP => ~Prevented(s, s.cur[c]) /\ "pending" \notin s.flags[s.cur[c]]
         /\ \A d \in CPUs : s.cur[d] = s.cur[c] => d = c
<1>1. Calls(c, op) /\ ~s.isr[c]
  BY DEF ThreadCalls
<1>2. /\ holder = NoHolder /\ op \in ops /\ Ctx(c) = s.cur[c]
      /\ s.cur[c] \in Threads \cup CPUs
  BY <1>1 DEF Calls, Free, Ctx
<1>3. RecOK(s, None) /\ s.cur[c] \in Threads \cup {Idle, Dummy}
  BY <1>2, Begins DEF SchedRecs
<1>4. s.cur[c] \in Threads
  BY <1>2, <1>3, SchedTypes
<1>5. SMP => RunningOK(s, c, None) /\ c # None
  BY <1>3, SchedTypes DEF RecOK
<1>6. CurOK(s)
  BY <1>3 DEF RecOK
<1>7. QED
  BY <1>1, <1>2, <1>4, <1>5, <1>6 DEF RunningOK, CurOK

LEMMA KeepsFaithful ==
  ASSUME NEW a, Keeps(s, a)
  PROVE  Faithful(a)
BY KeepsFires DEF Faithful

LEMMA PlainFits ==
  ASSUME NEW y, NEW t \in Threads \cup {None},
         NEW o \in {"run", "resched", "spin", "halt", "abort", "join", "announce"}
  PROVE  CallFits(y, At(o, t)) /\ CallFits(y, Run) /\ Run.op = "run" /\ At(o, t).op = o
BY DEF CallFits, At, Run, CallOps

LEMMA StartStep ==
  ASSUME SchedInv, NEW c \in CPUs, NEW u \in Threads, Start(c, u)
  PROVE  SchedInv'
<1>1. Calls(c, "start")
  BY DEF Start
<1>2. holder = NoHolder /\ RecOK(s, None)
  BY <1>1, CallFacts, Begins
<1>3. PICK b : b = [s EXCEPT !.flags[u] = @ \ {"prestart"}]
  OBVIOUS
<1>4. /\ RecOK(b, None) /\ b.cur = s.cur /\ b.timeout = s.timeout
      /\ \A v \in Threads : b.flags[v] = IF v = u THEN s.flags[u] \ {"prestart"} ELSE s.flags[v]
  <2>5. PICK S : S = {"prestart"}
    OBVIOUS
  <2>1. S = {"prestart"} /\ S \in SUBSET {"prestart", "suspended"} /\ "suspended" \notin S
    BY <2>5
  <2>2. b = [s EXCEPT !.flags[u] = @ \ S]
    BY <1>3, <2>1
  <2>3. /\ RecOK(b, None) /\ b.cur = s.cur /\ b.timeout = s.timeout
        /\ \A v \in Threads : b.flags[v] = IF v = u THEN s.flags[u] \ S ELSE s.flags[v]
    BY <1>2, <2>1, <2>2, ClearOK
  <2>4. QED
    BY <2>1, <2>3
<1>5. SMP => \A d \in CPUs : s.cur[d] # u
  BY <1>2 DEF Start, RecOK, RunningOK
<1>6. PICK a : a = ReadyThread(b, c, u)
  OBVIOUS
<1>7. RecOK(a, None) /\ SameThreads(b, a)
  BY <1>4, <1>5, <1>6, ReadyThreadOK
<1>8. Keeps(s, b)
  BY <1>4 DEF Keeps
<1>9. Keeps(s, a)
  BY <1>7, <1>8, SameKeeps, KeepsTrans
<1>10. Reschedule(c, a) /\ pc' = pc
  BY <1>3, <1>6 DEF Start
<1>11. Lands(a)
  BY <1>2, <1>7, <1>10, Begins, RescheduleLands
<1>12. QED
  BY <1>2, <1>9, <1>10, <1>11, KeepsFaithful, StayInv

LEMMA YieldStep ==
  ASSUME SchedInv, NEW c \in CPUs, Yield(c)
  PROVE  SchedInv'
<1>1. ThreadCalls(c, "yield")
  BY DEF Yield
<1>2. PICK t \in Threads : t = s.cur[c]
  BY <1>1, ThreadCallFacts
<1>3. /\ holder = NoHolder /\ (SMP => ~Prevented(s, t))
      /\ \A d \in CPUs : s.cur[d] = t => d = c
  BY <1>1, <1>2, ThreadCallFacts
<1>4. RecOK(s, c) /\ ipi \in [CPUs -> BOOLEAN] /\ leaving \in [CPUs -> Threads \cup {None}]
  BY <1>3, Begins
<1>5. PICK b : b = IF ~SMP \/ s.queued[t] THEN DequeueThread(s, c, t) ELSE s
  OBVIOUS
<1>6. RecOK(b, c) /\ SameThreads(s, b) /\ ~In(b.runq, t)
  <2>1. CASE ~SMP \/ s.queued[t]
    BY <1>4, <1>5, <2>1, DequeueOK
  <2>2. CASE ~(~SMP \/ s.queued[t])
    <3>1. b = s /\ SameThreads(s, s)
      BY <1>4, <1>5, <2>2 DEF SameThreads, RecOK
    <3>2. ~In(s.runq, t)
      BY <1>4, <2>2 DEF RecOK, RunqOK
    <3>3. QED
      BY <1>4, <3>1, <3>2
  <2>3. QED
    BY <2>1, <2>2
<1>7. /\ \A d \in CPUs : b.cur[d] = t => d = c
      /\ SMP => ~Prevented(b, t)
  BY <1>3, <1>6 DEF SameThreads, Prevented
<1>8. PICK d : d = QueueThread(b, c, t)
  OBVIOUS
<1>9. RecOK(d, c) /\ SameThreads(b, d)
  BY <1>6, <1>7, <1>8, QueueOK
<1>10. PICK a : a = UpdateCache(d, c, TRUE)
  OBVIOUS
<1>11. Same(d, a)
  BY <1>9, <1>10, UpdateCacheSame DEF RecOK
<1>12. RecOK(a, c)
  BY <1>9, <1>11, SameRecOK
<1>13. Keeps(s, a)
  BY <1>6, <1>9, <1>11, SameKeeps, KeepsTrans
<1>14. Swap(c, a, ipi) /\ pc' = pc
  BY <1>2, <1>5, <1>8, <1>10 DEF Yield
<1>15. Lands(a)
  BY <1>3, <1>4, <1>12, <1>14, SwapLands
<1>16. QED
  BY <1>3, <1>13, <1>14, <1>15, KeepsFaithful, StayInv

LEMMA BlockStep ==
  ASSUME SchedInv, NEW c \in CPUs, Block(c)
  PROVE  SchedInv'
<1>1. ThreadCalls(c, "block")
  BY DEF Block
<1>2. PICK t \in Threads : t = s.cur[c]
  BY <1>1, ThreadCallFacts
<1>3. holder = NoHolder /\ (SMP => "pending" \notin s.flags[t])
  BY <1>1, <1>2, ThreadCallFacts
<1>4. RecOK(s, c) /\ ipi \in [CPUs -> BOOLEAN] /\ leaving \in [CPUs -> Threads \cup {None}]
  BY <1>3, Begins
<1>5. Obj \in Waits
  BY DEF Waits
<1>6. PICK a : a = AddToWaitq(s, c, t, Obj)
  OBVIOUS
<1>7. RecOK(a, c) /\ Keeps(s, a)
  BY <1>2, <1>3, <1>4, <1>5, <1>6, AddToWaitqOK
<1>8. Swap(c, a, ipi) /\ pc' = pc
  BY <1>2, <1>6 DEF Block
<1>9. Lands(a)
  BY <1>3, <1>4, <1>7, <1>8, SwapLands
<1>10. QED
  BY <1>3, <1>7, <1>8, <1>9, KeepsFaithful, StayInv

LEMMA WakeFirstStep ==
  ASSUME SchedInv, NEW c \in CPUs, WakeFirst(c)
  PROVE  SchedInv'
<1>1. Calls(c, "block") /\ s.waitq[Obj] # <<>>
  BY DEF WakeFirst
<1>2. holder = NoHolder /\ RecOK(s, None) /\ s \in SchedRecs
  BY <1>1, CallFacts, Begins
<1>3. Obj \in Waits /\ s.waitq \in [Waits -> Seq(Threads)]
  BY <1>2 DEF Waits, SchedRecs
<1>4. s.waitq[Obj] \in Seq(Threads)
  BY <1>3
<1>5. PICK u \in Threads : u = Head(s.waitq[Obj]) /\ In(s.waitq[Obj], u)
  BY <1>1, <1>4 DEF In
<1>6. PICK b : b = [Unpend(s, u) EXCEPT !.timeout[u] = FALSE]
  OBVIOUS
<1>7. RecOK(b, None) /\ Emptied(s, b, {u})
  BY <1>2, <1>6, UnpendUntimedOK
<1>8. Keeps(s, b) /\ b.cur = s.cur
  BY <1>7, SameKeeps DEF Emptied
<1>9. SMP => \A d \in CPUs : b.cur[d] # u
  <2>1. SMP => "pending" \in s.flags[u]
    BY <1>2, <1>3, <1>5 DEF RecOK, FlagsOK
  <2>2. QED
    BY <1>2, <1>8, <2>1, SchedTypes DEF RecOK, RunningOK
<1>10. PICK a : a = ReadyUnlessActive(b, c, u)
  OBVIOUS
<1>11. RecOK(a, None) /\ Keeps(b, a)
  <2>1. CASE a = b
    BY <1>7, <2>1 DEF Keeps
  <2>2. CASE a = ReadyThread(b, c, u)
    BY <1>7, <1>9, <2>2, ReadyThreadOK, SameKeeps
  <2>3. QED
    BY <1>10, <2>1, <2>2 DEF ReadyUnlessActive
<1>12. Reschedule(c, a) /\ pc' = pc
  BY <1>5, <1>6, <1>10 DEF WakeFirst
<1>13. Lands(a)
  BY <1>2, <1>11, <1>12, Begins, RescheduleLands
<1>14. QED
  BY <1>2, <1>8, <1>11, <1>12, <1>13, KeepsTrans, KeepsFaithful, StayInv

LEMMA SleepStep ==
  ASSUME SchedInv, NEW c \in CPUs, Sleep(c)
  PROVE  SchedInv'
<1>1. ThreadCalls(c, "sleep")
  BY DEF Sleep
<1>2. PICK t \in Threads : t = s.cur[c]
  BY <1>1, ThreadCallFacts
<1>3. holder = NoHolder /\ "sleep" \in ops /\ \A d \in CPUs : s.cur[d] = t => d = c
  BY <1>1, <1>2, ThreadCallFacts
<1>4. RecOK(s, c) /\ ipi \in [CPUs -> BOOLEAN] /\ leaving \in [CPUs -> Threads \cup {None}]
  BY <1>3, Begins
<1>5. PICK b : b = UnreadyThread(s, c, t) /\ RecOK(b, c) /\ SameThreads(s, b) /\ ~b.queued[t]
  BY <1>4, UnreadyOK
<1>6. PICK d : d = [b EXCEPT !.flags[t] = @ \cup {"suspended"}]
  OBVIOUS
<1>7. "suspended" \in Flags \ {"prestart"}
  BY DEF Flags
<1>8. b.cur = s.cur /\ b.flags = s.flags /\ b.timeout = s.timeout
  BY <1>5 DEF SameThreads
<1>9. /\ RecOK(d, c) /\ "suspended" \in d.flags[t] /\ d.cur = b.cur /\ d.timeout = b.timeout
      /\ Keeps(b, d)
  BY <1>3, <1>5, <1>6, <1>7, <1>8, MarkOK
<1>10. PICK a : a = [d EXCEPT !.timeout[t] = TRUE]
  OBVIOUS
<1>11. RecOK(a, c)
  BY <1>3, <1>8, <1>9, <1>10, TimedOK
<1>12. b \in SchedRecs /\ d \in SchedRecs /\ d.timeout \in [Threads -> BOOLEAN]
  BY <1>5, <1>9 DEF RecOK, SchedRecs
<1>13. a = [b EXCEPT !.timeout[t] = TRUE, !.flags[t] = @ \cup {"suspended"}]
  BY <1>6, <1>10, <1>12 DEF SchedRecs
<1>14. Swap(c, a, ipi) /\ pc' = pc
  BY <1>2, <1>5, <1>13 DEF Sleep
<1>15. Lands(a)
  BY <1>3, <1>4, <1>11, <1>14, SwapLands
<1>16. a.cur = s.cur /\ a.flags = d.flags /\ a.timeout = [d.timeout EXCEPT ![t] = TRUE]
  BY <1>8, <1>9, <1>10, <1>12, TimeoutFields
<1>17. ASSUME NEW u \in Threads, Fires(s, u, None) PROVE Fires(a, u, None)
  <2>1. u # t
    BY <1>2, <1>17, SchedTypes DEF Fires
  <2>2. ~a.timeout[u] /\ "suspended" \in a.flags[u]
    BY <1>8, <1>9, <1>12, <1>16, <1>17, <2>1 DEF Fires, Keeps
  <2>3. QED
    BY <1>16, <1>17, <2>2 DEF Fires
<1>18. Faithful(a)
  BY <1>17 DEF Faithful
<1>19. QED
  BY <1>3, <1>14, <1>15, <1>18, StayInv

LEMMA WakeupBeginStep ==
  ASSUME SchedInv, NEW c \in CPUs, NEW u \in Threads, WakeupBegin(c, u)
  PROVE  SchedInv'
<1>1. Calls(c, "wakeup")
  BY DEF WakeupBegin
<1>2. holder = NoHolder /\ "wakeup" \in ops /\ Ctx(c) \in Threads \cup CPUs
  BY <1>1, CallFacts
<1>3. RecOK(s, None) /\ s \in SchedRecs /\ s.timeout \in [Threads -> BOOLEAN]
  BY <1>2, Begins DEF SchedRecs
<1>4. PICK a : a = [s EXCEPT !.timeout[u] = FALSE]
  OBVIOUS
<1>5. RecOK(a, None)
  BY <1>3, <1>4, UntimedOK
<1>6. a.cur = s.cur /\ a.flags = s.flags /\ a.timeout = [s.timeout EXCEPT ![u] = FALSE]
  BY <1>3, <1>4, TimeoutFields
<1>7. \A v \in Threads : a.timeout[v] => s.timeout[v]
  BY <1>3, <1>6
<1>8. Keeps(s, a)
  BY <1>6, <1>7 DEF Keeps
<1>9. Unlock(a) /\ Goto(c, At("wakeup", u))
  BY <1>4 DEF WakeupBegin
<1>10. Lands(a)
  BY <1>2, <1>5, <1>9, Begins, UnlockLands
<1>11. CallFits(Ctx(c), At("wakeup", u)) /\ At("wakeup", u).op = "wakeup"
  BY <1>2 DEF CallFits, At, CallOps
<1>12. QED
  BY <1>2, <1>8, <1>9, <1>10, <1>11, KeepsFaithful, GotoInv

LEMMA WakeupStep ==
  ASSUME CallsAreSafe, SchedInv, NEW c \in CPUs, Wakeup(c)
  PROVE  SchedInv'
<1>1. /\ holder = NoHolder /\ Ctx(c) \in Threads \cup CPUs /\ pc[Ctx(c)].op = "wakeup"
      /\ Goto(c, Run)
  BY DEF Wakeup, Free
<1>2. PICK u \in Threads : u = pc[Ctx(c)].th
  BY <1>1 DEF SchedInv, CallsOK
<1>3. "wakeup" \in ops /\ ops \in Workloads
  BY <1>1 DEF SchedInv, CallsOK
<1>4. SMP => "sleep" \notin ops /\ "prio" \notin ops
  BY <1>3 DEF CallsAreSafe, SafeCalls
<1>5. RecOK(s, None) /\ s \in SchedRecs
  BY <1>1, Begins
<1>6. SMP => ~s.timeout[u]
  BY <1>4, <1>5 DEF RecOK, FlagsOK
<1>7. PICK b : b = [s EXCEPT !.flags[u] = @ \ {"suspended"}]
  OBVIOUS
<1>8. {"suspended"} \in SUBSET {"prestart", "suspended"}
  OBVIOUS
<1>9. RecOK(b, None) /\ b.cur = s.cur
  BY <1>5, <1>6, <1>7, <1>8, ClearOK
<1>10. PICK a : a = ReadyUnlessActive(b, c, u)
  OBVIOUS
<1>11. RecOK(a, None)
  <2>1. CASE a = b
    BY <1>9, <2>1
  <2>2. CASE a = ReadyThread(b, c, u) /\ ~Elsewhere(b, c, u)
    <3>1. SMP => \A d \in CPUs : b.cur[d] = u => d = c
      BY <2>2 DEF Elsewhere
    <3>2. QED
      BY <1>4, <1>9, <2>2, <3>1, ReadyThreadOK
  <2>3. QED
    BY <1>10, <2>1, <2>2 DEF ReadyUnlessActive
<1>12. Unlock(a) \/ Reschedule(c, a)
  BY <1>2, <1>7, <1>10 DEF Wakeup
<1>13. Lands(a)
  BY <1>1, <1>11, <1>12, Begins, UnlockLands, RescheduleLands
<1>14. Faithful(a)
  BY <1>4 DEF Faithful
<1>15. CallFits(Ctx(c), Run) /\ Run.op = "run"
  BY PlainFits
<1>16. QED
  BY <1>1, <1>13, <1>14, <1>15, GotoInv

LEMMA PrioSetStep ==
  ASSUME CallsAreSafe, SchedInv, NEW c \in CPUs, NEW u \in PrioTargets, NEW p \in NewPrios,
         PrioSet(c, u, p)
  PROVE  SchedInv'
<1>1. ThreadCalls(c, "prio")
  BY DEF PrioSet
<1>2. /\ holder = NoHolder /\ "prio" \in ops /\ Ctx(c) \in Threads \cup CPUs
      /\ s.cur[c] \in Threads
  BY <1>1, ThreadCallFacts
<1>3. u \in Threads /\ p \in Int
  BY SchedAssumption
<1>4. RecOK(s, None) /\ s \in SchedRecs
  BY <1>2, Begins
<1>5. PICK e : e = [s EXCEPT !.prio[u] = p]
  OBVIOUS
<1>6. Same(s, e)
  BY <1>3, <1>4, <1>5, PrioSame
<1>7. SUFFICES ASSUME NEW a, Unlock(a), RecOK(a, None), Keeps(s, a) PROVE SchedInv'
  <2>1. CASE ~Ready(s, u)
    <3>1. Unlock(e)
      BY <1>5, <2>1 DEF PrioSet
    <3>2. RecOK(e, None) /\ Keeps(s, e)
      BY <1>4, <1>6, SameRecOK, SameKeeps
    <3>3. QED
      BY <1>7, <3>1, <3>2
  <2>2. CASE Ready(s, u) /\ (~SMP \/ s.queued[u])
    <3>1. PICK b : /\ b = DequeueThread(s, c, u) /\ RecOK(b, None)
                   /\ SameThreads(s, b) /\ ~In(b.runq, u)
      BY <1>3, <1>4, DequeueOK
    <3>2. PICK d : d = [b EXCEPT !.prio[u] = p]
      OBVIOUS
    <3>3. Same(b, d)
      BY <1>3, <3>1, <3>2, PrioSame DEF RecOK
    <3>4. RecOK(d, None) /\ ~In(d.runq, u) /\ d.cur = s.cur /\ d.flags = s.flags
      BY <3>1, <3>3, SameRecOK DEF Same, SameThreads
    <3>5. SMP => \A k \in CPUs : s.cur[k] # u
      <4>1. ASSUME SMP, NEW k \in CPUs PROVE s.cur[k] # u
        <5>1. RunningOK(s, k, None) /\ k # None
          BY <1>4, <4>1, SchedTypes DEF RecOK
        <5>2. s.queued[u]
          BY <2>2, <4>1
        <5>3. QED
          BY <1>2, <1>3, <5>1, <5>2 DEF RunningOK
      <4>2. QED
        BY <4>1
    <3>6. ~Prevented(d, u)
      BY <2>2, <3>4 DEF Ready, Prevented
    <3>7. PICK f : f = QueueThread(d, c, u)
      OBVIOUS
    <3>8. RecOK(f, None) /\ SameThreads(d, f)
      BY <1>3, <3>4, <3>5, <3>6, <3>7, QueueOK
    <3>9. PICK g : g = IF s.prio[u] > p THEN FlagReady(f, c, u) ELSE f
      OBVIOUS
    <3>10. Same(f, g)
      BY <3>8, <3>9, FlagReadySame DEF Same, RecOK
    <3>11. PICK h : h = UpdateCache(g, c, TRUE)
      OBVIOUS
    <3>12. Same(g, h)
      BY <3>10, <3>11, UpdateCacheSame DEF Same
    <3>13. RecOK(h, None)
      BY <3>8, <3>10, <3>12, SameRecOK
    <3>14. Keeps(s, h)
      BY <3>1, <3>3, <3>8, <3>10, <3>12, SameKeeps, KeepsTrans
    <3>15. Unlock(h)
      BY <2>2, <3>1, <3>2, <3>7, <3>9, <3>11 DEF PrioSet
    <3>16. QED
      BY <1>7, <3>13, <3>14, <3>15
  <2>3. CASE Ready(s, u) /\ ~(~SMP \/ s.queued[u])
    <3>1. PICK m \in SUBSET CPUs : m = {d \in CPUs \ {c} : s.cur[d] = u}
      OBVIOUS
    <3>2. PICK g : g = IF s.prio[u] < p THEN FlagIpi(e, m) ELSE e
      OBVIOUS
    <3>3. Same(e, g)
      BY <1>6, <3>2, FlagIpiSame DEF Same
    <3>4. PICK h : h = UpdateCache(g, c, TRUE)
      OBVIOUS
    <3>5. Same(g, h)
      BY <3>3, <3>4, UpdateCacheSame DEF Same
    <3>6. RecOK(h, None) /\ Keeps(s, h)
      BY <1>4, <1>6, <3>3, <3>5, SameTrans, SameRecOK, SameKeeps
    <3>7. Unlock(h)
      BY <1>5, <2>3, <3>1, <3>2, <3>4 DEF PrioSet
    <3>8. QED
      BY <1>7, <3>6, <3>7
  <2>4. QED
    BY <2>1, <2>2, <2>3
<1>8. Lands(a)
  BY <1>2, <1>7, Begins, UnlockLands
<1>9. pc' = pc \/ Goto(c, At("resched", None))
  BY DEF PrioSet
<1>10. CallFits(Ctx(c), At("resched", None)) /\ At("resched", None).op = "resched"
  BY PlainFits
<1>11. Faithful(a)
  BY <1>7, KeepsFaithful
<1>12. QED
  BY <1>2, <1>8, <1>9, <1>10, <1>11, StayInv, GotoInv

LEMMA ReschedUnlockedStep ==
  ASSUME SchedInv, NEW c \in CPUs, ReschedUnlocked(c)
  PROVE  SchedInv'
<1>1. /\ holder = NoHolder /\ Ctx(c) \in Threads \cup CPUs
      /\ Reschedule(c, s) /\ Goto(c, Run)
  BY DEF ReschedUnlocked, Free
<1>2. Lands(s) /\ Keeps(s, s)
  BY <1>1, Begins, RescheduleLands DEF Keeps
<1>3. CallFits(Ctx(c), Run) /\ Run.op = "run"
  BY PlainFits
<1>4. QED
  BY <1>1, <1>2, <1>3, KeepsFaithful, GotoInv

LEMMA SchedLockStep ==
  ASSUME SchedInv, NEW c \in CPUs, SchedLock(c) \/ SchedUnlock(c)
  PROVE  SchedInv'
<1>1. ThreadCalls(c, "lock")
  BY DEF SchedLock, SchedUnlock
<1>2. PICK t \in Threads : t = s.cur[c]
  BY <1>1, ThreadCallFacts
<1>3. holder = NoHolder /\ Ctx(c) \in Threads \cup CPUs /\ RecOK(s, None) /\ s \in SchedRecs
  BY <1>1, ThreadCallFacts, Begins
<1>4. s.locked[t] \in 0..MaxLock /\ MaxLock \in Nat
  BY <1>3, SchedAssumption DEF SchedRecs
<1>5. CASE SchedLock(c)
  <2>1. s.locked[t] + 1 \in 0..MaxLock
    BY <1>2, <1>4, <1>5 DEF SchedLock
  <2>2. PICK a : a = [s EXCEPT !.locked[t] = s.locked[t] + 1]
    OBVIOUS
  <2>3. Same(s, a)
    BY <1>3, <2>1, <2>2, LockedSame
  <2>4. RecOK(a, None) /\ Keeps(s, a)
    BY <1>3, <2>3, SameRecOK, SameKeeps
  <2>5. Unlock(a) /\ pc' = pc
    BY <1>2, <1>5, <2>2 DEF SchedLock
  <2>6. Lands(a)
    BY <1>3, <2>4, <2>5, Begins, UnlockLands
  <2>7. QED
    BY <1>3, <2>4, <2>5, <2>6, KeepsFaithful, StayInv
<1>6. CASE SchedUnlock(c)
  <2>1. s.locked[t] - 1 \in 0..MaxLock
    BY <1>2, <1>4, <1>6 DEF SchedUnlock
  <2>2. PICK b : b = [s EXCEPT !.locked[t] = s.locked[t] - 1]
    OBVIOUS
  <2>3. Same(s, b)
    BY <1>3, <2>1, <2>2, LockedSame
  <2>4. PICK a : a = UpdateCache(b, c, FALSE)
    OBVIOUS
  <2>5. Same(b, a)
    BY <2>3, <2>4, UpdateCacheSame DEF Same
  <2>6. RecOK(a, None) /\ Keeps(s, a)
    BY <1>3, <2>3, <2>5, SameTrans, SameRecOK, SameKeeps
  <2>7. Unlock(a) /\ Goto(c, At("resched", None))
    BY <1>2, <1>6, <2>2, <2>4 DEF SchedUnlock
  <2>8. Lands(a)
    BY <1>3, <2>6, <2>7, Begins, UnlockLands
  <2>9. CallFits(Ctx(c), At("resched", None)) /\ At("resched", None).op = "resched"
    BY PlainFits
  <2>10. QED
    BY <1>3, <2>6, <2>7, <2>8, <2>9, KeepsFaithful, GotoInv
<1>7. QED
  BY <1>5, <1>6

LEMMA TimeSliceSetStep ==
  ASSUME CallsAreSafe, SchedInv, NEW c \in CPUs, NEW on \in BOOLEAN, TimeSliceSet(c, on)
  PROVE  SchedInv'
<1>1. ThreadCalls(c, "slice_set")
  BY DEF TimeSliceSet
<1>2. holder = NoHolder /\ "slice_set" \in ops /\ ops \in Workloads
  BY <1>1, ThreadCallFacts DEF SchedInv
<1>3. SMP => "prio" \notin ops
  BY <1>2 DEF CallsAreSafe, SafeCalls
<1>4. RecOK(s, None)
  BY <1>2, Begins
<1>5. PICK b : b = [s EXCEPT !.slicing = on]
  OBVIOUS
<1>6. RecOK(b, None) /\ Keeps(s, b)
  BY <1>3, <1>4, <1>5, SlicingOK
<1>7. PICK a : a = ResetSlice(b, c, s.cur[c])
  OBVIOUS
<1>8. Same(b, a)
  BY <1>6, <1>7, ResetSliceSame DEF RecOK
<1>9. RecOK(a, None) /\ Keeps(s, a)
  BY <1>6, <1>8, SameRecOK, SameKeeps, KeepsTrans
<1>10. Unlock(a) /\ pc' = pc
  BY <1>5, <1>7 DEF TimeSliceSet
<1>11. Lands(a)
  BY <1>2, <1>9, <1>10, Begins, UnlockLands
<1>12. QED
  BY <1>2, <1>9, <1>10, <1>11, KeepsFaithful, StayInv

LEMMA CpuMaskModStep ==
  ASSUME SchedInv, NEW c \in CPUs, NEW u \in Threads, NEW m \in Masks, CpuMaskMod(c, u, m)
  PROVE  SchedInv'
<1>1. ThreadCalls(c, "mask")
  BY DEF CpuMaskMod
<1>2. holder = NoHolder /\ RecOK(s, None) /\ s \in SchedRecs /\ m \in SUBSET CPUs
  BY <1>1, ThreadCallFacts, Begins, SchedAssumption
<1>3. PICK a : a = [s EXCEPT !.mask[u] = m]
  OBVIOUS
<1>4. Same(s, a)
  BY <1>2, <1>3, MaskSame
<1>5. RecOK(a, None) /\ Keeps(s, a)
  BY <1>2, <1>4, SameRecOK, SameKeeps
<1>6. Unlock(a) /\ pc' = pc
  BY <1>3 DEF CpuMaskMod
<1>7. Lands(a)
  BY <1>2, <1>5, <1>6, Begins, UnlockLands
<1>8. QED
  BY <1>2, <1>5, <1>6, <1>7, KeepsFaithful, StayInv

LEMMA QuietLands ==
  ASSUME RecOK(s', None), holder = NoHolder, holder' = holder,
         leaving \in [CPUs -> Threads \cup {None}], leaving' = leaving,
         ipi' \in [CPUs -> BOOLEAN], ops' = ops
  PROVE  Lands(s')
<1>1. holder' = NoHolder /\ holder'.cpu = None
  BY DEF NoHolder
<1>2. QED
  BY <1>1 DEF Lands, HolderFits

(* Nobody is resumed where interrupts halt threads. *)
LEMMA HaltOtherStep ==
  ASSUME SchedInv, NEW c \in CPUs, NEW u \in Threads, NEW kind \in {"dead", "suspended"},
         HaltOther(c, u, kind), holder = NoHolder, Ctx(c) \in Threads \cup CPUs,
         s.isr[c] => "resume" \notin ops, SMP, s.cur[c] # u
  PROVE  SchedInv'
<1>1. RecOK(s, None) /\ s \in SchedRecs /\ leaving \in [CPUs -> Threads \cup {None}]
  BY Begins
<1>2. PICK flag \in Requests : flag = IF kind = "dead" THEN "aborting" ELSE "suspending"
  BY DEF Requests
<1>3. flag \in Flags \ {"prestart"}
  BY <1>2 DEF Flags, Requests
<1>4. PICK a : a = [s EXCEPT !.flags[u] = @ \cup {flag}]
  OBVIOUS
<1>5. RecOK(a, None) /\ Keeps(s, a) /\ a.cur = s.cur /\ a.isr = s.isr
  BY <1>1, <1>2, <1>3, <1>4, MarkOK
<1>6. PICK i : i = [d \in CPUs |-> ipi[d] \/ s.cur[d] = u]
  OBVIOUS
<1>7. i \in [CPUs -> BOOLEAN]
  BY <1>6
<1>8. PICK w \in Waits : w = <<IF kind = "dead" THEN "join" ELSE "halt", u>>
  BY DEF Waits
<1>9. CASE s.isr[c]
  <2>1. /\ s' = HaltCurrent(a, c) /\ ipi' = i /\ leaving' = leaving /\ holder' = holder
        /\ Goto(c, At("spin", u)) /\ ops' = ops
    BY <1>2, <1>4, <1>6, <1>9, HistoryOps DEF HaltOther
  <2>2. RecOK(s', None) /\ Keeps(a, s')
    BY <1>5, <1>9, <2>1, HaltCurrentOK
  <2>3. Lands(s') /\ Faithful(s')
    BY <1>1, <1>5, <1>7, <2>1, <2>2, KeepsTrans, KeepsFaithful, QuietLands
  <2>4. CallFits(Ctx(c), At("spin", u)) /\ At("spin", u).op = "spin"
    BY PlainFits
  <2>5. QED
    BY <2>1, <2>3, <2>4, GotoInv
<1>10. CASE ~s.isr[c]
  <2>1. PICK t \in Threads : t = s.cur[c] /\ Ctx(c) = t
    BY <1>1, <1>10, SchedTypes DEF Ctx, SchedRecs
  <2>2. "pending" \notin s.flags[t]
    BY <1>1, <2>1, SchedTypes DEF RecOK, RunningOK
  <2>3. a.flags[t] = s.flags[t]
    BY <1>1, <1>4, <2>1 DEF SchedRecs
  <2>4. RecOK(a, c)
    BY <1>5, WithinOK
  <2>5. PICK b : b = AddToWaitq(a, c, t, w)
    OBVIOUS
  <2>6. RecOK(b, c) /\ Keeps(a, b)
    BY <1>5, <2>1, <2>2, <2>3, <2>4, <2>5, AddToWaitqOK
  <2>7. PICK o \in {"abort", "halt"} : o = IF kind = "dead" THEN "abort" ELSE "halt"
    OBVIOUS
  <2>8. Swap(c, b, i) /\ Goto(c, At(o, u))
    BY <1>2, <1>4, <1>6, <1>8, <1>10, <2>1, <2>5, <2>7 DEF HaltOther
  <2>9. Lands(b) /\ Faithful(b)
    BY <1>1, <1>5, <1>7, <2>6, <2>8, SwapLands, KeepsTrans, KeepsFaithful
  <2>10. CallFits(Ctx(c), At(o, u)) /\ At(o, u).op = o
    BY PlainFits
  <2>11. QED
    BY <2>8, <2>9, <2>10, GotoInv
<1>11. QED
  BY <1>9, <1>10

LEMMA HaltHereStep ==
  ASSUME SchedInv, NEW c \in CPUs, NEW u \in Threads, NEW kind \in {"dead", "suspended"},
         HaltHere(c, u, kind), holder = NoHolder, Ctx(c) \in Threads \cup CPUs,
         SMP /\ s.isr[c] => "resume" \notin ops,
         SMP => \A d \in CPUs : s.cur[d] = u => d = c
  PROVE  SchedInv'
<1>1. RecOK(s, None) /\ RecOK(s, c)
  BY Begins
<1>2. PICK a : a = HaltThread(s, c, u, kind)
  OBVIOUS
<1>3. Goto(c, Run)
  BY DEF HaltHere
<1>4. CallFits(Ctx(c), Run) /\ Run.op = "run"
  BY PlainFits
<1>5. CASE u = s.cur[c] /\ ~s.isr[c]
  <2>1. RecOK(a, c) /\ Keeps(s, a)
    BY <1>1, <1>2, HaltThreadOK
  <2>2. Swap(c, a, ipi)
    BY <1>2, <1>5 DEF HaltHere
  <2>3. Lands(a) /\ Faithful(a)
    BY <2>1, <2>2, Begins, SwapLands, KeepsFaithful
  <2>4. QED
    BY <1>3, <1>4, <2>3, GotoInv
<1>6. CASE ~(u = s.cur[c] /\ ~s.isr[c])
  <2>1. SMP /\ s.cur[c] = u => s.isr[c] /\ (kind = "suspended" => "resume" \notin ops)
    BY <1>6
  <2>2. RecOK(a, None) /\ Keeps(s, a)
    BY <1>1, <1>2, <2>1, HaltThreadOK
  <2>3. Unlock(a)
    BY <1>2, <1>6 DEF HaltHere
  <2>4. Lands(a) /\ Faithful(a)
    BY <2>2, <2>3, Begins, UnlockLands, KeepsFaithful
  <2>5. QED
    BY <1>3, <1>4, <2>4, GotoInv
<1>7. QED
  BY <1>5, <1>6

LEMMA ThreadHaltStep ==
  ASSUME SchedInv, NEW c \in CPUs, NEW u \in Threads, NEW kind \in {"dead", "suspended"},
         ThreadHalt(c, u, kind), holder = NoHolder, Ctx(c) \in Threads \cup CPUs,
         SMP /\ s.isr[c] => "resume" \notin ops
  PROVE  SchedInv'
<1>1. CASE Elsewhere(s, c, u)
  <2>1. SMP /\ HaltOther(c, u, kind)
    BY <1>1 DEF ThreadHalt, Elsewhere
  <2>2. CurOK(s)
    BY Begins DEF RecOK
  <2>3. s.cur[c] # u
    BY <1>1, <2>2 DEF Elsewhere, CurOK
  <2>4. QED
    BY <2>1, <2>3, HaltOtherStep
<1>2. CASE ~Elsewhere(s, c, u)
  <2>1. HaltHere(c, u, kind) /\ (SMP => \A d \in CPUs : s.cur[d] = u => d = c)
    BY <1>2 DEF ThreadHalt, Elsewhere
  <2>2. QED
    BY <2>1, HaltHereStep
<1>3. QED
  BY <1>1, <1>2

LEMMA CtxIsCpu ==
  ASSUME SchedInv, holder = NoHolder, NEW c \in CPUs
  PROVE  /\ Ctx(c) \in CPUs => s.isr[c]
         /\ s.isr[c] => Ctx(c) = c
<1>1. s.cur[c] \notin CPUs
  BY Begins, SchedTypes, SchedAssumption DEF SchedRecs
<1>2. QED
  BY <1>1 DEF Ctx

LEMMA SuspendBeginStep ==
  ASSUME SchedInv, NEW c \in CPUs, NEW u \in Threads, SuspendBegin(c, u)
  PROVE  SchedInv'
<1>1. ThreadCalls(c, "suspend") \/ (Calls(c, "isr_suspend") /\ s.isr[c])
  BY DEF SuspendBegin
<1>2. /\ holder = NoHolder /\ Ctx(c) \in Threads \cup CPUs
      /\ ~s.isr[c] \/ "isr_suspend" \in ops
  BY <1>1, CallFacts DEF ThreadCalls
<1>3. RecOK(s, None) /\ s \in SchedRecs /\ s.timeout \in [Threads -> BOOLEAN]
  BY <1>2, Begins DEF SchedRecs
<1>4. PICK a : a = [s EXCEPT !.timeout[u] = FALSE]
  OBVIOUS
<1>5. RecOK(a, None)
  BY <1>3, <1>4, UntimedOK
<1>6. a.cur = s.cur /\ a.flags = s.flags /\ a.timeout = [s.timeout EXCEPT ![u] = FALSE]
  BY <1>3, <1>4, TimeoutFields
<1>7. \A v \in Threads : a.timeout[v] => s.timeout[v]
  BY <1>3, <1>6
<1>8. Keeps(s, a)
  BY <1>6, <1>7 DEF Keeps
<1>9. Unlock(a) /\ Goto(c, At("suspend", u))
  BY <1>4 DEF SuspendBegin
<1>10. Lands(a)
  BY <1>2, <1>5, <1>9, Begins, UnlockLands
<1>11. Ctx(c) \in CPUs => "isr_suspend" \in ops
  BY <1>2, CtxIsCpu
<1>12. CallFits(Ctx(c), At("suspend", u)) /\ At("suspend", u).op = "suspend"
  BY <1>11 DEF CallFits, At, CallOps
<1>13. QED
  BY <1>2, <1>8, <1>9, <1>10, <1>12, KeepsFaithful, GotoInv

LEMMA SuspendStep ==
  ASSUME CallsAreSafe, SchedInv, NEW c \in CPUs, Suspend(c)
  PROVE  SchedInv'
<1>1. holder = NoHolder /\ Ctx(c) \in Threads \cup CPUs /\ pc[Ctx(c)].op = "suspend"
  BY DEF Suspend, Free
<1>2. PICK u \in Threads : u = pc[Ctx(c)].th
  BY <1>1 DEF SchedInv, CallsOK
<1>3. CASE "suspended" \in s.flags[u]
  <2>1. Unlock(s) /\ Goto(c, Run)
    BY <1>2, <1>3 DEF Suspend
  <2>2. Lands(s) /\ Keeps(s, s)
    BY <1>1, <2>1, Begins, UnlockLands DEF Keeps
  <2>3. CallFits(Ctx(c), Run) /\ Run.op = "run"
    BY PlainFits
  <2>4. QED
    BY <1>1, <2>1, <2>2, <2>3, KeepsFaithful, GotoInv
<1>4. CASE "suspended" \notin s.flags[u]
  <2>1. ThreadHalt(c, u, "suspended")
    BY <1>2, <1>4 DEF Suspend
  <2>2. s.isr[c] => pc[c].op = "suspend"
    BY <1>1, CtxIsCpu
  <2>3. s.isr[c] => "isr_suspend" \in ops
    BY <2>2 DEF SchedInv, CallsOK
  <2>4. SMP /\ s.isr[c] => "resume" \notin ops
    BY <2>3 DEF CallsAreSafe, SafeCalls, SchedInv
  <2>5. QED
    BY <1>1, <2>1, <2>4, ThreadHaltStep
<1>5. QED
  BY <1>3, <1>4

LEMMA ResumeStep ==
  ASSUME CallsAreSafe, SchedInv, NEW c \in CPUs, NEW u \in Threads, Resume(c, u)
  PROVE  SchedInv'
<1>1. Calls(c, "resume") /\ "suspended" \in s.flags[u]
  BY DEF Resume
<1>2. holder = NoHolder /\ "resume" \in ops /\ ops \in Workloads
  BY <1>1, CallFacts DEF SchedInv
<1>3. RecOK(s, None)
  BY <1>2, Begins
<1>4. SMP => "sleep" \notin ops
  BY <1>2 DEF CallsAreSafe, SafeCalls
<1>5. SMP => ~s.timeout[u]
  BY <1>3, <1>4 DEF RecOK, FlagsOK
<1>6. PICK b : b = [s EXCEPT !.flags[u] = @ \ {"suspended"}]
  OBVIOUS
<1>7. {"suspended"} \in SUBSET {"prestart", "suspended"}
  OBVIOUS
<1>8. RecOK(b, None) /\ b.cur = s.cur
  BY <1>3, <1>5, <1>6, <1>7, ClearOK
<1>9. SMP => \A d \in CPUs : b.cur[d] # u
  BY <1>1, <1>2, <1>3, <1>8, SchedTypes DEF RecOK, RunningOK
<1>10. PICK a : a = ReadyThread(b, c, u)
  OBVIOUS
<1>11. RecOK(a, None)
  BY <1>8, <1>9, <1>10, ReadyThreadOK
<1>12. Reschedule(c, a) /\ pc' = pc
  BY <1>6, <1>10 DEF Resume
<1>13. Lands(a)
  BY <1>2, <1>11, <1>12, Begins, RescheduleLands
<1>14. Faithful(a)
  BY <1>4 DEF Faithful
<1>15. QED
  BY <1>2, <1>12, <1>13, <1>14, StayInv

LEMMA AbortStep ==
  ASSUME CallsAreSafe, SchedInv, NEW c \in CPUs, NEW u \in Threads, Abort(c, u)
  PROVE  SchedInv'
<1>1. \/ ThreadCalls(c, "abort") \/ ThreadCalls(c, "exit")
      \/ Calls(c, "isr_abort") /\ s.isr[c]
  BY DEF Abort
<1>2. /\ holder = NoHolder /\ Ctx(c) \in Threads \cup CPUs
      /\ ~s.isr[c] \/ "isr_abort" \in ops
  BY <1>1, CallFacts DEF ThreadCalls
<1>3. SMP /\ s.isr[c] => "resume" \notin ops
  BY <1>2 DEF CallsAreSafe, SafeCalls, SchedInv
<1>4. ThreadHalt(c, u, "dead")
  BY DEF Abort
<1>5. QED
  BY <1>2, <1>3, <1>4, ThreadHaltStep

LEMMA JoinStep ==
  ASSUME SchedInv, NEW c \in CPUs, NEW u \in Threads, Join(c, u)
  PROVE  SchedInv'
<1>1. ThreadCalls(c, "join")
  BY DEF Join
<1>2. PICK t \in Threads : t = s.cur[c]
  BY <1>1, ThreadCallFacts
<1>3. /\ holder = NoHolder /\ (SMP => "pending" \notin s.flags[t])
      /\ Ctx(c) \in Threads \cup CPUs
  BY <1>1, <1>2, ThreadCallFacts
<1>4. RecOK(s, c) /\ ipi \in [CPUs -> BOOLEAN] /\ leaving \in [CPUs -> Threads \cup {None}]
  BY <1>3, Begins
<1>5. CallFits(Ctx(c), At("join", u)) /\ At("join", u).op = "join"
  BY PlainFits
<1>6. Goto(c, At("join", u))
  BY DEF Join
<1>7. CASE "dead" \in s.flags[u]
  <2>1. Unlock(s)
    BY <1>7 DEF Join
  <2>2. Lands(s) /\ Keeps(s, s)
    BY <1>3, <2>1, Begins, UnlockLands DEF Keeps
  <2>3. QED
    BY <1>3, <1>5, <1>6, <2>2, KeepsFaithful, GotoInv
<1>8. CASE "dead" \notin s.flags[u]
  <2>1. <<"join", u>> \in Waits
    BY DEF Waits
  <2>2. PICK a : a = AddToWaitq(s, c, t, <<"join", u>>)
    OBVIOUS
  <2>3. RecOK(a, c) /\ Keeps(s, a)
    BY <1>2, <1>3, <1>4, <2>1, <2>2, AddToWaitqOK
  <2>4. Swap(c, a, ipi)
    BY <1>2, <1>8, <2>2 DEF Join
  <2>5. Lands(a)
    BY <1>3, <1>4, <2>3, <2>4, SwapLands
  <2>6. QED
    BY <1>3, <1>5, <1>6, <2>3, <2>5, KeepsFaithful, GotoInv
<1>9. QED
  BY <1>7, <1>8

-----------------------------------------------------------------------------
(* Interrupts, and the steps that need no lock.                            *)

LEMMA QuietInv ==
  ASSUME SchedInv, RecOK(s', holder.cpu), s'.flags = s.flags, s'.queued = s.queued,
         holder' = holder, leaving' \in [CPUs -> Threads \cup {None}],
         ipi' \in [CPUs -> BOOLEAN], ops' = ops, CallsOK'
  PROVE  SchedInv'
<1>1. RecOK(s, holder.cpu)'
  BY RecOKNext
<1>2. HolderOK'
  BY DEF SchedInv, HolderOK, NextOK, Prevented
<1>3. QED
  BY <1>1, <1>2 DEF SchedInv

LEMMA KeepsFiring ==
  ASSUME Keeps(s, s'), holder' = holder
  PROVE  SMP /\ "sleep" \in ops =>
           \A u \in Threads : Fires(s, u, holder.cpu) => Fires(s', u, holder'.cpu)
BY KeepsFires

LEMMA ReturnsStep ==
  ASSUME SchedInv, NEW c \in CPUs, HaltOrJoinReturns(c) \/ SpinReturns(c)
  PROVE  SchedInv'
<1>1. /\ s' = s /\ leaving' = leaving /\ holder' = holder /\ ipi' = ipi /\ ops' = ops
      /\ Goto(c, Run)
  BY HistoryOps DEF HaltOrJoinReturns, SpinReturns
<1>2. PICK y \in Threads \cup CPUs : y = Ctx(c)
  BY DEF HaltOrJoinReturns, SpinReturns, Ctx
<1>3. pc' = [pc EXCEPT ![y] = Run]
  BY <1>1, <1>2 DEF Goto
<1>4. CallFits(y, Run) /\ Run.op = "run" /\ Keeps(s, s')
  BY <1>1, PlainFits DEF Keeps
<1>5. CallsOK'
  BY <1>1, <1>3, <1>4, KeepsFiring, CallsMove
<1>6. QED
  BY <1>1, <1>5, QuietInv DEF SchedInv

LEMMA EnterFacts ==
  ASSUME SchedInv, NEW c \in CPUs, NEW w, Enter(c, w)
  PROVE  /\ RecOK(s', holder.cpu) /\ Keeps(s, s')
         /\ s'.flags = s.flags /\ s'.queued = s.queued
<1>1. s' = [s EXCEPT !.isr[c] = TRUE] /\ RecOK(s, holder.cpu)
  BY DEF Enter, SchedInv
<1>2. PICK b : b = [s EXCEPT !.isr[c] = TRUE]
  OBVIOUS
<1>3. /\ RecOK(b, holder.cpu) /\ b.cur = s.cur /\ b.flags = s.flags
      /\ b.timeout = s.timeout /\ b.queued = s.queued
  BY <1>1, <1>2, IsrOK
<1>4. QED
  BY <1>1, <1>2, <1>3 DEF Keeps

LEMMA DeviceIrqStep ==
  ASSUME SchedInv, NEW c \in CPUs, DeviceIrq(c)
  PROVE  SchedInv'
<1>1. /\ Enter(c, Run) /\ leaving' = leaving /\ holder' = holder /\ ipi' = ipi /\ ops' = ops
  BY HistoryOps DEF DeviceIrq
<1>2. pc' = [pc EXCEPT ![c] = Run]
  BY <1>1 DEF Enter
<1>3. CallFits(c, Run) /\ Run.op = "run"
  BY PlainFits
<1>4. /\ RecOK(s', holder.cpu) /\ Keeps(s, s')
      /\ s'.flags = s.flags /\ s'.queued = s.queued
  BY <1>1, EnterFacts
<1>5. CallsOK'
  BY <1>1, <1>2, <1>3, <1>4, KeepsFiring, CallsMove
<1>6. QED
  BY <1>1, <1>4, <1>5, QuietInv DEF SchedInv

(* The CPU that announces is the only one. *)
LEMMA CallsAnnounce ==
  ASSUME SchedInv, ops' = ops, NEW c \in CPUs, NEW w, CallFits(c, w),
         pc' = [pc EXCEPT ![c] = w],
         \A d \in CPUs \ {c} : pc[d].op \notin {"announce", "fire"},
         FiringOK(c)'
  PROVE  CallsOK'
<1>1. pc \in [Threads \cup CPUs -> [op : CallOps, th : Threads \cup {None}]]
  BY DEF SchedInv, CallsOK
<1>2. \A z \in Threads \cup CPUs : pc'[z] = IF z = c THEN w ELSE pc[z]
  BY <1>1
<1>3. ASSUME NEW d \in CPUs PROVE FiringOK(d)'
  <2>1. CASE d = c
    BY <2>1
  <2>2. CASE d # c
    <3>1. pc'[d].op # "fire"
      BY <1>2, <2>2
    <3>2. QED
      BY <3>1 DEF FiringOK
  <2>3. QED
    BY <2>1, <2>2
<1>4. (pc \in [Threads \cup CPUs -> [op : CallOps, th : Threads \cup {None}]])'
  BY <1>1 DEF CallFits
<1>5. \A z \in Threads \cup CPUs :
        /\ pc'[z].op \in {"wakeup", "suspend"} => pc'[z].th \in Threads
        /\ pc'[z].op = "wakeup" => "wakeup" \in ops'
  BY <1>2 DEF SchedInv, CallsOK, CallFits
<1>6. \A d \in CPUs : pc'[d].op = "suspend" => "isr_suspend" \in ops'
  BY <1>2 DEF SchedInv, CallsOK, CallFits
<1>7. \A d, e \in CPUs :
        pc'[d].op \in {"announce", "fire"} /\ pc'[e].op \in {"announce", "fire"} => d = e
  BY <1>2
<1>8. QED
  BY <1>3, <1>4, <1>5, <1>6, <1>7 DEF CallsOK

LEMMA TimerIrqStep ==
  ASSUME SchedInv, NEW c \in CPUs, TimerIrq(c)
  PROVE  SchedInv'
<1>1. /\ Enter(c, At("announce", None)) /\ leaving' = leaving /\ holder' = holder
      /\ ipi' = ipi /\ ops' = ops
      /\ \A d \in CPUs : pc[d].op \notin {"announce", "fire"}
  BY HistoryOps DEF TimerIrq
<1>2. pc' = [pc EXCEPT ![c] = At("announce", None)]
  BY <1>1 DEF Enter
<1>3. CallFits(c, At("announce", None)) /\ At("announce", None).op = "announce"
  BY PlainFits
<1>4. /\ RecOK(s', holder.cpu) /\ Keeps(s, s')
      /\ s'.flags = s.flags /\ s'.queued = s.queued
  BY <1>1, EnterFacts
<1>5. FiringOK(c)'
  <2>1. pc'[c].op = "announce"
    BY <1>2, <1>3 DEF SchedInv, CallsOK
  <2>2. QED
    BY <2>1 DEF FiringOK
<1>6. CallsOK'
  BY <1>1, <1>2, <1>3, <1>5, CallsAnnounce
<1>7. QED
  BY <1>1, <1>4, <1>6, QuietInv DEF SchedInv

LEMMA SchedIpiStep ==
  ASSUME SchedInv, NEW c \in CPUs, SchedIpi(c)
  PROVE  SchedInv'
<1>1. /\ holder = NoHolder /\ s' = TimeSlice([s EXCEPT !.isr[c] = TRUE], c)
      /\ ipi' = [ipi EXCEPT ![c] = FALSE]
      /\ leaving' = leaving /\ holder' = holder /\ pc' = pc /\ ops' = ops
  BY HistoryOps DEF SchedIpi
<1>2. RecOK(s, None) /\ ipi \in [CPUs -> BOOLEAN] /\ leaving \in [CPUs -> Threads \cup {None}]
  BY <1>1, Begins
<1>3. PICK b : b = [s EXCEPT !.isr[c] = TRUE]
  OBVIOUS
<1>4. RecOK(b, None) /\ b.cur = s.cur /\ b.flags = s.flags /\ b.timeout = s.timeout
  BY <1>2, <1>3, IsrOK
<1>5. RecOK(s', None) /\ SameThreads(b, s')
  BY <1>1, <1>3, <1>4, TimeSliceOK
<1>6. Keeps(s, s')
  BY <1>4, <1>5 DEF Keeps, SameThreads
<1>7. ipi' \in [CPUs -> BOOLEAN]
  BY <1>1, <1>2
<1>8. Lands(s')
  BY <1>1, <1>2, <1>5, <1>7, QuietLands
<1>9. QED
  BY <1>1, <1>6, <1>8, KeepsFaithful, StayInv

LEMMA SliceTimeoutStep ==
  ASSUME SchedInv, NEW c \in CPUs, NEW d \in CPUs, SliceTimeout(c, d)
  PROVE  SchedInv'
<1>1. PICK b : b = [s EXCEPT !.sliceOn[d] = FALSE, !.sliceExp[d] = TRUE]
  OBVIOUS
<1>2. /\ s' = IF d # c THEN FlagIpi(b, {d}) ELSE b
      /\ leaving' = leaving /\ holder' = holder /\ pc' = pc /\ ipi' = ipi /\ ops' = ops
  BY <1>1, HistoryOps DEF SliceTimeout
<1>3. Same(s, b)
  BY <1>1, SliceSame DEF SchedInv, RecOK
<1>4. Same(b, s')
  BY <1>2, <1>3, FlagIpiSame DEF Same
<1>5. Same(s, s')
  BY <1>3, <1>4, SameTrans
<1>6. RecOK(s', holder.cpu) /\ Keeps(s, s')
  BY <1>5, SameRecOK, SameKeeps DEF SchedInv
<1>7. s'.flags = s.flags /\ s'.queued = s.queued
  BY <1>5 DEF Same
<1>8. CallsOK'
  BY <1>2, <1>6, KeepsFiring, CallsStay
<1>9. QED
  BY <1>2, <1>6, <1>7, <1>8, QuietInv DEF SchedInv

LEMMA ThreadExpiresStep ==
  ASSUME SchedInv, NEW c \in CPUs, NEW t \in Threads, ThreadExpires(c, t)
  PROVE  SchedInv'
<1>1. /\ pc[c].op = "announce" /\ s.timeout[t]
      /\ s' = [s EXCEPT !.timeout[t] = FALSE]
      /\ pc' = [pc EXCEPT ![c] = At("fire", t)]
      /\ leaving' = leaving /\ holder' = holder /\ ipi' = ipi /\ ops' = ops
  BY HistoryOps DEF ThreadExpires
<1>2. RecOK(s, holder.cpu) /\ s \in SchedRecs /\ s.timeout \in [Threads -> BOOLEAN]
  BY DEF SchedInv, RecOK, SchedRecs
<1>3. RecOK(s', holder.cpu)
  BY <1>1, <1>2, UntimedOK
<1>4. /\ s'.cur = s.cur /\ s'.flags = s.flags /\ s'.queued = s.queued
      /\ s'.timeout = [s.timeout EXCEPT ![t] = FALSE]
  BY <1>1, <1>2, TimeoutFields
<1>5. \A d \in CPUs \ {c} : pc[d].op \notin {"announce", "fire"}
  BY <1>1 DEF SchedInv, CallsOK
<1>6. FiringOK(c)'
  <2>1. pc'[c] = At("fire", t)
    BY <1>1 DEF SchedInv, CallsOK
  <2>2. pc'[c].th = t
    BY <2>1 DEF At
  <2>3. ~s'.timeout[t]
    BY <1>2, <1>4
  <2>4. SMP => "suspended" \in s.flags[t] /\ "sleep" \in ops
    BY <1>1, <1>2 DEF RecOK, FlagsOK
  <2>5. SMP => \A d \in CPUs : s.cur[d] = t => holder.cpu = d
    BY <1>1, <1>2 DEF RecOK, RunningOK
  <2>6. QED
    BY <1>1, <1>4, <2>2, <2>3, <2>4, <2>5 DEF FiringOK
<1>7. CallFits(c, At("fire", t))
  BY DEF CallFits, At, CallOps
<1>8. CallsOK'
  BY <1>1, <1>5, <1>6, <1>7, CallsAnnounce
<1>9. QED
  BY <1>1, <1>3, <1>4, <1>8, QuietInv DEF SchedInv

(* z_thread_timeout *)
LEMMA ThreadTimeoutStep ==
  ASSUME SchedInv, NEW c \in CPUs, ThreadTimeout(c)
  PROVE  SchedInv'
<1>1. /\ pc[c].op = "fire" /\ holder = NoHolder
      /\ pc' = [pc EXCEPT ![c] = At("announce", None)]
  BY DEF ThreadTimeout
<1>2. RecOK(s, None) /\ s \in SchedRecs
  BY <1>1, Begins
<1>3. PICK t \in Threads : t = pc[c].th
  BY <1>1 DEF SchedInv, CallsOK, FiringOK
<1>4. SMP => ~s.timeout[t] /\ \A d \in CPUs : s.cur[d] # t
  <2>1. FiringOK(c) /\ holder.cpu = None
    BY <1>1 DEF SchedInv, CallsOK, NoHolder
  <2>2. QED
    BY <1>1, <1>3, <2>1, SchedTypes DEF FiringOK
<1>5. \A d \in CPUs \ {c} : pc[d].op \notin {"announce", "fire"}
  BY <1>1 DEF SchedInv, CallsOK
<1>6. CallFits(c, At("announce", None)) /\ At("announce", None).op = "announce"
  BY PlainFits
<1>7. PICK a : Unlock(a) /\ RecOK(a, None)
  <2>1. CASE s.flags[t] \cap {"dead", "aborting"} # {}
    <3>1. Unlock(s)
      BY <1>3, <2>1 DEF ThreadTimeout
    <3>2. QED
      BY <1>2, <3>1
  <2>2. CASE s.flags[t] \cap {"dead", "aborting"} = {}
    <3>1. PICK b : b = Unpend(s, t)
      OBVIOUS
    <3>2. /\ RecOK(b, None) /\ b.timeout = s.timeout
          /\ b.flags = [s.flags EXCEPT ![t] = @ \ {"pending"}]
      BY <1>2, <3>1, UnpendOK
    <3>3. b.cur = s.cur
      BY <1>2, <3>1, UnpendFields
    <3>4. PICK S : S = {"prestart", "suspended"}
      OBVIOUS
    <3>5. PICK d : d = [b EXCEPT !.flags[t] = @ \ S]
      OBVIOUS
    <3>6. RecOK(d, None) /\ d.cur = b.cur
      <4>1. S \in SUBSET {"prestart", "suspended"} /\ (SMP => ~b.timeout[t])
        BY <1>4, <3>2, <3>4
      <4>2. RecOK(b, None)
        BY <3>2
      <4>3. SMP /\ "suspended" \in S => ~b.timeout[t]
        BY <4>1
      <4>4. QED
        BY <3>5, <4>1, <4>2, <4>3, ClearOK
    <3>7. "pending" \notin b.flags[t]
      BY <1>2, <3>2 DEF SchedRecs
    <3>8. b.flags[t] \ S = b.flags[t] \ {"pending", "prestart", "suspended"}
      BY <3>4, <3>7
    <3>9. d = [b EXCEPT !.flags[t] = @ \ {"pending", "prestart", "suspended"}]
      BY <3>5, <3>8
    <3>10. PICK e : e = ReadyThread(d, c, t)
      OBVIOUS
    <3>11. RecOK(e, None)
      BY <1>4, <3>3, <3>6, <3>10, ReadyThreadOK
    <3>12. Unlock(e)
      BY <1>3, <2>2, <3>1, <3>9, <3>10 DEF ThreadTimeout
    <3>13. QED
      BY <3>11, <3>12
  <2>3. QED
    BY <2>1, <2>2
<1>8. Lands(a)
  BY <1>1, <1>7, Begins, UnlockLands
<1>9. FiringOK(c)'
  <2>1. pc'[c].op = "announce"
    BY <1>1, <1>6 DEF SchedInv, CallsOK
  <2>2. QED
    BY <2>1 DEF FiringOK
<1>10. CallsOK'
  BY <1>1, <1>5, <1>6, <1>8, <1>9, CallsAnnounce DEF Lands
<1>11. QED
  BY <1>8, <1>10, LandsInv

LEMMA AnnounceEndsStep ==
  ASSUME SchedInv, NEW c \in CPUs, AnnounceEnds(c)
  PROVE  SchedInv'
<1>1. /\ holder = NoHolder /\ Unlock(TimeSlice(s, c)) /\ pc' = [pc EXCEPT ![c] = Run]
  BY DEF AnnounceEnds
<1>2. RecOK(s, None)
  BY <1>1, Begins
<1>3. PICK a : a = TimeSlice(s, c)
  OBVIOUS
<1>4. RecOK(a, None) /\ SameThreads(s, a)
  BY <1>2, <1>3, TimeSliceOK
<1>5. Lands(a) /\ Faithful(a)
  BY <1>1, <1>3, <1>4, Begins, UnlockLands, SameKeeps, KeepsFaithful
<1>6. CallFits(c, Run) /\ Run.op = "run" /\ ops' = ops
  BY <1>5, PlainFits DEF Lands
<1>7. CallsOK'
  BY <1>1, <1>5, <1>6, LandsKeepsFires, CallsMove
<1>8. QED
  BY <1>5, <1>7, LandsInv

LEMMA IsrExitStep ==
  ASSUME SchedInv, NEW c \in CPUs, IsrExit(c)
  PROVE  SchedInv'
<1>1. holder = NoHolder /\ pc' = pc
  BY DEF IsrExit
<1>2. /\ RecOK(s, c) /\ ipi \in [CPUs -> BOOLEAN]
      /\ leaving \in [CPUs -> Threads \cup {None}]
  BY <1>1, Begins
<1>3. PICK a : a = [s EXCEPT !.isr[c] = FALSE]
  OBVIOUS
<1>4. RecOK(a, c) /\ a.cur = s.cur /\ a.flags = s.flags /\ a.timeout = s.timeout
  BY <1>2, <1>3, IsrOK
<1>5. Keeps(s, a)
  BY <1>4 DEF Keeps
<1>6. Lands(a)
  <2>1. CASE ~SMP
    <3>1. PICK b : b = [a EXCEPT !.cur[c] = a.cache]
      OBVIOUS
    <3>2. RecOK(b, None)
      BY <1>4, <2>1, <3>1, OneCpuCur DEF RecOK, SchedRecs
    <3>3. NoSwitch(c, b, ipi)
      BY <1>3, <2>1, <3>1 DEF IsrExit
    <3>4. Lands(b)
      BY <1>1, <1>2, <3>2, <3>3, NoSwitchLands
    <3>5. QED
      BY <2>1, <3>4 DEF Lands
  <2>2. CASE SMP
    <3>1. PICK n : n = NextUp(a, c)
      OBVIOUS
    <3>2. /\ RecOK(n.st, c) /\ Keeps(a, n.st) /\ NextOK(n.st, n.th)
          /\ n.st.cur[c] = a.cur[c] \/ n.st.cur[c] = Dummy
      BY <1>4, <2>2, <3>1, NextUpOK
    <3>3. ReturnTo(c, n)
      BY <1>3, <2>2, <3>1 DEF IsrExit
    <3>4. CASE n.th = s.cur[c]
      <4>1. RecOK(n.st, None)
        BY <1>4, <3>2, <3>4, KeptOK
      <4>2. NoSwitch(c, n.st, ipi)
        BY <3>3, <3>4 DEF ReturnTo
      <4>3. Lands(n.st)
        BY <1>1, <1>2, <4>1, <4>2, NoSwitchLands
      <4>4. QED
        BY <3>2, <4>3, LandsFrom
    <3>5. CASE n.th # s.cur[c]
      <4>1. PICK b : b = UpdateMetaIrq(n.st, c, n.th)
        OBVIOUS
      <4>2. Same(n.st, b)
        BY <3>2, <4>1, UpdateMetaIrqSame DEF RecOK
      <4>3. RecOK(b, c) /\ Keeps(n.st, b)
        BY <3>2, <4>2, SameRecOK, SameKeeps
      <4>4. NextOK(b, n.th)
        BY <3>2, <4>2 DEF NextOK, Same, Prevented
      <4>5. SwitchTo(c, b, n.th, ipi, TRUE)
        BY <3>3, <3>5, <4>1 DEF ReturnTo
      <4>6. Lands(b)
        BY <1>2, <2>2, <4>3, <4>4, <4>5, SwitchToLands
      <4>7. QED
        BY <3>2, <4>3, <4>6, LandsFrom
    <3>6. QED
      BY <3>4, <3>5
  <2>3. QED
    BY <2>1, <2>2
<1>7. QED
  BY <1>1, <1>5, <1>6, KeepsFaithful, StayInv

LEMMA SwitchSpinEndsStep ==
  ASSUME SchedInv, SwitchSpinEnds
  PROVE  SchedInv'
<1>1. /\ holder # NoHolder /\ Saved(s, holder.th) /\ pc' = pc
      /\ FinishSwitch(holder.cpu, s, holder.th, ipi, holder.isr)
  BY DEF SwitchSpinEnds
<1>2. /\ SMP /\ NextOK(s, holder.th)
      /\ holder \in [cpu : CPUs, th : Threads \cup {Idle}, isr : BOOLEAN]
  BY <1>1 DEF SchedInv, HolderOK
<1>3. PICK c \in CPUs, t \in Threads \cup {Idle} :
        c = holder.cpu /\ t = holder.th
  BY <1>2
<1>4. /\ RecOK(s, c) /\ leaving \in [CPUs -> Threads \cup {None}]
      /\ t \in Threads => \A d \in CPUs : s.cur[d] # t
  BY <1>1, <1>3 DEF SchedInv, Saved
<1>5. NextOK(s, t) /\ FinishSwitch(c, s, t, ipi, holder.isr)
  BY <1>1, <1>2, <1>3
<1>6. /\ Lands(s) /\ holder'.cpu = None
      /\ \A u \in Threads : Fires(s, u, c) => Fires(s', u, None)
  BY <1>2, <1>4, <1>5, FinishSwitchLands
<1>7. ops' = ops
  BY <1>6 DEF Lands
<1>8. CallsOK'
  BY <1>1, <1>3, <1>6, <1>7, CallsStay
<1>9. QED
  BY <1>6, <1>8, LandsInv

LEMMA SwitchDoneStep ==
  ASSUME SchedInv, NEW c \in CPUs, SwitchDone(c)
  PROVE  SchedInv'
<1>1. /\ leaving' = [leaving EXCEPT ![c] = None] /\ s' = s /\ holder' = holder
      /\ pc' = pc /\ ipi' = ipi /\ ops' = ops
  BY HistoryOps DEF SwitchDone
<1>2. leaving' \in [CPUs -> Threads \cup {None}]
  BY <1>1 DEF SchedInv
<1>3. Keeps(s, s')
  BY <1>1 DEF Keeps
<1>4. CallsOK'
  BY <1>1, <1>3, KeepsFiring, CallsStay
<1>5. QED
  BY <1>1, <1>2, <1>4, QuietInv DEF SchedInv

-----------------------------------------------------------------------------
LEMMA SchedInvInit ==
  ASSUME CallsAreSafe, Init
  PROVE  SchedInv
<1>1. PICK m \in Threads, c0 \in CPUs :
        /\ ops \in Workloads
        /\ s = [prio |-> StartPrio,
                locked |-> [t \in Threads |-> 0],
                flags |-> [t \in Threads |-> IF t = m THEN {} ELSE {"prestart"}],
                queued |-> [t \in Threads |-> ~SMP /\ t = m],
                mask |-> [t \in Threads |-> CPUs],
                timeout |-> [t \in Threads |-> FALSE],
                runq |-> IF SMP THEN <<>> ELSE <<m>>,
                waitq |-> [w \in Waits |-> <<>>],
                cur |-> [c \in CPUs |-> IF c = c0 THEN m ELSE Idle],
                isr |-> [c \in CPUs |-> FALSE],
                cache |-> m,
                swapOk |-> [c \in CPUs |-> FALSE],
                mirqp |-> [c \in CPUs |-> None],
                slicing |-> "slice" \in ops,
                sliceOn |-> [c \in CPUs |-> "slice" \in ops /\ c = c0 /\
                                             StartPrio[m] >= SliceMaxPrio /\ StartPrio[m] >= 0],
                sliceExp |-> [c \in CPUs |-> FALSE],
                pendingIpi |-> {}]
        /\ leaving = [c \in CPUs |-> None]
        /\ holder = NoHolder
        /\ pc = [x \in Threads \cup CPUs |-> Run]
        /\ ipi = [c \in CPUs |-> FALSE]
  BY DEF Init
<1>2. PICK g \in [CPUs -> BOOLEAN] :
        g = [c \in CPUs |-> "slice" \in ops /\ c = c0 /\
                              StartPrio[m] >= SliceMaxPrio /\ StartPrio[m] >= 0]
  OBVIOUS
<1>3. /\ s.runq = (IF SMP THEN <<>> ELSE <<m>>)
      /\ s.queued = [t \in Threads |-> ~SMP /\ t = m]
      /\ s.flags = [t \in Threads |-> IF t = m THEN {} ELSE {"prestart"}]
      /\ s.timeout = [t \in Threads |-> FALSE]
      /\ s.waitq = [w \in Waits |-> <<>>]
      /\ s.cur = [c \in CPUs |-> IF c = c0 THEN m ELSE Idle]
      /\ s.isr = [c \in CPUs |-> FALSE]
      /\ s.slicing = ("slice" \in ops)
  BY <1>1
<1>4. s \in SchedRecs
  <2>1. /\ StartPrio \in [Threads -> Int]
        /\ [t \in Threads |-> 0] \in [Threads -> 0..MaxLock]
    BY SchedAssumption
  <2>2. /\ s.queued \in [Threads -> BOOLEAN] /\ s.timeout \in [Threads -> BOOLEAN]
        /\ s.isr \in [CPUs -> BOOLEAN] /\ s.slicing \in BOOLEAN
    BY <1>3
  <2>3. s.flags \in [Threads -> SUBSET Flags]
    BY <1>3 DEF Flags
  <2>4. s.runq \in Seq(Threads) /\ s.waitq \in [Waits -> Seq(Threads)]
    BY <1>3
  <2>5. s.cur \in [CPUs -> Threads \cup {Idle, Dummy}]
    BY <1>3
  <2>6. QED
    BY <1>1, <1>2, <2>1, <2>2, <2>3, <2>4, <2>5 DEF SchedRecs
<1>5. /\ \A t \in Threads : /\ In(s.runq, t) <=> ~SMP /\ t = m
                            /\ s.queued[t] <=> ~SMP /\ t = m
      /\ NoDup(s.runq)
  <2>1. \A t \in Threads : s.queued[t] <=> ~SMP /\ t = m
    BY <1>3
  <2>2. CASE SMP
    <3>1. Len(s.runq) = 0
      BY <1>3, <2>2
    <3>2. QED
      BY <2>1, <2>2, <3>1 DEF In, NoDup
  <2>3. CASE ~SMP
    <3>1. Len(s.runq) = 1 /\ s.runq[1] = m
      BY <1>3, <2>3
    <3>2. QED
      BY <2>1, <2>3, <3>1 DEF In, NoDup
  <2>4. QED
    BY <2>2, <2>3
<1>6. RunqOK(s)
  BY <1>5 DEF RunqOK
<1>7. CurOK(s)
  BY <1>3, SchedTypes DEF CurOK
<1>8. ASSUME SMP PROVE FlagsOK(s)
  <2>1. \A t \in Threads : ~s.queued[t] /\ ~s.timeout[t]
    BY <1>3, <1>8
  <2>2. \A w \in Waits : NoDup(s.waitq[w]) /\ \A t \in Threads : ~In(s.waitq[w], t)
    BY <1>3 DEF In, NoDup
  <2>3. "prio" \in ops => ~s.slicing
    BY <1>1, <1>3, <1>8 DEF CallsAreSafe, SafeCalls
  <2>4. QED
    BY <2>1, <2>2, <2>3 DEF FlagsOK
<1>9. ASSUME SMP, NEW d \in CPUs PROVE RunningOK(s, d, None)
  <2>1. s.cur[d] \in Threads => s.cur[d] = m
    BY <1>3, SchedTypes
  <2>2. s.flags[m] = {} /\ ~s.timeout[m] /\ ~s.queued[m] /\ ~In(s.runq, m)
    BY <1>3, <1>5, <1>9
  <2>3. ~Prevented(s, m)
    BY <2>2, SchedTypes DEF Prevented
  <2>4. QED
    BY <2>1, <2>2, <2>3 DEF RunningOK
<1>10. holder.cpu = None
  BY <1>1 DEF NoHolder
<1>11. CallsOK
  <2>1. \A y \in Threads \cup CPUs : pc[y] = Run
    BY <1>1
  <2>2. Run.op = "run" /\ Run \in [op : CallOps, th : Threads \cup {None}]
    BY DEF Run, CallOps
  <2>3. pc \in [Threads \cup CPUs -> [op : CallOps, th : Threads \cup {None}]]
    BY <1>1, <2>2
  <2>4. QED
    BY <2>1, <2>2, <2>3 DEF CallsOK, FiringOK
<1>12. QED
  BY <1>1, <1>4, <1>6, <1>7, <1>8, <1>9, <1>10, <1>11 DEF SchedInv, HolderOK, RecOK

LEMMA SchedInvNext ==
  ASSUME CallsAreSafe, SchedInv, [Next]_vars
  PROVE  SchedInv'
<1>1. ASSUME NEW c \in CPUs, Call(c) PROVE SchedInv'
  BY <1>1, StartStep, YieldStep, BlockStep, WakeFirstStep, SleepStep, WakeupBeginStep,
     WakeupStep, PrioSetStep, ReschedUnlockedStep, SchedLockStep, TimeSliceSetStep,
     CpuMaskModStep, SuspendBeginStep, SuspendStep, ResumeStep, AbortStep, JoinStep,
     ReturnsStep DEF Call
<1>2. ASSUME NEW c \in CPUs, Interrupt(c) PROVE SchedInv'
  BY <1>2, DeviceIrqStep, SchedIpiStep, TimerIrqStep, SliceTimeoutStep, ThreadExpiresStep,
     ThreadTimeoutStep, AnnounceEndsStep, ReturnsStep, IsrExitStep DEF Interrupt
<1>3. ASSUME NEW c \in CPUs, SwitchDone(c) PROVE SchedInv'
  BY <1>3, SwitchDoneStep
<1>4. CASE SwitchSpinEnds
  BY <1>4, SwitchSpinEndsStep
<1>5. CASE UNCHANGED vars
  <2>1. /\ s' = s /\ leaving' = leaving /\ holder' = holder /\ pc' = pc /\ ipi' = ipi
        /\ ops' = ops
    BY <1>5 DEF vars, kernelVars
  <2>2. Keeps(s, s')
    BY <2>1 DEF Keeps
  <2>3. CallsOK'
    BY <2>1, <2>2, KeepsFiring, CallsStay
  <2>4. QED
    BY <2>1, <2>3, QuietInv DEF SchedInv
<1>6. QED
  BY <1>1, <1>2, <1>3, <1>4, <1>5 DEF Next

(* At most one index, at most one CPU. *)
LEMMA AtMostOne ==
  ASSUME NEW S, IsFiniteSet(S), \A i, j \in S : i = j
  PROVE  Cardinality(S) <= 1
<1>1. CASE S = {}
  BY <1>1, FS_EmptySet
<1>2. CASE S # {}
  <2>1. PICK i : S = {i}
    BY <1>2
  <2>2. Cardinality(S) = 1
    BY <2>1, FS_Singleton
  <2>3. QED
    BY <2>2
<1>3. QED
  BY <1>1, <1>2

LEMMA SchedInvOnePlace ==
  ASSUME SchedInv PROVE OnePlace
<1>1. RecOK(s, holder.cpu) /\ RunqOK(s) /\ CurOK(s) /\ s.runq \in Seq(Threads)
  BY DEF SchedInv, RecOK, SchedRecs
<1>2. SUFFICES ASSUME NEW t \in Threads
               PROVE  /\ Cardinality(RunsOn(t)) <= 1
                      /\ Cardinality({i \in 1..Len(s.runq) : s.runq[i] = t}) <= 1
                      /\ SMP /\ RunsOn(t) # {} => ~InRunq(t)
  BY DEF OnePlace
<1>3. IsFiniteSet(RunsOn(t)) /\ \A c, d \in RunsOn(t) : c = d
  BY <1>1, FS_Subset, SchedAssumption DEF RunsOn, CurOK
<1>4. Cardinality(RunsOn(t)) <= 1
  BY <1>3, AtMostOne
<1>5. PICK S : S = {i \in 1..Len(s.runq) : s.runq[i] = t}
  OBVIOUS
<1>6. IsFiniteSet(S)
  <2>1. IsFiniteSet(1..Len(s.runq))
    BY <1>1, FS_Interval
  <2>2. QED
    BY <1>5, <2>1, FS_Subset
<1>7. \A i, j \in S : i = j
  BY <1>1, <1>5 DEF RunqOK, NoDup
<1>8. Cardinality(S) <= 1
  BY <1>6, <1>7, AtMostOne
<1>9. SMP /\ RunsOn(t) # {} => ~InRunq(t)
  BY <1>1 DEF RecOK, RunningOK, RunsOn, InRunq, In
<1>10. QED
  BY <1>4, <1>5, <1>8, <1>9

LEMMA SchedInvariant ==
  ASSUME CallsAreSafe
  PROVE  Spec => []SchedInv
<1>1. Init => SchedInv
  BY SchedInvInit
<1>2. SchedInv /\ [Next]_vars => SchedInv'
  BY SchedInvNext
<1>3. QED
  BY <1>1, <1>2, PTL DEF Spec

(* "_current is never in the run queue until context switch" (sched.c): a  *)
(* thread runs on one CPU at most, is linked in the run queue once at      *)
(* most, and on SMP not while it runs, whatever calls, interrupts and      *)
(* context switches interleave on any number of CPUs, in applications that *)
(* keep apart the calls CallsAreSafe names.                                *)
THEOREM SchedOnePlace ==
  ASSUME CallsAreSafe
  PROVE  Spec => []OnePlace
<1>1. SchedInv => OnePlace
  BY SchedInvOnePlace
<1>2. QED
  BY <1>1, SchedInvariant, PTL

-----------------------------------------------------------------------------
(* Halting.  A request to halt is a flag of a thread that runs; whoever    *)
(* asked waits in a queue of that thread, or spins.                        *)

SuspendCalls == {"suspend", "isr_suspend"}

(* The calls that section 3 of the README shows to lose a request. *)
SafeHalts(w) ==
  SuspendCalls \cap w # {} => w \cap {"abort", "sleep"} = {}

HaltsAreSafe == SMP => \A w \in Workloads : SafeHalts(w)

RequestOK(a, u) ==
  /\ Halting(a, u) => \E d \in CPUs : a.cur[d] = u
  /\ "suspending" \in a.flags[u] =>
       "suspended" \notin a.flags[u] /\ SuspendCalls \cap ops # {}
  /\ "aborting" \in a.flags[u] => "dead" \notin a.flags[u]

Queues(a) == a \in SchedRecs /\ \A w \in Waits : NoDup(a.waitq[w])

(* p is what the threads do next: pc, or pc'. *)
Told(p) ==
  /\ \A y \in Threads \cup CPUs : p[y].op = "suspend" => SuspendCalls \cap ops # {}
  /\ \A t \in Threads : p[t].op = "abort" => "abort" \in ops

WaitersOK(a, p) ==
  \A t, u \in Threads :
    /\ In(a.waitq[<<"halt", u>>], t) => "suspending" \in a.flags[u]
    /\ In(a.waitq[<<"join", u>>], t) /\ p[t] = At("abort", u) =>
         "aborting" \in a.flags[u]

HaltOK(a, p) ==
  /\ Queues(a) /\ Told(p) /\ WaitersOK(a, p)
  /\ \A u \in Threads : RequestOK(a, u)

(* The thread a CPU spins to switch away from has done what it was told. *)
HaltInv ==
  /\ HaltOK(s, pc)
  /\ holder # NoHolder => ~Halting(s, s.cur[holder.cpu])

LEMMA ReadyThreadSame ==
  ASSUME NEW a \in SchedRecs, NEW c \in CPUs, NEW t \in Threads
  PROVE  SameThreads(a, ReadyThread(a, c, t))
<1>1. CASE a.queued[t] \/ ~Ready(a, t)
  BY <1>1 DEF ReadyThread, SameThreads
<1>2. CASE ~(a.queued[t] \/ ~Ready(a, t))
  <2>1. PICK b : b = QueueThread(a, c, t)
    OBVIOUS
  <2>2. SameThreads(a, b) /\ b \in SchedRecs
    BY <2>1, QueueFields DEF SameThreads
  <2>3. PICK d : d = UpdateCache(b, c, FALSE)
    OBVIOUS
  <2>4. Same(b, d) /\ d \in SchedRecs
    BY <2>2, <2>3, UpdateCacheSame DEF Same
  <2>5. PICK e : e = FlagReady(d, c, t)
    OBVIOUS
  <2>6. Same(d, e)
    BY <2>4, <2>5, FlagReadySame
  <2>7. ReadyThread(a, c, t) = e
    BY <1>2, <2>1, <2>3, <2>5 DEF ReadyThread
  <2>8. QED
    BY <2>2, <2>4, <2>6, <2>7 DEF Same, SameThreads
<1>3. QED
  BY <1>1, <1>2

Unpended(a, b, t) ==
  /\ b.cur = a.cur /\ b.isr = a.isr /\ b.timeout = a.timeout
  /\ b.slicing = a.slicing
  /\ \A u \in Threads :
       b.flags[u] = IF u = t THEN a.flags[u] \ {"pending"} ELSE a.flags[u]
  /\ \A w \in Waits, u \in Threads :
       In(b.waitq[w], u) <=> In(a.waitq[w], u) /\ u # t

LEMMA UnpendEmpties ==
  ASSUME SMP, NEW a, Queues(a), NEW t \in Threads, NEW b, b = Unpend(a, t)
  PROVE  Queues(b) /\ Unpended(a, b, t)
<1>1. /\ a \in SchedRecs /\ a.flags \in [Threads -> SUBSET Flags]
      /\ a.waitq \in [Waits -> Seq(Threads)]
  BY DEF Queues, SchedRecs
<1>3. /\ b \in SchedRecs /\ b.cur = a.cur /\ b.isr = a.isr /\ b.timeout = a.timeout
      /\ b.slicing = a.slicing
      /\ b.flags = [a.flags EXCEPT ![t] = @ \ {"pending"}]
      /\ b.waitq = [w \in Waits |-> RemoveFirst(a.waitq[w], t)]
  BY <1>1, UnpendFields
<1>4. ASSUME NEW w \in Waits
      PROVE  /\ NoDup(b.waitq[w])
             /\ \A u : In(b.waitq[w], u) <=> In(a.waitq[w], u) /\ u # t
  <2>1. NoDup(a.waitq[w]) /\ a.waitq[w] \in Seq(Threads)
    BY <1>1 DEF Queues
  <2>2. b.waitq[w] = RemoveFirst(a.waitq[w], t)
    BY <1>3
  <2>3. QED
    BY <2>1, <2>2, RemoveFirstUnlinks
<1>5. \A u \in Threads :
        b.flags[u] = IF u = t THEN a.flags[u] \ {"pending"} ELSE a.flags[u]
  BY <1>1, <1>3
<1>6. QED
  BY <1>3, <1>4, <1>5 DEF Queues, Unpended

LEMMA UnpendUntimedEmpties ==
  ASSUME SMP, NEW a, Queues(a), NEW t \in Threads
  PROVE  LET b == [Unpend(a, t) EXCEPT !.timeout[t] = FALSE]
         IN  Queues(b) /\ Emptied(a, b, {t})
<1>1. PICK d : d = Unpend(a, t)
  OBVIOUS
<1>2. Queues(d) /\ Unpended(a, d, t)
  BY <1>1, UnpendEmpties
<1>3. PICK b : b = [d EXCEPT !.timeout[t] = FALSE]
  OBVIOUS
<1>4. d \in SchedRecs /\ d.timeout \in [Threads -> BOOLEAN]
  BY <1>2 DEF Queues, SchedRecs
<1>5. /\ b \in SchedRecs /\ b.cur = d.cur /\ b.flags = d.flags /\ b.isr = d.isr
      /\ b.slicing = d.slicing /\ b.waitq = d.waitq
      /\ b.timeout = [d.timeout EXCEPT ![t] = FALSE]
  BY <1>3, <1>4, TimeoutFields
<1>6. \A u \in Threads : b.timeout[u] => a.timeout[u] /\ u # t
  BY <1>2, <1>4, <1>5 DEF Unpended
<1>7. Queues(b) /\ Emptied(a, b, {t})
  BY <1>2, <1>5, <1>6 DEF Queues, Emptied, Unpended
<1>8. QED
  BY <1>1, <1>3, <1>7

LEMMA WakeOneEmpties ==
  ASSUME SMP, NEW a, Queues(a), NEW c \in CPUs, NEW t \in Threads
  PROVE  Queues(WakeOne(a, c, t)) /\ Emptied(a, WakeOne(a, c, t), {t})
<1>1. PICK b : b = [Unpend(a, t) EXCEPT !.timeout[t] = FALSE]
  OBVIOUS
<1>2. Queues(b) /\ Emptied(a, b, {t})
  BY <1>1, UnpendUntimedEmpties
<1>3. PICK e : e = ReadyThread(b, c, t)
  OBVIOUS
<1>4. SameThreads(b, e)
  BY <1>2, <1>3, ReadyThreadSame DEF Queues
<1>5. Queues(e) /\ Emptied(a, e, {t})
  BY <1>2, <1>4 DEF Queues, Emptied, SameThreads
<1>6. QED
  BY <1>1, <1>3, <1>5 DEF WakeOne

(* unpend_all leaves nobody in the queue. *)
LEMMA UnpendAllEmpties ==
  ASSUME SMP, NEW a, Queues(a), NEW c \in CPUs, NEW w \in Waits
  PROVE  /\ Queues(UnpendAll(a, c, w))
         /\ Emptied(a, UnpendAll(a, c, w), WaitingOn(a.waitq[w]))
<1> DEFINE q == a.waitq[w]
           Walk == CHOOSE f : f = [n \in 0..Len(q) |-> WakeStep(a, c, q, f, n)]
           First(n) == {u \in Threads : \E i \in 1..n : q[i] = u}
           Good(n) == Queues(Walk[n]) /\ Emptied(a, Walk[n], First(n))
<1>1. a \in SchedRecs /\ q \in Seq(Threads) /\ Len(q) \in Nat
  BY DEF Queues, SchedRecs
<1>2. UnpendAll(a, c, w) = Walk[Len(q)]
  BY DEF UnpendAll, WakeStep
<1>3. Walk = [n \in 0..Len(q) |-> WakeStep(a, c, q, Walk, n)]
  BY SMTT(30), <1>1, WakeWalkExists
<1> HIDE DEF Walk
<1>4. \A n \in 0..Len(q) : Walk[n] = WakeStep(a, c, q, Walk, n)
  BY <1>3
<1>5. Good(0)
  <2>1. 0 \in 0..Len(q) /\ Walk[0] = WakeStep(a, c, q, Walk, 0)
    BY <1>1, <1>4
  <2>2. Walk[0] = a
    BY <2>1 DEF WakeStep
  <2>3. First(0) = {}
    OBVIOUS
  <2>4. Emptied(a, a, {})
    BY <1>1 DEF Emptied
  <2>5. QED
    BY <2>2, <2>3, <2>4
<1>6. ASSUME NEW k \in 0..Len(q), k # 0, Good(k - 1)
      PROVE  Good(k)
  <2>1. k \in 1..Len(q)
    BY <1>1, <1>6
  <2>2. PICK t \in Threads : t = q[k] /\ In(q, t)
    BY <1>1, <2>1 DEF In
  <2>3. PICK b : b = Walk[k - 1] /\ Queues(b) /\ Emptied(a, b, First(k - 1))
    BY <1>6
  <2>4. Walk[k] = WakeOne(b, c, t)
    BY <1>4, <1>6, <2>2, <2>3 DEF WakeStep
  <2>5. PICK e : e = WakeOne(b, c, t)
    OBVIOUS
  <2>6. Queues(e) /\ Emptied(b, e, {t})
    BY <2>3, <2>5, WakeOneEmpties
  <2>7. First(k) = First(k - 1) \cup {t}
    BY <1>1, <2>1, <2>2
  <2> HIDE DEF First
  <2>8. Emptied(a, e, First(k))
    BY <2>3, <2>6, <2>7, EmptiedTrans
  <2>9. QED
    BY <2>4, <2>5, <2>6, <2>8
<1> DEFINE Bad == {n \in 0..Len(q) : ~Good(n)}
<1> HIDE DEF Good
<1>7. Bad = {}
  <2>1. SUFFICES ASSUME Bad # {} PROVE FALSE
    OBVIOUS
  <2>2. PICK k \in Bad : \A j \in Bad : k =< j
    <3>1. Bad \in SUBSET Nat
      BY <1>1
    <3> HIDE DEF Bad
    <3>2. QED
      BY <2>1, <3>1, LeastNatural
  <2>3. k # 0 /\ k \in 0..Len(q) /\ ~Good(k)
    BY <1>5, <2>2
  <2>4. k - 1 \in 0..Len(q) /\ k - 1 \notin Bad
    BY <1>1, <2>2, <2>3
  <2>5. QED
    BY <1>6, <2>3, <2>4
<1>8. Good(Len(q))
  BY <1>1, <1>7
<1>9. First(Len(q)) = WaitingOn(q)
  BY DEF WaitingOn, In
<1>10. QED
  BY <1>2, <1>8, <1>9 DEF Good

-----------------------------------------------------------------------------
(* Steps that keep every request, and who waits for it.                    *)

Tame(a, b) ==
  /\ Queues(b)
  /\ b.cur = a.cur
  /\ \A u \in Threads :
       /\ \A f \in Requests : f \in b.flags[u] <=> f \in a.flags[u]
       /\ \A f \in {"dead", "suspended"} : f \in b.flags[u] => f \in a.flags[u]
  /\ \A w \in Waits, u \in Threads : In(b.waitq[w], u) => In(a.waitq[w], u)

(* Nothing is asked for, and only c may get another thread. *)
Lessens(a, b, c) ==
  /\ b.isr = a.isr
  /\ \A u \in Threads : Halting(b, u) => Halting(a, u)
  /\ \A d \in CPUs : d # c => b.cur[d] = a.cur[d]

LEMMA LessensTrans ==
  ASSUME NEW a, NEW b, NEW d, NEW c, Lessens(a, b, c), Lessens(b, d, c)
  PROVE  Lessens(a, d, c)
BY DEF Lessens

LEMMA TameTrans ==
  ASSUME NEW a, NEW b, NEW d, Tame(a, b), Tame(b, d)
  PROVE  Tame(a, d)
BY DEF Tame

LEMMA HaltingIs ==
  ASSUME NEW a, NEW u \in Threads
  PROVE  Halting(a, u) <=> "aborting" \in a.flags[u] \/ "suspending" \in a.flags[u]
BY DEF Halting

LEMMA TameHalting ==
  ASSUME NEW a, NEW b, Tame(a, b)
  PROVE  \A u \in Threads : Halting(b, u) <=> Halting(a, u)
BY HaltingIs DEF Tame, Requests

LEMMA WaitsOf ==
  ASSUME NEW u \in Threads
  PROVE  <<"halt", u>> \in Waits /\ <<"join", u>> \in Waits /\ Obj \in Waits
BY DEF Waits

LEMMA TameOK ==
  ASSUME NEW a, NEW b, NEW p, HaltOK(a, p), Tame(a, b)
  PROVE  HaltOK(b, p)
<1>1. \A u \in Threads : RequestOK(b, u)
  BY TameHalting DEF HaltOK, RequestOK, Tame, Requests
<1>2. WaitersOK(b, p)
  BY WaitsOf DEF HaltOK, WaitersOK, Tame, Requests
<1>3. QED
  BY <1>1, <1>2 DEF HaltOK, Tame

LEMMA SameIsTame ==
  ASSUME NEW a, NEW b, Queues(a), Same(a, b) \/ SameThreads(a, b)
  PROVE  Tame(a, b) /\ \A c : Lessens(a, b, c)
<1>1. /\ b \in SchedRecs /\ b.cur = a.cur /\ b.flags = a.flags /\ b.waitq = a.waitq
      /\ b.isr = a.isr
  BY DEF Same, SameThreads
<1>2. QED
  BY <1>1 DEF Tame, Lessens, Queues, Halting

LEMMA EmptiedIsTame ==
  ASSUME SMP, NEW a, NEW b, NEW S, Queues(b), Emptied(a, b, S)
  PROVE  Tame(a, b) /\ \A c : Lessens(a, b, c)
<1>1. \A u \in Threads, f \in {"aborting", "suspending", "dead", "suspended"} :
        f \in b.flags[u] <=> f \in a.flags[u]
  BY DEF Emptied
<1>2. Tame(a, b)
  BY <1>1 DEF Emptied, Tame, Requests
<1>3. QED
  BY <1>2, TameHalting DEF Lessens, Emptied

LEMMA LeaveHalts ==
  ASSUME SMP, NEW a, Queues(a), NEW c \in CPUs, NEW t \in Threads,
         NEW new, NEW b, b = Leave(a, c, t, new)
  PROVE  /\ Tame(a, b) /\ Lessens(a, b, c)
         /\ new = "dead" => \A u \in Threads : ~In(b.waitq[<<"join", t>>], u)
<1>1. CASE new # "dead"
  <2>1. b = a
    BY <1>1 DEF Leave
  <2>2. QED
    BY <1>1, <2>1 DEF Tame, Lessens
<1>2. CASE new = "dead"
  <2>1. PICK d : d = [Unpend(a, t) EXCEPT !.timeout[t] = FALSE]
    OBVIOUS
  <2>2. Queues(d) /\ Emptied(a, d, {t})
    BY <2>1, UnpendUntimedEmpties
  <2>3. b = UnpendAll(d, c, <<"join", t>>) /\ <<"join", t>> \in Waits
    BY <1>2, <2>1, WaitsOf DEF Leave
  <2>4. Queues(b) /\ Emptied(d, b, WaitingOn(d.waitq[<<"join", t>>]))
    BY <2>2, <2>3, UnpendAllEmpties
  <2>5. \A u \in Threads : ~In(b.waitq[<<"join", t>>], u)
    BY <2>3, <2>4 DEF Emptied, WaitingOn
  <2>6. QED
    BY <2>2, <2>4, <2>5, EmptiedIsTame, TameTrans, LessensTrans
<1>3. QED
  BY <1>1, <1>2

LEMMA ReleaseHaltersHalts ==
  ASSUME SMP, NEW a, Queues(a), NEW c \in CPUs, NEW t \in Threads,
         NEW b, b = ReleaseHalters(a, c, t)
  PROVE  /\ Tame(a, b) /\ Lessens(a, b, c)
         /\ \A u \in Threads : ~In(b.waitq[<<"halt", t>>], u)
<1>1. b = UnpendAll(a, c, <<"halt", t>>) /\ <<"halt", t>> \in Waits
  BY WaitsOf DEF ReleaseHalters
<1>2. Queues(b) /\ Emptied(a, b, WaitingOn(a.waitq[<<"halt", t>>]))
  BY <1>1, UnpendAllEmpties
<1>3. \A u \in Threads : ~In(b.waitq[<<"halt", t>>], u)
  BY <1>1, <1>2 DEF Emptied, WaitingOn
<1>4. QED
  BY <1>2, <1>3, EmptiedIsTame

LEMMA UnqueueSame ==
  ASSUME NEW a \in SchedRecs, NEW c \in CPUs, NEW t
  PROVE  SameThreads(a, Unqueue(a, c, t))
<1>1. CASE Queued(a, t)
  BY <1>1, DequeueFields DEF Unqueue, Queued
<1>2. CASE ~Queued(a, t)
  BY <1>2 DEF Unqueue, SameThreads
<1>3. QED
  BY <1>1, <1>2

(* Several CPUs, and an application that loses no request. *)
HaltScope == SMP /\ HaltsAreSafe /\ ops \in Workloads

FlagSet(a, b, t, S) ==
  /\ b \in SchedRecs /\ b.cur = a.cur /\ b.isr = a.isr /\ b.waitq = a.waitq
  /\ b.timeout = a.timeout
  /\ \A u \in Threads : b.flags[u] = IF u = t THEN S ELSE a.flags[u]

LEMMA FlagsSet ==
  ASSUME NEW a \in SchedRecs, NEW t \in Threads, NEW S \in SUBSET Flags,
         NEW b, b = [a EXCEPT !.flags[t] = S]
  PROVE  FlagSet(a, b, t, S)
BY FlagFields DEF FlagSet

(* halt_thread serves the request: whoever waited for it is released. *)
LEMMA HaltThreadHalts ==
  ASSUME HaltScope,
         NEW a, NEW p, HaltOK(a, p), NEW c \in CPUs, NEW t \in Threads,
         NEW new \in {"dead", "suspended"}, new \notin a.flags[t],
         new = "suspended" => SuspendCalls \cap ops # {},
         NEW b, b = HaltThread(a, c, t, new)
  PROVE  HaltOK(b, p) /\ Lessens(a, b, c) /\ ~Halting(b, t)
         /\ b.cur[c] \in {a.cur[c], Dummy}
<1>1. a \in SchedRecs /\ Queues(a) /\ a.isr \in [CPUs -> BOOLEAN]
  BY DEF HaltOK, Queues, SchedRecs
<1>0. PICK R \in SUBSET Flags : R = a.flags[t] \cup {new}
  BY <1>1 DEF SchedRecs, Flags
<1>2. PICK a1 : a1 = [a EXCEPT !.flags[t] = R]
  OBVIOUS
<1>3. /\ a1 \in SchedRecs /\ a1.cur = a.cur /\ a1.isr = a.isr /\ a1.waitq = a.waitq
      /\ \A u \in Threads : a1.flags[u] =
           IF u = t THEN a.flags[t] \cup {new} ELSE a.flags[u]
  <2>1. FlagSet(a, a1, t, R)
    BY <1>1, <1>2, FlagsSet
  <2>2. QED
    BY <1>0, <2>1 DEF FlagSet
<1>4. PICK a2 : a2 = Unqueue(a1, c, t)
  OBVIOUS
<1>5. Tame(a1, a2) /\ Lessens(a1, a2, c) /\ Queues(a2)
  <2>1. Queues(a1)
    BY <1>1, <1>3 DEF Queues
  <2>2. SameThreads(a1, a2)
    BY <1>3, <1>4, UnqueueSame
  <2>3. QED
    BY <2>1, <2>2, SameIsTame DEF Tame
<1>6. PICK a3 : a3 = Leave(a2, c, t, new)
  OBVIOUS
<1>7. /\ Tame(a2, a3) /\ Lessens(a2, a3, c) /\ Queues(a3)
      /\ new = "dead" => \A u \in Threads : ~In(a3.waitq[<<"join", t>>], u)
  BY <1>5, <1>6, LeaveHalts DEF Tame, HaltScope
<1>8. PICK a4 : a4 = ReleaseHalters(a3, c, t)
  OBVIOUS
<1>9. /\ Tame(a3, a4) /\ Lessens(a3, a4, c) /\ Queues(a4)
      /\ \A u \in Threads : ~In(a4.waitq[<<"halt", t>>], u)
  BY <1>7, <1>8, ReleaseHaltersHalts DEF Tame, HaltScope
<1>10. PICK a5 : a5 = UpdateCache(a4, c, TRUE)
  OBVIOUS
<1>11. Same(a4, a5) /\ Tame(a4, a5) /\ Lessens(a4, a5, c) /\ Queues(a5)
  <2>1. a4 \in SchedRecs /\ TRUE \in BOOLEAN
    BY <1>9 DEF Queues
  <2>2. Same(a4, a5)
    BY <1>10, <2>1, UpdateCacheSame
  <2>3. QED
    BY <1>9, <2>2, SameIsTame DEF Tame
<1>12. Tame(a1, a5) /\ Lessens(a1, a5, c)
  BY <1>5, <1>7, <1>9, <1>11, TameTrans, LessensTrans
<1>13. /\ a5.cur = a.cur /\ a5.isr = a.isr
       /\ \A u \in Threads :
            /\ \A f \in Requests : f \in a5.flags[u] <=> f \in a.flags[u]
            /\ "dead" \in a5.flags[u] => "dead" \in a.flags[u] \/ u = t
            /\ "suspended" \in a5.flags[u] => "suspended" \in a.flags[u] \/ u = t
       /\ \A w \in Waits, u \in Threads : In(a5.waitq[w], u) => In(a.waitq[w], u)
  BY <1>3, <1>12 DEF Tame, Lessens, Requests
<1>14. \A u \in Threads : /\ ~In(a5.waitq[<<"halt", t>>], u)
                          /\ new = "dead" => ~In(a5.waitq[<<"join", t>>], u)
  BY <1>7, <1>9, <1>11, WaitsOf DEF Tame, Same
<1>15. PICK v \in Threads \cup {Idle, Dummy} :
         /\ v = IF new = "dead" /\ a.cur[c] = t /\ a.isr[c] THEN Dummy ELSE a.cur[c]
         /\ v # a.cur[c] => v = Dummy /\ a.cur[c] = t
  BY <1>1 DEF SchedRecs
<1>16. /\ b \in SchedRecs /\ b.isr = a5.isr /\ b.waitq = a5.waitq
       /\ b.cur = [a.cur EXCEPT ![c] = v]
       /\ \A u \in Threads : b.flags[u] =
            IF u = t THEN a5.flags[t] \ Requests ELSE a5.flags[u]
  <2>1. a5 \in SchedRecs
    BY <1>11 DEF Queues
  <2>0. PICK S \in SUBSET Flags : S = a5.flags[t] \ Requests
    BY <2>1 DEF SchedRecs
  <2>2. PICK d : d = [a5 EXCEPT !.flags[t] = S]
    OBVIOUS
  <2>3. /\ d \in SchedRecs /\ d.isr = a5.isr /\ d.waitq = a5.waitq /\ d.cur = a5.cur
        /\ \A u \in Threads : d.flags[u] = IF u = t THEN S ELSE a5.flags[u]
    <3>1. FlagSet(a5, d, t, S)
      BY <2>1, <2>2, FlagsSet
    <3>2. QED
      BY <3>1 DEF FlagSet
  <2>4. b = [d EXCEPT !.cur[c] = v]
    <3>1. b = [a5 EXCEPT !.flags[t] = @ \ {"aborting", "suspending"},
                 !.cur[c] = IF new = "dead" /\ @ = t /\ a.isr[c] THEN Dummy ELSE @]
      BY <1>0, <1>2, <1>4, <1>6, <1>8, <1>10 DEF HaltThread
    <3>2. a5.cur[c] = a.cur[c]
      BY <1>13
    <3>3. b = [a5 EXCEPT !.flags[t] = a5.flags[t] \ Requests, !.cur[c] = v]
      BY <1>15, <3>1, <3>2 DEF Requests
    <3>4. QED
      BY <2>0, <2>1, <2>2, <3>3 DEF SchedRecs
  <2>5. d.cur \in [CPUs -> Threads \cup {Idle, Dummy}] /\ d.cur = a.cur
    BY <1>13, <2>3 DEF SchedRecs
  <2>6. /\ b \in SchedRecs /\ b.isr = d.isr /\ b.waitq = d.waitq /\ b.flags = d.flags
        /\ b.cur = [a.cur EXCEPT ![c] = v]
    <3>1. b = [d EXCEPT !.cur = [d.cur EXCEPT ![c] = v]]
      BY <2>4
    <3>2. PICK g \in [CPUs -> Threads \cup {Idle, Dummy}] : g = [d.cur EXCEPT ![c] = v]
      BY <2>5
    <3>3. b = [d EXCEPT !.cur = g]
      BY <3>1, <3>2
    <3>4. QED
      BY ZenonT(30), <2>3, <2>5, <3>2, <3>3 DEF SchedRecs
  <2>7. QED
    BY <2>0, <2>3, <2>6
<1>17. \A d \in CPUs : b.cur[d] = IF d = c THEN v ELSE a.cur[d]
  BY <1>1, <1>16 DEF SchedRecs
<1>18. \A u \in Threads \ {t}, f \in Requests : f \in b.flags[u] <=> f \in a.flags[u]
  BY <1>13, <1>16
<1>19. ~Halting(b, t)
  BY <1>16, HaltingIs DEF Requests
<1>20. \A u \in Threads : Halting(b, u) => u # t /\ Halting(a, u)
  BY <1>18, <1>19, HaltingIs DEF Requests
<1>21. ASSUME NEW u \in Threads PROVE RequestOK(b, u)
  <2>1. RequestOK(a, u)
    BY DEF HaltOK
  <2>2. ASSUME Halting(b, u) PROVE \E d \in CPUs : b.cur[d] = u
    <3>1. PICK d \in CPUs : a.cur[d] = u
      BY <1>20, <2>1, <2>2 DEF RequestOK
    <3>2. u # t
      BY <1>20, <2>2
    <3>3. b.cur[d] = u
      BY <1>15, <1>17, <3>1, <3>2
    <3>4. QED
      BY <3>3
  <2>3. CASE u = t
    BY <1>16, <2>2, <2>3 DEF RequestOK, Requests
  <2>4. CASE u # t
    BY <1>13, <1>16, <2>1, <2>2, <2>4 DEF RequestOK, Requests
  <2>5. QED
    BY <2>3, <2>4
<1>22. WaitersOK(b, p)
  <2>1. SUFFICES ASSUME NEW r \in Threads, NEW u \in Threads
                 PROVE  /\ In(b.waitq[<<"halt", u>>], r) => "suspending" \in b.flags[u]
                        /\ In(b.waitq[<<"join", u>>], r) /\ p[r] = At("abort", u) =>
                             "aborting" \in b.flags[u]
    BY DEF WaitersOK
  <2>2. /\ In(b.waitq[<<"halt", u>>], r) => u # t /\ In(a.waitq[<<"halt", u>>], r)
        /\ In(b.waitq[<<"join", u>>], r) => In(a.waitq[<<"join", u>>], r)
        /\ new = "dead" /\ In(b.waitq[<<"join", u>>], r) => u # t
    BY <1>13, <1>14, <1>16, WaitsOf
  <2>3. /\ In(a.waitq[<<"halt", u>>], r) => "suspending" \in a.flags[u]
        /\ In(a.waitq[<<"join", u>>], r) /\ p[r] = At("abort", u) =>
             "aborting" \in a.flags[u]
    BY DEF HaltOK, WaitersOK
  <2>4. new = "suspended" => p[r] # At("abort", u)
    BY DEF HaltScope, HaltOK, Told, At, HaltsAreSafe, SafeHalts
  <2>5. QED
    BY <1>18, <2>2, <2>3, <2>4 DEF Requests
<1>23. Queues(b)
  BY <1>11, <1>16 DEF Queues
<1>24. Lessens(a, b, c)
  BY <1>13, <1>16, <1>17, <1>20 DEF Lessens
<1>25. QED
  BY <1>15, <1>17, <1>19, <1>21, <1>22, <1>23, <1>24 DEF HaltOK

LEMMA HaltCurrentHalts ==
  ASSUME HaltScope,
         NEW a, NEW p, HaltOK(a, p), NEW c \in CPUs, NEW b, b = HaltCurrent(a, c)
  PROVE  /\ HaltOK(b, p) /\ Lessens(a, b, c) /\ ~Halting(b, b.cur[c])
         /\ b.cur[c] \in {a.cur[c], Dummy}
<1>1. CASE ~Halting(a, a.cur[c])
  <2>1. b = a
    BY <1>1 DEF HaltCurrent
  <2>2. QED
    BY <1>1, <2>1 DEF Lessens
<1>2. CASE Halting(a, a.cur[c])
  <2>1. PICK t \in Threads : t = a.cur[c]
    BY <1>2 DEF Halting
  <2>2. PICK new \in {"dead", "suspended"} :
          new = IF "aborting" \in a.flags[t] THEN "dead" ELSE "suspended"
    OBVIOUS
  <2>3. b = HaltThread(a, c, t, new)
    BY <1>2, <2>1, <2>2 DEF HaltCurrent
  <2>4. /\ new \notin a.flags[t]
        /\ new = "suspended" => SuspendCalls \cap ops # {}
    BY <1>2, <2>1, <2>2, HaltingIs DEF HaltOK, RequestOK
  <2>5. /\ HaltOK(b, p) /\ Lessens(a, b, c) /\ ~Halting(b, t)
        /\ b.cur[c] \in {a.cur[c], Dummy}
    BY <2>3, <2>4, HaltThreadHalts
  <2>6. QED
    BY <2>1, <2>5, SchedTypes DEF Halting
<1>3. QED
  BY <1>1, <1>2

-----------------------------------------------------------------------------
(* What a call leaves, with respect to halting.                            *)

HaltsLand(a, c, p) ==
  /\ HaltOK(s', p) /\ Lessens(a, s', c) /\ ops' = ops
  /\ \/ holder' = NoHolder
     \/ holder'.cpu = c /\ ~Halting(s', s'.cur[c])

LEMMA HaltsLandFrom ==
  ASSUME NEW a, NEW b, NEW c, NEW p, Lessens(a, b, c), HaltsLand(b, c, p)
  PROVE  HaltsLand(a, c, p)
BY LessensTrans DEF HaltsLand

LEMMA NoSwitchHalts ==
  ASSUME NEW a, NEW c, NEW i, NEW p, HaltOK(a, p), NoSwitch(c, a, i), holder = NoHolder
  PROVE  HaltsLand(a, c, p)
<1>1. Same(a, s')
  BY SendSame DEF NoSwitch, HaltOK, Queues
<1>2. Tame(a, s') /\ Lessens(a, s', c)
  BY <1>1, SameIsTame DEF HaltOK
<1>3. HaltOK(s', p)
  BY <1>2, TameOK
<1>4. holder' = NoHolder /\ ops' = ops
  BY HistoryOps DEF NoSwitch
<1>5. QED
  BY <1>2, <1>3, <1>4 DEF HaltsLand

LEMMA UnlockHalts ==
  ASSUME NEW a, NEW c, NEW p, HaltOK(a, p), Unlock(a), holder = NoHolder
  PROVE  HaltsLand(a, c, p)
<1>1. s' = a /\ holder' = NoHolder /\ ops' = ops
  BY HistoryOps DEF Unlock
<1>2. QED
  BY <1>1 DEF HaltsLand, Lessens

LEMMA RequeueSame ==
  ASSUME NEW a \in SchedRecs, NEW c \in CPUs, NEW new
  PROVE  SameThreads(a, Requeue(a, c, new))
<1>1. CASE Requeue(a, c, new) = a
  BY <1>1 DEF SameThreads
<1>2. CASE /\ Requeue(a, c, new) = QueueThread(a, c, a.cur[c])
           /\ ~Prevented(a, a.cur[c]) /\ a.cur[c] # Idle
  <2>1. PICK t \in Threads : t = a.cur[c]
    BY <1>2 DEF SchedRecs, Prevented
  <2>2. PICK b : b = QueueThread(a, c, t)
    OBVIOUS
  <2>3. SameThreads(a, b)
    BY <2>2, QueueFields DEF SameThreads
  <2>4. QED
    BY <1>2, <2>1, <2>2, <2>3
<1>3. QED
  BY <1>1, <1>2 DEF Requeue

LEMMA ExchangeSame ==
  ASSUME NEW a \in SchedRecs, NEW c \in CPUs, NEW new
  PROVE  SameThreads(a, Exchange(a, c, new).st) /\ Exchange(a, c, new).th = new
<1>1. PICK b : b = Requeue(a, c, new)
  OBVIOUS
<1>2. SameThreads(a, b) /\ b \in SchedRecs
  BY <1>1, RequeueSame DEF SameThreads
<1>3. PICK d : d = Unqueue(b, c, new)
  OBVIOUS
<1>4. SameThreads(b, d) /\ d \in SchedRecs
  BY <1>2, <1>3, UnqueueSame DEF SameThreads
<1>5. PICK e : e = [d EXCEPT !.swapOk[c] = FALSE]
  OBVIOUS
<1>6. Same(d, e)
  BY <1>4, <1>5, SwapOkSame
<1>7. Exchange(a, c, new).st = e /\ Exchange(a, c, new).th = new
  BY <1>1, <1>3, <1>5 DEF Exchange
<1>8. SameThreads(a, e)
  BY <1>2, <1>4, <1>6 DEF SameThreads, Same
<1>9. QED
  BY <1>7, <1>8

(* next_up halts the running thread if it was told to. *)
LEMMA NextUpHalts ==
  ASSUME HaltScope, NEW a, NEW p, HaltOK(a, p), NEW c \in CPUs,
         NEW n, n = NextUp(a, c)
  PROVE  /\ HaltOK(n.st, p) /\ Lessens(a, n.st, c)
         /\ ~Halting(n.st, n.st.cur[c]) /\ n.th \in Threads \cup {Idle, Dummy}
<1>1. PICK h : h = HaltCurrent(a, c)
  OBVIOUS
<1>2. /\ HaltOK(h, p) /\ Lessens(a, h, c) /\ ~Halting(h, h.cur[c])
      /\ Queues(h) /\ h \in SchedRecs
  BY <1>1, HaltCurrentHalts DEF HaltOK, Queues
<1>3. PICK k, t : k = Pick(h, c).st /\ t = Pick(h, c).th
  OBVIOUS
<1>4. Same(h, k) /\ k \in SchedRecs /\ t \in Threads \cup {Idle}
  BY <1>2, <1>3, PickFacts DEF Same
<1>5. PICK new : new = Weigh(k, c, t)
  OBVIOUS
<1>6. new \in Threads \cup {Idle, Dummy}
  BY <1>4, <1>5 DEF Weigh, SchedRecs
<1>7. n = Exchange(k, c, new)
  BY <1>1, <1>3, <1>5 DEF NextUp, WeighPick
<1>8. SameThreads(k, n.st) /\ n.th = new
  BY <1>4, <1>7, ExchangeSame
<1>9. SameThreads(h, n.st)
  BY <1>4, <1>8 DEF Same, SameThreads
<1>10. Tame(h, n.st) /\ Lessens(h, n.st, c)
  BY <1>2, <1>9, SameIsTame
<1>11. HaltOK(n.st, p) /\ Lessens(a, n.st, c)
  BY <1>2, <1>10, TameOK, LessensTrans
<1>12. ~Halting(n.st, n.st.cur[c])
  BY <1>2, <1>9 DEF SameThreads, Halting
<1>13. QED
  BY <1>6, <1>8, <1>11, <1>12

(* A thread leaves its CPU only when nothing is asked of it any more. *)
LEMMA FinishSwitchHalts ==
  ASSUME NEW a, NEW p, HaltOK(a, p), NEW c \in CPUs, ~Halting(a, a.cur[c]),
         NEW t \in Threads \cup {Idle, Dummy},
         NEW i, NEW fromIsr, FinishSwitch(c, a, t, i, fromIsr)
  PROVE  HaltsLand(a, c, p)
<1>1. a \in SchedRecs /\ Queues(a) /\ a.cur \in [CPUs -> Threads \cup {Idle, Dummy}]
  BY DEF HaltOK, Queues, SchedRecs
<1>2. PICK b : b = [a EXCEPT !.swapOk[c] = FALSE, !.cur[c] = t]
  OBVIOUS
<1>3. /\ b \in SchedRecs /\ b.flags = a.flags /\ b.waitq = a.waitq /\ b.isr = a.isr
      /\ b.cur = [a.cur EXCEPT ![c] = t]
  BY <1>1, <1>2 DEF SchedRecs
<1>4. PICK d : d = ResetSlice(b, c, t)
  OBVIOUS
<1>5. Same(b, d)
  BY <1>3, <1>4, ResetSliceSame
<1>6. PICK e : e = PutBack(d, c, t, a.cur[c], fromIsr)
  OBVIOUS
<1>7. SameThreads(d, e) /\ e \in SchedRecs
  BY <1>5, <1>6, PutBackFields DEF Same, SameThreads
<1>8. Send(c, e, i)
  BY <1>2, <1>4, <1>6 DEF FinishSwitch
<1>9. Same(e, s')
  BY <1>7, <1>8, SendSame
<1>10. /\ s' \in SchedRecs /\ s'.flags = a.flags /\ s'.waitq = a.waitq /\ s'.isr = a.isr
       /\ s'.cur = [a.cur EXCEPT ![c] = t]
  BY <1>3, <1>5, <1>7, <1>9 DEF Same, SameThreads
<1>11. \A k \in CPUs : s'.cur[k] = IF k = c THEN t ELSE a.cur[k]
  BY <1>1, <1>10
<1>12. \A u \in Threads : Halting(s', u) <=> Halting(a, u)
  BY <1>10 DEF Halting
<1>13. ASSUME NEW u \in Threads PROVE RequestOK(s', u)
  <2>1. RequestOK(a, u)
    BY DEF HaltOK
  <2>2. ASSUME Halting(s', u) PROVE \E k \in CPUs : s'.cur[k] = u
    <3>1. PICK k \in CPUs : a.cur[k] = u
      BY <1>12, <2>1, <2>2 DEF RequestOK
    <3>2. k # c
      BY <1>12, <2>2, <3>1
    <3>3. QED
      BY <1>11, <3>1, <3>2
  <2>3. QED
    BY <1>10, <2>1, <2>2 DEF RequestOK
<1>14. HaltOK(s', p)
  BY <1>10, <1>13 DEF HaltOK, Queues, WaitersOK
<1>15. Lessens(a, s', c)
  BY <1>10, <1>11, <1>12 DEF Lessens
<1>16. holder' = NoHolder /\ ops' = ops
  BY HistoryOps DEF FinishSwitch
<1>17. QED
  BY <1>14, <1>15, <1>16 DEF HaltsLand

LEMMA SwitchToHalts ==
  ASSUME NEW a, NEW p, HaltOK(a, p), NEW c \in CPUs, ~Halting(a, a.cur[c]),
         NEW t \in Threads \cup {Idle, Dummy},
         NEW i, NEW fromIsr, SwitchTo(c, a, t, i, fromIsr)
  PROVE  HaltsLand(a, c, p)
<1>1. CASE Saved(a, t)
  BY <1>1, FinishSwitchHalts DEF SwitchTo
<1>2. CASE ~Saved(a, t)
  <2>1. s' = a /\ holder' = [cpu |-> c, th |-> t, isr |-> fromIsr] /\ ops' = ops
    BY <1>2, HistoryOps DEF SwitchTo
  <2>2. holder'.cpu = c
    BY <2>1
  <2>3. QED
    BY <2>1, <2>2 DEF HaltsLand, Lessens
<1>3. QED
  BY <1>1, <1>2

LEMMA SwapHalts ==
  ASSUME HaltScope, NEW a, NEW p, HaltOK(a, p), NEW c \in CPUs,
         NEW i, Swap(c, a, i), holder = NoHolder
  PROVE  HaltsLand(a, c, p)
<1>1. PICK n : n = NextUp(a, c)
  OBVIOUS
<1>2. /\ HaltOK(n.st, p) /\ Lessens(a, n.st, c)
      /\ ~Halting(n.st, n.st.cur[c]) /\ n.th \in Threads \cup {Idle, Dummy}
  BY <1>1, NextUpHalts
<1>3. NoSwitch(c, n.st, i) \/ SwitchTo(c, n.st, n.th, i, FALSE)
  BY <1>1 DEF Swap, SwapFrom, HaltScope
<1>4. HaltsLand(n.st, c, p)
  BY <1>2, <1>3, NoSwitchHalts, SwitchToHalts
<1>5. QED
  BY <1>2, <1>4, HaltsLandFrom

LEMMA RescheduleHalts ==
  ASSUME HaltScope, NEW a, NEW p, HaltOK(a, p), NEW c \in CPUs,
         Reschedule(c, a), holder = NoHolder
  PROVE  HaltsLand(a, c, p)
<1>1. PICK b : b = [a EXCEPT !.swapOk[c] = FALSE]
  OBVIOUS
<1>2. Same(a, b)
  BY <1>1, SwapOkSame DEF HaltOK, Queues
<1>3. Tame(a, b) /\ Lessens(a, b, c)
  BY <1>2, SameIsTame DEF HaltOK
<1>4. HaltOK(b, p)
  BY <1>3, TameOK
<1>5. Swap(c, b, ipi) \/ NoSwitch(c, b, ipi)
  BY <1>1 DEF Reschedule, HaltScope
<1>6. HaltsLand(b, c, p)
  BY <1>4, <1>5, SwapHalts, NoSwitchHalts
<1>7. QED
  BY <1>3, <1>6, HaltsLandFrom

-----------------------------------------------------------------------------
(* A step of CPU c keeps every request it does not serve.                  *)

HaltGround == HaltScope /\ SchedInv /\ HaltInv

Acts(c) ==
  /\ HaltOK(s', pc') /\ ops' = ops
  /\ \A d \in CPUs \ {c} : s'.cur[d] = s.cur[d] /\ s'.isr[d] = s.isr[d]
  /\ \/ holder' = NoHolder
     \/ holder'.cpu = c /\ ~Halting(s', s'.cur[c])
     \/ holder' = holder /\ (holder # NoHolder => ~Halting(s', s'.cur[holder.cpu]))

LEMMA ActsInv ==
  ASSUME NEW c \in CPUs, Acts(c)
  PROVE  HaltInv'
<1>1. HaltOK(s, pc)'
  BY DEF Acts, HaltOK, Told, RequestOK, Queues, WaitersOK
<1>2. holder' # NoHolder => ~Halting(s', s'.cur[holder'.cpu])
  BY DEF Acts
<1>3. QED
  BY <1>1, <1>2 DEF HaltInv, NoHolder, Halting

LEMMA LandActs ==
  ASSUME NEW a, NEW c \in CPUs, HaltsLand(a, c, pc'),
         \A d \in CPUs \ {c} : a.cur[d] = s.cur[d] /\ a.isr[d] = s.isr[d]
  PROVE  Acts(c)
<1>1. \A d \in CPUs \ {c} : s'.cur[d] = s.cur[d] /\ s'.isr[d] = s.isr[d]
  BY DEF HaltsLand, Lessens
<1>2. QED
  BY <1>1 DEF HaltsLand, Acts

(* Nobody but HaltOther starts to wait for an abort. *)
LEMMA PcMoves ==
  ASSUME SchedInv, NEW a, HaltOK(a, pc), NEW y \in Threads \cup CPUs, NEW w,
         w.op # "abort", w.op = "suspend" => SuspendCalls \cap ops # {},
         pc' = [pc EXCEPT ![y] = w]
  PROVE  HaltOK(a, pc')
<1>1. \A z \in Threads \cup CPUs : pc'[z] = IF z = y THEN w ELSE pc[z]
  BY DEF SchedInv, CallsOK
<1>2. Told(pc')
  BY <1>1 DEF HaltOK, Told
<1>3. \A t, u \in Threads : pc'[t] = At("abort", u) => pc[t] = At("abort", u)
  BY <1>1 DEF At
<1>4. WaitersOK(a, pc')
  BY <1>3 DEF HaltOK, WaitersOK
<1>5. QED
  BY <1>2, <1>4 DEF HaltOK

(* What a call does next. *)
Onward(c) ==
  \/ pc' = pc
  \/ \E o \in CallOps \ {"abort"}, t \in Threads \cup {None} :
       /\ Goto(c, At(o, t)) /\ Ctx(c) \in Threads \cup CPUs
       /\ o = "suspend" => SuspendCalls \cap ops # {}
  \/ Goto(c, Run) /\ Ctx(c) \in Threads \cup CPUs

LEMMA OnwardOK ==
  ASSUME SchedInv, NEW a, HaltOK(a, pc), NEW c \in CPUs, Onward(c)
  PROVE  HaltOK(a, pc')
<1>1. CASE pc' = pc
  BY <1>1
<1>2. ASSUME NEW o \in CallOps \ {"abort"}, NEW t \in Threads \cup {None},
             Goto(c, At(o, t)), Ctx(c) \in Threads \cup CPUs,
             o = "suspend" => SuspendCalls \cap ops # {}
      PROVE  HaltOK(a, pc')
  <2>0. PICK w : w = At(o, t)
    OBVIOUS
  <2>1. w = At(o, t) /\ w.op = o
    BY <2>0 DEF At
  <2>2. pc' = [pc EXCEPT ![Ctx(c)] = w]
    BY <1>2, <2>1 DEF Goto
  <2>3. QED
    BY <1>2, <2>1, <2>2, PcMoves
<1>3. CASE Goto(c, Run) /\ Ctx(c) \in Threads \cup CPUs
  <2>0. PICK w : w = Run
    OBVIOUS
  <2>1. w = Run /\ w.op = "run"
    BY <2>0 DEF Run
  <2>2. pc' = [pc EXCEPT ![Ctx(c)] = w]
    BY <1>3, <2>1 DEF Goto
  <2>3. QED
    BY <1>3, <2>1, <2>2, PcMoves
<1>4. QED
  BY <1>1, <1>2, <1>3 DEF Onward

(* How a section under the lock ends. *)
Ends(c, a) ==
  \/ Unlock(a) \/ Reschedule(c, a) \/ NoSwitch(c, a, ipi) \/ \E i : Swap(c, a, i)

LEMMA EndsHalts ==
  ASSUME HaltScope, holder = NoHolder, NEW c \in CPUs, NEW a, NEW p,
         HaltOK(a, p), Ends(c, a)
  PROVE  HaltsLand(a, c, p)
BY UnlockHalts, RescheduleHalts, NoSwitchHalts, SwapHalts DEF Ends

LEMMA EndsActs ==
  ASSUME HaltGround, holder = NoHolder, NEW c \in CPUs, NEW a, HaltOK(a, pc), Onward(c),
         a.cur = s.cur, \A d \in CPUs \ {c} : a.isr[d] = s.isr[d], Ends(c, a)
  PROVE  Acts(c)
<1>1. HaltOK(a, pc')
  BY OnwardOK DEF HaltGround
<1>2. HaltsLand(a, c, pc')
  BY <1>1, EndsHalts DEF HaltGround
<1>3. QED
  BY <1>2, LandActs

LEMMA TameActs ==
  ASSUME HaltGround, holder = NoHolder, NEW c \in CPUs, NEW a, Tame(s, a), Onward(c),
         \A d \in CPUs \ {c} : a.isr[d] = s.isr[d], Ends(c, a)
  PROVE  Acts(c)
<1>1. HaltOK(a, pc) /\ a.cur = s.cur
  BY TameOK DEF HaltGround, HaltInv, Tame
<1>2. QED
  BY <1>1, EndsActs

LEMMA SameActs ==
  ASSUME HaltGround, holder = NoHolder, NEW c \in CPUs, NEW a,
         Same(s, a) \/ SameThreads(s, a), Onward(c), Ends(c, a)
  PROVE  Acts(c)
<1>1. Tame(s, a) /\ a.isr = s.isr
  BY SameIsTame DEF HaltGround, HaltInv, HaltOK, Lessens
<1>2. QED
  BY <1>1, TameActs

(* Clearing what is no request, and timeouts. *)
LEMMA ClearTame ==
  ASSUME NEW a, Queues(a), NEW t \in Threads, NEW S, S \cap Requests = {},
         NEW b, b = [a EXCEPT !.flags[t] = @ \ S]
  PROVE  Tame(a, b) /\ b.isr = a.isr /\ Queues(b)
<1>1. a \in SchedRecs
  BY DEF Queues
<1>2. PICK R \in SUBSET Flags : R = a.flags[t] \ S
  BY <1>1 DEF SchedRecs
<1>3. b = [a EXCEPT !.flags[t] = R]
  BY <1>2
<1>4. FlagSet(a, b, t, R)
  BY <1>1, <1>3, FlagsSet
<1>5. Queues(b)
  BY <1>4 DEF Queues, FlagSet
<1>6. \A u \in Threads :
        /\ \A f \in Requests : f \in b.flags[u] <=> f \in a.flags[u]
        /\ \A f \in {"dead", "suspended"} : f \in b.flags[u] => f \in a.flags[u]
  BY <1>2, <1>4 DEF FlagSet, Requests
<1>7. QED
  BY <1>4, <1>5, <1>6 DEF Tame, FlagSet

LEMMA TimedTame ==
  ASSUME NEW a, Queues(a), NEW t \in Threads, NEW v \in BOOLEAN,
         NEW b, b = [a EXCEPT !.timeout[t] = v]
  PROVE  Tame(a, b) /\ b.isr = a.isr /\ Queues(b)
<1>1. a \in SchedRecs /\ a.timeout \in [Threads -> BOOLEAN]
  BY DEF Queues, SchedRecs
<1>2. /\ b \in SchedRecs /\ b.cur = a.cur /\ b.flags = a.flags /\ b.isr = a.isr
      /\ b.waitq = a.waitq
  BY <1>1, TimeoutFields
<1>3. QED
  BY <1>2 DEF Tame, Queues

LEMMA IsrTame ==
  ASSUME NEW a, Queues(a), NEW c \in CPUs, NEW v \in BOOLEAN,
         NEW b, b = [a EXCEPT !.isr[c] = v]
  PROVE  /\ Tame(a, b) /\ Queues(b)
         /\ \A d \in CPUs \ {c} : b.isr[d] = a.isr[d]
<1>1. a \in SchedRecs /\ a.isr \in [CPUs -> BOOLEAN]
  BY DEF Queues, SchedRecs
<1>2. /\ b \in SchedRecs /\ b.cur = a.cur /\ b.flags = a.flags
      /\ b.isr = [a.isr EXCEPT ![c] = v] /\ b.waitq = a.waitq
  BY <1>1 DEF SchedRecs
<1>3. \A d \in CPUs \ {c} : b.isr[d] = a.isr[d]
  BY <1>1, <1>2
<1>4. QED
  BY <1>2, <1>3 DEF Tame, Queues

LEMMA ReadiedSame ==
  ASSUME NEW a \in SchedRecs, NEW c \in CPUs, NEW t \in Threads,
         NEW b, b = ReadyThread(a, c, t) \/ b = ReadyUnlessActive(a, c, t)
  PROVE  SameThreads(a, b)
<1>1. SameThreads(a, a)
  BY DEF SameThreads
<1>2. QED
  BY <1>1, ReadyThreadSame DEF ReadyUnlessActive

(* A thread that may be put to wait is in no queue. *)
LEMMA AddToWaitqHalts ==
  ASSUME SMP, NEW a, NEW p, HaltOK(a, p), NEW c \in CPUs, NEW t \in Threads,
         NEW w \in Waits, \A v \in Waits : ~In(a.waitq[v], t),
         \A u \in Threads :
           /\ w = <<"halt", u>> => "suspending" \in a.flags[u]
           /\ w = <<"join", u>> /\ p[t] = At("abort", u) => "aborting" \in a.flags[u],
         NEW b, b = AddToWaitq(a, c, t, w)
  PROVE  HaltOK(b, p) /\ b.cur = a.cur /\ b.isr = a.isr
<1>1. Queues(a) /\ a \in SchedRecs
  BY DEF HaltOK, Queues
<1>2. PICK d : d = UnreadyThread(a, c, t)
  OBVIOUS
<1>3. SameThreads(a, d)
  <2>1. PICK e : e = Unqueue(a, c, t)
    OBVIOUS
  <2>2. SameThreads(a, e) /\ e \in SchedRecs
    BY <1>1, <2>1, UnqueueSame DEF SameThreads
  <2>3. PICK ok \in BOOLEAN : ok = (t = a.cur[c])
    OBVIOUS
  <2>4. d = UpdateCache(e, c, ok)
    BY <1>2, <2>1, <2>3 DEF UnreadyThread
  <2>5. Same(e, d)
    BY <2>2, <2>4, UpdateCacheSame
  <2>6. QED
    BY <2>2, <2>5 DEF Same, SameThreads
<1>4. /\ d \in SchedRecs /\ d.flags = a.flags /\ d.cur = a.cur /\ d.isr = a.isr
      /\ d.waitq = a.waitq
  BY <1>3 DEF SameThreads
<1>5. PICK S \in SUBSET Flags : S = a.flags[t] \cup {"pending"}
  BY <1>1 DEF SchedRecs, Flags
<1>6. PICK e : e = [d EXCEPT !.flags[t] = S]
  OBVIOUS
<1>7. FlagSet(d, e, t, S)
  BY <1>4, <1>6, FlagsSet
<1>8. e \in SchedRecs /\ e.waitq = a.waitq /\ a.waitq \in [Waits -> Seq(Threads)]
  BY <1>1, <1>4, <1>7 DEF FlagSet, SchedRecs
<1>9. PICK q \in Seq(Threads) : q = PriqAdd(a.waitq[w], t, a.prio)
  BY <1>8, PriqAddLinks
<1>10. b = [e EXCEPT !.waitq[w] = q]
  BY <1>2, <1>4, <1>5, <1>6, <1>8, <1>9 DEF AddToWaitq, SchedRecs
<1>11. /\ b \in SchedRecs /\ b.cur = e.cur /\ b.flags = e.flags /\ b.isr = e.isr
       /\ b.waitq = [a.waitq EXCEPT ![w] = q]
  <2>1. PICK g \in [Waits -> Seq(Threads)] : g = [a.waitq EXCEPT ![w] = q]
    BY <1>8
  <2>2. b = [e EXCEPT !.waitq = g]
    BY <1>8, <1>10, <2>1
  <2>3. QED
    BY <1>8, <2>1, <2>2 DEF SchedRecs
<1>12. /\ NoDup(q) /\ \A u : In(q, u) <=> In(a.waitq[w], u) \/ u = t
  <2>1. a.waitq[w] \in Seq(Threads) /\ NoDup(a.waitq[w]) /\ ~In(a.waitq[w], t)
    BY <1>1, <1>8 DEF Queues
  <2>2. QED
    BY <1>9, <2>1, PriqAddLinks
<1>13. \A v \in Waits : b.waitq[v] = IF v = w THEN q ELSE a.waitq[v]
  BY <1>8, <1>11
<1>14. Queues(b)
  BY <1>1, <1>11, <1>12, <1>13 DEF Queues
<1>15. \A u \in Threads : /\ Halting(b, u) <=> Halting(a, u)
                          /\ \A f \in Flags \ {"pending"} : f \in b.flags[u] <=> f \in a.flags[u]
  <2>1. \A u \in Threads : b.flags[u] = IF u = t THEN S ELSE a.flags[u]
    BY <1>4, <1>7, <1>11 DEF FlagSet
  <2>2. \A u \in Threads, f \in Flags \ {"pending"} : f \in b.flags[u] <=> f \in a.flags[u]
    BY <1>5, <2>1
  <2>3. QED
    BY <2>2, HaltingIs DEF Flags
<1>16. b.cur = a.cur /\ b.isr = a.isr
  BY <1>4, <1>7, <1>11 DEF FlagSet
<1>17. \A u \in Threads : RequestOK(b, u)
  BY <1>15, <1>16 DEF HaltOK, RequestOK, Flags
<1>18. WaitersOK(b, p)
  <2>1. SUFFICES ASSUME NEW r \in Threads, NEW u \in Threads
                 PROVE  /\ In(b.waitq[<<"halt", u>>], r) => "suspending" \in b.flags[u]
                        /\ In(b.waitq[<<"join", u>>], r) /\ p[r] = At("abort", u) =>
                             "aborting" \in b.flags[u]
    BY DEF WaitersOK
  <2>2. \A v \in Waits : In(b.waitq[v], r) => In(a.waitq[v], r) \/ (v = w /\ r = t)
    BY <1>12, <1>13
  <2>3. /\ In(a.waitq[<<"halt", u>>], r) => "suspending" \in a.flags[u]
        /\ In(a.waitq[<<"join", u>>], r) /\ p[r] = At("abort", u) =>
             "aborting" \in a.flags[u]
    BY DEF HaltOK, WaitersOK
  <2>4. /\ In(b.waitq[<<"halt", u>>], r) => "suspending" \in a.flags[u]
        /\ In(b.waitq[<<"join", u>>], r) /\ p[r] = At("abort", u) =>
             "aborting" \in a.flags[u]
    BY <2>2, <2>3, WaitsOf
  <2>5. QED
    BY <1>15, <2>4 DEF Flags
<1>19. QED
  BY <1>14, <1>16, <1>17, <1>18 DEF HaltOK

(* The calls. *)
LEMMA HaltGroundIs ==
  ASSUME HaltGround
  PROVE  /\ SMP /\ SchedInv /\ HaltOK(s, pc) /\ Queues(s) /\ s \in SchedRecs
         /\ HaltsAreSafe /\ ops \in Workloads
BY DEF HaltGround, HaltScope, HaltInv, HaltOK, Queues

LEMMA RunsFreely ==
  ASSUME HaltGround, NEW c \in CPUs, NEW t \in Threads, holder = NoHolder,
         s.cur[c] = t, ~s.isr[c]
  PROVE  \A v \in Waits : ~In(s.waitq[v], t)
<1>1. RecOK(s, None) /\ SMP
  BY HaltGroundIs, Begins
<1>2. RunningOK(s, c, None) /\ c # None /\ FlagsOK(s)
  BY <1>1, SchedTypes DEF RecOK
<1>3. "pending" \notin s.flags[t]
  BY <1>2 DEF RunningOK
<1>4. QED
  BY <1>2, <1>3 DEF FlagsOK

LEMMA StartHalts ==
  ASSUME HaltGround, NEW c \in CPUs, NEW u \in Threads, Start(c, u) \/ Resume(c, u)
  PROVE  Acts(c)
<1>1. PICK op \in {"start", "resume"}, f \in {"prestart", "suspended"} :
        /\ Calls(c, op) /\ pc' = pc
        /\ Reschedule(c, ReadyThread([s EXCEPT !.flags[u] = @ \ {f}], c, u))
  BY DEF Start, Resume
<1>2. holder = NoHolder
  BY <1>1 DEF Calls, Free
<1>3. PICK b : b = [s EXCEPT !.flags[u] = @ \ {f}]
  OBVIOUS
<1>4. PICK S : S = {f}
  OBVIOUS
<1>5. S \cap Requests = {} /\ b = [s EXCEPT !.flags[u] = @ \ S]
  BY <1>3, <1>4 DEF Requests
<1>6. Tame(s, b) /\ b.isr = s.isr /\ Queues(b)
  <2>1. Queues(s)
    BY HaltGroundIs
  <2>2. QED
    BY SMTT(30), <1>5, <2>1, ClearTame
<1>7. PICK a : a = ReadyThread(b, c, u)
  OBVIOUS
<1>8. SameThreads(b, a)
  BY <1>6, <1>7, ReadyThreadSame DEF Queues
<1>9. Tame(s, a) /\ a.isr = s.isr
  BY <1>6, <1>8, SameIsTame, TameTrans DEF SameThreads
<1>10. Ends(c, a) /\ Onward(c)
  BY <1>1, <1>3, <1>7 DEF Ends, Onward
<1>11. QED
  BY <1>2, <1>9, <1>10, TameActs

LEMMA YieldHalts ==
  ASSUME HaltGround, NEW c \in CPUs, Yield(c)
  PROVE  Acts(c)
<1>1. ThreadCalls(c, "yield") /\ pc' = pc
  BY DEF Yield
<1>2. PICK t \in Threads : t = s.cur[c]
  BY <1>1, HaltGroundIs, ThreadCallFacts
<1>3. holder = NoHolder /\ SchedInv /\ s \in SchedRecs
  BY <1>1, HaltGroundIs, ThreadCallFacts
<1>4. PICK b : b = IF ~SMP \/ s.queued[t] THEN DequeueThread(s, c, t) ELSE s
  OBVIOUS
<1>5. SameThreads(s, b) /\ b \in SchedRecs
  <2>1. SameThreads(s, DequeueThread(s, c, t)) /\ SameThreads(s, s)
    BY <1>3, DequeueFields DEF SameThreads
  <2>2. QED
    BY <1>4, <2>1 DEF SameThreads
<1>6. PICK d : d = QueueThread(b, c, t)
  OBVIOUS
<1>7. SameThreads(b, d) /\ d \in SchedRecs
  BY <1>5, <1>6, QueueFields DEF SameThreads
<1>8. PICK a : a = UpdateCache(d, c, TRUE)
  OBVIOUS
<1>9. Same(d, a)
  BY <1>7, <1>8, UpdateCacheSame
<1>10. SameThreads(s, a)
  BY <1>5, <1>7, <1>9 DEF Same, SameThreads
<1>11. Swap(c, a, ipi)
  BY <1>2, <1>4, <1>6, <1>8 DEF Yield
<1>12. Ends(c, a) /\ Onward(c)
  BY <1>1, <1>11 DEF Ends, Onward
<1>13. QED
  BY <1>3, <1>10, <1>12, SameActs

LEMMA BlockHalts ==
  ASSUME HaltGround, NEW c \in CPUs, Block(c)
  PROVE  Acts(c)
<1>1. ThreadCalls(c, "block") /\ pc' = pc
  BY DEF Block
<1>2. PICK t \in Threads : t = s.cur[c]
  BY <1>1, HaltGroundIs, ThreadCallFacts
<1>3. holder = NoHolder /\ ~s.isr[c]
  BY <1>1, HaltGroundIs, ThreadCallFacts
<1>4. PICK w \in Waits : w = Obj
  BY DEF Waits
<1>5. \A u \in Threads : w # <<"halt", u>> /\ w # <<"join", u>>
  BY <1>4 DEF Obj
<1>6. PICK a : a = AddToWaitq(s, c, t, w)
  OBVIOUS
<1>7. HaltOK(a, pc) /\ a.cur = s.cur /\ a.isr = s.isr
  BY <1>2, <1>3, <1>5, <1>6, HaltGroundIs, RunsFreely, AddToWaitqHalts
<1>8. Swap(c, a, ipi)
  BY <1>2, <1>4, <1>6 DEF Block
<1>9. Ends(c, a) /\ Onward(c)
  BY <1>1, <1>8 DEF Ends, Onward
<1>10. QED
  BY <1>3, <1>7, <1>9, EndsActs

LEMMA WakeFirstHalts ==
  ASSUME HaltGround, NEW c \in CPUs, WakeFirst(c)
  PROVE  Acts(c)
<1>1. Calls(c, "block") /\ s.waitq[Obj] # <<>> /\ pc' = pc
  BY DEF WakeFirst
<1>2. holder = NoHolder /\ s \in SchedRecs /\ Queues(s) /\ SMP
  BY <1>1, HaltGroundIs DEF Calls, Free
<1>3. s.waitq[Obj] \in Seq(Threads)
  BY <1>2 DEF Waits, SchedRecs
<1>4. PICK u \in Threads : u = Head(s.waitq[Obj])
  BY <1>1, <1>3
<1>5. PICK b : b = [Unpend(s, u) EXCEPT !.timeout[u] = FALSE]
  OBVIOUS
<1>6. Queues(b) /\ Emptied(s, b, {u})
  BY <1>2, <1>5, UnpendUntimedEmpties
<1>7. Tame(s, b) /\ b.isr = s.isr
  BY <1>2, <1>6, EmptiedIsTame DEF Lessens
<1>8. PICK a : a = ReadyUnlessActive(b, c, u)
  OBVIOUS
<1>9. SameThreads(b, a)
  BY <1>6, <1>8, ReadiedSame DEF Queues
<1>10. Tame(s, a) /\ a.isr = s.isr
  BY <1>6, <1>7, <1>9, SameIsTame, TameTrans DEF SameThreads
<1>11. Ends(c, a) /\ Onward(c)
  BY <1>1, <1>4, <1>5, <1>8 DEF WakeFirst, Ends, Onward
<1>12. QED
  BY <1>2, <1>10, <1>11, TameActs

(* Nobody sleeps where a thread may be told to suspend. *)
LEMMA SleepHalts ==
  ASSUME HaltGround, NEW c \in CPUs, Sleep(c)
  PROVE  Acts(c)
<1>1. ThreadCalls(c, "sleep") /\ pc' = pc
  BY DEF Sleep
<1>2. PICK t \in Threads : t = s.cur[c]
  BY <1>1, HaltGroundIs, ThreadCallFacts
<1>3. holder = NoHolder /\ "sleep" \in ops /\ RecOK(s, c)
  BY <1>1, HaltGroundIs, ThreadCallFacts, Begins
<1>4. \A u \in Threads : "suspending" \notin s.flags[u]
  BY <1>3, HaltGroundIs DEF HaltOK, RequestOK, HaltsAreSafe, SafeHalts
<1>5. PICK b : b = UnreadyThread(s, c, t)
  OBVIOUS
<1>6. SameThreads(s, b) /\ b \in SchedRecs
  BY <1>3, <1>5, UnreadyOK DEF SameThreads
<1>7. Tame(s, b) /\ HaltOK(b, pc) /\ b.isr = s.isr
  BY <1>6, HaltGroundIs, SameIsTame, TameOK DEF SameThreads
<1>8. PICK S \in SUBSET Flags : S = b.flags[t] \cup {"suspended"}
  BY <1>6 DEF SchedRecs, Flags
<1>9. PICK d : d = [b EXCEPT !.flags[t] = S]
  OBVIOUS
<1>10. FlagSet(b, d, t, S)
  BY <1>6, <1>9, FlagsSet
<1>11. \A u \in Threads, f \in {"aborting", "suspending", "dead"} :
         f \in d.flags[u] <=> f \in b.flags[u]
  BY <1>8, <1>10 DEF FlagSet
<1>12. \A u \in Threads : "suspending" \notin d.flags[u]
  BY <1>4, <1>6, <1>11 DEF SameThreads
<1>13. HaltOK(d, pc)
  <2>1. \A u \in Threads : Halting(d, u) <=> Halting(b, u)
    BY <1>11, HaltingIs
  <2>2. \A u \in Threads : RequestOK(d, u)
    BY <1>7, <1>10, <1>11, <1>12, <2>1 DEF HaltOK, RequestOK, FlagSet
  <2>3. Queues(d) /\ WaitersOK(d, pc)
    BY <1>7, <1>10, <1>11 DEF HaltOK, Queues, WaitersOK, FlagSet
  <2>4. QED
    BY <1>7, <2>2, <2>3 DEF HaltOK
<1>14. PICK a : a = [d EXCEPT !.timeout[t] = TRUE]
  OBVIOUS
<1>15. Tame(d, a) /\ a.isr = d.isr
  BY <1>13, <1>14, TimedTame DEF HaltOK
<1>16. HaltOK(a, pc) /\ a.cur = s.cur /\ a.isr = s.isr
  BY <1>6, <1>10, <1>13, <1>15, TameOK DEF Tame, FlagSet, SameThreads
<1>17. a = [b EXCEPT !.timeout[t] = TRUE, !.flags[t] = @ \cup {"suspended"}]
  BY <1>6, <1>8, <1>9, <1>14 DEF SchedRecs
<1>18. Swap(c, a, ipi)
  BY <1>2, <1>5, <1>17 DEF Sleep
<1>19. Ends(c, a) /\ Onward(c)
  BY <1>1, <1>18 DEF Ends, Onward
<1>20. QED
  BY <1>3, <1>16, <1>19, EndsActs

(* k_wakeup and k_thread_suspend before they take the lock. *)
LEMMA UntimeHalts ==
  ASSUME HaltGround, NEW c \in CPUs, NEW u \in Threads,
         WakeupBegin(c, u) \/ SuspendBegin(c, u)
  PROVE  Acts(c)
<1>1. PICK op \in {"wakeup", "suspend", "isr_suspend"}, o \in {"wakeup", "suspend"} :
        /\ Calls(c, op) /\ Unlock([s EXCEPT !.timeout[u] = FALSE])
        /\ Goto(c, At(o, u)) /\ (o = "suspend" => op \in SuspendCalls)
  BY DEF WakeupBegin, SuspendBegin, ThreadCalls, SuspendCalls
<1>2. holder = NoHolder /\ op \in ops /\ Ctx(c) \in Threads \cup CPUs
  BY <1>1 DEF Calls, Free
<1>3. PICK a : a = [s EXCEPT !.timeout[u] = FALSE]
  OBVIOUS
<1>4. Tame(s, a) /\ a.isr = s.isr
  BY <1>3, HaltGroundIs, TimedTame
<1>5. o = "suspend" => SuspendCalls \cap ops # {}
  BY <1>1, <1>2
<1>6. Onward(c)
  BY <1>1, <1>2, <1>5 DEF Onward, CallOps
<1>7. Ends(c, a)
  BY <1>1, <1>3 DEF Ends
<1>8. QED
  BY <1>2, <1>4, <1>6, <1>7, TameActs

LEMMA WakeupHalts ==
  ASSUME HaltGround, NEW c \in CPUs, Wakeup(c)
  PROVE  Acts(c)
<1>1. /\ holder = NoHolder /\ Ctx(c) \in Threads \cup CPUs /\ pc[Ctx(c)].op = "wakeup"
      /\ Goto(c, Run)
  BY DEF Wakeup, Free
<1>2. PICK u \in Threads : u = pc[Ctx(c)].th
  BY <1>1, HaltGroundIs DEF SchedInv, CallsOK
<1>3. PICK b : b = [s EXCEPT !.flags[u] = @ \ {"suspended"}]
  OBVIOUS
<1>4. Tame(s, b) /\ b.isr = s.isr /\ Queues(b)
  <2>1. PICK S : S = {"suspended"}
    OBVIOUS
  <2>2. Queues(s) /\ S \cap Requests = {} /\ b = [s EXCEPT !.flags[u] = @ \ S]
    BY <1>3, <2>1, HaltGroundIs DEF Requests
  <2>3. QED
    BY <2>2, ClearTame
<1>5. PICK a : a = ReadyUnlessActive(b, c, u)
  OBVIOUS
<1>6. SameThreads(b, a)
  BY <1>4, <1>5, ReadiedSame DEF Queues
<1>7. Tame(s, a) /\ a.isr = s.isr
  BY <1>4, <1>6, SameIsTame, TameTrans DEF SameThreads
<1>8. Unlock(a) \/ Reschedule(c, a)
  BY <1>2, <1>3, <1>5 DEF Wakeup
<1>9. Ends(c, a) /\ Onward(c)
  BY <1>1, <1>8 DEF Ends, Onward
<1>10. QED
  BY <1>1, <1>7, <1>9, TameActs

LEMMA PrioSetHalts ==
  ASSUME HaltGround, NEW c \in CPUs, NEW u \in PrioTargets, NEW p \in NewPrios,
         PrioSet(c, u, p)
  PROVE  Acts(c)
<1>1. ThreadCalls(c, "prio")
  BY DEF PrioSet
<1>2. holder = NoHolder /\ Ctx(c) \in Threads \cup CPUs /\ s \in SchedRecs
  BY <1>1, HaltGroundIs DEF ThreadCalls, Calls, Free
<1>3. u \in Threads /\ p \in Int
  BY SchedAssumption
<1>4. PICK e : e = [s EXCEPT !.prio[u] = p]
  OBVIOUS
<1>5. Same(s, e)
  BY <1>2, <1>3, <1>4, PrioSame
<1>6. Onward(c)
  <2>1. "resched" \in CallOps \ {"abort"}
    BY DEF CallOps
  <2>2. QED
    BY <1>2, <2>1 DEF PrioSet, Onward
<1>7. PICK a : Unlock(a) /\ SameThreads(s, a)
  <2>1. CASE ~Ready(s, u)
    <3>1. Unlock(e)
      BY <1>4, <2>1 DEF PrioSet
    <3>2. QED
      BY <1>5, <3>1 DEF Same, SameThreads
  <2>2. CASE Ready(s, u) /\ (~SMP \/ s.queued[u])
    <3>1. PICK b : b = DequeueThread(s, c, u)
      OBVIOUS
    <3>2. PICK d : d = [b EXCEPT !.prio[u] = p]
      OBVIOUS
    <3>3. SameThreads(s, b) /\ Same(b, d)
      BY ZenonT(30), <1>2, <1>3, <3>1, <3>2, DequeueFields, PrioSame DEF SameThreads
    <3>4. PICK f : f = QueueThread(d, c, u)
      OBVIOUS
    <3>5. SameThreads(d, f)
      BY <1>3, <3>3, <3>4, QueueFields DEF Same
    <3>6. PICK g : g = IF s.prio[u] > p THEN FlagReady(f, c, u) ELSE f
      OBVIOUS
    <3>7. Same(f, g)
      BY <3>5, <3>6, FlagReadySame DEF Same, SameThreads
    <3>8. PICK h : h = UpdateCache(g, c, TRUE)
      OBVIOUS
    <3>9. Same(g, h)
      BY <3>7, <3>8, UpdateCacheSame DEF Same
    <3>10. SameThreads(s, h)
      BY <3>3, <3>5, <3>7, <3>9 DEF Same, SameThreads
    <3>11. Unlock(h)
      BY <2>2, <3>1, <3>2, <3>4, <3>6, <3>8 DEF PrioSet
    <3>12. QED
      BY <3>10, <3>11
  <2>3. CASE Ready(s, u) /\ ~(~SMP \/ s.queued[u])
    <3>1. PICK m \in SUBSET CPUs : m = {d \in CPUs \ {c} : s.cur[d] = u}
      OBVIOUS
    <3>2. PICK g : g = IF s.prio[u] < p THEN FlagIpi(e, m) ELSE e
      OBVIOUS
    <3>3. Same(e, g)
      BY <1>5, <3>2, FlagIpiSame DEF Same
    <3>4. PICK h : h = UpdateCache(g, c, TRUE)
      OBVIOUS
    <3>5. Same(g, h)
      BY <3>3, <3>4, UpdateCacheSame DEF Same
    <3>6. SameThreads(s, h)
      BY <1>5, <3>3, <3>5 DEF Same, SameThreads
    <3>7. Unlock(h)
      BY <1>4, <2>3, <3>1, <3>2, <3>4 DEF PrioSet
    <3>8. QED
      BY <3>6, <3>7
  <2>4. QED
    BY <2>1, <2>2, <2>3
<1>8. Ends(c, a)
  BY <1>7 DEF Ends
<1>9. QED
  BY <1>2, <1>6, <1>7, <1>8, SameActs

(* The calls that leave every thread as it is. *)
LEMMA PlainHalts ==
  ASSUME HaltGround, NEW c \in CPUs,
         \/ ReschedUnlocked(c) \/ SchedLock(c) \/ SchedUnlock(c)
         \/ \E u \in Threads, m \in Masks : CpuMaskMod(c, u, m)
  PROVE  Acts(c)
<1>1. s \in SchedRecs /\ SchedInv /\ Same(s, s)
  BY HaltGroundIs DEF Same
<1>2. "resched" \in CallOps \ {"abort"}
  BY DEF CallOps
<1>3. CASE ReschedUnlocked(c)
  <2>1. holder = NoHolder /\ Ends(c, s) /\ Onward(c)
    BY <1>3 DEF ReschedUnlocked, Free, Ends, Onward
  <2>2. QED
    BY <1>1, <2>1, SameActs
<1>4. CASE SchedLock(c) \/ SchedUnlock(c)
  <2>1. ThreadCalls(c, "lock")
    BY <1>4 DEF SchedLock, SchedUnlock
  <2>2. PICK t \in Threads : t = s.cur[c]
    BY <1>1, <2>1, ThreadCallFacts
  <2>3. holder = NoHolder /\ Ctx(c) \in Threads \cup CPUs
    BY <2>1 DEF ThreadCalls, Calls, Free
  <2>4. s.locked[t] \in 0..MaxLock /\ MaxLock \in Nat
    BY <1>1, SchedAssumption DEF SchedRecs
  <2>5. CASE SchedLock(c)
    <3>1. s.locked[t] + 1 \in 0..MaxLock
      BY <2>2, <2>4, <2>5 DEF SchedLock
    <3>2. PICK a : a = [s EXCEPT !.locked[t] = s.locked[t] + 1]
      OBVIOUS
    <3>3. Same(s, a)
      BY <1>1, <3>1, <3>2, LockedSame
    <3>4. Ends(c, a) /\ Onward(c)
      BY <2>2, <2>5, <3>2 DEF SchedLock, Ends, Onward
    <3>5. QED
      BY <2>3, <3>3, <3>4, SameActs
  <2>6. CASE SchedUnlock(c)
    <3>1. s.locked[t] - 1 \in 0..MaxLock
      BY <2>2, <2>4, <2>6 DEF SchedUnlock
    <3>2. PICK b : b = [s EXCEPT !.locked[t] = s.locked[t] - 1]
      OBVIOUS
    <3>3. Same(s, b)
      BY <1>1, <3>1, <3>2, LockedSame
    <3>4. PICK a : a = UpdateCache(b, c, FALSE)
      OBVIOUS
    <3>5. Same(b, a)
      BY <3>3, <3>4, UpdateCacheSame DEF Same
    <3>6. Unlock(a) /\ Goto(c, At("resched", None))
      BY <2>2, <2>6, <3>2, <3>4 DEF SchedUnlock
    <3>7. Ends(c, a) /\ Onward(c)
      BY <1>2, <2>3, <3>6 DEF Ends, Onward
    <3>8. QED
      BY <2>3, <3>3, <3>5, <3>7, SameTrans, SameActs
  <2>7. QED
    BY <1>4, <2>5, <2>6
<1>5. ASSUME NEW u \in Threads, NEW m \in Masks, CpuMaskMod(c, u, m)
      PROVE  Acts(c)
  <2>1. holder = NoHolder /\ m \in SUBSET CPUs
    BY <1>5, SchedAssumption DEF CpuMaskMod, ThreadCalls, Calls, Free
  <2>2. PICK a : a = [s EXCEPT !.mask[u] = m]
    OBVIOUS
  <2>3. Same(s, a)
    BY <1>1, <2>1, <2>2, MaskSame
  <2>4. Ends(c, a) /\ Onward(c)
    BY <1>5, <2>2 DEF CpuMaskMod, Ends, Onward
  <2>5. QED
    BY <2>1, <2>3, <2>4, SameActs
<1>6. QED
  BY <1>3, <1>4, <1>5

LEMMA TimeSliceSetHalts ==
  ASSUME HaltGround, NEW c \in CPUs, NEW on \in BOOLEAN, TimeSliceSet(c, on)
  PROVE  Acts(c)
<1>1. holder = NoHolder /\ s \in SchedRecs /\ Queues(s)
  BY HaltGroundIs DEF TimeSliceSet, ThreadCalls, Calls, Free
<1>2. PICK b : b = [s EXCEPT !.slicing = on]
  OBVIOUS
<1>3. /\ b \in SchedRecs /\ b.cur = s.cur /\ b.flags = s.flags /\ b.isr = s.isr
      /\ b.waitq = s.waitq
  BY <1>1, <1>2 DEF SchedRecs
<1>4. PICK a : a = ResetSlice(b, c, s.cur[c])
  OBVIOUS
<1>5. Same(b, a)
  BY <1>3, <1>4, ResetSliceSame
<1>6. /\ a \in SchedRecs /\ a.cur = s.cur /\ a.flags = s.flags /\ a.isr = s.isr
      /\ a.waitq = s.waitq
  BY <1>3, <1>5 DEF Same
<1>7. Tame(s, a) /\ a.isr = s.isr
  BY <1>1, <1>6 DEF Tame, Queues
<1>8. Ends(c, a) /\ Onward(c)
  BY <1>2, <1>4 DEF TimeSliceSet, Ends, Onward
<1>9. QED
  BY <1>1, <1>7, <1>8, TameActs

(* z_thread_halt.  A request is made of a thread that runs. *)
MayAsk(a, u, flag) ==
  /\ flag \in Requests /\ \E d \in CPUs : a.cur[d] = u
  /\ flag = "suspending" => "suspended" \notin a.flags[u] /\ SuspendCalls \cap ops # {}
  /\ flag = "aborting" => "dead" \notin a.flags[u]

Asked(a, b, u, flag) ==
  /\ b.cur = a.cur /\ b.isr = a.isr /\ b.waitq = a.waitq
  /\ flag \in b.flags[u]

LEMMA RequestHalts ==
  ASSUME NEW a, NEW p, HaltOK(a, p), NEW u \in Threads, NEW flag, MayAsk(a, u, flag),
         NEW b, b = [a EXCEPT !.flags[u] = @ \cup {flag}]
  PROVE  HaltOK(b, p) /\ Asked(a, b, u, flag)
<1>1. a \in SchedRecs /\ Queues(a)
  BY DEF HaltOK, Queues
<1>2. PICK S \in SUBSET Flags : S = a.flags[u] \cup {flag}
  BY <1>1 DEF SchedRecs, Flags, Requests, MayAsk
<1>3. b = [a EXCEPT !.flags[u] = S]
  BY <1>2
<1>4. FlagSet(a, b, u, S)
  BY <1>1, <1>3, FlagsSet
<1>5. \A v \in Threads : b.flags[v] = IF v = u THEN a.flags[u] \cup {flag} ELSE a.flags[v]
  BY <1>2, <1>4 DEF FlagSet
<1>6. \A v \in Threads : RequestOK(b, v)
  <2>1. SUFFICES ASSUME NEW v \in Threads PROVE RequestOK(b, v)
    OBVIOUS
  <2>2. RequestOK(a, v) /\ b.cur = a.cur
    BY <1>4 DEF HaltOK, FlagSet
  <2>3. CASE v # u
    <3>1. b.flags[v] = a.flags[v]
      BY <1>5, <2>3
    <3>2. QED
      BY <2>2, <3>1, HaltingIs DEF RequestOK
  <2>4. CASE v = u
    BY <1>5, <2>2, <2>4 DEF RequestOK, Requests, MayAsk
  <2>5. QED
    BY <2>3, <2>4
<1>7. WaitersOK(b, p) /\ Queues(b)
  BY <1>1, <1>4, <1>5 DEF HaltOK, WaitersOK, Queues, FlagSet
<1>8. QED
  BY <1>4, <1>5, <1>6, <1>7 DEF HaltOK, FlagSet, Asked

(* A thread in no queue may start to wait for anything. *)
LEMMA PcFree ==
  ASSUME SchedInv, NEW a, HaltOK(a, pc), NEW t \in Threads,
         \A v \in Waits : ~In(a.waitq[v], t), NEW w, w.op # "suspend",
         w.op = "abort" => "abort" \in ops, pc' = [pc EXCEPT ![t] = w]
  PROVE  HaltOK(a, pc')
<1>1. \A z \in Threads \cup CPUs : pc'[z] = IF z = t THEN w ELSE pc[z]
  BY DEF SchedInv, CallsOK
<1>2. Told(pc')
  BY <1>1 DEF HaltOK, Told
<1>3. WaitersOK(a, pc')
  BY <1>1, WaitsOf DEF HaltOK, WaitersOK
<1>4. QED
  BY <1>2, <1>3 DEF HaltOK

LEMMA HaltOtherHalts ==
  ASSUME HaltGround, NEW c \in CPUs, NEW u \in Threads, NEW kind \in {"dead", "suspended"},
         HaltOther(c, u, kind), holder = NoHolder, Ctx(c) \in Threads \cup CPUs,
         \E d \in CPUs : s.cur[d] = u, kind \notin s.flags[u], s.cur[c] # u,
         kind = "suspended" => SuspendCalls \cap ops # {},
         kind = "dead" /\ ~s.isr[c] => "abort" \in ops
  PROVE  /\ Acts(c)
         /\ s.isr[c] => /\ s'.isr[c] /\ s'.cur[c] \in {s.cur[c], Dummy}
                        /\ ~Halting(s', s'.cur[c]) /\ holder' = NoHolder
                        /\ pc' = [pc EXCEPT ![c] = At("spin", u)]
         /\ ~s.isr[c] => \A d \in CPUs : pc'[d] = pc[d]
<1>1. SchedInv /\ HaltOK(s, pc) /\ SMP /\ HaltScope
  BY HaltGroundIs DEF HaltGround
<1>2. PICK flag \in Requests : flag = IF kind = "dead" THEN "aborting" ELSE "suspending"
  BY DEF Requests
<1>3. PICK a : a = [s EXCEPT !.flags[u] = @ \cup {flag}]
  OBVIOUS
<1>4. /\ HaltOK(a, pc) /\ a.cur = s.cur /\ a.isr = s.isr /\ a.waitq = s.waitq
      /\ flag \in a.flags[u]
  <2>1. MayAsk(s, u, flag)
    BY <1>2 DEF MayAsk
  <2>2. HaltOK(a, pc) /\ Asked(s, a, u, flag)
    BY <1>1, <1>3, <2>1, RequestHalts
  <2>3. QED
    BY <2>2 DEF Asked
<1>5. PICK i : i = [d \in CPUs |-> ipi[d] \/ s.cur[d] = u]
  OBVIOUS
<1>6. CASE s.isr[c]
  <2>1. /\ s' = HaltCurrent(a, c) /\ holder' = holder /\ ops' = ops
        /\ Goto(c, At("spin", u)) /\ Ctx(c) = c
    BY <1>2, <1>3, <1>5, <1>6, HistoryOps DEF HaltOther, Ctx
  <2>2. Onward(c)
    BY <2>1 DEF Onward, CallOps
  <2>3. HaltOK(a, pc')
    BY <1>1, <1>4, <2>2, OnwardOK
  <2>4. /\ HaltOK(s', pc') /\ Lessens(a, s', c) /\ ~Halting(s', s'.cur[c])
        /\ s'.cur[c] \in {a.cur[c], Dummy}
    BY <1>1, <2>1, <2>3, HaltCurrentHalts
  <2>5. Acts(c)
    BY <1>4, <2>1, <2>4 DEF Acts, Lessens
  <2>6. QED
    BY <1>4, <1>6, <2>1, <2>4, <2>5 DEF Lessens, Goto
<1>7. CASE ~s.isr[c]
  <2>1. PICK t \in Threads : t = s.cur[c] /\ Ctx(c) = t
    BY <1>1, <1>7, HaltGroundIs, SchedTypes DEF Ctx, SchedRecs
  <2>2. \A v \in Waits : ~In(a.waitq[v], t)
    BY <1>4, <1>7, <2>1, RunsFreely
  <2>3. PICK o \in {"abort", "halt"} : o = IF kind = "dead" THEN "abort" ELSE "halt"
    OBVIOUS
  <2>4. PICK k \in {"join", "halt"} : k = IF kind = "dead" THEN "join" ELSE "halt"
    OBVIOUS
  <2>5. PICK w \in Waits : w = <<k, u>>
    BY DEF Waits
  <2>6. PICK b : b = AddToWaitq(a, c, t, w)
    OBVIOUS
  <2>7. Swap(c, b, i) /\ Goto(c, At(o, u))
    BY <1>2, <1>3, <1>5, <1>7, <2>1, <2>3, <2>4, <2>5, <2>6 DEF HaltOther
  <2>8. PICK x : x = At(o, u)
    OBVIOUS
  <2>9. x.op = o /\ pc' = [pc EXCEPT ![t] = x]
    BY <2>1, <2>7, <2>8 DEF At, Goto
  <2>10. HaltOK(a, pc')
    BY <1>1, <1>4, <1>7, <2>2, <2>3, <2>9, PcFree
  <2>11. \A v \in Threads :
           /\ w = <<"halt", v>> => "suspending" \in a.flags[v]
           /\ w = <<"join", v>> /\ pc'[t] = At("abort", v) => "aborting" \in a.flags[v]
    BY <1>2, <1>4, <2>4, <2>5
  <2>12. HaltOK(b, pc') /\ b.cur = a.cur /\ b.isr = a.isr
    BY <1>1, <2>2, <2>6, <2>10, <2>11, AddToWaitqHalts
  <2>13. HaltsLand(b, c, pc')
    BY <1>1, <2>7, <2>12, SwapHalts
  <2>14. Acts(c)
    BY <1>4, <2>12, <2>13, LandActs
  <2>15. \A d \in CPUs : pc'[d] = pc[d]
    BY <1>1, <2>9, SchedAssumption DEF SchedInv, CallsOK
  <2>16. QED
    BY <1>7, <2>14, <2>15
<1>8. QED
  BY <1>6, <1>7

LEMMA HaltHereHalts ==
  ASSUME HaltGround, NEW c \in CPUs, NEW u \in Threads, NEW kind \in {"dead", "suspended"},
         HaltHere(c, u, kind), holder = NoHolder, Ctx(c) \in Threads \cup CPUs,
         kind \notin s.flags[u],
         kind = "suspended" => SuspendCalls \cap ops # {}
  PROVE  Acts(c)
<1>1. SchedInv /\ HaltOK(s, pc) /\ HaltScope
  BY HaltGroundIs DEF HaltGround
<1>2. PICK a : a = HaltThread(s, c, u, kind)
  OBVIOUS
<1>3. HaltOK(a, pc) /\ Lessens(s, a, c)
  BY <1>1, <1>2, HaltThreadHalts
<1>4. Ends(c, a) /\ Onward(c)
  BY <1>2 DEF HaltHere, Ends, Onward
<1>5. HaltOK(a, pc')
  BY <1>1, <1>3, <1>4, OnwardOK
<1>6. HaltsLand(a, c, pc')
  BY <1>1, <1>4, <1>5, EndsHalts
<1>7. QED
  BY <1>3, <1>6, LandActs DEF Lessens

(* Who asks, and what the thread asked is. *)
HaltAsked(c, u, kind) ==
  /\ ThreadHalt(c, u, kind) /\ holder = NoHolder /\ Ctx(c) \in Threads \cup CPUs
  /\ kind \notin s.flags[u] /\ kind \in {"dead", "suspended"} /\ u \in Threads
  /\ kind = "suspended" => SuspendCalls \cap ops # {}
  /\ kind = "dead" /\ ~s.isr[c] => "abort" \in ops \/ u = s.cur[c]
  /\ s.isr[c] => pc[c].op # "spin"

LEMMA SuspendAsks ==
  ASSUME HaltGround, NEW c \in CPUs, Suspend(c)
  PROVE  \/ Acts(c) /\ Goto(c, Run)
         \/ \E u \in Threads : HaltAsked(c, u, "suspended")
<1>1. holder = NoHolder /\ Ctx(c) \in Threads \cup CPUs /\ pc[Ctx(c)].op = "suspend"
  BY DEF Suspend, Free
<1>2. SchedInv /\ HaltOK(s, pc) /\ s \in SchedRecs
  BY HaltGroundIs
<1>3. PICK u \in Threads : u = pc[Ctx(c)].th
  BY <1>1, <1>2 DEF SchedInv, CallsOK
<1>4. CASE "suspended" \in s.flags[u]
  <2>1. Ends(c, s) /\ Onward(c) /\ Same(s, s) /\ Goto(c, Run)
    BY <1>1, <1>2, <1>3, <1>4 DEF Suspend, Ends, Onward, Same
  <2>2. QED
    BY <1>1, <2>1, SameActs
<1>5. CASE "suspended" \notin s.flags[u]
  <2>1. ThreadHalt(c, u, "suspended")
    BY <1>3, <1>5 DEF Suspend
  <2>2. SuspendCalls \cap ops # {}
    BY <1>1, <1>2 DEF HaltOK, Told
  <2>3. s.isr[c] => pc[c].op # "spin"
    BY <1>1 DEF Ctx
  <2>4. QED
    BY <1>1, <1>5, <2>1, <2>2, <2>3 DEF HaltAsked
<1>6. QED
  BY <1>4, <1>5

LEMMA AbortAsks ==
  ASSUME NEW c \in CPUs, NEW u \in Threads, Abort(c, u)
  PROVE  HaltAsked(c, u, "dead")
<1>1. PICK op \in {"abort", "exit", "isr_abort"} :
        /\ Calls(c, op) /\ (op = "exit" => u = s.cur[c]) /\ (op = "isr_abort" => s.isr[c])
  BY DEF Abort, ThreadCalls
<1>2. holder = NoHolder /\ Ctx(c) \in Threads \cup CPUs /\ op \in ops /\ pc[Ctx(c)] = Run
  BY <1>1 DEF Calls, Free
<1>3. s.isr[c] => pc[c].op # "spin"
  BY <1>2 DEF Ctx, Run
<1>4. QED
  BY <1>1, <1>2, <1>3 DEF Abort, HaltAsked

(* An interrupt that has asked spins; it halted its own thread first. *)
SpinsFor(c, u) ==
  /\ s.isr[c] /\ s'.isr[c] /\ s.cur[c] # u /\ s'.cur[c] \in {s.cur[c], Dummy}
  /\ ~Halting(s', s'.cur[c]) /\ holder' = NoHolder
  /\ pc' = [pc EXCEPT ![c] = At("spin", u)]

LEMMA AskedHalts ==
  ASSUME HaltGround, NEW c \in CPUs, NEW u, NEW kind, HaltAsked(c, u, kind)
  PROVE  /\ Acts(c) /\ u \in Threads
         /\ SpinsFor(c, u) \/ Goto(c, Run) \/ (~s.isr[c] /\ \A d \in CPUs : pc'[d] = pc[d])
<1>1. /\ ThreadHalt(c, u, kind) /\ holder = NoHolder /\ Ctx(c) \in Threads \cup CPUs
      /\ kind \notin s.flags[u] /\ kind \in {"dead", "suspended"} /\ u \in Threads
      /\ kind = "suspended" => SuspendCalls \cap ops # {}
      /\ kind = "dead" /\ ~s.isr[c] => "abort" \in ops \/ u = s.cur[c]
  BY DEF HaltAsked
<1>2. CASE Elsewhere(s, c, u)
  <2>1. HaltOther(c, u, kind)
    BY <1>1, <1>2 DEF ThreadHalt
  <2>2. CurOK(s)
    BY <1>1, HaltGroundIs, Begins DEF RecOK
  <2>3. PICK d \in CPUs : d # c /\ s.cur[d] = u
    BY <1>2 DEF Elsewhere
  <2>4. s.cur[c] # u
    BY <1>1, <2>2, <2>3 DEF CurOK
  <2>5. /\ Acts(c)
        /\ s.isr[c] => /\ s'.isr[c] /\ s'.cur[c] \in {s.cur[c], Dummy}
                       /\ ~Halting(s', s'.cur[c]) /\ holder' = NoHolder
                       /\ pc' = [pc EXCEPT ![c] = At("spin", u)]
        /\ ~s.isr[c] => \A k \in CPUs : pc'[k] = pc[k]
    BY <1>1, <2>1, <2>3, <2>4, HaltOtherHalts
  <2>6. QED
    BY <1>1, <2>4, <2>5 DEF SpinsFor
<1>3. CASE ~Elsewhere(s, c, u)
  <2>1. HaltHere(c, u, kind) /\ Goto(c, Run)
    BY <1>1, <1>3 DEF ThreadHalt, HaltHere
  <2>2. QED
    BY <1>1, <2>1, HaltHereHalts
<1>4. QED
  BY <1>2, <1>3

LEMMA JoinHalts ==
  ASSUME HaltGround, NEW c \in CPUs, NEW u \in Threads, Join(c, u)
  PROVE  Acts(c)
<1>1. ThreadCalls(c, "join") /\ Goto(c, At("join", u))
  BY DEF Join
<1>2. PICK t \in Threads : t = s.cur[c]
  BY <1>1, HaltGroundIs, ThreadCallFacts
<1>3. /\ holder = NoHolder /\ ~s.isr[c] /\ Ctx(c) \in Threads \cup CPUs
      /\ pc[Ctx(c)] = Run /\ Ctx(c) = t
  BY <1>1, <1>2 DEF ThreadCalls, Calls, Free, Ctx
<1>4. Onward(c)
  BY <1>1, <1>3 DEF Onward, CallOps
<1>5. CASE "dead" \in s.flags[u]
  <2>1. Ends(c, s) /\ Same(s, s)
    BY <1>5, HaltGroundIs DEF Join, Ends, Same
  <2>2. QED
    BY <1>3, <1>4, <2>1, SameActs
<1>6. CASE "dead" \notin s.flags[u]
  <2>1. PICK w \in Waits : w = <<"join", u>>
    BY DEF Waits
  <2>2. PICK a : a = AddToWaitq(s, c, t, w)
    OBVIOUS
  <2>3. \A v \in Threads : w # <<"halt", v>> /\ pc[t] # At("abort", v)
    BY <1>3, <2>1 DEF Run, At
  <2>4. HaltOK(a, pc) /\ a.cur = s.cur /\ a.isr = s.isr
    BY <1>2, <1>3, <2>2, <2>3, HaltGroundIs, RunsFreely, AddToWaitqHalts
  <2>5. Swap(c, a, ipi)
    BY <1>2, <1>6, <2>1, <2>2 DEF Join
  <2>6. Ends(c, a)
    BY <2>5 DEF Ends
  <2>7. QED
    BY <1>3, <1>4, <2>4, <2>6, EndsActs
<1>7. QED
  BY <1>5, <1>6

(* The steps that take no lock, and interrupts. *)
LEMMA QuietActs ==
  ASSUME HaltGround, NEW c \in CPUs, Tame(s, s'), HaltOK(s, pc'),
         \A d \in CPUs \ {c} : s'.isr[d] = s.isr[d], holder' = holder, ops' = ops
  PROVE  Acts(c)
<1>1. HaltOK(s', pc') /\ s'.cur = s.cur
  BY TameOK DEF Tame
<1>2. ASSUME holder # NoHolder PROVE ~Halting(s', s'.cur[holder.cpu])
  <2>1. ~Halting(s, s.cur[holder.cpu])
    BY <1>2 DEF HaltGround, HaltInv
  <2>2. CASE s.cur[holder.cpu] \in Threads
    BY <1>1, <2>1, <2>2, TameHalting
  <2>3. CASE s.cur[holder.cpu] \notin Threads
    BY <1>1, <2>3 DEF Halting
  <2>4. QED
    BY <2>2, <2>3
<1>3. QED
  BY <1>1, <1>2 DEF Acts

LEMMA ReturnsHalts ==
  ASSUME HaltGround, NEW c \in CPUs, HaltOrJoinReturns(c) \/ SpinReturns(c)
  PROVE  Acts(c)
<1>1. s' = s /\ holder' = holder /\ ops' = ops /\ Goto(c, Run)
  BY HistoryOps DEF HaltOrJoinReturns, SpinReturns
<1>2. Ctx(c) \in Threads \cup CPUs
  BY DEF HaltOrJoinReturns, SpinReturns, Ctx
<1>3. Onward(c)
  BY <1>1, <1>2 DEF Onward
<1>4. HaltOK(s, pc')
  BY <1>3, HaltGroundIs, OnwardOK
<1>5. Tame(s, s')
  BY <1>1, HaltGroundIs DEF Tame
<1>6. QED
  BY <1>1, <1>4, <1>5, QuietActs

LEMMA EnterHalts ==
  ASSUME HaltGround, NEW c \in CPUs, DeviceIrq(c) \/ TimerIrq(c)
  PROVE  Acts(c)
<1>1. PICK o \in {"run", "announce"} :
        /\ Enter(c, At(o, None)) /\ holder' = holder /\ ops' = ops
  BY HistoryOps DEF DeviceIrq, TimerIrq, Run, At
<1>2. PICK w : w = At(o, None)
  OBVIOUS
<1>3. /\ w.op = o /\ pc' = [pc EXCEPT ![c] = w]
      /\ s' = [s EXCEPT !.isr[c] = TRUE]
  BY <1>1, <1>2 DEF At, Enter
<1>4. HaltOK(s, pc')
  BY <1>3, HaltGroundIs, PcMoves
<1>5. Tame(s, s') /\ \A d \in CPUs \ {c} : s'.isr[d] = s.isr[d]
  <2>1. PICK v \in BOOLEAN : v = TRUE
    OBVIOUS
  <2>2. Queues(s) /\ s' = [s EXCEPT !.isr[c] = v]
    BY <1>3, <2>1, HaltGroundIs
  <2>3. QED
    BY <2>2, IsrTame
<1>6. QED
  BY <1>1, <1>4, <1>5, QuietActs

LEMMA SchedIpiHalts ==
  ASSUME HaltGround, NEW c \in CPUs, SchedIpi(c)
  PROVE  Acts(c)
<1>1. /\ holder = NoHolder /\ s' = TimeSlice([s EXCEPT !.isr[c] = TRUE], c)
      /\ holder' = holder /\ pc' = pc /\ ops' = ops
  BY HistoryOps DEF SchedIpi
<1>2. PICK b : b = [s EXCEPT !.isr[c] = TRUE]
  OBVIOUS
<1>3. Tame(s, b) /\ Queues(b) /\ \A d \in CPUs \ {c} : b.isr[d] = s.isr[d]
  <2>1. PICK v \in BOOLEAN : v = TRUE
    OBVIOUS
  <2>2. Queues(s) /\ b = [s EXCEPT !.isr[c] = v]
    BY <1>2, <2>1, HaltGroundIs
  <2>3. QED
    BY <2>2, IsrTame
<1>4. RecOK(b, None)
  BY <1>1, <1>2, HaltGroundIs, Begins, IsrOK
<1>5. SameThreads(b, s')
  BY <1>1, <1>2, <1>4, TimeSliceOK
<1>6. Tame(s, s') /\ \A d \in CPUs \ {c} : s'.isr[d] = s.isr[d]
  BY <1>3, <1>5, SameIsTame, TameTrans DEF SameThreads
<1>7. HaltOK(s, pc')
  BY <1>1, HaltGroundIs
<1>8. QED
  BY <1>1, <1>6, <1>7, QuietActs

LEMMA SliceTimeoutHalts ==
  ASSUME HaltGround, NEW c \in CPUs, NEW d \in CPUs, SliceTimeout(c, d)
  PROVE  Acts(c)
<1>1. PICK b : b = [s EXCEPT !.sliceOn[d] = FALSE, !.sliceExp[d] = TRUE]
  OBVIOUS
<1>2. /\ s' = IF d # c THEN FlagIpi(b, {d}) ELSE b
      /\ holder' = holder /\ pc' = pc /\ ops' = ops
  BY <1>1, HistoryOps DEF SliceTimeout
<1>3. Same(s, b)
  BY <1>1, HaltGroundIs, SliceSame
<1>4. Same(b, s')
  BY <1>2, <1>3, FlagIpiSame DEF Same
<1>5. Tame(s, s') /\ s'.isr = s.isr
  BY <1>3, <1>4, HaltGroundIs, SameTrans, SameIsTame DEF Same
<1>6. HaltOK(s, pc')
  BY <1>2, HaltGroundIs
<1>7. QED
  BY <1>2, <1>5, <1>6, QuietActs

LEMMA ThreadExpiresHalts ==
  ASSUME HaltGround, NEW c \in CPUs, NEW t \in Threads, ThreadExpires(c, t)
  PROVE  Acts(c)
<1>1. /\ s' = [s EXCEPT !.timeout[t] = FALSE]
      /\ pc' = [pc EXCEPT ![c] = At("fire", t)]
      /\ holder' = holder /\ ops' = ops
  BY HistoryOps DEF ThreadExpires
<1>2. PICK w : w = At("fire", t)
  OBVIOUS
<1>3. w.op = "fire" /\ pc' = [pc EXCEPT ![c] = w]
  BY <1>1, <1>2 DEF At
<1>4. HaltOK(s, pc')
  BY <1>3, HaltGroundIs, PcMoves
<1>5. Tame(s, s') /\ s'.isr = s.isr
  BY <1>1, HaltGroundIs, TimedTame
<1>6. QED
  BY <1>1, <1>4, <1>5, QuietActs

(* The end of a handler's section: pc[c] becomes w. *)
LEMMA UnlockActs ==
  ASSUME HaltGround, NEW c \in CPUs, holder = NoHolder, NEW a, Tame(s, a),
         a.isr = s.isr, Unlock(a), NEW w, w.op \notin {"abort", "suspend"},
         pc' = [pc EXCEPT ![c] = w]
  PROVE  Acts(c)
<1>1. HaltOK(s, pc')
  BY HaltGroundIs, PcMoves
<1>2. HaltOK(a, pc') /\ a.cur = s.cur
  BY <1>1, TameOK DEF Tame
<1>3. HaltsLand(a, c, pc')
  BY <1>2, UnlockHalts
<1>4. QED
  BY <1>2, <1>3, LandActs

LEMMA ThreadTimeoutHalts ==
  ASSUME HaltGround, NEW c \in CPUs, ThreadTimeout(c)
  PROVE  Acts(c)
<1>1. /\ pc[c].op = "fire" /\ holder = NoHolder
      /\ pc' = [pc EXCEPT ![c] = At("announce", None)]
  BY DEF ThreadTimeout
<1>2. SchedInv /\ SMP /\ Queues(s) /\ s \in SchedRecs
  BY HaltGroundIs
<1>3. PICK t \in Threads : t = pc[c].th
  BY <1>1, <1>2 DEF SchedInv, CallsOK, FiringOK
<1>4. PICK w : w = At("announce", None)
  OBVIOUS
<1>5. w.op \notin {"abort", "suspend"} /\ pc' = [pc EXCEPT ![c] = w]
  BY <1>1, <1>4 DEF At
<1>6. PICK a : Unlock(a) /\ Tame(s, a) /\ a.isr = s.isr
  <2>1. CASE s.flags[t] \cap {"dead", "aborting"} # {}
    <3>1. Unlock(s) /\ Tame(s, s)
      BY <1>2, <1>3, <2>1 DEF ThreadTimeout, Tame
    <3>2. QED
      BY <3>1
  <2>2. CASE s.flags[t] \cap {"dead", "aborting"} = {}
    <3>1. PICK b : b = Unpend(s, t)
      OBVIOUS
    <3>2. Queues(b) /\ Unpended(s, b, t)
      BY <1>2, <3>1, UnpendEmpties
    <3>3. Tame(s, b) /\ b.isr = s.isr
      <4>1. \A u \in Threads, f \in {"aborting", "suspending", "dead", "suspended"} :
              f \in b.flags[u] <=> f \in s.flags[u]
        BY <3>2 DEF Unpended
      <4>2. QED
        BY <3>2, <4>1 DEF Unpended, Tame, Requests
    <3>4. PICK S : S = {"pending", "prestart", "suspended"}
      OBVIOUS
    <3>5. PICK d : d = [b EXCEPT !.flags[t] = @ \ S]
      OBVIOUS
    <3>6. S \cap Requests = {}
      BY <3>4 DEF Requests
    <3>7. Tame(b, d) /\ d.isr = b.isr /\ Queues(d)
      BY <3>2, <3>5, <3>6, ClearTame
    <3>8. PICK e : e = ReadyThread(d, c, t)
      OBVIOUS
    <3>9. SameThreads(d, e)
      BY <3>7, <3>8, ReadyThreadSame DEF Queues
    <3>10. Tame(d, e) /\ e.isr = d.isr
      BY <3>7, <3>9, SameIsTame DEF SameThreads
    <3>11. Tame(s, e) /\ e.isr = s.isr
      BY <3>3, <3>7, <3>10, TameTrans
    <3>12. Unlock(e)
      BY <1>3, <2>2, <3>1, <3>4, <3>5, <3>8 DEF ThreadTimeout
    <3>13. QED
      BY <3>11, <3>12
  <2>3. QED
    BY <2>1, <2>2
<1>7. QED
  BY <1>1, <1>5, <1>6, UnlockActs

LEMMA AnnounceEndsHalts ==
  ASSUME HaltGround, NEW c \in CPUs, AnnounceEnds(c)
  PROVE  Acts(c)
<1>1. holder = NoHolder /\ Unlock(TimeSlice(s, c)) /\ pc' = [pc EXCEPT ![c] = Run]
  BY DEF AnnounceEnds
<1>2. PICK a : a = TimeSlice(s, c)
  OBVIOUS
<1>3. SameThreads(s, a)
  BY <1>1, <1>2, HaltGroundIs, Begins, TimeSliceOK
<1>4. Tame(s, a) /\ a.isr = s.isr
  BY <1>3, HaltGroundIs, SameIsTame DEF SameThreads
<1>5. PICK w : w = Run
  OBVIOUS
<1>6. w.op \notin {"abort", "suspend"} /\ pc' = [pc EXCEPT ![c] = w]
  BY <1>1, <1>5 DEF Run
<1>7. QED
  BY <1>1, <1>2, <1>4, <1>6, UnlockActs

LEMMA IsrExitHalts ==
  ASSUME HaltGround, NEW c \in CPUs, IsrExit(c)
  PROVE  Acts(c)
<1>1. holder = NoHolder /\ pc' = pc /\ SMP /\ HaltScope
  BY HaltGroundIs DEF IsrExit, HaltGround
<1>2. PICK a : a = [s EXCEPT !.isr[c] = FALSE]
  OBVIOUS
<1>3. Tame(s, a) /\ \A d \in CPUs \ {c} : a.isr[d] = s.isr[d]
  <2>1. PICK v \in BOOLEAN : v = FALSE
    OBVIOUS
  <2>2. Queues(s) /\ a = [s EXCEPT !.isr[c] = v]
    BY <1>2, <2>1, HaltGroundIs
  <2>3. QED
    BY <2>2, IsrTame
<1>4. HaltOK(a, pc) /\ a.cur = s.cur
  BY <1>3, HaltGroundIs, TameOK DEF Tame
<1>5. PICK n : n = NextUp(a, c)
  OBVIOUS
<1>6. /\ HaltOK(n.st, pc) /\ Lessens(a, n.st, c)
      /\ ~Halting(n.st, n.st.cur[c]) /\ n.th \in Threads \cup {Idle, Dummy}
  BY <1>1, <1>4, <1>5, NextUpHalts
<1>7. ReturnTo(c, n)
  BY <1>1, <1>2, <1>5 DEF IsrExit
<1>8. HaltsLand(n.st, c, pc)
  <2>1. CASE n.th = s.cur[c]
    <3>1. NoSwitch(c, n.st, ipi)
      BY <1>7, <2>1 DEF ReturnTo
    <3>2. QED
      BY <1>1, <1>6, <3>1, NoSwitchHalts
  <2>2. CASE n.th # s.cur[c]
    <3>1. PICK b : b = UpdateMetaIrq(n.st, c, n.th)
      OBVIOUS
    <3>2. n.st \in SchedRecs /\ Queues(n.st)
      BY <1>6 DEF HaltOK, Queues
    <3>3. Same(n.st, b)
      BY <3>1, <3>2, UpdateMetaIrqSame
    <3>4. Tame(n.st, b) /\ Lessens(n.st, b, c)
      BY <3>2, <3>3, SameIsTame
    <3>5. HaltOK(b, pc) /\ ~Halting(b, b.cur[c])
      BY <1>6, <3>3, <3>4, TameOK DEF Same, Halting
    <3>6. SwitchTo(c, b, n.th, ipi, TRUE)
      BY <1>7, <2>2, <3>1 DEF ReturnTo
    <3>7. HaltsLand(b, c, pc)
      BY <1>6, <3>5, <3>6, SwitchToHalts
    <3>8. QED
      BY <3>4, <3>7, HaltsLandFrom
  <2>3. QED
    BY <2>1, <2>2
<1>9. HaltsLand(a, c, pc)
  BY <1>6, <1>8, HaltsLandFrom
<1>10. QED
  BY <1>1, <1>3, <1>4, <1>9, LandActs

LEMMA SwitchSpinEndsHalts ==
  ASSUME HaltGround, SwitchSpinEnds
  PROVE  \E c \in CPUs : c = holder.cpu /\ Acts(c) /\ pc' = pc
<1>1. /\ holder # NoHolder /\ pc' = pc
      /\ FinishSwitch(holder.cpu, s, holder.th, ipi, holder.isr)
  BY DEF SwitchSpinEnds
<1>2. holder \in [cpu : CPUs, th : Threads \cup {Idle}, isr : BOOLEAN]
  BY <1>1, HaltGroundIs DEF SchedInv, HolderOK
<1>3. PICK c \in CPUs, t \in Threads \cup {Idle, Dummy} : c = holder.cpu /\ t = holder.th
  BY <1>2
<1>4. ~Halting(s, s.cur[c])
  BY <1>1, <1>3 DEF HaltGround, HaltInv
<1>5. FinishSwitch(c, s, t, ipi, holder.isr)
  BY <1>1, <1>3
<1>6. HaltsLand(s, c, pc)
  BY <1>4, <1>5, HaltGroundIs, FinishSwitchHalts
<1>7. Acts(c)
  BY <1>1, <1>6, LandActs
<1>8. QED
  BY <1>1, <1>3, <1>7

LEMMA SwitchDoneHalts ==
  ASSUME HaltGround, NEW c \in CPUs, s' = s, holder' = holder, pc' = pc, ops' = ops
  PROVE  Acts(c)
<1>1. Tame(s, s') /\ HaltOK(s, pc')
  BY HaltGroundIs DEF Tame
<1>2. QED
  BY <1>1, QuietActs

-----------------------------------------------------------------------------
LEMMA CallHalts ==
  ASSUME HaltGround, NEW c \in CPUs, Call(c)
  PROVE  \/ Acts(c) /\ ~Suspend(c) /\ \A u \in Threads : ~Abort(c, u)
         \/ Acts(c) /\ Goto(c, Run)
         \/ \E u \in Threads : \E kind : HaltAsked(c, u, kind)
<1>1. CASE Suspend(c)
  BY <1>1, SuspendAsks
<1>2. ASSUME NEW u \in Threads, Abort(c, u)
      PROVE  \E v \in Threads : \E kind : HaltAsked(c, v, kind)
  BY <1>2, AbortAsks
<1>3. CASE ~Suspend(c) /\ \A u \in Threads : ~Abort(c, u)
  BY <1>3, StartHalts, YieldHalts, BlockHalts, WakeFirstHalts, SleepHalts, UntimeHalts,
     WakeupHalts, PrioSetHalts, PlainHalts, TimeSliceSetHalts, JoinHalts, ReturnsHalts
     DEF Call
<1>4. QED
  BY <1>1, <1>2, <1>3

LEMMA InterruptHalts ==
  ASSUME HaltGround, NEW c \in CPUs, Interrupt(c)
  PROVE  Acts(c)
BY EnterHalts, SchedIpiHalts, SliceTimeoutHalts, ThreadExpiresHalts, ThreadTimeoutHalts,
   AnnounceEndsHalts, ReturnsHalts, IsrExitHalts DEF Interrupt

LEMMA HaltInvNext ==
  ASSUME HaltGround, [Next]_vars
  PROVE  HaltInv'
<1>1. ASSUME NEW c \in CPUs, Call(c) PROVE HaltInv'
  BY <1>1, CallHalts, AskedHalts, ActsInv
<1>2. ASSUME NEW c \in CPUs, Interrupt(c) PROVE HaltInv'
  BY <1>2, InterruptHalts, ActsInv
<1>3. ASSUME NEW c \in CPUs, SwitchDone(c) PROVE HaltInv'
  <2>1. s' = s /\ holder' = holder /\ pc' = pc /\ ops' = ops
    BY <1>3, HistoryOps DEF SwitchDone
  <2>2. QED
    BY <2>1, SwitchDoneHalts, ActsInv
<1>4. CASE SwitchSpinEnds
  BY <1>4, SwitchSpinEndsHalts, ActsInv
<1>5. CASE UNCHANGED vars
  <2>1. s' = s /\ holder' = holder /\ pc' = pc /\ ops' = ops
    BY <1>5 DEF vars, kernelVars
  <2>2. PICK c \in CPUs : TRUE
    BY SchedAssumption
  <2>3. QED
    BY <2>1, SwitchDoneHalts, ActsInv
<1>6. QED
  BY <1>1, <1>2, <1>3, <1>4, <1>5 DEF Next

LEMMA HaltInvInit ==
  ASSUME CallsAreSafe, Init
  PROVE  HaltInv
<1>1. PICK m \in Threads :
        /\ s.flags = [t \in Threads |-> IF t = m THEN {} ELSE {"prestart"}]
        /\ s.waitq = [w \in Waits |-> <<>>]
        /\ holder = NoHolder /\ pc = [x \in Threads \cup CPUs |-> Run]
  BY DEF Init
<1>2. s \in SchedRecs
  BY SchedInvInit DEF SchedInv, RecOK
<1>3. \A w \in Waits : NoDup(s.waitq[w]) /\ \A t \in Threads : ~In(s.waitq[w], t)
  BY <1>1 DEF In, NoDup
<1>4. \A y \in Threads \cup CPUs : pc[y].op = "run"
  BY <1>1 DEF Run
<1>5. \A u \in Threads : s.flags[u] \in {{}, {"prestart"}}
  BY <1>1
<1>6. \A u \in Threads : RequestOK(s, u)
  <2>1. \A u \in Threads : ~Halting(s, u) /\ "suspending" \notin s.flags[u]
                           /\ "aborting" \notin s.flags[u]
    BY <1>5, HaltingIs
  <2>2. QED
    BY <2>1 DEF RequestOK
<1>7. Told(pc)
  BY <1>4 DEF Told
<1>8. WaitersOK(s, pc)
  BY <1>3, WaitsOf DEF WaitersOK
<1>9. QED
  BY <1>1, <1>2, <1>3, <1>6, <1>7, <1>8 DEF HaltInv, HaltOK, Queues

LEMMA HaltInvReleases ==
  ASSUME HaltInv PROVE HaltersAreReleased
<1>1. SUFFICES ASSUME NEW t \in Threads, NEW u \in Threads
               PROVE  /\ Waiting(t, <<"halt", u>>) =>
                           "suspending" \in s.flags[u] /\ RunsOn(u) # {}
                      /\ Waiting(t, <<"join", u>>) /\ pc[t] = At("abort", u) =>
                           "aborting" \in s.flags[u] /\ RunsOn(u) # {}
  BY DEF HaltersAreReleased
<1>2. Halting(s, u) => RunsOn(u) # {}
  BY DEF HaltInv, HaltOK, RequestOK, RunsOn
<1>3. /\ In(s.waitq[<<"halt", u>>], t) => "suspending" \in s.flags[u]
      /\ In(s.waitq[<<"join", u>>], t) /\ pc[t] = At("abort", u) =>
           "aborting" \in s.flags[u]
  BY DEF HaltInv, HaltOK, WaitersOK
<1>4. QED
  BY <1>2, <1>3, HaltingIs DEF Waiting, In

HaltAll == SchedInv /\ HaltInv

LEMMA HaltInvariant ==
  ASSUME SMP, CallsAreSafe, HaltsAreSafe
  PROVE  Spec => []HaltAll
<1>1. Init => HaltAll
  BY SchedInvInit, HaltInvInit DEF HaltAll
<1>2. ASSUME HaltAll, [Next]_vars PROVE HaltAll'
  <2>1. HaltGround
    BY <1>2 DEF HaltAll, HaltGround, HaltScope, SchedInv
  <2>2. SchedInv' /\ HaltInv'
    BY <1>2, <2>1, SchedInvNext, HaltInvNext DEF HaltAll
  <2>3. QED
    BY <2>2 DEF HaltAll
<1>3. QED
  BY <1>1, <1>2, PTL DEF Spec

(* "it will halt itself in the IPI" (z_thread_halt, sched.c): on SMP,      *)
(* whoever waits for a thread to be suspended, or to die because it asked  *)
(* so, waits for a thread that still runs on some CPU and still carries    *)
(* the request, whatever interleaves, in applications that keep apart the  *)
(* calls CallsAreSafe and HaltsAreSafe name.                               *)
THEOREM SchedHaltersReleased ==
  ASSUME SMP, CallsAreSafe, HaltsAreSafe
  PROVE  Spec => []HaltersAreReleased
<1>1. HaltAll => HaltersAreReleased
  BY HaltInvReleases DEF HaltAll
<1>2. QED
  BY <1>1, HaltInvariant, PTL

-----------------------------------------------------------------------------
(* Interrupts that spin.  One that does is still there, and not for its    *)
(* own thread; two do not spin for each other.                             *)

SpinOK(c) ==
  pc[c].op = "spin" =>
    s.isr[c] /\ holder.cpu # c /\ pc[c].th \in Threads /\ s.cur[c] # pc[c].th

Crossed(c, d) ==
  Stuck(c) /\ Stuck(d) /\ s.cur[d] = pc[c].th /\ s.cur[c] = pc[d].th

SpinInv ==
  /\ \A c \in CPUs : SpinOK(c)
  /\ \A c, d \in CPUs : ~Crossed(c, d)

TwoCPUs == \A c, d, e \in CPUs : c = d \/ d = e \/ c = e

(* A step of c after which c does not spin. *)
Quiet(c) == \A d \in CPUs : pc'[d].op = "spin" => d # c /\ pc'[d] = pc[d]

LEMMA QuietSpinOK ==
  ASSUME SpinInv, NEW c \in CPUs, Acts(c), NEW d \in CPUs, d # c, pc'[d] = pc[d]
  PROVE  SpinOK(d)'
<1>1. SUFFICES ASSUME pc'[d].op = "spin"
               PROVE  /\ s'.isr[d] /\ holder'.cpu # d /\ pc'[d].th \in Threads
                      /\ s'.cur[d] # pc'[d].th
  BY DEF SpinOK
<1>2. s.isr[d] /\ holder.cpu # d /\ pc[d].th \in Threads /\ s.cur[d] # pc[d].th
  BY <1>1 DEF SpinInv, SpinOK
<1>3. s'.cur[d] = s.cur[d] /\ s'.isr[d] = s.isr[d]
  BY DEF Acts
<1>4. holder'.cpu # d
  <2>1. NoHolder.cpu # d
    BY SchedTypes DEF NoHolder
  <2>2. QED
    BY <1>2, <2>1 DEF Acts
<1>5. QED
  BY <1>2, <1>3, <1>4

LEMMA QuietSpins ==
  ASSUME TwoCPUs, SpinInv, NEW c \in CPUs, Acts(c), Quiet(c)
  PROVE  SpinInv'
<1>1. ASSUME NEW d \in CPUs PROVE SpinOK(d)'
  <2>1. CASE pc'[d].op # "spin"
    BY <2>1 DEF SpinOK
  <2>2. CASE pc'[d].op = "spin"
    BY <2>2, QuietSpinOK DEF Quiet
  <2>3. QED
    BY <2>1, <2>2
<1>2. ASSUME NEW d \in CPUs, NEW e \in CPUs, Crossed(d, e)' PROVE FALSE
  <2>1. /\ pc'[d].op = "spin" /\ pc'[e].op = "spin" /\ s'.cur[e] = pc'[d].th
    BY <1>2 DEF Crossed, Stuck
  <2>2. d # c /\ e # c
    BY <2>1 DEF Quiet
  <2>3. d = e
    BY <2>2 DEF TwoCPUs
  <2>4. s'.cur[d] # pc'[d].th
    BY <1>1, <2>1 DEF SpinOK
  <2>5. QED
    BY <2>1, <2>3, <2>4
<1>3. QED
  BY <1>1, <1>2 DEF SpinInv

(* The other CPU cannot be waiting for the thread c has just halted. *)
LEMMA AskedSpins ==
  ASSUME TwoCPUs, SchedInv, SpinInv, NEW c \in CPUs, NEW u \in Threads, Acts(c),
         SpinsFor(c, u)
  PROVE  SpinInv'
<1>1. \A d \in CPUs : pc'[d] = IF d = c THEN At("spin", u) ELSE pc[d]
  BY DEF SpinsFor, SchedInv, CallsOK
<1>2. pc'[c].th = u
  BY <1>1 DEF At
<1>3. NoHolder.cpu # c /\ Dummy # u
  BY SchedTypes DEF NoHolder
<1>4. ASSUME NEW d \in CPUs PROVE SpinOK(d)'
  <2>1. CASE d = c
    BY <1>2, <1>3, <2>1 DEF SpinOK, SpinsFor
  <2>2. CASE d # c
    BY <1>1, <2>2, QuietSpinOK
  <2>3. QED
    BY <2>1, <2>2
<1>5. ASSUME NEW d \in CPUs, NEW e \in CPUs, Crossed(d, e)' PROVE FALSE
  <2>1. /\ pc'[d].op = "spin" /\ pc'[e].op = "spin" /\ s'.cur[e] = pc'[d].th
        /\ s'.cur[d] = pc'[e].th
        /\ Halting(s', pc'[d].th) /\ Halting(s', pc'[e].th)
    BY <1>5 DEF Crossed, Stuck, Halting
  <2>2. s'.cur[d] # pc'[d].th
    BY <1>4, <2>1 DEF SpinOK
  <2>3. d # e
    BY <2>1, <2>2
  <2>4. d = c \/ e = c
    BY <2>3 DEF TwoCPUs
  <2>5. ~Halting(s', s'.cur[c])
    BY DEF SpinsFor
  <2>6. QED
    BY <2>1, <2>4, <2>5
<1>6. QED
  BY <1>4, <1>5 DEF SpinInv

(* What the steps do to pc. *)
NotSpinning(c) == s.isr[c] => pc[c].op # "spin"

Moves(c) ==
  \/ pc' = pc /\ NotSpinning(c)
  \/ \E o \in CallOps \ {"spin"}, t \in Threads \cup {None} :
       \/ Goto(c, At(o, t)) /\ Ctx(c) \in Threads \cup CPUs
       \/ pc' = [pc EXCEPT ![c] = At(o, t)]

LEMMA MovesQuiet ==
  ASSUME SchedInv, SpinInv, NEW c \in CPUs, Moves(c)
  PROVE  Quiet(c)
<1>1. pc \in [Threads \cup CPUs -> [op : CallOps, th : Threads \cup {None}]]
  BY DEF SchedInv, CallsOK
<1>2. CASE pc' = pc /\ NotSpinning(c)
  <2>1. pc[c].op # "spin"
    BY <1>2 DEF NotSpinning, SpinInv, SpinOK
  <2>2. QED
    BY <1>2, <2>1 DEF Quiet
<1>3. ASSUME NEW o \in CallOps \ {"spin"}, NEW t \in Threads \cup {None},
             pc' = [pc EXCEPT ![c] = At(o, t)]
      PROVE  Quiet(c)
  <2>1. \A d \in CPUs : pc'[d] = IF d = c THEN At(o, t) ELSE pc[d]
    BY <1>1, <1>3
  <2>2. QED
    BY <2>1 DEF Quiet, At
<1>4. ASSUME NEW o \in CallOps \ {"spin"}, NEW t \in Threads \cup {None},
             Goto(c, At(o, t)), Ctx(c) \in Threads \cup CPUs
      PROVE  Quiet(c)
  <2>1. CASE s.isr[c]
    <3>1. pc' = [pc EXCEPT ![c] = At(o, t)]
      BY <1>4, <2>1 DEF Goto, Ctx
    <3>2. QED
      BY <1>3, <3>1
  <2>2. CASE ~s.isr[c]
    <3>1. pc[c].op # "spin"
      BY <2>2 DEF SpinInv, SpinOK
    <3>2. Ctx(c) \notin CPUs
      <4>1. s.cur[c] \in Threads \cup {Idle, Dummy}
        BY DEF SchedInv, RecOK, SchedRecs
      <4>2. QED
        BY <2>2, <4>1, SchedTypes, SchedAssumption DEF Ctx
    <3>3. \A d \in CPUs : pc'[d] = pc[d]
      BY <1>1, <1>4, <3>2 DEF Goto
    <3>4. QED
      BY <3>1, <3>3 DEF Quiet
  <2>3. QED
    BY <2>1, <2>2
<1>5. QED
  BY <1>2, <1>3, <1>4 DEF Moves

LEMMA RunMoves ==
  ASSUME NEW c \in CPUs, Goto(c, Run), Ctx(c) \in Threads \cup CPUs
  PROVE  Moves(c)
<1>1. Goto(c, At("run", None)) /\ "run" \in CallOps \ {"spin"}
  BY DEF Goto, Run, At, CallOps
<1>2. QED
  BY <1>1 DEF Moves

LEMMA CallsNotSpinning ==
  ASSUME NEW c \in CPUs, NEW op, Calls(c, op) \/ ThreadCalls(c, op)
  PROVE  NotSpinning(c) /\ Ctx(c) \in Threads \cup CPUs
BY DEF ThreadCalls, Calls, Ctx, NotSpinning, Run

LEMMA CallMoves ==
  ASSUME NEW c \in CPUs, Call(c), ~Suspend(c), \A u \in Threads : ~Abort(c, u)
  PROVE  Moves(c)
<1>1. CASE \/ \E u \in Threads : Start(c, u)
           \/ Yield(c) \/ Block(c) \/ WakeFirst(c) \/ Sleep(c) \/ SchedLock(c)
           \/ \E on \in BOOLEAN : TimeSliceSet(c, on)
           \/ \E u \in Threads, m \in Masks : CpuMaskMod(c, u, m)
           \/ \E u \in Threads : Resume(c, u)
  <2>1. pc' = pc /\ \E op : Calls(c, op) \/ ThreadCalls(c, op)
    BY <1>1 DEF Start, Yield, Block, WakeFirst, Sleep, SchedLock, TimeSliceSet,
                CpuMaskMod, Resume
  <2>2. QED
    BY <2>1, CallsNotSpinning DEF Moves
<1>2. CASE Wakeup(c) \/ ReschedUnlocked(c) \/ HaltOrJoinReturns(c)
  <2>1. Goto(c, Run) /\ Ctx(c) \in Threads \cup CPUs
    BY <1>2 DEF Wakeup, ReschedUnlocked, HaltOrJoinReturns, Ctx
  <2>2. QED
    BY <2>1, RunMoves
<1>3. ASSUME NEW u \in Threads, WakeupBegin(c, u) \/ SuspendBegin(c, u) \/ Join(c, u)
      PROVE  Moves(c)
  <2>1. PICK o \in {"wakeup", "suspend", "join"} : Goto(c, At(o, u))
    BY <1>3 DEF WakeupBegin, SuspendBegin, Join
  <2>2. \E op : Calls(c, op) \/ ThreadCalls(c, op)
    BY <1>3 DEF WakeupBegin, SuspendBegin, Join
  <2>3. Ctx(c) \in Threads \cup CPUs /\ o \in CallOps \ {"spin"}
    BY <2>2, CallsNotSpinning DEF CallOps
  <2>4. QED
    BY <2>1, <2>3 DEF Moves
<1>4. CASE SchedUnlock(c) \/ \E u \in PrioTargets, p \in NewPrios : PrioSet(c, u, p)
  <2>1. pc' = pc \/ Goto(c, At("resched", None))
    BY <1>4 DEF SchedUnlock, PrioSet
  <2>2. \E op : ThreadCalls(c, op)
    BY <1>4 DEF SchedUnlock, PrioSet
  <2>3. NotSpinning(c) /\ Ctx(c) \in Threads \cup CPUs /\ "resched" \in CallOps \ {"spin"}
    BY <2>2, CallsNotSpinning DEF CallOps
  <2>4. QED
    BY <2>1, <2>3 DEF Moves
<1>5. QED
  BY <1>1, <1>2, <1>3, <1>4 DEF Call

LEMMA InterruptMoves ==
  ASSUME NEW c \in CPUs, Interrupt(c)
  PROVE  Moves(c)
<1>1. CASE SchedIpi(c) \/ IsrExit(c) \/ \E d \in CPUs : SliceTimeout(c, d)
  <2>1. pc' = pc
    BY <1>1 DEF SchedIpi, IsrExit, SliceTimeout
  <2>2. ~s.isr[c] \/ pc[c] = Run \/ pc[c].op = "announce"
    BY <1>1 DEF SchedIpi, IsrExit, SliceTimeout, Interruptible
  <2>3. NotSpinning(c)
    BY <2>2 DEF NotSpinning, Run
  <2>4. QED
    BY <2>1, <2>3 DEF Moves
<1>2. CASE SpinReturns(c)
  <2>1. Goto(c, Run) /\ Ctx(c) \in Threads \cup CPUs
    BY <1>2 DEF SpinReturns, Ctx
  <2>2. QED
    BY <2>1, RunMoves
<1>3. CASE DeviceIrq(c) \/ AnnounceEnds(c)
  <2>1. pc' = [pc EXCEPT ![c] = Run] /\ Run = At("run", None)
    BY <1>3 DEF DeviceIrq, Enter, AnnounceEnds, Run, At
  <2>2. QED
    BY <2>1 DEF Moves, CallOps
<1>4. CASE TimerIrq(c) \/ ThreadTimeout(c)
  <2>1. pc' = [pc EXCEPT ![c] = At("announce", None)]
    BY <1>4 DEF TimerIrq, Enter, ThreadTimeout
  <2>2. QED
    BY <2>1 DEF Moves, CallOps
<1>5. ASSUME NEW t \in Threads, ThreadExpires(c, t) PROVE Moves(c)
  <2>1. pc' = [pc EXCEPT ![c] = At("fire", t)]
    BY <1>5 DEF ThreadExpires
  <2>2. QED
    BY <2>1 DEF Moves, CallOps
<1>6. QED
  BY <1>1, <1>2, <1>3, <1>4, <1>5 DEF Interrupt

LEMMA SpinInvNext ==
  ASSUME TwoCPUs, HaltGround, SpinInv, [Next]_vars
  PROVE  SpinInv'
<1>1. SchedInv
  BY HaltGroundIs
<1>2. ASSUME NEW c \in CPUs, Acts(c), Moves(c) PROVE SpinInv'
  BY <1>1, <1>2, MovesQuiet, QuietSpins
<1>3. ASSUME NEW c \in CPUs, Call(c) PROVE SpinInv'
  <2>1. CASE Acts(c) /\ ~Suspend(c) /\ \A u \in Threads : ~Abort(c, u)
    BY <1>2, <1>3, <2>1, CallMoves
  <2>2. CASE Acts(c) /\ Goto(c, Run) /\ Ctx(c) \in Threads \cup CPUs
    BY <1>2, <2>2, RunMoves
  <2>3. ASSUME NEW u \in Threads, NEW kind, HaltAsked(c, u, kind) PROVE SpinInv'
    <3>1. /\ Acts(c) /\ Ctx(c) \in Threads \cup CPUs
          /\ SpinsFor(c, u) \/ Goto(c, Run) \/ (~s.isr[c] /\ \A d \in CPUs : pc'[d] = pc[d])
      BY <2>3, AskedHalts DEF HaltAsked
    <3>2. CASE SpinsFor(c, u)
      BY <1>1, <3>1, <3>2, AskedSpins
    <3>3. CASE Goto(c, Run)
      BY <1>2, <3>1, <3>3, RunMoves
    <3>4. CASE ~s.isr[c] /\ \A d \in CPUs : pc'[d] = pc[d]
      <4>1. Quiet(c)
        BY <3>4 DEF Quiet, SpinInv, SpinOK
      <4>2. QED
        BY <3>1, <4>1, QuietSpins
    <3>5. QED
      BY <3>1, <3>2, <3>3, <3>4
  <2>4. Suspend(c) => Ctx(c) \in Threads \cup CPUs
    BY DEF Suspend
  <2>5. \A u \in Threads : Abort(c, u) => HaltAsked(c, u, "dead")
    BY AbortAsks
  <2>6. QED
    BY <1>3, <2>1, <2>2, <2>3, <2>4, <2>5, CallHalts
<1>4. ASSUME NEW c \in CPUs, Interrupt(c) PROVE SpinInv'
  BY <1>2, <1>4, InterruptHalts, InterruptMoves
<1>5. ASSUME s' = s, holder' = holder, pc' = pc PROVE SpinInv'
  BY <1>5 DEF SpinInv, SpinOK, Crossed, Stuck, Halting
<1>6. ASSUME NEW c \in CPUs, SwitchDone(c) PROVE SpinInv'
  BY <1>5, <1>6 DEF SwitchDone
<1>7. CASE SwitchSpinEnds
  <2>1. PICK c \in CPUs : c = holder.cpu /\ Acts(c) /\ pc' = pc
    BY <1>7, SwitchSpinEndsHalts
  <2>2. pc[c].op # "spin"
    BY <2>1 DEF SpinInv, SpinOK
  <2>3. Quiet(c)
    BY <2>1, <2>2 DEF Quiet
  <2>4. QED
    BY <2>1, <2>3, QuietSpins
<1>8. CASE UNCHANGED vars
  BY <1>5, <1>8 DEF vars, kernelVars
<1>9. QED
  BY <1>3, <1>4, <1>6, <1>7, <1>8 DEF Next

LEMMA SpinInvInit ==
  ASSUME Init PROVE SpinInv
<1>1. pc = [x \in Threads \cup CPUs |-> Run]
  BY DEF Init
<1>2. \A c \in CPUs : pc[c].op = "run"
  BY <1>1 DEF Run
<1>3. QED
  BY <1>2 DEF SpinInv, SpinOK, Crossed, Stuck

LEMMA SpinInvEnds ==
  ASSUME TwoCPUs, HaltInv, SpinInv
  PROVE  HaltSpinsEnd
<1>1. SUFFICES ASSUME NEW c \in CPUs, Stuck(c)
               PROVE  \E d \in RunsOn(pc[c].th) : ~Stuck(d)
  BY DEF HaltSpinsEnd
<1>2. ASSUME NEW d \in CPUs, Stuck(d)
      PROVE  \E e \in CPUs : s.cur[e] = pc[d].th /\ e # d
  <2>1. pc[d].th \in Threads /\ Halting(s, pc[d].th) /\ s.cur[d] # pc[d].th
    BY <1>2 DEF Stuck, SpinInv, SpinOK
  <2>2. QED
    BY <2>1 DEF HaltInv, HaltOK, RequestOK
<1>3. PICK d \in CPUs : s.cur[d] = pc[c].th /\ d # c
  BY <1>1, <1>2
<1>4. ASSUME Stuck(d) PROVE FALSE
  <2>1. PICK e \in CPUs : s.cur[e] = pc[d].th /\ e # d
    BY <1>2, <1>4
  <2>2. e = c
    BY <1>3, <2>1 DEF TwoCPUs
  <2>3. QED
    BY <1>1, <1>3, <1>4, <2>1, <2>2 DEF SpinInv, Crossed
<1>5. QED
  BY <1>3, <1>4 DEF RunsOn

(* Two interrupts that abort or suspend each other's threads do not spin   *)
(* for each other forever: on two CPUs, the thread a stuck handler waits   *)
(* for runs on the CPU that is not stuck, because a handler halts its own  *)
(* thread before it spins: thread_halt_spin (sched.c:425) does so "to      *)
(* prevent simple deadlocks (but not complex ones involving cycles of 3+   *)
(* threads!)", hence TwoCPUs.                                              *)
THEOREM SchedSpinsEnd ==
  ASSUME SMP, TwoCPUs, CallsAreSafe, HaltsAreSafe
  PROVE  Spec => []HaltSpinsEnd
<1>1. Init => SpinInv
  BY SpinInvInit
<1>2. ASSUME HaltAll, SpinInv, [Next]_vars PROVE SpinInv'
  <2>1. HaltGround
    BY <1>2 DEF HaltAll, HaltGround, HaltScope, SchedInv
  <2>2. QED
    BY <1>2, <2>1, SpinInvNext
<1>3. HaltAll /\ SpinInv => HaltSpinsEnd
  BY SpinInvEnds DEF HaltAll
<1>4. QED
  BY <1>1, <1>2, <1>3, HaltInvariant, PTL DEF Spec

=============================================================================
