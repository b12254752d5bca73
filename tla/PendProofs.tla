----------------------------- MODULE PendProofs -----------------------------
(***************************************************************************)
(* Facts about wait queues and the thread states of module Pend, for every *)
(* set of threads, queues and priorities, on one CPU and on several.       *)
(***************************************************************************)
EXTENDS Pend, TLAPS, WellFoundedInduction, SequenceTheorems

(* A set of naturals that is not empty has a least element. *)
LEMMA MinOfNaturals ==
  ASSUME NEW S \in SUBSET Nat, S # {}
  PROVE  Min(S) \in S /\ \A k \in S : Min(S) =< k
<1>1. \E m \in S : \A k \in S : ~ (<<k, m>> \in OpToRel(<, Nat))
  BY NatLessThanWellFounded, WFMin
<1>2. PICK m \in S : \A k \in S : ~ (<<k, m>> \in OpToRel(<, Nat))
  BY <1>1
<1>3. \A k \in S : m =< k
  <2>1. TAKE k \in S
  <2>2. <<k, m>> \in Nat \X Nat
    OBVIOUS
  <2>3. ~ (k < m)
    BY <1>2, <2>2 DEF OpToRel
  <2>4. QED
    BY <2>3
<1>4. QED
  BY <1>3 DEF Min

(* r is q with t inserted at position k. *)
IsInsert(r, q, t, k) ==
  /\ r \in Seq(Threads)
  /\ Len(r) = Len(q) + 1
  /\ \A i \in 1..(k - 1) : r[i] = q[i]
  /\ r[k] = t
  /\ \A i \in k..Len(q) : r[i + 1] = q[i]

(* r is q with t, at position k, removed. *)
IsRemove(r, q, t, k) ==
  /\ q[k] = t
  /\ r \in Seq(Threads)
  /\ Len(r) = Len(q) - 1
  /\ \A i \in 1..(k - 1) : r[i] = q[i]
  /\ \A i \in k..(Len(q) - 1) : r[i] = q[i + 1]

(* Position k of q is where t belongs: nobody before it has a lower        *)
(* priority, and the thread that is there now, if any, does.               *)
Belongs(q, t, p, k) ==
  /\ \A i \in 1..(k - 1) : p[q[i]] <= p[t]
  /\ k <= Len(q) => p[t] <= p[q[k]]

(* z_priq_dumb_add keeps the order of the threads already queued and puts  *)
(* the new one in the one place where it belongs.                          *)
LEMMA PriqAddFacts ==
  ASSUME NEW q \in Seq(Threads), NEW t \in Threads, NEW p \in [Threads -> Prios]
  PROVE  \E k \in 1..(Len(q) + 1) :
           IsInsert(PriqAdd(q, t, p), q, t, k) /\ Belongs(q, t, p, k)
<1> DEFINE k == PriqPos(q, t, p)
<1>0. /\ \A u \in Threads : p[u] \in Int
      /\ \A i \in 1..Len(q) : q[i] \in Threads
      /\ Len(q) \in Nat
  <2>1. \A u \in Threads : p[u] \in Int
    BY PendAssumption
  <2>2. QED
    BY <2>1
<1>b. Belongs(q, t, p, k)
  <2>1. LowerPrio(q, t, p) \in SUBSET Nat
    BY DEF LowerPrio
  <2>2. CASE LowerPrio(q, t, p) = {}
    <3>1. k = Len(q) + 1
      BY <2>2 DEF PriqPos
    <3>2. \A i \in 1..Len(q) : p[q[i]] <= p[t]
      BY <1>0, <2>2 DEF LowerPrio
    <3>3. QED
      BY <1>0, <3>1, <3>2 DEF Belongs
  <2>3. CASE LowerPrio(q, t, p) # {}
    <3>1. k = Min(LowerPrio(q, t, p))
      BY <2>3 DEF PriqPos
    <3>2. k \in LowerPrio(q, t, p) /\ \A i \in LowerPrio(q, t, p) : k <= i
      BY <2>1, <2>3, <3>1, MinOfNaturals
    <3> HIDE DEF k
    <3>3. k \in 1..Len(q) /\ p[t] < p[q[k]]
      BY <3>2 DEF LowerPrio
    <3>4. \A i \in 1..(k - 1) : i \in 1..Len(q) /\ i \notin LowerPrio(q, t, p)
      BY <1>0, <3>2, <3>3
    <3>5. \A i \in 1..(k - 1) : p[q[i]] <= p[t]
      BY <1>0, <3>4 DEF LowerPrio
    <3>6. QED
      BY <1>0, <3>3, <3>5 DEF Belongs
  <2>4. QED
    BY <2>2, <2>3
<1>1. k \in 1..(Len(q) + 1)
  <2>1. LowerPrio(q, t, p) \in SUBSET Nat /\ LowerPrio(q, t, p) \subseteq 1..Len(q)
    BY DEF LowerPrio
  <2>2. CASE LowerPrio(q, t, p) = {}
    BY <2>2 DEF PriqPos
  <2>3. CASE LowerPrio(q, t, p) # {}
    <3>1. Min(LowerPrio(q, t, p)) \in LowerPrio(q, t, p)
      BY <2>1, <2>3, MinOfNaturals
    <3>2. k \in 1..Len(q)
      BY <2>1, <2>3, <3>1 DEF PriqPos
    <3>3. QED
      BY <3>2
  <2>4. QED
    BY <2>2, <2>3
<1> HIDE DEF k
<1> DEFINE a == SubSeq(q, 1, k - 1)
           b == SubSeq(q, k, Len(q))
<1>2. /\ a \in Seq(Threads) /\ Len(a) = k - 1
      /\ \A i \in 1..(k - 1) : a[i] = q[i]
  BY <1>1, SubSeqProperties
<1>3. /\ b \in Seq(Threads) /\ Len(b) = Len(q) - k + 1
      /\ \A i \in 1..(Len(q) - k + 1) : b[i] = q[k + i - 1]
  BY <1>1, SubSeqProperties
<1>4. PriqAdd(q, t, p) = (a \o <<t>>) \o b
  BY DEF PriqAdd, InsertAt, k
<1> HIDE DEF a, b
<1>5. /\ a \o <<t>> \in Seq(Threads)
      /\ Len(a \o <<t>>) = k
      /\ \A i \in 1..(k - 1) : (a \o <<t>>)[i] = q[i]
      /\ (a \o <<t>>)[k] = t
  BY <1>1, <1>2
<1> DEFINE c == a \o <<t>>
<1> HIDE DEF c
<1>6a. c \in Seq(Threads) /\ Len(c) = k
  BY <1>5 DEF c
<1>6. /\ c \o b \in Seq(Threads)
      /\ Len(c \o b) = Len(q) + 1
      /\ \A i \in 1..k : (c \o b)[i] = c[i]
      /\ \A i \in k..Len(q) : (c \o b)[i + 1] = q[i]
  <2>1. /\ c \o b \in Seq(Threads)
        /\ Len(c \o b) = k + Len(b)
        /\ \A i \in 1..(k + Len(b)) :
             (c \o b)[i] = IF i <= k THEN c[i] ELSE b[i - k]
    BY <1>3, <1>6a, ConcatProperties
  <2>2. \A i \in k..Len(q) : (c \o b)[i + 1] = b[i + 1 - k]
    BY <1>1, <1>3, <2>1
  <2>3. \A i \in k..Len(q) : b[i + 1 - k] = q[i]
    BY <1>1, <1>3
  <2>4. QED
    BY <1>1, <1>3, <2>1, <2>2, <2>3
<1>7. QED
  <2>1. PriqAdd(q, t, p) = c \o b
    BY <1>4 DEF c
  <2>2. \A i \in 1..(k - 1) : c[i] = q[i]
    BY <1>5 DEF c
  <2>3. c[k] = t
    BY <1>5 DEF c
  <2>4. /\ PriqAdd(q, t, p) \in Seq(Threads)
        /\ Len(PriqAdd(q, t, p)) = Len(q) + 1
        /\ \A i \in k..Len(q) : PriqAdd(q, t, p)[i + 1] = q[i]
    BY <1>6, <2>1
  <2>5. \A i \in 1..(k - 1) : PriqAdd(q, t, p)[i] = q[i]
    BY <1>1, <1>6, <2>1, <2>2
  <2>6. PriqAdd(q, t, p)[k] = t
    <3>1. k \in 1..k
      BY <1>1
    <3>2. (c \o b)[k] = c[k]
      BY <1>6, <3>1
    <3>3. QED
      BY <2>1, <2>3, <3>2
  <2>7. QED
    BY <1>1, <1>b, <2>4, <2>5, <2>6 DEF IsInsert

(* Removing a queued thread closes the gap and moves nobody else. *)
LEMMA PriqRemoveFacts ==
  ASSUME NEW q \in Seq(Threads), NEW t, \E i \in 1..Len(q) : q[i] = t
  PROVE  \E k \in 1..Len(q) : IsRemove(PriqRemove(q, t), q, t, k)
<1> DEFINE k == CHOOSE i \in 1..Len(q) : q[i] = t
<1>1. k \in 1..Len(q) /\ q[k] = t
  OBVIOUS
<1> HIDE DEF k
<1> DEFINE a == SubSeq(q, 1, k - 1)
           b == SubSeq(q, k + 1, Len(q))
<1>2. /\ a \in Seq(Threads) /\ Len(a) = k - 1
      /\ \A i \in 1..(k - 1) : a[i] = q[i]
  BY <1>1, SubSeqProperties
<1>3. /\ b \in Seq(Threads) /\ Len(b) = Len(q) - k
      /\ \A i \in 1..(Len(q) - k) : b[i] = q[k + i]
  BY <1>1, SubSeqProperties
<1>4. PriqRemove(q, t) = a \o b
  BY DEF PriqRemove, RemoveAt, k
<1> HIDE DEF a, b
<1>5. /\ a \o b \in Seq(Threads)
      /\ Len(a \o b) = Len(q) - 1
      /\ \A i \in 1..(k - 1) : (a \o b)[i] = a[i]
      /\ \A i \in k..(Len(q) - 1) : (a \o b)[i] = b[i - k + 1]
  <2>1. /\ a \o b \in Seq(Threads)
        /\ Len(a \o b) = Len(a) + Len(b)
        /\ \A i \in 1..(Len(a) + Len(b)) :
             (a \o b)[i] = IF i <= Len(a) THEN a[i] ELSE b[i - Len(a)]
    BY <1>2, <1>3, ConcatProperties
  <2>2. QED
    BY <1>1, <1>2, <1>3, <2>1
<1>6. \A i \in k..(Len(q) - 1) : b[i - k + 1] = q[i + 1]
  BY <1>1, <1>3
<1>7. QED
  BY <1>1, <1>2, <1>4, <1>5, <1>6 DEF IsRemove

-----------------------------------------------------------------------------
(* One lemma per action of Pend: it keeps PendInv, under the conditions    *)
(* its callers guarantee.                                                  *)

LEMMA PendInitInv == PendInit => PendInv
BY PendAssumption DEF PendInit, PendInv, PendTypeOK, QueueMatchesState,
     RunnableIsFree, RetVals

(* What pends need not be able to run: it may be a mailbox descriptor's    *)
(* dummy thread.                                                           *)
LEMMA PendAnyInv ==
  ASSUME PendInv, NEW t \in Threads, NEW w \in WaitQs, NEW fv \in BOOLEAN,
         pendedOn[t] = None, halted[t] # "dead", PendCurr(t, w, fv)
  PROVE  PendInv'
<1> USE PendAssumption
<1> DEFINE q == waitq[w]
           r == PriqAdd(q, t, prio)
<1>0. PendTypeOK /\ QueueMatchesState /\ RunnableIsFree
  BY DEF PendInv
<1>1. q \in Seq(Threads)
  BY <1>0 DEF PendTypeOK
<1>2. PICK k \in 1..(Len(q) + 1) : IsInsert(r, q, t, k)
  <2>1. prio \in [Threads -> Prios]
    BY <1>0 DEF PendTypeOK
  <2>2. QED
    BY <1>1, <2>1, PriqAddFacts
<1>2a. /\ r \in Seq(Threads)
       /\ Len(r) = Len(q) + 1
       /\ \A i \in 1..(k - 1) : r[i] = q[i]
       /\ r[k] = t
       /\ \A i \in k..Len(q) : r[i + 1] = q[i]
  BY <1>2 DEF IsInsert
<1>3. Len(q) \in Nat
  BY <1>1
<1>4. waitq' = [waitq EXCEPT ![w] = r] /\ waitq'[w] = r
  BY <1>0 DEF PendCurr, PendTypeOK
<1> HIDE DEF r, q
<1>5. PendTypeOK'
  BY <1>0, <1>2, <1>2a, <1>4 DEF PendCurr, PendTypeOK, RetVals
<1>6. RunnableIsFree'
  BY <1>0 DEF PendCurr, PendTypeOK, RunnableIsFree
<1>7. pendedOn[t] = None /\ pendedOn' = [pendedOn EXCEPT ![t] = w]
  BY <1>0 DEF PendCurr, RunnableIsFree
<1>8. \A i \in 1..Len(q) : q[i] \in Threads /\ q[i] # t /\ pendedOn[q[i]] = w
  BY <1>0, <1>1, <1>7 DEF QueueMatchesState, q
<1>9. \A i \in 1..Len(r) :
        \/ i \in 1..(k - 1) /\ r[i] = q[i] /\ i \in 1..Len(q)
        \/ i = k /\ r[i] = t
        \/ i - 1 \in k..Len(q) /\ r[i] = q[i - 1] /\ i - 1 \in 1..Len(q)
  <2>1. TAKE i \in 1..Len(r)
  <2>2. CASE i < k
    BY <1>2, <1>2a, <1>3, <2>2
  <2>3. CASE i = k
    BY <1>2, <1>2a, <1>3, <2>3
  <2>4. CASE i > k
    <3>1. i - 1 \in k..Len(q) /\ i - 1 \in 1..Len(q) /\ (i - 1) + 1 = i
      BY <1>2, <1>2a, <1>3, <2>4
    <3>2. QED
      BY <1>2, <1>2a, <3>1
  <2>5. QED
    BY <1>2, <1>2a, <1>3, <2>2, <2>3, <2>4
<1>10. \A v \in WaitQs : \A i \in 1..Len(waitq'[v]) : pendedOn'[waitq'[v][i]] = v
  <2>1. ASSUME NEW v \in WaitQs, v # w, NEW i \in 1..Len(waitq'[v])
        PROVE  pendedOn'[waitq'[v][i]] = v
    BY <1>0, <1>4, <1>7, <2>1 DEF QueueMatchesState, PendTypeOK
  <2>2. ASSUME NEW i \in 1..Len(r)
        PROVE  pendedOn'[r[i]] = w
    <3>1. r[i] = t \/ \E j \in 1..Len(q) : r[i] = q[j]
      BY <1>9, <2>2
    <3>2. CASE r[i] = t
      BY <1>0, <1>7, <3>2 DEF PendTypeOK
    <3>3. CASE \E j \in 1..Len(q) : r[i] = q[j]
      <4>1. PICK j \in 1..Len(q) : r[i] = q[j]
        BY <3>3
      <4>2. q[j] \in Threads /\ q[j] # t /\ pendedOn[q[j]] = w
        BY <1>8
      <4>3. QED
        BY <1>0, <1>7, <4>1, <4>2 DEF PendTypeOK
    <3>4. QED
      BY <3>1, <3>2, <3>3
  <2>3. QED
    BY <1>4, <2>1, <2>2
<1>11. \A u \in Threads : pendedOn'[u] # None =>
         \E i \in 1..Len(waitq'[pendedOn'[u]]) : waitq'[pendedOn'[u]][i] = u
  <2>1. ASSUME NEW u \in Threads, u # t, pendedOn'[u] # None
        PROVE  \E i \in 1..Len(waitq'[pendedOn'[u]]) : waitq'[pendedOn'[u]][i] = u
    <3>1. pendedOn'[u] = pendedOn[u] /\ pendedOn[u] \in WaitQs
      BY <1>0, <1>7, <2>1 DEF PendTypeOK
    <3>2. PICK i \in 1..Len(waitq[pendedOn[u]]) : waitq[pendedOn[u]][i] = u
      BY <1>0, <2>1, <3>1 DEF QueueMatchesState
    <3>3. CASE pendedOn[u] # w
      BY <1>0, <1>4, <3>1, <3>2, <3>3 DEF PendTypeOK
    <3>4. CASE pendedOn[u] = w
      <4>1. i \in 1..Len(q) /\ q[i] = u
        BY <3>2, <3>4 DEF q
      <4>2. CASE i < k
        BY <1>2, <1>2a, <1>3, <1>4, <3>1, <3>4, <4>1, <4>2
      <4>3. CASE i >= k
        <5>1. i \in k..Len(q) /\ i + 1 \in 1..Len(r)
          BY <1>2, <1>2a, <1>3, <4>1, <4>3
        <5>2. r[i + 1] = u
          BY <1>2, <1>2a, <4>1, <5>1
        <5>3. QED
          BY <1>4, <3>1, <3>4, <5>1, <5>2
      <4>4. QED
        BY <1>2, <1>2a, <4>1, <4>2, <4>3
    <3>5. QED
      BY <3>3, <3>4
  <2>2. k \in 1..Len(r) /\ r[k] = t /\ pendedOn'[t] = w
    BY <1>0, <1>2, <1>2a, <1>3, <1>7 DEF PendTypeOK
  <2>3. QED
    BY <1>4, <2>1, <2>2
<1>12. \A v \in WaitQs : \A i, j \in 1..Len(waitq'[v]) :
         waitq'[v][i] = waitq'[v][j] => i = j
  <2>1. ASSUME NEW v \in WaitQs, v # w
        PROVE  \A i, j \in 1..Len(waitq'[v]) : waitq'[v][i] = waitq'[v][j] => i = j
    BY <1>0, <1>4, <2>1 DEF QueueMatchesState, PendTypeOK
  <2>2. \A i, j \in 1..Len(q) : q[i] = q[j] => i = j
    BY <1>0 DEF QueueMatchesState, q
  <2>3. ASSUME NEW i \in 1..Len(r), NEW j \in 1..Len(r), r[i] = r[j]
        PROVE  i = j
    <3>1. CASE i = k
      <4>1. r[j] = t
        BY <1>2, <1>2a, <2>3, <3>1
      <4>2. QED
        BY <1>8, <1>9, <3>1, <4>1
    <3>2. CASE j = k
      <4>1. r[i] = t
        BY <1>2, <1>2a, <2>3, <3>2
      <4>2. QED
        BY <1>8, <1>9, <3>2, <4>1
    <3>3. CASE i # k /\ j # k
      <4> DEFINE g(m) == IF m < k THEN m ELSE m - 1
      <4>1. \A m \in 1..Len(r) : m # k => g(m) \in 1..Len(q) /\ r[m] = q[g(m)]
        <5>1. TAKE m \in 1..Len(r)
        <5>2. HAVE m # k
        <5>3. CASE m \in 1..(k - 1) /\ r[m] = q[m] /\ m \in 1..Len(q)
          BY <5>3
        <5>4. CASE m - 1 \in k..Len(q) /\ r[m] = q[m - 1] /\ m - 1 \in 1..Len(q)
          BY <5>4
        <5>5. QED
          BY <1>9, <5>2, <5>3, <5>4
      <4>2. g(i) = g(j)
        BY <2>2, <2>3, <3>3, <4>1
      <4>3. QED
        BY <1>2, <1>2a, <1>3, <3>3, <4>2
    <3>4. QED
      BY <3>1, <3>2, <3>3
  <2>4. QED
    BY <1>4, <2>1, <2>3
<1>13. QED
  BY <1>5, <1>6, <1>10, <1>11, <1>12 DEF PendInv, QueueMatchesState

LEMMA PendCurrInv ==
  ASSUME PendInv, NEW t \in Threads, NEW w \in WaitQs, NEW fv \in BOOLEAN,
         runnable[t], PendCurr(t, w, fv)
  PROVE  PendInv'
<1>1. pendedOn[t] = None /\ halted[t] # "dead"
  BY DEF PendInv, RunnableIsFree
<1>2. QED
  BY <1>1, PendAnyInv

(* Steps that touch neither queues nor pended_on. *)
LEMMA QueueUntouched ==
  ASSUME QueueMatchesState, UNCHANGED <<waitq, pendedOn>>
  PROVE  QueueMatchesState'
BY DEF QueueMatchesState

(* Taking one thread out of its queue, and clearing its pended_on, keeps   *)
(* queues and thread states in agreement.                                  *)
LEMMA DequeueKeepsMatch ==
  ASSUME PendTypeOK, QueueMatchesState,
         NEW t \in Threads, NEW w \in WaitQs, pendedOn[t] = w,
         NEW r, NEW k \in 1..Len(waitq[w]), IsRemove(r, waitq[w], t, k),
         waitq' = [waitq EXCEPT ![w] = r],
         pendedOn' = [pendedOn EXCEPT ![t] = None]
  PROVE  /\ QueueMatchesState'
         /\ waitq' \in [WaitQs -> Seq(Threads)]
         /\ pendedOn' \in [Threads -> WaitQs \cup {None}]
<1> USE PendAssumption
<1> DEFINE q == waitq[w]
<1>1. q \in Seq(Threads) /\ Len(q) \in Nat /\ k \in 1..Len(q)
  BY DEF PendTypeOK
<1>2. /\ q[k] = t
      /\ r \in Seq(Threads)
      /\ Len(r) = Len(q) - 1
      /\ \A i \in 1..(k - 1) : r[i] = q[i]
      /\ \A i \in k..(Len(q) - 1) : r[i] = q[i + 1]
  BY DEF IsRemove
<1>3. waitq'[w] = r /\ \A v \in WaitQs : v # w => waitq'[v] = waitq[v]
  BY DEF PendTypeOK
<1>4. /\ \A i, j \in 1..Len(q) : q[i] = q[j] => i = j
      /\ \A i \in 1..Len(q) : q[i] \in Threads /\ pendedOn[q[i]] = w
  BY <1>1 DEF QueueMatchesState
<1> HIDE DEF q
<1> DEFINE g(m) == IF m < k THEN m ELSE m + 1
<1>5. \A m \in 1..Len(r) : g(m) \in 1..Len(q) /\ g(m) # k /\ r[m] = q[g(m)]
  BY <1>1, <1>2
<1>6. \A m \in 1..Len(r) : r[m] \in Threads /\ r[m] # t /\ pendedOn[r[m]] = w
  <2>1. TAKE m \in 1..Len(r)
  <2>2. g(m) \in 1..Len(q) /\ g(m) # k /\ r[m] = q[g(m)]
    BY <1>5
  <2> HIDE DEF g
  <2>3. QED
    BY <1>1, <1>2, <1>4, <2>2
<1>7. waitq' \in [WaitQs -> Seq(Threads)] /\ pendedOn' \in [Threads -> WaitQs \cup {None}]
  BY <1>2 DEF PendTypeOK
<1>8. \A v \in WaitQs : \A i \in 1..Len(waitq'[v]) : pendedOn'[waitq'[v][i]] = v
  <2>1. ASSUME NEW v \in WaitQs, v # w, NEW i \in 1..Len(waitq[v])
        PROVE  pendedOn'[waitq[v][i]] = v
    <3>1. waitq[v][i] \in Threads /\ pendedOn[waitq[v][i]] = v
      BY DEF PendTypeOK, QueueMatchesState
    <3>2. QED
      BY <2>1, <3>1 DEF PendTypeOK
  <2>2. \A i \in 1..Len(r) : pendedOn'[r[i]] = w
    BY <1>6 DEF PendTypeOK
  <2>3. QED
    BY <1>3, <2>1, <2>2
<1>9. \A u \in Threads : pendedOn'[u] # None =>
        \E i \in 1..Len(waitq'[pendedOn'[u]]) : waitq'[pendedOn'[u]][i] = u
  <2>1. SUFFICES ASSUME NEW u \in Threads, pendedOn'[u] # None
                 PROVE  \E i \in 1..Len(waitq'[pendedOn'[u]]) :
                          waitq'[pendedOn'[u]][i] = u
    OBVIOUS
  <2>2. u # t /\ pendedOn'[u] = pendedOn[u] /\ pendedOn[u] \in WaitQs
    BY <2>1 DEF PendTypeOK
  <2>3. PICK i \in 1..Len(waitq[pendedOn[u]]) : waitq[pendedOn[u]][i] = u
    BY <2>1, <2>2 DEF QueueMatchesState
  <2>4. CASE pendedOn[u] # w
    BY <1>3, <2>2, <2>3, <2>4
  <2>5. CASE pendedOn[u] = w
    <3>1. i \in 1..Len(q) /\ q[i] = u /\ i # k
      BY <1>2, <2>2, <2>3, <2>5 DEF q
    <3>2. CASE i < k
      BY <1>1, <1>2, <1>3, <2>2, <2>5, <3>1, <3>2
    <3>3. CASE i > k
      <4>1. i - 1 \in k..(Len(q) - 1) /\ i - 1 \in 1..Len(r) /\ (i - 1) + 1 = i
        BY <1>1, <1>2, <3>1, <3>3
      <4>2. r[i - 1] = u
        BY <1>2, <3>1, <4>1
      <4>3. QED
        BY <1>3, <2>2, <2>5, <4>1, <4>2
    <3>4. QED
      BY <1>1, <3>1, <3>2, <3>3
  <2>6. QED
    BY <2>4, <2>5
<1>10. \A v \in WaitQs : \A i, j \in 1..Len(waitq'[v]) :
         waitq'[v][i] = waitq'[v][j] => i = j
  <2>1. ASSUME NEW v \in WaitQs, v # w
        PROVE  \A i, j \in 1..Len(waitq'[v]) : waitq'[v][i] = waitq'[v][j] => i = j
    BY <1>3, <2>1 DEF QueueMatchesState
  <2>2. ASSUME NEW i \in 1..Len(r), NEW j \in 1..Len(r), r[i] = r[j]
        PROVE  i = j
    <3>1. g(i) = g(j)
      BY <1>4, <1>5, <2>2, SMTT(30)
    <3>2. QED
      BY <1>1, <1>2, <3>1
  <2>3. QED
    BY <1>3, <2>1, <2>2
<1>11. QED
  BY <1>7, <1>8, <1>9, <1>10 DEF QueueMatchesState

(* The head of a queue that is not empty. *)
LEMMA HeadFacts ==
  ASSUME PendTypeOK, QueueMatchesState, NEW w \in WaitQs, waitq[w] # <<>>
  PROVE  /\ Head(waitq[w]) \in Threads
         /\ pendedOn[Head(waitq[w])] = w
         /\ 1 \in 1..Len(waitq[w])
         /\ IsRemove(Tail(waitq[w]), waitq[w], Head(waitq[w]), 1)
<1>1. waitq[w] \in Seq(Threads)
  BY DEF PendTypeOK
<1>2. 1 \in 1..Len(waitq[w]) /\ Head(waitq[w]) = waitq[w][1]
  BY <1>1
<1>3. IsRemove(Tail(waitq[w]), waitq[w], Head(waitq[w]), 1)
  <2> DEFINE q == waitq[w]
  <2>1. q \in Seq(Threads) /\ q # <<>>
    BY <1>1
  <2> HIDE DEF q
  <2>2. /\ Tail(q) \in Seq(Threads) /\ Len(Tail(q)) = Len(q) - 1
        /\ \A i \in 1..(Len(q) - 1) : Tail(q)[i] = q[i + 1]
        /\ q[1] = Head(q)
    BY <2>1
  <2>3. QED
    BY <2>1, <2>2 DEF IsRemove, q
<1>4. QED
  BY <1>1, <1>2, <1>3 DEF QueueMatchesState

LEMMA UnpendFirstInv ==
  ASSUME PendInv, NEW w \in WaitQs, UnpendFirst(w)
  PROVE  PendInv'
<1> USE PendAssumption
<1>0. PendTypeOK /\ QueueMatchesState /\ RunnableIsFree
  BY DEF PendInv
<1> DEFINE h == Head(waitq[w])
<1>1. /\ h \in Threads /\ pendedOn[h] = w /\ 1 \in 1..Len(waitq[w])
      /\ IsRemove(Tail(waitq[w]), waitq[w], h, 1)
  BY <1>0, HeadFacts DEF UnpendFirst
<1>2. /\ waitq' = [waitq EXCEPT ![w] = Tail(waitq[w])]
      /\ pendedOn' = [pendedOn EXCEPT ![h] = None]
      /\ timeout' = [timeout EXCEPT ![h] = FALSE]
      /\ UNCHANGED <<prio, firing, suspending, swapRet, runnable, halted>>
  BY DEF UnpendFirst
<1> HIDE DEF h
<1>3. /\ QueueMatchesState'
      /\ waitq' \in [WaitQs -> Seq(Threads)]
      /\ pendedOn' \in [Threads -> WaitQs \cup {None}]
  BY <1>0, <1>1, <1>2, DequeueKeepsMatch
<1>4. PendTypeOK'
  BY <1>0, <1>1, <1>2, <1>3 DEF PendTypeOK
<1>5. RunnableIsFree'
  BY <1>0, <1>1, <1>2 DEF RunnableIsFree, PendTypeOK
<1>6. QED
  BY <1>3, <1>4, <1>5 DEF PendInv

LEMMA UnpendNoTimeoutMatch ==
  ASSUME PendTypeOK, QueueMatchesState, NEW t \in Threads, UnpendNoTimeout(t)
  PROVE  /\ QueueMatchesState'
         /\ waitq' \in [WaitQs -> Seq(Threads)]
         /\ pendedOn' \in [Threads -> WaitQs \cup {None}]
         /\ pendedOn'[t] = None
         /\ \A u \in Threads : u # t => pendedOn'[u] = pendedOn[u]
<1> USE PendAssumption
<1>1. CASE pendedOn[t] = None
  <2>1. waitq' = waitq /\ pendedOn' = pendedOn
    BY <1>1 DEF UnpendNoTimeout, PendTypeOK
  <2>2. QED
    BY <1>1, <2>1 DEF QueueMatchesState, PendTypeOK
<1>2. CASE pendedOn[t] # None
  <2> DEFINE w == pendedOn[t]
             r == PriqRemove(waitq[w], t)
  <2>1. w \in WaitQs /\ waitq[w] \in Seq(Threads)
    BY <1>2 DEF PendTypeOK
  <2>2. \E i \in 1..Len(waitq[w]) : waitq[w][i] = t
    BY <1>2 DEF QueueMatchesState
  <2>3. PICK k \in 1..Len(waitq[w]) : IsRemove(r, waitq[w], t, k)
    BY <2>1, <2>2, PriqRemoveFacts
  <2>4. waitq' = [waitq EXCEPT ![w] = r] /\ pendedOn' = [pendedOn EXCEPT ![t] = None]
    BY <1>2 DEF UnpendNoTimeout
  <2>5. pendedOn[t] = w
    OBVIOUS
  <2> HIDE DEF w, r
  <2>6. /\ QueueMatchesState'
        /\ waitq' \in [WaitQs -> Seq(Threads)]
        /\ pendedOn' \in [Threads -> WaitQs \cup {None}]
    BY <2>1, <2>3, <2>4, <2>5, DequeueKeepsMatch
  <2>7. QED
    BY <2>4, <2>6 DEF PendTypeOK
<1>3. QED
  BY <1>1, <1>2

LEMMA SetRetvalInv ==
  ASSUME PendInv, NEW t, NEW v \in RetVals, SetRetval(t, v)
  PROVE  PendInv'
<1>0. PendTypeOK /\ QueueMatchesState /\ RunnableIsFree
  BY DEF PendInv
<1>1. PendTypeOK'
  BY <1>0 DEF SetRetval, PendTypeOK
<1>2. QueueMatchesState'
  BY <1>0, QueueUntouched DEF SetRetval
<1>3. RunnableIsFree'
  BY <1>0 DEF SetRetval, PendTypeOK, RunnableIsFree
<1>4. QED
  BY <1>1, <1>2, <1>3 DEF PendInv

LEMMA ReadyThreadInv ==
  ASSUME PendInv, NEW t, ReadyThread(t)
  PROVE  PendInv'
<1>0. PendTypeOK /\ QueueMatchesState /\ RunnableIsFree
  BY DEF PendInv
<1>1. PendTypeOK'
  BY <1>0 DEF ReadyThread, IsThreadReady, PendTypeOK
<1>2. QueueMatchesState'
  BY <1>0, QueueUntouched DEF ReadyThread, IsThreadReady
<1>3. RunnableIsFree'
  BY <1>0 DEF ReadyThread, IsThreadReady, PendTypeOK, RunnableIsFree
<1>4. QED
  BY <1>1, <1>2, <1>3 DEF PendInv

LEMMA ThreadTimeoutInv ==
  ASSUME PendInv, ThreadTimeout
  PROVE  PendInv'
<1> USE PendAssumption
<1>0. PendTypeOK /\ QueueMatchesState /\ RunnableIsFree /\ firing \in Threads
  BY DEF PendInv, PendTypeOK, ThreadTimeout
<1>1. CASE halted[firing] = "dead"
  BY <1>0, <1>1 DEF ThreadTimeout, PendInv, PendTypeOK, QueueMatchesState,
                    RunnableIsFree
<1>2. CASE halted[firing] # "dead"
  <2>1. UnpendNoTimeout(firing)
    BY <1>2 DEF ThreadTimeout
  <2>2. /\ QueueMatchesState'
        /\ waitq' \in [WaitQs -> Seq(Threads)]
        /\ pendedOn' \in [Threads -> WaitQs \cup {None}]
        /\ pendedOn'[firing] = None
        /\ \A u \in Threads : u # firing => pendedOn'[u] = pendedOn[u]
    BY <1>0, <2>1, UnpendNoTimeoutMatch
  <2>3. PendTypeOK'
    BY <1>0, <1>2, <2>2 DEF ThreadTimeout, PendTypeOK
  <2>4. RunnableIsFree'
    BY <1>0, <1>2, <2>2 DEF ThreadTimeout, RunnableIsFree, PendTypeOK
  <2>5. QED
    BY <2>2, <2>3, <2>4 DEF PendInv
<1>3. QED
  BY <1>1, <1>2

LEMMA AbortInv ==
  ASSUME PendInv, NEW t \in Threads, Abort(t)
  PROVE  PendInv'
<1> USE PendAssumption
<1>0. PendTypeOK /\ QueueMatchesState /\ RunnableIsFree
  BY DEF PendInv
<1>1. /\ QueueMatchesState'
      /\ waitq' \in [WaitQs -> Seq(Threads)]
      /\ pendedOn' \in [Threads -> WaitQs \cup {None}]
      /\ pendedOn'[t] = None
      /\ \A u \in Threads : u # t => pendedOn'[u] = pendedOn[u]
  BY <1>0, UnpendNoTimeoutMatch DEF Abort
<1>2. PendTypeOK'
  BY <1>0, <1>1 DEF Abort, PendTypeOK
<1>3. RunnableIsFree'
  BY <1>0, <1>1 DEF Abort, RunnableIsFree, PendTypeOK
<1>4. QED
  BY <1>1, <1>2, <1>3 DEF PendInv

(* A priority change lets no thread run that waits or is halted, and stops *)
(* none.                                                                   *)
LEMMA PrioSetRuns ==
  ASSUME PendTypeOK, NEW u \in Threads,
         \E t \in Threads, p \in NewPrios : PrioSet(t, p)
  PROVE  /\ runnable[u] => runnable'[u]
         /\ runnable'[u] => runnable[u] \/ (pendedOn[u] = None /\ halted[u] = "no")
<1>1. PICK t \in Threads, p \in NewPrios : PrioSet(t, p)
  OBVIOUS
<1>2. PICK v : v = (runnable[t] \/ (~SMP /\ IsThreadReady(t)))
  OBVIOUS
<1>3. runnable' = [runnable EXCEPT ![t] = v]
  BY <1>1, <1>2, Zenon DEF PrioSet
<1>4. runnable \in [Threads -> BOOLEAN]
  BY DEF PendTypeOK
<1>5. runnable'[t] = v
  BY <1>3, <1>4
<1>6. u # t => runnable'[u] = runnable[u]
  BY <1>3, <1>4
<1>7. v => runnable[t] \/ (pendedOn[t] = None /\ halted[t] = "no")
  BY <1>2 DEF IsThreadReady
<1>8. runnable[t] => v
  BY <1>2
<1>9. CASE u = t
  BY <1>5, <1>7, <1>8, <1>9
<1>10. QED
  BY <1>6, <1>9

(* Expiry, the timeout handler, priority changes, suspend and resume. *)
LEMMA OutsideInv ==
  ASSUME PendInv, Outside
  PROVE  PendInv'
<1> USE PendAssumption
<1>0. PendTypeOK /\ QueueMatchesState /\ RunnableIsFree
  BY DEF PendInv
<1>1. CASE \E t \in Threads : Expire(t)
  <2>1. PendTypeOK'
    BY <1>0, <1>1 DEF Expire, PendTypeOK
  <2>2. QueueMatchesState'
    BY <1>0, <1>1, QueueUntouched DEF Expire
  <2>3. RunnableIsFree'
    BY <1>0, <1>1 DEF Expire, PendTypeOK, RunnableIsFree
  <2>4. QED
    BY <2>1, <2>2, <2>3 DEF PendInv
<1>2. CASE ThreadTimeout
  BY <1>2, ThreadTimeoutInv
<1>3. CASE \E t \in Threads, p \in NewPrios : PrioSet(t, p)
  <2>1. PendTypeOK'
    BY <1>0, <1>3 DEF PrioSet, PendTypeOK
  <2>2. QueueMatchesState'
    BY <1>0, <1>3, QueueUntouched DEF PrioSet
  <2>3. \A u \in Threads : runnable'[u] =>
           runnable[u] \/ (pendedOn[u] = None /\ halted[u] = "no")
    BY <1>0, <1>3, PrioSetRuns
  <2>4. pendedOn' = pendedOn /\ halted' = halted /\ timeout' = timeout
    BY <1>3 DEF PrioSet
  <2>5. \A u \in Threads : halted[u] = "dead" => ~runnable'[u]
    BY <1>0, <2>3 DEF RunnableIsFree
  <2>6. RunnableIsFree'
    BY <1>0, <2>3, <2>4, <2>5 DEF RunnableIsFree
  <2>7. QED
    BY <2>1, <2>2, <2>6 DEF PendInv
<1>4. CASE \E t \in Victims : SuspendAbortTimeout(t)
  <2>1. PendTypeOK'
    BY <1>0, <1>4 DEF SuspendAbortTimeout, PendTypeOK
  <2>2. QueueMatchesState'
    BY <1>0, <1>4, QueueUntouched DEF SuspendAbortTimeout
  <2>3. RunnableIsFree'
    BY <1>0, <1>4 DEF SuspendAbortTimeout, PendTypeOK, RunnableIsFree
  <2>4. QED
    BY <2>1, <2>2, <2>3 DEF PendInv
<1>5. CASE Suspend
  <2>1. PendTypeOK'
    BY <1>0, <1>5 DEF Suspend, PendTypeOK
  <2>2. QueueMatchesState'
    BY <1>0, <1>5, QueueUntouched DEF Suspend
  <2>3. RunnableIsFree'
    BY <1>0, <1>5 DEF Suspend, PendTypeOK, RunnableIsFree
  <2>4. QED
    BY <2>1, <2>2, <2>3 DEF PendInv
<1>6. CASE \E t \in Victims : Resume(t)
  <2>1. PendTypeOK'
    BY <1>0, <1>6 DEF Resume, PendTypeOK
  <2>2. QueueMatchesState'
    BY <1>0, <1>6, QueueUntouched DEF Resume
  <2>3. RunnableIsFree'
    BY <1>0, <1>6 DEF Resume, PendTypeOK, RunnableIsFree
  <2>4. QED
    BY <2>1, <2>2, <2>3 DEF PendInv
<1>7. QED
  BY <1>1, <1>2, <1>3, <1>4, <1>5, <1>6 DEF Outside

(* A step that leaves the whole layer alone. *)
LEMMA PendStutterInv ==
  ASSUME PendInv, UNCHANGED pendVars
  PROVE  PendInv'
<1>0. PendTypeOK /\ QueueMatchesState /\ RunnableIsFree
  BY DEF PendInv
<1>1. PendTypeOK'
  BY <1>0 DEF pendVars, PendTypeOK
<1>2. QueueMatchesState'
  BY <1>0, QueueUntouched DEF pendVars
<1>3. RunnableIsFree'
  BY <1>0 DEF pendVars, PendTypeOK, RunnableIsFree
<1>4. QED
  BY <1>1, <1>2, <1>3 DEF PendInv

(* Unpending never fills an empty queue. *)
LEMMA UnpendKeepsEmpty ==
  ASSUME PendTypeOK, QueueMatchesState, NEW t \in Threads, UnpendNoTimeout(t),
         NEW w \in WaitQs, waitq[w] = <<>>
  PROVE  waitq'[w] = <<>>
<1>1. CASE pendedOn[t] = None
  BY <1>1 DEF UnpendNoTimeout
<1>2. CASE pendedOn[t] # None
  <2>1. pendedOn[t] # w
    BY <1>2 DEF QueueMatchesState
  <2>2. QED
    BY <1>2, <2>1 DEF UnpendNoTimeout, PendTypeOK
<1>3. QED
  BY <1>1, <1>2

LEMMA OutsideKeepsEmpty ==
  ASSUME PendInv, Outside, NEW w \in WaitQs, waitq[w] = <<>>
  PROVE  waitq'[w] = <<>>
<1>1. CASE ThreadTimeout
  <2>1. firing \in Threads
    BY <1>1 DEF ThreadTimeout, PendInv, PendTypeOK
  <2>2. QED
    BY <1>1, <2>1, UnpendKeepsEmpty DEF ThreadTimeout, PendInv
<1>2. CASE ~ThreadTimeout
  BY <1>2 DEF Outside, Expire, PrioSet, SuspendAbortTimeout, Suspend, Resume
<1>3. QED
  BY <1>1, <1>2

(* What the other code of Outside can do to a thread: take it out of its   *)
(* queue, and stop it only by completing a k_thread_suspend().             *)
LEMMA OutsideFacts ==
  ASSUME PendInv, Outside
  PROVE  /\ swapRet' = swapRet
         /\ \A t \in Threads : pendedOn'[t] \in {pendedOn[t], None}
         /\ \A t \in Threads : (runnable[t] /\ ~(suspending = t /\ suspending' # t))
                                 => runnable'[t]
<1> USE PendAssumption
<1>0. PendTypeOK /\ QueueMatchesState /\ RunnableIsFree
  BY DEF PendInv
<1>1. CASE ThreadTimeout
  <2>1. firing \in Threads /\ swapRet' = swapRet
    BY <1>0, <1>1 DEF ThreadTimeout, PendTypeOK
  <2>2. CASE halted[firing] = "dead"
    BY <1>1, <2>1, <2>2 DEF ThreadTimeout
  <2>3. CASE halted[firing] # "dead"
    <3>1. UnpendNoTimeout(firing)
      BY <1>1, <2>3 DEF ThreadTimeout
    <3>2. \A t \in Threads : pendedOn'[t] \in {pendedOn[t], None}
      BY <1>0, <2>1, <3>1, UnpendNoTimeoutMatch
    <3>3. runnable' = [runnable EXCEPT ![firing] = @ \/ ~timeout[firing]]
      BY <1>1, <2>3 DEF ThreadTimeout
    <3>4. \A t \in Threads : runnable[t] => runnable'[t]
      BY <1>0, <2>1, <3>3 DEF PendTypeOK
    <3>5. QED
      BY <2>1, <3>2, <3>4
  <2>4. QED
    BY <2>2, <2>3
<1>2. CASE \E t \in Victims : Resume(t)
  <2>1. PICK t \in Threads : Resume(t)
    BY <1>2
  <2>2. ~runnable[t]
    BY <1>0, <2>1 DEF Resume, RunnableIsFree
  <2>3. QED
    BY <1>0, <2>1, <2>2 DEF Resume, PendTypeOK
<1>3. CASE Suspend
  BY <1>0, <1>3 DEF Suspend, PendTypeOK
<1>4. CASE \/ \E t \in Threads : Expire(t)
           \/ \E t \in Victims : SuspendAbortTimeout(t)
  BY <1>4 DEF Expire, SuspendAbortTimeout
<1>5. CASE \E t \in Threads, p \in NewPrios : PrioSet(t, p)
  <2>1. \A t \in Threads : runnable[t] => runnable'[t]
    BY <1>0, <1>5, PrioSetRuns
  <2>2. swapRet' = swapRet /\ pendedOn' = pendedOn
    BY <1>5 DEF PrioSet
  <2>3. QED
    BY <2>1, <2>2
<1>6. QED
  BY <1>1, <1>2, <1>3, <1>4, <1>5 DEF Outside

(* A thread without a timeout stays in its queue, whatever Outside does,   *)
(* and a dead thread stays dead.                                           *)
LEMMA OutsideForever ==
  ASSUME PendInv, Outside, NEW t \in Threads, ~timeout[t], firing # t
  PROVE  pendedOn'[t] = pendedOn[t] /\ ~timeout'[t] /\ firing' # t
<1> USE PendAssumption
<1>0. PendTypeOK /\ QueueMatchesState
  BY DEF PendInv
<1>1. CASE ThreadTimeout
  <2>1. firing \in Threads /\ firing' = None /\ timeout' = timeout
    BY <1>0, <1>1 DEF ThreadTimeout, PendTypeOK
  <2>2. CASE halted[firing] = "dead"
    BY <1>1, <2>1, <2>2 DEF ThreadTimeout
  <2>3. CASE halted[firing] # "dead"
    BY <1>0, <1>1, <2>1, <2>3, UnpendNoTimeoutMatch DEF ThreadTimeout
  <2>4. QED
    BY <2>2, <2>3
<1>2. CASE ~ThreadTimeout
  BY <1>0, <1>2 DEF Outside, Expire, PrioSet, SuspendAbortTimeout, Suspend, Resume,
                    PendTypeOK
<1>3. QED
  BY <1>1, <1>2

LEMMA OutsideDead ==
  ASSUME PendInv, Outside, NEW t \in Threads, halted[t] = "dead"
  PROVE  halted'[t] = "dead"
<1> USE PendAssumption
<1>0. PendTypeOK
  BY DEF PendInv
<1>1. CASE ThreadTimeout
  <2>1. firing \in Threads
    BY <1>0, <1>1 DEF ThreadTimeout, PendTypeOK
  <2>2. CASE halted[firing] = "dead"
    BY <1>1, <2>2 DEF ThreadTimeout
  <2>3. CASE halted[firing] # "dead"
    BY <1>0, <1>1, <2>1, <2>3 DEF ThreadTimeout, PendTypeOK
  <2>4. QED
    BY <2>2, <2>3
<1>2. CASE ~ThreadTimeout
  BY <1>0, <1>2 DEF Outside, Expire, PrioSet, SuspendAbortTimeout, Suspend, Resume,
                    PendTypeOK
<1>3. QED
  BY <1>1, <1>2

LEMMA AbortFacts ==
  ASSUME PendInv, NEW t \in Threads, Abort(t)
  PROVE  /\ swapRet' = swapRet /\ prio' = prio /\ firing' = firing
         /\ pendedOn'[t] = None
         /\ \A u \in Threads : u # t =>
              pendedOn'[u] = pendedOn[u] /\ runnable'[u] = runnable[u]
<1>1. PendTypeOK /\ QueueMatchesState
  BY DEF PendInv
<1>2. QED
  BY <1>1, UnpendNoTimeoutMatch DEF Abort, PendTypeOK

-----------------------------------------------------------------------------
(* The order of a wait queue.  A queue stays sorted as long as nobody      *)
(* changes a priority: z_priq_dumb_add() compares with the priorities of   *)
(* now and nothing moves a thread that waits.                              *)
InPrioOrder(q, p) ==
  \A i, j \in 1..Len(q) : i <= j => p[q[i]] <= p[q[j]]

LEMMA AddKeepsOrder ==
  ASSUME NEW q \in Seq(Threads), NEW t \in Threads, NEW p \in [Threads -> Prios],
         InPrioOrder(q, p)
  PROVE  InPrioOrder(PriqAdd(q, t, p), p)
<1> DEFINE r == PriqAdd(q, t, p)
<1>1. PICK k \in 1..(Len(q) + 1) : IsInsert(r, q, t, k) /\ Belongs(q, t, p, k)
  BY PriqAddFacts
<1>2. \A u \in Threads : p[u] \in Int
  BY PendAssumption
<1>3. Len(q) \in Nat /\ \A i \in 1..Len(q) : q[i] \in Threads
  OBVIOUS
<1> HIDE DEF r
<1>4. /\ Len(r) = Len(q) + 1
      /\ \A i \in 1..(k - 1) : r[i] = q[i]
      /\ r[k] = t
      /\ \A i \in k..Len(q) : r[i + 1] = q[i]
  BY <1>1 DEF IsInsert
<1>5. \A i \in 1..Len(r) :
        \/ i < k /\ i \in 1..Len(q) /\ r[i] = q[i]
        \/ i = k /\ r[i] = t
        \/ i > k /\ i - 1 \in k..Len(q) /\ i - 1 \in 1..Len(q) /\ r[i] = q[i - 1]
  <2>1. TAKE i \in 1..Len(r)
  <2>2. CASE i > k
    <3>1. i - 1 \in k..Len(q) /\ i - 1 \in 1..Len(q) /\ (i - 1) + 1 = i
      BY <1>3, <1>4, <2>2
    <3>2. QED
      BY <1>4, <2>2, <3>1
  <2>3. CASE i = k
    BY <1>4, <2>3
  <2>4. CASE i < k
    BY <1>3, <1>4, <2>4
  <2>5. QED
    BY <2>2, <2>3, <2>4
<1>6. \A i \in 1..Len(q) : i < k => p[q[i]] <= p[t]
  BY <1>1, <1>3 DEF Belongs
<1>7. \A i \in 1..Len(q) : i >= k => p[t] <= p[q[i]]
  <2>1. TAKE i \in 1..Len(q)
  <2>2. HAVE i >= k
  <2>3. k \in 1..Len(q) /\ p[t] <= p[q[k]] /\ p[q[k]] <= p[q[i]]
    BY <1>1, <1>3, <2>2 DEF Belongs, InPrioOrder
  <2>4. QED
    BY <1>2, <1>3, <2>3
<1>8. ASSUME NEW i \in 1..Len(r), NEW j \in 1..Len(r), i <= j
      PROVE  p[r[i]] <= p[r[j]]
  <2>1. CASE i < k /\ j < k
    BY <1>5, <1>8, <2>1 DEF InPrioOrder
  <2>2. CASE i < k /\ j = k
    BY <1>5, <1>6, <2>2
  <2>3. CASE i < k /\ j > k
    <3>1. i <= j - 1
      BY <2>3
    <3>2. QED
      BY <1>5, <2>3, <3>1 DEF InPrioOrder
  <2>4. CASE i = k /\ j = k
    BY <1>2, <1>4, <2>4
  <2>5. CASE i = k /\ j > k
    <3>1. j - 1 \in 1..Len(q) /\ j - 1 >= k /\ r[j] = q[j - 1] /\ r[i] = t
      BY <1>5, <2>5
    <3>2. QED
      BY <1>7, <3>1
  <2>6. CASE i > k /\ j > k
    <3>1. /\ i - 1 \in 1..Len(q) /\ j - 1 \in 1..Len(q)
          /\ r[i] = q[i - 1] /\ r[j] = q[j - 1]
      BY <1>5, <2>6
    <3>2. i - 1 <= j - 1
      BY <1>8
    <3>3. QED
      BY <3>1, <3>2 DEF InPrioOrder
  <2>7. QED
    BY <1>8, <2>1, <2>2, <2>3, <2>4, <2>5, <2>6
<1>9. QED
  BY <1>8 DEF InPrioOrder, r

LEMMA RemoveKeepsOrder ==
  ASSUME NEW q \in Seq(Threads), NEW r, NEW t, NEW k \in 1..Len(q),
         IsRemove(r, q, t, k), NEW p, InPrioOrder(q, p)
  PROVE  InPrioOrder(r, p)
<1> DEFINE g(m) == IF m < k THEN m ELSE m + 1
<1>1. Len(q) \in Nat
  OBVIOUS
<1>2. \A m \in 1..Len(r) : g(m) \in 1..Len(q) /\ r[m] = q[g(m)]
  BY <1>1 DEF IsRemove
<1>3. \A i, j \in 1..Len(r) : i <= j => g(i) <= g(j)
  BY <1>1 DEF IsRemove
<1> HIDE DEF g
<1>4. QED
  BY <1>2, <1>3 DEF InPrioOrder

LEMMA UnpendNoTimeoutOrder ==
  ASSUME PendTypeOK, QueueMatchesState, NEW t \in Threads, UnpendNoTimeout(t),
         prio' = prio, NEW w \in WaitQs, InPrioOrder(waitq[w], prio)
  PROVE  InPrioOrder(waitq[w], prio)'
<1> USE PendAssumption
<1>1. CASE pendedOn[t] = w
  <2>1. waitq[w] \in Seq(Threads) /\ \E i \in 1..Len(waitq[w]) : waitq[w][i] = t
    BY <1>1 DEF PendTypeOK, QueueMatchesState
  <2>2. PICK k \in 1..Len(waitq[w]) : IsRemove(PriqRemove(waitq[w], t), waitq[w], t, k)
    BY <2>1, PriqRemoveFacts
  <2>3. waitq'[w] = PriqRemove(waitq[w], t)
    BY <1>1 DEF UnpendNoTimeout, PendTypeOK
  <2>4. InPrioOrder(PriqRemove(waitq[w], t), prio)
    BY <2>1, <2>2, RemoveKeepsOrder
  <2>5. QED
    BY <2>3, <2>4 DEF InPrioOrder
<1>2. CASE pendedOn[t] # w
  <2>1. waitq'[w] = waitq[w]
    BY <1>2 DEF UnpendNoTimeout, PendTypeOK
  <2>2. QED
    BY <2>1 DEF InPrioOrder
<1>3. QED
  BY <1>1, <1>2

LEMMA UnpendFirstOrder ==
  ASSUME PendInv, NEW v \in WaitQs, UnpendFirst(v),
         NEW w \in WaitQs, InPrioOrder(waitq[w], prio)
  PROVE  InPrioOrder(waitq[w], prio)'
<1>0. PendTypeOK /\ QueueMatchesState /\ prio' = prio
  BY DEF PendInv, UnpendFirst
<1>1. CASE v = w
  <2>1. /\ waitq[w] \in Seq(Threads) /\ 1 \in 1..Len(waitq[w])
        /\ IsRemove(Tail(waitq[w]), waitq[w], Head(waitq[w]), 1)
    BY <1>0, <1>1, HeadFacts DEF UnpendFirst, PendTypeOK
  <2>2. waitq'[w] = Tail(waitq[w])
    BY <1>0, <1>1 DEF UnpendFirst, PendTypeOK
  <2>3. InPrioOrder(Tail(waitq[w]), prio)
    BY <2>1, RemoveKeepsOrder
  <2>4. QED
    BY <1>0, <2>2, <2>3 DEF InPrioOrder
<1>2. CASE v # w
  <2>1. waitq'[w] = waitq[w]
    BY <1>0, <1>2 DEF UnpendFirst, PendTypeOK
  <2>2. QED
    BY <1>0, <2>1 DEF InPrioOrder
<1>3. QED
  BY <1>1, <1>2

LEMMA PendCurrOrder ==
  ASSUME PendTypeOK, NEW t \in Threads, NEW v \in WaitQs, NEW fv,
         PendCurr(t, v, fv), NEW w \in WaitQs, InPrioOrder(waitq[w], prio)
  PROVE  InPrioOrder(waitq[w], prio)'
<1>0. prio' = prio /\ prio \in [Threads -> Prios] /\ waitq[w] \in Seq(Threads)
  BY DEF PendCurr, PendTypeOK
<1>1. CASE v = w
  <2>1. waitq'[w] = PriqAdd(waitq[w], t, prio)
    BY <1>1 DEF PendCurr, PendTypeOK
  <2>2. InPrioOrder(PriqAdd(waitq[w], t, prio), prio)
    BY <1>0, AddKeepsOrder
  <2>3. QED
    BY <1>0, <2>1, <2>2 DEF InPrioOrder
<1>2. CASE v # w
  <2>1. waitq'[w] = waitq[w]
    BY <1>2 DEF PendCurr, PendTypeOK
  <2>2. QED
    BY <1>0, <2>1 DEF InPrioOrder
<1>3. QED
  BY <1>1, <1>2

(* Where nobody calls k_thread_priority_set(). *)
LEMMA OutsideOrder ==
  ASSUME PendInv, Outside, NewPrios = {},
         NEW w \in WaitQs, InPrioOrder(waitq[w], prio)
  PROVE  InPrioOrder(waitq[w], prio)' /\ prio' = prio
<1>0. PendTypeOK /\ QueueMatchesState
  BY DEF PendInv
<1>1. CASE ThreadTimeout
  <2>1. firing \in Threads /\ prio' = prio
    BY <1>0, <1>1 DEF ThreadTimeout, PendTypeOK
  <2>2. CASE halted[firing] = "dead"
    BY <1>1, <2>1, <2>2 DEF ThreadTimeout, InPrioOrder
  <2>3. CASE halted[firing] # "dead"
    BY <1>0, <1>1, <2>1, <2>3, UnpendNoTimeoutOrder DEF ThreadTimeout
  <2>4. QED
    BY <2>1, <2>2, <2>3
<1>2. CASE ~ThreadTimeout
  <2>1. waitq' = waitq /\ prio' = prio
    BY <1>2 DEF Outside, Expire, PrioSet, SuspendAbortTimeout, Suspend, Resume
  <2>2. QED
    BY <2>1 DEF InPrioOrder
<1>3. QED
  BY <1>1, <1>2

=============================================================================
