--------------------------- MODULE ObjectsProofs ----------------------------
(***************************************************************************)
(* Theorems about polling, futexes, heaps, stacks, memory slabs, queues    *)
(* and mailboxes, and about any collection of them, for any number of      *)
(* threads, objects, items and messages.                                   *)
(***************************************************************************)
EXTENDS Objects, PendProofs, FiniteSetTheorems

-----------------------------------------------------------------------------
(* Lists without repetition: inserting and removing one element.           *)

In(s, x) == \E j \in 1..Len(s) : s[j] = x
NoDup(s) == \A j, k \in 1..Len(s) : s[j] = s[k] => j = k

(* r is s with e inserted at position k. *)
IsInsertion(r, s, e, k) ==
  /\ Len(r) = Len(s) + 1
  /\ \A i \in 1..(k - 1) : r[i] = s[i]
  /\ r[k] = e
  /\ \A i \in k..Len(s) : r[i + 1] = s[i]

(* r is s with e, at position k, taken out. *)
IsRemoval(r, s, e, k) ==
  /\ s[k] = e
  /\ Len(r) = Len(s) - 1
  /\ \A i \in 1..(k - 1) : r[i] = s[i]
  /\ \A i \in k..(Len(s) - 1) : r[i] = s[i + 1]

LEMMA InsertionFacts ==
  ASSUME NEW S, NEW s \in Seq(S), NEW r \in Seq(S), NEW e \in S,
         NEW k \in 1..(Len(s) + 1), IsInsertion(r, s, e, k)
  PROVE  /\ NoDup(s) /\ ~In(s, e) => NoDup(r)
         /\ \A x : In(r, x) <=> In(s, x) \/ x = e
<1> DEFINE f(i) == IF i < k THEN i ELSE i + 1
<1>0. Len(s) \in Nat /\ Len(r) \in Nat
  OBVIOUS
<1>1. \A i \in 1..Len(s) : f(i) \in 1..Len(r) /\ f(i) # k /\ r[f(i)] = s[i]
  BY <1>0 DEF IsInsertion
<1>2. \A i \in 1..Len(r) : i = k \/ \E j \in 1..Len(s) : i = f(j)
  <2>1. TAKE i \in 1..Len(r)
  <2>2. CASE i < k
    BY <2>2, <1>0 DEF IsInsertion
  <2>3. CASE i > k
    <3>1. i - 1 \in 1..Len(s) /\ i = f(i - 1)
      BY <2>3, <1>0 DEF IsInsertion
    <3>2. QED
      BY <3>1
  <2>4. QED
    BY <2>2, <2>3, <1>0
<1>4. k \in 1..Len(r) /\ r[k] = e
  BY <1>0 DEF IsInsertion
<1>5. \A i, j \in 1..Len(s) : f(i) = f(j) => i = j
  BY <1>0
<1> HIDE DEF f
<1>7. NoDup(s) /\ ~In(s, e) => NoDup(r)
  <2>1. SUFFICES ASSUME NoDup(s), ~In(s, e), NEW i \in 1..Len(r), NEW j \in 1..Len(r),
                        r[i] = r[j]
                 PROVE  i = j
    BY DEF NoDup
  <2>2. CASE i = k \/ j = k
    <3>1. \A n \in 1..Len(r) : n # k => r[n] # e
      <4>1. TAKE n \in 1..Len(r)
      <4>2. SUFFICES ASSUME n # k PROVE r[n] # e
        OBVIOUS
      <4>3. PICK l \in 1..Len(s) : n = f(l)
        BY <4>2, <1>2
      <4>4. r[n] = s[l]
        BY <4>3, <1>1
      <4>5. QED
        BY <2>1, <4>4 DEF In
    <3>2. QED
      BY <2>1, <2>2, <3>1, <1>4
  <2>3. CASE i # k /\ j # k
    <3>1. PICK x \in 1..Len(s) : i = f(x)
      BY <2>3, <1>2
    <3>2. PICK y \in 1..Len(s) : j = f(y)
      BY <2>3, <1>2
    <3>3. s[x] = s[y]
      BY <2>1, <3>1, <3>2, <1>1
    <3>4. x = y
      BY <2>1, <3>3 DEF NoDup
    <3>5. QED
      BY <3>1, <3>2, <3>4
  <2>4. QED
    BY <2>2, <2>3
<1>8. \A x : In(r, x) <=> In(s, x) \/ x = e
  BY <1>1, <1>2, <1>4 DEF In
<1>9. QED
  BY <1>7, <1>8

LEMMA RemovalFacts ==
  ASSUME NEW S, NEW s \in Seq(S), NEW r \in Seq(S), NEW e \in S,
         NEW k \in 1..Len(s), IsRemoval(r, s, e, k), NoDup(s)
  PROVE  /\ NoDup(r)
         /\ \A x : In(r, x) <=> In(s, x) /\ x # e
<1> DEFINE f(i) == IF i < k THEN i ELSE i + 1
<1>0. Len(s) \in Nat /\ Len(r) \in Nat
  OBVIOUS
<1>1. \A i \in 1..Len(r) : f(i) \in 1..Len(s) /\ f(i) # k /\ s[f(i)] = r[i]
  BY <1>0 DEF IsRemoval
<1>2. \A i \in 1..Len(s) : i = k \/ \E j \in 1..Len(r) : i = f(j)
  <2>1. TAKE i \in 1..Len(s)
  <2>2. CASE i < k
    BY <2>2, <1>0, SMTT(30) DEF IsRemoval
  <2>3. CASE i > k
    <3>1. i - 1 \in 1..Len(r) /\ i = f(i - 1)
      BY <2>3, <1>0 DEF IsRemoval
    <3>2. QED
      BY <3>1
  <2>4. QED
    BY <2>2, <2>3, <1>0
<1>4. s[k] = e
  BY DEF IsRemoval
<1>5. \A i, j \in 1..Len(r) : f(i) = f(j) => i = j
  BY <1>0
<1> HIDE DEF f
<1>6. NoDup(r)
  BY <1>1, <1>5 DEF NoDup
<1>7. \A x : In(r, x) <=> In(s, x) /\ x # e
  <2>1. ASSUME NEW x, In(r, x) PROVE In(s, x) /\ x # e
    <3>1. PICK i \in 1..Len(r) : r[i] = x
      BY <2>1 DEF In
    <3>2. s[f(i)] = x /\ f(i) \in 1..Len(s) /\ f(i) # k
      BY <3>1, <1>1
    <3>3. QED
      BY <3>2, <1>4 DEF In, NoDup
  <2>2. ASSUME NEW x, In(s, x), x # e PROVE In(r, x)
    <3>1. PICK i \in 1..Len(s) : s[i] = x
      BY <2>2 DEF In
    <3>2. PICK j \in 1..Len(r) : i = f(j)
      BY <3>1, <2>2, <1>2, <1>4
    <3>3. QED
      BY <3>1, <3>2, <1>1 DEF In
  <2>3. QED
    BY <2>1, <2>2
<1>8. QED
  BY <1>6, <1>7

LEMMA InsertAtIsInsertion ==
  ASSUME NEW S, NEW s \in Seq(S), NEW e \in S, NEW k \in 1..(Len(s) + 1)
  PROVE  InsertAt(s, k, e) \in Seq(S) /\ IsInsertion(InsertAt(s, k, e), s, e, k)
<1> DEFINE a == SubSeq(s, 1, k - 1)
           b == SubSeq(s, k, Len(s))
<1>0. Len(s) \in Nat /\ k \in Nat /\ 1 <= k /\ k <= Len(s) + 1
  OBVIOUS
<1>1. /\ a \in Seq(S) /\ Len(a) = k - 1
      /\ \A i \in 1..(k - 1) : a[i] = s[i]
  BY <1>0, SubSeqProperties
<1>2. /\ b \in Seq(S) /\ Len(b) = Len(s) - k + 1
      /\ \A i \in 1..(Len(s) - k + 1) : b[i] = s[k + i - 1]
  BY <1>0, SubSeqProperties
<1>3. InsertAt(s, k, e) = (a \o <<e>>) \o b
  BY DEF InsertAt
<1> HIDE DEF a, b
<1>4. /\ a \o <<e>> \in Seq(S)
      /\ Len(a \o <<e>>) = k
      /\ \A i \in 1..(k - 1) : (a \o <<e>>)[i] = s[i]
      /\ (a \o <<e>>)[k] = e
  <2>1. /\ <<e>> \in Seq(S) /\ Len(<<e>>) = 1 /\ <<e>>[1] = e
    OBVIOUS
  <2>2. /\ a \o <<e>> \in Seq(S)
        /\ Len(a \o <<e>>) = Len(a) + Len(<<e>>)
        /\ \A i \in 1..(Len(a) + Len(<<e>>)) :
             (a \o <<e>>)[i] = IF i <= Len(a) THEN a[i] ELSE <<e>>[i - Len(a)]
    BY <1>1, <2>1, ConcatProperties
  <2>3. QED
    BY <1>0, <1>1, <2>1, <2>2
<1> DEFINE d == a \o <<e>>
<1>5. /\ d \in Seq(S) /\ Len(d) = k
      /\ \A i \in 1..(k - 1) : d[i] = s[i]
      /\ d[k] = e
      /\ InsertAt(s, k, e) = d \o b
  BY <1>3, <1>4
<1> HIDE DEF d
<1>6. /\ d \o b \in Seq(S)
      /\ Len(d \o b) = Len(d) + Len(b)
      /\ \A i \in 1..(Len(d) + Len(b)) :
           (d \o b)[i] = IF i <= Len(d) THEN d[i] ELSE b[i - Len(d)]
  BY <1>2, <1>5, ConcatProperties
<1>7. \A i \in k..Len(s) : (d \o b)[i + 1] = s[i]
  <2>1. TAKE i \in k..Len(s)
  <2>2. i + 1 \in 1..(Len(d) + Len(b)) /\ ~(i + 1 <= Len(d))
    BY <1>0, <1>2, <1>5
  <2>3. (d \o b)[i + 1] = b[i + 1 - k]
    BY <1>5, <1>6, <2>2
  <2>4. i + 1 - k \in 1..(Len(s) - k + 1) /\ k + (i + 1 - k) - 1 = i
    BY <1>0
  <2>5. QED
    BY <1>2, <2>3, <2>4
<1>8. \A i \in 1..(k - 1) : (d \o b)[i] = s[i]
  BY <1>0, <1>2, <1>5, <1>6
<1>9. Len(d \o b) = Len(s) + 1 /\ (d \o b)[k] = e
  BY <1>0, <1>2, <1>5, <1>6
<1>10. QED
  BY <1>5, <1>6, <1>7, <1>8, <1>9 DEF IsInsertion

LEMMA TailIsRemoval ==
  ASSUME NEW S, NEW s \in Seq(S), s # <<>>
  PROVE  /\ Tail(s) \in Seq(S) /\ Head(s) \in S /\ In(s, Head(s))
         /\ 1 \in 1..Len(s) /\ IsRemoval(Tail(s), s, Head(s), 1)
<1>0. Len(s) \in Nat /\ Len(s) >= 1 /\ Head(s) = s[1] /\ Len(Tail(s)) = Len(s) - 1
  BY EmptySeq, HeadTailProperties
<1>1. \A i \in 1..(Len(s) - 1) : Tail(s)[i] = s[i + 1]
  BY <1>0, HeadTailProperties
<1>2. Tail(s) \in Seq(S) /\ Head(s) \in S
  BY <1>0, HeadTailProperties
<1>3. QED
  BY <1>0, <1>1, <1>2 DEF IsRemoval, In

LEMMA RemoveAtIsRemoval ==
  ASSUME NEW S, NEW s \in Seq(S), NEW k \in 1..Len(s)
  PROVE  RemoveAt(s, k) \in Seq(S) /\ IsRemoval(RemoveAt(s, k), s, s[k], k)
<1> DEFINE a == SubSeq(s, 1, k - 1)
           b == SubSeq(s, k + 1, Len(s))
<1>0. Len(s) \in Nat /\ k \in Nat /\ 1 <= k /\ k <= Len(s)
  OBVIOUS
<1>1. /\ a \in Seq(S) /\ Len(a) = k - 1
      /\ \A i \in 1..(k - 1) : a[i] = s[i]
  BY <1>0, SubSeqProperties
<1>2. /\ b \in Seq(S) /\ Len(b) = Len(s) - k
      /\ \A i \in 1..(Len(s) - k) : b[i] = s[k + i]
  BY <1>0, SubSeqProperties
<1>3. RemoveAt(s, k) = a \o b
  BY DEF RemoveAt
<1> HIDE DEF a, b
<1>4. /\ a \o b \in Seq(S)
      /\ Len(a \o b) = Len(a) + Len(b)
      /\ \A i \in 1..(Len(a) + Len(b)) :
           (a \o b)[i] = IF i <= Len(a) THEN a[i] ELSE b[i - Len(a)]
  BY <1>1, <1>2, ConcatProperties
<1>5. \A i \in k..(Len(s) - 1) : (a \o b)[i] = s[i + 1]
  BY <1>0, <1>1, <1>2, <1>4
<1>6. \A i \in 1..(k - 1) : (a \o b)[i] = s[i]
  BY <1>0, <1>1, <1>2, <1>4
<1>7. QED
  BY <1>0, <1>1, <1>2, <1>3, <1>4, <1>5, <1>6 DEF IsRemoval

LEMMA RemoveFirstIsRemoval ==
  ASSUME NEW S, NEW s \in Seq(S), NEW e, In(s, e)
  PROVE  /\ RemoveFirst(s, e) \in Seq(S)
         /\ \E k \in 1..Len(s) : IsRemoval(RemoveFirst(s, e), s, e, k)
<1> DEFINE I == {i \in 1..Len(s) : s[i] = e}
<1>1. I \in SUBSET Nat /\ I # {}
  BY DEF In
<1>2. SelectInSeq(s, LAMBDA v : v = e) = Min(I)
  BY <1>1 DEF SelectInSeq
<1>3. RemoveFirst(s, e) = RemoveAt(s, Min(I))
  BY <1>2 DEF RemoveFirst, In
<1> HIDE DEF I
<1>4. Min(I) \in I
  BY <1>1, MinOfNaturals
<1>5. Min(I) \in 1..Len(s) /\ s[Min(I)] = e
  BY <1>4 DEF I
<1>6. QED
  BY <1>3, <1>5, RemoveAtIsRemoval

(* What is linked after an insertion, a removal and taking the first.      *)
LEMMA InsertAtFacts ==
  ASSUME NEW S, NEW s \in Seq(S), NEW e \in S, NEW k \in 1..(Len(s) + 1),
         NoDup(s), ~In(s, e)
  PROVE  /\ InsertAt(s, k, e) \in Seq(S)
         /\ NoDup(InsertAt(s, k, e))
         /\ \A x : In(InsertAt(s, k, e), x) <=> In(s, x) \/ x = e
<1>1. PICK r \in Seq(S) : r = InsertAt(s, k, e) /\ IsInsertion(r, s, e, k)
  BY InsertAtIsInsertion
<1>2. IsInsertion(r, s, e, k)
  BY <1>1
<1>3. NoDup(r) /\ \A x : In(r, x) <=> In(s, x) \/ x = e
  BY <1>2, InsertionFacts
<1>4. QED
  BY <1>1, <1>3

LEMMA RemoveFirstFacts ==
  ASSUME NEW S, NEW s \in Seq(S), NEW e \in S, NoDup(s)
  PROVE  /\ RemoveFirst(s, e) \in Seq(S)
         /\ NoDup(RemoveFirst(s, e))
         /\ \A x : In(RemoveFirst(s, e), x) <=> In(s, x) /\ x # e
<1>1. CASE In(s, e)
  <2>1. PICK r \in Seq(S) : r = RemoveFirst(s, e)
    BY <1>1, RemoveFirstIsRemoval
  <2>2. PICK k \in 1..Len(s) : IsRemoval(r, s, e, k)
    BY <1>1, <2>1, RemoveFirstIsRemoval
  <2>3. NoDup(r) /\ \A x : In(r, x) <=> In(s, x) /\ x # e
    BY <2>2, RemovalFacts
  <2>4. QED
    BY <2>1, <2>3
<1>2. CASE ~In(s, e)
  <2>1. RemoveFirst(s, e) = s
    BY <1>2 DEF RemoveFirst, In
  <2>2. QED
    BY <1>2, <2>1
<1>3. QED
  BY <1>1, <1>2

LEMMA TailFacts ==
  ASSUME NEW S, NEW s \in Seq(S), s # <<>>, NoDup(s)
  PROVE  /\ Tail(s) \in Seq(S) /\ Head(s) \in S /\ In(s, Head(s))
         /\ NoDup(Tail(s))
         /\ \A x : In(Tail(s), x) <=> In(s, x) /\ x # Head(s)
<1>1. PICK r \in Seq(S), h \in S, k \in 1..Len(s) :
        r = Tail(s) /\ h = Head(s) /\ IsRemoval(r, s, h, k)
  BY TailIsRemoval
<1>2. NoDup(r) /\ \A x : In(r, x) <=> In(s, x) /\ x # h
  <2>1. IsRemoval(r, s, h, k)
    BY <1>1
  <2>2. QED
    BY <2>1, RemovalFacts
<1>3. QED
  BY <1>1, <1>2, TailIsRemoval

-----------------------------------------------------------------------------
(* Polling.  Triggered work items are for one CPU: on several, one that is *)
(* submitted again while its earlier submission is being cleared loses its *)
(* registrations, and so does one that is cancelled between the unlinking  *)
(* of its timeout and the handler.  Threads poll on any number of CPUs.    *)
WorksAreSafe == (~SMP /\ ~CancelNested) \/ Works = {}

Events == Pollers \X Nat

PollerStates == [pc : {"idle", "register", "clear", "wait"}, i : Nat, n : Nat,
                 polling : BOOLEAN, ret : RetVals \cup {"cancelled"}]
WorkStates == [own : BOOLEAN, trig : BOOLEAN, timeout : BOOLEAN, clear : Nat,
               queued : BOOLEAN, was : BOOLEAN]
SigStates == [ev : Events, st : {"unpended", "stored", "work"}, ret : {"0", "EINTR"}]

PollTypeOK ==
  /\ polled \in [Pollers -> Seq(Objs)]
  /\ cond \in [Objs -> BOOLEAN]
  /\ pollEvs \in [Objs -> Seq(Events)]
  /\ evReady \subseteq Events
  /\ poller \in [Pollers -> PollerStates]
  /\ work \in [Works -> WorkStates]
  /\ workFiring \in Works \cup {None}
  /\ handling \in Objs \cup {None}
  /\ sig \in SigStates \cup {NoSig}

(* An object's list holds events that are about it, each once. *)
EventsOK ==
  /\ \A o \in Objs : NoDup(pollEvs[o])
  /\ \A o \in Objs, p \in Pollers, i \in Nat :
       In(pollEvs[o], <<p, i>>) => i \in 1..Len(polled[p]) /\ polled[p][i] = o

(* Of a poller's events at most the first k are linked. *)
Upto(p, k) ==
  \A o \in Objs, i \in Nat : In(pollEvs[o], <<p, i>>) => i <= k

(* Registration links a prefix of the events, whose length is what is      *)
(* cleared afterwards, from the end.                                       *)
CallOK(p) ==
  /\ poller[p].pc = "register" =>
       /\ Upto(p, poller[p].n)
       /\ polled[p] # <<>>
       /\ poller[p].n < poller[p].i /\ poller[p].i <= Len(polled[p]) + 1
       /\ poller[p].polling => poller[p].n = poller[p].i - 1
  /\ poller[p].pc = "clear" =>
       Upto(p, poller[p].i) /\ poller[p].i <= Len(polled[p])

(* Who is in a wait queue waits in k_poll(). *)
ThreadOK(t) ==
  /\ poller[t].pc = "idle" => Upto(t, 0)
  /\ poller[t].pc = "wait" =>
       Upto(t, poller[t].n) /\ 1 <= poller[t].n /\ poller[t].n <= Len(polled[t])
  /\ pendedOn[t] # None => pendedOn[t] = PollQ /\ poller[t].pc = "wait"

(* A triggered work item is idle, being submitted, armed, in its queue,    *)
(* run, or being cancelled; only armed it has a timeout, whose handler may *)
(* come when it is in the queue already.                                   *)
Quiet(w) ==
  /\ ~work[w].queued /\ work[w].clear = 0
  /\ ~work[w].timeout /\ workFiring # w

WorkOK(w) ==
  /\ poller[w].pc # "wait"
  /\ poller[w].pc \in {"register", "clear"} =>
       work[w].own /\ ~work[w].trig /\ Quiet(w)
  /\ poller[w].pc = "clear" /\ poller[w].ret = "0" => ~poller[w].polling
  /\ ~work[w].own =>
       Upto(w, 0) /\ Quiet(w) /\ ~(work[w].trig /\ poller[w].polling)
  /\ poller[w].pc = "idle" /\ work[w].own =>
       \/ /\ ~work[w].queued /\ work[w].clear = 0
          /\ work[w].trig /\ poller[w].polling
          /\ work[w].timeout => workFiring # w
       \/ /\ work[w].queued /\ work[w].clear = 0 /\ ~work[w].timeout
          /\ ~poller[w].polling
          /\ ~work[w].trig => Upto(w, 0) /\ workFiring # w
       \/ /\ ~work[w].queued /\ ~work[w].timeout /\ workFiring # w
          /\ ~poller[w].polling
          /\ work[w].clear \in 1..(Len(polled[w]) + 1) /\ Upto(w, work[w].clear - 1)

(* A notification in progress is for a thread that was taken out of the    *)
(* queue and has not cleared its registrations, or for an armed item.      *)
SigOK ==
  /\ sig.st \in {"unpended", "stored"} =>
       /\ sig.ev[1] \in Threads /\ pendedOn[sig.ev[1]] = None
       /\ \/ poller[sig.ev[1]].pc = "wait"
          \/ poller[sig.ev[1]].pc = "clear" /\ poller[sig.ev[1]].i > 0
  /\ sig.st = "work" =>
       /\ sig.ev[1] \in Works /\ poller[sig.ev[1]].pc = "idle"
       /\ work[sig.ev[1]].own /\ work[sig.ev[1]].trig /\ poller[sig.ev[1]].polling

(* A poller relies on being told about its i-th event. *)
Relies(p, i) ==
  \/ poller[p].pc = "register" /\ poller[p].polling /\ i < poller[p].i
  \/ Waiting(p)

Alone(p, o) == \A r \in Pollers \ {p} : o \notin Range(polled[r])

(* What it relies on is linked, and not ready unless somebody is about to  *)
(* tell.                                                                   *)
NoticeOK(p) ==
  \A i \in 1..Len(polled[p]) :
    Relies(p, i) /\ Alone(p, polled[p][i]) =>
      \/ sig.ev[1] = p
      \/ /\ In(pollEvs[polled[p][i]], <<p, i>>)
         /\ cond[polled[p][i]] => handling = polled[p][i]

(* Whoever will return 0 has an event that is ready, or is being told. *)
Noted(t) == \E e \in evReady : e[1] = t

HasEvent(t) ==
  Noted(t) \/ (sig.st = "stored" /\ sig.ev[1] = t /\ sig.ret = "0")

SuccessOK(t) ==
  ~CancelEarly =>
    /\ poller[t].pc = "register" /\ ~poller[t].polling => Noted(t)
    /\ poller[t].pc = "wait" /\ swapRet[t] = "0" => HasEvent(t)
    /\ poller[t].pc = "clear" /\ poller[t].ret = "0" => HasEvent(t)

PollerOK(p) ==
  /\ CallOK(p) /\ NoticeOK(p)
  /\ p \in Threads => ThreadOK(p) /\ SuccessOK(p)
  /\ p \in Works => WorkOK(p)

PollInv ==
  /\ PendInv /\ PollTypeOK /\ EventsOK /\ SigOK
  /\ \A p \in Pollers : PollerOK(p)

-----------------------------------------------------------------------------
(* What a step does to a poller that does not take it: its state is left   *)
(* alone, it may be taken out of the queue and lose registrations.         *)
Kept(r) ==
  /\ poller'[r] = poller[r]
  /\ r \in Works => work'[r] = work[r] /\ (workFiring' = r => workFiring = r)
  /\ r \in Threads => pendedOn'[r] \in {pendedOn[r], None}
  /\ \A o \in Objs, i \in Nat :
       In(pollEvs'[o], <<r, i>>) => In(pollEvs[o], <<r, i>>)

LEMMA KeptUpto ==
  ASSUME NEW r, Kept(r), NEW k, Upto(r, k)
  PROVE  \A o \in Objs, i \in Nat : In(pollEvs'[o], <<r, i>>) => i <= k
BY DEF Kept, Upto

LEMMA KeptCall ==
  ASSUME polled' = polled, NEW r \in Pollers, Kept(r), CallOK(r)
  PROVE  CallOK(r)'
<1>1. poller'[r] = poller[r]
  BY DEF Kept
<1>2. Upto(r, poller[r].n) => Upto(r, poller[r].n)'
  BY <1>1, KeptUpto DEF Upto
<1>3. Upto(r, poller[r].i) => Upto(r, poller[r].i)'
  BY <1>1, KeptUpto DEF Upto
<1>4. QED
  BY <1>1, <1>2, <1>3 DEF CallOK

LEMMA KeptThread ==
  ASSUME polled' = polled, NEW r \in Threads, Kept(r), ThreadOK(r)
  PROVE  ThreadOK(r)'
<1>1. poller'[r] = poller[r] /\ pendedOn'[r] \in {pendedOn[r], None}
  BY DEF Kept
<1>2. Upto(r, poller[r].n) => Upto(r, poller[r].n)'
  BY <1>1, KeptUpto DEF Upto
<1>3. Upto(r, 0) => Upto(r, 0)'
  BY KeptUpto DEF Upto
<1>4. QED
  BY <1>1, <1>2, <1>3 DEF ThreadOK

LEMMA KeptWork ==
  ASSUME polled' = polled, NEW r \in Works, Kept(r), WorkOK(r)
  PROVE  WorkOK(r)'
<1>1. /\ poller'[r] = poller[r] /\ work'[r] = work[r]
      /\ workFiring' = r => workFiring = r
  BY DEF Kept
<1>2. Upto(r, work[r].clear - 1) => Upto(r, work[r].clear - 1)'
  BY <1>1, KeptUpto DEF Upto
<1>3. Upto(r, 0) => Upto(r, 0)'
  BY KeptUpto DEF Upto
<1>4. Quiet(r) => Quiet(r)'
  BY <1>1 DEF Quiet
<1>5. QED
  BY <1>1, <1>2, <1>3, <1>4 DEF WorkOK

LEMMA KeptRelies ==
  ASSUME NEW r \in Pollers, Kept(r), NEW i, Relies(r, i)'
  PROVE  Relies(r, i)
BY PendAssumption, PollAssumption DEF Kept, Relies, Waiting, Pollers

LEMMA KeptNotice ==
  ASSUME UNCHANGED <<polled, cond, handling, sig>>,
         NEW r \in Pollers, Kept(r), NoticeOK(r),
         \A o \in Objs, i \in Nat :
           In(pollEvs[o], <<r, i>>) => In(pollEvs'[o], <<r, i>>),
         polled[r] \in Seq(Objs)
  PROVE  NoticeOK(r)'
<1>1. SUFFICES ASSUME NEW i \in 1..Len(polled[r]), Relies(r, i)',
                      Alone(r, polled[r][i])'
               PROVE  (\/ sig.ev[1] = r
                       \/ /\ In(pollEvs[polled[r][i]], <<r, i>>)
                          /\ cond[polled[r][i]] => handling = polled[r][i])'
  BY DEF NoticeOK
<1>2. Relies(r, i)
  BY <1>1, KeptRelies
<1>3. Alone(r, polled[r][i]) /\ polled[r][i] \in Objs /\ i \in Nat
  BY <1>1 DEF Alone
<1>4. QED
  BY <1>1, <1>2, <1>3 DEF NoticeOK

LEMMA KeptSuccess ==
  ASSUME NEW r \in Threads, poller'[r] = poller[r], SuccessOK(r),
         swapRet'[r] = swapRet[r], sig' = sig, Noted(r) => Noted(r)'
  PROVE  SuccessOK(r)'
BY DEF SuccessOK, HasEvent

(* A step of poller p that may change its own registrations: everybody    *)
(* else is as before.                                                      *)
LEMMA LinkStep ==
  ASSUME PollInv, UNCHANGED <<polled, cond, handling, sig>>,
         PendInv', PollTypeOK', SigOK', EventsOK',
         NEW p, p \in Pollers => PollerOK(p)',
         \A r \in Pollers \ {p} : Kept(r),
         \A r \in Pollers \ {p}, o \in Objs, i \in Nat :
           In(pollEvs[o], <<r, i>>) => In(pollEvs'[o], <<r, i>>),
         \A r \in Threads \ {p} :
           swapRet'[r] = swapRet[r] /\ (Noted(r) => Noted(r)')
  PROVE  PollInv'
<1>1. ASSUME NEW r \in Pollers, r # p PROVE PollerOK(r)'
  <2>1. Kept(r) /\ PollerOK(r) /\ poller'[r] = poller[r] /\ polled[r] \in Seq(Objs)
    BY <1>1 DEF PollInv, Kept, PollTypeOK
  <2>2. CallOK(r)' /\ NoticeOK(r)'
    BY <1>1, <2>1, KeptCall, KeptNotice DEF PollerOK
  <2>3. ASSUME r \in Threads PROVE ThreadOK(r)' /\ SuccessOK(r)'
    BY <1>1, <2>1, <2>3, KeptThread, KeptSuccess DEF PollerOK
  <2>4. ASSUME r \in Works PROVE WorkOK(r)'
    BY <2>1, <2>4, KeptWork DEF PollerOK
  <2>5. QED
    BY <2>2, <2>3, <2>4 DEF PollerOK
<1>2. QED
  BY <1>1 DEF PollInv

(* A step that leaves the lists alone. *)
LEMMA MoveStep ==
  ASSUME PollInv, UNCHANGED <<polled, cond, pollEvs, handling, sig>>,
         PendInv', PollTypeOK', SigOK',
         NEW p, p \in Pollers => PollerOK(p)',
         \A r \in Pollers \ {p} : Kept(r),
         \A r \in Threads \ {p} :
           swapRet'[r] = swapRet[r] /\ (Noted(r) => Noted(r)')
  PROVE  PollInv'
<1>1. EventsOK'
  BY DEF PollInv, EventsOK
<1>2. \A r \in Pollers \ {p}, o \in Objs, i \in Nat :
        In(pollEvs[o], <<r, i>>) => In(pollEvs'[o], <<r, i>>)
  BY DEF In
<1>3. QED
  BY <1>1, <1>2, LinkStep

LEMMA PollInitInv == PendInit /\ PollInit => PollInv
<1>1. SUFFICES ASSUME PendInit, PollInit PROVE PollInv
  OBVIOUS
<1>2. PendInv
  BY <1>1, PendInitInv
<1>3. polled \in [Pollers -> Seq(Objs)]
  BY <1>1, PollAssumption DEF PollInit
<1>4. PollTypeOK
  BY <1>1, <1>3, PollAssumption DEF PollInit, PollTypeOK, PollerStates, WorkStates, Events, RetVals
<1>5. \A o \in Objs : \A x : ~In(pollEvs[o], x)
  BY <1>1 DEF PollInit, In
<1>6. EventsOK /\ \A p, k : Upto(p, k)
  BY <1>1, <1>5 DEF EventsOK, Upto, NoDup, PollInit
<1>7. SigOK
  BY <1>1 DEF SigOK, PollInit, NoSig
<1>8. ASSUME NEW p \in Pollers PROVE PollerOK(p)
  <2>1. poller[p] = [pc |-> "idle", i |-> 0, n |-> 0, polling |-> FALSE, ret |-> "0"]
    BY <1>1, <1>8 DEF PollInit
  <2>2. p \in Threads => pendedOn[p] = None
    BY <1>1 DEF PendInit
  <2>3. p \in Works => work[p] = [own |-> FALSE, trig |-> FALSE, timeout |-> FALSE,
                                  clear |-> 0, queued |-> FALSE, was |-> FALSE]
    BY <1>1 DEF PollInit
  <2>4. workFiring # p
    BY <1>1, <1>8, PendAssumption, PollAssumption DEF PollInit, Pollers
  <2>5. NoticeOK(p)
    BY <2>1, <2>2, <2>3, PendAssumption, PollAssumption
       DEF NoticeOK, Relies, Waiting
  <2>6. CallOK(p)
    BY <2>1 DEF CallOK
  <2>7. p \in Threads => ThreadOK(p) /\ SuccessOK(p)
    BY <1>6, <2>1, <2>2 DEF ThreadOK, SuccessOK
  <2>8. p \in Works => WorkOK(p)
    BY <1>6, <2>1, <2>3, <2>4 DEF WorkOK, Quiet
  <2>9. QED
    BY <2>5, <2>6, <2>7, <2>8 DEF PollerOK
<1>9. QED
  BY <1>2, <1>4, <1>6, <1>7, <1>8 DEF PollInv

(* The environment: timeouts, priorities, suspending, aborting. *)
LEMMA PollOutsideInv ==
  ASSUME PollInv, UNCHANGED pollVars, PendInv', swapRet' = swapRet,
         \A t \in Threads : pendedOn'[t] \in {pendedOn[t], None}
  PROVE  PollInv'
<1>1. /\ UNCHANGED <<polled, cond, pollEvs, handling, sig>>
      /\ UNCHANGED <<evReady, poller, work, workFiring>>
  BY DEF pollVars, objVars
<1>2. PollTypeOK'
  BY <1>1 DEF PollInv, PollTypeOK
<1>3. SigOK'
  BY <1>1 DEF PollInv, SigOK
<1>4. \A r \in Pollers \ {None} : Kept(r)
  BY <1>1 DEF Kept, In
<1>5. \A r \in Threads \ {None} :
        swapRet'[r] = swapRet[r] /\ (Noted(r) => Noted(r)')
  BY <1>1 DEF Noted
<1>6. None \notin Pollers
  BY PendAssumption, PollAssumption DEF Pollers
<1>7. QED
  BY <1>1, <1>2, <1>3, <1>4, <1>5, <1>6, MoveStep

LEMMA PollEnvironmentInv ==
  ASSUME PollInv, PollEnvironment
  PROVE  PollInv'
<1>1. PendInv /\ Outside /\ UNCHANGED pollVars
  BY DEF PollInv, PollEnvironment
<1>2. QED
  BY <1>1, OutsideInv, OutsideFacts, PollOutsideInv

LEMMA PollAbortInv ==
  ASSUME PollInv, NEW t \in Victims, PollAbort(t)
  PROVE  PollInv'
<1>1. PendInv /\ Abort(t) /\ UNCHANGED pollVars /\ t \in Threads
  BY PendAssumption DEF PollInv, PollAbort
<1>2. swapRet' = swapRet /\ \A u \in Threads : pendedOn'[u] \in {pendedOn[u], None}
  BY <1>1, AbortFacts
<1>3. QED
  BY <1>1, <1>2, AbortInv, PollOutsideInv

-----------------------------------------------------------------------------
(* The steps of k_poll that touch no list.                                 *)

LEMMA PollStartInv ==
  ASSUME PollInv, NEW t \in Threads, PollStart(t)
  PROVE  PollInv'
<1>0. t \in Pollers /\ PendInv /\ PollTypeOK /\ PollerOK(t)
  BY DEF PollInv, Pollers
<1>1. /\ UNCHANGED pendVars
      /\ UNCHANGED <<polled, cond, pollEvs, handling, sig, work, workFiring>>
      /\ poller[t].pc = "idle" /\ polled[t] # <<>>
      /\ poller' = [poller EXCEPT ![t] = [pc |-> "register", i |-> 1, n |-> 0,
                                          polling |-> TRUE, ret |-> "0"]]
      /\ evReady' = evReady \ Range(NotYet(t))
  BY DEF PollStart
<1>2. UNCHANGED <<pendedOn, swapRet>>
  BY <1>1 DEF pendVars
<1>3. poller'[t] = [pc |-> "register", i |-> 1, n |-> 0, polling |-> TRUE, ret |-> "0"]
  BY <1>0, <1>1 DEF PollTypeOK, PollerStates
<1>4. \A r \in Pollers \ {t} : poller'[r] = poller[r]
  BY <1>0, <1>1 DEF PollTypeOK
<1>5. PendInv'
  BY <1>0, <1>1, PendStutterInv
<1>6. PollTypeOK'
  <2>1. poller' \in [Pollers -> PollerStates]
    BY <1>0, <1>1 DEF PollTypeOK, PollerStates, RetVals
  <2>2. QED
    BY <1>0, <1>1, <2>1 DEF PollTypeOK
<1>7. SigOK'
  BY <1>1, <1>2, <1>4, PollAssumption DEF PollInv, SigOK, Pollers
<1>8. \A r \in Pollers \ {t} : Kept(r)
  BY <1>1, <1>2, <1>4 DEF Kept, In
<1>9. \A r \in Threads \ {t} :
        swapRet'[r] = swapRet[r] /\ (Noted(r) => Noted(r)')
  <2>1. ASSUME NEW e \in Range(NotYet(t)) PROVE e[1] = t
    <3>1. PICK x \in DOMAIN NotYet(t) : e = NotYet(t)[x]
      BY DEF Range
    <3>2. QED
      BY <3>1 DEF NotYet
  <2>2. QED
    BY <1>1, <1>2, <2>1 DEF Noted
<1>10. PollerOK(t)'
  <2>1. Upto(t, 0) /\ pendedOn[t] = None /\ t \notin Works
    BY <1>0, <1>1, PollAssumption DEF PollerOK, ThreadOK
  <2>2. Upto(t, 0)'
    BY <1>1, <2>1 DEF Upto
  <2>3. 1 <= Len(polled[t]) + 1 /\ polled'[t] # <<>> /\ Len(polled'[t]) = Len(polled[t])
    <3>1. Len(polled[t]) \in Nat
      BY <1>0 DEF PollTypeOK
    <3>2. QED
      BY <1>1, <3>1
  <2>4. CallOK(t)'
    BY <1>3, <2>2, <2>3 DEF CallOK
  <2>5. ThreadOK(t)' /\ SuccessOK(t)'
    BY <1>2, <1>3, <2>1 DEF ThreadOK, SuccessOK
  <2>6. NoticeOK(t)'
    BY <1>2, <1>3 DEF NoticeOK, Relies, Waiting
  <2>7. QED
    BY <2>1, <2>4, <2>5, <2>6 DEF PollerOK
<1>11. QED
  BY <1>1, <1>5, <1>6, <1>7, <1>8, <1>9, <1>10, MoveStep

LEMMA PollReadyInv ==
  ASSUME PollInv, NEW t \in Threads, PollReady(t)
  PROVE  PollInv'
<1>0. t \in Pollers /\ PendInv /\ PollTypeOK /\ PollerOK(t) /\ t \notin Works
  BY PollAssumption DEF PollInv, Pollers
<1>1. /\ UNCHANGED pendVars
      /\ UNCHANGED <<polled, cond, pollEvs, handling, sig, evReady, work, workFiring>>
      /\ poller[t].pc = "register" /\ ~poller[t].polling
      /\ sig = NoSig
      /\ poller' = [poller EXCEPT ![t].pc = "clear", ![t].i = poller[t].n]
  BY DEF PollReady, objVars, Registered, LockFree
<1>2. UNCHANGED <<pendedOn, swapRet>>
  BY <1>1 DEF pendVars
<1>3. /\ poller'[t].pc = "clear" /\ poller'[t].i = poller[t].n
      /\ poller'[t].ret = poller[t].ret
  BY <1>0, <1>1 DEF PollTypeOK, PollerStates
<1>4. \A r \in Pollers \ {t} : poller'[r] = poller[r]
  BY <1>0, <1>1 DEF PollTypeOK
<1>5. PendInv'
  BY <1>0, <1>1, PendStutterInv
<1>6. PollTypeOK'
  <2>1. poller' \in [Pollers -> PollerStates]
    BY ZenonT(60), <1>0, <1>1 DEF PollTypeOK, PollerStates
  <2>2. QED
    BY <1>0, <1>1, <2>1 DEF PollTypeOK
<1>7. SigOK'
  BY <1>1 DEF SigOK, NoSig
<1>8. \A r \in Pollers \ {t} : Kept(r)
  BY <1>1, <1>2, <1>4 DEF Kept, In
<1>9. \A r \in Threads : swapRet'[r] = swapRet[r] /\ (Noted(r) => Noted(r)')
  BY <1>1, <1>2 DEF Noted
<1>10. PollerOK(t)'
  <2>1. /\ Upto(t, poller[t].n) /\ pendedOn[t] = None /\ (~CancelEarly => Noted(t))
        /\ poller[t].n \in Nat /\ poller[t].i \in Nat /\ Len(polled[t]) \in Nat
        /\ poller[t].n < poller[t].i /\ poller[t].i <= Len(polled[t]) + 1
    BY <1>0, <1>1 DEF PollerOK, ThreadOK, SuccessOK, CallOK, PollTypeOK, PollerStates
  <2>2. Upto(t, poller[t].i)'
    BY <1>1, <1>3, <2>1 DEF Upto
  <2>3. CallOK(t)'
    <3>1. poller'[t].i <= Len(polled'[t])
      BY <1>1, <1>3, <2>1
    <3>2. QED
      BY <1>3, <2>2, <3>1 DEF CallOK
  <2>4. ThreadOK(t)' /\ SuccessOK(t)'
    BY <1>2, <1>3, <1>9, <2>1 DEF ThreadOK, SuccessOK, HasEvent
  <2>5. NoticeOK(t)'
    BY <1>3 DEF NoticeOK, Relies, Waiting
  <2>6. QED
    BY <1>0, <2>3, <2>4, <2>5 DEF PollerOK
<1>11. QED
  BY <1>1, <1>5, <1>6, <1>7, <1>8, <1>9, <1>10, MoveStep

LEMMA PollPendInv ==
  ASSUME PollInv, NEW t \in Threads, NEW fv \in BOOLEAN, PollPend(t, fv)
  PROVE  PollInv'
<1>0. t \in Pollers /\ PendInv /\ PollTypeOK /\ PollerOK(t) /\ t \notin Works
  BY PollAssumption DEF PollInv, Pollers
<1>1. /\ PendCurr(t, PollQ, fv) /\ runnable[t]
      /\ UNCHANGED <<polled, cond, pollEvs, handling, sig, evReady, work, workFiring>>
      /\ poller[t].pc = "register" /\ poller[t].polling
      /\ poller[t].i > Len(polled[t])
      /\ sig = NoSig
      /\ poller' = [poller EXCEPT ![t].pc = "wait", ![t].polling = FALSE]
  BY DEF PollPend, objVars, Registered, LockFree
<1>2. /\ pendedOn' = [pendedOn EXCEPT ![t] = PollQ]
      /\ swapRet' = [swapRet EXCEPT ![t] = "EAGAIN"]
  BY <1>1 DEF PendCurr
<1>3. /\ poller'[t].pc = "wait" /\ poller'[t].i = poller[t].i
      /\ poller'[t].n = poller[t].n
  BY <1>0, <1>1 DEF PollTypeOK, PollerStates
<1>4. \A r \in Pollers \ {t} : poller'[r] = poller[r]
  BY <1>0, <1>1 DEF PollTypeOK
<1>5. PendInv'
  BY <1>0, <1>1, PendCurrInv, PollAssumption
<1>6. PollTypeOK'
  <2>1. poller' \in [Pollers -> PollerStates]
    BY <1>0, <1>1 DEF PollTypeOK, PollerStates
  <2>2. QED
    BY <1>0, <1>1, <2>1 DEF PollTypeOK
<1>7. SigOK'
  BY <1>1 DEF SigOK, NoSig
<1>8. /\ pendedOn'[t] = PollQ /\ swapRet'[t] = "EAGAIN"
      /\ \A r \in Threads \ {t} : pendedOn'[r] = pendedOn[r] /\ swapRet'[r] = swapRet[r]
  BY <1>0, <1>2 DEF PendInv, PendTypeOK
<1>9. \A r \in Pollers \ {t} : Kept(r)
  BY <1>1, <1>4, <1>8 DEF Kept, In
<1>10. \A r \in Threads \ {t} : swapRet'[r] = swapRet[r] /\ (Noted(r) => Noted(r)')
  BY <1>1, <1>8 DEF Noted
<1>11. PollerOK(t)'
  <2>1. /\ Upto(t, poller[t].n) /\ polled[t] # <<>>
        /\ poller[t].n \in Nat /\ poller[t].i \in Nat /\ Len(polled[t]) \in Nat
        /\ poller[t].n = poller[t].i - 1 /\ poller[t].i <= Len(polled[t]) + 1
        /\ polled[t] \in Seq(Objs)
    BY <1>0, <1>1 DEF PollerOK, CallOK, PollTypeOK, PollerStates
  <2>2. Len(polled[t]) # 0
    BY <2>1, EmptySeq
  <2>3. poller[t].n = Len(polled[t]) /\ 1 <= poller[t].n
    BY <1>1, <2>1, <2>2
  <2>4. Upto(t, poller[t].n)'
    BY <1>1, <1>3, <2>1 DEF Upto
  <2>5. CallOK(t)'
    BY <1>3 DEF CallOK
  <2>6. ThreadOK(t)' /\ SuccessOK(t)'
    <3>1. 1 <= poller'[t].n /\ poller'[t].n <= Len(polled'[t])
      BY <1>1, <1>3, <2>1, <2>3
    <3>2. QED
      BY <1>3, <1>8, <2>4, <3>1 DEF ThreadOK, SuccessOK
  <2>7. NoticeOK(t)'
    <3>1. SUFFICES ASSUME NEW i \in 1..Len(polled[t]), Alone(t, polled[t][i])'
                   PROVE  /\ In(pollEvs[polled[t][i]], <<t, i>>)
                          /\ cond[polled[t][i]] => handling = polled[t][i]
      BY <1>1 DEF NoticeOK
    <3>2. Alone(t, polled[t][i])
      BY <1>1, <3>1 DEF Alone
    <3>3. Relies(t, i)
      BY <1>1, <2>1, <3>1 DEF Relies
    <3>4. sig.ev[1] # t
      BY <1>1, PendAssumption DEF NoSig
    <3>5. QED
      BY <1>0, <3>2, <3>3, <3>4 DEF PollerOK, NoticeOK
  <2>8. QED
    BY <1>0, <2>5, <2>6, <2>7 DEF PollerOK
<1>12. QED
  BY <1>1, <1>5, <1>6, <1>7, <1>9, <1>10, <1>11, MoveStep

LEMMA PollWokenInv ==
  ASSUME PollInv, NEW t \in Threads, PollWoken(t)
  PROVE  PollInv'
<1>0. t \in Pollers /\ PendInv /\ PollTypeOK /\ PollerOK(t) /\ t \notin Works
  BY PollAssumption DEF PollInv, Pollers
<1>1. /\ UNCHANGED pendVars /\ runnable[t]
      /\ UNCHANGED <<polled, cond, pollEvs, handling, sig, evReady, work, workFiring>>
      /\ poller[t].pc = "wait"
      /\ poller' = [poller EXCEPT ![t].pc = "clear", ![t].i = poller[t].n,
                                  ![t].ret = swapRet[t]]
  BY DEF PollWoken, objVars
<1>2. UNCHANGED <<pendedOn, swapRet>>
  BY <1>1 DEF pendVars
<1>3. /\ poller'[t].pc = "clear" /\ poller'[t].i = poller[t].n
      /\ poller'[t].ret = swapRet[t]
  BY <1>0, <1>1 DEF PollTypeOK, PollerStates
<1>4. \A r \in Pollers \ {t} : poller'[r] = poller[r]
  BY <1>0, <1>1 DEF PollTypeOK
<1>5. PendInv'
  BY <1>0, <1>1, PendStutterInv
<1>6. PollTypeOK'
  <2>1. swapRet[t] \in RetVals
    BY <1>0 DEF PendInv, PendTypeOK
  <2>2. poller' \in [Pollers -> PollerStates]
    <3>1. poller \in [Pollers -> PollerStates]
      BY <1>0 DEF PollTypeOK
    <3>2. [poller[t] EXCEPT !.pc = "clear", !.i = poller[t].n, !.ret = swapRet[t]]
            \in PollerStates
      BY <1>0, <2>1, <3>1 DEF PollerStates
    <3>3. QED
      BY <1>0, <1>1, <3>1, <3>2
  <2>3. QED
    BY <1>0, <1>1, <2>2 DEF PollTypeOK
<1>7. /\ Upto(t, poller[t].n) /\ pendedOn[t] = None
      /\ poller[t].n \in Nat /\ 1 <= poller[t].n /\ poller[t].n <= Len(polled[t])
      /\ ~CancelEarly /\ swapRet[t] = "0" => HasEvent(t)
  BY <1>0, <1>1 DEF PollerOK, ThreadOK, SuccessOK, PollTypeOK, PollerStates, PendInv,
              RunnableIsFree
<1>8. SigOK'
  <2>1. sig.st \in {"unpended", "stored"} => sig.ev[1] \in Pollers
    BY DEF PollInv, SigOK, Pollers
  <2>2. sig.st = "work" => sig.ev[1] # t /\ sig.ev[1] \in Pollers
    BY <1>0 DEF PollInv, SigOK, Pollers
  <2>3. poller'[t].i > 0
    BY <1>3, <1>7
  <2>4. sig.st = "work" => poller'[sig.ev[1]] = poller[sig.ev[1]]
    BY <1>4, <2>2
  <2>5. sig.st \in {"unpended", "stored"} =>
          sig.ev[1] = t \/ poller'[sig.ev[1]] = poller[sig.ev[1]]
    BY <1>4, <2>1
  <2>6. QED
    BY <1>1, <1>2, <1>3, <2>3, <2>4, <2>5 DEF PollInv, SigOK
<1>9. \A r \in Pollers \ {t} : Kept(r)
  BY <1>1, <1>2, <1>4 DEF Kept, In
<1>10. \A r \in Threads : swapRet'[r] = swapRet[r] /\ (Noted(r) => Noted(r)')
  BY <1>1, <1>2 DEF Noted
<1>11. PollerOK(t)'
  <2>1. Upto(t, poller[t].i)'
    BY <1>1, <1>3, <1>7 DEF Upto
  <2>2. CallOK(t)'
    BY <1>1, <1>3, <1>7, <2>1 DEF CallOK
  <2>3. ThreadOK(t)' /\ SuccessOK(t)'
    BY <1>1, <1>2, <1>3, <1>7, <1>10 DEF ThreadOK, SuccessOK, HasEvent
  <2>4. NoticeOK(t)'
    BY <1>3 DEF NoticeOK, Relies, Waiting
  <2>5. QED
    BY <1>0, <2>2, <2>3, <2>4 DEF PollerOK
<1>12. QED
  BY <1>1, <1>5, <1>6, <1>8, <1>9, <1>10, <1>11, MoveStep

LEMMA PollReturnInv ==
  ASSUME PollInv, NEW t \in Threads, PollReturn(t)
  PROVE  PollInv'
<1>0. t \in Pollers /\ PendInv /\ PollTypeOK /\ PollerOK(t) /\ t \notin Works
  BY PollAssumption DEF PollInv, Pollers
<1>1. /\ UNCHANGED pendVars /\ runnable[t]
      /\ UNCHANGED <<polled, cond, pollEvs, handling, sig, evReady, work, workFiring>>
      /\ poller[t].pc = "clear" /\ poller[t].i = 0
      /\ poller' = [poller EXCEPT ![t].pc = "idle", ![t].n = 0]
  BY DEF PollReturn, objVars, Cleared
<1>2. UNCHANGED <<pendedOn, swapRet>>
  BY <1>1 DEF pendVars
<1>3. poller'[t].pc = "idle"
  BY <1>0, <1>1 DEF PollTypeOK, PollerStates
<1>4. \A r \in Pollers \ {t} : poller'[r] = poller[r]
  BY <1>0, <1>1 DEF PollTypeOK
<1>5. PendInv'
  BY <1>0, <1>1, PendStutterInv
<1>6. PollTypeOK'
  <2>1. poller' \in [Pollers -> PollerStates]
    <3>1. poller \in [Pollers -> PollerStates]
      BY <1>0 DEF PollTypeOK
    <3>2. [poller[t] EXCEPT !.pc = "idle", !.n = 0] \in PollerStates
      BY <1>0, <3>1 DEF PollerStates
    <3>3. QED
      BY <1>0, <1>1, <3>1, <3>2
  <2>2. QED
    BY <1>0, <1>1, <2>1 DEF PollTypeOK
<1>7. Upto(t, 0) /\ pendedOn[t] = None
  BY <1>0, <1>1 DEF PollerOK, CallOK, PendInv, RunnableIsFree
<1>8. SigOK'
  <2>1. sig.st \in {"unpended", "stored", "work"} => sig.ev[1] # t /\ sig.ev[1] \in Pollers
    BY <1>0, <1>1 DEF PollInv, SigOK, Pollers
  <2>2. QED
    BY <1>1, <1>2, <1>4, <2>1 DEF PollInv, SigOK
<1>9. \A r \in Pollers \ {t} : Kept(r)
  BY <1>1, <1>2, <1>4 DEF Kept, In
<1>10. \A r \in Threads : swapRet'[r] = swapRet[r] /\ (Noted(r) => Noted(r)')
  BY <1>1, <1>2 DEF Noted
<1>11. PollerOK(t)'
  <2>1. Upto(t, 0)'
    BY <1>1, <1>7 DEF Upto
  <2>2. CallOK(t)' /\ NoticeOK(t)'
    BY <1>3 DEF CallOK, NoticeOK, Relies, Waiting
  <2>3. ThreadOK(t)' /\ SuccessOK(t)'
    BY <1>2, <1>3, <1>7, <2>1 DEF ThreadOK, SuccessOK
  <2>4. QED
    BY <1>0, <2>2, <2>3 DEF PollerOK
<1>12. QED
  BY <1>1, <1>5, <1>6, <1>8, <1>9, <1>10, <1>11, MoveStep

-----------------------------------------------------------------------------
(* The steps of a triggered work item that touch no list.  They are taken  *)
(* on one CPU, outside poll.c's lock.                                      *)

LEMMA WorkAlone ==
  ASSUME WorksAreSafe, NEW w \in Works, PollOthers
  PROVE  ~SMP /\ ~CancelNested /\ sig = NoSig /\ handling = None
BY DEF WorksAreSafe, PollOthers, LockFree

LEMMA WorkMove ==
  ASSUME PollInv, UNCHANGED pendVars, NEW w \in Works, sig = NoSig,
         UNCHANGED <<polled, cond, pollEvs, handling, sig>>,
         evReady' = evReady \/ evReady' = evReady \ Range(NotYet(w)),
         poller' \in [Pollers -> PollerStates], work' \in [Works -> WorkStates],
         \A r \in Pollers \ {w} : poller'[r] = poller[r],
         \A r \in Works \ {w} : work'[r] = work[r],
         workFiring' \in {workFiring, w, None},
         CallOK(w)', NoticeOK(w)', WorkOK(w)'
  PROVE  PollInv'
<1>0. w \in Pollers /\ w \notin Threads /\ PendInv /\ PollTypeOK
  BY PollAssumption DEF PollInv, Pollers
<1>1. UNCHANGED <<pendedOn, swapRet>> /\ PendInv'
  BY <1>0, PendStutterInv DEF pendVars
<1>2. PollTypeOK'
  BY <1>0 DEF PollTypeOK
<1>3. SigOK'
  BY DEF SigOK, NoSig
<1>4. \A r \in Pollers \ {w} : Kept(r)
  BY <1>1, PollAssumption DEF Kept, In
<1>5. \A r \in Threads \ {w} : swapRet'[r] = swapRet[r] /\ (Noted(r) => Noted(r)')
  <2>1. ASSUME NEW e \in Range(NotYet(w)) PROVE e[1] = w
    <3>1. PICK x \in DOMAIN NotYet(w) : e = NotYet(w)[x]
      BY DEF Range
    <3>2. QED
      BY <3>1 DEF NotYet
  <2>2. QED
    BY <1>1, <2>1 DEF Noted
<1>6. PollerOK(w)'
  BY <1>0 DEF PollerOK
<1>7. QED
  BY <1>2, <1>1, <1>3, <1>4, <1>5, <1>6, MoveStep

LEMMA WorkSubmitInv ==
  ASSUME PollInv, WorksAreSafe, NEW w \in Works, WorkSubmit(w)
  PROVE  PollInv'
<1>0. w \in Pollers /\ w \notin Threads /\ PollTypeOK /\ WorkOK(w)
  BY PollAssumption DEF PollInv, Pollers, PollerOK
<1>1. /\ UNCHANGED pendVars /\ sig = NoSig
      /\ UNCHANGED <<polled, cond, pollEvs, handling, sig, workFiring>>
      /\ poller[w].pc = "idle" /\ ~work[w].own /\ polled[w] # <<>>
      /\ work' = [work EXCEPT ![w].own = TRUE, ![w].trig = FALSE]
      /\ poller' = [poller EXCEPT ![w] = [pc |-> "register", i |-> 1, n |-> 0,
                                          polling |-> TRUE, ret |-> "0"]]
      /\ evReady' = evReady \ Range(NotYet(w))
  BY DEF WorkSubmit, LockFree
<1>2. /\ poller \in [Pollers -> PollerStates] /\ work \in [Works -> WorkStates]
      /\ Len(polled[w]) \in Nat
  BY <1>0 DEF PollTypeOK
<1>3. poller' \in [Pollers -> PollerStates]
  BY <1>1, <1>2 DEF PollerStates, RetVals
<1>4. work' \in [Works -> WorkStates]
  BY <1>1, <1>2 DEF WorkStates
<1>5. /\ poller'[w] = [pc |-> "register", i |-> 1, n |-> 0, polling |-> TRUE, ret |-> "0"]
      /\ \A r \in Pollers \ {w} : poller'[r] = poller[r]
  BY <1>0, <1>1, <1>2
<1>6. /\ work'[w].own /\ ~work'[w].trig /\ work'[w].timeout = work[w].timeout
      /\ work'[w].queued = work[w].queued /\ work'[w].clear = work[w].clear
      /\ \A r \in Works \ {w} : work'[r] = work[r]
  BY <1>1, <1>2 DEF WorkStates
<1>7. Upto(w, 0) /\ Quiet(w)
  BY <1>0, <1>1 DEF WorkOK
<1>8. Upto(w, 0)' /\ Quiet(w)'
  BY <1>1, <1>6, <1>7 DEF Upto, Quiet
<1>9. CallOK(w)'
  BY <1>1, <1>2, <1>5, <1>8 DEF CallOK
<1>10. NoticeOK(w)'
  BY <1>0, <1>5 DEF NoticeOK, Relies, Waiting
<1>11. WorkOK(w)'
  BY <1>5, <1>6, <1>8 DEF WorkOK
<1>12. QED
  BY <1>1, <1>3, <1>4, <1>5, <1>6, <1>9, <1>10, <1>11, WorkMove

LEMMA WorkArmInv ==
  ASSUME PollInv, WorksAreSafe, NEW w \in Works, NEW tm \in BOOLEAN, WorkArm(w, tm)
  PROVE  PollInv'
<1>0. w \in Pollers /\ w \notin Threads /\ PollTypeOK /\ PollerOK(w)
  BY PollAssumption DEF PollInv, Pollers
<1>1. /\ UNCHANGED pendVars /\ sig = NoSig
      /\ UNCHANGED <<polled, cond, pollEvs, handling, sig, evReady, workFiring>>
      /\ poller[w].pc = "register" /\ poller[w].i > Len(polled[w]) /\ poller[w].polling
      /\ work' = [work EXCEPT ![w].trig = TRUE, ![w].timeout = tm]
      /\ poller' = [poller EXCEPT ![w].pc = "idle"]
  BY DEF WorkArm, LockFree, Registered, objVars
<1>2. /\ poller \in [Pollers -> PollerStates] /\ work \in [Works -> WorkStates]
      /\ Len(polled[w]) \in Nat
  BY <1>0 DEF PollTypeOK
<1>3. poller' \in [Pollers -> PollerStates]
  BY <1>1, <1>2 DEF PollerStates
<1>4. work' \in [Works -> WorkStates]
  BY <1>1, <1>2 DEF WorkStates
<1>5. /\ poller'[w].pc = "idle" /\ poller'[w].polling
      /\ \A r \in Pollers \ {w} : poller'[r] = poller[r]
  BY <1>0, <1>1, <1>2 DEF PollerStates
<1>6. /\ work'[w].own = work[w].own /\ work'[w].trig
      /\ work'[w].queued = work[w].queued /\ work'[w].clear = work[w].clear
      /\ \A r \in Works \ {w} : work'[r] = work[r]
  BY <1>1, <1>2 DEF WorkStates
<1>7. work[w].own /\ Quiet(w)
  BY <1>0, <1>1 DEF PollerOK, WorkOK
<1>8. CallOK(w)'
  BY <1>5 DEF CallOK
<1>9. NoticeOK(w)'
  <2>1. SUFFICES ASSUME NEW i \in 1..Len(polled[w]), Alone(w, polled[w][i])'
                 PROVE  /\ In(pollEvs[polled[w][i]], <<w, i>>)
                        /\ cond[polled[w][i]] => handling = polled[w][i]
    BY <1>1 DEF NoticeOK
  <2>2. Alone(w, polled[w][i])
    BY <1>1, <2>1 DEF Alone
  <2>3. i < poller[w].i
    BY <1>0, <1>1, <1>2, <2>1 DEF PollerStates
  <2>4. sig.ev[1] # w
    BY <1>1, PollAssumption DEF NoSig
  <2>5. QED
    BY <1>0, <1>1, <2>2, <2>3, <2>4 DEF PollerOK, NoticeOK, Relies
<1>10. WorkOK(w)'
  BY <1>1, <1>5, <1>6, <1>7 DEF WorkOK, Quiet
<1>11. QED
  BY <1>1, <1>3, <1>4, <1>5, <1>6, <1>8, <1>9, <1>10, WorkMove

LEMMA WorkReadyInv ==
  ASSUME PollInv, WorksAreSafe, NEW w \in Works, WorkReady(w)
  PROVE  PollInv'
<1>0. w \in Pollers /\ w \notin Threads /\ PollTypeOK /\ PollerOK(w)
  BY PollAssumption DEF PollInv, Pollers
<1>1. /\ UNCHANGED pendVars /\ sig = NoSig
      /\ UNCHANGED <<polled, cond, pollEvs, handling, sig, evReady, workFiring, work>>
      /\ poller[w].pc = "register"
      /\ poller' = [poller EXCEPT ![w].pc = "clear", ![w].i = poller[w].n,
                                  ![w].polling = FALSE, ![w].ret = "0"]
  BY DEF WorkReady, LockFree, Registered, objVars
<1>2. /\ poller \in [Pollers -> PollerStates] /\ work \in [Works -> WorkStates]
      /\ Len(polled[w]) \in Nat
  BY <1>0 DEF PollTypeOK
<1>3. poller' \in [Pollers -> PollerStates]
  <2>1. [poller[w] EXCEPT !.pc = "clear", !.i = poller[w].n, !.polling = FALSE,
                          !.ret = "0"] \in PollerStates
    BY <1>0, <1>2 DEF PollerStates, RetVals
  <2>2. QED
    BY <1>0, <1>1, <1>2, <2>1
<1>4. /\ poller'[w].pc = "clear" /\ poller'[w].i = poller[w].n /\ ~poller'[w].polling
      /\ poller[w].n \in Nat /\ poller[w].i \in Nat
      /\ \A r \in Pollers \ {w} : poller'[r] = poller[r]
  BY <1>0, <1>1, <1>2 DEF PollerStates
<1>5. /\ Upto(w, poller[w].n)
      /\ poller[w].n < poller[w].i /\ poller[w].i <= Len(polled[w]) + 1
      /\ work[w].own /\ ~work[w].trig /\ Quiet(w)
  BY <1>0, <1>1 DEF PollerOK, CallOK, WorkOK
<1>6. Upto(w, poller[w].i)' /\ Quiet(w)'
  BY <1>1, <1>4, <1>5 DEF Upto, Quiet
<1>7. CallOK(w)'
  <2>1. poller'[w].i <= Len(polled'[w])
    BY <1>1, <1>2, <1>4, <1>5
  <2>2. QED
    BY <1>4, <1>6, <2>1 DEF CallOK
<1>8. NoticeOK(w)'
  BY <1>0, <1>4 DEF NoticeOK, Relies, Waiting
<1>9. WorkOK(w)'
  BY <1>1, <1>4, <1>5, <1>6 DEF WorkOK
<1>10. QED
  BY <1>1, <1>2, <1>3, <1>4, <1>7, <1>8, <1>9, WorkMove

LEMMA WorkSubmittedInv ==
  ASSUME PollInv, WorksAreSafe, NEW w \in Works, WorkSubmitted(w)
  PROVE  PollInv'
<1>0. w \in Pollers /\ w \notin Threads /\ PollTypeOK /\ PollerOK(w)
  BY PollAssumption DEF PollInv, Pollers
<1>1. /\ UNCHANGED pendVars /\ sig = NoSig
      /\ UNCHANGED <<polled, cond, pollEvs, handling, sig, evReady, workFiring>>
      /\ poller[w].pc = "clear" /\ poller[w].i = 0 /\ poller[w].ret = "0"
      /\ work' = [work EXCEPT ![w].queued = @ \/ TRUE \/ work[w].was,
                              ![w].was = @ \/ TRUE]
      /\ poller' = [poller EXCEPT ![w].pc = "idle"]
  BY WorkAlone DEF WorkSubmitted, Cleared, Queued, objVars
<1>2. /\ poller \in [Pollers -> PollerStates] /\ work \in [Works -> WorkStates]
  BY <1>0 DEF PollTypeOK
<1>3. poller' \in [Pollers -> PollerStates]
  BY <1>1, <1>2 DEF PollerStates
<1>4. work' \in [Works -> WorkStates]
  BY ZenonT(60), <1>1, <1>2 DEF WorkStates
<1>5. /\ poller'[w].pc = "idle" /\ poller'[w].polling = poller[w].polling
      /\ \A r \in Pollers \ {w} : poller'[r] = poller[r]
  BY <1>0, <1>1, <1>2 DEF PollerStates
<1>6. /\ work'[w].own = work[w].own /\ work'[w].trig = work[w].trig
      /\ work'[w].queued /\ work'[w].clear = work[w].clear
      /\ work'[w].timeout = work[w].timeout
      /\ \A r \in Works \ {w} : work'[r] = work[r]
  BY <1>1, <1>2 DEF WorkStates
<1>7. work[w].own /\ ~work[w].trig /\ Quiet(w) /\ ~poller[w].polling /\ Upto(w, 0)
  BY <1>0, <1>1 DEF PollerOK, WorkOK, CallOK
<1>8. Upto(w, 0)'
  BY <1>1, <1>7 DEF Upto
<1>9. CallOK(w)' /\ NoticeOK(w)'
  BY <1>0, <1>5, <1>7 DEF CallOK, NoticeOK, Relies, Waiting
<1>10. WorkOK(w)'
  BY <1>1, <1>5, <1>6, <1>7, <1>8 DEF WorkOK, Quiet
<1>11. QED
  BY <1>1, <1>3, <1>4, <1>5, <1>6, <1>9, <1>10, WorkMove

LEMMA WorkCancelInv ==
  ASSUME PollInv, WorksAreSafe, NEW w \in Works, WorkCancel(w)
  PROVE  PollInv'
<1>0. w \in Pollers /\ w \notin Threads /\ PollTypeOK /\ PollerOK(w) /\ EventsOK
  BY PollAssumption DEF PollInv, Pollers
<1>1. /\ UNCHANGED pendVars /\ sig = NoSig /\ workFiring = None
      /\ UNCHANGED <<polled, cond, pollEvs, handling, sig, evReady, workFiring>>
      /\ poller[w].pc = "idle" /\ poller[w].polling /\ work[w].trig
      /\ work' = [work EXCEPT ![w].timeout = FALSE, ![w].trig = FALSE]
      /\ poller' = [poller EXCEPT ![w].pc = "clear", ![w].i = Len(polled[w]),
                                  ![w].ret = "cancelled"]
  BY WorkAlone DEF WorkCancel, objVars
<1>2. /\ poller \in [Pollers -> PollerStates] /\ work \in [Works -> WorkStates]
      /\ Len(polled[w]) \in Nat
  BY <1>0 DEF PollTypeOK
<1>3. poller' \in [Pollers -> PollerStates]
  <2>1. [poller[w] EXCEPT !.pc = "clear", !.i = Len(polled[w]), !.ret = "cancelled"]
          \in PollerStates
    BY <1>0, <1>2 DEF PollerStates
  <2>2. QED
    BY <1>0, <1>1, <1>2, <2>1
<1>4. work' \in [Works -> WorkStates]
  BY <1>1, <1>2 DEF WorkStates
<1>5. /\ poller'[w].pc = "clear" /\ poller'[w].i = Len(polled[w])
      /\ poller'[w].ret = "cancelled"
      /\ \A r \in Pollers \ {w} : poller'[r] = poller[r]
  BY <1>0, <1>1, <1>2 DEF PollerStates
<1>6. /\ work'[w].own = work[w].own /\ ~work'[w].trig /\ ~work'[w].timeout
      /\ work'[w].queued = work[w].queued /\ work'[w].clear = work[w].clear
      /\ \A r \in Works \ {w} : work'[r] = work[r]
  BY <1>1, <1>2 DEF WorkStates
<1>7. work[w].own /\ ~work[w].queued /\ work[w].clear = 0
  BY <1>0, <1>1 DEF PollerOK, WorkOK
<1>8. Upto(w, Len(polled[w]))
  BY <1>0 DEF Upto, EventsOK
<1>9. Upto(w, poller[w].i)'
  BY <1>1, <1>5, <1>8 DEF Upto
<1>10. CallOK(w)' /\ NoticeOK(w)'
  BY <1>0, <1>1, <1>2, <1>5, <1>9 DEF CallOK, NoticeOK, Relies, Waiting
<1>11. WorkOK(w)'
  BY <1>1, <1>5, <1>6, <1>7, PollAssumption DEF WorkOK, Quiet
<1>12. QED
  BY <1>1, <1>3, <1>4, <1>5, <1>6, <1>10, <1>11, WorkMove

LEMMA WorkCancelledInv ==
  ASSUME PollInv, WorksAreSafe, NEW w \in Works, WorkCancelled(w)
  PROVE  PollInv'
<1>0. w \in Pollers /\ w \notin Threads /\ PollTypeOK /\ PollerOK(w)
  BY PollAssumption DEF PollInv, Pollers
<1>1. /\ UNCHANGED pendVars /\ sig = NoSig
      /\ UNCHANGED <<polled, cond, pollEvs, handling, sig, evReady, workFiring>>
      /\ poller[w].pc = "clear" /\ poller[w].i = 0
      /\ work' = [work EXCEPT ![w].own = FALSE]
      /\ poller' = [poller EXCEPT ![w].pc = "idle", ![w].n = 0]
  BY WorkAlone DEF WorkCancelled, Cleared, objVars
<1>2. /\ poller \in [Pollers -> PollerStates] /\ work \in [Works -> WorkStates]
  BY <1>0 DEF PollTypeOK
<1>3. poller' \in [Pollers -> PollerStates]
  <2>1. [poller[w] EXCEPT !.pc = "idle", !.n = 0] \in PollerStates
    BY <1>0, <1>2 DEF PollerStates
  <2>2. QED
    BY <1>0, <1>1, <1>2, <2>1
<1>4. work' \in [Works -> WorkStates]
  BY <1>1, <1>2 DEF WorkStates
<1>5. /\ poller'[w].pc = "idle"
      /\ \A r \in Pollers \ {w} : poller'[r] = poller[r]
  BY <1>0, <1>1, <1>2 DEF PollerStates
<1>6. /\ ~work'[w].own /\ work'[w].trig = work[w].trig
      /\ work'[w].timeout = work[w].timeout
      /\ work'[w].queued = work[w].queued /\ work'[w].clear = work[w].clear
      /\ \A r \in Works \ {w} : work'[r] = work[r]
  BY <1>1, <1>2 DEF WorkStates
<1>7. ~work[w].trig /\ Quiet(w) /\ Upto(w, 0)
  BY <1>0, <1>1 DEF PollerOK, WorkOK, CallOK
<1>8. Upto(w, 0)' /\ Quiet(w)'
  BY <1>1, <1>6, <1>7 DEF Upto, Quiet
<1>9. CallOK(w)' /\ NoticeOK(w)'
  BY <1>0, <1>5, <1>6 DEF CallOK, NoticeOK, Relies, Waiting
<1>10. WorkOK(w)'
  BY <1>5, <1>6, <1>7, <1>8 DEF WorkOK
<1>11. QED
  BY <1>1, <1>3, <1>4, <1>5, <1>6, <1>9, <1>10, WorkMove

LEMMA WorkExpireInv ==
  ASSUME PollInv, WorksAreSafe, NEW w \in Works, WorkExpire(w)
  PROVE  PollInv'
<1>0. w \in Pollers /\ w \notin Threads /\ PollTypeOK /\ PollerOK(w)
  BY PollAssumption DEF PollInv, Pollers
<1>1. /\ UNCHANGED pendVars /\ sig = NoSig
      /\ UNCHANGED <<polled, cond, pollEvs, handling, sig, evReady, poller>>
      /\ work[w].timeout
      /\ work' = [work EXCEPT ![w].timeout = FALSE]
      /\ workFiring' = w
  BY WorkAlone DEF WorkExpire, objVars
<1>2. /\ poller \in [Pollers -> PollerStates] /\ work \in [Works -> WorkStates]
  BY <1>0 DEF PollTypeOK
<1>3. work' \in [Works -> WorkStates]
  BY <1>1, <1>2 DEF WorkStates
<1>4. /\ work'[w].own = work[w].own /\ work'[w].trig = work[w].trig
      /\ ~work'[w].timeout
      /\ work'[w].queued = work[w].queued /\ work'[w].clear = work[w].clear
      /\ \A r \in Works \ {w} : work'[r] = work[r]
  BY <1>1, <1>2 DEF WorkStates
<1>5. /\ poller[w].pc = "idle" /\ work[w].own
      /\ ~work[w].queued /\ work[w].clear = 0 /\ work[w].trig /\ poller[w].polling
  <2>1. WorkOK(w) /\ poller[w].pc \in {"idle", "register", "clear", "wait"}
    BY <1>0, <1>2 DEF PollerOK, PollerStates
  <2>2. QED
    BY <1>1, <2>1 DEF WorkOK, Quiet
<1>6. CallOK(w)'
  BY <1>1, <1>5 DEF CallOK
<1>7. NoticeOK(w)'
  <2>1. SUFFICES ASSUME NEW i \in 1..Len(polled[w]), Relies(w, i)',
                        Alone(w, polled[w][i])'
                 PROVE  /\ In(pollEvs[polled[w][i]], <<w, i>>)
                        /\ cond[polled[w][i]] => handling = polled[w][i]
    BY <1>1 DEF NoticeOK
  <2>2. Relies(w, i) /\ Alone(w, polled[w][i])
    BY <1>0, <1>1, <1>4, <2>1 DEF Relies, Waiting, Alone
  <2>3. sig.ev[1] # w
    BY <1>1, PollAssumption DEF NoSig
  <2>4. QED
    BY <1>0, <2>2, <2>3 DEF PollerOK, NoticeOK
<1>8. WorkOK(w)'
  BY <1>1, <1>4, <1>5 DEF WorkOK
<1>9. QED
  BY <1>1, <1>2, <1>3, <1>4, <1>6, <1>7, <1>8, WorkMove

LEMMA WorkTimeoutInv ==
  ASSUME PollInv, WorksAreSafe, WorkTimeout
  PROVE  PollInv'
<1>a. PICK w \in Works : workFiring = w
  BY DEF PollInv, PollTypeOK, WorkTimeout
<1>0. w \in Pollers /\ w \notin Threads /\ PollTypeOK /\ PollerOK(w)
  BY <1>a, PollAssumption DEF PollInv, Pollers
<1>1. /\ UNCHANGED pendVars /\ sig = NoSig
      /\ UNCHANGED <<polled, cond, pollEvs, handling, sig, evReady>>
      /\ poller[w].pc = "idle"
      /\ poller' = [poller EXCEPT ![w].polling = FALSE]
      /\ work' = [work EXCEPT ![w].queued = @ \/ work[w].own \/ work[w].was,
                              ![w].was = @ \/ work[w].own]
      /\ workFiring' = None
  BY <1>a, WorkAlone DEF WorkTimeout, Queued, objVars
<1>2. /\ poller \in [Pollers -> PollerStates] /\ work \in [Works -> WorkStates]
  BY <1>0 DEF PollTypeOK
<1>3. poller' \in [Pollers -> PollerStates]
  BY <1>1, <1>2 DEF PollerStates
<1>4. work' \in [Works -> WorkStates]
  BY ZenonT(60), <1>1, <1>2, <1>a DEF WorkStates
<1>5. /\ poller'[w].pc = "idle" /\ ~poller'[w].polling
      /\ \A r \in Pollers \ {w} : poller'[r] = poller[r]
  BY <1>0, <1>1, <1>2 DEF PollerStates
<1>6. work[w].own /\ WorkOK(w)
  BY <1>0, <1>a DEF PollerOK, WorkOK, Quiet
<1>7. /\ work'[w].own = work[w].own /\ work'[w].trig = work[w].trig
      /\ work'[w].queued /\ work'[w].clear = work[w].clear
      /\ work'[w].timeout = work[w].timeout
      /\ \A r \in Works \ {w} : work'[r] = work[r]
  BY <1>1, <1>2, <1>6, <1>a DEF WorkStates
<1>8. work[w].clear = 0 /\ ~work[w].timeout /\ work[w].trig
  BY <1>1, <1>6, <1>a DEF WorkOK
<1>9. CallOK(w)' /\ NoticeOK(w)'
  BY <1>0, <1>5 DEF CallOK, NoticeOK, Relies, Waiting
<1>10. WorkOK(w)'
  BY <1>5, <1>6, <1>7, <1>8 DEF WorkOK
<1>11. QED
  BY <1>1, <1>3, <1>4, <1>5, <1>7, <1>9, <1>10, <1>a, WorkMove

LEMMA WorkRunInv ==
  ASSUME PollInv, WorksAreSafe, NEW w \in Works, WorkRun(w)
  PROVE  PollInv'
<1>0. w \in Pollers /\ w \notin Threads /\ PollTypeOK /\ PollerOK(w) /\ EventsOK
  BY PollAssumption DEF PollInv, Pollers
<1>1. /\ UNCHANGED pendVars /\ sig = NoSig /\ workFiring = None
      /\ UNCHANGED <<polled, cond, pollEvs, handling, sig, evReady, poller, workFiring>>
      /\ work[w].queued
      /\ work' = [work EXCEPT ![w].queued = FALSE,
                    ![w].clear = IF work[w].trig THEN Len(polled[w]) + 1 ELSE 1]
  BY WorkAlone DEF WorkRun, PollThreads, objVars
<1>2. /\ poller \in [Pollers -> PollerStates] /\ work \in [Works -> WorkStates]
      /\ Len(polled[w]) \in Nat
  BY <1>0 DEF PollTypeOK
<1>3. work' \in [Works -> WorkStates]
  <2>1. PICK k \in Nat : k = IF work[w].trig THEN Len(polled[w]) + 1 ELSE 1
    BY <1>2
  <2>2. [work[w] EXCEPT !.queued = FALSE, !.clear = k] \in WorkStates
    BY <1>2 DEF WorkStates
  <2>3. QED
    BY <1>1, <1>2, <2>1, <2>2
<1>4. /\ work'[w].own = work[w].own /\ work'[w].trig = work[w].trig
      /\ work'[w].timeout = work[w].timeout /\ ~work'[w].queued
      /\ work'[w].clear = IF work[w].trig THEN Len(polled[w]) + 1 ELSE 1
      /\ \A r \in Works \ {w} : work'[r] = work[r]
  BY <1>1, <1>2 DEF WorkStates
<1>5. /\ poller[w].pc = "idle" /\ work[w].own /\ ~work[w].timeout /\ ~poller[w].polling
      /\ ~work[w].trig => Upto(w, 0)
  <2>1. WorkOK(w) /\ poller[w].pc \in {"idle", "register", "clear", "wait"}
    BY <1>0, <1>2 DEF PollerOK, PollerStates
  <2>2. QED
    BY <1>1, <2>1 DEF WorkOK, Quiet
<1>6. Upto(w, work'[w].clear - 1)
  <2>1. Upto(w, Len(polled[w]))
    BY <1>0 DEF Upto, EventsOK
  <2>2. work'[w].clear - 1 = IF work[w].trig THEN Len(polled[w]) ELSE 0
    BY <1>2, <1>4
  <2>3. QED
    BY <1>5, <2>1, <2>2
<1>7. Upto(w, work[w].clear - 1)'
  BY <1>1, <1>6 DEF Upto
<1>8. CallOK(w)' /\ NoticeOK(w)'
  BY <1>0, <1>1, <1>5 DEF CallOK, NoticeOK, Relies, Waiting
<1>9. WorkOK(w)'
  <2>1. work'[w].clear \in 1..(Len(polled'[w]) + 1) /\ workFiring' # w
    BY <1>1, <1>2, <1>4, PollAssumption
  <2>2. QED
    BY <1>1, <1>4, <1>5, <1>7, <2>1 DEF WorkOK
<1>10. QED
  BY <1>1, <1>2, <1>3, <1>4, <1>8, <1>9, WorkMove

LEMMA WorkRunDoneInv ==
  ASSUME PollInv, WorksAreSafe, NEW w \in Works, WorkRunDone(w)
  PROVE  PollInv'
<1>0. w \in Pollers /\ w \notin Threads /\ PollTypeOK /\ PollerOK(w)
  BY PollAssumption DEF PollInv, Pollers
<1>1. /\ UNCHANGED pendVars /\ sig = NoSig
      /\ UNCHANGED <<polled, cond, pollEvs, handling, sig, evReady, poller, workFiring>>
      /\ work[w].clear = 1
      /\ work' = [work EXCEPT ![w].clear = 0, ![w].own = FALSE]
  BY WorkAlone DEF WorkRunDone, PollThreads, objVars
<1>2. /\ poller \in [Pollers -> PollerStates] /\ work \in [Works -> WorkStates]
  BY <1>0 DEF PollTypeOK
<1>3. work' \in [Works -> WorkStates]
  BY <1>1, <1>2 DEF WorkStates
<1>4. /\ ~work'[w].own /\ work'[w].trig = work[w].trig
      /\ work'[w].timeout = work[w].timeout /\ work'[w].queued = work[w].queued
      /\ work'[w].clear = 0
      /\ \A r \in Works \ {w} : work'[r] = work[r]
  BY <1>1, <1>2 DEF WorkStates
<1>5. /\ poller[w].pc = "idle" /\ ~work[w].timeout /\ ~poller[w].polling
      /\ ~work[w].queued /\ workFiring # w /\ Upto(w, 0)
  <2>1. WorkOK(w) /\ poller[w].pc \in {"idle", "register", "clear", "wait"}
    BY <1>0, <1>2 DEF PollerOK, PollerStates
  <2>2. QED
    BY <1>1, <2>1 DEF WorkOK, Quiet
<1>6. Upto(w, 0)' /\ Quiet(w)'
  BY <1>1, <1>4, <1>5 DEF Upto, Quiet
<1>7. CallOK(w)' /\ NoticeOK(w)'
  BY <1>0, <1>1, <1>5 DEF CallOK, NoticeOK, Relies, Waiting
<1>8. WorkOK(w)'
  BY <1>1, <1>4, <1>5, <1>6 DEF WorkOK
<1>9. QED
  BY <1>1, <1>2, <1>3, <1>4, <1>7, <1>8, WorkMove

-----------------------------------------------------------------------------
(* Registering and clearing.                                               *)

LEMMA AddPositionsFacts ==
  ASSUME PollTypeOK, PendTypeOK, NEW o \in Objs, NEW p \in Pollers,
         NEW j \in AddPositions(o, p)
  PROVE  j \in 1..(Len(pollEvs[o]) + 1)
<1> DEFINE s == pollEvs[o]
           ps == [k \in DOMAIN s |-> s[k][1]]
<1>1. s \in Seq(Events) /\ Len(s) \in Nat /\ DOMAIN s = 1..Len(s)
  BY DEF PollTypeOK
<1>2. ps \in Seq(Pollers) /\ Len(ps) = Len(s)
  <2>1. \A k \in 1..Len(s) : s[k][1] \in Pollers
    BY <1>1 DEF Events
  <2>2. QED
    BY <1>1, <2>1
<1>3. \/ ps = <<>> /\ j = 1
      \/ j = PriqPos(ps, p, prio)
      \/ j \in 1..(Len(ps) + 1)
  BY DEF AddPositions
<1> HIDE DEF ps, s
<1>4. PriqPos(ps, p, prio) \in 1..(Len(ps) + 1)
  <2> DEFINE L == LowerPrio(ps, p, prio)
  <2>1. L \in SUBSET Nat /\ \A k \in L : k \in 1..Len(ps)
    BY <1>1, <1>2 DEF LowerPrio
  <2>2. PriqPos(ps, p, prio) = IF L = {} THEN Len(ps) + 1 ELSE Min(L)
    BY DEF PriqPos
  <2> HIDE DEF L
  <2>3. L # {} => Min(L) \in L
    BY <2>1, MinOfNaturals
  <2>4. L # {} => Min(L) \in 1..Len(ps)
    BY <2>1, <2>3
  <2>5. Len(ps) \in Nat
    BY <1>1, <1>2
  <2>6. QED
    BY <2>2, <2>4, <2>5
<1>5. QED
  BY <1>1, <1>2, <1>3, <1>4 DEF s

LEMMA InsertLinks ==
  ASSUME PollInv, NEW p \in Pollers, NEW i \in 1..Len(polled[p]),
         NEW o, o = polled[p][i], ~In(pollEvs[o], <<p, i>>),
         NEW j \in AddPositions(o, p), polled' = polled,
         pollEvs' = [pollEvs EXCEPT ![o] = InsertAt(@, j, <<p, i>>)]
  PROVE  /\ pollEvs' \in [Objs -> Seq(Events)]
         /\ EventsOK'
         /\ \A oo \in Objs : \A x : In(pollEvs'[oo], x) <=>
              In(pollEvs[oo], x) \/ (oo = o /\ x = <<p, i>>)
<1>1. /\ o \in Objs /\ <<p, i>> \in Events /\ pollEvs[o] \in Seq(Events)
      /\ pollEvs \in [Objs -> Seq(Events)] /\ NoDup(pollEvs[o]) /\ EventsOK
  BY DEF PollInv, PollTypeOK, Events, EventsOK
<1>2. j \in 1..(Len(pollEvs[o]) + 1)
  BY <1>1, AddPositionsFacts DEF PollInv, PendInv
<1>3. PICK r \in Seq(Events) : r = InsertAt(pollEvs[o], j, <<p, i>>) /\ NoDup(r)
        /\ \A x : In(r, x) <=> In(pollEvs[o], x) \/ x = <<p, i>>
  <2>1. PICK e \in Events, s \in Seq(Events) : e = <<p, i>> /\ s = pollEvs[o]
    BY <1>1
  <2>2. j \in 1..(Len(s) + 1) /\ NoDup(s) /\ ~In(s, e)
    BY <1>1, <1>2, <2>1
  <2>3. /\ InsertAt(s, j, e) \in Seq(Events) /\ NoDup(InsertAt(s, j, e))
        /\ \A x : In(InsertAt(s, j, e), x) <=> In(s, x) \/ x = e
    BY <2>2, InsertAtFacts
  <2>4. QED
    BY <2>1, <2>3
<1>4. /\ pollEvs'[o] = r
      /\ \A oo \in Objs \ {o} : pollEvs'[oo] = pollEvs[oo]
      /\ pollEvs' \in [Objs -> Seq(Events)]
  BY <1>1, <1>3
<1>5. \A oo \in Objs : \A x : In(pollEvs'[oo], x) <=>
              In(pollEvs[oo], x) \/ (oo = o /\ x = <<p, i>>)
  <2>1. SUFFICES ASSUME NEW oo \in Objs, NEW x
                 PROVE  In(pollEvs'[oo], x) <=>
                          In(pollEvs[oo], x) \/ (oo = o /\ x = <<p, i>>)
    OBVIOUS
  <2>2. CASE oo = o
    BY <2>2, <1>3, <1>4
  <2>3. CASE oo # o
    BY <2>3, <1>4
  <2>4. QED
    BY <2>2, <2>3
<1>6. EventsOK'
  <2>1. \A oo \in Objs : NoDup(pollEvs'[oo])
    BY <1>1, <1>3, <1>4 DEF EventsOK
  <2>2. ASSUME NEW oo \in Objs, NEW q1 \in Pollers, NEW k \in Nat,
               In(pollEvs'[oo], <<q1, k>>)
        PROVE  k \in 1..Len(polled'[q1]) /\ polled'[q1][k] = oo
    <3>1. CASE In(pollEvs[oo], <<q1, k>>)
      BY <1>1, <3>1 DEF EventsOK
    <3>2. CASE oo = o /\ <<q1, k>> = <<p, i>>
      BY <3>2
    <3>3. QED
      BY <1>5, <2>2, <3>1, <3>2
  <2>3. QED
    BY <2>1, <2>2 DEF EventsOK
<1>7. QED
  BY <1>4, <1>5, <1>6

LEMMA UnlinkLinks ==
  ASSUME PollInv, NEW p \in Pollers, NEW i \in 1..Len(polled[p]),
         pollEvs' = Unlinked(<<p, i>>), polled' = polled
  PROVE  /\ pollEvs' \in [Objs -> Seq(Events)]
         /\ EventsOK'
         /\ \A oo \in Objs : \A x : In(pollEvs'[oo], x) <=>
              In(pollEvs[oo], x) /\ x # <<p, i>>
<1> DEFINE o == polled[p][i]
<1>1. /\ o \in Objs /\ <<p, i>> \in Events /\ pollEvs[o] \in Seq(Events)
      /\ pollEvs \in [Objs -> Seq(Events)] /\ NoDup(pollEvs[o]) /\ EventsOK
  BY DEF PollInv, PollTypeOK, Events, EventsOK
<1>2. pollEvs' = [pollEvs EXCEPT ![o] = RemoveFirst(@, <<p, i>>)]
  BY DEF Unlinked, Obj
<1>3. \A oo \in Objs \ {o} : ~In(pollEvs[oo], <<p, i>>)
  BY <1>1 DEF EventsOK
<1> HIDE DEF o
<1>4. PICK r \in Seq(Events) : r = RemoveFirst(pollEvs[o], <<p, i>>) /\ NoDup(r)
        /\ \A x : In(r, x) <=> In(pollEvs[o], x) /\ x # <<p, i>>
  <2>1. PICK e \in Events, s \in Seq(Events) : e = <<p, i>> /\ s = pollEvs[o]
    BY <1>1
  <2>2. NoDup(s)
    BY <1>1, <2>1
  <2>3. /\ RemoveFirst(s, e) \in Seq(Events) /\ NoDup(RemoveFirst(s, e))
        /\ \A x : In(RemoveFirst(s, e), x) <=> In(s, x) /\ x # e
    BY <2>2, RemoveFirstFacts
  <2>4. QED
    BY <2>1, <2>3
<1>5. /\ pollEvs'[o] = r
      /\ \A oo \in Objs \ {o} : pollEvs'[oo] = pollEvs[oo]
      /\ pollEvs' \in [Objs -> Seq(Events)]
  BY <1>1, <1>2, <1>4
<1>6. \A oo \in Objs : \A x : In(pollEvs'[oo], x) <=> In(pollEvs[oo], x) /\ x # <<p, i>>
  <2>1. SUFFICES ASSUME NEW oo \in Objs, NEW x
                 PROVE  In(pollEvs'[oo], x) <=> In(pollEvs[oo], x) /\ x # <<p, i>>
    OBVIOUS
  <2>2. CASE oo = o
    BY <2>2, <1>4, <1>5
  <2>3. CASE oo # o
    BY <2>3, <1>3, <1>5
  <2>4. QED
    BY <2>2, <2>3
<1>7. EventsOK'
  <2>1. \A oo \in Objs : NoDup(pollEvs'[oo])
    BY <1>1, <1>4, <1>5 DEF EventsOK
  <2>2. QED
    BY <1>1, <1>6, <2>1 DEF EventsOK
<1>8. QED
  BY <1>5, <1>6, <1>7

LEMMA RegisterInv ==
  ASSUME PollInv, NEW p \in Pollers, Register(p), UNCHANGED pendVars
  PROVE  PollInv'
<1>0. PendInv /\ PollTypeOK /\ PollerOK(p) /\ EventsOK
  BY DEF PollInv
<1>1. /\ poller \in [Pollers -> PollerStates] /\ Len(polled[p]) \in Nat
      /\ polled[p] \in Seq(Objs)
      /\ poller[p].i \in Nat /\ poller[p].n \in Nat /\ poller[p].polling \in BOOLEAN
  BY <1>0 DEF PollTypeOK, PollerStates
<1>2. PICK i : i = poller[p].i
  OBVIOUS
<1>3. PICK o : o = polled[p][i]
  OBVIOUS
<1>4. /\ UNCHANGED <<polled, cond, handling, sig, work, workFiring>>
      /\ sig = NoSig /\ poller[p].pc = "register" /\ i <= Len(polled[p])
      /\ \/ /\ cond[o]
            /\ evReady' = evReady \cup {<<p, i>>}
            /\ poller' = [poller EXCEPT ![p].i = i + 1, ![p].polling = FALSE]
            /\ UNCHANGED pollEvs
         \/ /\ ~cond[o] /\ poller[p].polling
            /\ \E j \in AddPositions(o, p) :
                 pollEvs' = [pollEvs EXCEPT ![o] = InsertAt(@, j, <<p, i>>)]
            /\ poller' = [poller EXCEPT ![p].i = i + 1, ![p].n = @ + 1]
            /\ UNCHANGED evReady
         \/ /\ ~cond[o] /\ ~poller[p].polling
            /\ poller' = [poller EXCEPT ![p].i = i + 1]
            /\ UNCHANGED <<pollEvs, evReady>>
  BY <1>2, <1>3 DEF Register, LockFree
<1>5. /\ Upto(p, poller[p].n) /\ polled[p] # <<>>
      /\ poller[p].n < i
      /\ poller[p].polling => poller[p].n = i - 1
      /\ p \in Threads => pendedOn[p] = None
      /\ p \in Threads /\ ~CancelEarly /\ ~poller[p].polling => Noted(p)
      /\ p \in Works => work[p].own /\ ~work[p].trig /\ Quiet(p)
  BY <1>0, <1>2, <1>4 DEF PollerOK, CallOK, ThreadOK, SuccessOK, WorkOK
<1>6. i \in 1..Len(polled[p]) /\ o \in Objs
  BY <1>1, <1>2, <1>3, <1>4, <1>5
<1>7. UNCHANGED <<pendedOn, swapRet>> /\ PendInv'
  BY <1>0, PendStutterInv DEF pendVars
<1>8. SigOK' /\ sig.ev[1] # p
  BY <1>4, PendAssumption, PollAssumption DEF SigOK, NoSig, Pollers
<1>9. /\ poller'[p].pc = "register" /\ poller'[p].i = i + 1
      /\ \A r \in Pollers \ {p} : poller'[r] = poller[r]
  BY <1>1, <1>4 DEF PollerStates
<1>10. poller' \in [Pollers -> PollerStates]
  <2>1. PICK k \in Nat, m \in Nat : k = i + 1 /\ m = poller[p].n + 1
    BY <1>1, <1>2
  <2>2. /\ [poller[p] EXCEPT !.i = k, !.polling = FALSE] \in PollerStates
        /\ [poller[p] EXCEPT !.i = k, !.n = m] \in PollerStates
        /\ [poller[p] EXCEPT !.i = k] \in PollerStates
    BY <1>1 DEF PollerStates
  <2>3. \/ poller' = [poller EXCEPT ![p] = [poller[p] EXCEPT !.i = k, !.polling = FALSE]]
        \/ poller' = [poller EXCEPT ![p] = [poller[p] EXCEPT !.i = k, !.n = m]]
        \/ poller' = [poller EXCEPT ![p] = [poller[p] EXCEPT !.i = k]]
    BY <1>4, <2>1
  <2>4. QED
    BY <1>1, <2>2, <2>3
<1>11. \A t \in Threads : swapRet'[t] = swapRet[t] /\ (Noted(t) => Noted(t)')
  BY <1>4, <1>7 DEF Noted
<1>12. p \in Works => WorkOK(p)'
  BY <1>4, <1>5, <1>9 DEF WorkOK, Quiet
<1>13. p \in Threads => ThreadOK(p)'
  BY <1>5, <1>7, <1>9 DEF ThreadOK
<1>14. <<p, i>> \in Events
  BY <1>6 DEF Events
<1>15. CASE UNCHANGED pollEvs
  <2>1. /\ poller'[p].n = poller[p].n /\ ~poller'[p].polling
        /\ p \in Threads /\ ~CancelEarly => Noted(p)'
    <3>1. CASE cond[o]
      <4>1. /\ poller' = [poller EXCEPT ![p].i = i + 1, ![p].polling = FALSE]
            /\ <<p, i>> \in evReady'
        BY <1>4, <3>1
      <4>2. <<p, i>>[1] = p
        OBVIOUS
      <4>3. Noted(p)'
        BY <4>1, <4>2 DEF Noted
      <4>4. QED
        BY <1>1, <4>1, <4>3 DEF PollerStates
    <3>2. CASE ~cond[o] /\ ~poller[p].polling
      BY <1>1, <1>4, <1>5, <3>2 DEF PollerStates, Noted
    <3>3. ASSUME ~cond[o], poller[p].polling PROVE FALSE
      <4>1. PICK j \in AddPositions(o, p) :
              pollEvs' = [pollEvs EXCEPT ![o] = InsertAt(@, j, <<p, i>>)]
        BY <1>4, <3>3
      <4>2. ~In(pollEvs[o], <<p, i>>)
        BY <1>1, <1>2, <1>5, <1>6 DEF Upto
      <4>3. \A oo \in Objs : \A x : In(pollEvs'[oo], x) <=>
              In(pollEvs[oo], x) \/ (oo = o /\ x = <<p, i>>)
        BY <1>3, <1>4, <1>6, <4>1, <4>2, InsertLinks
      <4>4. QED
        BY <1>15, <1>6, <4>2, <4>3
    <3>4. QED
      BY <3>1, <3>2, <3>3
  <2>2. PollTypeOK'
    BY <1>0, <1>4, <1>10, <1>14, <1>15 DEF PollTypeOK
  <2>3. Upto(p, poller[p].n)'
    BY <1>5, <1>15, <2>1 DEF Upto
  <2>4. CallOK(p)'
    <3>1. /\ poller'[p].n < poller'[p].i /\ poller'[p].i <= Len(polled'[p]) + 1
          /\ polled'[p] # <<>>
      BY <1>1, <1>2, <1>4, <1>5, <1>9, <2>1
    <3>2. QED
      BY <1>9, <2>1, <2>3, <3>1 DEF CallOK
  <2>5. NoticeOK(p)'
    <3>1. \A k : ~Relies(p, k)'
      BY <1>9, <2>1 DEF Relies, Waiting
    <3>2. QED
      BY <3>1 DEF NoticeOK
  <2>6. p \in Threads => SuccessOK(p)'
    BY <1>9, <2>1 DEF SuccessOK
  <2>7. PollerOK(p)'
    BY <1>12, <1>13, <2>4, <2>5, <2>6 DEF PollerOK
  <2>8. \A r \in Pollers \ {p} : Kept(r)
    BY <1>4, <1>7, <1>9, <1>15 DEF Kept, In
  <2>9. QED
    BY <1>4, <1>7, <1>8, <1>11, <1>15, <2>2, <2>7, <2>8, MoveStep
<1>16. CASE ~UNCHANGED pollEvs
  <2>1. PICK j \in AddPositions(o, p) :
          pollEvs' = [pollEvs EXCEPT ![o] = InsertAt(@, j, <<p, i>>)]
    BY <1>4, <1>16
  <2>2. /\ ~cond[o] /\ poller[p].polling /\ evReady' = evReady
        /\ poller' = [poller EXCEPT ![p].i = i + 1, ![p].n = @ + 1]
    BY <1>4, <1>16
  <2>3. poller'[p].n = poller[p].n + 1 /\ poller'[p].polling
    BY <1>1, <2>2 DEF PollerStates
  <2>4. ~In(pollEvs[o], <<p, i>>)
    BY <1>1, <1>2, <1>5, <1>6 DEF Upto
  <2>5. /\ pollEvs' \in [Objs -> Seq(Events)] /\ EventsOK'
        /\ \A oo \in Objs : \A x : In(pollEvs'[oo], x) <=>
              In(pollEvs[oo], x) \/ (oo = o /\ x = <<p, i>>)
    BY <1>3, <1>4, <1>6, <2>1, <2>4, InsertLinks
  <2>6. PollTypeOK'
    BY <1>0, <1>4, <1>10, <2>2, <2>5 DEF PollTypeOK
  <2>7. Upto(p, poller[p].n)'
    <3>1. poller[p].n + 1 = i
      BY <1>1, <1>2, <1>5, <2>2
    <3>2. ASSUME NEW oo \in Objs, NEW k \in Nat, In(pollEvs'[oo], <<p, k>>)
          PROVE  k <= i
      <4>1. CASE In(pollEvs[oo], <<p, k>>)
        BY <1>1, <1>2, <1>5, <4>1 DEF Upto
      <4>2. CASE <<p, k>> = <<p, i>>
        BY <1>1, <1>2, <4>2
      <4>3. QED
        BY <2>5, <3>2, <4>1, <4>2
    <3>3. QED
      BY <2>3, <3>1, <3>2 DEF Upto
  <2>8. CallOK(p)'
    <3>1. /\ poller'[p].n < poller'[p].i /\ poller'[p].i <= Len(polled'[p]) + 1
          /\ polled'[p] # <<>> /\ poller'[p].n = poller'[p].i - 1
      BY <1>1, <1>2, <1>4, <1>5, <1>9, <2>2, <2>3
    <3>2. QED
      BY <1>9, <2>7, <3>1 DEF CallOK
  <2>9. NoticeOK(p)'
    <3>1. SUFFICES ASSUME NEW k \in 1..Len(polled[p]), Relies(p, k)',
                          Alone(p, polled[p][k])'
                   PROVE  /\ In(pollEvs'[polled[p][k]], <<p, k>>)
                          /\ cond[polled[p][k]] => handling = polled[p][k]
      BY <1>4 DEF NoticeOK
    <3>2. k < i + 1
      BY <1>9, <3>1 DEF Relies, Waiting
    <3>3. CASE k = i
      BY <1>3, <1>6, <2>2, <2>5, <3>3
    <3>4. CASE k < i
      <4>1. Relies(p, k)
        BY <1>2, <1>4, <2>2, <3>4 DEF Relies
      <4>2. Alone(p, polled[p][k])
        BY <1>4, <3>1 DEF Alone
      <4>3. /\ In(pollEvs[polled[p][k]], <<p, k>>)
            /\ cond[polled[p][k]] => handling = polled[p][k]
        BY <1>0, <1>8, <4>1, <4>2 DEF PollerOK, NoticeOK
      <4>4. polled[p][k] \in Objs
        BY <1>1
      <4>5. QED
        BY <2>5, <4>3, <4>4
    <3>5. QED
      BY <1>1, <1>2, <3>2, <3>3, <3>4
  <2>10. p \in Threads => SuccessOK(p)'
    BY <1>9, <2>3 DEF SuccessOK
  <2>11. PollerOK(p)'
    BY <1>12, <1>13, <2>8, <2>9, <2>10 DEF PollerOK
  <2>12. \A r \in Pollers \ {p}, oo \in Objs, k \in Nat :
           In(pollEvs'[oo], <<r, k>>) <=> In(pollEvs[oo], <<r, k>>)
    BY <2>5
  <2>13. \A r \in Pollers \ {p} : Kept(r)
    BY <1>4, <1>7, <1>9, <2>12 DEF Kept
  <2>14. QED
    BY <1>4, <1>7, <1>8, <1>11, <2>5, <2>6, <2>11, <2>12, <2>13, LinkStep
<1>17. QED
  BY <1>15, <1>16

LEMMA ClearTurnInv ==
  ASSUME PollInv, NEW p \in Pollers, ClearTurn(p), UNCHANGED pendVars
  PROVE  PollInv'
<1>0. PendInv /\ PollTypeOK /\ PollerOK(p) /\ EventsOK
  BY DEF PollInv
<1>1. /\ poller \in [Pollers -> PollerStates] /\ Len(polled[p]) \in Nat
      /\ poller[p].i \in Nat
  BY <1>0 DEF PollTypeOK, PollerStates
<1>2. PICK i : i = poller[p].i
  OBVIOUS
<1>3. /\ UNCHANGED <<polled, cond, evReady, handling, sig, work, workFiring>>
      /\ sig = NoSig /\ poller[p].pc = "clear" /\ i > 0
      /\ pollEvs' = Unlinked(<<p, i>>)
      /\ poller' = [poller EXCEPT ![p].i = i - 1]
  BY <1>2 DEF ClearTurn, LockFree
<1>4. /\ Upto(p, i) /\ i <= Len(polled[p])
      /\ p \in Threads => pendedOn[p] = None
      /\ p \in Threads /\ ~CancelEarly /\ poller[p].ret = "0" => HasEvent(p)
      /\ p \in Works => /\ work[p].own /\ ~work[p].trig /\ Quiet(p)
                        /\ poller[p].ret = "0" => ~poller[p].polling
  BY <1>0, <1>2, <1>3 DEF PollerOK, CallOK, ThreadOK, SuccessOK, WorkOK
<1>5. i \in 1..Len(polled[p])
  BY <1>1, <1>2, <1>3, <1>4
<1>6. UNCHANGED <<pendedOn, swapRet>> /\ PendInv'
  BY <1>0, PendStutterInv DEF pendVars
<1>7. SigOK'
  BY <1>3 DEF SigOK, NoSig
<1>8. /\ pollEvs' \in [Objs -> Seq(Events)] /\ EventsOK'
      /\ \A o \in Objs : \A x : In(pollEvs'[o], x) <=> In(pollEvs[o], x) /\ x # <<p, i>>
  BY <1>3, <1>5, UnlinkLinks
<1>9. /\ poller'[p].pc = "clear" /\ poller'[p].i = i - 1
      /\ poller'[p].ret = poller[p].ret /\ poller'[p].polling = poller[p].polling
      /\ \A r \in Pollers \ {p} : poller'[r] = poller[r]
  BY <1>1, <1>3 DEF PollerStates
<1>10. PollTypeOK'
  <2>1. PICK k \in Nat : k = i - 1
    BY <1>5
  <2>2. [poller[p] EXCEPT !.i = k] \in PollerStates
    BY <1>1 DEF PollerStates
  <2>3. poller' \in [Pollers -> PollerStates]
    BY <1>1, <1>3, <2>1, <2>2
  <2>4. QED
    BY <1>0, <1>3, <1>8, <2>3 DEF PollTypeOK
<1>11. Upto(p, poller[p].i)'
  <2>1. SUFFICES ASSUME NEW o \in Objs, NEW k \in Nat, In(pollEvs'[o], <<p, k>>)
                 PROVE  k <= i - 1
    BY <1>9 DEF Upto
  <2>2. k # i /\ k <= i
    BY <1>4, <1>8, <2>1 DEF Upto
  <2>3. QED
    BY <1>5, <2>2
<1>12. CallOK(p)'
  BY <1>3, <1>5, <1>9, <1>11 DEF CallOK
<1>13. NoticeOK(p)'
  <2>1. \A k : ~Relies(p, k)' \/ p \in Works
    BY <1>9, <1>4, PollAssumption DEF Relies, Waiting, Pollers
  <2>2. p \in Works => \A k : ~Relies(p, k)'
    BY <1>9, PollAssumption DEF Relies, Waiting
  <2>3. QED
    BY <2>1, <2>2 DEF NoticeOK
<1>14. p \in Threads => ThreadOK(p)' /\ SuccessOK(p)'
  BY <1>3, <1>4, <1>6, <1>9 DEF ThreadOK, SuccessOK, HasEvent, Noted
<1>15. p \in Works => WorkOK(p)'
  BY <1>3, <1>4, <1>9 DEF WorkOK, Quiet
<1>16. PollerOK(p)'
  BY <1>12, <1>13, <1>14, <1>15 DEF PollerOK
<1>17. \A r \in Pollers \ {p}, o \in Objs, k \in Nat :
         In(pollEvs'[o], <<r, k>>) <=> In(pollEvs[o], <<r, k>>)
  BY <1>8
<1>18. \A r \in Pollers \ {p} : Kept(r)
  BY <1>3, <1>6, <1>9, <1>17 DEF Kept
<1>19. \A t \in Threads : swapRet'[t] = swapRet[t] /\ (Noted(t) => Noted(t)')
  BY <1>3, <1>6 DEF Noted
<1>20. QED
  BY <1>3, <1>6, <1>7, <1>8, <1>10, <1>16, <1>17, <1>18, <1>19, LinkStep

LEMMA WorkRunClearInv ==
  ASSUME PollInv, WorksAreSafe, NEW w \in Works, WorkRunClear(w)
  PROVE  PollInv'
<1>0. w \in Pollers /\ w \notin Threads /\ PollTypeOK /\ PollerOK(w) /\ PendInv
  BY PollAssumption DEF PollInv, Pollers
<1>1. /\ poller \in [Pollers -> PollerStates] /\ work \in [Works -> WorkStates]
      /\ Len(polled[w]) \in Nat /\ work[w].clear \in Nat
      /\ poller[w].pc \in {"idle", "register", "clear", "wait"}
  BY <1>0 DEF PollTypeOK, WorkStates, PollerStates
<1>2. PICK i : i = work[w].clear - 1
  OBVIOUS
<1>3. /\ UNCHANGED pendVars /\ sig = NoSig
      /\ UNCHANGED <<polled, cond, handling, sig, evReady, poller, workFiring>>
      /\ work[w].clear > 1
      /\ pollEvs' = Unlinked(<<w, i>>)
      /\ work' = [work EXCEPT ![w].clear = i]
  BY <1>2 DEF WorkRunClear, LockFree
<1>4. /\ poller[w].pc = "idle" /\ work[w].own
      /\ ~work[w].queued /\ ~work[w].timeout /\ workFiring # w /\ ~poller[w].polling
      /\ work[w].clear \in 1..(Len(polled[w]) + 1) /\ Upto(w, i)
  <2>1. WorkOK(w)
    BY <1>0 DEF PollerOK
  <2>2. work[w].clear # 0
    BY <1>1, <1>3
  <2>3. QED
    BY <1>1, <1>2, <2>1, <2>2 DEF WorkOK, Quiet
<1>5. i \in 1..Len(polled[w]) /\ i \in Nat
  BY <1>1, <1>2, <1>3, <1>4
<1>6. UNCHANGED <<pendedOn, swapRet>> /\ PendInv'
  BY <1>0, <1>3, PendStutterInv DEF pendVars
<1>7. SigOK'
  BY <1>3 DEF SigOK, NoSig
<1>8. /\ pollEvs' \in [Objs -> Seq(Events)] /\ EventsOK'
      /\ \A o \in Objs : \A x : In(pollEvs'[o], x) <=> In(pollEvs[o], x) /\ x # <<w, i>>
  BY <1>0, <1>3, <1>5, UnlinkLinks
<1>9. /\ work'[w].own /\ ~work'[w].queued /\ ~work'[w].timeout /\ work'[w].clear = i
      /\ \A r \in Works \ {w} : work'[r] = work[r]
  BY <1>1, <1>3, <1>4 DEF WorkStates
<1>10. PollTypeOK'
  <2>1. [work[w] EXCEPT !.clear = i] \in WorkStates
    BY <1>1, <1>5 DEF WorkStates
  <2>2. work' \in [Works -> WorkStates]
    BY <1>1, <1>3, <2>1
  <2>3. QED
    BY <1>0, <1>3, <1>8, <2>2 DEF PollTypeOK
<1>11. Upto(w, work[w].clear - 1)'
  <2>1. SUFFICES ASSUME NEW o \in Objs, NEW k \in Nat, In(pollEvs'[o], <<w, k>>)
                 PROVE  k <= i - 1
    BY <1>9 DEF Upto
  <2>2. k # i /\ k <= i
    BY <1>4, <1>8, <2>1 DEF Upto
  <2>3. QED
    BY <1>5, <2>2
<1>12. CallOK(w)' /\ NoticeOK(w)'
  BY <1>0, <1>3, <1>4 DEF CallOK, NoticeOK, Relies, Waiting
<1>13. WorkOK(w)'
  <2>1. work'[w].clear \in 1..(Len(polled'[w]) + 1)
    BY <1>1, <1>3, <1>5, <1>9
  <2>2. QED
    BY <1>3, <1>4, <1>9, <1>11, <2>1 DEF WorkOK
<1>14. PollerOK(w)'
  BY <1>0, <1>12, <1>13 DEF PollerOK
<1>15. \A r \in Pollers \ {w}, o \in Objs, k \in Nat :
         In(pollEvs'[o], <<r, k>>) <=> In(pollEvs[o], <<r, k>>)
  BY <1>8
<1>16. \A r \in Pollers \ {w} : Kept(r)
  BY <1>3, <1>6, <1>9, <1>15 DEF Kept
<1>17. \A t \in Threads : swapRet'[t] = swapRet[t] /\ (Noted(t) => Noted(t)')
  BY <1>3, <1>6 DEF Noted
<1>18. QED
  BY <1>3, <1>6, <1>7, <1>8, <1>10, <1>14, <1>15, <1>16, <1>17, LinkStep

-----------------------------------------------------------------------------
(* Signalling.                                                             *)

LEMMA HeadLinks ==
  ASSUME PollInv, NEW o \in Objs, pollEvs[o] # <<>>, polled' = polled,
         pollEvs' = [pollEvs EXCEPT ![o] = Tail(@)]
  PROVE  /\ pollEvs' \in [Objs -> Seq(Events)] /\ EventsOK'
         /\ Head(pollEvs[o]) \in Events /\ o \in Range(polled[Head(pollEvs[o])[1]])
         /\ \A oo \in Objs : \A x : In(pollEvs'[oo], x) => In(pollEvs[oo], x)
         /\ \A oo \in Objs \ {o} : pollEvs'[oo] = pollEvs[oo]
<1>1. /\ pollEvs \in [Objs -> Seq(Events)] /\ EventsOK /\ NoDup(pollEvs[o])
      /\ polled \in [Pollers -> Seq(Objs)]
  BY DEF PollInv, PollTypeOK, EventsOK
<1>2. PICK s \in Seq(Events) : s = pollEvs[o]
  BY <1>1
<1>3. s # <<>> /\ NoDup(s)
  BY <1>1, <1>2
<1>4. /\ Tail(s) \in Seq(Events) /\ Head(s) \in Events /\ In(s, Head(s))
      /\ NoDup(Tail(s)) /\ \A x : In(Tail(s), x) <=> In(s, x) /\ x # Head(s)
  BY <1>3, TailFacts
<1>5. pollEvs'[o] = Tail(s) /\ \A oo \in Objs \ {o} : pollEvs'[oo] = pollEvs[oo]
  BY <1>1, <1>2
<1>6. pollEvs' \in [Objs -> Seq(Events)]
  BY <1>1, <1>2, <1>4
<1>7. \A oo \in Objs : \A x : In(pollEvs'[oo], x) => In(pollEvs[oo], x)
  <2>1. SUFFICES ASSUME NEW oo \in Objs, NEW x, In(pollEvs'[oo], x)
                 PROVE  In(pollEvs[oo], x)
    OBVIOUS
  <2>2. CASE oo = o
    BY <1>2, <1>4, <1>5, <2>1, <2>2
  <2>3. CASE oo # o
    BY <1>5, <2>1, <2>3
  <2>4. QED
    BY <2>2, <2>3
<1>8. EventsOK'
  <2>1. \A oo \in Objs : NoDup(pollEvs'[oo])
    BY <1>1, <1>4, <1>5 DEF EventsOK
  <2>2. QED
    BY <1>1, <1>7, <2>1 DEF EventsOK
<1>9. o \in Range(polled[Head(s)[1]])
  <2>1. PICK p \in Pollers, i \in Nat : Head(s) = <<p, i>>
    BY <1>4 DEF Events
  <2>2. i \in 1..Len(polled[p]) /\ polled[p][i] = o
    BY <1>1, <1>2, <1>4, <2>1 DEF EventsOK
  <2>3. DOMAIN polled[p] = 1..Len(polled[p])
    BY <1>1
  <2>4. QED
    BY <2>1, <2>2, <2>3 DEF Range
<1>10. QED
  BY <1>2, <1>4, <1>5, <1>6, <1>7, <1>8, <1>9

(* A poller that is not told, or is told with signal_poll_event in         *)
(* progress.                                                               *)
LEMMA SignalKept ==
  ASSUME PollInv, sig = NoSig, NEW o \in Objs, polled' = polled, swapRet' = swapRet,
         evReady \subseteq evReady',
         \A oo \in Objs \ {o} : /\ pollEvs'[oo] = pollEvs[oo]
                                /\ cond'[oo] = cond[oo]
                                /\ handling = oo => handling' = oo,
         NEW r \in Pollers, Kept(r),
         pollEvs[o] # <<>> =>
           /\ Head(pollEvs[o])[1] # r \/ sig'.ev[1] = r
           /\ Head(pollEvs[o]) \in Events
           /\ o \in Range(polled[Head(pollEvs[o])[1]])
  PROVE  PollerOK(r)'
<1>1. PollerOK(r) /\ poller'[r] = poller[r] /\ polled[r] \in Seq(Objs) /\ EventsOK
  BY DEF PollInv, Kept, PollTypeOK
<1>2. sig.ev[1] # r /\ sig.st # "stored"
  BY PendAssumption, PollAssumption DEF NoSig, Pollers
<1>3. CallOK(r)'
  BY <1>1, KeptCall DEF PollerOK
<1>4. ASSUME r \in Threads PROVE ThreadOK(r)' /\ SuccessOK(r)'
  <2>1. Noted(r) => Noted(r)'
    BY DEF Noted
  <2>2. ThreadOK(r)'
    BY <1>1, <1>4, KeptThread DEF PollerOK
  <2>3. QED
    BY <1>1, <1>2, <1>4, <2>1, <2>2 DEF PollerOK, SuccessOK, HasEvent
<1>5. r \in Works => WorkOK(r)'
  BY <1>1, KeptWork DEF PollerOK
<1>6. NoticeOK(r)'
  <2>1. SUFFICES ASSUME NEW i \in 1..Len(polled[r]), Relies(r, i)',
                        Alone(r, polled[r][i])'
                 PROVE  (\/ sig.ev[1] = r
                         \/ /\ In(pollEvs[polled[r][i]], <<r, i>>)
                            /\ cond[polled[r][i]] => handling = polled[r][i])'
    BY DEF NoticeOK
  <2>2. Relies(r, i)
    BY <2>1, KeptRelies
  <2>3. Alone(r, polled[r][i]) /\ polled[r][i] \in Objs
    BY <1>1, <2>1 DEF Alone
  <2>4. /\ In(pollEvs[polled[r][i]], <<r, i>>)
        /\ cond[polled[r][i]] => handling = polled[r][i]
    BY <1>1, <1>2, <2>1, <2>2, <2>3 DEF PollerOK, NoticeOK
  <2>5. CASE polled[r][i] # o
    BY <2>3, <2>4, <2>5
  <2>6. CASE polled[r][i] = o
    <3>1. pollEvs[o] # <<>>
      <4>1. PICK j \in 1..Len(pollEvs[o]) : TRUE
        BY <2>4, <2>6 DEF In
      <4>2. QED
        BY <4>1
    <3>2. Head(pollEvs[o])[1] = r
      BY <2>3, <2>6, <3>1 DEF Alone, Events
    <3>3. QED
      BY <3>1, <3>2
  <2>7. QED
    BY <2>5, <2>6
<1>7. QED
  BY <1>3, <1>4, <1>5, <1>6 DEF PollerOK

LEMMA ToldOK ==
  ASSUME PollInv, sig = NoSig, NEW p \in Pollers, polled' = polled, swapRet' = swapRet,
         UNCHANGED <<work, workFiring>>, UNCHANGED pendedOn,
         evReady \subseteq evReady',
         p \in Threads /\ ~CancelEarly =>
           Noted(p)' \/ ~(poller[p].pc = "register" /\ poller[p].polling),
         poller' = [poller EXCEPT ![p].polling = FALSE],
         \A o \in Objs, i \in Nat :
           In(pollEvs'[o], <<p, i>>) => In(pollEvs[o], <<p, i>>),
         IF p \in Threads THEN pendedOn[p] = None
         ELSE ~(work[p].trig /\ poller[p].polling /\ work[p].own)
  PROVE  PollerOK(p)'
<1>0. PollerOK(p) /\ poller \in [Pollers -> PollerStates]
  BY DEF PollInv, PollTypeOK
<1>1. /\ poller'[p].pc = poller[p].pc /\ poller'[p].i = poller[p].i
      /\ poller'[p].n = poller[p].n /\ poller'[p].ret = poller[p].ret
      /\ ~poller'[p].polling
  BY <1>0 DEF PollerStates
<1>2. \A k : Upto(p, k) => Upto(p, k)'
  BY DEF Upto
<1>3. /\ Upto(p, poller[p].n) => Upto(p, poller[p].n)'
      /\ Upto(p, poller[p].i) => Upto(p, poller[p].i)'
  BY <1>1, <1>2 DEF Upto
<1>4. CallOK(p)'
  BY <1>0, <1>1, <1>3 DEF PollerOK, CallOK
<1>5. NoticeOK(p)'
  <2>1. \A i : ~Relies(p, i)'
    BY <1>1, PendAssumption, PollAssumption DEF Relies, Waiting
  <2>2. QED
    BY <2>1 DEF NoticeOK
<1>6. ASSUME p \in Threads PROVE ThreadOK(p)' /\ SuccessOK(p)'
  <2>1. (HasEvent(p) => Noted(p)) /\ (Noted(p) => Noted(p)')
    BY DEF HasEvent, Noted, NoSig
  <2>2. Upto(p, 0) => Upto(p, 0)'
    BY <1>2
  <2>3. ThreadOK(p)'
    BY <1>0, <1>1, <1>3, <1>6, <2>2 DEF PollerOK, ThreadOK
  <2>4. SuccessOK(p)'
    BY <1>0, <1>1, <1>6, <2>1 DEF PollerOK, SuccessOK, HasEvent
  <2>5. QED
    BY <2>3, <2>4
<1>7. ASSUME p \in Works PROVE WorkOK(p)'
  <2>1. WorkOK(p) /\ p \notin Threads
    BY <1>0, <1>7, PollAssumption DEF PollerOK
  <2>2. Upto(p, 0) => Upto(p, 0)'
    BY <1>2
  <2>3. Upto(p, work[p].clear - 1) => Upto(p, work[p].clear - 1)'
    BY <1>2 DEF Upto
  <2>4. Quiet(p)' <=> Quiet(p)
    BY DEF Quiet
  <2>5. QED
    BY <1>1, <2>1, <2>2, <2>3, <2>4 DEF WorkOK
<1>8. QED
  BY <1>4, <1>5, <1>6, <1>7 DEF PollerOK

LEMMA UnpendOnlyInv ==
  ASSUME PendInv, NEW t \in Threads, UnpendNoTimeout(t),
         UNCHANGED <<prio, timeout, firing, suspending, swapRet, runnable, halted>>
  PROVE  PendInv'
<1>1. /\ QueueMatchesState' /\ waitq' \in [WaitQs -> Seq(Threads)]
      /\ pendedOn' \in [Threads -> WaitQs \cup {None}] /\ pendedOn'[t] = None
      /\ \A u \in Threads : u # t => pendedOn'[u] = pendedOn[u]
  BY UnpendNoTimeoutMatch DEF PendInv
<1>2. PendTypeOK'
  BY <1>1 DEF PendInv, PendTypeOK
<1>3. RunnableIsFree'
  BY <1>1 DEF PendInv, RunnableIsFree
<1>4. QED
  BY <1>1, <1>2, <1>3 DEF PendInv

(* signal_poll_event, from k_poll_signal_raise and from                    *)
(* z_handle_obj_poll_events.                                               *)
LEMMA SignalFirstInv ==
  ASSUME PollInv, sig = NoSig, NEW o \in Objs, NEW ret \in {"0", "EINTR"},
         SignalFirst(o, ret), UNCHANGED <<polled, work, workFiring>>,
         ret = "EINTR" /\ ~CancelEarly => ~Undecided(o),
         cond' \in [Objs -> BOOLEAN], handling' \in Objs \cup {None},
         \A oo \in Objs \ {o} : cond'[oo] = cond[oo] /\ (handling = oo => handling' = oo)
  PROVE  PollInv'
<1>0. PendInv /\ PollTypeOK /\ EventsOK /\ \A p \in Pollers : PollerOK(p)
  BY DEF PollInv
<1>1. CASE pollEvs[o] = <<>>
  <2>1. UNCHANGED <<pendVars, pollEvs, evReady, poller, sig>>
    BY <1>1 DEF SignalFirst
  <2>2. UNCHANGED <<pendedOn, swapRet>> /\ PendInv'
    BY <1>0, <2>1, PendStutterInv DEF pendVars
  <2>3. PollTypeOK'
    BY <1>0, <2>1 DEF PollTypeOK
  <2>4. EventsOK'
    BY <1>0, <2>1 DEF EventsOK
  <2>5. SigOK'
    BY <2>1 DEF SigOK, NoSig
  <2>6. \A r \in Pollers : Kept(r)
    BY <2>1, <2>2 DEF Kept, In
  <2>7. \A r \in Pollers : PollerOK(r)'
    BY <1>1, <2>1, <2>2, <2>6, SignalKept
  <2>8. QED
    BY <2>2, <2>3, <2>4, <2>5, <2>7 DEF PollInv
<1>2. CASE pollEvs[o] # <<>>
  <2>1. PICK e : e = Head(pollEvs[o])
    OBVIOUS
  <2>2. PICK p : p = e[1]
    OBVIOUS
  <2>3. pollEvs' = [pollEvs EXCEPT ![o] = Tail(@)]
    BY <1>2 DEF SignalFirst
  <2>4. /\ pollEvs' \in [Objs -> Seq(Events)] /\ EventsOK'
        /\ e \in Events /\ o \in Range(polled[p])
        /\ \A oo \in Objs : \A x : In(pollEvs'[oo], x) => In(pollEvs[oo], x)
        /\ \A oo \in Objs \ {o} : pollEvs'[oo] = pollEvs[oo]
    BY <1>2, <2>1, <2>2, <2>3, HeadLinks
  <2>5. p \in Pollers
    BY <2>2, <2>4 DEF Events
  <2>6. CASE /\ p \in Threads /\ pendedOn[p] # None
             /\ UnpendNoTimeout(p)
             /\ sig' = [ev |-> e, st |-> "unpended", ret |-> ret]
             /\ UNCHANGED <<prio, timeout, firing, suspending, swapRet,
                            runnable, halted, evReady, poller>>
    <3>1. PendInv'
      BY <1>0, <2>6, UnpendOnlyInv
    <3>2. pendedOn'[p] = None /\ \A u \in Threads : u # p => pendedOn'[u] = pendedOn[u]
      BY <1>0, <2>6, UnpendNoTimeoutMatch DEF PendInv
    <3>3. PollTypeOK'
      <4>1. sig' \in SigStates
        BY <2>4, <2>6 DEF SigStates
      <4>2. QED
        BY <1>0, <2>4, <2>6, <4>1 DEF PollTypeOK
    <3>4. poller[p].pc = "wait"
      BY <1>0, <2>5, <2>6 DEF PollerOK, ThreadOK
    <3>5. sig'.st = "unpended" /\ sig'.ev[1] = p
      BY <2>2, <2>6
    <3>6. SigOK'
      BY <2>6, <3>2, <3>4, <3>5 DEF SigOK
    <3>7. \A r \in Pollers : Kept(r)
      BY <2>4, <2>6, <3>2 DEF Kept
    <3>8. ASSUME NEW r \in Pollers PROVE PollerOK(r)'
      <4>1. Head(pollEvs[o])[1] # r \/ sig'.ev[1] = r
        BY <2>1, <2>2, <3>5
      <4>2. evReady \subseteq evReady' /\ swapRet' = swapRet
        BY <2>6
      <4>3. QED
        BY <2>1, <2>2, <2>4, <3>7, <4>1, <4>2, SignalKept
    <3>9. QED
      BY <2>4, <3>1, <3>3, <3>6, <3>8 DEF PollInv
  <2>7. CASE /\ p \in Works
             /\ work[p].trig /\ poller[p].polling /\ work[p].own
             /\ sig' = [ev |-> e, st |-> "work", ret |-> ret]
             /\ UNCHANGED <<pendVars, evReady, poller>>
    <3>1. UNCHANGED <<pendedOn, swapRet>> /\ PendInv'
      BY <1>0, <2>7, PendStutterInv DEF pendVars
    <3>2. PollTypeOK'
      <4>1. sig' \in SigStates
        BY <2>4, <2>7 DEF SigStates
      <4>2. QED
        BY <1>0, <2>4, <2>7, <4>1 DEF PollTypeOK
    <3>3. poller[p].pc = "idle"
      <4>1. WorkOK(p) /\ poller[p].pc \in {"idle", "register", "clear", "wait"}
        BY <1>0, <2>5, <2>7 DEF PollerOK, PollTypeOK, PollerStates
      <4>2. QED
        BY <2>7, <4>1 DEF WorkOK
    <3>4. sig'.st = "work" /\ sig'.ev[1] = p
      BY <2>2, <2>7
    <3>5. SigOK'
      BY <2>7, <3>3, <3>4 DEF SigOK
    <3>6. \A r \in Pollers : Kept(r)
      BY <2>4, <2>7, <3>1 DEF Kept
    <3>7. ASSUME NEW r \in Pollers PROVE PollerOK(r)'
      <4>1. Head(pollEvs[o])[1] # r \/ sig'.ev[1] = r
        BY <2>1, <2>2, <3>4
      <4>2. evReady \subseteq evReady'
        BY <2>7
      <4>3. QED
        BY <2>1, <2>2, <2>4, <3>1, <3>6, <4>1, <4>2, SignalKept
    <3>8. QED
      BY <2>4, <3>1, <3>2, <3>5, <3>7 DEF PollInv
  <2>8. CASE /\ IF p \in Threads THEN pendedOn[p] = None
                ELSE ~(work[p].trig /\ poller[p].polling /\ work[p].own)
             /\ Told(e, ret)
             /\ UNCHANGED pendVars
    <3>1. UNCHANGED <<pendedOn, swapRet>> /\ PendInv'
      BY <1>0, <2>8, PendStutterInv DEF pendVars
    <3>2. /\ poller' = [poller EXCEPT ![p].polling = FALSE]
          /\ evReady' = (IF ret = "0" THEN evReady \cup {e} ELSE evReady)
          /\ sig' = NoSig /\ evReady \subseteq evReady'
      BY <2>2, <2>8 DEF Told
    <3>3. PollTypeOK'
      <4>1. poller' \in [Pollers -> PollerStates]
        <5>1. PICK r : r = [poller[p] EXCEPT !.polling = FALSE]
          OBVIOUS
        <5>2. poller[p] \in PollerStates
          BY <1>0, <2>5 DEF PollTypeOK
        <5>3. r \in PollerStates
          BY <5>1, <5>2 DEF PollerStates
        <5>4. poller' = [poller EXCEPT ![p] = r]
          BY <3>2, <5>1
        <5>5. QED
          BY <1>0, <5>3, <5>4 DEF PollTypeOK
      <4>2. QED
        BY <1>0, <2>4, <3>2, <4>1 DEF PollTypeOK
    <3>4. SigOK'
      BY <3>2 DEF SigOK, NoSig
    <3>5. PollerOK(p)'
      <4>1. CASE ret = "0"
        <5>1. Noted(p)'
          BY <2>2, <3>2, <4>1 DEF Noted
        <5>2. QED
          BY <2>4, <2>5, <2>8, <3>1, <3>2, <5>1, ToldOK
      <4>2. CASE ret # "0"
        <5>1. pollEvs[o][1] = e
          BY <1>0, <1>2, <2>1 DEF PollTypeOK
        <5>2. p \in Threads /\ ~CancelEarly => ~(poller[p].pc = "register" /\ poller[p].polling)
          BY <1>2, <2>2, <4>2, <5>1 DEF Undecided
        <5>3. QED
          BY <2>4, <2>5, <2>8, <3>1, <3>2, <5>2, ToldOK
      <4>3. QED
        BY <4>1, <4>2
    <3>6. ASSUME NEW r \in Pollers, r # p PROVE PollerOK(r)'
      <4>1. poller'[r] = poller[r]
        BY <1>0, <3>2, <3>6 DEF PollTypeOK
      <4>2. Kept(r)
        BY <2>4, <3>1, <4>1 DEF Kept
      <4>3. Head(pollEvs[o])[1] # r /\ evReady \subseteq evReady'
        BY <2>1, <2>2, <3>2, <3>6
      <4>4. QED
        BY <2>1, <2>2, <2>4, <3>1, <4>2, <4>3, SignalKept
    <3>7. QED
      BY <2>4, <3>1, <3>3, <3>4, <3>5, <3>6 DEF PollInv
  <2>9. QED
    BY <1>2, <2>1, <2>2, <2>6, <2>7, <2>8 DEF SignalFirst
<1>3. QED
  BY <1>1, <1>2

LEMMA SignalRaiseInv ==
  ASSUME PollInv, NEW o \in Objs, SignalRaise(o)
  PROVE  PollInv'
<1>1. /\ sig = NoSig /\ SignalFirst(o, "0")
      /\ UNCHANGED <<polled, handling, work, workFiring>>
      /\ cond' = [cond EXCEPT ![o] = TRUE]
  BY DEF SignalRaise, LockFree
<1>2. /\ cond' \in [Objs -> BOOLEAN] /\ handling' \in Objs \cup {None}
      /\ \A oo \in Objs \ {o} : cond'[oo] = cond[oo] /\ (handling = oo => handling' = oo)
  BY <1>1 DEF PollInv, PollTypeOK
<1>3. "0" # "EINTR"
  OBVIOUS
<1>4. QED
  BY <1>1, <1>2, <1>3, SignalFirstInv

LEMMA HandleObjPollEventsInv ==
  ASSUME PollInv, NEW ret \in {"0", "EINTR"}, HandleObjPollEvents(ret)
  PROVE  PollInv'
<1>1. PICK o \in Objs : o = handling
  BY DEF PollInv, PollTypeOK, HandleObjPollEvents
<1>2. /\ sig = NoSig /\ SignalFirst(o, ret) /\ handling' = None
      /\ ret = "EINTR" /\ ~CancelEarly => ~Undecided(o)
      /\ UNCHANGED <<polled, cond, work, workFiring>>
  BY <1>1 DEF HandleObjPollEvents, LockFree
<1>3. /\ cond' \in [Objs -> BOOLEAN] /\ handling' \in Objs \cup {None}
      /\ \A oo \in Objs \ {o} : cond'[oo] = cond[oo] /\ (handling = oo => handling' = oo)
  BY <1>1, <1>2 DEF PollInv, PollTypeOK
<1>4. QED
  BY <1>2, <1>3, SignalFirstInv

(* An object becomes ready, and its provider is about to tell, or is made  *)
(* not ready: everybody who relies on being told still may.                *)
LEMMA CondStepInv ==
  ASSUME PollInv, UNCHANGED <<pendVars, polled, pollEvs, evReady, sig, poller, work,
                              workFiring>>,
         cond' \in [Objs -> BOOLEAN], handling' \in Objs \cup {None},
         \A o \in Objs : (cond[o] => handling = o) => (cond'[o] => handling' = o)
  PROVE  PollInv'
<1>0. PendInv /\ PollTypeOK /\ EventsOK /\ SigOK /\ \A p \in Pollers : PollerOK(p)
  BY DEF PollInv
<1>1. UNCHANGED <<pendedOn, swapRet>> /\ PendInv'
  BY <1>0, PendStutterInv DEF pendVars
<1>2. PollTypeOK'
  BY <1>0 DEF PollTypeOK
<1>3. EventsOK' /\ SigOK'
  BY <1>0, <1>1 DEF EventsOK, SigOK
<1>4. ASSUME NEW r \in Pollers PROVE PollerOK(r)'
  <2>1. Kept(r) /\ PollerOK(r) /\ polled[r] \in Seq(Objs)
    BY <1>0, <1>1 DEF Kept, In, PollTypeOK
  <2>2. CallOK(r)'
    BY <2>1, KeptCall DEF PollerOK
  <2>3. r \in Threads => ThreadOK(r)' /\ SuccessOK(r)'
    BY <1>1, <2>1, KeptThread, KeptSuccess DEF PollerOK, Noted
  <2>4. r \in Works => WorkOK(r)'
    BY <2>1, KeptWork DEF PollerOK
  <2>5. NoticeOK(r)'
    <3>1. SUFFICES ASSUME NEW i \in 1..Len(polled[r]), Relies(r, i)',
                          Alone(r, polled[r][i])'
                   PROVE  (\/ sig.ev[1] = r
                           \/ /\ In(pollEvs[polled[r][i]], <<r, i>>)
                              /\ cond[polled[r][i]] => handling = polled[r][i])'
      BY DEF NoticeOK
    <3>2. Relies(r, i)
      BY <2>1, <3>1, KeptRelies
    <3>3. Alone(r, polled[r][i]) /\ polled[r][i] \in Objs
      BY <2>1, <3>1 DEF Alone
    <3>4. QED
      BY <2>1, <3>2, <3>3 DEF PollerOK, NoticeOK
  <2>6. QED
    BY <2>2, <2>3, <2>4, <2>5 DEF PollerOK
<1>5. QED
  BY <1>1, <1>2, <1>3, <1>4 DEF PollInv

LEMMA ProvideInv ==
  ASSUME PollInv, NEW o \in Objs, NEW ready \in BOOLEAN, Provide(o, ready)
  PROVE  PollInv'
<1>1. /\ UNCHANGED <<pendVars, polled, pollEvs, evReady, sig, poller, work, workFiring>>
      /\ handling = None /\ handling' = o /\ cond' = [cond EXCEPT ![o] = ready]
  BY DEF Provide
<1>2. /\ cond' \in [Objs -> BOOLEAN] /\ handling' \in Objs \cup {None}
      /\ \A oo \in Objs : (cond[oo] => handling = oo) => (cond'[oo] => handling' = oo)
  BY <1>1, PollAssumption DEF PollInv, PollTypeOK
<1>3. QED
  BY <1>1, <1>2, CondStepInv

LEMMA ConsumeInv ==
  ASSUME PollInv, NEW o \in Objs, Consume(o)
  PROVE  PollInv'
<1>1. /\ UNCHANGED <<pendVars, polled, pollEvs, evReady, sig, poller, work, workFiring>>
      /\ handling' = handling /\ cond' = [cond EXCEPT ![o] = FALSE]
  BY DEF Consume
<1>2. /\ cond' \in [Objs -> BOOLEAN] /\ handling' \in Objs \cup {None}
      /\ \A oo \in Objs : (cond[oo] => handling = oo) => (cond'[oo] => handling' = oo)
  BY <1>1 DEF PollInv, PollTypeOK
<1>3. QED
  BY <1>1, <1>2, CondStepInv

(* The sections of signal_poll_event after the first: whoever is not told  *)
(* is as before.                                                           *)
LEMMA TellStep ==
  ASSUME PollInv, UNCHANGED <<polled, cond, pollEvs, handling>>,
         NEW p \in Pollers, sig.ev[1] = p,
         PendInv', PollTypeOK', SigOK', PollerOK(p)',
         evReady \subseteq evReady',
         \A r \in Pollers \ {p} : Kept(r),
         \A r \in Threads \ {p} : swapRet'[r] = swapRet[r]
  PROVE  PollInv'
<1>1. EventsOK'
  BY DEF PollInv, EventsOK
<1>2. ASSUME NEW r \in Pollers, r # p PROVE PollerOK(r)'
  <2>1. Kept(r) /\ PollerOK(r) /\ poller'[r] = poller[r] /\ polled[r] \in Seq(Objs)
    BY <1>2 DEF PollInv, Kept, PollTypeOK
  <2>2. CallOK(r)'
    BY <2>1, KeptCall DEF PollerOK
  <2>3. ASSUME r \in Threads PROVE ThreadOK(r)' /\ SuccessOK(r)'
    <3>1. (HasEvent(r) => Noted(r)) /\ (Noted(r) => Noted(r)')
      BY <1>2 DEF HasEvent, Noted
    <3>2. ThreadOK(r)'
      BY <2>1, <2>3, KeptThread DEF PollerOK
    <3>3. QED
      BY <1>2, <2>1, <2>3, <3>1, <3>2 DEF PollerOK, SuccessOK, HasEvent
  <2>4. r \in Works => WorkOK(r)'
    BY <2>1, KeptWork DEF PollerOK
  <2>5. NoticeOK(r)'
    <3>1. SUFFICES ASSUME NEW i \in 1..Len(polled[r]), Relies(r, i)',
                          Alone(r, polled[r][i])'
                   PROVE  /\ In(pollEvs[polled[r][i]], <<r, i>>)
                          /\ cond[polled[r][i]] => handling = polled[r][i]
      BY DEF NoticeOK
    <3>2. Relies(r, i)
      BY <2>1, <3>1, KeptRelies
    <3>3. Alone(r, polled[r][i])
      BY <3>1 DEF Alone
    <3>4. QED
      BY <1>2, <2>1, <3>2, <3>3 DEF PollerOK, NoticeOK
  <2>6. QED
    BY <2>2, <2>3, <2>4, <2>5 DEF PollerOK
<1>3. QED
  BY <1>1, <1>2 DEF PollInv

LEMMA SigFacts ==
  ASSUME PollTypeOK, sig.st # "none"
  PROVE  sig \in SigStates /\ sig.ev \in Events /\ sig.ev[1] \in Pollers
BY DEF PollTypeOK, NoSig, SigStates, Events

LEMMA SignalStoreInv ==
  ASSUME PollInv, SignalStore
  PROVE  PollInv'
<1>0. PendInv /\ PollTypeOK /\ SigOK /\ sig.st = "unpended"
  BY DEF PollInv, SignalStore
<1>1. PICK t \in Threads : t = sig.ev[1]
  BY <1>0 DEF SigOK
<1>2. /\ timeout' = [timeout EXCEPT ![t] = FALSE]
      /\ swapRet' = [swapRet EXCEPT ![t] = sig.ret]
      /\ sig' = [sig EXCEPT !.st = "stored"]
      /\ UNCHANGED <<prio, waitq, pendedOn, firing, suspending, runnable, halted>>
      /\ UNCHANGED <<polled, cond, pollEvs, evReady, handling, poller, work, workFiring>>
  BY <1>1 DEF SignalStore
<1>3. /\ t \in Pollers /\ t \notin Works /\ PollerOK(t) /\ pendedOn[t] = None
      /\ poller[t].pc = "wait" \/ (poller[t].pc = "clear" /\ poller[t].i > 0)
  BY <1>0, <1>1, PollAssumption DEF PollInv, SigOK, Pollers
<1>4. sig \in SigStates /\ sig.ret \in RetVals
  BY <1>0, SigFacts DEF SigStates, RetVals
<1>5. sig'.st = "stored" /\ sig'.ev[1] = t /\ sig' \in SigStates
  BY <1>1, <1>2, <1>4 DEF SigStates
<1>6. PendInv'
  <2>1. PendTypeOK'
    BY <1>0, <1>2, <1>4 DEF PendInv, PendTypeOK
  <2>2. QueueMatchesState'
    BY <1>0, <1>2, QueueUntouched DEF PendInv
  <2>3. RunnableIsFree'
    BY <1>0, <1>2 DEF PendInv, PendTypeOK, RunnableIsFree
  <2>4. QED
    BY <2>1, <2>2, <2>3 DEF PendInv
<1>7. PollTypeOK'
  BY <1>0, <1>2, <1>5 DEF PollTypeOK
<1>8. SigOK'
  BY <1>2, <1>3, <1>5 DEF SigOK
<1>9. /\ \A r \in Pollers \ {t} : Kept(r)
      /\ \A r \in Threads \ {t} : swapRet'[r] = swapRet[r]
  BY <1>0, <1>2 DEF Kept, In, PendInv, PendTypeOK
<1>10. PollerOK(t)'
  <2>1. Kept(t)
    BY <1>2 DEF Kept, In
  <2>2. CallOK(t)' /\ ThreadOK(t)'
    BY <1>2, <1>3, <2>1, KeptCall, KeptThread DEF PollerOK
  <2>3. NoticeOK(t)'
    BY <1>5 DEF NoticeOK
  <2>4. SuccessOK(t)'
    <3>1. (HasEvent(t) => Noted(t)) /\ (Noted(t) => Noted(t)')
      BY <1>0, <1>2 DEF HasEvent, Noted
    <3>2. swapRet'[t] = sig.ret /\ sig'.ret = sig.ret
      BY <1>0, <1>2, <1>4 DEF PendInv, PendTypeOK, SigStates
    <3>3. QED
      BY <1>2, <1>3, <1>5, <3>1, <3>2 DEF PollerOK, SuccessOK, HasEvent
  <2>5. QED
    BY <1>3, <2>2, <2>3, <2>4 DEF PollerOK
<1>11. QED
  BY <1>1, <1>2, <1>3, <1>6, <1>7, <1>8, <1>9, <1>10, TellStep

LEMMA SignalReadyInv ==
  ASSUME PollInv, SignalReady
  PROVE  PollInv'
<1>0. PendInv /\ PollTypeOK /\ SigOK /\ sig.st = "stored"
  BY DEF PollInv, SignalReady
<1>1. PICK t \in Threads : t = sig.ev[1]
  BY <1>0 DEF SigOK
<1>2. /\ ReadyThread(t)
      /\ poller' = [poller EXCEPT ![t].polling = FALSE]
      /\ evReady' = (IF sig.ret = "0" THEN evReady \cup {sig.ev} ELSE evReady)
      /\ sig' = NoSig
      /\ UNCHANGED <<polled, cond, pollEvs, handling, work, workFiring>>
  BY <1>1 DEF SignalReady, Told
<1>3. /\ t \in Pollers /\ t \notin Works /\ PollerOK(t) /\ pendedOn[t] = None
      /\ poller[t].pc = "wait" \/ poller[t].pc = "clear"
  BY <1>0, <1>1, PollAssumption DEF PollInv, SigOK, Pollers
<1>4. PendInv' /\ UNCHANGED <<pendedOn, swapRet>>
  BY <1>0, <1>2, ReadyThreadInv DEF ReadyThread
<1>5. poller \in [Pollers -> PollerStates] /\ sig.ev \in Events
  BY <1>0, SigFacts DEF PollTypeOK
<1>6. /\ poller'[t].pc = poller[t].pc /\ poller'[t].i = poller[t].i
      /\ poller'[t].n = poller[t].n /\ poller'[t].ret = poller[t].ret
      /\ \A r \in Pollers \ {t} : poller'[r] = poller[r]
  BY <1>2, <1>3, <1>5 DEF PollerStates
<1>7. PollTypeOK'
  <2>1. poller' \in [Pollers -> PollerStates]
    BY <1>2, <1>5 DEF PollerStates
  <2>2. QED
    BY <1>0, <1>2, <1>5, <2>1 DEF PollTypeOK
<1>8. SigOK'
  BY <1>2 DEF SigOK, NoSig
<1>9. \A r \in Pollers \ {t} : Kept(r)
  BY <1>2, <1>4, <1>6 DEF Kept, In
<1>10. PollerOK(t)'
  <2>1. /\ Upto(t, poller[t].n) => Upto(t, poller[t].n)'
        /\ Upto(t, poller[t].i) => Upto(t, poller[t].i)'
    BY <1>2, <1>6 DEF Upto
  <2>2. CallOK(t)'
    BY <1>2, <1>3, <1>6, <2>1 DEF PollerOK, CallOK
  <2>3. ThreadOK(t)'
    BY <1>2, <1>3, <1>4, <1>6, <2>1 DEF PollerOK, ThreadOK
  <2>4. NoticeOK(t)'
    <3>1. \A i : ~Relies(t, i)'
      BY <1>3, <1>4, <1>6, PendAssumption, PollAssumption DEF Relies, Waiting
    <3>2. QED
      BY <3>1 DEF NoticeOK
  <2>5. HasEvent(t) => Noted(t)'
    BY <1>1, <1>2 DEF HasEvent, Noted
  <2>6. SuccessOK(t)'
    BY <1>3, <1>4, <1>6, <2>5 DEF PollerOK, SuccessOK, HasEvent
  <2>7. QED
    BY <1>3, <2>2, <2>3, <2>4, <2>6 DEF PollerOK
<1>11. evReady \subseteq evReady'
  BY <1>2
<1>12. QED
  BY <1>1, <1>2, <1>3, <1>4, <1>7, <1>8, <1>9, <1>10, <1>11, TellStep

LEMMA SignalWorkInv ==
  ASSUME PollInv, SignalWork
  PROVE  PollInv'
<1>0. PendInv /\ PollTypeOK /\ SigOK /\ sig.st = "work"
  BY DEF PollInv, SignalWork
<1>1. PICK w \in Works : w = sig.ev[1]
  BY <1>0 DEF SigOK
<1>2. /\ UNCHANGED pendVars
      /\ work' = [[work EXCEPT ![w].queued = @ \/ TRUE \/ work[w].was,
                               ![w].was = @ \/ TRUE] EXCEPT ![w].timeout = FALSE]
      /\ poller' = [poller EXCEPT ![w].polling = FALSE]
      /\ evReady' = (IF sig.ret = "0" THEN evReady \cup {sig.ev} ELSE evReady)
      /\ sig' = NoSig
      /\ UNCHANGED <<polled, cond, pollEvs, handling, workFiring>>
  BY <1>1 DEF SignalWork, Told, Queued
<1>3. /\ w \in Pollers /\ w \notin Threads /\ PollerOK(w)
      /\ poller[w].pc = "idle" /\ work[w].own /\ work[w].trig /\ poller[w].polling
  BY <1>0, <1>1, PollAssumption DEF PollInv, SigOK, Pollers
<1>4. PendInv' /\ UNCHANGED <<pendedOn, swapRet>>
  BY <1>0, <1>2, PendStutterInv DEF pendVars
<1>5. /\ poller \in [Pollers -> PollerStates] /\ sig.ev \in Events
      /\ work \in [Works -> WorkStates]
  BY <1>0, SigFacts DEF PollTypeOK
<1>6. /\ poller'[w].pc = "idle" /\ ~poller'[w].polling
      /\ \A r \in Pollers \ {w} : poller'[r] = poller[r]
  BY <1>2, <1>3, <1>5 DEF PollerStates
<1>7. /\ work'[w].own /\ work'[w].trig /\ work'[w].queued /\ ~work'[w].timeout
      /\ work'[w].clear = work[w].clear
      /\ \A r \in Works \ {w} : work'[r] = work[r]
  BY <1>2, <1>3, <1>5 DEF WorkStates
<1>8. PollTypeOK'
  <2>1. poller' \in [Pollers -> PollerStates]
    BY <1>2, <1>5 DEF PollerStates
  <2>2. work' \in [Works -> WorkStates]
    <3>1. [work[w] EXCEPT !.queued = TRUE, !.was = TRUE, !.timeout = FALSE] \in WorkStates
      BY <1>5 DEF WorkStates
    <3>2. work' = [work EXCEPT ![w] = [work[w] EXCEPT !.queued = TRUE, !.was = TRUE,
                                                      !.timeout = FALSE]]
      BY <1>2
    <3>3. QED
      BY <1>5, <3>1, <3>2
  <2>3. QED
    BY <1>0, <1>2, <1>5, <2>1, <2>2 DEF PollTypeOK
<1>9. SigOK'
  BY <1>2 DEF SigOK, NoSig
<1>10. \A r \in Pollers \ {w} : Kept(r)
  BY <1>2, <1>4, <1>6, <1>7 DEF Kept, In
<1>11. PollerOK(w)'
  <2>1. work[w].clear = 0
    BY <1>3 DEF PollerOK, WorkOK
  <2>2. WorkOK(w)'
    BY <1>2, <1>6, <1>7, <2>1 DEF WorkOK
  <2>3. CallOK(w)' /\ NoticeOK(w)'
    BY <1>3, <1>6 DEF CallOK, NoticeOK, Relies, Waiting
  <2>4. QED
    BY <1>3, <2>2, <2>3 DEF PollerOK
<1>12. evReady \subseteq evReady'
  BY <1>2
<1>13. QED
  BY <1>1, <1>2, <1>3, <1>4, <1>8, <1>9, <1>10, <1>11, <1>12, TellStep

-----------------------------------------------------------------------------
LEMMA PollNextInv ==
  ASSUME PollInv, WorksAreSafe, PollNext
  PROVE  PollInv'
<1>0. Threads \subseteq Pollers /\ Works \subseteq Pollers
  BY DEF Pollers
<1>1. CASE \E t \in Threads : PollStart(t)
  BY <1>1, PollStartInv
<1>2. CASE \E p \in Threads : PollRegister(p)
  BY <1>0, <1>2, RegisterInv DEF PollRegister
<1>3. CASE \E t \in Threads : PollReady(t)
  BY <1>3, PollReadyInv
<1>4. CASE \E t \in Threads, forever \in BOOLEAN : PollPend(t, forever)
  BY <1>4, PollPendInv
<1>5. CASE \E t \in Threads : PollWoken(t)
  BY <1>5, PollWokenInv
<1>6. CASE \E t \in Threads : PollClear(t)
  BY <1>0, <1>6, ClearTurnInv DEF PollClear
<1>7. CASE \E t \in Threads : PollReturn(t)
  BY <1>7, PollReturnInv
<1>8. CASE \E o \in Objs : SignalRaise(o)
  BY <1>8, SignalRaiseInv
<1>9. CASE \E o \in Objs, ready \in BOOLEAN : Provide(o, ready)
  BY <1>9, ProvideInv
<1>10. CASE \E ret \in {"0", "EINTR"} : HandleObjPollEvents(ret)
  BY <1>10, HandleObjPollEventsInv
<1>11. CASE \E o \in Objs : Consume(o)
  BY <1>11, ConsumeInv
<1>12. CASE SignalStore \/ SignalReady \/ SignalWork
  BY <1>12, SignalStoreInv, SignalReadyInv, SignalWorkInv
<1>13. CASE \E w \in Works : WorkSubmit(w)
  BY <1>13, WorkSubmitInv
<1>14. CASE \E w \in Works : WorkRegister(w)
  BY <1>0, <1>14, RegisterInv DEF WorkRegister
<1>15. CASE \E w \in Works, timed \in BOOLEAN : WorkArm(w, timed)
  BY <1>15, WorkArmInv
<1>16. CASE \E w \in Works : WorkReady(w)
  BY <1>16, WorkReadyInv
<1>17. CASE \E w \in Works : WorkClear(w)
  BY <1>0, <1>17, ClearTurnInv DEF WorkClear
<1>18. CASE \E w \in Works : WorkSubmitted(w)
  BY <1>18, WorkSubmittedInv
<1>19. CASE \E w \in Works : WorkCancel(w)
  BY <1>19, WorkCancelInv
<1>20. CASE \E w \in Works : WorkCancelled(w)
  BY <1>20, WorkCancelledInv
<1>21. CASE \E w \in Works : WorkExpire(w)
  BY <1>21, WorkExpireInv
<1>22. CASE WorkTimeout
  BY <1>22, WorkTimeoutInv
<1>23. CASE \E w \in Works : WorkRun(w)
  BY <1>23, WorkRunInv
<1>24. CASE \E w \in Works : WorkRunClear(w)
  BY <1>24, WorkRunClearInv
<1>25. CASE \E w \in Works : WorkRunDone(w)
  BY <1>25, WorkRunDoneInv
<1>26. CASE PollEnvironment
  BY <1>26, PollEnvironmentInv
<1>27. CASE \E t \in Victims : PollAbort(t)
  BY <1>27, PollAbortInv
<1>28. QED
  BY <1>1, <1>2, <1>3, <1>4, <1>5, <1>6, <1>7, <1>8, <1>9, <1>10, <1>11, <1>12,
     <1>13, <1>14, <1>15, <1>16, <1>17, <1>18, <1>19, <1>20, <1>21, <1>22, <1>23,
     <1>24, <1>25, <1>26, <1>27 DEF PollNext

LEMMA PollStutterInv ==
  ASSUME PollInv, UNCHANGED <<pendVars, pollVars>>
  PROVE  PollInv'
<1>1. PendInv /\ UNCHANGED pollVars /\ UNCHANGED <<pendedOn, swapRet>>
  BY DEF PollInv, pendVars
<1>2. QED
  BY <1>1, PendStutterInv, PollOutsideInv

LEMMA PollInvImplies ==
  ASSUME PollInv
  PROVE  NoRegistrationLeft /\ ReadyIsNoticed /\ (~CancelEarly => SuccessHasEvent)
<1>0. PollTypeOK /\ EventsOK /\ \A p \in Pollers : PollerOK(p)
  BY DEF PollInv
<1>1. ASSUME NEW p \in Pollers, Upto(p, 0) PROVE ~Linked(p)
  <2>1. SUFFICES ASSUME NEW o \in Objs, NEW j \in DOMAIN pollEvs[o],
                        pollEvs[o][j][1] = p
                 PROVE  FALSE
    BY DEF Linked
  <2>2. j \in 1..Len(pollEvs[o]) /\ pollEvs[o][j] \in Events
    BY <1>0, <2>1 DEF PollTypeOK
  <2>3. PICK i \in Nat : pollEvs[o][j] = <<p, i>>
    BY <2>1, <2>2 DEF Events
  <2>4. In(pollEvs[o], <<p, i>>)
    BY <2>2, <2>3 DEF In
  <2>5. i \in 1..Len(polled[p]) /\ i <= 0
    BY <1>0, <1>1, <2>4 DEF EventsOK, Upto
  <2>6. QED
    BY <2>5
<1>2. NoRegistrationLeft
  <2>1. ASSUME NEW t \in Threads, poller[t].pc = "idle" PROVE ~Linked(t)
    BY <1>0, <1>1, <2>1 DEF PollerOK, ThreadOK, Pollers
  <2>2. ASSUME NEW w \in Works, ~work[w].own PROVE ~Linked(w)
    BY <1>0, <1>1, <2>2 DEF PollerOK, WorkOK, Pollers
  <2>3. QED
    BY <2>1, <2>2 DEF NoRegistrationLeft
<1>3. ReadyIsNoticed
  <2>1. SUFFICES ASSUME NEW p \in Pollers, NEW o \in Objs,
                        Waiting(p), cond[o], o \in Range(polled[p]),
                        \A r \in Pollers \ {p} : o \notin Range(polled[r])
                 PROVE  handling = o \/ sig.ev[1] = p
    BY DEF ReadyIsNoticed
  <2>2. PICK i \in DOMAIN polled[p] : polled[p][i] = o
    BY <2>1 DEF Range
  <2>3. i \in 1..Len(polled[p])
    BY <1>0, <2>2 DEF PollTypeOK
  <2>4. Relies(p, i) /\ Alone(p, polled[p][i])
    BY <2>1, <2>2 DEF Relies, Alone
  <2>5. QED
    BY <1>0, <2>1, <2>2, <2>3, <2>4 DEF PollerOK, NoticeOK
<1>4. ASSUME ~CancelEarly PROVE SuccessHasEvent
  <2>1. SUFFICES ASSUME NEW t \in Threads, poller[t].pc = "clear",
                        poller[t].ret = "0", sig = NoSig
                 PROVE  \E e \in evReady : e[1] = t
    BY DEF SuccessHasEvent, LockFree
  <2>2. HasEvent(t) /\ sig.st # "stored"
    BY <1>0, <1>4, <2>1 DEF PollerOK, SuccessOK, Pollers, NoSig
  <2>3. QED
    BY <2>2 DEF HasEvent, Noted
<1>5. QED
  BY <1>2, <1>3, <1>4

LEMMA PollAlways == ASSUME WorksAreSafe PROVE PollSpec => []PollInv
<1>1. PendInit /\ PollInit => PollInv
  BY PollInitInv
<1>2. PollInv /\ [PollNext]_<<pendVars, pollVars>> => PollInv'
  BY PollNextInv, PollStutterInv
<1>3. QED
  BY <1>1, <1>2, PTL DEF PollSpec

(* Outside k_poll, and while nobody owns a triggered work item, none of    *)
(* its events is in an object's list: k_poll clears all it has registered, *)
(* however the wait ends and whatever is signalled meanwhile.              *)
THEOREM PollNoRegistrationLeft ==
  ASSUME WorksAreSafe PROVE PollSpec => []NoRegistrationLeft
<1>1. PollInv => NoRegistrationLeft
  BY PollInvImplies
<1>2. QED
  BY <1>1, PollAlways, PTL

(* k_poll never sleeps on an object that is ready and that nobody else     *)
(* polls: what becomes ready between the check of an event and the wait is *)
(* noticed, or its provider is about to tell.                              *)
THEOREM PollReadyIsNoticed ==
  ASSUME WorksAreSafe PROVE PollSpec => []ReadyIsNoticed
<1>1. PollInv => ReadyIsNoticed
  BY PollInvImplies
<1>2. QED
  BY <1>1, PollAlways, PTL

(* k_poll returns 0 only with an event in a ready state, whether it was    *)
(* ready at once, became ready during the registration or ended the wait;  *)
(* a CANCELLED one does not count.  k_queue_cancel_wait must not come      *)
(* while the thread is still registering: signal_poller finds it not       *)
(* pending, stores no -EINTR, and k_poll returns 0.                        *)
THEOREM PollSuccessHasEvent ==
  ASSUME WorksAreSafe, ~CancelEarly PROVE PollSpec => []SuccessHasEvent
<1>1. PollInv => SuccessHasEvent
  BY PollInvImplies
<1>2. QED
  BY <1>1, PollAlways, PTL


-----------------------------------------------------------------------------
(* Futexes, on any number of CPUs.                                         *)

FutexTypeOK ==
  /\ sec \in [st : {"free", "unpended", "set", "all"}, th : Threads \cup {None},
              item : {None}]
  /\ fx \in [val : {0, 1}, pc : [FutexCallers -> {"idle", "checked", "wait"}],
             expected : [FutexCallers -> {0, 1}], all : BOOLEAN,
             woken : SUBSET (Threads \cup {None}), missed : SUBSET FutexCallers]

(* The return value of a wait is preset when it starts and set only by     *)
(* k_futex_wake, which may be late: also for a thread that has not run.    *)
FutexWoken ==
  \A t \in FutexCallers : fx.pc[t] = "wait" /\ swapRet[t] = "0" => t \in fx.woken

FutexInv == PendInv /\ FutexTypeOK /\ FutexWoken

LEMMA FutexTypes ==
  /\ FutexCallers \subseteq Threads /\ Callers \subseteq Threads
  /\ Victims \subseteq Threads
  /\ FutexQ \in WaitQs /\ Forevers \subseteq BOOLEAN
  BY FutexAssumption, HandOverAssumption

LEMMA FutexInitInv == HInit /\ fx = FutexRecord => FutexInv
<1>1. SUFFICES ASSUME HInit, fx = FutexRecord PROVE FutexInv
  OBVIOUS
<1>2. PendInv
  BY <1>1, PendInitInv DEF HInit
<1>3. FutexTypeOK /\ FutexWoken
  BY <1>1 DEF HInit, Free, FutexRecord, FutexTypeOK, FutexWoken
<1>4. QED
  BY <1>2, <1>3 DEF FutexInv

LEMMA FutexUnpendInv ==
  ASSUME PendInv, FutexTypeOK, FutexUnpend
  PROVE  /\ PendInv' /\ swapRet' = swapRet
         /\ sec' \in [st : {"free", "unpended", "set", "all"},
                      th : Threads \cup {None}, item : {None}]
<1>1. Head(waitq[FutexQ]) \in Threads
  BY FutexTypes, HeadFacts DEF FutexUnpend, UnpendFirst, PendInv
<1>2. QED
  BY <1>1, FutexTypes, UnpendFirstInv DEF FutexUnpend, UnpendFirst

LEMMA FutexWakeInv ==
  ASSUME FutexInv, NEW all \in BOOLEAN,
         FutexWake(all) \/ FutexStore \/ FutexReady \/ FutexWakeNext
  PROVE  FutexInv'
<1>0. PendInv /\ FutexTypeOK /\ FutexWoken /\ PendTypeOK
  BY DEF FutexInv, PendInv
<1>1. CASE FutexWake(all)
  <2>1. PendInv' /\ swapRet' = swapRet
        /\ sec' \in [st : {"free", "unpended", "set", "all"},
                     th : Threads \cup {None}, item : {None}]
    <3>1. CASE FutexUnpend
      BY <1>0, <3>1, FutexUnpendInv
    <3>2. CASE UNCHANGED <<pendVars, sec>>
      BY <1>0, <3>2, PendStutterInv DEF pendVars, FutexTypeOK
    <3>3. QED
      BY <1>1, <3>1, <3>2 DEF FutexWake
  <2>2. PICK late \in SUBSET FutexCallers :
          fx' = [fx EXCEPT !.all = all /\ waitq[FutexQ] # <<>>,
                           !.missed = @ \cup late]
    BY <1>1 DEF FutexWake
  <2>3. FutexTypeOK' /\ FutexWoken'
    BY <1>0, <2>1, <2>2 DEF FutexTypeOK, FutexWoken
  <2>4. QED
    BY <2>1, <2>3 DEF FutexInv
<1>2. CASE FutexStore
  <2>1. PendInv'
    BY <1>0, <1>2, SetRetvalInv DEF FutexStore, RetVals
  <2>2. FutexTypeOK' /\ FutexWoken'
    BY <1>0, <1>2, FutexTypes
       DEF FutexStore, SetRetval, FutexTypeOK, FutexWoken, PendTypeOK
  <2>3. QED
    BY <2>1, <2>2 DEF FutexInv
<1>3. CASE FutexReady
  <2>1. PendInv' /\ swapRet' = swapRet
    BY <1>0, <1>3, ReadyThreadInv DEF FutexReady, ReadyWoken, ReadyThread
  <2>2. FutexTypeOK' /\ FutexWoken'
    BY <1>0, <1>3, <2>1
       DEF FutexReady, ReadyWoken, Free, FutexTypeOK, FutexWoken
  <2>3. QED
    BY <2>1, <2>2 DEF FutexInv
<1>4. CASE FutexWakeNext
  <2>1. CASE FutexUnpend /\ UNCHANGED fx
    BY <1>0, <2>1, FutexUnpendInv DEF FutexInv, FutexTypeOK, FutexWoken
  <2>2. CASE /\ sec' = Free /\ UNCHANGED pendVars
             /\ fx' = [fx EXCEPT !.all = FALSE]
    <3>1. FutexTypeOK' /\ FutexWoken'
      BY <1>0, <2>2 DEF Free, FutexTypeOK, FutexWoken, pendVars
    <3>2. QED
      BY <1>0, <2>2, <3>1, PendStutterInv DEF FutexInv
  <2>3. QED
    BY <1>4, <2>1, <2>2 DEF FutexWakeNext
<1>5. QED
  BY <1>1, <1>2, <1>3, <1>4

LEMMA FutexNextInv == ASSUME FutexInv, FutexNext PROVE FutexInv'
<1>0. PendInv /\ FutexTypeOK /\ FutexWoken
  BY DEF FutexInv
<1>1. CASE \E v \in {0, 1} : FutexSet(v)
  <2>1. PICK v \in {0, 1} : FutexSet(v)
    BY <1>1
  <2>2. PendInv'
    BY <1>0, <2>1, PendStutterInv DEF FutexSet
  <2>3. FutexTypeOK' /\ FutexWoken'
    BY <1>0, <2>1 DEF FutexSet, FutexTypeOK, FutexWoken, handVars, pendVars
  <2>4. QED
    BY <2>2, <2>3 DEF FutexInv
<1>2. CASE \E t \in FutexCallers : FutexCheck(t) \/ FutexReturn(t)
  <2>1. PICK t \in FutexCallers : FutexCheck(t) \/ FutexReturn(t)
    BY <1>2
  <2>2. PendInv' /\ UNCHANGED <<sec, swapRet>>
    BY <1>0, <2>1, PendStutterInv DEF FutexCheck, FutexReturn, handVars, pendVars
  <2>3. CASE FutexCheck(t)
    <3>1. FutexTypeOK' /\ FutexWoken'
      BY <1>0, <2>2, <2>3 DEF FutexCheck, FutexTypeOK, FutexWoken
    <3>2. QED
      BY <2>2, <3>1 DEF FutexInv
  <2>4. CASE FutexReturn(t)
    <3>1. FutexTypeOK' /\ FutexWoken'
      BY <1>0, <2>2, <2>4 DEF FutexReturn, FutexTypeOK, FutexWoken
    <3>2. QED
      BY <2>2, <3>1 DEF FutexInv
  <2>5. QED
    BY <2>1, <2>3, <2>4
<1>3. CASE \E t \in FutexCallers, forever \in Forevers : FutexPend(t, forever)
  <2>1. PICK t \in FutexCallers, forever \in Forevers : FutexPend(t, forever)
    BY <1>3
  <2>2. FutexTypeOK' /\ FutexWoken'
    BY <1>0, <2>1, FutexTypes
       DEF FutexPend, PendCurr, FutexTypeOK, FutexWoken, PendInv, PendTypeOK, RetVals,
           handVars
  <2>3. PendInv'
    BY <1>0, <2>1, FutexTypes, PendCurrInv DEF FutexPend
  <2>4. QED
    BY <2>2, <2>3 DEF FutexInv
<1>4. CASE FutexStore \/ FutexReady \/ FutexWakeNext
           \/ \E all \in BOOLEAN : FutexWake(all)
  BY <1>4, FutexWakeInv
<1>5. CASE \/ HEnvironment /\ UNCHANGED fx
           \/ \E t \in Victims : HAbort(t) /\ UNCHANGED fx
  <2>1. PendInv' /\ swapRet' = swapRet
    BY <1>0, <1>5, FutexTypes, OutsideInv, OutsideFacts, AbortInv, AbortFacts
       DEF HEnvironment, HAbort
  <2>2. UNCHANGED <<fx, sec>>
    BY <1>5 DEF HEnvironment, HAbort, handVars
  <2>3. QED
    BY <1>0, <2>1, <2>2 DEF FutexInv, FutexTypeOK, FutexWoken
<1>6. QED
  BY <1>1, <1>2, <1>3, <1>4, <1>5 DEF FutexNext

LEMMA FutexInvImplies == FutexInv => FutexSuccess
  BY DEF FutexInv, FutexWoken, FutexSuccess


-----------------------------------------------------------------------------
(* Heaps, on any number of CPUs *)

HeapCalls == [block : Blocks \cup {NoBlock}, new : Sizes,
              timeout : {"timed", "last", "forever"}] \cup {NoCall}

HeapTypeOK ==
  /\ sec \in [st : {"free", "unpended", "all"}, th : Threads \cup {None},
              item : {None}]
  /\ hp \in [blocks : SUBSET Blocks, call : [HeapCallers -> HeapCalls],
             passed : SUBSET Threads]

(* Said of threads and not of positions in the queue. *)
HeapWaitersOK ==
  \A t \in Threads : pendedOn[t] = HeapQ =>
    /\ t \in HeapCallers
    /\ Unlocked /\ Fits(hp.call[t].block, hp.call[t].new) => t \in hp.passed

HeapInv == PendInv /\ HeapTypeOK /\ HeapWaitersOK

LEMMA HeapTypes ==
  /\ HeapCallers \subseteq Threads /\ Victims \subseteq Threads
  /\ HeapQ \in WaitQs /\ None \notin WaitQs
  /\ HeapTotal \in Nat /\ Sizes \subseteq Nat
  BY HeapAssumption, HandOverAssumption, PendAssumption DEF Sizes

LEMMA HeapInitInv == HInit /\ hp = HeapRecord => HeapInv
<1>1. SUFFICES ASSUME HInit, hp = HeapRecord PROVE HeapInv
  OBVIOUS
<1>2. PendInv
  BY <1>1, PendInitInv DEF HInit
<1>3. HeapTypeOK
  <2>1. [t \in HeapCallers |-> NoCall] \in [HeapCallers -> HeapCalls]
    BY DEF HeapCalls
  <2>2. QED
    BY <1>1, <2>1, HeapTypes DEF HInit, Free, HeapRecord, HeapTypeOK
<1>4. HeapWaitersOK
  BY <1>1, HeapTypes DEF HInit, PendInit, HeapWaitersOK
<1>5. QED
  BY <1>2, <1>3, <1>4 DEF HeapInv

(* Fits, said of the units in use *)
FreeIn(used, b) == Units(b) \subseteq Sizes \ used

FitsIn(used, b, new) ==
  \/ b # NoBlock /\ (new <= b[2] \/ FreeIn(used, <<b[1] + b[2], new - b[2]>>))
  \/ \E c \in Sizes \X {new} : FreeIn(used, c)

(* What fits when more is in use fits when less is. *)
LEMMA HeapLessRoom ==
  ASSUME InUse \subseteq InUse', NEW b, NEW new, Fits(b, new)'
  PROVE  Fits(b, new)
<1>1. FitsIn(InUse', b, new)
  BY DEF Fits, Placed, InPlace, FreeAt, FitsIn, FreeIn, Units
<1>2. FitsIn(InUse, b, new)
  BY <1>1 DEF FitsIn, FreeIn
<1>3. QED
  BY <1>2 DEF Fits, Placed, InPlace, FreeAt, FitsIn, FreeIn

(* Nothing is given back, or all who wait are passed over. *)
LEMMA HeapWaitersKept ==
  ASSUME HeapInv, UNCHANGED sec,
         \A u \in Threads : pendedOn'[u] = HeapQ => pendedOn[u] = HeapQ,
         \A u \in Threads : pendedOn[u] = HeapQ => hp'.call[u] = hp.call[u],
         \/ InUse \subseteq InUse' /\ hp.passed \subseteq hp'.passed
         \/ \A u \in Threads : pendedOn[u] = HeapQ => u \in hp'.passed
  PROVE  HeapWaitersOK'
<1>1. SUFFICES ASSUME NEW t \in Threads, pendedOn'[t] = HeapQ
               PROVE  /\ t \in HeapCallers
                      /\ (Unlocked /\ Fits(hp.call[t].block, hp.call[t].new))' => t \in hp'.passed
  BY DEF HeapWaitersOK
<1>2. /\ pendedOn[t] = HeapQ /\ hp'.call[t] = hp.call[t] /\ t \in HeapCallers
      /\ (Unlocked /\ Fits(hp.call[t].block, hp.call[t].new) => t \in hp.passed)
  BY <1>1 DEF HeapInv, HeapWaitersOK
<1>3. PICK k : k = hp.call[t]
  OBVIOUS
<1>4. ASSUME Unlocked', Fits(k.block, k.new)', InUse \subseteq InUse', hp.passed \subseteq hp'.passed
      PROVE  t \in hp'.passed
  <2>1. Fits(k.block, k.new)
    BY <1>4, HeapLessRoom
  <2>2. Unlocked
    BY <1>4 DEF Unlocked
  <2>3. QED
    BY <1>2, <1>3, <1>4, <2>1, <2>2
<1>5. Fits(hp.call[t].block, hp.call[t].new)' => Fits(k.block, k.new)'
  BY <1>2, <1>3
<1>6. QED
  BY <1>1, <1>2, <1>4, <1>5

(* The blocks after an allocation or a resize, and who was passed over. *)
LEMMA HeapAllocatedFacts ==
  ASSUME HeapInv, NEW b \in Blocks \cup {NoBlock}, NEW new \in Sizes, NEW c \in Placed(b, new)
  PROVE  \E blocks \in SUBSET Blocks, passed \in SUBSET Threads :
           /\ Allocated(b, c) = [hp EXCEPT !.blocks = blocks, !.passed = passed]
           /\ hp.passed \subseteq passed
           /\ \/ InUse \subseteq UNION {Units(x) : x \in blocks}
              \/ \A u \in Threads : pendedOn[u] = HeapQ => u \in passed
<1>0. PendInv /\ HeapTypeOK /\ QueueMatchesState /\ PendTypeOK
  BY DEF HeapInv, PendInv
<1>1. c \in Blocks
  BY DEF Placed, InPlace, Blocks
<1>2. PICK blocks : blocks = (hp.blocks \ {b}) \cup {c}
  OBVIOUS
<1>3. PICK passed : passed = IF Units(b) \subseteq Units(c) THEN hp.passed
                             ELSE hp.passed \cup Range(waitq[HeapQ])
  OBVIOUS
<1>4. blocks \in SUBSET Blocks
  BY <1>0, <1>1, <1>2 DEF HeapTypeOK
<1>5. Range(waitq[HeapQ]) \subseteq Threads
  BY <1>0, HeapTypes DEF PendTypeOK, Range
<1>6. passed \in SUBSET Threads /\ hp.passed \subseteq passed
  BY <1>0, <1>3, <1>5 DEF HeapTypeOK
<1>7. Allocated(b, c) = [hp EXCEPT !.blocks = blocks, !.passed = passed]
  BY <1>0, <1>2, <1>3 DEF Allocated, HeapTypeOK
<1>8. CASE Units(b) \subseteq Units(c)
  <2>1. InUse \subseteq UNION {Units(x) : x \in blocks}
    BY <1>2, <1>8 DEF InUse
  <2>2. QED
    BY <1>4, <1>6, <1>7, <2>1
<1>9. CASE ~(Units(b) \subseteq Units(c))
  <2>1. \A u \in Threads : pendedOn[u] = HeapQ => u \in Range(waitq[HeapQ])
    BY <1>0, HeapTypes DEF QueueMatchesState, Range
  <2>2. QED
    BY <1>3, <1>4, <1>6, <1>7, <1>9, <2>1
<1>10. QED
  BY <1>8, <1>9

LEMMA HeapAllocInv ==
  ASSUME HeapInv, NEW b \in Blocks \cup {NoBlock}, NEW new \in Sizes, HeapAlloc(b, new)
  PROVE  HeapInv'
<1>0. PendInv /\ HeapTypeOK /\ HeapWaitersOK
  BY DEF HeapInv
<1>1. PICK c \in Placed(b, new) : hp' = Allocated(b, c)
  BY DEF HeapAlloc
<1>2. PICK blocks \in SUBSET Blocks, passed \in SUBSET Threads :
           /\ hp' = [hp EXCEPT !.blocks = blocks, !.passed = passed]
           /\ hp.passed \subseteq passed
           /\ \/ InUse \subseteq UNION {Units(x) : x \in blocks}
              \/ \A u \in Threads : pendedOn[u] = HeapQ => u \in passed
  BY <1>1, HeapAllocatedFacts
<1>3. HeapTypeOK' /\ hp'.call = hp.call /\ hp'.blocks = blocks /\ hp'.passed = passed
  BY <1>0, <1>2 DEF HeapTypeOK, HeapAlloc, handVars
<1>4. HeapWaitersOK'
  <2>1. UNCHANGED <<pendedOn, sec>>
    BY DEF HeapAlloc, handVars, pendVars
  <2>2. InUse' = UNION {Units(x) : x \in blocks}
    BY <1>3 DEF InUse, Units
  <2>3. QED
    BY <1>2, <1>3, <2>1, <2>2, HeapWaitersKept
<1>5. QED
  BY <1>0, <1>3, <1>4, PendStutterInv DEF HeapInv, HeapAlloc

LEMMA HeapPendInv ==
  ASSUME HeapInv, NEW t \in HeapCallers, runnable[t],
         NEW b \in Blocks \cup {NoBlock}, NEW new \in Sizes,
         NEW left \in {"timed", "last", "forever"},
         ~Fits(b, new), HeapPend(t, b, new, left)
  PROVE  HeapInv'
<1>0. PendInv /\ HeapTypeOK /\ HeapWaitersOK /\ PendTypeOK
  BY DEF HeapInv, PendInv
<1>1. PendInv'
  BY <1>0, HeapTypes, PendCurrInv DEF HeapPend
<1>2. PICK k \in HeapCalls : k = [block |-> b, new |-> new, timeout |-> left]
  BY DEF HeapCalls
<1>3. PICK calls : calls = [hp.call EXCEPT ![t] = k]
  OBVIOUS
<1>4. hp' = [hp EXCEPT !.call = calls, !.passed = @ \ {t}]
  BY <1>0, <1>2, <1>3 DEF HeapPend, HeapTypeOK
<1>5. /\ calls \in [HeapCallers -> HeapCalls]
      /\ calls[t].block = b /\ calls[t].new = new
      /\ \A u \in HeapCallers \ {t} : calls[u] = hp.call[u]
  BY <1>0, <1>2, <1>3 DEF HeapTypeOK
<1>6. /\ hp'.blocks = hp.blocks /\ hp'.call = calls /\ hp'.passed = hp.passed \ {t}
      /\ HeapTypeOK'
  <2>1. hp \in [blocks : SUBSET Blocks, call : [HeapCallers -> HeapCalls],
                passed : SUBSET Threads]
    BY <1>0 DEF HeapTypeOK
  <2>2. /\ hp' = [blocks |-> hp.blocks, call |-> calls, passed |-> hp.passed \ {t}]
        /\ hp.blocks \in SUBSET Blocks /\ hp.passed \ {t} \in SUBSET Threads
    BY <1>4, <2>1
  <2>3. hp' \in [blocks : SUBSET Blocks, call : [HeapCallers -> HeapCalls],
                 passed : SUBSET Threads]
    BY <1>5, <2>2
  <2>4. UNCHANGED sec
    BY DEF HeapPend, handVars
  <2>5. QED
    BY <1>0, <2>2, <2>3, <2>4 DEF HeapTypeOK
<1>7. /\ UNCHANGED sec
      /\ \A u \in Threads : u # t => pendedOn'[u] = pendedOn[u]
  BY <1>0 DEF HeapPend, PendCurr, handVars, PendTypeOK
<1>8. ASSUME NEW x, NEW n, Fits(x, n)' PROVE Fits(x, n)
  <2>1. InUse \subseteq InUse'
    BY <1>6 DEF InUse, Units
  <2>2. QED
    BY <1>8, <2>1, HeapLessRoom
<1>9. HeapWaitersOK'
  <2>1. SUFFICES ASSUME NEW u \in Threads, pendedOn'[u] = HeapQ
                 PROVE  /\ u \in HeapCallers
                        /\ (Unlocked /\ Fits(hp.call[u].block, hp.call[u].new))' => u \in hp'.passed
    BY DEF HeapWaitersOK
  <2>2. CASE u = t
    BY <1>5, <1>6, <1>8, <2>2
  <2>3. CASE u # t
    <3>1. pendedOn[u] = HeapQ /\ u \in HeapCallers /\ hp'.call[u] = hp.call[u]
      BY <1>0, <1>5, <1>6, <1>7, <2>1, <2>3 DEF HeapWaitersOK
    <3>2. Unlocked /\ Fits(hp.call[u].block, hp.call[u].new) => u \in hp.passed
      BY <1>0, <3>1 DEF HeapWaitersOK
    <3>3. PICK c : c = hp.call[u]
      OBVIOUS
    <3>4. Fits(hp.call[u].block, hp.call[u].new)' => Fits(c.block, c.new)'
      BY <3>1, <3>3
    <3>5. Fits(c.block, c.new)' => Fits(c.block, c.new)
      BY <1>8
    <3>6. Unlocked' => Unlocked
      BY <1>7 DEF Unlocked
    <3>7. QED
      BY <1>6, <2>3, <3>1, <3>2, <3>3, <3>4, <3>5, <3>6
  <2>4. QED
    BY <2>2, <2>3
<1>10. QED
  BY <1>1, <1>6, <1>9 DEF HeapInv

LEMMA HeapRetryInv ==
  ASSUME HeapInv, NEW t \in HeapCallers, HeapRetry(t)
  PROVE  HeapInv'
<1>0. PendInv /\ HeapTypeOK /\ HeapWaitersOK
  BY DEF HeapInv
<1>1. PICK k \in HeapCalls : k = hp.call[t]
  BY <1>0 DEF HeapTypeOK
<1>2. k.block \in Blocks \cup {NoBlock} /\ k.new \in Sizes
  BY <1>1 DEF HeapCalls, HeapRetry
<1>3. runnable[t] /\ pendedOn[t] # HeapQ
  BY <1>0, HeapTypes DEF HeapRetry, PendInv, RunnableIsFree
<1>4. ASSUME UNCHANGED <<pendVars, handVars>>,
             NEW blocks \in SUBSET Blocks, NEW passed \in SUBSET Threads,
             hp.passed \subseteq passed,
             \/ InUse \subseteq UNION {Units(x) : x \in blocks}
             \/ \A u \in Threads : pendedOn[u] = HeapQ => u \in passed,
             hp' = [blocks |-> blocks, call |-> [hp.call EXCEPT ![t] = NoCall],
                    passed |-> passed]
      PROVE  HeapInv'
  <2>0. NoCall \in HeapCalls
    BY DEF HeapCalls
  <2>1. HeapTypeOK'
    BY <1>0, <1>4, <2>0 DEF HeapTypeOK, handVars
  <2>2. /\ hp'.blocks = blocks /\ hp'.passed = passed
        /\ \A u \in HeapCallers \ {t} : hp'.call[u] = hp.call[u]
    BY <1>0, <1>4 DEF HeapTypeOK
  <2>3. UNCHANGED <<pendedOn, sec>>
    BY <1>4 DEF pendVars, handVars
  <2>4. \A u \in Threads : pendedOn[u] = HeapQ => hp'.call[u] = hp.call[u]
    BY <1>0, <1>3, <2>2 DEF HeapWaitersOK
  <2>5. InUse' = UNION {Units(x) : x \in blocks}
    BY <2>2 DEF InUse, Units
  <2>6. HeapWaitersOK'
    BY <1>4, <2>2, <2>3, <2>4, <2>5, HeapWaitersKept
  <2>7. QED
    BY <1>0, <1>4, <2>1, <2>6, PendStutterInv DEF HeapInv
<1>5. CASE /\ UNCHANGED <<pendVars, handVars>>
           /\ \E c \in Placed(k.block, k.new) :
                hp' = [Allocated(k.block, c) EXCEPT !.call[t] = NoCall]
  <2>1. PICK c \in Placed(k.block, k.new) :
          hp' = [Allocated(k.block, c) EXCEPT !.call[t] = NoCall]
    BY <1>5
  <2>2. PICK blocks \in SUBSET Blocks, passed \in SUBSET Threads :
          /\ Allocated(k.block, c) = [hp EXCEPT !.blocks = blocks, !.passed = passed]
          /\ hp.passed \subseteq passed
          /\ \/ InUse \subseteq UNION {Units(x) : x \in blocks}
             \/ \A u \in Threads : pendedOn[u] = HeapQ => u \in passed
    BY <1>2, HeapAllocatedFacts
  <2>3. hp' = [blocks |-> blocks, call |-> [hp.call EXCEPT ![t] = NoCall], passed |-> passed]
    BY <1>0, <2>1, <2>2 DEF HeapTypeOK
  <2>4. QED
    BY <1>4, <1>5, <2>2, <2>3
<1>6. CASE /\ UNCHANGED <<pendVars, handVars>>
           /\ hp' = [hp EXCEPT !.call[t] = NoCall]
  <2>1. /\ hp.blocks \in SUBSET Blocks /\ hp.passed \in SUBSET Threads
        /\ hp' = [blocks |-> hp.blocks, call |-> [hp.call EXCEPT ![t] = NoCall],
                  passed |-> hp.passed]
    BY <1>0, <1>6 DEF HeapTypeOK
  <2>2. InUse \subseteq UNION {Units(x) : x \in hp.blocks}
    BY DEF InUse
  <2>3. QED
    BY <1>4, <1>6, <2>1, <2>2
<1>7. CASE /\ ~Fits(k.block, k.new)
           /\ \E left \in Remaining(k.timeout) : HeapPend(t, k.block, k.new, left)
  <2>1. PICK left \in {"timed", "last", "forever"} : HeapPend(t, k.block, k.new, left)
    BY <1>7 DEF Remaining
  <2>2. QED
    BY <1>2, <1>3, <1>7, <2>1, HeapPendInv
<1>8. QED
  BY <1>1, <1>5, <1>6, <1>7 DEF HeapRetry

(* From k_heap_free until everybody has been woken the lock is held. *)
LEMMA HeapFreeInv ==
  ASSUME HeapInv, NEW b \in Blocks, HeapFree(b)
  PROVE  HeapInv'
<1>0. PendInv /\ HeapTypeOK /\ HeapWaitersOK
  BY DEF HeapInv
<1>1. HeapTypeOK' /\ ~Unlocked'
  BY <1>0 DEF HeapTypeOK, HeapFree, Free, Unlocked
<1>2. UNCHANGED pendedOn
  BY DEF HeapFree, pendVars
<1>3. QED
  BY <1>0, <1>1, <1>2, PendStutterInv DEF HeapInv, HeapFree, HeapWaitersOK

LEMMA HeapWakeInv ==
  ASSUME HeapInv, HeapUnpend \/ HeapReady \/ HeapFreed
  PROVE  HeapInv'
<1>0. PendInv /\ HeapTypeOK /\ HeapWaitersOK /\ PendTypeOK
  BY DEF HeapInv, PendInv
<1>1. CASE HeapUnpend
  <2>1. PICK t \in Threads : t = Head(waitq[HeapQ])
    BY <1>0, <1>1, HeapTypes, HeadFacts DEF HeapUnpend, PendInv
  <2>2. /\ QueueMatchesState'
        /\ waitq' \in [WaitQs -> Seq(Threads)]
        /\ pendedOn' \in [Threads -> WaitQs \cup {None}]
        /\ pendedOn'[t] = None
        /\ \A u \in Threads : u # t => pendedOn'[u] = pendedOn[u]
    BY <1>0, <1>1, <2>1, UnpendNoTimeoutMatch DEF HeapUnpend, PendInv
  <2>3. PendInv'
    BY <1>0, <1>1, <2>2 DEF HeapUnpend, PendInv, PendTypeOK, RunnableIsFree
  <2>4. HeapTypeOK' /\ ~Unlocked'
    BY <1>0, <1>1, <2>1 DEF HeapUnpend, HeapTypeOK, Unlocked
  <2>5. HeapWaitersOK'
    BY <1>0, <2>2, <2>4, HeapTypes DEF HeapWaitersOK
  <2>6. QED
    BY <2>3, <2>4, <2>5 DEF HeapInv
<1>2. CASE HeapReady
  <2>1. QueueMatchesState'
    BY <1>0, <1>2, QueueUntouched DEF HeapReady, PendInv
  <2>2. PendTypeOK' /\ RunnableIsFree'
    BY <1>0, <1>2 DEF HeapReady, PendInv, PendTypeOK, RunnableIsFree
  <2>3. HeapTypeOK' /\ ~Unlocked'
    BY <1>0, <1>2 DEF HeapReady, HeapTypeOK, Free, Unlocked
  <2>4. HeapWaitersOK'
    BY <1>0, <1>2, <2>3 DEF HeapReady, HeapWaitersOK
  <2>5. QED
    BY <2>1, <2>2, <2>3, <2>4 DEF HeapInv, PendInv
<1>3. CASE HeapFreed
  <2>1. \A t \in Threads : pendedOn[t] # HeapQ
    BY <1>0, <1>3, HeapTypes DEF HeapFreed, PendInv, QueueMatchesState
  <2>2. HeapTypeOK'
    BY <1>0, <1>3 DEF HeapFreed, HeapTypeOK, Free
  <2>3. HeapWaitersOK'
    BY <1>3, <2>1 DEF HeapFreed, HeapWaitersOK, pendVars
  <2>4. QED
    BY <1>0, <1>3, <2>2, <2>3, PendStutterInv DEF HeapInv, HeapFreed
<1>4. QED
  BY <1>1, <1>2, <1>3

LEMMA HeapNextInv ==
  ASSUME HeapInv, HeapNext
  PROVE  HeapInv'
<1>0. PendInv /\ HeapTypeOK /\ HeapWaitersOK
  BY DEF HeapInv
<1>1. CASE \E b \in Blocks \cup {NoBlock}, new \in Sizes : HeapAlloc(b, new)
  BY <1>1, HeapAllocInv
<1>2. CASE \E t \in HeapCallers, b \in Blocks \cup {NoBlock}, new \in Sizes :
             \E wait \in {"timed", "forever"} : HeapWait(t, b, new, wait)
  <2>1. PICK t \in HeapCallers, b \in Blocks \cup {NoBlock}, new \in Sizes,
             wait \in {"timed", "forever"} : HeapWait(t, b, new, wait)
    BY <1>2
  <2>2. PICK left \in {"timed", "last", "forever"} : HeapPend(t, b, new, left)
    BY <2>1 DEF HeapWait, Remaining
  <2>3. QED
    BY <2>1, <2>2, HeapPendInv DEF HeapWait
<1>3. CASE \E t \in HeapCallers : HeapRetry(t)
  BY <1>3, HeapRetryInv
<1>4. CASE \E b \in Blocks : HeapFree(b)
  BY <1>4, HeapFreeInv
<1>5. CASE HeapUnpend \/ HeapReady \/ HeapFreed
  BY <1>5, HeapWakeInv
<1>6. CASE \/ HEnvironment /\ UNCHANGED hp
           \/ \E t \in Victims : HAbort(t) /\ UNCHANGED hp
  <2>1. PendInv' /\ \A t \in Threads : pendedOn'[t] \in {pendedOn[t], None}
    BY <1>0, <1>6, HeapTypes, OutsideInv, OutsideFacts, AbortInv, AbortFacts
       DEF HEnvironment, HAbort
  <2>2. UNCHANGED <<hp, sec>>
    BY <1>6 DEF HEnvironment, HAbort, handVars
  <2>3. HeapTypeOK'
    BY <1>0, <2>2 DEF HeapTypeOK
  <2>4. HeapWaitersOK'
    <3>1. \A t \in Threads : pendedOn'[t] = HeapQ => pendedOn[t] = HeapQ
      BY <2>1, HeapTypes
    <3>2. InUse \subseteq InUse'
      BY <2>2 DEF InUse, Units
    <3>3. QED
      BY <2>2, <3>1, <3>2, HeapWaitersKept
  <2>5. QED
    BY <2>1, <2>3, <2>4 DEF HeapInv
<1>7. QED
  BY <1>1, <1>2, <1>3, <1>4, <1>5, <1>6 DEF HeapNext

LEMMA HeapInvImplies == HeapInv => HeapNobodyMissed
<1>1. SUFFICES ASSUME HeapInv, Unlocked, NEW i \in DOMAIN waitq[HeapQ]
               PROVE  LET t == waitq[HeapQ][i]
                      IN Fits(hp.call[t].block, hp.call[t].new) => t \in hp.passed
  BY DEF HeapNobodyMissed
<1>2. i \in 1..Len(waitq[HeapQ]) /\ waitq[HeapQ][i] \in Threads
  BY <1>1, HeapTypes DEF HeapInv, PendInv, PendTypeOK
<1>3. pendedOn[waitq[HeapQ][i]] = HeapQ
  BY <1>1, <1>2, HeapTypes DEF HeapInv, PendInv, QueueMatchesState
<1>4. QED
  BY <1>1, <1>2, <1>3 DEF HeapInv, HeapWaitersOK


-----------------------------------------------------------------------------
(* What stacks, slabs and queues share, on one CPU: on several a thread    *)
(* whose timeout was already firing when it was unpended returns without   *)
(* the item that it is then given.                                         *)

HandTypeOK ==
  /\ sec \in [st : {"free", "unpended", "set", "list"}, th : Threads \cup {None},
              item : Items \cup {None}]
  /\ wanting \subseteq Threads
  /\ data \in [Threads -> Items \cup {None}]
  /\ held \subseteq Items

(* Who waits has been given nothing, who is woken is still in its call,    *)
(* and who has been given something returns with it.                       *)
HandOK(w) ==
  /\ sec.st # "unpended" => sec.item = None
  /\ sec.st = "unpended" =>
       sec.th \in wanting /\ data[sec.th] = None /\ pendedOn[sec.th] # w
  /\ \A t \in Threads : pendedOn[t] = w => t \in wanting /\ data[t] = None
  /\ \A t \in Threads : t \notin wanting => data[t] = None
  /\ \A t \in Threads : data[t] # None => swapRet[t] = "0"

HandInv(w) == PendInv /\ HandTypeOK /\ HandOK(w)

(* Every item is with the application, in the store (S), in the hand-over  *)
(* or with one thread, and in one of these only.                           *)
PlacesOK(S) ==
  /\ held \cap S = {} /\ sec.item \notin held \cup S
  /\ \A t \in Threads : data[t] \notin held \cup S
  /\ sec.item # None => \A t \in Threads : data[t] # sec.item
  /\ \A t, u \in Threads : data[t] # None /\ data[t] = data[u] => t = u
  /\ \A x \in Items : x \in held \/ x \in S \/ sec.item = x
                        \/ \E t \in Threads : data[t] = x

(* Nobody starts to wait. *)
NobodyJoins(w) == \A t \in Threads : pendedOn'[t] = w => pendedOn[t] = w

LEMMA HandTypes ==
  /\ Callers \subseteq Threads /\ Victims \subseteq Threads
  /\ None \notin Items /\ None \notin WaitQs /\ Forevers \subseteq BOOLEAN
  BY HandOverAssumption, PendAssumption

LEMMA HandInitInv ==
  ASSUME NEW w \in WaitQs, HInit, held \subseteq Items
  PROVE  HandInv(w) /\ PlacesOK(Items \ held)
<1>1. PendInv
  BY PendInitInv DEF HInit
<1>2. HandTypeOK
  BY DEF HInit, Free, HandTypeOK
<1>3. HandOK(w) /\ PlacesOK(Items \ held)
  BY HandTypes DEF HInit, PendInit, Free, HandOK, PlacesOK
<1>4. QED
  BY <1>1, <1>2, <1>3 DEF HandInv

LEMMA UnpendForInv ==
  ASSUME NEW w \in WaitQs, NEW S \in SUBSET Items, HandInv(w), PlacesOK(S),
         sec.st # "unpended",
         NEW x \in Items \cup {None}, UnpendFor(w, x), NEW T \in SUBSET Items,
         held' \cup T \cup ({x} \ {None}) = held \cup S,
         held' \cap T = {}, x \notin held' \cup T
  PROVE  HandInv(w)' /\ PlacesOK(T)' /\ NobodyJoins(w)
<1>0. PendInv /\ HandTypeOK /\ HandOK(w) /\ PendTypeOK /\ QueueMatchesState
  BY DEF HandInv, PendInv
<1>1. PICK t \in Threads : t = Head(waitq[w]) /\ pendedOn[t] = w
  BY <1>0, HeadFacts DEF UnpendFor, UnpendFirst
<1>2. PendInv'
  BY <1>0, UnpendFirstInv DEF UnpendFor
<1>3. /\ pendedOn' = [pendedOn EXCEPT ![t] = None]
      /\ sec' = [st |-> "unpended", th |-> t, item |-> x]
      /\ UNCHANGED <<swapRet, wanting, data>>
  BY <1>1 DEF UnpendFor, UnpendFirst
<1>4. HandTypeOK'
  BY <1>0, <1>1, <1>3 DEF HandTypeOK
<1>5. pendedOn'[t] = None /\ \A u \in Threads : u # t => pendedOn'[u] = pendedOn[u]
  BY <1>0, <1>3 DEF PendTypeOK
<1>6. HandOK(w)' /\ NobodyJoins(w)
  BY <1>0, <1>1, <1>3, <1>5, HandTypes DEF HandOK, NobodyJoins
<1>7. PlacesOK(T)'
  BY <1>0, <1>3, HandTypes DEF PlacesOK, HandOK, HandTypeOK
<1>8. QED
  BY <1>2, <1>4, <1>6, <1>7 DEF HandInv

LEMMA StoreDataInv ==
  ASSUME NEW w \in WaitQs, NEW S \in SUBSET Items, HandInv(w), PlacesOK(S), StoreData
  PROVE  HandInv(w)' /\ PlacesOK(S)' /\ NobodyJoins(w)
<1>0. PendInv /\ HandTypeOK /\ HandOK(w) /\ PendTypeOK
  BY DEF HandInv, PendInv
<1>1. PendInv' /\ UNCHANGED <<pendedOn, wanting, held>>
  BY <1>0, SetRetvalInv DEF StoreData, SetRetval, RetVals
<1>2. PICK t \in Threads, x \in Items \cup {None} :
        /\ t = sec.th /\ x = sec.item
        /\ t \in wanting /\ data[t] = None /\ pendedOn[t] # w
  BY <1>0 DEF StoreData, HandOK, HandTypeOK
<1>3. /\ swapRet' = [swapRet EXCEPT ![t] = "0"]
      /\ data' = [data EXCEPT ![t] = x]
      /\ sec' = [sec EXCEPT !.st = "set", !.item = None]
  BY <1>2 DEF StoreData, SetRetval
<1>4. HandTypeOK' /\ sec'.st = "set" /\ sec'.item = None
  BY <1>0, <1>1, <1>3 DEF HandTypeOK
<1>5. /\ swapRet'[t] = "0" /\ data'[t] = x
      /\ \A u \in Threads : u # t => swapRet'[u] = swapRet[u] /\ data'[u] = data[u]
  BY <1>0, <1>3 DEF HandTypeOK, PendTypeOK
<1>6. HandOK(w)' /\ NobodyJoins(w)
  BY <1>0, <1>1, <1>2, <1>4, <1>5 DEF HandOK, NobodyJoins
<1>7. PlacesOK(S)'
  BY <1>1, <1>2, <1>4, <1>5, HandTypes, <1>0 DEF PlacesOK, HandTypeOK
<1>8. QED
  BY <1>1, <1>4, <1>6, <1>7 DEF HandInv

LEMMA ReadyWokenInv ==
  ASSUME NEW w \in WaitQs, NEW S \in SUBSET Items, HandInv(w), PlacesOK(S),
         NEW then \in {Free, [Free EXCEPT !.st = "list"]}, ReadyWoken(then)
  PROVE  HandInv(w)' /\ PlacesOK(S)' /\ NobodyJoins(w)
<1>0. PendInv /\ HandTypeOK /\ HandOK(w) /\ PendTypeOK
  BY DEF HandInv, PendInv
<1>1. PendInv' /\ UNCHANGED <<pendedOn, swapRet, wanting, data, held>>
  BY <1>0, ReadyThreadInv DEF ReadyWoken, ReadyThread
<1>2. sec' = then /\ sec.st = "set" /\ sec.item = None
  BY <1>0 DEF ReadyWoken, HandOK
<1>3. sec' \in [st : {"free", "list"}, th : {None}, item : {None}]
  BY <1>2 DEF Free
<1>4. HandTypeOK'
  BY <1>0, <1>1, <1>3 DEF HandTypeOK
<1>5. HandOK(w)' /\ NobodyJoins(w)
  BY <1>0, <1>1, <1>3 DEF HandOK, NobodyJoins
<1>6. PlacesOK(S)'
  BY <1>1, <1>2, <1>3 DEF PlacesOK
<1>7. QED
  BY <1>1, <1>4, <1>5, <1>6 DEF HandInv

LEMMA PendForInv ==
  ASSUME NEW w \in WaitQs, NEW S \in SUBSET Items, HandInv(w), PlacesOK(S),
         NEW t \in Callers, NEW forever \in Forevers, PendFor(t, w, forever)
  PROVE  HandInv(w)' /\ PlacesOK(S)'
<1>0. PendInv /\ HandTypeOK /\ HandOK(w) /\ PendTypeOK /\ t \in Threads
  BY HandTypes DEF HandInv, PendInv
<1>1. PendInv' /\ UNCHANGED <<sec, data, held>>
  BY <1>0, HandTypes, PendCurrInv DEF PendFor
<1>2. /\ wanting' = wanting \cup {t} /\ data[t] = None /\ sec.st = "free"
      /\ \A u \in Threads : u # t => pendedOn'[u] = pendedOn[u] /\ swapRet'[u] = swapRet[u]
  BY <1>0 DEF PendFor, PendCurr, HandOK, PendTypeOK, Unlocked
<1>3. HandTypeOK'
  BY <1>0, <1>1, <1>2 DEF HandTypeOK
<1>4. HandOK(w)'
  BY <1>0, <1>1, <1>2 DEF HandOK
<1>5. PlacesOK(S)'
  BY <1>1 DEF PlacesOK
<1>6. QED
  BY <1>1, <1>3, <1>4, <1>5 DEF HandInv

LEMMA WaitReturnInv ==
  ASSUME ~SMP, NEW w \in WaitQs, NEW S \in SUBSET Items, HandInv(w), PlacesOK(S),
         NEW t \in Callers, WaitReturn(t)
  PROVE  HandInv(w)' /\ PlacesOK(S)' /\ NobodyJoins(w)
<1>0. PendInv /\ HandTypeOK /\ HandOK(w) /\ PendTypeOK /\ t \in Threads
  BY HandTypes DEF HandInv, PendInv
<1>1. PendInv' /\ UNCHANGED <<pendedOn, swapRet, sec>>
  BY <1>0, PendStutterInv DEF WaitReturn, pendVars
<1>2. sec.st = "free" /\ sec.item = None /\ pendedOn[t] # w
  BY <1>0, HandTypes DEF WaitReturn, Others, Unlocked, HandOK, PendInv, RunnableIsFree
<1>3. PICK x \in Items \cup {None} : x = data[t]
  BY <1>0 DEF HandTypeOK
<1>4. /\ held' = held \cup ({x} \ {None})
      /\ data' = [data EXCEPT ![t] = None]
      /\ wanting' = wanting \ {t}
  <2>1. CASE swapRet[t] = "0"
    BY <1>3, <2>1 DEF WaitReturn
  <2>2. CASE swapRet[t] # "0"
    <3>1. x = None /\ data = [data EXCEPT ![t] = None]
      BY <1>0, <1>3, <2>2 DEF HandOK, HandTypeOK
    <3>2. QED
      BY <2>2, <3>1 DEF WaitReturn
  <2>3. QED
    BY <2>1, <2>2
<1>5. HandTypeOK'
  BY <1>0, <1>1, <1>3, <1>4 DEF HandTypeOK
<1>6. data'[t] = None /\ \A u \in Threads : u # t => data'[u] = data[u]
  BY <1>0, <1>4 DEF HandTypeOK
<1>7. HandOK(w)' /\ NobodyJoins(w)
  BY <1>0, <1>1, <1>2, <1>4, <1>6 DEF HandOK, NobodyJoins
<1>8. PlacesOK(S)'
  BY <1>0, <1>1, <1>2, <1>3, <1>4, <1>6, HandTypes DEF PlacesOK, HandTypeOK
<1>9. QED
  BY <1>1, <1>5, <1>7, <1>8 DEF HandInv

LEMMA HandOutsideInv ==
  ASSUME ~SMP, NEW w \in WaitQs, NEW S \in SUBSET Items, HandInv(w), PlacesOK(S),
         HEnvironment \/ \E t \in Victims : HAbort(t)
  PROVE  HandInv(w)' /\ PlacesOK(S)' /\ NobodyJoins(w)
<1>0. PendInv /\ HandTypeOK /\ HandOK(w) /\ sec.st = "free"
  BY DEF HandInv, HEnvironment, HAbort, Others, Unlocked
<1>1. /\ PendInv' /\ swapRet' = swapRet
      /\ \A t \in Threads : pendedOn'[t] \in {pendedOn[t], None}
  BY <1>0, HandTypes, OutsideInv, OutsideFacts, AbortInv, AbortFacts
     DEF HEnvironment, HAbort
<1>2. UNCHANGED <<sec, wanting, data, held>>
  BY DEF HEnvironment, HAbort, handVars
<1>3. HandTypeOK' /\ PlacesOK(S)'
  BY <1>0, <1>2 DEF HandTypeOK, PlacesOK
<1>4. HandOK(w)' /\ NobodyJoins(w)
  BY <1>0, <1>1, <1>2, HandTypes DEF HandOK, NobodyJoins
<1>5. QED
  BY <1>1, <1>3, <1>4 DEF HandInv

(* Items go from the application to the store and back. *)
LEMMA StoreInv ==
  ASSUME NEW w \in WaitQs, NEW S \in SUBSET Items, HandInv(w), PlacesOK(S),
         NEW T \in SUBSET Items, held' \cup T = held \cup S, held' \cap T = {},
         sec' = sec \/ (sec.st # "unpended" /\ sec' = Free),
         UNCHANGED <<pendVars, wanting, data>>
  PROVE  HandInv(w)' /\ PlacesOK(T)' /\ NobodyJoins(w)
<1>0. PendInv /\ HandTypeOK /\ HandOK(w)
  BY DEF HandInv
<1>1. PendInv' /\ UNCHANGED <<pendedOn, swapRet>>
  BY <1>0, PendStutterInv DEF pendVars
<1>2. /\ sec'.item = sec.item /\ (sec'.st = "unpended" => sec' = sec)
      /\ sec' \in [st : {"free", "unpended", "set", "list"}, th : Threads \cup {None},
                   item : Items \cup {None}]
  BY <1>0 DEF HandTypeOK, HandOK, Free
<1>3. HandTypeOK' /\ PlacesOK(T)'
  BY <1>0, <1>2 DEF HandTypeOK, PlacesOK
<1>4. HandOK(w)' /\ NobodyJoins(w)
  BY <1>0, <1>1, <1>2 DEF HandOK, NobodyJoins
<1>5. QED
  BY <1>1, <1>3, <1>4 DEF HandInv

(* Who sleeps in a call is in the queue or about to be made ready, and no  *)
(* timeout is left of a wait that is over.                                 *)
StrandOK(w) ==
  /\ sec.st \in {"free", "list"} => sec.th = None
  /\ \A t \in Threads : /\ pendedOn[t] \in {w, None}
                        /\ timeout[t] => pendedOn[t] = w
                        /\ firing = t => ~timeout[t]
  /\ NoneStranded(w)

LEMMA StrandInit ==
  ASSUME NEW w \in WaitQs, HInit PROVE StrandOK(w)
  BY DEF HInit, PendInit, Free, StrandOK, NoneStranded

LEMMA StrandUnpend ==
  ASSUME NEW w \in WaitQs, HandInv(w), StrandOK(w),
         sec.st \in {"free", "list"}, NEW x, UnpendFor(w, x)
  PROVE  StrandOK(w)'
<1>0. PendTypeOK /\ QueueMatchesState /\ wanting \subseteq Threads
  BY DEF HandInv, PendInv, HandTypeOK
<1>1. PICK t \in Threads : t = Head(waitq[w]) /\ pendedOn[t] = w
  BY <1>0, HeadFacts DEF UnpendFor, UnpendFirst
<1>2. /\ pendedOn' = [pendedOn EXCEPT ![t] = None]
      /\ timeout' = [timeout EXCEPT ![t] = FALSE]
      /\ sec'.st = "unpended" /\ sec'.th = t
      /\ UNCHANGED <<wanting, firing, runnable, halted>>
  BY <1>1 DEF UnpendFor, UnpendFirst
<1>3. /\ pendedOn'[t] = None /\ ~timeout'[t]
      /\ \A u \in Threads : u # t => pendedOn'[u] = pendedOn[u] /\ timeout'[u] = timeout[u]
  BY <1>0, <1>2 DEF PendTypeOK
<1>4. QED
  BY <1>0, <1>2, <1>3, PendAssumption DEF StrandOK, NoneStranded

LEMMA StrandReady ==
  ASSUME NEW w \in WaitQs, HandInv(w), StrandOK(w), NEW then, then.th = None,
         ReadyWoken(then)
  PROVE  StrandOK(w)'
<1>0. PendTypeOK /\ wanting \subseteq Threads /\ sec.th \in Threads \cup {None}
  BY DEF HandInv, PendInv, HandTypeOK
<1>1. /\ runnable' = [runnable EXCEPT ![sec.th] = @ \/ IsThreadReady(sec.th)]
      /\ sec'.th = None
      /\ UNCHANGED <<wanting, pendedOn, timeout, firing, halted>>
  BY DEF ReadyWoken, ReadyThread
<1>2. \A u \in Threads :
        /\ u # sec.th => runnable'[u] = runnable[u]
        /\ u = sec.th /\ ~runnable'[u] => ~runnable[u] /\ ~IsThreadReady(u)
  BY <1>0, <1>1 DEF PendTypeOK
<1>3. QED
  BY <1>0, <1>1, <1>2 DEF StrandOK, NoneStranded, IsThreadReady

LEMMA StrandPend ==
  ASSUME ~SMP, NEW w \in WaitQs, HandInv(w), StrandOK(w), NEW t \in Callers,
         NEW f \in Forevers, PendFor(t, w, f)
  PROVE  StrandOK(w)'
<1>0. PendTypeOK /\ wanting \subseteq Threads /\ t \in Threads /\ firing = None
  BY HandTypes DEF HandInv, PendInv, HandTypeOK, PendFor, ThreadContext
<1>1. /\ pendedOn' = [pendedOn EXCEPT ![t] = w]
      /\ timeout' = [timeout EXCEPT ![t] = ~f]
      /\ runnable' = [runnable EXCEPT ![t] = FALSE]
      /\ wanting' = wanting \cup {t} /\ UNCHANGED <<sec, firing, halted>>
  BY DEF PendFor, PendCurr
<1>2. /\ pendedOn'[t] = w
      /\ \A u \in Threads : u # t => /\ pendedOn'[u] = pendedOn[u]
                                     /\ timeout'[u] = timeout[u]
                                     /\ runnable'[u] = runnable[u]
  BY <1>0, <1>1 DEF PendTypeOK
<1>3. QED
  BY <1>0, <1>1, <1>2, PendAssumption DEF StrandOK, NoneStranded

(* What time and other threads do, with sec and wanting as they are. *)
LEMMA StrandOutside ==
  ASSUME ~SMP, NEW w \in WaitQs, HandInv(w), StrandOK(w),
         HEnvironment \/ \E t \in Victims : HAbort(t)
  PROVE  StrandOK(w)'
<1>0. PendTypeOK /\ QueueMatchesState /\ PendInv /\ wanting \subseteq Threads
  BY DEF HandInv, PendInv, HandTypeOK
<1>1. UNCHANGED <<sec, wanting>> /\ sec.th = None
  BY DEF HEnvironment, HAbort, handVars, Others, Unlocked, StrandOK
<1>2. CASE \E t \in Threads : Expire(t)
  <2>1. PICK t \in Threads : Expire(t)
    BY <1>2
  <2>2. /\ firing' = t /\ ~timeout'[t]
        /\ \A u \in Threads : timeout'[u] => timeout[u]
        /\ UNCHANGED <<pendedOn, runnable, halted>>
    BY <1>0, <2>1 DEF Expire, PendTypeOK
  <2>3. QED
    BY <1>0, <1>1, <2>2 DEF StrandOK, NoneStranded
<1>3. CASE ThreadTimeout
  <2>1. PICK t \in Threads : t = firing /\ ~timeout[t]
    BY <1>0, <1>3 DEF ThreadTimeout, PendTypeOK, StrandOK
  <2>2. firing' = None /\ timeout' = timeout
    BY <1>3 DEF ThreadTimeout
  <2>3. CASE halted[t] = "dead"
    <3>1. UNCHANGED <<pendedOn, runnable, halted>>
      BY <1>3, <2>1, <2>3 DEF ThreadTimeout
    <3>2. QED
      BY <1>0, <1>1, <2>2, <3>1, PendAssumption DEF StrandOK, NoneStranded
  <2>4. CASE halted[t] # "dead"
    <3>1. /\ UnpendNoTimeout(t) /\ halted' = [halted EXCEPT ![t] = "no"]
          /\ runnable' = [runnable EXCEPT ![t] = @ \/ ~timeout[t]]
      BY <1>3, <2>1, <2>4 DEF ThreadTimeout
    <3>2. pendedOn'[t] = None /\ \A u \in Threads : u # t => pendedOn'[u] = pendedOn[u]
      BY <1>0, <3>1, UnpendNoTimeoutMatch
    <3>3. /\ runnable'[t]
          /\ \A u \in Threads : u # t =>
               runnable'[u] = runnable[u] /\ halted'[u] = halted[u]
      BY <1>0, <2>1, <3>1 DEF PendTypeOK
    <3>4. QED
      BY <1>0, <1>1, <2>1, <2>2, <3>2, <3>3, PendAssumption DEF StrandOK, NoneStranded
  <2>5. QED
    BY <2>3, <2>4
<1>4. CASE \E t \in Threads, p \in NewPrios : PrioSet(t, p)
  <2>1. PICK t \in Threads : \E p \in NewPrios : PrioSet(t, p)
    BY <1>4
  <2>2. /\ runnable' = [runnable EXCEPT ![t] = @ \/ (~SMP /\ IsThreadReady(t))]
        /\ UNCHANGED <<pendedOn, timeout, firing, halted>>
    BY <2>1 DEF PrioSet
  <2>3. \A u \in Threads : ~runnable'[u] => ~runnable[u]
    BY <1>0, <2>2 DEF PendTypeOK
  <2>4. QED
    BY <1>0, <1>1, <2>2, <2>3 DEF StrandOK, NoneStranded
<1>5. CASE \E t \in Victims : SuspendAbortTimeout(t)
  <2>1. PICK t \in Threads : SuspendAbortTimeout(t)
    BY <1>5, HandTypes
  <2>2. /\ \A u \in Threads : timeout'[u] => timeout[u]
        /\ UNCHANGED <<pendedOn, runnable, halted, firing>>
    BY <1>0, <2>1 DEF SuspendAbortTimeout, PendTypeOK
  <2>3. QED
    BY <1>0, <1>1, <2>2 DEF StrandOK, NoneStranded
<1>6. CASE Suspend
  <2>1. PICK t \in Threads : t = suspending
    BY <1>0, <1>6 DEF Suspend, PendTypeOK
  <2>2. PICK h \in {"suspended", "dead"} : halted' = [halted EXCEPT ![t] = h]
    BY <1>0, <1>6, <2>1 DEF Suspend, PendTypeOK
  <2>3. /\ halted'[t] # "no"
        /\ \A u \in Threads : u # t => halted'[u] = halted[u] /\ runnable'[u] = runnable[u]
        /\ UNCHANGED <<pendedOn, timeout, firing>>
    BY <1>0, <1>6, <2>1, <2>2 DEF Suspend, PendTypeOK
  <2>4. QED
    BY <1>0, <1>1, <2>3 DEF StrandOK, NoneStranded
<1>7. CASE \E t \in Victims : Resume(t)
  <2>1. PICK t \in Threads : Resume(t)
    BY <1>7, HandTypes
  <2>2. PICK b \in BOOLEAN : b = (pendedOn[t] = None /\ ~timeout[t])
    OBVIOUS
  <2>3. runnable' = [runnable EXCEPT ![t] = b]
    BY <2>1, <2>2 DEF Resume
  <2>4. /\ runnable'[t] = b
        /\ \A u \in Threads : u # t => halted'[u] = halted[u] /\ runnable'[u] = runnable[u]
        /\ UNCHANGED <<pendedOn, timeout, firing>>
    BY <1>0, <2>1, <2>3 DEF Resume, PendTypeOK
  <2>5. QED
    BY <1>0, <1>1, <2>2, <2>4 DEF StrandOK, NoneStranded
<1>8. CASE \E t \in Victims : HAbort(t)
  <2>1. PICK t \in Threads : Abort(t)
    BY <1>8, HandTypes DEF HAbort
  <2>2. /\ pendedOn'[t] = None /\ firing' = firing
        /\ \A u \in Threads : u # t =>
             pendedOn'[u] = pendedOn[u] /\ runnable'[u] = runnable[u]
    BY <1>0, <2>1, AbortFacts DEF Abort
  <2>3. /\ halted'[t] = "dead" /\ ~timeout'[t]
        /\ \A u \in Threads : u # t => halted'[u] = halted[u] /\ timeout'[u] = timeout[u]
    BY <1>0, <2>1 DEF Abort, PendTypeOK
  <2>4. QED
    BY <1>0, <1>1, <2>2, <2>3 DEF StrandOK, NoneStranded
<1>9. QED
  BY <1>2, <1>3, <1>4, <1>5, <1>6, <1>7, <1>8 DEF HEnvironment, Outside

(* The other steps: the pend state and sec.th stay, or a list is done. *)
LEMMA StrandKept ==
  ASSUME NEW w \in WaitQs, HandInv(w), StrandOK(w),
         UNCHANGED <<pendedOn, timeout, firing, runnable, halted>>,
         wanting' \subseteq wanting, sec'.th = sec.th,
         sec'.st \in {"free", "list"} => sec.st \in {"free", "list"}
  PROVE  StrandOK(w)'
  BY DEF StrandOK, NoneStranded

LEMMA StrandStep ==
  ASSUME ~SMP, NEW w \in WaitQs, HandInv(w), StrandOK(w),
         \/ sec.st \in {"free", "list"} /\ \E x \in Items \cup {None} : UnpendFor(w, x)
         \/ StoreData
         \/ ReadyWoken(Free) \/ ReadyWoken([Free EXCEPT !.st = "list"])
         \/ \E t \in Callers, f \in Forevers : PendFor(t, w, f)
         \/ \E t \in Callers : WaitReturn(t)
         \/ HEnvironment \/ \E t \in Victims : HAbort(t)
         \/ /\ UNCHANGED <<pendVars, wanting>>
            /\ sec' = sec \/ (sec.st \in {"free", "list"} /\ sec' = Free)
  PROVE  StrandOK(w)'
<1>1. CASE sec.st \in {"free", "list"} /\ \E x \in Items \cup {None} : UnpendFor(w, x)
  BY <1>1, StrandUnpend
<1>2. CASE StoreData
  <2>1. /\ UNCHANGED <<pendedOn, timeout, firing, runnable, halted, wanting>>
        /\ sec'.th = sec.th /\ sec'.st = "set"
    BY <1>2 DEF StoreData, SetRetval, HandInv, HandTypeOK
  <2>2. QED
    BY <2>1, StrandKept
<1>3. CASE ReadyWoken(Free) \/ ReadyWoken([Free EXCEPT !.st = "list"])
  <2>1. Free.th = None /\ [Free EXCEPT !.st = "list"].th = None
    BY DEF Free
  <2>2. QED
    BY <1>3, <2>1, StrandReady
<1>4. CASE \E t \in Callers, f \in Forevers : PendFor(t, w, f)
  BY <1>4, StrandPend
<1>5. CASE \E t \in Callers : WaitReturn(t)
  <2>1. /\ UNCHANGED <<pendedOn, timeout, firing, runnable, halted, sec>>
        /\ wanting' \subseteq wanting
    BY <1>5 DEF WaitReturn, pendVars
  <2>2. QED
    BY <2>1, StrandKept
<1>6. CASE HEnvironment \/ \E t \in Victims : HAbort(t)
  BY <1>6, StrandOutside
<1>7. CASE /\ UNCHANGED <<pendVars, wanting>>
           /\ sec' = sec \/ (sec.st \in {"free", "list"} /\ sec' = Free)
  <2>1. UNCHANGED <<pendedOn, timeout, firing, runnable, halted, wanting>>
    BY <1>7 DEF pendVars
  <2>2. /\ sec'.th = sec.th
        /\ sec'.st \in {"free", "list"} => sec.st \in {"free", "list"}
    BY <1>7 DEF StrandOK, Free
  <2>3. QED
    BY <2>1, <2>2, StrandKept
<1>8. QED
  BY <1>1, <1>2, <1>3, <1>4, <1>5, <1>6, <1>7


-----------------------------------------------------------------------------
(* Stacks and slabs: the store is a list.                                  *)

Stored(s) == {x \in Items : In(s, x)}

ListInv(w, s) ==
  /\ HandInv(w)
  /\ s \in Seq(Items) /\ NoDup(s) /\ PlacesOK(Stored(s))
  /\ s # <<>> => \A t \in Threads : pendedOn[t] # w

LEMMA AppendIsInsertion ==
  ASSUME NEW S, NEW s \in Seq(S), NEW e \in S
  PROVE  /\ Append(s, e) \in Seq(S) /\ Len(s) + 1 \in 1..(Len(s) + 1)
         /\ IsInsertion(Append(s, e), s, e, Len(s) + 1)
  BY AppendProperties DEF IsInsertion

LEMMA PrependIsInsertion ==
  ASSUME NEW S, NEW s \in Seq(S), NEW e \in S
  PROVE  /\ <<e>> \o s \in Seq(S) /\ 1 \in 1..(Len(s) + 1)
         /\ IsInsertion(<<e>> \o s, s, e, 1)
<1>1. <<e>> \in Seq(S) /\ Len(<<e>>) = 1 /\ <<e>>[1] = e
  OBVIOUS
<1>2. QED
  BY <1>1, ConcatProperties DEF IsInsertion

LEMMA FrontIsRemoval ==
  ASSUME NEW S, NEW s \in Seq(S), s # <<>>
  PROVE  /\ Front(s) \in Seq(S) /\ Last(s) \in S /\ Len(s) \in 1..Len(s)
         /\ IsRemoval(Front(s), s, Last(s), Len(s))
<1>1. PICK k \in Nat : k = Len(s) /\ 1 <= k
  OBVIOUS
<1> DEFINE a == SubSeq(s, 1, k - 1)
<1>2. /\ a \in Seq(S) /\ Len(a) = k - 1
      /\ \A i \in 1..(k - 1) : a[i] = s[i]
  BY <1>1, SubSeqProperties
<1>3. Front(s) = a /\ Last(s) = s[k] /\ s[k] \in S
  BY <1>1 DEF Front, Last
<1> HIDE DEF a
<1>4. QED
  BY <1>1, <1>2, <1>3 DEF IsRemoval

LEMMA ListHandStep ==
  ASSUME ~SMP, NEW w \in WaitQs, NEW s, ListInv(w, s),
         \/ StoreData \/ ReadyWoken(Free) \/ \E t \in Callers : WaitReturn(t)
         \/ HEnvironment \/ \E t \in Victims : HAbort(t)
  PROVE  ListInv(w, s)'
<1>1. PICK S \in SUBSET Items : S = Stored(s)
  BY DEF Stored
<1>2. HandInv(w) /\ PlacesOK(S)
  BY <1>1 DEF ListInv
<1>3. HandInv(w)' /\ PlacesOK(S)' /\ NobodyJoins(w)
  <2>1. CASE StoreData
    BY <1>2, <2>1, StoreDataInv
  <2>2. CASE ReadyWoken(Free)
    BY <1>2, <2>2, ReadyWokenInv
  <2>3. CASE \E t \in Callers : WaitReturn(t)
    BY <1>2, <2>3, WaitReturnInv
  <2>4. CASE HEnvironment \/ \E t \in Victims : HAbort(t)
    BY <1>2, <2>4, HandOutsideInv
  <2>5. QED
    BY <2>1, <2>2, <2>3, <2>4
<1>4. QED
  BY <1>1, <1>3 DEF ListInv, NobodyJoins

LEMMA ListGive ==
  ASSUME NEW w \in WaitQs, NEW s, ListInv(w, s), Unlocked,
         NEW x \in held, UnpendFor(w, x), held' = held \ {x}
  PROVE  ListInv(w, s)'
<1>1. PICK S \in SUBSET Items : S = Stored(s)
  BY DEF Stored
<1>2. HandInv(w) /\ PlacesOK(S) /\ sec.st # "unpended"
  BY <1>1 DEF ListInv, Unlocked
<1>3. /\ x \in Items /\ x # None /\ held' \cup S \cup {x} = held \cup S
      /\ held' \cap S = {} /\ x \notin held' \cup S
  BY <1>2, HandTypes DEF PlacesOK, HandInv, HandTypeOK
<1>4. HandInv(w)' /\ PlacesOK(S)' /\ NobodyJoins(w)
  BY <1>2, <1>3, UnpendForInv
<1>5. QED
  BY <1>1, <1>4 DEF ListInv, NobodyJoins

LEMMA ListPend ==
  ASSUME NEW w \in WaitQs, ListInv(w, <<>>),
         NEW t \in Callers, NEW forever \in Forevers, PendFor(t, w, forever)
  PROVE  ListInv(w, <<>>)'
<1>1. PICK S \in SUBSET Items : S = Stored(<<>>)
  BY DEF Stored
<1>2. HandInv(w)' /\ PlacesOK(S)'
  BY <1>1, PendForInv DEF ListInv
<1>3. QED
  BY <1>1, <1>2 DEF ListInv

LEMMA ListPut ==
  ASSUME NEW w \in WaitQs, NEW s, ListInv(w, s), waitq[w] = <<>> \/ s # <<>>,
         NEW x \in held, NEW r \in Seq(Items), NEW k \in 1..(Len(s) + 1),
         IsInsertion(r, s, x, k), held' = held \ {x},
         UNCHANGED <<pendVars, sec, wanting, data>>
  PROVE  ListInv(w, r)'
<1>0. HandInv(w) /\ s \in Seq(Items) /\ NoDup(s) /\ PlacesOK(Stored(s)) /\ x \in Items
  BY DEF ListInv, HandInv, HandTypeOK
<1>1. PICK S \in SUBSET Items : S = Stored(s)
  BY DEF Stored
<1>2. PICK T \in SUBSET Items : T = Stored(r)
  BY DEF Stored
<1>3. ~In(s, x)
  BY <1>0 DEF PlacesOK, Stored
<1>4. NoDup(r) /\ \A y : In(r, y) <=> In(s, y) \/ y = x
  BY <1>0, <1>3, InsertionFacts
<1>5. T = S \cup {x}
  BY <1>0, <1>1, <1>2, <1>4 DEF Stored
<1>6. held' \cup T = held \cup S /\ held' \cap T = {}
  BY <1>0, <1>1, <1>5 DEF PlacesOK
<1>7. HandInv(w)' /\ PlacesOK(T)' /\ NobodyJoins(w)
  BY <1>0, <1>1, <1>6, StoreInv
<1>8. \A t \in Threads : pendedOn[t] # w
  <2>1. CASE waitq[w] = <<>>
    BY <1>0, <2>1, HandTypes DEF HandInv, PendInv, QueueMatchesState
  <2>2. CASE s # <<>>
    BY <2>2 DEF ListInv
  <2>3. QED
    BY <2>1, <2>2
<1>9. QED
  BY <1>2, <1>4, <1>7, <1>8 DEF ListInv, NobodyJoins

LEMMA ListTake ==
  ASSUME NEW w \in WaitQs, NEW s, ListInv(w, s),
         NEW x \in Items, NEW r \in Seq(Items), NEW k \in 1..Len(s),
         IsRemoval(r, s, x, k), held' = held \cup {x},
         UNCHANGED <<pendVars, sec, wanting, data>>
  PROVE  ListInv(w, r)'
<1>0. HandInv(w) /\ s \in Seq(Items) /\ NoDup(s) /\ PlacesOK(Stored(s))
  BY DEF ListInv
<1>1. PICK S \in SUBSET Items : S = Stored(s)
  BY DEF Stored
<1>2. PICK T \in SUBSET Items : T = Stored(r)
  BY DEF Stored
<1>3. NoDup(r) /\ In(s, x) /\ s # <<>> /\ \A y : In(r, y) <=> In(s, y) /\ y # x
  <2>1. NoDup(r) /\ \A y : In(r, y) <=> In(s, y) /\ y # x
    BY <1>0, RemovalFacts
  <2>2. In(s, x)
    BY DEF IsRemoval, In
  <2>3. s # <<>>
    BY <1>0
  <2>4. QED
    BY <2>1, <2>2, <2>3
<1>4. T = S \ {x} /\ x \in S
  BY <1>1, <1>2, <1>3 DEF Stored
<1>5. held' \cup T = held \cup S /\ held' \cap T = {}
  BY <1>0, <1>1, <1>4 DEF PlacesOK
<1>6. HandInv(w)' /\ PlacesOK(T)' /\ NobodyJoins(w)
  BY <1>0, <1>1, <1>5, StoreInv
<1>7. \A t \in Threads : pendedOn[t] # w
  BY <1>3 DEF ListInv
<1>8. QED
  BY <1>2, <1>3, <1>6, <1>7 DEF ListInv, NobodyJoins

(* Counting places: one each, so one in all.  R is what is on its way to   *)
(* the store.                                                              *)
LEMMA CountPlaces ==
  ASSUME NEW w \in WaitQs, HandInv(w), NEW s \in Seq(Items), NoDup(s),
         NEW R \in SUBSET Items, R \cap Stored(s) = {}, PlacesOK(Stored(s) \cup R),
         NEW x \in Items
  PROVE  (IF x \in held THEN 1 ELSE 0)
         + Cardinality({i \in 1..Len(s) : s[i] = x})
         + (IF sec.item = x THEN 1 ELSE 0)
         + Cardinality({t \in wanting : data[t] = x})
         + (IF x \in R THEN 1 ELSE 0) = 1
<1>0. HandTypeOK /\ HandOK(w) /\ x # None
  BY HandTypes DEF HandInv
<1>1. PICK A : A = {i \in 1..Len(s) : s[i] = x}
  OBVIOUS
<1>2. PICK B : B = {t \in wanting : data[t] = x}
  OBVIOUS
<1>3. IF In(s, x) THEN \E i : A = {i} ELSE A = {}
  <2>1. CASE In(s, x)
    <3>1. PICK i \in 1..Len(s) : s[i] = x
      BY <2>1 DEF In
    <3>2. A = {i}
      BY <1>1, <3>1 DEF NoDup
    <3>3. QED
      BY <2>1, <3>2
  <2>2. CASE ~In(s, x)
    BY <1>1, <2>2 DEF In
  <2>3. QED
    BY <2>1, <2>2
<1>4. IF \E t \in Threads : data[t] = x THEN \E t : B = {t} ELSE B = {}
  <2>1. CASE \E t \in Threads : data[t] = x
    <3>1. PICK t \in Threads : data[t] = x
      BY <2>1
    <3>2. t \in wanting /\ \A u \in wanting : data[u] = x => u = t
      BY <1>0, <3>1 DEF PlacesOK, HandOK, HandTypeOK
    <3>3. B = {t}
      BY <1>2, <3>1, <3>2
    <3>4. QED
      BY <2>1, <3>3
  <2>2. CASE ~ \E t \in Threads : data[t] = x
    BY <1>0, <1>2, <2>2 DEF HandTypeOK
  <2>3. QED
    BY <2>1, <2>2
<1>5. /\ Cardinality(A) = IF In(s, x) THEN 1 ELSE 0
      /\ Cardinality(B) = IF \E t \in Threads : data[t] = x THEN 1 ELSE 0
  BY <1>3, <1>4, FS_Singleton, FS_EmptySet
<1>6. /\ \/ x \in held \/ In(s, x) \/ x \in R \/ sec.item = x
         \/ \E t \in Threads : data[t] = x
      /\ x \in held => /\ ~In(s, x) /\ x \notin R /\ sec.item # x
                       /\ ~ \E t \in Threads : data[t] = x
      /\ In(s, x) => /\ x \notin R /\ sec.item # x
                     /\ ~ \E t \in Threads : data[t] = x
      /\ x \in R => sec.item # x /\ ~ \E t \in Threads : data[t] = x
      /\ sec.item = x => ~ \E t \in Threads : data[t] = x
  BY <1>0 DEF PlacesOK, Stored
<1>7. (IF x \in held THEN 1 ELSE 0) + Cardinality(A) + (IF sec.item = x THEN 1 ELSE 0)
      + Cardinality(B) + (IF x \in R THEN 1 ELSE 0) = 1
  BY <1>5, <1>6
<1>8. QED
  BY <1>1, <1>2, <1>7

LEMMA ListOneOwner ==
  ASSUME NEW w \in WaitQs, NEW s, ListInv(w, s), NEW x \in Items
  PROVE  Places(x, s) = 1
<1>1. s \in Seq(Items) /\ NoDup(s) /\ PlacesOK(Stored(s)) /\ HandInv(w)
  BY DEF ListInv
<1>2. PICK R \in SUBSET Items : R = {}
  OBVIOUS
<1>3. PlacesOK(Stored(s) \cup R) /\ R \cap Stored(s) = {} /\ x \notin R
  <2>1. Stored(s) \cup R = Stored(s)
    BY <1>2
  <2>2. QED
    BY <1>1, <1>2, <2>1
<1>4. PICK A : A = {i \in DOMAIN s : s[i] = x}
  OBVIOUS
<1>5. PICK B : B = {t \in wanting : data[t] = x}
  OBVIOUS
<1>6. A = {i \in 1..Len(s) : s[i] = x}
  BY <1>1, <1>4
<1>7. (IF x \in held THEN 1 ELSE 0) + Cardinality(A)
      + (IF sec.item = x THEN 1 ELSE 0) + Cardinality(B)
      + (IF x \in R THEN 1 ELSE 0) = 1
  BY <1>1, <1>3, <1>5, <1>6, CountPlaces
<1>8. Cardinality(A) \in Nat /\ Cardinality(B) \in Nat
  <2>1. IsFiniteSet(1..Len(s)) /\ IsFiniteSet(wanting)
    BY <1>1, FS_Interval, FS_Subset, PendAssumption DEF HandInv, HandTypeOK
  <2>2. A \subseteq 1..Len(s) /\ B \subseteq wanting
    BY <1>5, <1>6
  <2>3. QED
    BY <2>1, <2>2, FS_Subset, FS_CardinalityType
<1>9. (IF x \in held THEN 1 ELSE 0) + Cardinality(A)
      + (IF sec.item = x THEN 1 ELSE 0) + Cardinality(B) = 1
  BY <1>3, <1>7, <1>8
<1>10. QED
  BY <1>4, <1>5, <1>9 DEF Places

LEMMA ListNobodyWaits ==
  ASSUME NEW w \in WaitQs, NEW s, ListInv(w, s), waitq[w] # <<>>
  PROVE  s = <<>>
<1>1. Head(waitq[w]) \in Threads /\ pendedOn[Head(waitq[w])] = w
  BY HeadFacts DEF ListInv, HandInv, PendInv
<1>2. QED
  BY <1>1 DEF ListInv

LEMMA StackInitInv ==
  ASSUME HInit, stk = <<>>, held = Items PROVE ListInv(StackQ, stk)
<1>1. HandInv(StackQ) /\ PlacesOK(Items \ held)
  BY HandInitInv, StackAssumption
<1>2. stk \in Seq(Items) /\ Len(stk) = 0
  OBVIOUS
<1>3. Items \ held = Stored(stk) /\ NoDup(stk)
  BY <1>2 DEF Stored, In, NoDup
<1>4. QED
  BY <1>1, <1>2, <1>3 DEF ListInv

LEMMA StackNextInv ==
  ASSUME ~SMP, ListInv(StackQ, stk), StackNext
  PROVE  ListInv(StackQ, stk)'
<1>0. StackQ \in WaitQs /\ stk \in Seq(Items)
  BY StackAssumption DEF ListInv
<1>1. PICK s \in Seq(Items) : s = stk /\ ListInv(StackQ, s)
  BY <1>0
<1>2. CASE \E x \in held : PushHandOver(x)
  <2>1. ListInv(StackQ, s)' /\ stk' = s
    BY <1>0, <1>1, <1>2, ListGive DEF PushHandOver
  <2>2. QED
    BY <2>1
<1>3. CASE \E x \in held : PushStore(x)
  <2>1. PICK x \in held : PushStore(x)
    BY <1>3
  <2>2. x \in Items
    BY <2>1, <1>1 DEF ListInv, HandInv, HandTypeOK
  <2>3. PICK r \in Seq(Items), k \in 1..(Len(s) + 1) :
          r = Append(s, x) /\ IsInsertion(r, s, x, k)
    BY <1>1, <2>2, AppendIsInsertion
  <2>4. ListInv(StackQ, r)' /\ stk' = r
    BY <1>0, <1>1, <2>1, <2>3, ListPut DEF PushStore
  <2>5. QED
    BY <2>4
<1>4. CASE Pop
  <2>1. PICK r \in Seq(Items), x \in Items, k \in 1..Len(s) :
          r = Front(s) /\ x = Last(s) /\ IsRemoval(r, s, x, k)
    BY <1>1, <1>4, FrontIsRemoval DEF Pop
  <2>2. held' = held \cup {x} /\ stk' = r
    BY <1>1, <1>4, <2>1 DEF Pop
  <2>3. ListInv(StackQ, r)'
    BY <1>0, <1>1, <1>4, <2>1, <2>2, ListTake DEF Pop
  <2>4. QED
    BY <2>2, <2>3
<1>5. CASE \E t \in Callers, forever \in Forevers : PopPend(t, forever)
  <2>1. ListInv(StackQ, <<>>)' /\ stk' = <<>>
    BY <1>0, <1>1, <1>5, ListPend DEF PopPend
  <2>2. QED
    BY <2>1
<1>6. CASE /\ \/ StoreData \/ ReadyWoken(Free) \/ \E t \in Callers : WaitReturn(t)
              \/ HEnvironment \/ \E t \in Victims : HAbort(t)
           /\ UNCHANGED stk
  <2>1. ListInv(StackQ, s)' /\ stk' = s
    BY <1>0, <1>1, <1>6, ListHandStep
  <2>2. QED
    BY <2>1
<1>7. QED
  BY <1>2, <1>3, <1>4, <1>5, <1>6 DEF StackNext

LEMMA StackStrand ==
  ASSUME ~SMP, ListInv(StackQ, stk), StrandOK(StackQ), StackNext
  PROVE  StrandOK(StackQ)'
<1>1. StackQ \in WaitQs /\ HandInv(StackQ) /\ held \subseteq Items
  BY StackAssumption DEF ListInv, HandInv, HandTypeOK
<1>2. CASE \E x \in held : PushHandOver(x)
  BY <1>1, <1>2, StrandStep DEF PushHandOver, Unlocked
<1>3. CASE (\E x \in held : PushStore(x)) \/ Pop
  BY <1>1, <1>3, StrandStep DEF PushStore, Pop
<1>4. CASE \E t \in Callers, forever \in Forevers : PopPend(t, forever)
  BY <1>1, <1>4, StrandStep DEF PopPend
<1>5. CASE \/ StoreData \/ ReadyWoken(Free) \/ \E t \in Callers : WaitReturn(t)
           \/ HEnvironment \/ \E t \in Victims : HAbort(t)
  BY <1>1, <1>5, StrandStep
<1>6. QED
  BY <1>2, <1>3, <1>4, <1>5 DEF StackNext

SlabInv ==
  /\ ListInv(SlabQ, freeList)
  /\ numUsed \in Int /\ SlabAccounts

(* A list of all the items, none twice, has as many entries. *)
LEMMA AllItemsListed ==
  ASSUME NEW s \in SetToSeqs(Items)
  PROVE  /\ s \in Seq(Items) /\ NoDup(s) /\ Len(s) = Cardinality(Items)
         /\ \A x \in Items : In(s, x)
<1>1. IsFiniteSet(Items) /\ Cardinality(Items) \in Nat
  BY HandOverAssumption, FS_CardinalityType
<1>2. PICK n \in Nat : n = Cardinality(Items)
  BY <1>1
<1>3. s \in [1..n -> Items] /\ \A i, j \in 1..n : i # j => s[i] # s[j]
  BY <1>2 DEF SetToSeqs
<1>4. s \in Seq(Items) /\ Len(s) = n
  BY <1>3
<1>5. s \in Surjection(1..n, Items)
  <2>1. s \in Injection(1..n, Items)
    BY <1>3 DEF Injection, IsInjective
  <2>2. Cardinality(1..n) = n
    BY FS_Interval
  <2>3. QED
    BY <1>1, <1>2, <2>1, <2>2, FS_Injection
<1>6. \A x \in Items : In(s, x)
  BY <1>4, <1>5 DEF Surjection, In
<1>7. QED
  BY <1>2, <1>3, <1>4, <1>6 DEF NoDup

LEMMA SlabInitInv ==
  ASSUME HInit, freeList \in SetToSeqs(Items), numUsed = 0, held = {}
  PROVE  SlabInv
<1>1. HandInv(SlabQ) /\ PlacesOK(Items \ held)
  BY HandInitInv, SlabAssumption
<1>2. /\ freeList \in Seq(Items) /\ NoDup(freeList) /\ Len(freeList) = Cardinality(Items)
      /\ \A x \in Items : In(freeList, x)
  BY AllItemsListed
<1>3. Items \ held = Stored(freeList)
  BY <1>2 DEF Stored
<1>4. \A t \in Threads : pendedOn[t] # SlabQ
  BY SlabAssumption, PendAssumption DEF HInit, PendInit
<1>5. QED
  BY <1>1, <1>2, <1>3, <1>4 DEF SlabInv, ListInv, SlabAccounts

LEMMA SlabNextInv ==
  ASSUME ~SMP, SlabInv, SlabNext
  PROVE  SlabInv'
<1>0. SlabQ \in WaitQs /\ freeList \in Seq(Items)
  BY SlabAssumption DEF SlabInv, ListInv
<1>1. PICK s \in Seq(Items) : s = freeList /\ ListInv(SlabQ, s)
  BY <1>0 DEF SlabInv
<1>2. CASE /\ \/ \E x \in held : FreeHandOver(x)
              \/ \E t \in Callers, forever \in Forevers : AllocPend(t, forever)
              \/ StoreData \/ ReadyWoken(Free) \/ \E t \in Callers : WaitReturn(t)
              \/ HEnvironment \/ \E t \in Victims : HAbort(t)
           /\ UNCHANGED <<freeList, numUsed>>
  <2>1. ListInv(SlabQ, s)'
    <3>1. CASE \E x \in held : FreeHandOver(x)
      BY <1>0, <1>1, <3>1, ListGive DEF FreeHandOver
    <3>2. CASE \E t \in Callers, forever \in Forevers : AllocPend(t, forever)
      BY <1>0, <1>1, <3>2, ListPend DEF AllocPend
    <3>3. CASE \/ StoreData \/ ReadyWoken(Free) \/ \E t \in Callers : WaitReturn(t)
               \/ HEnvironment \/ \E t \in Victims : HAbort(t)
      BY <1>0, <1>1, <3>3, ListHandStep
    <3>4. QED
      BY <1>2, <3>1, <3>2, <3>3
  <2>2. QED
    BY <1>1, <1>2, <2>1 DEF SlabInv, SlabAccounts
<1>3. CASE AllocBlock
  <2>1. PICK r \in Seq(Items), x \in Items, k \in 1..Len(s) :
          r = Tail(s) /\ x = Head(s) /\ IsRemoval(r, s, x, k)
    BY <1>1, <1>3, TailIsRemoval DEF AllocBlock
  <2>2. held' = held \cup {x} /\ freeList' = r
    BY <1>1, <1>3, <2>1 DEF AllocBlock
  <2>3. ListInv(SlabQ, r)'
    BY <1>0, <1>1, <1>3, <2>1, <2>2, ListTake DEF AllocBlock
  <2>4. numUsed' \in Int /\ SlabAccounts'
    BY <1>1, <1>3, <2>1, <2>2 DEF AllocBlock, SlabInv, SlabAccounts, IsRemoval
  <2>5. QED
    BY <2>2, <2>3, <2>4 DEF SlabInv
<1>4. CASE \E x \in held : FreeStore(x)
  <2>1. PICK x \in held : FreeStore(x)
    BY <1>4
  <2>2. x \in Items
    BY <2>1, <1>1 DEF ListInv, HandInv, HandTypeOK
  <2>3. PICK r \in Seq(Items), k \in 1..(Len(s) + 1) :
          r = <<x>> \o s /\ IsInsertion(r, s, x, k)
    BY <1>1, <2>2, PrependIsInsertion
  <2>4. ListInv(SlabQ, r)' /\ freeList' = r
    BY <1>0, <1>1, <2>1, <2>3, ListPut DEF FreeStore
  <2>5. numUsed' \in Int /\ SlabAccounts'
    BY <1>1, <2>1, <2>3, <2>4 DEF FreeStore, SlabInv, SlabAccounts, IsInsertion
  <2>6. QED
    BY <2>4, <2>5 DEF SlabInv
<1>5. QED
  BY <1>2, <1>3, <1>4 DEF SlabNext, FreeHandOver, AllocPend

LEMMA SlabStrand ==
  ASSUME ~SMP, SlabInv, StrandOK(SlabQ), SlabNext
  PROVE  StrandOK(SlabQ)'
<1>1. SlabQ \in WaitQs /\ HandInv(SlabQ) /\ held \subseteq Items
  BY SlabAssumption DEF SlabInv, ListInv, HandInv, HandTypeOK
<1>2. CASE \E x \in held : FreeHandOver(x)
  BY <1>1, <1>2, StrandStep DEF FreeHandOver, Unlocked
<1>3. CASE (\E x \in held : FreeStore(x)) \/ AllocBlock
  BY <1>1, <1>3, StrandStep DEF FreeStore, AllocBlock
<1>4. CASE \E t \in Callers, forever \in Forevers : AllocPend(t, forever)
  BY <1>1, <1>4, StrandStep DEF AllocPend
<1>5. CASE \/ StoreData \/ ReadyWoken(Free) \/ \E t \in Callers : WaitReturn(t)
           \/ HEnvironment \/ \E t \in Victims : HAbort(t)
  BY <1>1, <1>5, StrandStep
<1>6. QED
  BY <1>2, <1>3, <1>4, <1>5 DEF SlabNext


-----------------------------------------------------------------------------
(* Queues: the list in memory and the list that it stands for.             *)

At(s, i) == IF i \in 1..Len(s) THEN s[i] ELSE None

ListRecs == [head : Items \cup {None}, tail : Items \cup {None},
             nxt : [Items -> Items \cup {None}], wrapped : SUBSET Items]

(* The next words lead from x along s. *)
Chain(l, x, s) == x = At(s, 1) /\ \A i \in 1..Len(s) : l.nxt[s[i]] = At(s, i + 1)

IsList(l, s) == Chain(l, l.head, s) /\ l.tail = At(s, Len(s))

LEMMA NoDupBound ==
  ASSUME NEW s \in Seq(Items), NoDup(s)
  PROVE  Len(s) <= Cardinality(Items) /\ Cardinality(Items) \in Nat
<1>1. IsFiniteSet(Items) /\ Cardinality(Items) \in Nat
  BY HandOverAssumption, FS_CardinalityType
<1>2. PICK n \in Nat : n = Len(s)
  OBVIOUS
<1>3. s \in Injection(1..n, Items)
  BY <1>2 DEF Injection, IsInjective, NoDup
<1>4. Cardinality(1..n) = n
  BY FS_Interval
<1>5. QED
  BY <1>1, <1>2, <1>3, <1>4, FS_Injection

(* What Hops meets on a list: its items, then None.  The function that its *)
(* definition describes exists, because this one is it; there is no other, *)
(* because two would differ at a first place.                              *)
LEMMA HopsFacts ==
  ASSUME NEW l, NEW x, NEW s \in Seq(Items), NoDup(s), Chain(l, x, s)
  PROVE  Hops(l, x) = [i \in 1..(Cardinality(Items) + 1) |-> At(s, i)]
<1>1. PICK N \in Nat : N = Cardinality(Items) + 1 /\ Len(s) + 1 <= N
  BY NoDupBound
<1> DEFINE Eq(h) == h = [i \in 1..N |-> IF i = 1 THEN x
                          ELSE IF h[i - 1] = None THEN None ELSE l.nxt[h[i - 1]]]
           f == [i \in 1..N |-> At(s, i)]
<1>0. None \notin Items
  BY HandTypes
<1>2. Eq(f)
  <2>1. ASSUME NEW i \in 1..N
        PROVE  f[i] = IF i = 1 THEN x
                      ELSE IF f[i - 1] = None THEN None ELSE l.nxt[f[i - 1]]
    BY <1>0, <1>1, <2>1 DEF Chain, At
  <2>2. QED
    BY <2>1
<1>3. Hops(l, x) = CHOOSE h : Eq(h)
  BY <1>1 DEF Hops
<1>4. PICK h : Eq(h) /\ Hops(l, x) = h
  <2> HIDE DEF Eq, f
  <2>1. Eq(CHOOSE h : Eq(h))
    BY <1>2
  <2>2. QED
    BY <1>3, <2>1
<1>5. \A i \in 1..N : h[i] = f[i]
  <2>1. SUFFICES ASSUME {i \in 1..N : h[i] # f[i]} # {} PROVE FALSE
    OBVIOUS
  <2> DEFINE Bad == {i \in 1..N : h[i] # f[i]}
  <2>2. Bad \in SUBSET Nat /\ Bad # {}
    BY <2>1
  <2>3. PICK m \in Bad : \A i \in Bad : m <= i
    <3> HIDE DEF Bad
    <3>1. QED
      BY <2>2, MinOfNaturals
  <2>4. m \in 1..N /\ h[m] # f[m] /\ \A i \in 1..N : i < m => h[i] = f[i]
    BY <2>3
  <2>5. CASE m = 1
    BY <1>2, <1>4, <2>4, <2>5
  <2>6. CASE m # 1
    <3>1. m - 1 \in 1..N /\ h[m - 1] = f[m - 1]
      BY <2>4, <2>6
    <3>2. h[m] = IF h[m - 1] = None THEN None ELSE l.nxt[h[m - 1]]
      BY <1>4, <2>4, <2>6
    <3>3. f[m] = IF f[m - 1] = None THEN None ELSE l.nxt[f[m - 1]]
      BY <1>2, <2>4, <2>6
    <3>4. QED
      BY <2>4, <3>1, <3>2, <3>3
  <2>7. QED
    BY <2>5, <2>6
<1>6. h = f
  <2>1. h = [i \in 1..N |-> h[i]]
    BY <1>4
  <2>2. QED
    BY <1>5, <2>1
<1>7. QED
  BY <1>1, <1>4, <1>6

(* Taking one node in and out of a list. *)
LEMMA InsertIsInsertion ==
  ASSUME NEW l \in ListRecs, NEW s \in Seq(Items), NEW x \in Items,
         NoDup(s), IsList(l, s), ~In(s, x),
         NEW k \in 1..(Len(s) + 1), NEW r \in Seq(Items), IsInsertion(r, s, x, k)
  PROVE  LET m == Insert(l, At(s, k - 1), x)
         IN /\ m \in ListRecs /\ IsList(m, r) /\ m.wrapped = l.wrapped
            /\ \A y \in Items : ~In(r, y) => m.nxt[y] = l.nxt[y]
<1> DEFINE m == Insert(l, At(s, k - 1), x)
<1>0. Len(s) \in Nat /\ None \notin Items /\ k \in Nat /\ 1 <= k /\ k <= Len(s) + 1
  BY HandTypes
<1>1. /\ m \in ListRecs /\ m.wrapped = l.wrapped
      /\ m.head = IF k = 1 THEN x ELSE l.head
      /\ m.tail = IF k = Len(s) + 1 THEN x ELSE l.tail
      /\ m.nxt[x] = At(s, k)
      /\ \A y \in Items : y # x =>
           m.nxt[y] = IF k > 1 /\ y = At(s, k - 1) THEN x ELSE l.nxt[y]
  <2>1. CASE k = 1
    <3>1. At(s, k - 1) = None /\ m = Prepend(l, x)
      BY <2>1 DEF At, Insert
    <3>2. l.head = At(s, 1) /\ (l.tail = None <=> Len(s) = 0)
      BY <1>0 DEF IsList, Chain, At
    <3>3. PICK nx \in [Items -> Items \cup {None}] : nx = [l.nxt EXCEPT ![x] = l.head]
      BY DEF ListRecs
    <3>4. m = [head |-> x, tail |-> IF l.tail = None THEN x ELSE l.tail,
               nxt |-> nx, wrapped |-> l.wrapped]
      BY <3>1, <3>3 DEF Prepend, ListRecs
    <3>5. nx[x] = l.head /\ \A y \in Items : y # x => nx[y] = l.nxt[y]
      BY <3>3 DEF ListRecs
    <3>6. m \in ListRecs
      BY <3>4 DEF ListRecs
    <3>7. QED
      BY <1>0, <2>1, <3>2, <3>4, <3>5, <3>6
  <2>2. CASE k > 1 /\ k = Len(s) + 1
    <3>1. PICK p \in Items : p = s[Len(s)] /\ At(s, k - 1) = p /\ l.tail = p
      BY <1>0, <2>2 DEF At, IsList
    <3>2. l.nxt[p] = None /\ p # x
      BY <1>0, <2>2, <3>1 DEF IsList, Chain, At, In
    <3>3. m = [l EXCEPT !.nxt = [@ EXCEPT ![x] = None, ![p] = x], !.tail = x]
      BY <1>0, <3>1, <3>2 DEF Insert, AppendNode
    <3>4. At(s, k) = None
      BY <1>0, <2>2 DEF At
    <3>5. PICK nx \in [Items -> Items \cup {None}] :
            nx = [l.nxt EXCEPT ![x] = None, ![p] = x]
      BY DEF ListRecs
    <3>6. m = [head |-> l.head, tail |-> x, nxt |-> nx, wrapped |-> l.wrapped]
      BY <3>3, <3>5 DEF ListRecs
    <3>7. /\ nx[x] = None /\ nx[p] = x
          /\ \A y \in Items : y # x /\ y # p => nx[y] = l.nxt[y]
      BY <3>2, <3>5 DEF ListRecs
    <3>8. m \in ListRecs
      BY <3>6 DEF ListRecs
    <3>9. QED
      BY <1>0, <2>2, <3>1, <3>2, <3>4, <3>6, <3>7, <3>8
  <2>3. CASE k > 1 /\ k # Len(s) + 1
    <3>1. PICK p \in Items, n \in Items :
            p = s[k - 1] /\ At(s, k - 1) = p /\ n = s[k] /\ At(s, k) = n
      BY <1>0, <2>3 DEF At
    <3>2. l.nxt[p] = n /\ p # x
      BY <1>0, <2>3, <3>1 DEF IsList, Chain, At, In
    <3>3. m = [l EXCEPT !.nxt = [@ EXCEPT ![x] = n, ![p] = x]]
      BY <1>0, <3>1, <3>2 DEF Insert
    <3>4. QED
      BY <1>0, <2>3, <3>1, <3>2, <3>3 DEF ListRecs
  <2>4. QED
    BY <1>0, <2>1, <2>2, <2>3
<1> HIDE DEF m
<1>2. /\ Len(r) = Len(s) + 1 /\ r[k] = x
      /\ \A i \in 1..(k - 1) : r[i] = s[i]
      /\ \A i \in k..Len(s) : r[i + 1] = s[i]
  BY DEF IsInsertion
<1>3. NoDup(r) /\ \A y : In(r, y) <=> In(s, y) \/ y = x
  BY InsertionFacts
<1>4. m.head = At(r, 1) /\ m.tail = At(r, Len(r))
  BY <1>0, <1>1, <1>2 DEF IsList, Chain, At
<1>5. ASSUME NEW i \in 1..Len(r) PROVE m.nxt[r[i]] = At(r, i + 1)
  <2>1. CASE i = k
    BY <1>0, <1>1, <1>2, <2>1 DEF At
  <2>2. CASE i < k - 1
    <3>1. i \in 1..Len(s) /\ r[i] = s[i] /\ r[i] \in Items /\ r[i] # x
      BY <1>0, <1>2, <2>2 DEF In
    <3>2. r[i] # At(s, k - 1)
      BY <1>0, <2>2, <3>1 DEF At, NoDup
    <3>3. At(s, i + 1) = At(r, i + 1)
      BY <1>0, <1>2, <2>2 DEF At
    <3>4. QED
      BY <1>1, <3>1, <3>2, <3>3 DEF IsList, Chain
  <2>3. CASE i = k - 1
    <3>1. i \in 1..Len(s) /\ r[i] = s[i] /\ r[i] \in Items /\ r[i] # x
      BY <1>0, <1>2, <2>3 DEF In
    <3>2. r[i] = At(s, k - 1) /\ k > 1 /\ At(r, i + 1) = x
      BY <1>0, <1>2, <2>3, <3>1 DEF At
    <3>3. QED
      BY <1>1, <3>1, <3>2
  <2>4. CASE i > k
    <3>1. i - 1 \in 1..Len(s) /\ r[i] = s[i - 1] /\ r[i] \in Items /\ r[i] # x
      BY <1>0, <1>2, <2>4 DEF In
    <3>2. r[i] # At(s, k - 1)
      BY <1>0, <2>4, <3>1, HandTypes DEF At, NoDup
    <3>3. At(s, i) = At(r, i + 1)
      BY <1>0, <1>2, <2>4 DEF At
    <3>4. QED
      BY <1>1, <3>1, <3>2, <3>3 DEF IsList, Chain
  <2>5. QED
    BY <1>0, <1>2, <2>1, <2>2, <2>3, <2>4
<1>6. \A y \in Items : ~In(r, y) => m.nxt[y] = l.nxt[y]
  <2>1. SUFFICES ASSUME NEW y \in Items, ~In(r, y) PROVE m.nxt[y] = l.nxt[y]
    OBVIOUS
  <2>2. y # x /\ ~In(s, y)
    BY <1>3, <2>1
  <2>3. y # At(s, k - 1)
    BY <1>0, <2>1, <2>2 DEF At, In
  <2>4. QED
    BY <1>1, <2>2, <2>3
<1>7. QED
  BY <1>1, <1>4, <1>5, <1>6 DEF IsList, Chain, m

LEMMA RemoveNodeIsRemoval ==
  ASSUME NEW l \in ListRecs, NEW s \in Seq(Items), NEW x \in Items,
         NoDup(s), IsList(l, s),
         NEW k \in 1..Len(s), NEW r \in Seq(Items), IsRemoval(r, s, x, k)
  PROVE  LET m == RemoveNode(l, At(s, k - 1), x)
         IN /\ m \in ListRecs /\ IsList(m, r) /\ m.wrapped = l.wrapped
            /\ m.nxt[x] = None
            /\ \A y \in Items : ~In(s, y) => m.nxt[y] = l.nxt[y]
<1> DEFINE m == RemoveNode(l, At(s, k - 1), x)
<1>0. /\ Len(s) \in Nat /\ None \notin Items /\ k \in Nat /\ 1 <= k /\ k <= Len(s)
      /\ s[k] = x /\ l.nxt[x] = At(s, k + 1)
  BY HandTypes DEF IsRemoval, IsList, Chain
<1>1. /\ m \in ListRecs /\ m.wrapped = l.wrapped
      /\ m.head = IF k = 1 THEN At(s, 2) ELSE l.head
      /\ m.tail = IF k = Len(s) THEN At(s, k - 1) ELSE l.tail
      /\ m.nxt[x] = None
      /\ \A y \in Items : y # x =>
           m.nxt[y] = IF k > 1 /\ y = At(s, k - 1) THEN At(s, k + 1) ELSE l.nxt[y]
  <2>0. /\ l.tail = s[Len(s)] /\ (l.tail = x <=> k = Len(s))
        /\ At(s, k + 1) \in Items \cup {None}
    BY <1>0 DEF IsList, At, NoDup
  <2>1. CASE k = 1
    <3>1. At(s, k - 1) = None
      BY <2>1 DEF At
    <3>2. PICK nx \in [Items -> Items \cup {None}] : nx = [l.nxt EXCEPT ![x] = None]
      BY DEF ListRecs
    <3>3. m = [head |-> l.nxt[x], tail |-> IF l.tail = x THEN l.nxt[x] ELSE l.tail,
               nxt |-> nx, wrapped |-> l.wrapped]
      BY <3>1, <3>2 DEF RemoveNode, ListRecs
    <3>4. nx[x] = None /\ \A y \in Items : y # x => nx[y] = l.nxt[y]
      BY <3>2 DEF ListRecs
    <3>5. m \in ListRecs
      BY <1>0, <2>0, <3>3 DEF ListRecs
    <3>6. k = Len(s) => At(s, 2) = None
      <4>1. SUFFICES ASSUME 1 = Len(s) PROVE At(s, 2) = None
        BY <2>1
      <4>2. 2 \notin 1..1
        OBVIOUS
      <4>3. QED
        BY <4>1, <4>2 DEF At
    <3>7. QED
      BY <1>0, <2>0, <2>1, <3>1, <3>3, <3>4, <3>5, <3>6
  <2>2. CASE k > 1
    <3>1. PICK p \in Items : p = s[k - 1] /\ At(s, k - 1) = p /\ p # x /\ p # None
      BY <1>0, <2>2 DEF At, NoDup
    <3>2. PICK nx \in [Items -> Items \cup {None}] :
            nx = [l.nxt EXCEPT ![p] = l.nxt[x], ![x] = None]
      BY <1>0, <2>0 DEF ListRecs
    <3>3. m = [head |-> l.head, tail |-> IF l.tail = x THEN p ELSE l.tail,
               nxt |-> nx, wrapped |-> l.wrapped]
      BY <3>1, <3>2 DEF RemoveNode, ListRecs
    <3>4. /\ nx[x] = None /\ nx[p] = l.nxt[x]
          /\ \A y \in Items : y # x /\ y # p => nx[y] = l.nxt[y]
      BY <3>1, <3>2 DEF ListRecs
    <3>5. m \in ListRecs
      BY <3>3 DEF ListRecs
    <3>6. QED
      BY <1>0, <2>0, <2>2, <3>1, <3>3, <3>4, <3>5
  <2>3. QED
    BY <1>0, <2>1, <2>2
<1> HIDE DEF m
<1>2. /\ Len(r) = Len(s) - 1
      /\ \A i \in 1..(k - 1) : r[i] = s[i]
      /\ \A i \in k..(Len(s) - 1) : r[i] = s[i + 1]
  BY DEF IsRemoval
<1>3. m.head = At(r, 1) /\ m.tail = At(r, Len(r))
  BY <1>0, <1>1, <1>2 DEF IsList, Chain, At
<1>4. ASSUME NEW i \in 1..Len(r) PROVE m.nxt[r[i]] = At(r, i + 1)
  <2>1. CASE i < k - 1
    <3>1. i \in 1..Len(s) /\ r[i] = s[i] /\ r[i] \in Items /\ r[i] # x
      BY SMTT(30), <1>0, <1>2, <2>1 DEF NoDup
    <3>2. r[i] # At(s, k - 1)
      BY <1>0, <2>1, <3>1 DEF At, NoDup
    <3>3. At(s, i + 1) = At(r, i + 1)
      <4>1. i + 1 \in 1..(k - 1) /\ i + 1 \in 1..Len(s) /\ i + 1 \in 1..Len(r)
        BY <1>0, <1>2, <2>1
      <4>2. QED
        BY <1>2, <4>1 DEF At
    <3>4. QED
      BY <1>1, <3>1, <3>2, <3>3 DEF IsList, Chain
  <2>2. CASE i = k - 1
    <3>1. i \in 1..Len(s) /\ r[i] = s[i] /\ r[i] \in Items /\ r[i] # x
      BY <1>0, <1>2, <2>2 DEF NoDup
    <3>2. r[i] = At(s, k - 1) /\ k > 1 /\ At(r, i + 1) = At(s, k + 1)
      BY <1>0, <1>2, <2>2, <3>1 DEF At
    <3>3. QED
      BY <1>1, <3>1, <3>2
  <2>3. CASE i >= k
    <3>1. i + 1 \in 1..Len(s) /\ r[i] = s[i + 1] /\ r[i] \in Items /\ r[i] # x
      BY <1>0, <1>2, <2>3 DEF NoDup
    <3>2. r[i] # At(s, k - 1)
      BY <1>0, <2>3, <3>1 DEF At, NoDup
    <3>3. At(s, (i + 1) + 1) = At(r, i + 1)
      <4>1. /\ (i + 1) + 1 \in 1..Len(s) <=> i + 1 \in 1..Len(r)
            /\ i + 1 \in 1..Len(r) => i + 1 \in k..(Len(s) - 1)
        BY <1>0, <1>2, <2>3
      <4>2. QED
        BY <1>2, <4>1 DEF At
    <3>4. QED
      BY <1>1, <3>1, <3>2, <3>3 DEF IsList, Chain
  <2>4. QED
    BY <1>0, <1>2, <2>1, <2>2, <2>3
<1>5. \A y \in Items : ~In(s, y) => m.nxt[y] = l.nxt[y]
  <2>1. SUFFICES ASSUME NEW y \in Items, ~In(s, y) PROVE m.nxt[y] = l.nxt[y]
    OBVIOUS
  <2>2. y # x /\ y # At(s, k - 1)
    BY <1>0, <2>1 DEF At, In
  <2>3. QED
    BY <1>1, <2>2
<1>6. QED
  BY <1>1, <1>3, <1>4, <1>5 DEF IsList, Chain, m


(* k_queue_append_list: a caller's list, one or two items long here, is    *)
(* linked behind the tail.                                                 *)
LEMMA AppendListIsAppend ==
  ASSUME NEW l \in ListRecs, NEW s \in Seq(Items), NEW x \in Items, NEW y \in Items,
         NoDup(s), IsList(l, s), ~In(s, x), ~In(s, y),
         l.nxt[x] = IF y = x THEN None ELSE y, l.nxt[y] = None
  PROVE  LET m == AppendList(l, x, y)
         IN \E r \in Seq(Items) :
              /\ m \in ListRecs /\ IsList(m, r) /\ NoDup(r) /\ m.wrapped = l.wrapped
              /\ \A z : In(r, z) <=> In(s, z) \/ z = x \/ z = y
              /\ \A z \in Items : ~In(s, z) => m.nxt[z] = l.nxt[z]
<1> DEFINE m == AppendList(l, x, y)
<1>0. Len(s) \in Nat /\ None \notin Items
  BY HandTypes
<1>1. /\ m \in ListRecs /\ m.wrapped = l.wrapped
      /\ m.head = (IF Len(s) = 0 THEN x ELSE l.head) /\ m.tail = y
      /\ \A z \in Items : m.nxt[z] = IF z = At(s, Len(s)) THEN x ELSE l.nxt[z]
  <2>1. CASE Len(s) = 0
    <3>1. l.tail = None /\ At(s, Len(s)) = None
      BY <2>1 DEF IsList, At
    <3>2. QED
      BY <1>0, <2>1, <3>1 DEF AppendList, ListRecs
  <2>2. CASE Len(s) # 0
    <3>1. PICK p \in Items : p = s[Len(s)] /\ At(s, Len(s)) = p /\ l.tail = p /\ p # None
      BY <1>0, <2>2 DEF At, IsList
    <3>2. PICK nx \in [Items -> Items \cup {None}] : nx = [l.nxt EXCEPT ![p] = x]
      BY DEF ListRecs
    <3>3. m = [head |-> l.head, tail |-> y, nxt |-> nx, wrapped |-> l.wrapped]
      BY <3>1, <3>2 DEF AppendList, ListRecs
    <3>4. \A z \in Items : nx[z] = IF z = p THEN x ELSE l.nxt[z]
      BY <3>2 DEF ListRecs
    <3>5. m \in ListRecs
      BY <3>3 DEF ListRecs
    <3>6. QED
      BY <2>2, <3>1, <3>3, <3>4, <3>5
  <2>3. QED
    BY <2>1, <2>2
<1> HIDE DEF m
<1>2. PICK a \in Seq(Items) : IsInsertion(a, s, x, Len(s) + 1)
  BY AppendIsInsertion
<1>3. NoDup(a) /\ \A z : In(a, z) <=> In(s, z) \/ z = x
  BY <1>0, <1>2, InsertionFacts
<1>4. /\ Len(a) = Len(s) + 1 /\ a[Len(s) + 1] = x
      /\ \A i \in 1..Len(s) : a[i] = s[i]
  BY <1>0, <1>2 DEF IsInsertion
<1>5. ASSUME NEW i \in 1..Len(s)
      PROVE  /\ s[i] \in Items /\ s[i] # x /\ s[i] # y
             /\ i < Len(s) => m.nxt[s[i]] = s[i + 1]
             /\ i = Len(s) => m.nxt[s[i]] = x
  <2>1. s[i] \in Items /\ s[i] # x /\ s[i] # y
    BY DEF In
  <2>2. CASE i = Len(s)
    BY <1>0, <1>1, <2>1, <2>2 DEF At
  <2>3. CASE i < Len(s)
    <3>1. s[i] # At(s, Len(s))
      BY <1>0, <2>3 DEF At, NoDup
    <3>2. l.nxt[s[i]] = At(s, i + 1) /\ At(s, i + 1) = s[i + 1]
      BY <1>0, <2>3 DEF IsList, Chain, At
    <3>3. QED
      BY <1>1, <2>1, <2>3, <3>1, <3>2
  <2>4. QED
    BY <1>0, <2>1, <2>2, <2>3
<1>6. m.nxt[x] = l.nxt[x] /\ m.nxt[y] = None
  <2>1. x # At(s, Len(s)) /\ y # At(s, Len(s))
    BY <1>0 DEF At, In
  <2>2. QED
    BY <1>1, <2>1
<1>7. \A z \in Items : ~In(s, z) => m.nxt[z] = l.nxt[z]
  <2>1. \A z \in Items : ~In(s, z) => z # At(s, Len(s))
    BY <1>0 DEF At, In
  <2>2. QED
    BY <1>1, <2>1
<1>8. l.head = At(s, 1)
  BY DEF IsList, Chain
<1>9. CASE y = x
  <2>1. Chain(m, m.head, a) /\ m.tail = At(a, Len(a))
    <3>1. m.head = At(a, 1) /\ m.tail = At(a, Len(a))
      BY <1>0, <1>1, <1>4, <1>8, <1>9 DEF At
    <3>2. ASSUME NEW i \in 1..Len(a) PROVE m.nxt[a[i]] = At(a, i + 1)
      <4>1. CASE i = Len(s) + 1
        BY <1>0, <1>4, <1>6, <1>9, <4>1 DEF At
      <4>2. CASE i = Len(s)
        BY <1>0, <1>4, <1>5, <4>2 DEF At
      <4>3. CASE i < Len(s)
        BY <1>0, <1>4, <1>5, <4>3 DEF At
      <4>4. QED
        BY <1>0, <1>4, <4>1, <4>2, <4>3
    <3>3. QED
      BY <3>1, <3>2 DEF Chain
  <2>2. QED
    BY <1>1, <1>3, <1>7, <1>9, <2>1 DEF IsList, m
<1>10. CASE y # x
  <2>1. ~In(a, y)
    BY <1>3, <1>10
  <2>2. PICK b \in Seq(Items) : IsInsertion(b, a, y, Len(a) + 1)
    BY AppendIsInsertion
  <2>3. NoDup(b) /\ \A z : In(b, z) <=> In(a, z) \/ z = y
    BY <1>3, <2>1, <2>2, InsertionFacts, <1>0, <1>4
  <2>4. /\ Len(b) = Len(s) + 2 /\ b[Len(s) + 1] = x /\ b[Len(s) + 2] = y
        /\ \A i \in 1..Len(s) : b[i] = s[i]
    BY <1>0, <1>4, <2>2 DEF IsInsertion
  <2>5. Chain(m, m.head, b) /\ m.tail = At(b, Len(b))
    <3>1. m.head = At(b, 1) /\ m.tail = At(b, Len(b))
      BY <1>0, <1>1, <1>8, <2>4 DEF At
    <3>2. ASSUME NEW i \in 1..Len(b) PROVE m.nxt[b[i]] = At(b, i + 1)
      <4>1. CASE i = Len(s) + 2
        BY <1>0, <1>6, <2>4, <4>1 DEF At
      <4>2. CASE i = Len(s) + 1
        BY <1>0, <1>6, <1>10, <2>4, <4>2 DEF At
      <4>3. CASE i = Len(s)
        BY <1>0, <1>5, <2>4, <4>3 DEF At
      <4>4. CASE i < Len(s)
        BY <1>0, <1>5, <2>4, <4>4 DEF At
      <4>5. QED
        BY <1>0, <2>4, <4>1, <4>2, <4>3, <4>4
    <3>3. QED
      BY <3>1, <3>2 DEF Chain
  <2>6. \A z : In(b, z) <=> In(s, z) \/ z = x \/ z = y
    BY <1>3, <2>3
  <2>7. QED
    BY <1>1, <1>7, <2>3, <2>5, <2>6 DEF IsList, m
<1>11. QED
  BY <1>9, <1>10


-----------------------------------------------------------------------------
(* Queues, on one CPU, with callers that let nobody else near a queue that *)
(* they walk (k_queue_remove, k_queue_unique_append).                      *)

OptItems == Items \cup {None}

QueueTypeOK ==
  /\ q \in ListRecs
  /\ lst \in [at : OptItems, tail : OptItems]
  /\ walk \in [op : {"none", "remove", "unique"}, item : OptItems, prev : OptItems,
               at : OptItems]

(* What a k_queue_append_list in progress still has: at most one item,     *)
(* behind the one that it has handed out.                                  *)
Rest == IF lst = NoList THEN {} ELSE {q.nxt[lst.at]} \ {None}

AppendListOK(s) ==
  /\ Unlocked => lst = NoList
  /\ sec.st = "list" => lst # NoList
  /\ lst # NoList => lst.at \in Items
  /\ Rest \cap Stored(s) = {}
  /\ \A y \in Rest : lst.tail = y /\ q.nxt[y] = None

(* The application's items lead nowhere. *)
HeldOK == \A x \in held : q.nxt[x] = None

(* A walk is at some place of the list and has not passed its item. *)
WalkOK(s) ==
  walk # NoWalk =>
    /\ Unlocked
    /\ walk.item \in Items \ q.wrapped
    /\ walk.op = "unique" => walk.item \in held \cup Stored(s)
    /\ \E k \in 1..(Len(s) + 1) :
         /\ walk.at = At(s, k) /\ walk.prev = At(s, k - 1)
         /\ \A j \in 1..(k - 1) : s[j] # walk.item

(* The queue's memory is the list s. *)
QueueIs(s) ==
  /\ HandInv(QueueQ) /\ QueueTypeOK
  /\ s \in Seq(Items) /\ NoDup(s) /\ IsList(q, s)
  /\ PlacesOK(Stored(s) \cup Rest)
  /\ s # <<>> => \A t \in Threads : pendedOn[t] # QueueQ
  /\ AppendListOK(s) /\ HeldOK /\ WalkOK(s)

QueueInv == \E s : QueueIs(s)

LEMMA QueueInitInv ==
  ASSUME HInit, held = Items, lst = NoList, walk = NoWalk,
         q = [head |-> None, tail |-> None, nxt |-> [x \in Items |-> None],
              wrapped |-> {}]
  PROVE  QueueInv
<1>1. HandInv(QueueQ) /\ PlacesOK(Items \ held)
  BY HandInitInv, QueueAssumption
<1>2. QueueTypeOK
  <2>1. [x \in Items |-> None] \in [Items -> Items \cup {None}]
    OBVIOUS
  <2>2. q \in ListRecs
    BY <2>1 DEF ListRecs
  <2>3. /\ NoList \in [at : OptItems, tail : OptItems]
        /\ NoWalk \in [op : {"none", "remove", "unique"}, item : OptItems,
                       prev : OptItems, at : OptItems]
    BY DEF OptItems, NoList, NoWalk
  <2>4. QED
    BY <2>2, <2>3 DEF QueueTypeOK
<1>3. PICK s \in Seq(Items) : s = <<>> /\ Len(s) = 0
  <2>1. <<>> \in Seq(Items) /\ Len(<<>>) = 0
    OBVIOUS
  <2>2. QED
    BY <2>1
<1>4. NoDup(s) /\ IsList(q, s)
  BY <1>3 DEF NoDup, IsList, Chain, At
<1>5. Stored(s) \cup Rest = Items \ held /\ Rest = {}
  BY <1>3 DEF Stored, In, Rest
<1>6. AppendListOK(s) /\ HeldOK /\ WalkOK(s)
  BY <1>5 DEF AppendListOK, HeldOK, WalkOK, HInit, Free
<1>7. PlacesOK(Stored(s) \cup Rest)
  BY <1>1, <1>5
<1>8. QueueIs(s)
  BY <1>1, <1>2, <1>3, <1>4, <1>6, <1>7 DEF QueueIs
<1>9. QED
  BY <1>8 DEF QueueInv

LEMMA StoredAndRest ==
  ASSUME NEW s, QueueIs(s) PROVE Stored(s) \cup Rest \in SUBSET Items
  BY DEF Stored, Rest, QueueIs, QueueTypeOK, ListRecs, OptItems, AppendListOK

(* Steps that leave the list and the application's items alone. *)
LEMMA QueueKeep ==
  ASSUME NEW s, QueueIs(s), HandInv(QueueQ)', PlacesOK(Stored(s) \cup Rest)',
         UNCHANGED <<q, lst, walk, held>>, s = <<>> \/ NobodyJoins(QueueQ),
         Unlocked' => lst = NoList, sec'.st = "list" => lst # NoList,
         walk = NoWalk \/ Unlocked'
  PROVE  QueueIs(s)'
<1>1. QueueTypeOK' /\ IsList(q, s)' /\ HeldOK' /\ AppendListOK(s)'
  BY DEF QueueIs, QueueTypeOK, HeldOK, AppendListOK, Rest
<1>2. s # <<>> => \A t \in Threads : pendedOn'[t] # QueueQ
  BY DEF QueueIs, NobodyJoins
<1>3. WalkOK(s)'
  BY DEF QueueIs, WalkOK
<1>4. QED
  BY <1>1, <1>2, <1>3 DEF QueueIs

LEMMA QueueHandStep ==
  ASSUME ~SMP, NEW s, QueueIs(s), UNCHANGED <<q, lst, walk>>,
         \/ StoreData
         \/ ReadyWoken(IF lst = NoList THEN Free ELSE [Free EXCEPT !.st = "list"])
         \/ HEnvironment \/ \E t \in Victims : HAbort(t)
  PROVE  QueueIs(s)'
<1>0. QueueQ \in WaitQs /\ HandInv(QueueQ) /\ PlacesOK(Stored(s) \cup Rest)
  BY QueueAssumption DEF QueueIs
<1>1. PICK S \in SUBSET Items : S = Stored(s) \cup Rest
  BY StoredAndRest
<1>2. (Stored(s) \cup Rest)' = S
  BY <1>1 DEF Rest
<1>3. CASE StoreData
  <2>1. HandInv(QueueQ)' /\ PlacesOK(S)' /\ NobodyJoins(QueueQ)
    BY <1>0, <1>1, <1>3, StoreDataInv
  <2>2. sec'.st = "set" /\ ~Unlocked /\ held' = held
    BY <1>0, <1>3 DEF StoreData, HandInv, HandTypeOK, Unlocked
  <2>3. walk = NoWalk
    BY <2>2 DEF QueueIs, WalkOK
  <2>4. QED
    BY <1>2, <2>1, <2>2, <2>3, QueueKeep DEF Unlocked
<1>4. CASE ReadyWoken(IF lst = NoList THEN Free ELSE [Free EXCEPT !.st = "list"])
  <2>1. HandInv(QueueQ)' /\ PlacesOK(S)' /\ NobodyJoins(QueueQ)
    BY <1>0, <1>1, <1>4, ReadyWokenInv
  <2>2. /\ sec'.st = (IF lst = NoList THEN "free" ELSE "list")
        /\ ~Unlocked /\ held' = held
    BY <1>4 DEF ReadyWoken, Free, Unlocked
  <2>3. walk = NoWalk
    BY <2>2 DEF QueueIs, WalkOK
  <2>4. QED
    BY <1>2, <2>1, <2>2, <2>3, QueueKeep DEF Unlocked
<1>5. CASE HEnvironment \/ \E t \in Victims : HAbort(t)
  <2>1. HandInv(QueueQ)' /\ PlacesOK(S)' /\ NobodyJoins(QueueQ)
    BY <1>0, <1>1, <1>5, HandOutsideInv
  <2>2. UNCHANGED <<sec, held>> /\ Unlocked /\ lst = NoList
    BY <1>5 DEF HEnvironment, HAbort, handVars, Others, QueueIs, AppendListOK
  <2>3. QED
    BY <1>2, <2>1, <2>2, QueueKeep DEF Unlocked
<1>6. QED
  BY <1>3, <1>4, <1>5


(* k_queue_cancel_wait and the start of a wait *)
LEMMA QueueWaitInv ==
  ASSUME ~SMP, WalkAlone, NEW s, QueueIs(s),
         \/ CancelWait
         \/ \E t \in Callers, forever \in Forevers : GetPend(t, forever)
  PROVE  QueueIs(s)'
<1>0. /\ QueueQ \in WaitQs /\ HandInv(QueueQ) /\ PlacesOK(Stored(s) \cup Rest)
      /\ Unlocked /\ walk = NoWalk /\ lst = NoList
      /\ UNCHANGED <<q, lst, walk, held>>
  BY QueueAssumption
     DEF QueueIs, CancelWait, GetPend, PendFor, Undisturbed, AppendListOK
<1>1. PICK S \in SUBSET Items : S = Stored(s) \cup Rest
  BY StoredAndRest
<1>2. (Stored(s) \cup Rest)' = S
  BY <1>0, <1>1 DEF Rest
<1>3. CASE CancelWait
  <2>1. held' \cup S \cup ({None} \ {None}) = held \cup S /\ held' \cap S = {}
        /\ None \notin held' \cup S
    BY <1>0, <1>1, HandTypes DEF PlacesOK, HandInv, HandTypeOK
  <2>2. sec.st # "unpended" /\ UnpendFor(QueueQ, None)
    BY <1>0, <1>3 DEF Unlocked, CancelWait
  <2>3. HandInv(QueueQ)' /\ PlacesOK(S)' /\ NobodyJoins(QueueQ)
    BY <1>0, <1>1, <2>1, <2>2, UnpendForInv
  <2>4. sec'.st = "unpended"
    BY <2>2 DEF UnpendFor
  <2>5. QED
    BY <1>0, <1>2, <2>3, <2>4, QueueKeep
<1>4. CASE \E t \in Callers, forever \in Forevers : GetPend(t, forever)
  <2>1. HandInv(QueueQ)' /\ PlacesOK(S)'
    BY <1>0, <1>1, <1>4, PendForInv DEF GetPend
  <2>2. q.head = None /\ sec' = sec
    BY <1>4 DEF GetPend, PendFor
  <2>3. s = <<>>
    BY <2>2, HandTypes DEF QueueIs, IsList, Chain, At
  <2>4. QED
    BY <1>0, <1>2, <2>1, <2>2, <2>3, QueueKeep DEF Unlocked
<1>5. QED
  BY <1>3, <1>4

(* A blocked k_queue_get returns, maybe while somebody walks the list. *)
LEMMA GetReturnInv ==
  ASSUME ~SMP, NEW s, QueueIs(s), NEW t \in Callers, GetReturn(t)
  PROVE  QueueIs(s)'
<1>0. /\ QueueQ \in WaitQs /\ HandInv(QueueQ) /\ PlacesOK(Stored(s) \cup Rest)
      /\ t \in Threads /\ UNCHANGED <<lst, walk, sec>>
      /\ Unlocked /\ lst = NoList
  BY QueueAssumption, HandTypes
     DEF QueueIs, GetReturn, WaitReturn, Others, AppendListOK
<1>1. PICK S \in SUBSET Items : S = Stored(s) \cup Rest
  BY StoredAndRest
<1>2. (Stored(s) \cup Rest)' = S /\ Rest = {} /\ Rest' = {}
  BY <1>0, <1>1 DEF Rest
<1>3. HandInv(QueueQ)' /\ PlacesOK(S)' /\ NobodyJoins(QueueQ)
  BY <1>0, <1>1, WaitReturnInv DEF GetReturn
<1>4. PICK x \in Items \cup {None} : x = data[t]
  BY <1>0 DEF HandInv, HandTypeOK
<1>5. held' = held \/ (x \in Items /\ held' = held \cup {x} /\ q'.nxt[x] = None)
  BY <1>0, <1>4 DEF GetReturn, WaitReturn, QueueIs, QueueTypeOK, ListRecs
<1>6. /\ q' \in ListRecs /\ q'.head = q.head /\ q'.tail = q.tail
      /\ q'.wrapped = q.wrapped
      /\ \A y \in Items : q'.nxt[y] = q.nxt[y] \/ (y = x /\ q'.nxt[y] = None)
  <2>1. q \in ListRecs
    BY DEF QueueIs, QueueTypeOK
  <2>2. CASE swapRet[t] = "0" /\ x # None
    <3>1. PICK nx \in [Items -> Items \cup {None}] : nx = [q.nxt EXCEPT ![x] = None]
      BY <2>1 DEF ListRecs
    <3>2. q' = [head |-> q.head, tail |-> q.tail, nxt |-> nx, wrapped |-> q.wrapped]
      BY <1>4, <2>1, <2>2, <3>1 DEF GetReturn, ListRecs
    <3>3. \A y \in Items : nx[y] = IF y = x THEN None ELSE q.nxt[y]
      BY <2>1, <3>1 DEF ListRecs
    <3>4. q' \in ListRecs
      BY <2>1, <3>2 DEF ListRecs
    <3>5. QED
      BY <3>2, <3>3, <3>4
  <2>3. CASE ~(swapRet[t] = "0" /\ x # None)
    <3>1. q' = q
      BY <1>4, <2>3 DEF GetReturn
    <3>2. QED
      BY <2>1, <3>1
  <2>4. QED
    BY <2>2, <2>3
<1>7. ~In(s, x)
  BY <1>0, <1>4, HandTypes DEF PlacesOK, Stored, QueueIs, In
<1>8. IsList(q, s)'
  <2>1. \A i \in 1..Len(s) : s[i] \in Items /\ s[i] # x
    BY <1>7 DEF QueueIs, In
  <2>2. QED
    BY <1>6, <1>7, <2>1 DEF QueueIs, IsList, Chain
<1>9. QueueTypeOK' /\ AppendListOK(s)' /\ HeldOK'
  <2>1. QueueTypeOK'
    BY <1>0, <1>6 DEF QueueIs, QueueTypeOK
  <2>2. AppendListOK(s)'
    BY <1>0, <1>2 DEF QueueIs, AppendListOK, Unlocked
  <2>3. HeldOK'
    BY <1>0, <1>5, <1>6 DEF QueueIs, HeldOK, HandInv, HandTypeOK
  <2>4. QED
    BY <2>1, <2>2, <2>3
<1>10. WalkOK(s)'
  BY <1>0, <1>5, <1>6 DEF QueueIs, WalkOK, Unlocked
<1>11. s # <<>> => \A u \in Threads : pendedOn'[u] # QueueQ
  BY <1>3 DEF QueueIs, NobodyJoins
<1>12. QED
  BY <1>2, <1>3, <1>8, <1>9, <1>10, <1>11 DEF QueueIs

(* queue_insert finds somebody waiting. *)
LEMMA InsertHandOverInv ==
  ASSUME NEW s, QueueIs(s), NEW x \in held, InsertHandOver(x), walk' = NoWalk
  PROVE  QueueIs(s)'
<1>0. /\ QueueQ \in WaitQs /\ HandInv(QueueQ) /\ PlacesOK(Stored(s) \cup Rest)
      /\ Unlocked /\ lst = NoList /\ UNCHANGED <<q, lst>> /\ held' = held \ {x}
      /\ x \in Items /\ x # None
  BY QueueAssumption, HandTypes
     DEF QueueIs, InsertHandOver, AppendListOK, HandInv, HandTypeOK
<1>1. PICK S \in SUBSET Items : S = Stored(s) \cup Rest
  BY StoredAndRest
<1>2. (Stored(s) \cup Rest)' = S
  BY <1>0, <1>1 DEF Rest
<1>3. /\ held' \cup S \cup ({x} \ {None}) = held \cup S
      /\ held' \cap S = {} /\ x \notin held' \cup S
  BY <1>0, <1>1 DEF PlacesOK
<1>4. sec.st # "unpended" /\ UnpendFor(QueueQ, x)
  BY <1>0 DEF Unlocked, InsertHandOver
<1>5. HandInv(QueueQ)' /\ PlacesOK(S)' /\ NobodyJoins(QueueQ)
  BY <1>0, <1>1, <1>3, <1>4, UnpendForInv
<1>6. sec'.st = "unpended"
  BY <1>4 DEF UnpendFor
<1>7. NoWalk \in [op : {"none", "remove", "unique"}, item : OptItems,
                  prev : OptItems, at : OptItems]
  BY DEF NoWalk, OptItems
<1>8. QueueTypeOK' /\ IsList(q, s)' /\ HeldOK' /\ AppendListOK(s)' /\ WalkOK(s)'
  BY <1>0, <1>6, <1>7
     DEF QueueIs, QueueTypeOK, HeldOK, AppendListOK, Rest, WalkOK, Unlocked
<1>9. QED
  BY <1>2, <1>5, <1>8 DEF QueueIs, NobodyJoins

(* The list changes from s to r, the application's items the other way,    *)
(* and nobody waits or walks.                                              *)
LEMMA QueueMove ==
  ASSUME NEW s, QueueIs(s), NEW r \in Seq(Items), NoDup(r),
         q' \in ListRecs, IsList(q, r)', lst' = NoList, walk' = NoWalk,
         held' \cup Stored(r) = held \cup Stored(s) \cup Rest,
         held' \cap Stored(r) = {},
         \A x \in held' : q'.nxt[x] = None,
         sec' = sec \/ (sec.st # "unpended" /\ sec' = Free), sec'.st # "list",
         r # <<>> => \A t \in Threads : pendedOn[t] # QueueQ,
         UNCHANGED <<pendVars, wanting, data>>
  PROVE  QueueIs(r)'
<1>0. QueueQ \in WaitQs /\ HandInv(QueueQ) /\ PlacesOK(Stored(s) \cup Rest)
  BY QueueAssumption DEF QueueIs
<1>1. PICK S \in SUBSET Items : S = Stored(s) \cup Rest
  BY StoredAndRest
<1>2. PICK T \in SUBSET Items : T = Stored(r)
  BY DEF Stored
<1>3. HandInv(QueueQ)' /\ PlacesOK(T)' /\ NobodyJoins(QueueQ)
  BY <1>0, <1>1, <1>2, StoreInv
<1>4. (Stored(r) \cup Rest)' = T /\ Rest' = {}
  BY <1>2 DEF Rest
<1>5. QueueTypeOK'
  BY DEF QueueTypeOK, NoList, NoWalk, OptItems
<1>6. AppendListOK(r)' /\ HeldOK' /\ WalkOK(r)'
  BY <1>4 DEF AppendListOK, HeldOK, WalkOK
<1>7. QED
  BY <1>3, <1>4, <1>5, <1>6 DEF QueueIs, NobodyJoins


LEMMA HopsAlongList ==
  ASSUME NEW s \in Seq(Items), NoDup(s), IsList(q, s) PROVE Listed = Stored(s)
<1>0. s \in Seq(Items) /\ NoDup(s) /\ Chain(q, q.head, s) /\ None \notin Items
  BY HandTypes DEF IsList
<1>1. PICK N \in Nat : N = Cardinality(Items) + 1 /\ Len(s) <= N
  BY <1>0, NoDupBound
<1>2. Hops(q, q.head) = [i \in 1..N |-> At(s, i)]
  BY <1>0, <1>1, HopsFacts
<1>3. Listed = {At(s, i) : i \in 1..N} \ {None}
  BY <1>2 DEF Listed, Range
<1>4. {At(s, i) : i \in 1..N} \ {None} = Stored(s)
  BY <1>0, <1>1 DEF At, Stored, In
<1>5. QED
  BY <1>3, <1>4

LEMMA ListedIsStored ==
  ASSUME NEW s, QueueIs(s) PROVE Listed = Stored(s)
  BY HopsAlongList DEF QueueIs

LEMMA InsertStoreInv ==
  ASSUME NEW s, QueueIs(s), NEW x \in held, NEW k \in 1..(Len(s) + 1),
         NEW alloc \in BOOLEAN, InsertStore(x, At(s, k - 1), alloc), walk' = NoWalk
  PROVE  QueueInv'
<1>0. /\ s \in Seq(Items) /\ NoDup(s) /\ IsList(q, s) /\ q \in ListRecs
      /\ x \in Items /\ held \subseteq Items
      /\ lst = NoList /\ Rest = {} /\ PlacesOK(Stored(s) \cup Rest) /\ Unlocked
  BY DEF QueueIs, QueueTypeOK, HandInv, HandTypeOK, InsertStore, AppendListOK, Rest
<1>1. ~In(s, x) /\ q.nxt[x] = None
  BY <1>0 DEF PlacesOK, Stored, QueueIs, HeldOK
<1>2. PICK wr \in SUBSET Items :
        wr = IF alloc THEN q.wrapped \cup {x} ELSE q.wrapped \ {x}
  BY <1>0 DEF ListRecs
<1>3. PICK l : l = [q EXCEPT !.nxt[x] = None, !.wrapped = wr]
  OBVIOUS
<1>4. l \in ListRecs /\ l.head = q.head /\ l.tail = q.tail /\ l.nxt = q.nxt
  BY <1>0, <1>1, <1>2, <1>3 DEF ListRecs
<1>5. IsList(l, s)
  BY <1>0, <1>4 DEF IsList, Chain
<1>6. PICK r \in Seq(Items) : IsInsertion(r, s, x, k)
  BY <1>0, InsertAtIsInsertion
<1>7. NoDup(r) /\ \A y : In(r, y) <=> In(s, y) \/ y = x
  BY <1>0, <1>1, <1>6, InsertionFacts
<1>8. q' = Insert(l, At(s, k - 1), x)
  BY <1>2, <1>3 DEF InsertStore
<1>9. q' \in ListRecs /\ IsList(q', r) /\ \A y \in Items : ~In(r, y) => q'.nxt[y] = q.nxt[y]
  BY <1>0, <1>1, <1>4, <1>5, <1>6, <1>8, InsertIsInsertion
<1>10. held' = held \ {x} /\ UNCHANGED <<pendVars, sec, wanting, data, lst>>
  BY DEF InsertStore
<1>11. Stored(r) = Stored(s) \cup {x}
  BY <1>0, <1>7 DEF Stored
<1>12. held' \cup Stored(r) = held \cup Stored(s) \cup Rest /\ held' \cap Stored(r) = {}
  BY <1>0, <1>10, <1>11 DEF PlacesOK
<1>13. \A y \in held' : q'.nxt[y] = None
  <2>1. SUFFICES ASSUME NEW y \in held' PROVE q'.nxt[y] = None
    OBVIOUS
  <2>2. y \in held /\ y \in Items /\ y \notin Stored(r)
    BY <1>0, <1>10, <1>12, <2>1
  <2>3. ~In(r, y) /\ q.nxt[y] = None
    BY <2>2 DEF Stored, QueueIs, HeldOK
  <2>4. QED
    BY <1>9, <2>2, <2>3
<1>14. \A t \in Threads : pendedOn[t] # QueueQ
  BY HandTypes, QueueAssumption
     DEF InsertStore, QueueIs, HandInv, PendInv, QueueMatchesState
<1>15. sec'.st # "list" /\ sec' = sec
  BY <1>0, <1>10 DEF Unlocked
<1>16. IsList(q, r)'
  BY <1>9 DEF IsList, Chain
<1>17. QueueIs(r)'
  BY <1>0, <1>7, <1>9, <1>10, <1>12, <1>13, <1>14, <1>15, <1>16, QueueMove
<1>18. QED
  BY <1>17 DEF QueueInv

LEMMA QueueInsertInv ==
  ASSUME WalkAlone, NEW s, QueueIs(s), NEW x \in held,
         NEW prev \in Items \cup {None}, NEW alloc \in BOOLEAN,
         QueueInsert(x, prev, alloc)
  PROVE  QueueInv'
<1>0. s \in Seq(Items) /\ Len(s) \in Nat /\ walk' = NoWalk
  BY DEF QueueIs, QueueInsert, Undisturbed
<1>1. CASE InsertHandOver(x)
  BY <1>0, <1>1, InsertHandOverInv DEF QueueInv
<1>2. CASE InsertStore(x, prev, alloc)
  <2>1. PICK k \in 1..(Len(s) + 1) : prev = At(s, k - 1)
    <3>1. CASE prev = None
      <4>1. 1 \in 1..(Len(s) + 1) /\ None = At(s, 1 - 1)
        BY <1>0 DEF At
      <4>2. QED
        BY <3>1, <4>1
    <3>2. CASE prev = q.tail
      <4>1. Len(s) + 1 \in 1..(Len(s) + 1) /\ q.tail = At(s, (Len(s) + 1) - 1)
        BY <1>0 DEF QueueIs, IsList
      <4>2. QED
        BY <3>2, <4>1
    <3>3. CASE prev \in Listed
      <4>1. PICK j \in 1..Len(s) : s[j] = prev
        BY <3>3, ListedIsStored DEF Stored, In
      <4>2. j + 1 \in 1..(Len(s) + 1) /\ prev = At(s, (j + 1) - 1)
        BY <1>0, <4>1 DEF At
      <4>3. QED
        BY <4>2
    <3>4. QED
      BY <3>1, <3>2, <3>3 DEF QueueInsert
  <2>2. QED
    BY <1>0, <1>2, <2>1, InsertStoreInv
<1>3. QED
  BY <1>1, <1>2 DEF QueueInsert

(* k_queue_get with an item, and a k_queue_remove that has found it *)
LEMMA QueueTakeInv ==
  ASSUME NEW s, QueueIs(s), Unlocked, NEW k \in 1..Len(s), NEW wr \in SUBSET Items,
         q' = [RemoveNode(q, At(s, k - 1), s[k]) EXCEPT !.wrapped = wr],
         held' = held \cup {s[k]}, walk' = NoWalk,
         UNCHANGED <<pendVars, sec, wanting, data, lst>>
  PROVE  QueueInv'
<1>0. /\ s \in Seq(Items) /\ NoDup(s) /\ IsList(q, s) /\ q \in ListRecs
      /\ held \subseteq Items
      /\ lst = NoList /\ Rest = {} /\ PlacesOK(Stored(s) \cup Rest)
  BY DEF QueueIs, QueueTypeOK, HandInv, HandTypeOK, AppendListOK, Rest
<1>1. PICK x \in Items : x = s[k]
  BY <1>0
<1>2. PICK r \in Seq(Items) : IsRemoval(r, s, x, k)
  BY <1>0, <1>1, RemoveAtIsRemoval
<1>3. NoDup(r) /\ \A y : In(r, y) <=> In(s, y) /\ y # x
  BY <1>0, <1>2, RemovalFacts
<1>4. PICK m : m = RemoveNode(q, At(s, k - 1), x)
  OBVIOUS
<1>5. /\ m \in ListRecs /\ IsList(m, r) /\ m.nxt[x] = None
      /\ \A y \in Items : ~In(s, y) => m.nxt[y] = q.nxt[y]
  BY <1>0, <1>2, <1>4, RemoveNodeIsRemoval
<1>6. q' \in ListRecs /\ q'.head = m.head /\ q'.tail = m.tail /\ q'.nxt = m.nxt
  BY <1>1, <1>4, <1>5 DEF ListRecs
<1>7. IsList(q, r)'
  BY <1>5, <1>6 DEF IsList, Chain
<1>8. In(s, x)
  BY <1>1 DEF In
<1>9. Stored(r) = Stored(s) \ {x} /\ x \in Stored(s)
  BY <1>3, <1>8 DEF Stored
<1>10. held' \cup Stored(r) = held \cup Stored(s) \cup Rest /\ held' \cap Stored(r) = {}
  BY <1>0, <1>1, <1>9 DEF PlacesOK
<1>11. \A y \in held' : q'.nxt[y] = None
  <2>1. SUFFICES ASSUME NEW y \in held, y # x PROVE q'.nxt[y] = None
    BY <1>1, <1>5, <1>6
  <2>2. y \in Items /\ ~In(s, y) /\ q.nxt[y] = None
    BY <1>0, <2>1 DEF PlacesOK, Stored, QueueIs, HeldOK
  <2>3. QED
    BY <1>5, <1>6, <2>2
<1>12. \A t \in Threads : pendedOn[t] # QueueQ
  <2>1. s # <<>>
    BY <1>0
  <2>2. QED
    BY <2>1 DEF QueueIs
<1>13. QueueIs(r)'
  BY <1>0, <1>3, <1>6, <1>7, <1>10, <1>11, <1>12, QueueMove DEF Unlocked
<1>14. QED
  BY <1>13 DEF QueueInv

LEMMA GetItemInv ==
  ASSUME WalkAlone, NEW s, QueueIs(s), GetItem
  PROVE  QueueInv'
<1>0. s \in Seq(Items) /\ Len(s) \in Nat /\ walk = NoWalk /\ q \in ListRecs
  BY DEF QueueIs, GetItem, Undisturbed, QueueTypeOK
<1>1. 1 \in 1..Len(s) /\ q.head = s[1] /\ At(s, 1 - 1) = None
  BY <1>0 DEF QueueIs, IsList, Chain, At, GetItem
<1>2. PICK wr \in SUBSET Items : wr = RemoveNode(q, None, q.head).wrapped \ {q.head}
  <2>1. RemoveNode(q, None, q.head).wrapped = q.wrapped
    BY <1>0 DEF RemoveNode, ListRecs
  <2>2. q.wrapped \ {q.head} \in SUBSET Items
    BY <1>0 DEF ListRecs
  <2>3. QED
    BY <2>1, <2>2
<1>3. q' = [RemoveNode(q, At(s, 1 - 1), s[1]) EXCEPT !.wrapped = wr]
  BY <1>1, <1>2 DEF GetItem
<1>4. QED
  BY <1>0, <1>1, <1>3, QueueTakeInv DEF GetItem


(* k_queue_append_list: its first turn, *)
LEMMA AppendListStartInv ==
  ASSUME WalkAlone, NEW s, QueueIs(s), NEW x \in held, NEW y \in held,
         AppendListStart(x, y)
  PROVE  QueueInv'
<1>0. /\ s \in Seq(Items) /\ NoDup(s) /\ IsList(q, s) /\ q \in ListRecs
      /\ x \in Items /\ y \in Items /\ held \subseteq Items /\ None \notin Items
      /\ HandInv(QueueQ) /\ QueueQ \in WaitQs
      /\ lst = NoList /\ Rest = {} /\ PlacesOK(Stored(s) \cup Rest)
      /\ Unlocked /\ walk' = NoWalk /\ held' = held \ {x, y}
  BY HandTypes, QueueAssumption
     DEF QueueIs, QueueTypeOK, HandInv, HandTypeOK, AppendListOK, Rest,
         AppendListStart, Undisturbed
<1>1. ~In(s, x) /\ ~In(s, y) /\ q.nxt[x] = None /\ q.nxt[y] = None
  BY <1>0 DEF PlacesOK, Stored, QueueIs, HeldOK
<1>2. PICK l : l = [q EXCEPT !.nxt[x] = IF y = x THEN None ELSE y,
                             !.wrapped = @ \ {x, y}]
  OBVIOUS
<1>3. /\ l \in ListRecs /\ l.head = q.head /\ l.tail = q.tail
      /\ l.nxt[x] = (IF y = x THEN None ELSE y)
      /\ \A z \in Items : z # x => l.nxt[z] = q.nxt[z]
  BY <1>0, <1>2 DEF ListRecs
<1>4. IsList(l, s)
  <2>1. \A i \in 1..Len(s) : s[i] \in Items /\ s[i] # x
    BY <1>0, <1>1 DEF In
  <2>2. QED
    BY <1>0, <1>3, <2>1 DEF IsList, Chain
<1>5. l.nxt[y] = None
  BY <1>0, <1>1, <1>3
<1>6. \A z \in held' : l.nxt[z] = None
  BY <1>0, <1>3 DEF QueueIs, HeldOK
<1>7. CASE q' = l /\ ListHandOver(x, y)
  <2>1. UnpendFor(QueueQ, x) /\ lst' = [at |-> x, tail |-> y] /\ sec'.st = "unpended"
    BY <1>7 DEF ListHandOver, UnpendFor
  <2>2. lst'.at = x /\ lst'.tail = y /\ lst' # NoList
    BY <1>0, <2>1 DEF NoList
  <2>3. Rest' = {y} \ {x}
    BY <1>0, <1>3, <1>7, <2>2 DEF Rest
  <2>4. PICK S \in SUBSET Items : S = Stored(s) \cup Rest
    BY StoredAndRest
  <2>5. PICK T \in SUBSET Items : T = Stored(s) \cup ({y} \ {x})
    BY <1>0 DEF Stored
  <2>6. /\ held' \cup T \cup ({x} \ {None}) = held \cup S
        /\ held' \cap T = {} /\ x \notin held' \cup T
    BY <1>0, <2>4, <2>5 DEF PlacesOK
  <2>7. HandInv(QueueQ)' /\ PlacesOK(T)' /\ NobodyJoins(QueueQ)
    BY <1>0, <2>1, <2>4, <2>6, UnpendForInv DEF Unlocked
  <2>8. (Stored(s) \cup Rest)' = T
    BY <2>3, <2>5
  <2>9. QueueTypeOK'
    BY <1>0, <1>3, <1>7, <2>1 DEF QueueTypeOK, NoWalk, OptItems
  <2>10. AppendListOK(s)'
    <3>1. Rest' \cap Stored(s) = {}
      BY <1>1, <2>3 DEF Stored
    <3>2. \A z \in Rest' : lst'.tail = z /\ q'.nxt[z] = None
      BY <1>5, <1>7, <2>2, <2>3
    <3>3. QED
      BY <1>0, <2>1, <2>2, <3>1, <3>2 DEF AppendListOK, Unlocked
  <2>11. HeldOK' /\ WalkOK(s)' /\ IsList(q, s)'
    BY <1>0, <1>4, <1>6, <1>7 DEF HeldOK, WalkOK, IsList, Chain
  <2>12. QueueIs(s)'
    BY <1>0, <2>7, <2>8, <2>9, <2>10, <2>11 DEF QueueIs, NobodyJoins
  <2>13. QED
    BY <2>12 DEF QueueInv
<1>8. CASE waitq[QueueQ] = <<>> /\ ListStore(l, x, y)
  <2>1. PICK r \in Seq(Items) :
          /\ q' \in ListRecs /\ IsList(q', r) /\ NoDup(r)
          /\ \A z : In(r, z) <=> In(s, z) \/ z = x \/ z = y
          /\ \A z \in Items : ~In(s, z) => q'.nxt[z] = l.nxt[z]
    <3>1. /\ q' = AppendList(l, x, y) /\ l \in ListRecs /\ IsList(l, s)
          /\ l.nxt[x] = (IF y = x THEN None ELSE y) /\ l.nxt[y] = None
          /\ s \in Seq(Items) /\ NoDup(s) /\ ~In(s, x) /\ ~In(s, y)
          /\ x \in Items /\ y \in Items
      BY <1>0, <1>1, <1>3, <1>4, <1>5, <1>8 DEF ListStore
    <3>2. PICK r \in Seq(Items) :
            /\ AppendList(l, x, y) \in ListRecs /\ IsList(AppendList(l, x, y), r)
            /\ NoDup(r) /\ \A z : In(r, z) <=> In(s, z) \/ z = x \/ z = y
            /\ \A z \in Items : ~In(s, z) => AppendList(l, x, y).nxt[z] = l.nxt[z]
      BY <3>1, AppendListIsAppend
    <3>3. QED
      BY <3>1, <3>2
  <2>2. Stored(r) = Stored(s) \cup {x, y}
    BY <1>0, <2>1 DEF Stored
  <2>3. held' \cup Stored(r) = held \cup Stored(s) \cup Rest /\ held' \cap Stored(r) = {}
    BY <1>0, <2>2 DEF PlacesOK
  <2>4. \A z \in held' : q'.nxt[z] = None
    <3>1. \A z \in held' : z \in Items /\ ~In(s, z)
      BY <1>0 DEF PlacesOK, Stored
    <3>2. QED
      BY <1>6, <2>1, <3>1
  <2>5. \A t \in Threads : pendedOn[t] # QueueQ
    BY <1>0, <1>8, HandTypes DEF HandInv, PendInv, QueueMatchesState
  <2>6. /\ UNCHANGED <<pendVars, wanting, data>> /\ lst' = NoList
        /\ sec' = Free /\ sec'.st # "list" /\ sec.st # "unpended"
    BY <1>0, <1>8 DEF ListStore, Free, Unlocked
  <2>7. IsList(q, r)'
    BY <2>1 DEF IsList, Chain
  <2>8. QueueIs(r)'
    BY <1>0, <2>1, <2>3, <2>4, <2>5, <2>6, <2>7, QueueMove
  <2>9. QED
    BY <2>8 DEF QueueInv
<1>9. QED
  BY <1>2, <1>7, <1>8 DEF AppendListStart

(* and the others. *)
LEMMA AppendListNextInv ==
  ASSUME NEW s, QueueIs(s), AppendListNext
  PROVE  QueueInv'
<1>0. /\ s \in Seq(Items) /\ NoDup(s) /\ IsList(q, s) /\ q \in ListRecs
      /\ None \notin Items /\ held \subseteq Items
      /\ HandInv(QueueQ) /\ QueueQ \in WaitQs
      /\ sec.st = "list" /\ lst # NoList /\ lst.at \in Items
      /\ PlacesOK(Stored(s) \cup Rest) /\ UNCHANGED <<held, walk>>
  BY HandTypes, QueueAssumption
     DEF QueueIs, QueueTypeOK, HandInv, HandTypeOK, AppendListOK, AppendListNext
<1>1. walk = NoWalk
  BY <1>0 DEF QueueIs, WalkOK, Unlocked
<1>2. PICK y \in Items \cup {None} : y = q.nxt[lst.at]
  BY <1>0 DEF ListRecs
<1>3. Rest = {y} \ {None}
  BY <1>0, <1>2 DEF Rest
<1>4. y # None => y \in Items /\ lst.tail = y /\ q.nxt[y] = None /\ ~In(s, y)
  BY <1>2, <1>3 DEF QueueIs, AppendListOK, Stored
<1>5. CASE /\ y = None /\ sec' = Free /\ lst' = NoList
           /\ UNCHANGED <<pendVars, wanting, data, q>>
  <2>1. /\ held' \cup Stored(s) = held \cup Stored(s) \cup Rest
        /\ held' \cap Stored(s) = {}
    BY <1>0, <1>3, <1>5 DEF PlacesOK
  <2>2. /\ sec'.st # "list" /\ sec.st # "unpended"
        /\ \A x \in held' : q'.nxt[x] = None
        /\ s # <<>> => \A t \in Threads : pendedOn[t] # QueueQ
    BY <1>0, <1>5 DEF Free, QueueIs, HeldOK
  <2>3. IsList(q, s)' /\ q' \in ListRecs /\ walk' = NoWalk
    BY <1>0, <1>1, <1>5 DEF IsList, Chain
  <2>4. QueueIs(s)'
    BY <1>0, <1>5, <2>1, <2>2, <2>3, QueueMove
  <2>5. QED
    BY <2>4 DEF QueueInv
<1>6. CASE y # None /\ ListHandOver(y, lst.tail) /\ UNCHANGED q
  <2>1. UnpendFor(QueueQ, y) /\ lst' = [at |-> y, tail |-> y] /\ sec'.st = "unpended"
    BY <1>4, <1>6 DEF ListHandOver, UnpendFor
  <2>2. Rest' = {} /\ lst' # NoList
    BY <1>4, <1>6, <2>1, <1>0 DEF Rest, NoList
  <2>3. PICK S \in SUBSET Items : S = Stored(s) \cup Rest
    BY StoredAndRest
  <2>4. PICK T \in SUBSET Items : T = Stored(s)
    BY DEF Stored
  <2>5. /\ held' \cup T \cup ({y} \ {None}) = held \cup S
        /\ held' \cap T = {} /\ y \notin held' \cup T
    BY <1>0, <1>3, <1>4, <1>6, <2>3, <2>4 DEF PlacesOK, Stored
  <2>6. HandInv(QueueQ)' /\ PlacesOK(T)' /\ NobodyJoins(QueueQ)
    BY <1>0, <2>1, <2>3, <2>5, UnpendForInv
  <2>7. (Stored(s) \cup Rest)' = T
    BY <2>2, <2>4
  <2>8. QueueTypeOK'
    BY <1>0, <1>1, <1>4, <1>6, <2>1 DEF QueueTypeOK, NoWalk, OptItems
  <2>9. AppendListOK(s)' /\ HeldOK' /\ WalkOK(s)' /\ IsList(q, s)'
    BY <1>0, <1>1, <1>4, <1>6, <2>1, <2>2
       DEF AppendListOK, QueueIs, HeldOK, WalkOK, IsList, Chain, Unlocked
  <2>10. QueueIs(s)'
    BY <1>0, <2>6, <2>7, <2>8, <2>9 DEF QueueIs, NobodyJoins
  <2>11. QED
    BY <2>10 DEF QueueInv
<1>7. CASE y # None /\ waitq[QueueQ] = <<>> /\ ListStore(q, y, lst.tail)
  <2>1. y \in Items /\ q.nxt[y] = None /\ q' = AppendList(q, y, y)
    BY <1>4, <1>7 DEF ListStore
  <2>2. PICK r \in Seq(Items) :
          /\ q' \in ListRecs /\ IsList(q', r) /\ NoDup(r)
          /\ \A z : In(r, z) <=> In(s, z) \/ z = y
          /\ \A z \in Items : ~In(s, z) => q'.nxt[z] = q.nxt[z]
    BY <1>0, <1>4, <1>7, <2>1, AppendListIsAppend
  <2>3. Stored(r) = Stored(s) \cup {y}
    BY <1>4, <1>7, <2>2 DEF Stored
  <2>4. /\ held' \cup Stored(r) = held \cup Stored(s) \cup Rest
        /\ held' \cap Stored(r) = {}
    BY <1>0, <1>3, <1>7, <2>3 DEF PlacesOK
  <2>5. \A z \in held' : q'.nxt[z] = None
    <3>1. \A z \in held : z \in Items /\ ~In(s, z) /\ q.nxt[z] = None
      BY <1>0 DEF PlacesOK, Stored, QueueIs, HeldOK
    <3>2. QED
      BY <1>0, <2>2, <3>1
  <2>6. \A t \in Threads : pendedOn[t] # QueueQ
    BY <1>0, <1>7, HandTypes DEF HandInv, PendInv, QueueMatchesState
  <2>7. /\ UNCHANGED <<pendVars, wanting, data>> /\ lst' = NoList
        /\ sec' = Free /\ sec'.st # "list" /\ sec.st # "unpended"
    BY <1>0, <1>7 DEF ListStore, Free
  <2>8. IsList(q, r)'
    BY <2>2 DEF IsList, Chain
  <2>9. QueueIs(r)'
    BY <1>0, <1>1, <2>2, <2>4, <2>5, <2>6, <2>7, <2>8, QueueMove
  <2>10. QED
    BY <2>9 DEF QueueInv
<1>8. CASE /\ y = None /\ UnpendFirst(QueueQ) /\ sec' = Free /\ lst' = NoList
           /\ UNCHANGED <<wanting, data, q>>
  <2>0. /\ PendInv /\ HandTypeOK /\ HandOK(QueueQ) /\ PendTypeOK /\ QueueMatchesState
        /\ Rest = {} /\ Rest' = {}
    BY <1>0, <1>3, <1>8 DEF HandInv, PendInv, Rest
  <2>1. PICK t \in Threads : t = Head(waitq[QueueQ]) /\ pendedOn[t] = QueueQ
    BY <1>0, <1>8, <2>0, HeadFacts DEF UnpendFirst
  <2>2. PendInv' /\ pendedOn' = [pendedOn EXCEPT ![t] = None] /\ swapRet' = swapRet
    BY <1>0, <1>8, <2>0, <2>1, UnpendFirstInv DEF UnpendFirst
  <2>3. pendedOn'[t] = None /\ \A u \in Threads : u # t => pendedOn'[u] = pendedOn[u]
    BY <2>0, <2>2 DEF PendTypeOK
  <2>4. sec'.st = "free" /\ sec'.item = None /\ sec.item = None
    BY <1>0, <1>8, <2>0 DEF Free, HandOK
  <2>5. HandTypeOK'
    BY <1>0, <1>8, <2>0 DEF HandTypeOK, Free
  <2>6. HandOK(QueueQ)' /\ NobodyJoins(QueueQ)
    BY <1>0, <1>8, <2>0, <2>2, <2>3, <2>4, HandTypes DEF HandOK, NobodyJoins
  <2>7. PlacesOK(Stored(s) \cup Rest)'
    BY <1>0, <1>8, <2>0, <2>4 DEF PlacesOK
  <2>8. QueueTypeOK' /\ AppendListOK(s)' /\ HeldOK' /\ WalkOK(s)' /\ IsList(q, s)'
    BY <1>0, <1>1, <1>8, <2>0, <2>4
       DEF QueueIs, QueueTypeOK, AppendListOK, HeldOK, WalkOK, IsList, Chain, NoList,
           NoWalk, OptItems
  <2>9. s # <<>> => \A u \in Threads : pendedOn'[u] # QueueQ
    BY <2>6 DEF QueueIs, NobodyJoins
  <2>10. QueueIs(s)'
    BY <1>0, <2>2, <2>5, <2>6, <2>7, <2>8, <2>9 DEF QueueIs, HandInv
  <2>11. QED
    BY <2>10 DEF QueueInv
<1>9. QED
  BY <1>2, <1>5, <1>6, <1>7, <1>8 DEF AppendListNext


(* Walks *)
LEMMA WalkStepInv ==
  ASSUME ~SMP, NEW s, QueueIs(s),
         \/ \E x \in Items \ q.wrapped : WalkStart("remove", x)
         \/ \E x \in (held \cup Listed) \ q.wrapped : WalkStart("unique", x)
         \/ WalkHop \/ UniqueFound \/ RemoveMissing
  PROVE  QueueIs(s)'
<1>0. /\ s \in Seq(Items) /\ Len(s) \in Nat /\ IsList(q, s) /\ q \in ListRecs
      /\ None \notin Items /\ held \subseteq Items /\ WalkOK(s)
      /\ Unlocked /\ UNCHANGED <<pendVars, handVars, q, lst>>
  BY HandTypes
     DEF QueueIs, QueueTypeOK, HandInv, HandTypeOK, WalkStart, WalkHop, UniqueFound,
         RemoveMissing, Others
<1>1. ASSUME WalkOK(s)', walk' \in [op : {"none", "remove", "unique"},
                        item : OptItems, prev : OptItems, at : OptItems]
      PROVE  QueueIs(s)'
  <2>1. UNCHANGED <<sec, held, pendedOn, wanting, data, swapRet>>
    BY <1>0 DEF handVars, pendVars
  <2>2. PICK S : S = Stored(s) \cup Rest
    OBVIOUS
  <2>3. (Stored(s) \cup Rest)' = S /\ PlacesOK(S)'
    BY <1>0, <2>1, <2>2 DEF Rest, QueueIs, PlacesOK
  <2>4. HandInv(QueueQ)'
    <3>1. PendInv'
      BY <1>0, PendStutterInv DEF QueueIs, HandInv
    <3>2. QED
      BY <2>1, <3>1 DEF QueueIs, HandInv, HandTypeOK, HandOK
  <2>5. QueueTypeOK' /\ AppendListOK(s)' /\ HeldOK' /\ IsList(q, s)'
    BY <1>0, <1>1, <2>1
       DEF QueueIs, QueueTypeOK, AppendListOK, HeldOK, Rest, Unlocked
  <2>6. QED
    BY <1>1, <2>1, <2>3, <2>4, <2>5 DEF QueueIs
<1>2. CASE UniqueFound \/ RemoveMissing
  <2>1. walk' = NoWalk
    BY <1>2 DEF UniqueFound, RemoveMissing
  <2>2. QED
    BY <1>1, <2>1 DEF WalkOK, NoWalk, OptItems
<1>3. CASE \/ \E x \in Items \ q.wrapped : WalkStart("remove", x)
           \/ \E x \in (held \cup Listed) \ q.wrapped : WalkStart("unique", x)
  <2>1. PICK x \in Items \ q.wrapped, op \in {"remove", "unique"} :
          /\ op = "unique" => x \in held \cup Stored(s)
          /\ WalkStart(op, x)
    BY <1>0, <1>3, ListedIsStored DEF Stored
  <2>2. walk' = [op |-> op, item |-> x, prev |-> None, at |-> q.head]
    BY <2>1 DEF WalkStart
  <2>3. walk' \in [op : {"none", "remove", "unique"}, item : OptItems,
                   prev : OptItems, at : OptItems]
    BY <1>0, <2>1, <2>2 DEF OptItems, ListRecs
  <2>4. /\ 1 \in 1..(Len(s) + 1) /\ walk'.at = At(s, 1) /\ walk'.prev = At(s, 1 - 1)
        /\ \A j \in 1..(1 - 1) : s[j] # walk'.item
    BY <1>0, <2>2 DEF IsList, Chain, At
  <2>5. WalkOK(s)'
    BY <1>0, <2>1, <2>2, <2>4 DEF WalkOK, Unlocked, handVars
  <2>6. QED
    BY <1>1, <2>3, <2>5
<1>4. CASE WalkHop
  <2>1. walk # NoWalk /\ walk.at # None /\ ~AtItem
    BY <1>4 DEF WalkHop, NoWalk
  <2>2. PICK k \in 1..(Len(s) + 1) :
          /\ walk.at = At(s, k) /\ walk.prev = At(s, k - 1)
          /\ \A j \in 1..(k - 1) : s[j] # walk.item
    BY <1>0, <2>1 DEF WalkOK
  <2>3. k \in 1..Len(s) /\ walk.at = s[k] /\ walk.at \in Items
    BY <1>0, <2>1, <2>2 DEF At
  <2>4. walk.item \in Items \ q.wrapped /\ s[k] # walk.item
    BY <1>0, <2>1, <2>3 DEF WalkOK, AtItem
  <2>5. /\ walk' = [walk EXCEPT !.prev = walk.at, !.at = q.nxt[walk.at]]
        /\ q.nxt[walk.at] = At(s, k + 1) /\ q.nxt[walk.at] \in OptItems
    BY <1>0, <1>4, <2>3 DEF WalkHop, IsList, Chain, ListRecs, OptItems
  <2>6. /\ walk' \in [op : {"none", "remove", "unique"}, item : OptItems,
                      prev : OptItems, at : OptItems]
        /\ walk'.op = walk.op /\ walk'.item = walk.item
        /\ walk'.prev = s[k] /\ walk'.at = At(s, k + 1)
    BY <2>3, <2>5 DEF QueueIs, QueueTypeOK, OptItems
  <2>7. /\ k + 1 \in 1..(Len(s) + 1) /\ walk'.prev = At(s, (k + 1) - 1)
        /\ \A j \in 1..((k + 1) - 1) : s[j] # walk.item
    <3>1. k \in Nat /\ (k + 1) - 1 = k /\ k + 1 \in 1..(Len(s) + 1)
      BY <1>0, <2>3
    <3>2. \A j \in 1..k : j \in 1..(k - 1) \/ j = k
      BY <3>1
    <3>3. \A j \in 1..k : s[j] # walk.item
      BY <2>2, <2>4, <3>2
    <3>4. QED
      BY <2>3, <2>6, <3>1, <3>3 DEF At
  <2>8. WalkOK(s)'
    <3>1. walk'.op = "unique" => walk'.item \in held' \cup Stored(s)
      BY <1>0, <2>1, <2>6 DEF WalkOK, handVars
    <3>2. walk'.item \in Items \ q'.wrapped /\ Unlocked'
      BY <1>0, <2>4, <2>6 DEF Unlocked, handVars
    <3>3. \E i \in 1..(Len(s) + 1) :
            /\ walk'.at = At(s, i) /\ walk'.prev = At(s, i - 1)
            /\ \A j \in 1..(i - 1) : s[j] # walk'.item
      BY <2>6, <2>7
    <3>4. QED
      BY <3>1, <3>2, <3>3 DEF WalkOK
  <2>9. QED
    BY <1>1, <2>6, <2>8
<1>5. QED
  BY <1>2, <1>3, <1>4

LEMMA WalkEndInv ==
  ASSUME ~SMP, NEW s, QueueIs(s), RemoveFound \/ UniqueAppend
  PROVE  QueueInv'
<1>0. /\ s \in Seq(Items) /\ Len(s) \in Nat /\ IsList(q, s) /\ q \in ListRecs
      /\ NoDup(s) /\ None \notin Items /\ WalkOK(s) /\ walk' = NoWalk
  <2>1. walk' = NoWalk
    BY Zenon DEF RemoveFound, UniqueAppend
  <2>2. QED
    BY <2>1, HandTypes DEF QueueIs, QueueTypeOK
<1>1. walk # NoWalk
  <2>1. walk.op \in {"remove", "unique"}
    BY Zenon DEF RemoveFound, UniqueAppend
  <2>2. QED
    BY <2>1 DEF NoWalk
<1>2. PICK k \in 1..(Len(s) + 1) :
        /\ walk.at = At(s, k) /\ walk.prev = At(s, k - 1)
        /\ \A j \in 1..(k - 1) : s[j] # walk.item
  BY <1>0, <1>1 DEF WalkOK
<1>3. Unlocked /\ walk.item \in Items
  BY <1>0, <1>1 DEF WalkOK
<1>4. CASE RemoveFound
  <2>1. k \in 1..Len(s) /\ walk.item = s[k]
    BY <1>0, <1>2, <1>3, <1>4 DEF RemoveFound, AtItem, At
  <2>2. PICK r \in Seq(Items) : IsRemoval(r, s, s[k], k)
    BY <1>0, <2>1, RemoveAtIsRemoval
  <2>3. PICK m : m = RemoveNode(q, At(s, k - 1), s[k])
    OBVIOUS
  <2>4. m \in ListRecs /\ m.wrapped = q.wrapped
    BY <1>0, <2>1, <2>2, <2>3, RemoveNodeIsRemoval
  <2>5. q' = [m EXCEPT !.wrapped = q.wrapped]
    <3>1. q' = m
      BY <1>2, <1>4, <2>1, <2>3 DEF RemoveFound
    <3>2. QED
      BY <2>4, <3>1 DEF ListRecs
  <2>6. q.wrapped \in SUBSET Items
    BY <1>0 DEF ListRecs
  <2>7. held' = held \cup {s[k]} /\ UNCHANGED <<pendVars, sec, wanting, data, lst>>
    BY <1>4, <2>1 DEF RemoveFound
  <2>8. QED
    BY <1>0, <1>3, <2>1, <2>3, <2>5, <2>6, <2>7, QueueTakeInv
<1>5. CASE UniqueAppend
  <2>1. k = Len(s) + 1
    BY <1>0, <1>2, <1>5 DEF UniqueAppend, At
  <2>2. walk.item \in held
    <3>1. ~In(s, walk.item)
      BY <1>0, <1>2, <2>1 DEF In
    <3>2. QED
      BY <1>0, <1>1, <1>5, <3>1 DEF UniqueAppend, WalkOK, Stored
  <2>3. CASE InsertHandOver(walk.item)
    BY <1>0, <2>2, <2>3, InsertHandOverInv DEF QueueInv
  <2>4. CASE InsertStore(walk.item, q.tail, FALSE)
    <3>1. q.tail = At(s, k - 1)
      BY <1>0, <2>1 DEF IsList
    <3>2. QED
      BY <1>0, <2>2, <2>4, <3>1, InsertStoreInv
  <2>5. QED
    BY <1>5, <2>3, <2>4 DEF UniqueAppend
<1>6. QED
  BY <1>4, <1>5

LEMMA QueueNextInv ==
  ASSUME ~SMP, WalkAlone, QueueInv, QueueNext
  PROVE  QueueInv'
<1>0. PICK s : QueueIs(s)
  BY DEF QueueInv
<1>1. CASE \E x \in held, prev \in Items \cup {None}, alloc \in BOOLEAN :
             QueueInsert(x, prev, alloc)
  BY <1>0, <1>1, QueueInsertInv
<1>2. CASE CancelWait \/ \E t \in Callers, forever \in Forevers : GetPend(t, forever)
  BY <1>0, <1>2, QueueWaitInv DEF QueueInv
<1>3. CASE GetItem
  BY <1>0, <1>3, GetItemInv
<1>4. CASE \E x, y \in held : AppendListStart(x, y)
  BY <1>0, <1>4, AppendListStartInv
<1>5. CASE AppendListNext
  BY <1>0, <1>5, AppendListNextInv
<1>6. CASE \/ StoreData /\ UNCHANGED <<q, lst, walk>>
           \/ ReadyReceiver
           \/ HEnvironment /\ UNCHANGED <<q, lst, walk>>
           \/ \E t \in Victims : HAbort(t) /\ UNCHANGED <<q, lst, walk>>
  BY <1>0, <1>6, QueueHandStep DEF QueueInv, ReadyReceiver
<1>7. CASE \E t \in Callers : GetReturn(t)
  BY <1>0, <1>7, GetReturnInv DEF QueueInv
<1>8. CASE \/ \E x \in Items \ q.wrapped : WalkStart("remove", x)
           \/ \E x \in (held \cup Listed) \ q.wrapped : WalkStart("unique", x)
           \/ WalkHop \/ UniqueFound \/ RemoveMissing
  BY <1>0, <1>8, WalkStepInv DEF QueueInv
<1>9. CASE RemoveFound \/ UniqueAppend
  BY <1>0, <1>9, WalkEndInv
<1>10. QED
  BY <1>1, <1>2, <1>3, <1>4, <1>5, <1>6, <1>7, <1>8, <1>9 DEF QueueNext

(* With lists that cover the threads that wait, nobody waits any more when *)
(* k_queue_append_list has handed out its last item.                       *)
QueueStrandOK ==
  /\ StrandOK(QueueQ)
  /\ lst # NoList =>
       IF q.nxt[lst.at] = None THEN waitq[QueueQ] = <<>> ELSE Len(waitq[QueueQ]) <= 1

LEMMA QueueStrandFree ==
  ASSUME ~SMP, QueueInv, StrandOK(QueueQ), lst' = NoList,
         \/ sec.st \in {"free", "list"} /\ \E x \in Items \cup {None} : UnpendFor(QueueQ, x)
         \/ \E t \in Callers, f \in Forevers : PendFor(t, QueueQ, f)
         \/ \E t \in Callers : WaitReturn(t)
         \/ HEnvironment \/ \E t \in Victims : HAbort(t)
         \/ /\ UNCHANGED <<pendVars, wanting>>
            /\ sec' = sec \/ (sec.st \in {"free", "list"} /\ sec' = Free)
  PROVE  QueueStrandOK'
<1>1. HandInv(QueueQ) /\ QueueQ \in WaitQs
  BY QueueAssumption DEF QueueInv, QueueIs
<1>2. StrandOK(QueueQ)'
  BY <1>1, StrandStep
<1>3. QED
  BY <1>2 DEF QueueStrandOK

LEMMA QueueStrand ==
  ASSUME ~SMP, WalkAlone, ListsCover, QueueInv, QueueStrandOK, QueueNext
  PROVE  QueueStrandOK'
<1>0. PICK s : QueueIs(s)
  BY DEF QueueInv
<1>1. /\ QueueQ \in WaitQs /\ HandInv(QueueQ) /\ held \subseteq Items /\ None \notin Items
      /\ StrandOK(QueueQ) /\ PendTypeOK /\ q \in ListRecs /\ AppendListOK(s)
      /\ waitq[QueueQ] \in Seq(Threads)
  BY <1>0, QueueAssumption, HandTypes
     DEF QueueIs, HandInv, HandTypeOK, PendInv, PendTypeOK, QueueTypeOK, QueueStrandOK
<1>2. Unlocked => sec.st \in {"free", "list"} /\ lst = NoList
  BY <1>1 DEF Unlocked, AppendListOK
<1>3. CASE \E x \in held, prev \in Items \cup {None}, alloc \in BOOLEAN :
             QueueInsert(x, prev, alloc)
  <2>1. PICK x \in held : /\ Unlocked /\ lst' = lst
                          /\ UnpendFor(QueueQ, x) \/ UNCHANGED <<pendVars, wanting, sec>>
    BY <1>3 DEF QueueInsert, InsertHandOver, InsertStore
  <2>2. QED
    BY <1>1, <1>2, <2>1, QueueStrandFree
<1>4. CASE CancelWait
  BY <1>1, <1>2, <1>4, QueueStrandFree DEF CancelWait
<1>5. CASE \E t \in Callers, forever \in Forevers : GetPend(t, forever)
  BY <1>1, <1>2, <1>5, QueueStrandFree DEF GetPend, PendFor
<1>6. CASE GetItem
  BY <1>1, <1>2, <1>6, QueueStrandFree DEF GetItem
<1>7. CASE \E t \in Callers : GetReturn(t)
  BY <1>1, <1>2, <1>7, QueueStrandFree DEF GetReturn, WaitReturn, Others
<1>8. CASE \/ HEnvironment /\ UNCHANGED <<q, lst, walk>>
           \/ \E t \in Victims : HAbort(t) /\ UNCHANGED <<q, lst, walk>>
  BY <1>1, <1>2, <1>8, QueueStrandFree DEF HEnvironment, HAbort, Others
<1>9. CASE \/ \E x \in Items \ q.wrapped : WalkStart("remove", x)
           \/ \E x \in (held \cup Listed) \ q.wrapped : WalkStart("unique", x)
           \/ WalkHop \/ UniqueFound \/ RemoveMissing \/ RemoveFound
  <2>1. Others /\ UNCHANGED <<pendVars, wanting, sec, lst>>
    BY <1>9 DEF WalkStart, WalkHop, UniqueFound, RemoveMissing, RemoveFound, handVars
  <2>2. QED
    BY <1>1, <1>2, <2>1, QueueStrandFree DEF Others
<1>10. CASE UniqueAppend
  <2>1. /\ Unlocked /\ lst' = lst /\ walk.item \in Items
        /\ UnpendFor(QueueQ, walk.item) \/ UNCHANGED <<pendVars, wanting, sec>>
    <3>1. walk # NoWalk
      BY <1>10 DEF UniqueAppend, NoWalk
    <3>2. walk.item \in Items
      BY <1>0, <3>1 DEF QueueIs, WalkOK
    <3>3. QED
      BY <1>10, <3>2 DEF UniqueAppend, InsertHandOver, InsertStore
  <2>2. QED
    BY <1>1, <1>2, <2>1, QueueStrandFree
<1>11. CASE StoreData /\ UNCHANGED <<q, lst, walk>>
  <2>1. StrandOK(QueueQ)'
    BY <1>1, <1>11, StrandStep
  <2>2. waitq' = waitq
    BY <1>11 DEF StoreData, SetRetval
  <2>3. QED
    BY <1>11, <2>1, <2>2 DEF QueueStrandOK
<1>12. CASE ReadyReceiver
  <2>1. ReadyWoken(Free) \/ ReadyWoken([Free EXCEPT !.st = "list"])
    BY <1>12 DEF ReadyReceiver
  <2>2. StrandOK(QueueQ)'
    BY <1>1, <2>1, StrandStep
  <2>3. waitq' = waitq /\ UNCHANGED <<q, lst>>
    BY <1>12 DEF ReadyReceiver, ReadyWoken, ReadyThread
  <2>4. QED
    BY <2>2, <2>3 DEF QueueStrandOK
<1>13. CASE \E x, y \in held : AppendListStart(x, y)
  <2>1. PICK x \in held, y \in held : AppendListStart(x, y)
    BY <1>13
  <2>2. CASE ListHandOver(x, y) /\ waitq[QueueQ] # <<>>
    <3>1. UnpendFor(QueueQ, x) /\ lst' = [at |-> x, tail |-> y] /\ sec.st = "free"
      BY <2>1, <2>2 DEF ListHandOver, AppendListStart, Unlocked
    <3>2. StrandOK(QueueQ)'
      BY <1>1, <3>1, StrandStep
    <3>3. q' = [q EXCEPT !.nxt[x] = IF y = x THEN None ELSE y, !.wrapped = @ \ {x, y}]
      <4>1. waitq[QueueQ] = <<>> => FALSE
        BY <2>2
      <4>2. QED
        BY <2>1, <4>1 DEF AppendListStart
    <3>4. lst'.at = x /\ q'.nxt[x] = (IF y = x THEN None ELSE y) /\ x \in Items /\ y \in Items
      BY <1>1, <3>1, <3>3 DEF ListRecs
    <3>5. waitq' = [waitq EXCEPT ![QueueQ] = Tail(@)]
      BY <3>1 DEF UnpendFor, UnpendFirst
    <3>6. waitq'[QueueQ] = Tail(waitq[QueueQ])
      BY <1>1, <3>5 DEF PendTypeOK
    <3>7. Len(waitq[QueueQ]) <= Cardinality({x, y})
      BY <2>1 DEF AppendListStart
    <3>8. Cardinality({x, y}) = IF x = y THEN 1 ELSE 2
      <4>1. CASE x = y
        BY <4>1, FS_Singleton
      <4>2. CASE x # y
        <5>1. {x, y} = {x} \cup {y} /\ IsFiniteSet({x}) /\ Cardinality({x}) = 1 /\ y \notin {x}
          BY <4>2, FS_Singleton
        <5>2. Cardinality({x} \cup {y}) = Cardinality({x}) + 1
          BY <5>1, FS_AddElement
        <5>3. QED
          BY <4>2, <5>1, <5>2
      <4>3. QED
        BY <4>1, <4>2
    <3>9. PICK n \in Nat : n = Len(waitq[QueueQ]) /\ n >= 1
      BY <1>1, <2>2
    <3>10. Len(Tail(waitq[QueueQ])) = n - 1 /\ (n = 1 => Tail(waitq[QueueQ]) = <<>>)
      <4>1. PICK wq \in Seq(Threads) : wq = waitq[QueueQ]
        BY <1>1 DEF PendTypeOK
      <4>2. wq # <<>> /\ Len(wq) = n
        BY <2>2, <3>9, <4>1
      <4>3. Len(Tail(wq)) = n - 1 /\ Tail(wq) \in Seq(Threads)
        BY <4>2
      <4>4. QED
        BY <4>1, <4>3
    <3>11. IF q'.nxt[lst'.at] = None THEN waitq'[QueueQ] = <<>> ELSE Len(waitq'[QueueQ]) <= 1
      BY <1>1, <3>4, <3>6, <3>7, <3>8, <3>9, <3>10
    <3>12. QED
      BY <3>2, <3>11 DEF QueueStrandOK
  <2>3. CASE waitq[QueueQ] = <<>>
    <3>1. /\ UNCHANGED <<pendVars, wanting>> /\ sec' = Free /\ lst' = NoList
          /\ sec.st \in {"free", "list"}
      BY <2>1, <2>3 DEF AppendListStart, ListStore, Unlocked
    <3>2. QED
      BY <1>1, <3>1, QueueStrandFree
  <2>4. QED
    BY <2>1, <2>2, <2>3 DEF AppendListStart
<1>14. CASE AppendListNext
  <2>1. sec.st = "list" /\ lst # NoList /\ lst.at \in Items
    BY <1>1, <1>14 DEF AppendListNext, AppendListOK
  <2>2. CASE q.nxt[lst.at] = None
    <3>1. waitq[QueueQ] = <<>>
      BY <2>1, <2>2 DEF QueueStrandOK
    <3>2. UNCHANGED <<pendVars, wanting>> /\ sec' = Free /\ lst' = NoList
      BY <1>14, <2>2, <3>1 DEF AppendListNext
    <3>3. QED
      BY <1>1, <2>1, <3>2, QueueStrandFree
  <2>3. CASE q.nxt[lst.at] # None
    <3>1. PICK y \in Items : y = q.nxt[lst.at]
      BY <1>1, <2>1, <2>3 DEF ListRecs
    <3>2. y \in Rest
      BY <1>1, <2>1, <3>1 DEF Rest
    <3>3. q.nxt[y] = None /\ Len(waitq[QueueQ]) <= 1
      BY <1>1, <2>1, <2>3, <3>2 DEF AppendListOK, QueueStrandOK
    <3>4. CASE waitq[QueueQ] = <<>>
      <4>1. UNCHANGED <<pendVars, wanting>> /\ sec' = Free /\ lst' = NoList
        BY <1>14, <2>3, <3>4 DEF AppendListNext, ListStore
      <4>2. QED
        BY <1>1, <2>1, <4>1, QueueStrandFree
    <3>5. CASE waitq[QueueQ] # <<>>
      <4>1. /\ UnpendFor(QueueQ, y) /\ lst' = [at |-> y, tail |-> lst.tail] /\ q' = q
        BY <1>14, <2>3, <3>1, <3>5 DEF AppendListNext, ListHandOver
      <4>2. StrandOK(QueueQ)'
        BY <1>1, <2>1, <4>1, StrandStep
      <4>3. waitq' = [waitq EXCEPT ![QueueQ] = Tail(@)]
        BY <4>1 DEF UnpendFor, UnpendFirst
      <4>4. waitq'[QueueQ] = Tail(waitq[QueueQ])
        BY <1>1, <4>3 DEF PendTypeOK
      <4>5. waitq'[QueueQ] = <<>>
        BY <1>1, <3>3, <3>5, <4>4
      <4>6. q'.nxt[lst'.at] = None
        BY <3>3, <4>1
      <4>7. QED
        BY <4>2, <4>5, <4>6 DEF QueueStrandOK
    <3>6. QED
      BY <3>4, <3>5
  <2>4. QED
    BY <2>2, <2>3
<1>15. QED
  BY <1>3, <1>4, <1>5, <1>6, <1>7, <1>8, <1>9, <1>10, <1>11, <1>12, <1>13, <1>14
     DEF QueueNext

(* What the invariant says of Hops, from which the properties are defined. *)
(* Memory that is a list is well formed. *)
LEMMA ListWellFormed ==
  ASSUME NEW s \in Seq(Items), NoDup(s), IsList(q, s) PROVE QueueWellFormed
<1>1. Len(s) \in Nat /\ s \in Seq(Items)
  OBVIOUS
<1>2. PICK N \in Nat : N = Cardinality(Items) + 1 /\ Len(s) < N
  BY NoDupBound
<1>3. PICK hop : hop = Hops(q, q.head) /\ hop = [i \in 1..N |-> At(s, i)]
  BY <1>2, HopsFacts DEF IsList
<1>4. Cardinality(Listed) = Len(s)
  <2>1. Listed = Stored(s)
    BY HopsAlongList
  <2>2. PICK n \in Nat : n = Len(s)
    BY <1>1
  <2>3. s \in Bijection(1..n, Stored(s))
    BY <2>2 DEF Bijection, Injection, Surjection, IsInjective, Stored, In, NoDup
  <2>4. Cardinality(1..n) = n /\ IsFiniteSet(1..n)
    BY FS_Interval
  <2>5. ExistsBijection(1..n, Stored(s))
    BY <2>3 DEF ExistsBijection
  <2>6. QED
    BY <2>1, <2>2, <2>4, <2>5, FS_Bijection
<1>5. hop[N] = None
  BY <1>1, <1>2, <1>3 DEF At
<1>6. q.tail = IF Len(s) = 0 THEN None ELSE hop[Len(s)]
  BY <1>1, <1>2, <1>3 DEF IsList, At
<1>7. QED
  BY <1>2, <1>3, <1>4, <1>5, <1>6 DEF QueueWellFormed

LEMMA QueueInvImplies ==
  ASSUME QueueInv
  PROVE  /\ QueueWellFormed
         /\ \A x \in Items : Places(x, Hops(q, q.head))
                               + (IF x \in ListRest THEN 1 ELSE 0) = 1
         /\ waitq[QueueQ] # <<>> =>
              \A i \in DOMAIN Hops(q, q.head) : Hops(q, q.head)[i] = None
<1>0. PICK s : QueueIs(s)
  BY DEF QueueInv
<1>1. /\ s \in Seq(Items) /\ NoDup(s) /\ IsList(q, s) /\ q \in ListRecs
      /\ HandInv(QueueQ) /\ PlacesOK(Stored(s) \cup Rest) /\ AppendListOK(s)
      /\ None \notin Items /\ Len(s) \in Nat
  BY <1>0, HandTypes DEF QueueIs, QueueTypeOK
<1>2. PICK N \in Nat : N = Cardinality(Items) + 1 /\ Len(s) < N
  BY <1>1, NoDupBound
<1>3. PICK hop : hop = Hops(q, q.head) /\ hop = [i \in 1..N |-> At(s, i)]
  BY <1>1, <1>2, HopsFacts DEF IsList
<1>4. QueueWellFormed
  BY <1>1, ListWellFormed
<1>5. ListRest = Rest
  <2>1. CASE lst = NoList
    BY <2>1 DEF ListRest, Rest
  <2>2. CASE lst # NoList
    <3>1. PICK y \in Items \cup {None} : y = q.nxt[lst.at]
      BY <1>1, <2>2 DEF AppendListOK, ListRecs
    <3>2. Rest = {y} \ {None}
      BY <2>2, <3>1 DEF Rest
    <3>3. PICK r \in Seq(Items) : NoDup(r) /\ Chain(q, y, r) /\ Stored(r) = {y} \ {None}
                                  /\ Len(r) \in Nat
      <4>1. CASE y = None
        <5>1. <<>> \in Seq(Items) /\ Len(<<>>) = 0
          OBVIOUS
        <5>2. NoDup(<<>>) /\ Chain(q, y, <<>>) /\ Stored(<<>>) = {}
          BY <4>1, <5>1 DEF NoDup, Chain, At, Stored, In
        <5>3. QED
          BY <4>1, <5>1, <5>2
      <4>2. CASE y # None
        <5>1. y \in Items /\ q.nxt[y] = None
          BY <1>1, <3>2, <4>2 DEF AppendListOK
        <5>2. <<y>> \in Seq(Items) /\ Len(<<y>>) = 1 /\ <<y>>[1] = y
          BY <5>1
        <5>3. NoDup(<<y>>) /\ Chain(q, y, <<y>>) /\ Stored(<<y>>) = {y}
          BY <5>1, <5>2 DEF NoDup, Chain, At, Stored, In
        <5>4. QED
          BY <4>2, <5>2, <5>3
      <4>3. QED
        BY <4>1, <4>2
    <3>4. Hops(q, y) = [i \in 1..N |-> At(r, i)] /\ Len(r) < N
      BY <1>2, <3>3, HopsFacts, NoDupBound
    <3>5. Range(Hops(q, y)) \ {None} = {At(r, i) : i \in 1..N} \ {None}
      BY <3>4 DEF Range
    <3>6. {At(r, i) : i \in 1..N} \ {None} = Stored(r)
      BY <1>1, <3>3, <3>4 DEF At, Stored, In
    <3>7. QED
      BY <2>2, <3>1, <3>2, <3>3, <3>5, <3>6 DEF ListRest
  <2>3. QED
    BY <2>1, <2>2
<1>6. ASSUME NEW x \in Items
      PROVE  Places(x, hop) + (IF x \in Rest THEN 1 ELSE 0) = 1
  <2>1. {i \in DOMAIN hop : hop[i] = x} = {i \in 1..Len(s) : s[i] = x}
    BY <1>1, <1>2, <1>3 DEF At
  <2>2. QueueQ \in WaitQs /\ Rest \in SUBSET Items /\ Rest \cap Stored(s) = {}
    BY <1>0, <1>1, StoredAndRest, QueueAssumption DEF AppendListOK
  <2>3. QED
    BY <1>1, <2>1, <2>2, CountPlaces DEF Places
<1>7. waitq[QueueQ] # <<>> => \A i \in DOMAIN hop : hop[i] = None
  <2>1. SUFFICES ASSUME waitq[QueueQ] # <<>> PROVE \A i \in 1..N : At(s, i) = None
    BY <1>3
  <2>2. QueueQ \in WaitQs
    BY QueueAssumption
  <2>3. Head(waitq[QueueQ]) \in Threads /\ pendedOn[Head(waitq[QueueQ])] = QueueQ
    BY <1>1, <2>1, <2>2, HeadFacts DEF HandInv, PendInv
  <2>4. s = <<>>
    BY <1>0, <2>3 DEF QueueIs
  <2>5. QED
    BY <2>4 DEF At
<1>8. QED
  BY <1>3, <1>4, <1>5, <1>6, <1>7


-----------------------------------------------------------------------------
(* Mailboxes, on one CPU, with senders that are not resumed and priorities *)
(* that do not change: otherwise a sender may return while the receiver    *)
(* has its message.                                                        *)

MboxStates == {"idle", "locked", "put", "get", "holding", "dispose", "disposed"}
MboxPutting == {"matched", "unpended", "set", "pend"}
MboxGetting == {"taken", "leaving"}

MboxSections == [st : {"free"} \cup MboxPutting \cup MboxGetting,
                 th : Threads \cup {None}, item : Threads \cup {None}]
TxMessages == [src : Callers \cup {None}, target : Peers \cup {None}]
RxMessages == [source : Peers \cup {None}, now : BOOLEAN, from : Threads \cup {None}]

MboxTypeOK ==
  /\ sec \in MboxSections
  /\ mb \in [tx : [Threads -> TxMessages], rx : [Callers -> RxMessages],
             pc : [Callers -> MboxStates],
             free : SUBSET Dummies, disposed : SUBSET Callers]

(* Nobody is suspended, dummy threads live, and only callers time out. *)
MboxThreadsOK ==
  /\ suspending = None
  /\ firing # None => firing \in Callers /\ ~timeout[firing] /\ sec.st = "free"
  /\ \A t \in Threads : /\ halted[t] # "suspended"
                        /\ pendedOn[t] \in {None, TxQ, RxQ, NullQ}
                        /\ pendedOn[t] = TxQ /\ t \in Callers => mb.pc[t] = "put"
                        /\ pendedOn[t] = NullQ => t \in Callers /\ mb.pc[t] = "put"
                        /\ pendedOn[t] = RxQ => t \in Callers /\ mb.pc[t] = "get"
                        /\ timeout[t] => t \in Callers
                        /\ t \in Dummies => halted[t] = "no"

(* The section that is under way: put has found a receiver, and get a      *)
(* sender.                                                                 *)
MboxPutOK ==
  /\ sec.st \in MboxPutting =>
       /\ sec.th \in Callers /\ sec.item \in Threads
       /\ mb.rx[sec.th].from = sec.item /\ mb.pc[sec.th] = "get"
       /\ mb.tx[sec.item].src \in Callers
       /\ mb.pc[mb.tx[sec.item].src] = "locked"
       /\ mb.rx[mb.tx[sec.item].src].from = None
       /\ sec.item \in Callers =>
            mb.tx[sec.item].src = sec.item /\ runnable[sec.item]
  /\ sec.st = "pend" => sec.item \in Callers
  /\ sec.st = "matched" => pendedOn[sec.th] = RxQ
  /\ sec.st \in MboxPutting \ {"matched"} => pendedOn[sec.th] = None
  /\ sec.st \in {"set", "pend"} => swapRet[sec.th] = "0"

MboxGetOK ==
  sec.st \in MboxGetting =>
    /\ sec.item \in Callers /\ sec.th \in Threads
    /\ mb.rx[sec.item].from = sec.th /\ mb.pc[sec.item] = "locked"
    /\ pendedOn[sec.th] = IF sec.st = "taken" THEN TxQ ELSE None

(* A call has a message from when it is matched until it is disposed of. *)
MboxCallOK(t) ==
  /\ mb.pc[t] \in {"idle", "put"} => mb.rx[t].from = None
  /\ mb.pc[t] = "get" /\ mb.rx[t].from # None =>
       \/ swapRet[t] = "0" /\ pendedOn[t] = None
       \/ sec.th = t /\ sec.st \in {"matched", "unpended"}
  /\ mb.pc[t] = "disposed" => mb.rx[t].from \in Callers
  /\ mb.pc[t] = "put" /\ swapRet[t] = "0" => t \in mb.disposed
  /\ mb.pc[t] = "put" /\ halted[t] = "no" /\ ~runnable[t] /\ pendedOn[t] # TxQ =>
       \E r \in Callers : mb.rx[r].from = t

(* The sender of a message that r has: it sleeps, and no timeout ends that *)
(* sleep.                                                                  *)
SenderSleeps(s) ==
  \/ mb.pc[s] = "locked" /\ sec.item = s /\ sec.st \in MboxPutting
  \/ /\ mb.pc[s] = "put" /\ ~runnable[s] /\ firing # s
     /\ timeout[s] => sec.th = s /\ sec.st \in MboxGetting

MboxMessageOK(r) ==
  LET s == mb.rx[r].from
  IN s # None =>
       /\ \A r2 \in Callers : mb.rx[r2].from = s => r2 = r
       /\ pendedOn[s] = TxQ => sec.st = "taken" /\ sec.th = s
       /\ s \in Callers /\ halted[s] = "no" => SenderSleeps(s)

(* A descriptor is free, in the queue, or with a receiver. *)
DescriptorOK(d) ==
  /\ d \in mb.free =>
       pendedOn[d] = None /\ \A r \in Callers : mb.rx[r].from # d
  /\ d \notin mb.free =>
       pendedOn[d] = TxQ \/ \E r \in Callers : mb.rx[r].from = d

NoneMissed ==
  \A s \in Threads, r \in Callers :
    pendedOn[s] = TxQ /\ pendedOn[r] = RxQ =>
      ~Matches(mb.tx[s], r, mb.rx[r].source)

MboxInv ==
  /\ PendInv /\ MboxTypeOK /\ MboxThreadsOK /\ MboxPutOK /\ MboxGetOK
  /\ NoneMissed
  /\ \A t \in Callers : MboxCallOK(t) /\ MboxMessageOK(t)
  /\ \A d \in Dummies : DescriptorOK(d)

LEMMA MboxTypes ==
  /\ Callers \subseteq Threads /\ Victims \subseteq Callers
  /\ Dummies \subseteq Threads /\ Dummies \cap Callers = {}
  /\ \A t \in Threads : t \in Dummies \/ t \in Callers
  /\ {TxQ, RxQ, NullQ} \subseteq WaitQs /\ None \notin Threads
  /\ TxQ # RxQ /\ NullQ # TxQ /\ NullQ # RxQ
  /\ None \notin {TxQ, RxQ, NullQ}
  /\ Forevers \subseteq BOOLEAN /\ Peers \subseteq Callers
  BY HandOverAssumption, PendAssumption, MboxAssumption DEF Dummies

LEMMA MboxTyped ==
  ASSUME NEW tx \in [Threads -> TxMessages], NEW rx \in [Callers -> RxMessages],
         NEW pc \in [Callers -> MboxStates], NEW fr \in SUBSET Dummies,
         NEW ds \in SUBSET Callers, sec' \in MboxSections,
         mb' = [tx |-> tx, rx |-> rx, pc |-> pc, free |-> fr, disposed |-> ds]
  PROVE  MboxTypeOK'
  BY DEF MboxTypeOK

LEMMA MboxInitInv == HInit /\ mb = MboxRecord => MboxInv
<1>1. SUFFICES ASSUME HInit, mb = MboxRecord PROVE MboxInv
  OBVIOUS
<1>2. PendInv
  BY <1>1, PendInitInv DEF HInit
<1>3. /\ \A t \in Threads : /\ pendedOn[t] = None /\ ~timeout[t] /\ halted[t] = "no"
                            /\ runnable[t]
      /\ firing = None /\ suspending = None
      /\ sec = [st |-> "free", th |-> None, item |-> None]
  BY <1>1 DEF HInit, PendInit, Free
<1>4. /\ mb.tx = [s \in Threads |-> [src |-> None, target |-> None]]
      /\ mb.rx = [t \in Callers |-> [source |-> None, now |-> FALSE, from |-> None]]
      /\ mb.pc = [t \in Callers |-> "idle"]
      /\ mb.free = Dummies /\ mb.disposed = {}
  BY <1>1 DEF MboxRecord, NoTx, NoRx
<1>5. MboxTypeOK
  BY <1>1, <1>3, MboxTypes
     DEF MboxTypeOK, MboxRecord, NoTx, NoRx, MboxStates, MboxSections, TxMessages,
         RxMessages
<1>6. MboxThreadsOK /\ MboxPutOK /\ MboxGetOK /\ NoneMissed
  BY <1>3, MboxTypes
     DEF MboxThreadsOK, MboxPutOK, MboxGetOK, NoneMissed, MboxPutting, MboxGetting
<1>7. \A t \in Callers : MboxCallOK(t) /\ MboxMessageOK(t)
  BY <1>4, MboxTypes DEF MboxCallOK, MboxMessageOK
<1>8. \A d \in Dummies : DescriptorOK(d)
  BY <1>3, <1>4, MboxTypes DEF DescriptorOK
<1>9. QED
  BY <1>2, <1>5, <1>6, <1>7, <1>8 DEF MboxInv

LEMMA FirstReceiverFacts ==
  ASSUME PendTypeOK, QueueMatchesState, NEW msg
  PROVE  /\ FirstReceiver(msg) # 0 =>
              LET r == waitq[RxQ][FirstReceiver(msg)]
              IN r \in Threads /\ pendedOn[r] = RxQ
                   /\ Matches(msg, r, mb.rx[r].source)
         /\ FirstReceiver(msg) = 0 =>
              \A r \in Threads : pendedOn[r] = RxQ =>
                ~Matches(msg, r, mb.rx[r].source)
<1> DEFINE I == {i \in 1..Len(waitq[RxQ]) :
                   Matches(msg, waitq[RxQ][i], mb.rx[waitq[RxQ][i]].source)}
<1>0. waitq[RxQ] \in Seq(Threads) /\ Len(waitq[RxQ]) \in Nat /\ I \in SUBSET Nat
  BY MboxTypes DEF PendTypeOK
<1>1. FirstReceiver(msg) = IF I # {} THEN Min(I) ELSE 0
  BY DEF FirstReceiver, SelectInSeq
<1>2. I # {} => Min(I) \in I
  BY <1>0, MinOfNaturals
<1>3. 0 \notin I
  OBVIOUS
<1>4. CASE I # {}
  <2>1. PICK k \in I : k = FirstReceiver(msg)
    BY <1>1, <1>2, <1>4
  <2>2. waitq[RxQ][k] \in Threads /\ pendedOn[waitq[RxQ][k]] = RxQ /\ k # 0
    BY <1>0, <1>3, MboxTypes DEF QueueMatchesState
  <2>3. QED
    BY <2>1, <2>2
<1>5. CASE I = {}
  <2>1. \A r \in Threads : pendedOn[r] = RxQ =>
          \E i \in 1..Len(waitq[RxQ]) : waitq[RxQ][i] = r
    BY MboxTypes DEF QueueMatchesState
  <2>2. QED
    BY <1>1, <1>5, <2>1
<1>6. QED
  BY <1>4, <1>5

LEMMA FirstSenderFacts ==
  ASSUME PendTypeOK, QueueMatchesState, NEW t, NEW source
  PROVE  /\ FirstSender(t, source) # 0 =>
              LET s == waitq[TxQ][FirstSender(t, source)]
              IN s \in Threads /\ pendedOn[s] = TxQ /\ Matches(mb.tx[s], t, source)
         /\ FirstSender(t, source) = 0 =>
              \A s \in Threads : pendedOn[s] = TxQ => ~Matches(mb.tx[s], t, source)
<1> DEFINE I == {i \in 1..Len(waitq[TxQ]) : Matches(mb.tx[waitq[TxQ][i]], t, source)}
<1>0. waitq[TxQ] \in Seq(Threads) /\ Len(waitq[TxQ]) \in Nat /\ I \in SUBSET Nat
  BY MboxTypes DEF PendTypeOK
<1>1. FirstSender(t, source) = IF I # {} THEN Min(I) ELSE 0
  BY DEF FirstSender, SelectInSeq
<1>2. I # {} => Min(I) \in I
  BY <1>0, MinOfNaturals
<1>3. 0 \notin I
  OBVIOUS
<1>4. CASE I # {}
  <2>1. PICK k \in I : k = FirstSender(t, source)
    BY <1>1, <1>2, <1>4
  <2>2. waitq[TxQ][k] \in Threads /\ pendedOn[waitq[TxQ][k]] = TxQ /\ k # 0
    BY <1>0, <1>3, MboxTypes DEF QueueMatchesState
  <2>3. QED
    BY <2>1, <2>2
<1>5. CASE I = {}
  <2>1. \A s \in Threads : pendedOn[s] = TxQ =>
          \E i \in 1..Len(waitq[TxQ]) : waitq[TxQ][i] = s
    BY MboxTypes DEF QueueMatchesState
  <2>2. QED
    BY <1>1, <1>5, <2>1
<1>6. QED
  BY <1>4, <1>5


LEMMA MboxInvImplies ==
  ASSUME MboxInv
  PROVE  SenderHasReceiver /\ MboxNobodyMissed
<1>0. /\ PendInv /\ PendTypeOK /\ QueueMatchesState /\ MboxTypeOK /\ MboxThreadsOK
      /\ NoneMissed
      /\ \A t \in Callers : MboxCallOK(t) /\ MboxMessageOK(t)
  BY DEF MboxInv, PendInv
<1>1. ASSUME NEW r \in Callers, mb.rx[r].from # None
      PROVE  /\ \A r2 \in Callers \ {r} : mb.rx[r2].from # mb.rx[r].from
             /\ mb.rx[r].from \in Callers /\ halted[mb.rx[r].from] = "no"
                  => mb.pc[mb.rx[r].from] \in {"locked", "put"}
  BY <1>0, <1>1 DEF MboxMessageOK, SenderSleeps
<1>2. SenderHasReceiver
  BY <1>0, <1>1 DEF SenderHasReceiver, MboxCallOK
<1>3. MboxNobodyMissed
  <2>1. SUFFICES ASSUME NEW i \in 1..Len(waitq[TxQ]), NEW j \in 1..Len(waitq[RxQ])
                 PROVE  ~Matches(mb.tx[waitq[TxQ][i]], waitq[RxQ][j],
                                 mb.rx[waitq[RxQ][j]].source)
    <3>1. /\ DOMAIN waitq[TxQ] = 1..Len(waitq[TxQ])
          /\ DOMAIN waitq[RxQ] = 1..Len(waitq[RxQ])
      BY <1>0, MboxTypes DEF PendTypeOK
    <3>2. QED
      BY <3>1, Zenon DEF MboxNobodyMissed
  <2>2. /\ waitq[TxQ][i] \in Threads /\ waitq[RxQ][j] \in Threads
        /\ pendedOn[waitq[TxQ][i]] = TxQ /\ pendedOn[waitq[RxQ][j]] = RxQ
    <3>1. waitq[TxQ] \in Seq(Threads) /\ waitq[RxQ] \in Seq(Threads)
      BY <1>0, MboxTypes DEF PendTypeOK
    <3>2. waitq[TxQ][i] \in Threads /\ waitq[RxQ][j] \in Threads
      BY <2>1, <3>1
    <3>3. pendedOn[waitq[TxQ][i]] = TxQ
      BY <1>0, <2>1, MboxTypes DEF QueueMatchesState
    <3>4. pendedOn[waitq[RxQ][j]] = RxQ
      BY <1>0, <2>1, MboxTypes DEF QueueMatchesState
    <3>5. QED
      BY <3>2, <3>3, <3>4
  <2>3. QED
    BY <1>0, <2>2 DEF NoneMissed, MboxThreadsOK
<1>4. QED
  BY <1>2, <1>3

LEMMA MboxDescriptors ==
  ASSUME MboxInv, Unlocked, NEW d \in Dummies
  PROVE  DescriptorPlaces(d) = 1
<1>0. /\ PendTypeOK /\ QueueMatchesState /\ DescriptorOK(d) /\ d \in Threads
      /\ \A t \in Callers : MboxMessageOK(t)
  BY MboxTypes DEF MboxInv, PendInv
<1>1. PICK A : A = {i \in DOMAIN waitq[TxQ] : waitq[TxQ][i] = d}
  OBVIOUS
<1>2. PICK B : B = {r \in Callers : mb.rx[r].from = d}
  OBVIOUS
<1>3. waitq[TxQ] \in Seq(Threads) /\ DOMAIN waitq[TxQ] = 1..Len(waitq[TxQ])
  BY <1>0, MboxTypes DEF PendTypeOK
<1>4. pendedOn[d] = TxQ => Cardinality(A) = 1
  <2>1. SUFFICES ASSUME pendedOn[d] = TxQ PROVE Cardinality(A) = 1
    OBVIOUS
  <2>2. PICK i \in 1..Len(waitq[TxQ]) : waitq[TxQ][i] = d
    BY <1>0, <2>1, MboxTypes DEF QueueMatchesState
  <2>3. A = {i}
    BY <1>0, <1>1, <1>3, <2>2, MboxTypes DEF QueueMatchesState
  <2>4. QED
    BY <2>3, FS_Singleton
<1>5. pendedOn[d] # TxQ => Cardinality(A) = 0
  <2>1. SUFFICES ASSUME pendedOn[d] # TxQ PROVE Cardinality(A) = 0
    OBVIOUS
  <2>2. A = {}
    BY <1>0, <1>1, <1>3, <2>1, MboxTypes DEF QueueMatchesState
  <2>3. QED
    BY <2>2, FS_EmptySet
<1>6. (\E r \in Callers : mb.rx[r].from = d) => Cardinality(B) = 1 /\ pendedOn[d] # TxQ
  <2>1. SUFFICES ASSUME NEW r \in Callers, mb.rx[r].from = d
                 PROVE  Cardinality(B) = 1 /\ pendedOn[d] # TxQ
    OBVIOUS
  <2>2. B = {r} /\ pendedOn[d] # TxQ
    BY <1>0, <1>2, <2>1, MboxTypes DEF MboxMessageOK, Unlocked
  <2>3. QED
    BY <2>2, FS_Singleton
<1>7. (~ \E r \in Callers : mb.rx[r].from = d) => Cardinality(B) = 0
  <2>1. SUFFICES ASSUME ~ \E r \in Callers : mb.rx[r].from = d
                 PROVE  Cardinality(B) = 0
    OBVIOUS
  <2>2. B = {}
    BY <1>2, <2>1
  <2>3. QED
    BY <2>2, FS_EmptySet
<1>8. (IF d \in mb.free THEN 1 ELSE 0) + Cardinality(A) + Cardinality(B) = 1
  <2>1. CASE d \in mb.free
    BY <1>0, <1>5, <1>7, <2>1, MboxTypes DEF DescriptorOK
  <2>2. CASE d \notin mb.free /\ pendedOn[d] = TxQ
    BY <1>4, <1>6, <1>7, <2>2
  <2>3. CASE d \notin mb.free /\ pendedOn[d] # TxQ
    BY <1>0, <1>5, <1>6, <2>3 DEF DescriptorOK
  <2>4. QED
    BY <2>1, <2>2, <2>3
<1>9. QED
  BY <1>1, <1>2, <1>8 DEF DescriptorPlaces

LEMMA MboxPutMatchInv ==
  ASSUME ~SMP, MboxInv, NEW t \in Callers, NEW s \in Threads,
         NEW x \in Peers \cup {None}, MboxPutMatch(t, s, x)
  PROVE  MboxInv'
<1>0. /\ PendInv /\ PendTypeOK /\ QueueMatchesState /\ RunnableIsFree /\ MboxTypeOK
      /\ MboxThreadsOK /\ NoneMissed
      /\ \A u \in Callers : MboxCallOK(u) /\ MboxMessageOK(u)
      /\ \A d \in Dummies : DescriptorOK(d)
  BY DEF MboxInv, PendInv
<1>1. PICK r \in Threads :
        /\ r = waitq[RxQ][FirstReceiver([src |-> t, target |-> x])]
        /\ pendedOn[r] = RxQ
  BY <1>0, FirstReceiverFacts DEF MboxPutMatch
<1>2. /\ firing = None /\ sec.st = "free" /\ runnable[t] /\ mb.pc[t] = "idle"
      /\ s \in {t} \cup mb.free
      /\ mb' = [mb EXCEPT !.tx[s] = [src |-> t, target |-> x], !.rx[r].from = s,
                          !.pc[t] = "locked", !.free = @ \ {s}]
      /\ sec' = [st |-> "matched", th |-> r, item |-> s]
      /\ UNCHANGED pendVars
  BY <1>1 DEF MboxPutMatch, MboxIdle, ThreadContext, Unlocked
<1>3. r \in Callers /\ mb.pc[r] = "get" /\ r # t /\ mb.rx[r].from = None
      /\ mb.rx[t].from = None /\ pendedOn[t] = None /\ halted[t] = "no"
  BY <1>0, <1>1, <1>2, MboxTypes DEF MboxThreadsOK, MboxCallOK, RunnableIsFree
<1>4. /\ \A u \in Callers : mb.rx[u].from # s
      /\ pendedOn[s] = None /\ (s \in Callers => s = t)
  <2>1. CASE s = t
    BY <1>0, <1>2, <1>3, <2>1, MboxTypes DEF MboxMessageOK, SenderSleeps
  <2>2. CASE s \in mb.free
    BY <1>0, <2>2, MboxTypes DEF DescriptorOK, MboxTypeOK
  <2>3. QED
    BY <1>2, <2>1, <2>2
<1>5. /\ mb'.tx = [mb.tx EXCEPT ![s] = [src |-> t, target |-> x]]
      /\ mb'.rx = [mb.rx EXCEPT ![r] = [mb.rx[r] EXCEPT !.from = s]]
      /\ mb'.pc = [mb.pc EXCEPT ![t] = "locked"]
      /\ mb'.free = mb.free \ {s} /\ mb'.disposed = mb.disposed
  BY <1>0, <1>2, <1>3 DEF MboxTypeOK
<1>6. /\ mb'.rx[r].from = s /\ mb'.tx[s].src = t
      /\ \A u \in Callers : u # r => mb'.rx[u].from = mb.rx[u].from
      /\ \A u \in Callers : mb'.rx[u].source = mb.rx[u].source
      /\ mb'.pc[t] = "locked" /\ \A u \in Callers : u # t => mb'.pc[u] = mb.pc[u]
      /\ \A u \in Threads : u # s => mb'.tx[u] = mb.tx[u]
  BY <1>0, <1>3, <1>5 DEF MboxTypeOK, RxMessages
<1>7. PendInv' /\ UNCHANGED <<pendedOn, timeout, firing, suspending, swapRet, runnable, halted>>
  BY <1>0, <1>2, PendStutterInv DEF pendVars
<1>8. MboxTypeOK'
  <2>1. PICK tx, rx, pc, fr, ds :
          mb = [tx |-> tx, rx |-> rx, pc |-> pc, free |-> fr, disposed |-> ds]
    BY <1>0 DEF MboxTypeOK
  <2>2. /\ tx \in [Threads -> TxMessages] /\ rx \in [Callers -> RxMessages]
        /\ pc \in [Callers -> MboxStates] /\ fr \in SUBSET Dummies
        /\ ds \in SUBSET Callers
    BY <1>0, <2>1 DEF MboxTypeOK
  <2>3. mb' = [tx |-> [tx EXCEPT ![s] = [src |-> t, target |-> x]],
               rx |-> [rx EXCEPT ![r] = [rx[r] EXCEPT !.from = s]],
               pc |-> [pc EXCEPT ![t] = "locked"], free |-> fr \ {s},
               disposed |-> ds]
    BY <1>2, <2>1
  <2>4. /\ [rx[r] EXCEPT !.from = s] \in RxMessages
        /\ [src |-> t, target |-> x] \in TxMessages
        /\ "locked" \in MboxStates
    BY <1>3, <2>2 DEF RxMessages, TxMessages, MboxStates
  <2>5. /\ [tx EXCEPT ![s] = [src |-> t, target |-> x]] \in [Threads -> TxMessages]
        /\ [rx EXCEPT ![r] = [rx[r] EXCEPT !.from = s]] \in [Callers -> RxMessages]
        /\ [pc EXCEPT ![t] = "locked"] \in [Callers -> MboxStates]
    BY <2>2, <2>4
  <2>6. sec' \in MboxSections
    BY <1>2, <1>3 DEF MboxSections, MboxPutting
  <2>7. QED
    BY <2>2, <2>3, <2>5, <2>6, MboxTyped
<1>9. MboxThreadsOK'
  BY <1>0, <1>2, <1>3, <1>6, <1>7, MboxTypes DEF MboxThreadsOK
<1>10. MboxPutOK' /\ MboxGetOK'
  BY <1>1, <1>2, <1>3, <1>4, <1>6, <1>7, MboxTypes
     DEF MboxPutOK, MboxGetOK, MboxPutting, MboxGetting
<1>11. NoneMissed'
  BY <1>0, <1>4, <1>6, <1>7, MboxTypes DEF NoneMissed
<1>12. ASSUME NEW u \in Callers PROVE MboxCallOK(u)'
  BY <1>0, <1>2, <1>3, <1>5, <1>6, <1>7, MboxTypes DEF MboxCallOK
<1>13. ASSUME NEW u \in Callers PROVE MboxMessageOK(u)'
  <2>1. CASE u = r
    BY <1>2, <1>3, <1>4, <1>6, <1>7, <2>1, MboxTypes
       DEF MboxMessageOK, SenderSleeps, MboxPutting
  <2>2. CASE u # r
    BY <1>0, <1>2, <1>3, <1>4, <1>6, <1>7, <2>2, MboxTypes
       DEF MboxMessageOK, SenderSleeps, MboxPutting, MboxGetting
  <2>3. QED
    BY <2>1, <2>2
<1>14. ASSUME NEW d \in Dummies PROVE DescriptorOK(d)'
  BY <1>0, <1>3, <1>5, <1>6, <1>7, MboxTypes DEF DescriptorOK
<1>15. QED
  BY <1>7, <1>8, <1>9, <1>10, <1>11, <1>12, <1>13, <1>14 DEF MboxInv


(* The steps of a section under the mailbox's lock. *)
LEMMA MboxUnpendInv == ASSUME MboxInv, MboxUnpend PROVE MboxInv'
<1>0. /\ PendInv /\ PendTypeOK /\ QueueMatchesState /\ RunnableIsFree /\ MboxTypeOK
      /\ MboxThreadsOK /\ MboxPutOK /\ MboxGetOK /\ NoneMissed
      /\ \A u \in Callers : MboxCallOK(u) /\ MboxMessageOK(u)
      /\ \A d \in Dummies : DescriptorOK(d)
  BY DEF MboxInv, PendInv
<1>1. PICK s \in Threads : s = sec.th
  BY <1>0, MboxTypes DEF MboxUnpend, MboxPutOK, MboxGetOK, MboxPutting, MboxGetting
<1>2. /\ UnpendNoTimeout(s) /\ firing = None
      /\ UNCHANGED <<prio, timeout, firing, suspending, swapRet, runnable, halted, mb>>
  BY <1>0, <1>1 DEF MboxUnpend, MboxThreadsOK
<1>3. /\ QueueMatchesState' /\ pendedOn'[s] = None
      /\ waitq' \in [WaitQs -> Seq(Threads)]
      /\ pendedOn' \in [Threads -> WaitQs \cup {None}]
      /\ \A u \in Threads : u # s => pendedOn'[u] = pendedOn[u]
  BY <1>0, <1>2, UnpendNoTimeoutMatch
<1>4. PendInv'
  BY <1>0, <1>2, <1>3 DEF PendInv, PendTypeOK, RunnableIsFree
<1>5. /\ \/ sec.st = "matched" /\ sec'.st = "unpended"
         \/ sec.st = "taken" /\ sec'.st = "leaving"
      /\ sec'.th = s /\ sec'.item = sec.item /\ sec' \in MboxSections
  BY <1>0, <1>1 DEF MboxUnpend, MboxTypeOK, MboxSections, MboxPutting, MboxGetting
<1>6. MboxTypeOK'
  BY <1>0, <1>2, <1>5 DEF MboxTypeOK
<1>7. MboxThreadsOK'
  BY <1>0, <1>2, <1>3, MboxTypes DEF MboxThreadsOK
<1>8. MboxPutOK' /\ MboxGetOK'
  <2>1. CASE sec.st = "matched"
    BY <1>0, <1>1, <1>2, <1>3, <1>5, <2>1
       DEF MboxPutOK, MboxGetOK, MboxPutting, MboxGetting
  <2>2. CASE sec.st = "taken"
    BY <1>0, <1>1, <1>2, <1>3, <1>5, <2>2
       DEF MboxPutOK, MboxGetOK, MboxPutting, MboxGetting
  <2>3. QED
    BY <1>5, <2>1, <2>2
<1>9. NoneMissed'
  BY <1>0, <1>2, <1>3, MboxTypes DEF NoneMissed
<1>10. ASSUME NEW u \in Callers PROVE MboxCallOK(u)'
  <2>1. CASE sec.st = "matched"
    BY <1>0, <1>1, <1>2, <1>3, <1>5, <2>1, MboxTypes
       DEF MboxCallOK, MboxPutOK, MboxPutting
  <2>2. CASE sec.st = "taken"
    BY <1>0, <1>1, <1>2, <1>3, <1>5, <2>2, MboxTypes
       DEF MboxCallOK, MboxGetOK, MboxGetting
  <2>3. QED
    BY <1>5, <2>1, <2>2
<1>11. ASSUME NEW u \in Callers PROVE MboxMessageOK(u)'
  <2>1. SenderSleeps(mb.rx[u].from) => SenderSleeps(mb.rx[u].from)'
    BY <1>1, <1>2, <1>5 DEF SenderSleeps, MboxPutting, MboxGetting
  <2>2. SUFFICES ASSUME mb.rx[u].from # None
                 PROVE  /\ \A r2 \in Callers : mb'.rx[r2].from = mb.rx[u].from => r2 = u
                        /\ pendedOn'[mb.rx[u].from] # TxQ
                        /\ mb.rx[u].from \in Callers /\ halted'[mb.rx[u].from] = "no"
                             => SenderSleeps(mb.rx[u].from)'
    BY <1>2 DEF MboxMessageOK
  <2>3. mb.rx[u].from \in Threads
    BY <1>0, <2>2 DEF MboxTypeOK, RxMessages
  <2>4. QED
    BY <1>0, <1>1, <1>2, <1>3, <2>1, <2>2, <2>3, MboxTypes DEF MboxMessageOK
<1>12. ASSUME NEW d \in Dummies PROVE DescriptorOK(d)'
  <2>1. pendedOn[d] = TxQ /\ d = s => \E r \in Callers : mb.rx[r].from = d
    BY <1>0, <1>1, <1>5, MboxTypes DEF MboxGetOK, MboxPutOK, MboxPutting, MboxGetting
  <2>2. QED
    BY <1>0, <1>2, <1>3, <2>1, MboxTypes DEF DescriptorOK
<1>13. QED
  BY <1>4, <1>6, <1>7, <1>8, <1>9, <1>10, <1>11, <1>12 DEF MboxInv

LEMMA MboxStoreInv == ASSUME MboxInv, MboxStore PROVE MboxInv'
<1>0. /\ PendInv /\ PendTypeOK /\ QueueMatchesState /\ RunnableIsFree /\ MboxTypeOK
      /\ MboxThreadsOK /\ MboxPutOK /\ NoneMissed
      /\ \A u \in Callers : MboxCallOK(u) /\ MboxMessageOK(u)
      /\ \A d \in Dummies : DescriptorOK(d)
  BY DEF MboxInv, PendInv
<1>1. PICK r \in Callers : r = sec.th /\ mb.pc[r] = "get" /\ pendedOn[r] = None
  BY <1>0 DEF MboxStore, MboxPutOK, MboxPutting
<1>2. /\ sec.st = "unpended" /\ firing = None /\ r \in Threads
      /\ timeout' = [timeout EXCEPT ![r] = FALSE]
      /\ swapRet' = [swapRet EXCEPT ![r] = "0"]
      /\ UNCHANGED <<prio, waitq, pendedOn, firing, suspending, runnable, halted, mb>>
  BY <1>0, <1>1, MboxTypes DEF MboxStore, MboxThreadsOK
<1>3. /\ swapRet'[r] = "0" /\ ~timeout'[r]
      /\ \A u \in Threads : u # r =>
           swapRet'[u] = swapRet[u] /\ timeout'[u] = timeout[u]
  BY <1>0, <1>2 DEF PendTypeOK
<1>4. PendInv'
  BY <1>0, <1>2, <1>3
     DEF PendInv, PendTypeOK, RetVals, QueueMatchesState, RunnableIsFree
<1>5. /\ sec'.st = "set" /\ sec'.th = r /\ sec'.item = sec.item
      /\ sec' \in MboxSections
  BY <1>0, <1>1 DEF MboxStore, MboxTypeOK, MboxSections, MboxPutting
<1>6. MboxTypeOK'
  BY <1>0, <1>2, <1>5 DEF MboxTypeOK
<1>7. MboxThreadsOK'
  BY <1>0, <1>2, <1>3 DEF MboxThreadsOK
<1>8. MboxPutOK' /\ MboxGetOK'
  BY <1>0, <1>1, <1>2, <1>3, <1>5, MboxTypes
     DEF MboxPutOK, MboxGetOK, MboxPutting, MboxGetting
<1>9. NoneMissed'
  BY <1>0, <1>2 DEF NoneMissed
<1>10. ASSUME NEW u \in Callers PROVE MboxCallOK(u)'
  BY <1>0, <1>1, <1>2, <1>3, MboxTypes DEF MboxCallOK
<1>11. ASSUME NEW u \in Callers PROVE MboxMessageOK(u)'
  BY <1>0, <1>1, <1>2, <1>3, <1>5, MboxTypes
     DEF MboxMessageOK, SenderSleeps, MboxPutting, MboxGetting
<1>12. ASSUME NEW d \in Dummies PROVE DescriptorOK(d)'
  BY <1>0, <1>2 DEF DescriptorOK
<1>13. QED
  BY <1>4, <1>6, <1>7, <1>8, <1>9, <1>10, <1>11, <1>12 DEF MboxInv

LEMMA MboxReadyInv == ASSUME MboxInv, MboxReady PROVE MboxInv'
<1>0. /\ PendInv /\ PendTypeOK /\ QueueMatchesState /\ RunnableIsFree /\ MboxTypeOK
      /\ MboxThreadsOK /\ MboxPutOK /\ NoneMissed
      /\ \A u \in Callers : MboxCallOK(u) /\ MboxMessageOK(u)
      /\ \A d \in Dummies : DescriptorOK(d)
  BY DEF MboxInv, PendInv
<1>1. PICK r \in Callers, s \in Threads, t \in Callers :
        /\ r = sec.th /\ s = sec.item /\ t = mb.tx[s].src
        /\ mb.pc[r] = "get" /\ pendedOn[r] = None /\ swapRet[r] = "0"
        /\ mb.rx[r].from = s /\ mb.pc[t] = "locked" /\ mb.rx[t].from = None
        /\ s \in Callers => t = s /\ runnable[s]
  BY <1>0 DEF MboxReady, MboxPutOK, MboxPutting
<1>2. /\ sec.st = "set" /\ firing = None /\ r \in Threads
      /\ runnable' = [runnable EXCEPT ![r] = @ \/ IsThreadReady(r)]
      /\ UNCHANGED <<prio, waitq, pendedOn, timeout, firing, suspending, swapRet, halted>>
  BY <1>0, <1>1, MboxTypes DEF MboxReady, ReadyThread, MboxThreadsOK
<1>3. /\ \A u \in Threads : u # r => runnable'[u] = runnable[u]
      /\ \A u \in Threads : runnable[u] => runnable'[u]
  BY <1>0, <1>2 DEF PendTypeOK
<1>4. PendInv'
  BY <1>0, ReadyThreadInv DEF MboxReady
<1>5. CASE s \in Callers
  <2>1. mb' = mb /\ sec' = [sec EXCEPT !.st = "pend"] /\ t = s /\ s # r
    BY <1>1, <1>5, MboxTypes DEF MboxReady
  <2>2. /\ sec'.st = "pend" /\ sec'.th = r /\ sec'.item = s
        /\ sec' \in MboxSections
    BY <1>0, <1>1, <2>1 DEF MboxTypeOK, MboxSections, MboxPutting
  <2>3. MboxTypeOK' /\ MboxThreadsOK' /\ NoneMissed'
    BY <1>0, <1>2, <2>1, <2>2 DEF MboxTypeOK, MboxThreadsOK, NoneMissed
  <2>4. MboxPutOK' /\ MboxGetOK'
    BY <1>1, <1>2, <1>3, <1>5, <2>1, <2>2
       DEF MboxPutOK, MboxGetOK, MboxPutting, MboxGetting
  <2>5. ASSUME NEW u \in Callers PROVE MboxCallOK(u)'
    BY <1>0, <1>1, <1>2, <1>3, <2>1, <2>2, MboxTypes DEF MboxCallOK
  <2>6. ASSUME NEW u \in Callers PROVE MboxMessageOK(u)'
    BY <1>0, <1>1, <1>2, <1>3, <2>1, <2>2, MboxTypes
       DEF MboxMessageOK, SenderSleeps, MboxPutting, MboxGetting
  <2>7. ASSUME NEW d \in Dummies PROVE DescriptorOK(d)'
    BY <1>0, <1>2, <2>1 DEF DescriptorOK
  <2>8. QED
    BY <1>4, <2>3, <2>4, <2>5, <2>6, <2>7 DEF MboxInv
<1>6. CASE s \notin Callers
  <2>1. /\ sec' = [st |-> "free", th |-> None, item |-> None]
        /\ mb' = [mb EXCEPT !.pc[t] = "idle"] /\ s \in Dummies /\ t # r
    BY <1>1, <1>6, MboxTypes DEF MboxReady, Free
  <2>2. /\ mb'.tx = mb.tx /\ mb'.rx = mb.rx /\ mb'.free = mb.free
        /\ mb'.disposed = mb.disposed /\ mb'.pc = [mb.pc EXCEPT ![t] = "idle"]
    BY <1>0, <2>1 DEF MboxTypeOK
  <2>3. /\ mb'.pc[t] = "idle" /\ \A u \in Callers : u # t => mb'.pc[u] = mb.pc[u]
    BY <1>0, <2>2 DEF MboxTypeOK
  <2>4. MboxTypeOK'
    BY <1>0, <2>1 DEF MboxTypeOK, MboxSections, MboxStates
  <2>5. MboxThreadsOK' /\ NoneMissed' /\ MboxPutOK' /\ MboxGetOK'
    BY <1>0, <1>1, <1>2, <2>1, <2>2, <2>3
       DEF MboxThreadsOK, NoneMissed, MboxPutOK, MboxGetOK, MboxPutting, MboxGetting
  <2>6. ASSUME NEW u \in Callers PROVE MboxCallOK(u)'
    BY <1>0, <1>1, <1>2, <1>3, <2>1, <2>2, <2>3, MboxTypes DEF MboxCallOK
  <2>7. ASSUME NEW u \in Callers PROVE MboxMessageOK(u)'
    BY <1>0, <1>1, <1>2, <1>3, <1>6, <2>1, <2>2, <2>3, MboxTypes
       DEF MboxMessageOK, SenderSleeps, MboxPutting, MboxGetting
  <2>8. ASSUME NEW d \in Dummies PROVE DescriptorOK(d)'
    BY <1>0, <1>2, <2>2 DEF DescriptorOK
  <2>9. QED
    BY <1>4, <2>4, <2>5, <2>6, <2>7, <2>8 DEF MboxInv
<1>7. QED
  BY <1>5, <1>6


LEMMA MboxPutPendInv == ASSUME MboxInv, MboxPutPend PROVE MboxInv'
<1>0. /\ PendInv /\ PendTypeOK /\ QueueMatchesState /\ RunnableIsFree /\ MboxTypeOK
      /\ MboxThreadsOK /\ MboxPutOK /\ NoneMissed
      /\ \A u \in Callers : MboxCallOK(u) /\ MboxMessageOK(u)
      /\ \A d \in Dummies : DescriptorOK(d)
  BY DEF MboxInv, PendInv
<1>1. PICK r \in Callers, s \in Callers :
        /\ r = sec.th /\ s = sec.item
        /\ mb.pc[r] = "get" /\ pendedOn[r] = None /\ swapRet[r] = "0"
        /\ mb.rx[r].from = s /\ mb.pc[s] = "locked" /\ mb.rx[s].from = None
        /\ runnable[s]
  BY <1>0 DEF MboxPutPend, MboxPutOK, MboxPutting
<1>2. /\ sec.st = "pend" /\ firing = None /\ r \in Threads /\ s \in Threads /\ r # s
      /\ pendedOn[s] = None
      /\ PendCurr(s, NullQ, TRUE)
      /\ mb' = [mb EXCEPT !.pc[s] = "put"]
      /\ sec' = [st |-> "free", th |-> None, item |-> None]
  BY <1>0, <1>1, MboxTypes DEF MboxPutPend, MboxThreadsOK, RunnableIsFree, Free
<1>3. /\ pendedOn'[s] = NullQ /\ ~timeout'[s] /\ swapRet'[s] = "EAGAIN" /\ ~runnable'[s]
      /\ \A u \in Threads : u # s =>
           /\ pendedOn'[u] = pendedOn[u] /\ timeout'[u] = timeout[u]
           /\ swapRet'[u] = swapRet[u] /\ runnable'[u] = runnable[u]
      /\ UNCHANGED <<firing, suspending, halted>>
  BY <1>0, <1>2 DEF PendCurr, PendTypeOK
<1>4. PendInv'
  BY <1>0, <1>1, <1>2, PendCurrInv, MboxTypes
<1>5. /\ mb'.tx = mb.tx /\ mb'.rx = mb.rx /\ mb'.free = mb.free
      /\ mb'.disposed = mb.disposed /\ mb'.pc = [mb.pc EXCEPT ![s] = "put"]
  BY <1>0, <1>2 DEF MboxTypeOK
<1>6. mb'.pc[s] = "put" /\ \A u \in Callers : u # s => mb'.pc[u] = mb.pc[u]
  BY <1>0, <1>5 DEF MboxTypeOK
<1>7. MboxTypeOK'
  BY <1>0, <1>2 DEF MboxTypeOK, MboxSections, MboxStates
<1>8. MboxThreadsOK'
  BY <1>0, <1>1, <1>2, <1>3, <1>6, MboxTypes DEF MboxThreadsOK
<1>9. MboxPutOK' /\ MboxGetOK' /\ NoneMissed'
  BY <1>0, <1>2, <1>3, <1>5, MboxTypes
     DEF NoneMissed, MboxPutOK, MboxGetOK, MboxPutting, MboxGetting
<1>10. ASSUME NEW u \in Callers PROVE MboxCallOK(u)'
  BY <1>0, <1>1, <1>2, <1>3, <1>5, <1>6, MboxTypes DEF MboxCallOK
<1>11. ASSUME NEW u \in Callers PROVE MboxMessageOK(u)'
  <2>1. CASE u = r
    BY <1>0, <1>1, <1>2, <1>3, <1>5, <1>6, <2>1, MboxTypes
       DEF MboxMessageOK, SenderSleeps
  <2>2. CASE u # r
    <3>1. mb.rx[u].from # s /\ mb.rx[u].from \in Threads \cup {None}
      BY <1>0, <1>1, <2>2, MboxTypes DEF MboxMessageOK, MboxTypeOK, RxMessages
    <3>2. QED
      BY <1>0, <1>1, <1>2, <1>3, <1>5, <1>6, <3>1, MboxTypes
         DEF MboxMessageOK, SenderSleeps, MboxPutting, MboxGetting
  <2>3. QED
    BY <2>1, <2>2
<1>12. ASSUME NEW d \in Dummies PROVE DescriptorOK(d)'
  BY <1>0, <1>3, <1>5, MboxTypes DEF DescriptorOK
<1>13. QED
  BY <1>4, <1>7, <1>8, <1>9, <1>10, <1>11, <1>12 DEF MboxInv

LEMMA MboxGetUnlockInv == ASSUME MboxInv, MboxGetUnlock PROVE MboxInv'
<1>0. /\ PendInv /\ PendTypeOK /\ QueueMatchesState /\ RunnableIsFree /\ MboxTypeOK
      /\ MboxThreadsOK /\ MboxGetOK /\ NoneMissed
      /\ \A u \in Callers : MboxCallOK(u) /\ MboxMessageOK(u)
      /\ \A d \in Dummies : DescriptorOK(d)
  BY DEF MboxInv, PendInv
<1>1. PICK s \in Threads, t \in Callers :
        /\ s = sec.th /\ t = sec.item
        /\ mb.rx[t].from = s /\ mb.pc[t] = "locked" /\ pendedOn[s] = None
  BY <1>0, MboxTypes DEF MboxGetUnlock, MboxGetOK, MboxGetting
<1>2. PICK p \in {"dispose", "holding"} : p = Received(mb.rx[t].now)
  BY DEF Received
<1>3. /\ sec.st = "leaving" /\ firing = None
      /\ timeout' = [timeout EXCEPT ![s] = FALSE]
      /\ mb' = [mb EXCEPT !.pc[t] = p]
      /\ sec' = [st |-> "free", th |-> None, item |-> None]
      /\ UNCHANGED <<prio, waitq, pendedOn, firing, suspending, swapRet, runnable, halted>>
  BY <1>0, <1>1, <1>2 DEF MboxGetUnlock, MboxThreadsOK, Free
<1>4. ~timeout'[s] /\ \A u \in Threads : u # s => timeout'[u] = timeout[u]
  BY <1>0, <1>3 DEF PendTypeOK
<1>5. PendInv'
  BY <1>0, <1>3, <1>4 DEF PendInv, PendTypeOK, QueueMatchesState, RunnableIsFree
<1>6. /\ mb'.tx = mb.tx /\ mb'.rx = mb.rx /\ mb'.free = mb.free
      /\ mb'.disposed = mb.disposed /\ mb'.pc = [mb.pc EXCEPT ![t] = p]
  BY <1>0, <1>3 DEF MboxTypeOK
<1>7. mb'.pc[t] = p /\ \A u \in Callers : u # t => mb'.pc[u] = mb.pc[u]
  BY <1>0, <1>6 DEF MboxTypeOK
<1>8. MboxTypeOK'
  BY <1>0, <1>3 DEF MboxTypeOK, MboxSections, MboxStates
<1>9. MboxThreadsOK'
  BY <1>0, <1>1, <1>3, <1>4, <1>7, MboxTypes DEF MboxThreadsOK
<1>10. MboxPutOK' /\ MboxGetOK' /\ NoneMissed'
  BY <1>0, <1>3, <1>6
     DEF NoneMissed, MboxPutOK, MboxGetOK, MboxPutting, MboxGetting
<1>11. ASSUME NEW u \in Callers PROVE MboxCallOK(u)'
  BY <1>0, <1>1, <1>3, <1>6, <1>7, MboxTypes DEF MboxCallOK
<1>12. ASSUME NEW u \in Callers PROVE MboxMessageOK(u)'
  BY <1>0, <1>1, <1>3, <1>4, <1>6, <1>7, MboxTypes
     DEF MboxMessageOK, SenderSleeps, MboxPutting, MboxGetting
<1>13. ASSUME NEW d \in Dummies PROVE DescriptorOK(d)'
  BY <1>0, <1>3, <1>6 DEF DescriptorOK
<1>14. QED
  BY <1>5, <1>8, <1>9, <1>10, <1>11, <1>12, <1>13 DEF MboxInv

(* The calls that need not hold the lock for longer than one step. *)
LEMMA MboxPutWaitInv ==
  ASSUME ~SMP, MboxInv, NEW t \in Callers, NEW s \in Threads,
         NEW x \in Peers \cup {None}, NEW f \in Forevers, MboxPutWait(t, s, x, f)
  PROVE  MboxInv'
<1>0. /\ PendInv /\ PendTypeOK /\ QueueMatchesState /\ RunnableIsFree /\ MboxTypeOK
      /\ MboxThreadsOK /\ NoneMissed
      /\ \A u \in Callers : MboxCallOK(u) /\ MboxMessageOK(u)
      /\ \A d \in Dummies : DescriptorOK(d)
  BY DEF MboxInv, PendInv
<1>1. PICK fv \in BOOLEAN, p \in {"idle", "put"} :
        /\ fv = (f \/ s \in Dummies) /\ p = IF s = t THEN "put" ELSE "idle"
  BY MboxTypes
<1>2. /\ firing = None /\ sec.st = "free" /\ runnable[t] /\ mb.pc[t] = "idle"
      /\ s \in {t} \cup mb.free
      /\ PendCurr(s, TxQ, fv)
      /\ mb' = [mb EXCEPT !.tx[s] = [src |-> t, target |-> x], !.free = @ \ {s},
                          !.pc[t] = IF s = t THEN "put" ELSE @]
      /\ sec' = sec
  BY <1>1 DEF MboxPutWait, MboxIdle, ThreadContext, Unlocked, handVars
<1>3. mb.rx[t].from = None /\ pendedOn[t] = None /\ halted[t] = "no"
  BY <1>0, <1>2, MboxTypes DEF MboxCallOK, RunnableIsFree
<1>4. /\ \A u \in Callers : mb.rx[u].from # s
      /\ pendedOn[s] = None /\ halted[s] = "no" /\ (s \in Callers <=> s = t)
  <2>1. CASE s = t
    BY <1>0, <1>2, <1>3, <2>1, MboxTypes DEF MboxMessageOK, SenderSleeps
  <2>2. CASE s \in mb.free
    BY <1>0, <2>2, MboxTypes DEF DescriptorOK, MboxTypeOK, MboxThreadsOK
  <2>3. QED
    BY <1>2, <2>1, <2>2
<1>5. PendInv'
  BY <1>0, <1>2, <1>4, PendAnyInv, MboxTypes
<1>6. /\ pendedOn'[s] = TxQ /\ timeout'[s] = ~fv /\ swapRet'[s] = "EAGAIN"
      /\ ~runnable'[s]
      /\ \A u \in Threads : u # s =>
           /\ pendedOn'[u] = pendedOn[u] /\ timeout'[u] = timeout[u]
           /\ swapRet'[u] = swapRet[u] /\ runnable'[u] = runnable[u]
      /\ UNCHANGED <<firing, suspending, halted>>
  BY <1>0, <1>2 DEF PendCurr, PendTypeOK
<1>7. /\ mb'.tx = [mb.tx EXCEPT ![s] = [src |-> t, target |-> x]]
      /\ mb'.rx = mb.rx /\ mb'.free = mb.free \ {s}
      /\ mb'.disposed = mb.disposed
      /\ mb'.pc = [mb.pc EXCEPT ![t] = p]
  BY <1>0, <1>1, <1>2 DEF MboxTypeOK
<1>8. /\ mb'.tx[s] = [src |-> t, target |-> x]
      /\ \A u \in Threads : u # s => mb'.tx[u] = mb.tx[u]
      /\ mb'.pc[t] = p /\ \A u \in Callers : u # t => mb'.pc[u] = mb.pc[u]
  BY <1>0, <1>7 DEF MboxTypeOK
<1>9. MboxTypeOK'
  <2>1. /\ [src |-> t, target |-> x] \in TxMessages /\ p \in MboxStates
        /\ sec' \in MboxSections
    BY <1>0, <1>1, <1>2 DEF TxMessages, MboxStates, MboxTypeOK
  <2>2. /\ [mb.tx EXCEPT ![s] = [src |-> t, target |-> x]] \in [Threads -> TxMessages]
        /\ [mb.pc EXCEPT ![t] = p] \in [Callers -> MboxStates]
        /\ mb.rx \in [Callers -> RxMessages] /\ mb.free \ {s} \in SUBSET Dummies
        /\ mb.disposed \in SUBSET Callers
    BY <1>0, <2>1 DEF MboxTypeOK
  <2>3. mb' = [tx |-> [mb.tx EXCEPT ![s] = [src |-> t, target |-> x]], rx |-> mb.rx,
               pc |-> [mb.pc EXCEPT ![t] = p], free |-> mb.free \ {s},
               disposed |-> mb.disposed]
    BY <1>0, <1>1, <1>2 DEF MboxTypeOK
  <2>4. QED
    BY <2>1, <2>2, <2>3, MboxTyped
<1>10. MboxThreadsOK'
  <2>1. \A u \in Threads : u # s /\ u # t =>
          /\ pendedOn'[u] = pendedOn[u] /\ timeout'[u] = timeout[u]
          /\ u \in Callers => mb'.pc[u] = mb.pc[u]
    BY <1>6, <1>8
  <2>2. s \in Callers => mb'.pc[s] = "put"
    BY <1>1, <1>4, <1>8
  <2>3. s # t => pendedOn'[t] = None /\ timeout'[t] = timeout[t]
    BY <1>3, <1>6, MboxTypes
  <2>4. timeout'[s] => s \in Callers
    BY <1>1, <1>6, MboxTypes
  <2>5. QED
    BY <1>0, <1>2, <1>4, <1>6, <2>1, <2>2, <2>3, <2>4, MboxTypes DEF MboxThreadsOK
<1>11. MboxPutOK' /\ MboxGetOK'
  BY <1>2 DEF MboxPutOK, MboxGetOK, MboxPutting, MboxGetting
<1>12. NoneMissed'
  <2>1. \A r \in Threads : pendedOn[r] = RxQ =>
          ~Matches([src |-> t, target |-> x], r, mb.rx[r].source)
    BY <1>0, FirstReceiverFacts DEF MboxPutWait
  <2>2. SUFFICES ASSUME NEW a \in Threads, NEW r \in Callers,
                        pendedOn'[a] = TxQ, pendedOn'[r] = RxQ
                 PROVE  ~Matches(mb'.tx[a], r, mb'.rx[r].source)
    BY DEF NoneMissed, Matches
  <2>3. pendedOn[r] = RxQ /\ r \in Threads
    BY <1>6, <2>2, MboxTypes
  <2>4. CASE a = s
    BY <1>7, <1>8, <2>1, <2>3, <2>4
  <2>5. CASE a # s
    BY <1>0, <1>6, <1>7, <1>8, <2>2, <2>3, <2>5 DEF NoneMissed
  <2>6. QED
    BY <2>4, <2>5
<1>13. ASSUME NEW u \in Callers PROVE MboxCallOK(u)'
  BY <1>0, <1>1, <1>2, <1>3, <1>4, <1>6, <1>7, <1>8, MboxTypes DEF MboxCallOK
<1>14. ASSUME NEW u \in Callers PROVE MboxMessageOK(u)'
  <2>1. mb.rx[u].from # None => mb.rx[u].from \in Threads /\ mb.rx[u].from # t
    BY <1>0, <1>2, <1>3, MboxTypes
       DEF MboxMessageOK, SenderSleeps, MboxTypeOK, RxMessages
  <2>2. QED
    BY <1>0, <1>2, <1>3, <1>4, <1>6, <1>7, <1>8, <2>1, MboxTypes
       DEF MboxMessageOK, SenderSleeps, MboxPutting, MboxGetting
<1>15. ASSUME NEW d \in Dummies PROVE DescriptorOK(d)'
  BY <1>0, <1>4, <1>6, <1>7, MboxTypes DEF DescriptorOK
<1>16. QED
  BY <1>5, <1>9, <1>10, <1>11, <1>12, <1>13, <1>14, <1>15 DEF MboxInv


LEMMA MboxPutReturnInv ==
  ASSUME ~SMP, MboxInv, NEW t \in Callers, MboxPutReturn(t) PROVE MboxInv'
<1>0. /\ PendInv /\ PendTypeOK /\ QueueMatchesState /\ RunnableIsFree /\ MboxTypeOK
      /\ MboxThreadsOK /\ NoneMissed
      /\ \A u \in Callers : MboxCallOK(u) /\ MboxMessageOK(u)
      /\ \A d \in Dummies : DescriptorOK(d)
  BY DEF MboxInv, PendInv
<1>1. /\ firing = None /\ sec.st = "free" /\ runnable[t] /\ mb.pc[t] = "put"
      /\ mb' = [mb EXCEPT !.pc[t] = "idle", !.disposed = @ \ {t},
                          !.tx[t] = [src |-> None, target |-> None]]
      /\ UNCHANGED <<pendVars, sec>>
  BY DEF MboxPutReturn, ThreadContext, Others, Unlocked, handVars, NoTx
<1>2. /\ mb.rx[t].from = None /\ pendedOn[t] = None /\ t \in Threads
      /\ \A u \in Callers : mb.rx[u].from # t
  BY <1>0, <1>1, MboxTypes
     DEF MboxCallOK, MboxMessageOK, SenderSleeps, RunnableIsFree
<1>3. PendInv' /\ UNCHANGED <<pendedOn, timeout, firing, suspending, swapRet, runnable, halted>>
  BY <1>0, <1>1, PendStutterInv DEF pendVars
<1>4. mb' = [tx |-> [mb.tx EXCEPT ![t] = [src |-> None, target |-> None]],
             rx |-> mb.rx, pc |-> [mb.pc EXCEPT ![t] = "idle"], free |-> mb.free,
             disposed |-> mb.disposed \ {t}]
  BY <1>0, <1>1 DEF MboxTypeOK
<1>5. /\ mb'.rx = mb.rx /\ mb'.free = mb.free /\ mb'.disposed = mb.disposed \ {t}
      /\ mb'.pc[t] = "idle" /\ \A u \in Callers : u # t => mb'.pc[u] = mb.pc[u]
      /\ \A u \in Threads : u # t => mb'.tx[u] = mb.tx[u]
  BY <1>0, <1>4 DEF MboxTypeOK
<1>6. MboxTypeOK'
  <2>1. /\ [mb.tx EXCEPT ![t] = [src |-> None, target |-> None]] \in [Threads -> TxMessages]
        /\ [mb.pc EXCEPT ![t] = "idle"] \in [Callers -> MboxStates]
        /\ mb.rx \in [Callers -> RxMessages] /\ mb.free \in SUBSET Dummies
        /\ mb.disposed \ {t} \in SUBSET Callers /\ sec' \in MboxSections
    BY <1>0, <1>1 DEF MboxTypeOK, TxMessages, MboxStates
  <2>2. QED
    BY <1>4, <2>1, MboxTyped
<1>7. MboxThreadsOK' /\ MboxPutOK' /\ MboxGetOK'
  BY <1>0, <1>1, <1>2, <1>3, <1>5, MboxTypes
     DEF MboxThreadsOK, MboxPutOK, MboxGetOK, MboxPutting, MboxGetting
<1>8. NoneMissed'
  BY <1>0, <1>2, <1>3, <1>5, MboxTypes DEF NoneMissed
<1>9. ASSUME NEW u \in Callers PROVE MboxCallOK(u)'
  BY <1>0, <1>1, <1>2, <1>3, <1>5, MboxTypes DEF MboxCallOK
<1>10. ASSUME NEW u \in Callers PROVE MboxMessageOK(u)'
  BY <1>0, <1>1, <1>2, <1>3, <1>5, MboxTypes
     DEF MboxMessageOK, SenderSleeps, MboxPutting, MboxGetting
<1>11. ASSUME NEW d \in Dummies PROVE DescriptorOK(d)'
  BY <1>0, <1>3, <1>5 DEF DescriptorOK
<1>12. QED
  BY <1>3, <1>6, <1>7, <1>8, <1>9, <1>10, <1>11 DEF MboxInv

LEMMA MboxGetMatchInv ==
  ASSUME ~SMP, MboxInv, NEW t \in Callers, NEW x \in Peers \cup {None},
         NEW now \in BOOLEAN, MboxGetMatch(t, x, now)
  PROVE  MboxInv'
<1>0. /\ PendInv /\ PendTypeOK /\ QueueMatchesState /\ RunnableIsFree /\ MboxTypeOK
      /\ MboxThreadsOK /\ NoneMissed
      /\ \A u \in Callers : MboxCallOK(u) /\ MboxMessageOK(u)
      /\ \A d \in Dummies : DescriptorOK(d)
  BY DEF MboxInv, PendInv
<1>1. PICK s \in Threads : s = waitq[TxQ][FirstSender(t, x)] /\ pendedOn[s] = TxQ
  BY <1>0, FirstSenderFacts DEF MboxGetMatch
<1>2. PICK m \in RxMessages : m = [source |-> x, now |-> now, from |-> s]
  BY DEF RxMessages
<1>3. /\ firing = None /\ sec.st = "free" /\ runnable[t] /\ mb.pc[t] = "idle"
      /\ mb' = [mb EXCEPT !.rx[t] = m, !.pc[t] = "locked"]
      /\ sec' = [st |-> "taken", th |-> s, item |-> t]
      /\ UNCHANGED pendVars
  BY <1>1, <1>2 DEF MboxGetMatch, MboxIdle, ThreadContext, Unlocked
<1>4. /\ mb.rx[t].from = None /\ pendedOn[t] = None /\ t \in Threads /\ s # t
      /\ \A u \in Callers : mb.rx[u].from # s /\ mb.rx[u].from # t
      /\ s \in Callers => mb.pc[s] = "put"
  BY <1>0, <1>1, <1>3, MboxTypes
     DEF MboxCallOK, MboxMessageOK, SenderSleeps, RunnableIsFree, MboxThreadsOK
<1>5. PendInv' /\ UNCHANGED <<pendedOn, timeout, firing, suspending, swapRet, runnable, halted>>
  BY <1>0, <1>3, PendStutterInv DEF pendVars
<1>6. mb' = [tx |-> mb.tx, rx |-> [mb.rx EXCEPT ![t] = m],
             pc |-> [mb.pc EXCEPT ![t] = "locked"], free |-> mb.free,
             disposed |-> mb.disposed]
  BY <1>0, <1>3 DEF MboxTypeOK
<1>7. /\ mb'.tx = mb.tx /\ mb'.free = mb.free /\ mb'.disposed = mb.disposed
      /\ mb'.pc[t] = "locked" /\ \A u \in Callers : u # t => mb'.pc[u] = mb.pc[u]
      /\ mb'.rx[t].from = s /\ \A u \in Callers : u # t => mb'.rx[u] = mb.rx[u]
  BY <1>0, <1>2, <1>6 DEF MboxTypeOK
<1>8. MboxTypeOK'
  <2>1. /\ [mb.rx EXCEPT ![t] = m] \in [Callers -> RxMessages]
        /\ [mb.pc EXCEPT ![t] = "locked"] \in [Callers -> MboxStates]
        /\ mb.tx \in [Threads -> TxMessages] /\ mb.free \in SUBSET Dummies
        /\ mb.disposed \in SUBSET Callers /\ sec' \in MboxSections
    BY <1>0, <1>3, <1>4 DEF MboxTypeOK, MboxStates, MboxSections, MboxGetting
  <2>2. QED
    BY <1>6, <2>1, MboxTyped
<1>9. MboxThreadsOK'
  BY <1>0, <1>3, <1>4, <1>5, <1>7, MboxTypes DEF MboxThreadsOK
<1>10. MboxPutOK' /\ MboxGetOK'
  BY <1>1, <1>3, <1>5, <1>7
     DEF MboxPutOK, MboxGetOK, MboxPutting, MboxGetting
<1>11. NoneMissed'
  BY <1>0, <1>4, <1>5, <1>7, MboxTypes DEF NoneMissed
<1>12. ASSUME NEW u \in Callers PROVE MboxCallOK(u)'
  BY <1>0, <1>3, <1>4, <1>5, <1>7, MboxTypes DEF MboxCallOK
<1>13. ASSUME NEW u \in Callers PROVE MboxMessageOK(u)'
  <2>1. CASE u = t
    <3>1. s \in Callers /\ halted[s] = "no" => ~runnable[s]
      BY <1>0, <1>1, MboxTypes DEF RunnableIsFree
    <3>2. QED
      BY <1>3, <1>4, <1>5, <1>7, <2>1, <3>1, MboxTypes
         DEF MboxMessageOK, SenderSleeps, MboxGetting
  <2>2. CASE u # t
    BY <1>0, <1>3, <1>4, <1>5, <1>7, <2>2, MboxTypes
       DEF MboxMessageOK, SenderSleeps, MboxPutting, MboxGetting
  <2>3. QED
    BY <2>1, <2>2
<1>14. ASSUME NEW d \in Dummies PROVE DescriptorOK(d)'
  BY <1>0, <1>1, <1>4, <1>5, <1>7, MboxTypes DEF DescriptorOK
<1>15. QED
  BY <1>5, <1>8, <1>9, <1>10, <1>11, <1>12, <1>13, <1>14 DEF MboxInv

LEMMA MboxGetWaitInv ==
  ASSUME ~SMP, MboxInv, NEW t \in Callers, NEW x \in Peers \cup {None},
         NEW now \in BOOLEAN, NEW f \in Forevers, MboxGetWait(t, x, now, f)
  PROVE  MboxInv'
<1>0. /\ PendInv /\ PendTypeOK /\ QueueMatchesState /\ RunnableIsFree /\ MboxTypeOK
      /\ MboxThreadsOK /\ NoneMissed
      /\ \A u \in Callers : MboxCallOK(u) /\ MboxMessageOK(u)
      /\ \A d \in Dummies : DescriptorOK(d)
  BY DEF MboxInv, PendInv
<1>1. PICK m \in RxMessages : m = [source |-> x, now |-> now, from |-> None]
  BY DEF RxMessages
<1>2. /\ firing = None /\ sec.st = "free" /\ runnable[t] /\ mb.pc[t] = "idle"
      /\ PendCurr(t, RxQ, f) /\ t \in Threads /\ f \in BOOLEAN
      /\ mb' = [mb EXCEPT !.rx[t] = m, !.pc[t] = "get"]
      /\ sec' = sec
  BY <1>1, MboxTypes
     DEF MboxGetWait, MboxIdle, ThreadContext, Unlocked, handVars
<1>3. /\ mb.rx[t].from = None /\ pendedOn[t] = None
      /\ \A u \in Callers : mb.rx[u].from # t
  BY <1>0, <1>2, MboxTypes DEF MboxCallOK, MboxMessageOK, SenderSleeps, RunnableIsFree
<1>4. PendInv'
  BY <1>0, <1>2, PendCurrInv, MboxTypes
<1>5. /\ pendedOn'[t] = RxQ /\ swapRet'[t] = "EAGAIN" /\ ~runnable'[t]
      /\ \A u \in Threads : u # t =>
           /\ pendedOn'[u] = pendedOn[u] /\ timeout'[u] = timeout[u]
           /\ swapRet'[u] = swapRet[u] /\ runnable'[u] = runnable[u]
      /\ UNCHANGED <<firing, suspending, halted>>
  BY <1>0, <1>2 DEF PendCurr, PendTypeOK
<1>6. mb' = [tx |-> mb.tx, rx |-> [mb.rx EXCEPT ![t] = m],
             pc |-> [mb.pc EXCEPT ![t] = "get"], free |-> mb.free,
             disposed |-> mb.disposed]
  BY <1>0, <1>2 DEF MboxTypeOK
<1>7. /\ mb'.tx = mb.tx /\ mb'.free = mb.free /\ mb'.disposed = mb.disposed
      /\ mb'.pc[t] = "get" /\ \A u \in Callers : u # t => mb'.pc[u] = mb.pc[u]
      /\ mb'.rx[t].from = None /\ mb'.rx[t].source = x
      /\ \A u \in Callers : u # t => mb'.rx[u] = mb.rx[u]
  BY <1>0, <1>1, <1>6 DEF MboxTypeOK
<1>8. MboxTypeOK'
  <2>1. /\ [mb.rx EXCEPT ![t] = m] \in [Callers -> RxMessages]
        /\ [mb.pc EXCEPT ![t] = "get"] \in [Callers -> MboxStates]
        /\ mb.tx \in [Threads -> TxMessages] /\ mb.free \in SUBSET Dummies
        /\ mb.disposed \in SUBSET Callers /\ sec' \in MboxSections
    BY <1>0, <1>2 DEF MboxTypeOK, MboxStates
  <2>2. QED
    BY <1>6, <2>1, MboxTyped
<1>9. MboxThreadsOK'
  BY <1>0, <1>2, <1>3, <1>5, <1>7, MboxTypes DEF MboxThreadsOK
<1>10. MboxPutOK' /\ MboxGetOK'
  BY <1>2 DEF MboxPutOK, MboxGetOK, MboxPutting, MboxGetting
<1>11. NoneMissed'
  <2>1. \A s \in Threads : pendedOn[s] = TxQ => ~Matches(mb.tx[s], t, x)
    BY <1>0, FirstSenderFacts DEF MboxGetWait
  <2>2. SUFFICES ASSUME NEW s \in Threads, NEW r \in Callers,
                        pendedOn'[s] = TxQ, pendedOn'[r] = RxQ
                 PROVE  ~Matches(mb'.tx[s], r, mb'.rx[r].source)
    BY DEF NoneMissed, Matches
  <2>3. pendedOn[s] = TxQ
    BY <1>5, <2>2, MboxTypes
  <2>4. CASE r = t
    BY <1>7, <2>1, <2>3, <2>4
  <2>5. CASE r # t
    BY <1>0, <1>5, <1>7, <2>2, <2>3, <2>5, MboxTypes DEF NoneMissed
  <2>6. QED
    BY <2>4, <2>5
<1>12. ASSUME NEW u \in Callers PROVE MboxCallOK(u)'
  <2>1. CASE u = t
    BY <1>7, <2>1 DEF MboxCallOK
  <2>2. CASE u # t
    BY <1>0, <1>2, <1>3, <1>5, <1>7, <2>2, MboxTypes DEF MboxCallOK
  <2>3. QED
    BY <2>1, <2>2
<1>13. ASSUME NEW u \in Callers PROVE MboxMessageOK(u)'
  <2>1. CASE u = t
    BY <1>7, <2>1 DEF MboxMessageOK
  <2>2. CASE u # t
    <3>1. mb.rx[u].from # t /\ mb.rx[u].from \in Threads \cup {None}
      BY <1>0, <1>3 DEF MboxTypeOK, RxMessages
    <3>2. QED
      BY <1>0, <1>2, <1>3, <1>5, <1>7, <2>2, <3>1, MboxTypes
         DEF MboxMessageOK, SenderSleeps, MboxPutting, MboxGetting
  <2>3. QED
    BY <2>1, <2>2
<1>14. ASSUME NEW d \in Dummies PROVE DescriptorOK(d)'
  BY <1>0, <1>2, <1>3, <1>5, <1>7, MboxTypes DEF DescriptorOK
<1>15. QED
  BY <1>4, <1>8, <1>9, <1>10, <1>11, <1>12, <1>13, <1>14 DEF MboxInv


LEMMA MboxGetReturnInv ==
  ASSUME ~SMP, MboxInv, NEW t \in Callers, MboxGetReturn(t) \/ MboxDataGet(t)
  PROVE  MboxInv'
<1>0. /\ PendInv /\ PendTypeOK /\ QueueMatchesState /\ RunnableIsFree /\ MboxTypeOK
      /\ MboxThreadsOK /\ NoneMissed
      /\ \A u \in Callers : MboxCallOK(u) /\ MboxMessageOK(u)
      /\ \A d \in Dummies : DescriptorOK(d)
  BY DEF MboxInv, PendInv
<1>1. /\ firing = None /\ sec.st = "free" /\ runnable[t] /\ mb.pc[t] \in {"get", "holding"}
      /\ UNCHANGED <<pendVars, sec>>
  BY DEF MboxGetReturn, MboxDataGet, ThreadContext, Others, Unlocked, handVars
<1>2. PICK p \in {"idle", "holding", "dispose"}, m \in RxMessages :
        /\ mb' = [tx |-> mb.tx, rx |-> [mb.rx EXCEPT ![t] = m],
                  pc |-> [mb.pc EXCEPT ![t] = p], free |-> mb.free,
                  disposed |-> mb.disposed]
        /\ m.from = mb.rx[t].from /\ (p = "idle" => m.from = None)
  <2>1. mb.rx[t] \in RxMessages /\ mb.rx = [mb.rx EXCEPT ![t] = mb.rx[t]]
    BY <1>0 DEF MboxTypeOK
  <2>2. CASE MboxGetReturn(t) /\ swapRet[t] = "0"
    <3>1. PICK p \in {"holding", "dispose"} : p = Received(mb.rx[t].now)
      BY DEF Received
    <3>2. mb' = [tx |-> mb.tx, rx |-> [mb.rx EXCEPT ![t] = mb.rx[t]],
                 pc |-> [mb.pc EXCEPT ![t] = p], free |-> mb.free,
                 disposed |-> mb.disposed]
      BY <1>0, <2>1, <2>2, <3>1 DEF MboxGetReturn, MboxTypeOK
    <3>3. QED
      BY <2>1, <3>1, <3>2
  <2>3. CASE MboxGetReturn(t) /\ swapRet[t] # "0"
    <3>1. mb.rx[t].from = None
      BY <1>0, <1>1, <2>3 DEF MboxCallOK, MboxGetReturn
    <3>2. NoRx \in RxMessages /\ NoRx.from = None
      BY DEF NoRx, RxMessages
    <3>3. mb' = [tx |-> mb.tx, rx |-> [mb.rx EXCEPT ![t] = NoRx],
                 pc |-> [mb.pc EXCEPT ![t] = "idle"], free |-> mb.free,
                 disposed |-> mb.disposed]
      BY <1>0, <2>3 DEF MboxGetReturn, MboxTypeOK
    <3>4. QED
      BY <3>1, <3>2, <3>3
  <2>4. CASE MboxDataGet(t)
    <3>1. mb' = [tx |-> mb.tx, rx |-> [mb.rx EXCEPT ![t] = mb.rx[t]],
                 pc |-> [mb.pc EXCEPT ![t] = "dispose"], free |-> mb.free,
                 disposed |-> mb.disposed]
      BY <1>0, <2>1, <2>4 DEF MboxDataGet, MboxTypeOK
    <3>2. QED
      BY <2>1, <3>1
  <2>5. QED
    BY <2>2, <2>3, <2>4
<1>3. /\ mb'.tx = mb.tx /\ mb'.free = mb.free /\ mb'.disposed = mb.disposed
      /\ mb'.pc[t] = p /\ \A u \in Callers : u # t => mb'.pc[u] = mb.pc[u]
      /\ \A u \in Callers : u # t => mb'.rx[u] = mb.rx[u]
      /\ \A u \in Callers : mb'.rx[u].from = mb.rx[u].from
  BY <1>0, <1>2 DEF MboxTypeOK
<1>4. pendedOn[t] = None /\ t \in Threads /\ \A u \in Callers : mb.rx[u].from # t
  BY <1>0, <1>1, MboxTypes DEF MboxMessageOK, SenderSleeps, RunnableIsFree
<1>5. PendInv' /\ UNCHANGED <<pendedOn, timeout, firing, suspending, swapRet, runnable, halted>>
  BY <1>0, <1>1, PendStutterInv DEF pendVars
<1>6. MboxTypeOK'
  <2>1. /\ [mb.rx EXCEPT ![t] = m] \in [Callers -> RxMessages]
        /\ [mb.pc EXCEPT ![t] = p] \in [Callers -> MboxStates]
        /\ mb.tx \in [Threads -> TxMessages] /\ mb.free \in SUBSET Dummies
        /\ mb.disposed \in SUBSET Callers /\ sec' \in MboxSections
    BY <1>0, <1>1 DEF MboxTypeOK, MboxStates
  <2>2. QED
    BY <1>2, <2>1, MboxTyped
<1>7. MboxThreadsOK' /\ MboxPutOK' /\ MboxGetOK'
  BY <1>0, <1>1, <1>3, <1>4, <1>5, MboxTypes
     DEF MboxThreadsOK, MboxPutOK, MboxGetOK, MboxPutting, MboxGetting
<1>8. NoneMissed'
  BY <1>0, <1>3, <1>4, <1>5, MboxTypes DEF NoneMissed
<1>9. ASSUME NEW u \in Callers PROVE MboxCallOK(u)'
  BY <1>0, <1>1, <1>2, <1>3, <1>5, MboxTypes DEF MboxCallOK
<1>10. ASSUME NEW u \in Callers PROVE MboxMessageOK(u)'
  BY <1>0, <1>1, <1>3, <1>4, <1>5, MboxTypes
     DEF MboxMessageOK, SenderSleeps, MboxPutting, MboxGetting
<1>11. ASSUME NEW d \in Dummies PROVE DescriptorOK(d)'
  BY <1>0, <1>3, <1>5 DEF DescriptorOK
<1>12. QED
  BY <1>5, <1>6, <1>7, <1>8, <1>9, <1>10, <1>11 DEF MboxInv

LEMMA MboxDisposeAsyncInv ==
  ASSUME ~SMP, MboxInv, NEW t \in Callers, MboxDisposeAsync(t) PROVE MboxInv'
<1>0. /\ PendInv /\ PendTypeOK /\ QueueMatchesState /\ RunnableIsFree /\ MboxTypeOK
      /\ MboxThreadsOK /\ NoneMissed
      /\ \A u \in Callers : MboxCallOK(u) /\ MboxMessageOK(u)
      /\ \A d \in Dummies : DescriptorOK(d)
  BY DEF MboxInv, PendInv
<1>1. PICK d \in Dummies : d = mb.rx[t].from
  BY DEF MboxDisposeAsync
<1>2. /\ firing = None /\ sec.st = "free" /\ runnable[t] /\ mb.pc[t] = "dispose"
      /\ mb' = [mb EXCEPT !.free = @ \cup {d}, !.tx[d] = NoTx, !.rx[t] = NoRx,
                          !.pc[t] = "idle"]
      /\ UNCHANGED <<pendVars, sec>>
  BY <1>1 DEF MboxDisposeAsync, ThreadContext, Others, Unlocked, handVars
<1>3. NoTx \in TxMessages /\ NoRx \in RxMessages /\ NoRx.from = None
  BY DEF NoTx, NoRx, TxMessages, RxMessages
<1>4. /\ d \in Threads /\ pendedOn[d] = None /\ pendedOn[t] = None /\ t \in Threads
      /\ \A u \in Callers : u # t => mb.rx[u].from # d
      /\ \A u \in Callers : mb.rx[u].from # t
  <2>1. pendedOn[d] # TxQ /\ pendedOn[d] # RxQ /\ pendedOn[d] # NullQ
    BY <1>0, <1>1, <1>2, MboxTypes DEF MboxMessageOK, MboxThreadsOK
  <2>2. QED
    BY <1>0, <1>1, <1>2, <2>1, MboxTypes
       DEF MboxMessageOK, SenderSleeps, RunnableIsFree, MboxThreadsOK
<1>5. PendInv' /\ UNCHANGED <<pendedOn, timeout, firing, suspending, swapRet, runnable, halted>>
  BY <1>0, <1>2, PendStutterInv DEF pendVars
<1>6. mb' = [tx |-> [mb.tx EXCEPT ![d] = NoTx], rx |-> [mb.rx EXCEPT ![t] = NoRx],
             pc |-> [mb.pc EXCEPT ![t] = "idle"], free |-> mb.free \cup {d},
             disposed |-> mb.disposed]
  BY <1>0, <1>2 DEF MboxTypeOK
<1>7. /\ mb'.free = mb.free \cup {d} /\ mb'.disposed = mb.disposed
      /\ mb'.pc[t] = "idle" /\ \A u \in Callers : u # t => mb'.pc[u] = mb.pc[u]
      /\ mb'.rx[t].from = None /\ \A u \in Callers : u # t => mb'.rx[u] = mb.rx[u]
      /\ \A u \in Threads : u # d => mb'.tx[u] = mb.tx[u]
  BY <1>0, <1>3, <1>6 DEF MboxTypeOK
<1>8. MboxTypeOK'
  <2>1. /\ [mb.rx EXCEPT ![t] = NoRx] \in [Callers -> RxMessages]
        /\ [mb.pc EXCEPT ![t] = "idle"] \in [Callers -> MboxStates]
        /\ [mb.tx EXCEPT ![d] = NoTx] \in [Threads -> TxMessages]
        /\ mb.free \cup {d} \in SUBSET Dummies
        /\ mb.disposed \in SUBSET Callers /\ sec' \in MboxSections
    BY <1>0, <1>2, <1>3 DEF MboxTypeOK, MboxStates
  <2>2. QED
    BY <1>6, <2>1, MboxTyped
<1>9. MboxThreadsOK' /\ MboxPutOK' /\ MboxGetOK'
  BY <1>0, <1>2, <1>4, <1>5, <1>7, MboxTypes
     DEF MboxThreadsOK, MboxPutOK, MboxGetOK, MboxPutting, MboxGetting
<1>10. NoneMissed'
  BY <1>0, <1>4, <1>5, <1>7, MboxTypes DEF NoneMissed
<1>11. ASSUME NEW u \in Callers PROVE MboxCallOK(u)'
  <2>1. mb.rx[t].from # u
    BY <1>1, MboxTypes
  <2>2. (\E r \in Callers : mb.rx[r].from = u) => \E r \in Callers : mb'.rx[r].from = u
    BY <1>7, <2>1
  <2>3. QED
    BY <1>0, <1>2, <1>5, <1>7, <2>2, MboxTypes DEF MboxCallOK
<1>12. ASSUME NEW u \in Callers PROVE MboxMessageOK(u)'
  BY <1>0, <1>2, <1>4, <1>5, <1>7, MboxTypes
     DEF MboxMessageOK, SenderSleeps, MboxPutting, MboxGetting
<1>13. ASSUME NEW e \in Dummies PROVE DescriptorOK(e)'
  <2>1. CASE e = d
    BY <1>4, <1>5, <1>7, <2>1, MboxTypes DEF DescriptorOK
  <2>2. CASE e # d
    BY <1>0, <1>1, <1>5, <1>7, <2>2, MboxTypes DEF DescriptorOK
  <2>3. QED
    BY <2>1, <2>2
<1>14. QED
  BY <1>5, <1>8, <1>9, <1>10, <1>11, <1>12, <1>13 DEF MboxInv

LEMMA MboxDisposeInv ==
  ASSUME ~SMP, MboxInv, NEW t \in Callers, MboxDispose(t) PROVE MboxInv'
<1>0. /\ PendInv /\ PendTypeOK /\ QueueMatchesState /\ RunnableIsFree /\ MboxTypeOK
      /\ MboxThreadsOK /\ NoneMissed
      /\ \A u \in Callers : MboxCallOK(u) /\ MboxMessageOK(u)
      /\ \A d \in Dummies : DescriptorOK(d)
  BY DEF MboxInv, PendInv
<1>1. PICK s \in Callers : s = mb.rx[t].from
  BY DEF MboxDispose
<1>2. /\ firing = None /\ sec.st = "free" /\ runnable[t] /\ mb.pc[t] = "dispose"
      /\ SetRetval(s, "0") /\ sec' = sec
      /\ mb' = [mb EXCEPT !.disposed = @ \cup {s}, !.pc[t] = "disposed"]
  BY <1>1 DEF MboxDispose, ThreadContext, Others, Unlocked, handVars
<1>3. /\ t \in Threads /\ s \in Threads /\ pendedOn[t] = None
      /\ \A u \in Callers : mb.rx[u].from # t
  BY <1>0, <1>2, MboxTypes DEF MboxMessageOK, SenderSleeps, RunnableIsFree
<1>4. /\ PendInv' /\ swapRet'[s] = "0"
      /\ \A u \in Threads : u # s => swapRet'[u] = swapRet[u]
      /\ UNCHANGED <<pendedOn, timeout, firing, suspending, runnable, halted>>
  BY <1>0, <1>2, <1>3, SetRetvalInv DEF SetRetval, PendTypeOK, RetVals
<1>5. mb' = [tx |-> mb.tx, rx |-> mb.rx, pc |-> [mb.pc EXCEPT ![t] = "disposed"],
             free |-> mb.free, disposed |-> mb.disposed \cup {s}]
  BY <1>0, <1>2 DEF MboxTypeOK
<1>6. /\ mb'.tx = mb.tx /\ mb'.rx = mb.rx /\ mb'.free = mb.free
      /\ mb'.disposed = mb.disposed \cup {s}
      /\ mb'.pc[t] = "disposed" /\ \A u \in Callers : u # t => mb'.pc[u] = mb.pc[u]
  BY <1>0, <1>5 DEF MboxTypeOK
<1>7. MboxTypeOK'
  <2>1. /\ [mb.pc EXCEPT ![t] = "disposed"] \in [Callers -> MboxStates]
        /\ mb.tx \in [Threads -> TxMessages] /\ mb.rx \in [Callers -> RxMessages]
        /\ mb.free \in SUBSET Dummies
        /\ mb.disposed \cup {s} \in SUBSET Callers /\ sec' \in MboxSections
    BY <1>0, <1>2 DEF MboxTypeOK, MboxStates
  <2>2. QED
    BY <1>5, <2>1, MboxTyped
<1>8. MboxThreadsOK' /\ MboxPutOK' /\ MboxGetOK'
  BY <1>0, <1>2, <1>3, <1>4, <1>6, MboxTypes
     DEF MboxThreadsOK, MboxPutOK, MboxGetOK, MboxPutting, MboxGetting
<1>9. NoneMissed'
  BY <1>0, <1>4, <1>6 DEF NoneMissed
<1>10. ASSUME NEW u \in Callers PROVE MboxCallOK(u)'
  BY <1>0, <1>1, <1>2, <1>4, <1>6, MboxTypes DEF MboxCallOK
<1>11. ASSUME NEW u \in Callers PROVE MboxMessageOK(u)'
  BY <1>0, <1>2, <1>3, <1>4, <1>6, MboxTypes
     DEF MboxMessageOK, SenderSleeps, MboxPutting, MboxGetting
<1>12. ASSUME NEW d \in Dummies PROVE DescriptorOK(d)'
  BY <1>0, <1>4, <1>6 DEF DescriptorOK
<1>13. QED
  BY <1>4, <1>7, <1>8, <1>9, <1>10, <1>11, <1>12 DEF MboxInv


LEMMA MboxWakeSenderInv ==
  ASSUME ~SMP, MboxInv, NEW t \in Callers, MboxWakeSender(t) PROVE MboxInv'
<1>0. /\ PendInv /\ PendTypeOK /\ QueueMatchesState /\ RunnableIsFree /\ MboxTypeOK
      /\ MboxThreadsOK /\ NoneMissed
      /\ \A u \in Callers : MboxCallOK(u) /\ MboxMessageOK(u)
      /\ \A d \in Dummies : DescriptorOK(d)
  BY DEF MboxInv, PendInv
<1>1. PICK s \in Callers : s = mb.rx[t].from
  BY <1>0 DEF MboxWakeSender, MboxCallOK
<1>2. /\ firing = None /\ sec.st = "free" /\ runnable[t] /\ mb.pc[t] = "disposed"
      /\ IF pendedOn[s] = NullQ THEN UnpendNoTimeout(s)
         ELSE UNCHANGED <<waitq, pendedOn>>
      /\ runnable' = [runnable EXCEPT ![s] = @ \/ (halted[s] = "no" /\ ~timeout[s])]
      /\ mb' = [mb EXCEPT !.rx[t] = NoRx, !.pc[t] = "idle"]
      /\ UNCHANGED <<prio, timeout, firing, suspending, swapRet, halted, sec>>
  BY <1>1 DEF MboxWakeSender, ThreadContext, Others, Unlocked, handVars
<1>3. /\ t \in Threads /\ s \in Threads /\ pendedOn[t] = None /\ s # t
      /\ \A u \in Callers : mb.rx[u].from # t
      /\ \A u \in Callers : u # t => mb.rx[u].from # s
      /\ halted[s] = "no" => mb.pc[s] = "put" /\ ~runnable[s] /\ ~timeout[s]
  BY <1>0, <1>1, <1>2, MboxTypes
     DEF MboxMessageOK, SenderSleeps, RunnableIsFree, MboxPutting, MboxGetting
<1>4. pendedOn[s] \in {None, NullQ} /\ halted[s] \in {"no", "dead"}
  <2>1. halted[s] \in {"no", "dead"}
    BY <1>0, <1>3 DEF MboxThreadsOK, PendTypeOK
  <2>2. CASE halted[s] = "dead"
    BY <1>0, <1>3, <2>2 DEF RunnableIsFree
  <2>3. CASE halted[s] = "no"
    BY <1>0, <1>1, <1>2, <1>3, <2>3, MboxTypes DEF MboxThreadsOK, MboxMessageOK
  <2>4. QED
    BY <2>1, <2>2, <2>3
<1>5. /\ QueueMatchesState' /\ pendedOn'[s] = None
      /\ waitq' \in [WaitQs -> Seq(Threads)]
      /\ pendedOn' \in [Threads -> WaitQs \cup {None}]
      /\ \A u \in Threads : u # s => pendedOn'[u] = pendedOn[u]
  <2>1. CASE pendedOn[s] = NullQ
    BY <1>0, <1>2, <1>3, <2>1, UnpendNoTimeoutMatch
  <2>2. CASE pendedOn[s] # NullQ
    BY <1>0, <1>2, <1>4, <2>2 DEF QueueMatchesState, PendTypeOK
  <2>3. QED
    BY <2>1, <2>2
<1>6. /\ runnable'[s] = (runnable[s] \/ halted[s] = "no")
      /\ \A u \in Threads : u # s => runnable'[u] = runnable[u]
      /\ runnable' \in [Threads -> BOOLEAN]
  BY <1>0, <1>2, <1>3 DEF PendTypeOK
<1>7. PendInv'
  <2>1. PendTypeOK'
    BY <1>0, <1>2, <1>5, <1>6 DEF PendTypeOK
  <2>2. RunnableIsFree'
    BY <1>0, <1>2, <1>4, <1>5, <1>6 DEF RunnableIsFree
  <2>3. QED
    BY <1>5, <2>1, <2>2 DEF PendInv
<1>8. NoRx \in RxMessages /\ NoRx.from = None
  BY DEF NoRx, RxMessages
<1>9. mb' = [tx |-> mb.tx, rx |-> [mb.rx EXCEPT ![t] = NoRx],
             pc |-> [mb.pc EXCEPT ![t] = "idle"], free |-> mb.free,
             disposed |-> mb.disposed]
  BY <1>0, <1>2 DEF MboxTypeOK
<1>10. /\ mb'.tx = mb.tx /\ mb'.free = mb.free /\ mb'.disposed = mb.disposed
       /\ mb'.pc[t] = "idle" /\ \A u \in Callers : u # t => mb'.pc[u] = mb.pc[u]
       /\ mb'.rx[t].from = None /\ \A u \in Callers : u # t => mb'.rx[u] = mb.rx[u]
  BY <1>0, <1>8, <1>9 DEF MboxTypeOK
<1>11. MboxTypeOK'
  <2>1. /\ [mb.rx EXCEPT ![t] = NoRx] \in [Callers -> RxMessages]
        /\ [mb.pc EXCEPT ![t] = "idle"] \in [Callers -> MboxStates]
        /\ mb.tx \in [Threads -> TxMessages] /\ mb.free \in SUBSET Dummies
        /\ mb.disposed \in SUBSET Callers /\ sec' \in MboxSections
    BY <1>0, <1>2, <1>8 DEF MboxTypeOK, MboxStates
  <2>2. QED
    BY <1>9, <2>1, MboxTyped
<1>12. MboxThreadsOK' /\ MboxPutOK' /\ MboxGetOK'
  BY <1>0, <1>2, <1>3, <1>5, <1>10, MboxTypes
     DEF MboxThreadsOK, MboxPutOK, MboxGetOK, MboxPutting, MboxGetting
<1>13. NoneMissed'
  BY <1>0, <1>3, <1>5, <1>10, MboxTypes DEF NoneMissed
<1>14. ASSUME NEW u \in Callers PROVE MboxCallOK(u)'
  <2>1. CASE u = t
    BY <1>10, <2>1 DEF MboxCallOK
  <2>2. CASE u = s
    BY <1>0, <1>2, <1>3, <1>5, <1>6, <1>10, <2>2, MboxTypes DEF MboxCallOK
  <2>3. CASE u # t /\ u # s
    <3>1. (\E r \in Callers : mb.rx[r].from = u) => \E r \in Callers : mb'.rx[r].from = u
      BY <1>1, <1>10, <2>3
    <3>2. QED
      BY <1>0, <1>2, <1>5, <1>6, <1>10, <2>3, <3>1, MboxTypes DEF MboxCallOK
  <2>4. QED
    BY <2>1, <2>2, <2>3
<1>15. ASSUME NEW u \in Callers PROVE MboxMessageOK(u)'
  <2>1. CASE u = t
    BY <1>10, <2>1 DEF MboxMessageOK
  <2>2. CASE u # t
    <3>1. mb.rx[u].from \notin {s, t} /\ mb.rx[u].from \in Threads \cup {None}
      BY <1>0, <1>3, <2>2 DEF MboxTypeOK, RxMessages
    <3>2. PICK a : a = mb.rx[u].from /\ mb'.rx[u].from = a
      BY <1>10, <2>2
    <3>3. SUFFICES ASSUME a # None
                   PROVE  /\ \A r2 \in Callers : mb'.rx[r2].from = a => r2 = u
                          /\ pendedOn'[a] # TxQ
                          /\ a \in Callers /\ halted'[a] = "no" => SenderSleeps(a)'
      BY <3>2 DEF MboxMessageOK
    <3>4. /\ \A r2 \in Callers : mb.rx[r2].from = a => r2 = u
          /\ pendedOn[a] # TxQ
          /\ a \in Callers /\ halted[a] = "no" => SenderSleeps(a)
      BY <1>0, <1>2, <3>2, <3>3 DEF MboxMessageOK
    <3>5. SenderSleeps(a) /\ a \in Callers => SenderSleeps(a)'
      BY <1>2, <1>6, <1>10, <3>1, <3>2, MboxTypes
         DEF SenderSleeps, MboxPutting, MboxGetting
    <3>6. QED
      BY <1>2, <1>5, <1>10, <3>1, <3>2, <3>3, <3>4, <3>5, MboxTypes
  <2>3. QED
    BY <2>1, <2>2
<1>16. ASSUME NEW d \in Dummies PROVE DescriptorOK(d)'
  <2>1. d # s /\ d \in Threads /\ pendedOn'[d] = pendedOn[d]
    BY <1>5, MboxTypes
  <2>2. \A r \in Callers : mb'.rx[r].from = d <=> mb.rx[r].from = d
    BY <1>1, <1>10, <2>1, MboxTypes
  <2>3. QED
    BY <1>0, <1>10, <2>1, <2>2 DEF DescriptorOK
<1>17. QED
  BY <1>7, <1>11, <1>12, <1>13, <1>14, <1>15, <1>16 DEF MboxInv

(* What time and other threads do: with mb and sec as they are, threads    *)
(* leave their queue to run or to die, and one in TxQ has no receiver yet. *)
LEMMA MboxOutsideInv ==
  ASSUME MboxInv, sec.st = "free", UNCHANGED <<sec, mb, swapRet, suspending>>, PendInv',
         firing' # None => firing' \in Callers /\ ~timeout'[firing'],
         \A t \in Threads :
           /\ halted'[t] \in {halted[t], "dead"}
           /\ t \in Dummies => halted'[t] = "no" /\ pendedOn'[t] = pendedOn[t]
           /\ pendedOn'[t] \in {pendedOn[t], None}
           /\ timeout'[t] => timeout[t]
           /\ firing' = t => firing = t \/ timeout[t]
           /\ runnable'[t] => runnable[t] \/ firing = t
           /\ pendedOn'[t] # pendedOn[t] \/ runnable'[t] # runnable[t] =>
                runnable'[t] \/ halted'[t] = "dead"
  PROVE  MboxInv'
<1>0. /\ PendInv /\ PendTypeOK /\ QueueMatchesState /\ RunnableIsFree /\ MboxTypeOK
      /\ MboxThreadsOK /\ NoneMissed
      /\ \A u \in Callers : MboxCallOK(u) /\ MboxMessageOK(u)
      /\ \A d \in Dummies : DescriptorOK(d)
  BY DEF MboxInv, PendInv
<1>1. MboxTypeOK' /\ MboxPutOK' /\ MboxGetOK'
  BY <1>0 DEF MboxTypeOK, MboxPutOK, MboxGetOK, MboxPutting, MboxGetting
<1>2. MboxThreadsOK'
  BY <1>0, MboxTypes DEF MboxThreadsOK
<1>3. NoneMissed'
  BY <1>0, MboxTypes DEF NoneMissed
<1>4. ASSUME NEW u \in Callers PROVE MboxCallOK(u)'
  <2>1. u \in Threads /\ halted[u] \in {"no", "dead"}
    BY <1>0, MboxTypes DEF MboxThreadsOK, PendTypeOK
  <2>2. /\ halted'[u] \in {halted[u], "dead"} /\ pendedOn'[u] \in {pendedOn[u], None}
        /\ pendedOn'[u] # pendedOn[u] \/ runnable'[u] # runnable[u] =>
             runnable'[u] \/ halted'[u] = "dead"
    BY <2>1
  <2>3. mb.pc[u] = "put" /\ halted'[u] = "no" /\ ~runnable'[u] /\ pendedOn'[u] # TxQ =>
          halted[u] = "no" /\ ~runnable[u] /\ pendedOn[u] # TxQ
    BY <1>0, <2>1, <2>2 DEF PendTypeOK
  <2>4. QED
    BY <1>0, <2>2, <2>3 DEF MboxCallOK
<1>5. ASSUME NEW u \in Callers PROVE MboxMessageOK(u)'
  <2>1. mb.rx[u].from # None => mb.rx[u].from \in Threads
    BY <1>0 DEF MboxTypeOK, RxMessages
  <2>2. QED
    BY <1>0, <2>1, MboxTypes
       DEF MboxMessageOK, SenderSleeps, MboxPutting, MboxGetting
<1>6. ASSUME NEW d \in Dummies PROVE DescriptorOK(d)'
  BY <1>0, MboxTypes DEF DescriptorOK
<1>7. QED
  BY <1>1, <1>2, <1>3, <1>4, <1>5, <1>6 DEF MboxInv

LEMMA MboxEnvironmentInv ==
  ASSUME ~SMP, ~MboxResume, NewPrios = {}, MboxInv,
         MboxEnvironment \/ \E t \in Victims : MboxAbort(t)
  PROVE  MboxInv'
<1>0. /\ PendInv /\ PendTypeOK /\ QueueMatchesState /\ RunnableIsFree /\ MboxTypeOK
      /\ MboxThreadsOK /\ NoneMissed
      /\ \A u \in Callers : MboxCallOK(u) /\ MboxMessageOK(u)
      /\ \A d \in Dummies : DescriptorOK(d)
  BY DEF MboxInv, PendInv
<1>1. sec.st = "free" /\ UNCHANGED <<sec, mb>> /\ suspending = None
  BY <1>0 DEF MboxEnvironment, MboxAbort, HAbort, Others, Unlocked, handVars,
              MboxThreadsOK
<1>2. CASE MboxEnvironment
  <2>1. PendInv' /\ suspending' = None
    BY <1>0, <1>1, <1>2, OutsideInv DEF MboxEnvironment
  <2>2. CASE \E t \in Threads : Expire(t)
    <3>1. PICK t \in Threads : Expire(t)
      BY <2>2
    <3>2. /\ t \in Callers /\ firing' = t /\ timeout[t] /\ ~timeout'[t]
          /\ \A u \in Threads : timeout'[u] => timeout[u]
          /\ UNCHANGED <<pendedOn, runnable, halted, swapRet>>
      BY <1>0, <3>1 DEF Expire, PendTypeOK, MboxThreadsOK
    <3>3. QED
      BY <1>0, <1>1, <2>1, <3>2, MboxOutsideInv DEF MboxThreadsOK
  <2>3. CASE ThreadTimeout
    <3>1. PICK t \in Callers : t = firing /\ ~timeout[t] /\ t \in Threads
      BY <1>0, <2>3, MboxTypes DEF ThreadTimeout, MboxThreadsOK
    <3>2. /\ firing' = None /\ UNCHANGED <<timeout, swapRet>>
      BY <2>3 DEF ThreadTimeout
    <3>3. CASE halted[t] = "dead"
      <4>1. UNCHANGED <<pendedOn, runnable, halted>>
        BY <2>3, <3>1, <3>3 DEF ThreadTimeout
      <4>2. QED
        BY <1>0, <1>1, <2>1, <3>2, <4>1, MboxOutsideInv, MboxTypes DEF MboxThreadsOK
    <3>4. CASE halted[t] # "dead"
      <4>1. /\ UnpendNoTimeout(t) /\ halted' = [halted EXCEPT ![t] = "no"]
            /\ runnable' = [runnable EXCEPT ![t] = @ \/ ~timeout[t]]
        BY <2>3, <3>1, <3>4 DEF ThreadTimeout
      <4>2. pendedOn'[t] = None
            /\ \A u \in Threads : u # t => pendedOn'[u] = pendedOn[u]
        BY <1>0, <3>1, <4>1, UnpendNoTimeoutMatch
      <4>3. /\ runnable'[t] /\ \A u \in Threads : u # t => runnable'[u] = runnable[u]
            /\ \A u \in Threads : halted'[u] = halted[u]
        BY <1>0, <3>1, <3>4, <4>1 DEF PendTypeOK, MboxThreadsOK
      <4>4. QED
        BY <1>0, <1>1, <2>1, <3>1, <3>2, <4>2, <4>3, MboxOutsideInv, MboxTypes
           DEF MboxThreadsOK
    <3>5. QED
      BY <3>3, <3>4
  <2>4. CASE \E t \in Threads, p \in NewPrios : PrioSet(t, p)
    BY <2>4
  <2>5. CASE \/ \E t \in Victims : SuspendAbortTimeout(t)
             \/ Suspend
             \/ \E t \in Victims : Resume(t)
    BY <1>0, <1>1, <2>1, <2>5, MboxTypes
       DEF SuspendAbortTimeout, Suspend, Resume, MboxThreadsOK
  <2>6. QED
    BY <1>2, <2>2, <2>3, <2>4, <2>5 DEF MboxEnvironment, Outside
<1>3. CASE \E t \in Victims : MboxAbort(t)
  <2>1. PICK t \in Victims : MboxAbort(t)
    BY <1>3
  <2>2. t \in Callers /\ t \in Threads /\ Abort(t)
    BY <2>1, MboxTypes DEF MboxAbort, HAbort
  <2>3. /\ PendInv' /\ UNCHANGED <<swapRet, firing, suspending>> /\ pendedOn'[t] = None
        /\ \A u \in Threads : u # t =>
             pendedOn'[u] = pendedOn[u] /\ runnable'[u] = runnable[u]
    BY <1>0, <2>2, AbortInv, AbortFacts DEF Abort
  <2>4. /\ halted'[t] = "dead" /\ ~runnable'[t] /\ ~timeout'[t]
        /\ \A u \in Threads : u # t => halted'[u] = halted[u] /\ timeout'[u] = timeout[u]
    BY <1>0, <2>2 DEF Abort, PendTypeOK
  <2>5. firing' # None => firing' \in Callers /\ ~timeout'[firing']
    BY <1>0, <2>3, <2>4, MboxTypes DEF MboxThreadsOK
  <2>6. QED
    BY <1>0, <1>1, <2>2, <2>3, <2>4, <2>5, MboxOutsideInv, MboxTypes DEF MboxThreadsOK
<1>4. QED
  BY <1>2, <1>3

LEMMA MboxNextInv ==
  ASSUME ~SMP, ~MboxResume, NewPrios = {}, MboxInv, MboxNext PROVE MboxInv'
<1>1. CASE MboxUnpend \/ MboxStore \/ MboxReady \/ MboxPutPend \/ MboxGetUnlock
  BY <1>1, MboxUnpendInv, MboxStoreInv, MboxReadyInv, MboxPutPendInv, MboxGetUnlockInv
<1>2. CASE \E t \in Callers, s \in Threads, x \in Peers \cup {None} :
             MboxPutMatch(t, s, x)
  BY <1>2, MboxPutMatchInv
<1>3. CASE \E t \in Callers, s \in Threads, x \in Peers \cup {None}, f \in Forevers :
             MboxPutWait(t, s, x, f)
  BY <1>3, MboxPutWaitInv
<1>4. CASE \E t \in Callers, x \in Peers \cup {None}, now \in BOOLEAN :
             MboxGetMatch(t, x, now)
  BY <1>4, MboxGetMatchInv
<1>5. CASE \E t \in Callers, x \in Peers \cup {None}, now \in BOOLEAN, f \in Forevers :
             MboxGetWait(t, x, now, f)
  BY <1>5, MboxGetWaitInv
<1>6. CASE \E t \in Callers : MboxPutReturn(t)
  BY <1>6, MboxPutReturnInv
<1>7. CASE \E t \in Callers : MboxGetReturn(t) \/ MboxDataGet(t)
  BY <1>7, MboxGetReturnInv
<1>8. CASE \E t \in Callers : MboxDisposeAsync(t)
  BY <1>8, MboxDisposeAsyncInv
<1>9. CASE \E t \in Callers : MboxDispose(t)
  BY <1>9, MboxDisposeInv
<1>10. CASE \E t \in Callers : MboxWakeSender(t)
  BY <1>10, MboxWakeSenderInv
<1>11. CASE MboxEnvironment \/ \E t \in Victims : MboxAbort(t)
  BY <1>11, MboxEnvironmentInv
<1>12. QED
  BY <1>1, <1>2, <1>3, <1>4, <1>5, <1>6, <1>7, <1>8, <1>9, <1>10, <1>11 DEF MboxNext

(* What a receiver has got: a message that suits it, of a sender that is   *)
(* still in its call.                                                      *)
GotOK(r) ==
  /\ (mb.pc[r] = "get" /\ swapRet[r] = "0") \/ mb.pc[r] \in {"holding", "dispose"} =>
       mb.rx[r].from # None
  /\ mb.rx[r].from # None =>
       /\ mb.tx[mb.rx[r].from].src \in Callers
       /\ Matches(mb.tx[mb.rx[r].from], r, mb.rx[r].source)
       /\ mb.rx[r].from \in Callers => mb.pc[mb.rx[r].from] \in {"locked", "put"}

MboxGotOK ==
  /\ \A t \in Callers : mb.pc[t] = "locked" => halted[t] = "no"
  /\ \A s \in Threads : pendedOn[s] = TxQ => mb.tx[s].src \in Callers
  /\ \A r \in Callers : GotOK(r)

LEMMA MboxGotInit == ASSUME HInit, mb = MboxRecord PROVE MboxGotOK
<1>1. /\ mb.rx = [t \in Callers |-> [source |-> None, now |-> FALSE, from |-> None]]
      /\ mb.pc = [t \in Callers |-> "idle"]
      /\ \A s \in Threads : pendedOn[s] = None
  BY DEF HInit, PendInit, MboxRecord, NoRx
<1>2. QED
  BY <1>1, MboxTypes DEF MboxGotOK, GotOK

LEMMA MboxGotImplies == ASSUME MboxInv, MboxGotOK PROVE MboxSuccess
<1>1. None \notin Callers /\ \A t \in Callers : MboxCallOK(t) /\ GotOK(t)
  BY MboxTypes DEF MboxInv, MboxGotOK
<1>2. QED
  BY <1>1 DEF MboxSuccess, MboxCallOK, GotOK

(* A caller that runs and is not in the section has sent nothing that      *)
(* somebody has.                                                           *)
LEMMA MboxNotSent ==
  ASSUME MboxInv, sec.st = "free", NEW t \in Callers, runnable[t]
  PROVE  \A u \in Callers : mb.rx[u].from # t
<1>1. t # None /\ halted[t] = "no"
  BY MboxTypes DEF MboxInv, PendInv, RunnableIsFree
<1>2. QED
  BY <1>1 DEF MboxInv, MboxMessageOK, SenderSleeps, MboxPutting

(* Steps after which everybody has what they had. *)
LEMMA MboxGotKept ==
  ASSUME MboxInv, MboxGotOK,
         \A t \in Callers :
           /\ mb'.rx[t].from \in {None, mb.rx[t].from}
           /\ mb'.rx[t].from # None => /\ mb'.rx[t].source = mb.rx[t].source
                                       /\ mb'.tx[mb.rx[t].from] = mb.tx[mb.rx[t].from]
           /\ mb'.pc[t] = "locked" => halted'[t] = "no"
           /\ (mb'.pc[t] = "get" /\ swapRet'[t] = "0") \/ mb'.pc[t] \in {"holding", "dispose"}
                => mb'.rx[t].from # None
           /\ mb'.pc[t] # mb.pc[t] /\ mb'.pc[t] \notin {"locked", "put"} =>
                \A u \in Callers : mb'.rx[u].from # t,
         \A s \in Threads : pendedOn'[s] = TxQ => mb'.tx[s].src \in Callers
  PROVE  MboxGotOK'
<1>1. ASSUME NEW r \in Callers PROVE GotOK(r)'
  <2>1. /\ mb'.rx[r].from \in {None, mb.rx[r].from}
        /\ mb'.rx[r].from # None => /\ mb'.rx[r].source = mb.rx[r].source
                                    /\ mb'.tx[mb.rx[r].from] = mb.tx[mb.rx[r].from]
        /\ (mb'.pc[r] = "get" /\ swapRet'[r] = "0") \/ mb'.pc[r] \in {"holding", "dispose"}
             => mb'.rx[r].from # None
    OBVIOUS
  <2>2. GotOK(r)
    BY DEF MboxGotOK
  <2>3. ASSUME mb'.rx[r].from # None, mb'.rx[r].from \in Callers
        PROVE  mb'.pc[mb'.rx[r].from] \in {"locked", "put"}
    <3>1. PICK s \in Callers : s = mb.rx[r].from /\ mb'.rx[r].from = s
      BY <2>1, <2>3
    <3>2. mb.pc[s] \in {"locked", "put"}
      BY <2>2, <2>3, <3>1 DEF GotOK
    <3>3. mb'.pc[s] = mb.pc[s] \/ mb'.pc[s] \in {"locked", "put"}
      BY <3>1
    <3>4. QED
      BY <3>1, <3>2, <3>3
  <2>4. QED
    BY <2>1, <2>2, <2>3 DEF GotOK, Matches
<1>2. QED
  BY <1>1 DEF MboxGotOK

LEMMA MboxGotNext ==
  ASSUME ~SMP, ~MboxResume, NewPrios = {}, MboxInv, MboxGotOK, MboxNext
  PROVE  MboxGotOK'
<1>0. /\ PendInv /\ PendTypeOK /\ QueueMatchesState /\ RunnableIsFree /\ MboxTypeOK
      /\ MboxThreadsOK /\ MboxPutOK /\ MboxGetOK
      /\ \A u \in Callers : MboxCallOK(u) /\ MboxMessageOK(u) /\ GotOK(u)
      /\ \A d \in Dummies : DescriptorOK(d)
  BY DEF MboxInv, MboxGotOK, PendInv
<1>1. /\ \A t \in Callers : mb.pc[t] = "locked" => halted[t] = "no"
      /\ \A s \in Threads : pendedOn[s] = TxQ => mb.tx[s].src \in Callers
      /\ \A t \in Callers :
           (mb.pc[t] = "get" /\ swapRet[t] = "0") \/ mb.pc[t] \in {"holding", "dispose"} =>
             mb.rx[t].from # None
  BY DEF MboxGotOK, GotOK
<1>2. CASE MboxUnpend
  <2>1. PICK s \in Threads : s = sec.th
    BY <1>0, <1>2, MboxTypes DEF MboxUnpend, MboxPutOK, MboxGetOK, MboxPutting, MboxGetting
  <2>2. UnpendNoTimeout(s) /\ UNCHANGED <<mb, swapRet, halted>>
    BY <1>2, <2>1 DEF MboxUnpend
  <2>3. pendedOn'[s] = None /\ \A u \in Threads : u # s => pendedOn'[u] = pendedOn[u]
    BY <1>0, <2>2, UnpendNoTimeoutMatch
  <2>4. \A u \in Threads : pendedOn'[u] = TxQ => mb'.tx[u].src \in Callers
    BY <1>1, <2>2, <2>3, MboxTypes
  <2>5. QED
    BY <1>1, <2>2, <2>4, MboxGotKept
<1>3. CASE MboxStore
  <2>1. PICK r \in Callers : r = sec.th /\ mb.rx[r].from # None
    BY <1>0, <1>3, MboxTypes DEF MboxStore, MboxPutOK, MboxPutting
  <2>2. swapRet' = [swapRet EXCEPT ![r] = "0"] /\ UNCHANGED <<mb, pendedOn, halted>>
    BY <1>3, <2>1 DEF MboxStore
  <2>3. \A u \in Callers : u # r => swapRet'[u] = swapRet[u]
    BY <1>0, <2>2, MboxTypes DEF PendTypeOK
  <2>4. \A t \in Callers :
          (mb'.pc[t] = "get" /\ swapRet'[t] = "0") \/ mb'.pc[t] \in {"holding", "dispose"} =>
            mb'.rx[t].from # None
    BY <1>1, <2>1, <2>2, <2>3
  <2>5. QED
    BY <1>1, <2>2, <2>4, MboxGotKept
<1>4. CASE MboxReady
  <2>1. PICK t \in Callers : /\ t = mb.tx[sec.item].src /\ mb.pc[t] = "locked"
                             /\ sec.item \in Threads /\ sec.st = "set"
    BY <1>0, <1>4 DEF MboxReady, MboxPutOK, MboxPutting
  <2>2. UNCHANGED <<pendedOn, swapRet, halted>>
    BY <1>4 DEF MboxReady, ReadyThread
  <2>3. CASE mb' = mb
    BY <1>1, <2>2, <2>3, MboxGotKept
  <2>4. CASE sec.item \in Dummies /\ mb' = [mb EXCEPT !.pc[t] = "idle"]
    <3>1. /\ mb'.tx = mb.tx /\ mb'.rx = mb.rx /\ mb'.pc = [mb.pc EXCEPT ![t] = "idle"]
      BY <1>0, <2>4 DEF MboxTypeOK
    <3>2. mb'.pc[t] = "idle" /\ \A u \in Callers : u # t => mb'.pc[u] = mb.pc[u]
      BY <1>0, <3>1 DEF MboxTypeOK
    <3>3. sec.item # t /\ t # None /\ halted[t] = "no"
      BY <1>1, <2>1, <2>4, MboxTypes
    <3>4. \A u \in Callers : mb.rx[u].from # t
      BY <1>0, <2>1, <3>3 DEF MboxMessageOK, SenderSleeps
    <3>5. QED
      BY <1>1, <2>2, <3>1, <3>2, <3>4, MboxGotKept
  <2>5. QED
    BY <1>4, <2>1, <2>3, <2>4 DEF MboxReady
<1>5. CASE MboxPutPend
  <2>1. PICK s \in Callers : s = sec.item /\ s \in Threads
    BY <1>0, <1>5, MboxTypes DEF MboxPutPend, MboxPutOK
  <2>2. /\ PendCurr(s, NullQ, TRUE) /\ mb' = [mb EXCEPT !.pc[s] = "put"]
    BY <1>5, <2>1 DEF MboxPutPend
  <2>3. /\ mb'.tx = mb.tx /\ mb'.rx = mb.rx /\ mb'.pc = [mb.pc EXCEPT ![s] = "put"]
    BY <1>0, <2>2 DEF MboxTypeOK
  <2>4. mb'.pc[s] = "put" /\ \A u \in Callers : u # s => mb'.pc[u] = mb.pc[u]
    BY <1>0, <2>3 DEF MboxTypeOK
  <2>5. /\ pendedOn'[s] = NullQ /\ halted' = halted
        /\ \A u \in Threads : u # s => pendedOn'[u] = pendedOn[u] /\ swapRet'[u] = swapRet[u]
    BY <1>0, <2>1, <2>2 DEF PendCurr, PendTypeOK
  <2>6. /\ \A u \in Threads : pendedOn'[u] = TxQ => mb'.tx[u].src \in Callers
        /\ \A t \in Callers :
             (mb'.pc[t] = "get" /\ swapRet'[t] = "0") \/ mb'.pc[t] \in {"holding", "dispose"} =>
               mb'.rx[t].from # None
    BY <1>1, <2>3, <2>4, <2>5, MboxTypes
  <2>7. QED
    BY <1>1, <2>3, <2>4, <2>5, <2>6, MboxGotKept
<1>6. CASE MboxGetUnlock
  <2>1. PICK t \in Callers : /\ t = sec.item /\ mb.rx[t].from # None
                             /\ mb.pc[t] = "locked" /\ t # None
    BY <1>0, <1>6, MboxTypes DEF MboxGetUnlock, MboxGetOK, MboxGetting
  <2>2. PICK p \in {"dispose", "holding"} : p = Received(mb.rx[t].now)
    BY DEF Received
  <2>3. /\ mb' = [mb EXCEPT !.pc[t] = p] /\ UNCHANGED <<pendedOn, swapRet, halted>>
        /\ sec.st = "leaving"
    BY <1>6, <2>1, <2>2 DEF MboxGetUnlock
  <2>4. /\ mb'.tx = mb.tx /\ mb'.rx = mb.rx /\ mb'.pc = [mb.pc EXCEPT ![t] = p]
    BY <1>0, <2>3 DEF MboxTypeOK
  <2>5. mb'.pc[t] = p /\ \A u \in Callers : u # t => mb'.pc[u] = mb.pc[u]
    BY <1>0, <2>4 DEF MboxTypeOK
  <2>6. \A u \in Callers : mb.rx[u].from # t
    BY <1>0, <1>1, <2>1, <2>3 DEF MboxMessageOK, SenderSleeps, MboxPutting
  <2>7. QED
    BY <1>1, <2>1, <2>3, <2>4, <2>5, <2>6, MboxGotKept
<1>7. CASE \E t \in Callers, s \in Threads, x \in Peers \cup {None} :
             MboxPutMatch(t, s, x)
  <2>1. PICK t \in Callers, s \in Threads, x \in Peers \cup {None} : MboxPutMatch(t, s, x)
    BY <1>7
  <2>2. PICK msg : msg = [src |-> t, target |-> x]
    OBVIOUS
  <2>3. PICK r \in Threads : /\ r = waitq[RxQ][FirstReceiver(msg)] /\ pendedOn[r] = RxQ
                             /\ Matches(msg, r, mb.rx[r].source)
    BY <1>0, <2>1, <2>2, FirstReceiverFacts DEF MboxPutMatch
  <2>4. /\ sec.st = "free" /\ runnable[t] /\ mb.pc[t] = "idle" /\ s \in {t} \cup mb.free
        /\ mb' = [mb EXCEPT !.tx[s] = msg, !.rx[r].from = s,
                            !.pc[t] = "locked", !.free = @ \ {s}]
        /\ UNCHANGED <<pendedOn, swapRet, halted>>
    BY <2>1, <2>2, <2>3 DEF MboxPutMatch, MboxIdle, Unlocked, pendVars
  <2>5. /\ r \in Callers /\ mb.pc[r] = "get" /\ r # t /\ pendedOn[t] = None
        /\ halted[t] = "no" /\ s # None
    BY <1>0, <2>3, <2>4, MboxTypes DEF MboxThreadsOK, RunnableIsFree
  <2>6. /\ \A u \in Callers : mb.rx[u].from # s
        /\ \A u \in Callers : mb.rx[u].from # t
        /\ pendedOn[s] = None /\ (s \in Callers => s = t)
    <3>1. \A u \in Callers : mb.rx[u].from # t
      BY <2>4, MboxNotSent
    <3>2. CASE s = t
      BY <2>5, <3>1, <3>2
    <3>3. CASE s \in mb.free
      BY <1>0, <3>1, <3>3, MboxTypes DEF DescriptorOK, MboxTypeOK
    <3>4. QED
      BY <2>4, <3>2, <3>3
  <2>7. /\ mb'.tx = [mb.tx EXCEPT ![s] = msg]
        /\ mb'.rx = [mb.rx EXCEPT ![r] = [mb.rx[r] EXCEPT !.from = s]]
        /\ mb'.pc = [mb.pc EXCEPT ![t] = "locked"]
    BY <1>0, <2>4, <2>5 DEF MboxTypeOK
  <2>8. /\ mb'.rx[r].from = s /\ mb'.rx[r].source = mb.rx[r].source
        /\ \A u \in Callers : u # r => mb'.rx[u] = mb.rx[u]
        /\ mb'.tx[s] = msg /\ \A u \in Threads : u # s => mb'.tx[u] = mb.tx[u]
        /\ mb'.pc[t] = "locked" /\ \A u \in Callers : u # t => mb'.pc[u] = mb.pc[u]
    BY <1>0, <2>5, <2>7 DEF MboxTypeOK, RxMessages
  <2>9. ASSUME NEW u \in Callers PROVE GotOK(u)'
    <3>1. GotOK(u) /\ mb.rx[u].from \in Threads \cup {None}
      BY <1>0 DEF MboxTypeOK, RxMessages
    <3>2. CASE u = r
      <4>1. msg.src = t
        BY <2>2
      <4>2. s \in Callers => mb'.pc[s] = "locked"
        BY <2>6, <2>8
      <4>3. Matches(mb'.tx[s], u, mb'.rx[u].source)
        BY <2>3, <2>8, <3>2
      <4>4. QED
        BY <2>5, <2>8, <3>2, <4>1, <4>2, <4>3 DEF GotOK, Matches
    <3>3. CASE u # r
      <4>1. mb'.rx[u] = mb.rx[u] /\ mb.rx[u].from # s /\ mb.rx[u].from # t
        BY <2>6, <2>8, <3>3
      <4>2. CASE mb.rx[u].from = None
        BY <2>4, <2>8, <3>1, <4>1, <4>2 DEF GotOK
      <4>3. CASE mb.rx[u].from # None
        <5>1. PICK a \in Threads : a = mb.rx[u].from /\ a # s /\ a # t
          BY <3>1, <4>1, <4>3
        <5>2. mb'.tx[a] = mb.tx[a] /\ (a \in Callers => mb'.pc[a] = mb.pc[a])
          BY <2>8, <5>1
        <5>3. QED
          BY <3>1, <4>1, <4>3, <5>1, <5>2 DEF GotOK, Matches
      <4>4. QED
        BY <4>2, <4>3
    <3>4. QED
      BY <3>2, <3>3
  <2>10. \A u \in Threads : pendedOn'[u] = TxQ => mb'.tx[u].src \in Callers
    BY <1>1, <2>4, <2>6, <2>8, MboxTypes
  <2>11. \A u \in Callers : mb'.pc[u] = "locked" => halted'[u] = "no"
    BY <1>1, <2>4, <2>5, <2>8
  <2>12. QED
    BY <2>9, <2>10, <2>11 DEF MboxGotOK
<1>8. CASE \E t \in Callers, s \in Threads, x \in Peers \cup {None}, f \in Forevers :
             MboxPutWait(t, s, x, f)
  <2>1. PICK t \in Callers, s \in Threads, x \in Peers \cup {None}, f \in Forevers :
          MboxPutWait(t, s, x, f)
    BY <1>8
  <2>2. PICK p : p = IF s = t THEN "put" ELSE "idle"
    OBVIOUS
  <2>3. /\ sec.st = "free" /\ runnable[t] /\ mb.pc[t] = "idle" /\ s \in {t} \cup mb.free
        /\ PendCurr(s, TxQ, f \/ s \in Dummies)
        /\ mb' = [mb EXCEPT !.tx[s] = [src |-> t, target |-> x], !.free = @ \ {s},
                            !.pc[t] = IF s = t THEN "put" ELSE @]
    BY <2>1 DEF MboxPutWait, MboxIdle, Unlocked
  <2>4. /\ \A u \in Callers : mb.rx[u].from # s
        /\ \A u \in Callers : mb.rx[u].from # t
        /\ (s \in Callers => s = t)
    <3>1. \A u \in Callers : mb.rx[u].from # t
      BY <2>3, MboxNotSent
    <3>2. CASE s = t
      BY <3>1, <3>2
    <3>3. CASE s \in mb.free
      BY <1>0, <3>1, <3>3, MboxTypes DEF DescriptorOK, MboxTypeOK
    <3>4. QED
      BY <2>3, <3>2, <3>3
  <2>5. /\ mb'.tx = [mb.tx EXCEPT ![s] = [src |-> t, target |-> x]]
        /\ mb'.rx = mb.rx /\ mb'.pc = [mb.pc EXCEPT ![t] = p]
    BY <1>0, <2>2, <2>3 DEF MboxTypeOK
  <2>6. /\ mb'.tx[s].src = t /\ \A u \in Threads : u # s => mb'.tx[u] = mb.tx[u]
        /\ mb'.pc[t] = p /\ \A u \in Callers : u # t => mb'.pc[u] = mb.pc[u]
    BY <1>0, <2>5 DEF MboxTypeOK
  <2>7. /\ halted' = halted
        /\ \A u \in Threads : u # s => pendedOn'[u] = pendedOn[u] /\ swapRet'[u] = swapRet[u]
    BY <1>0, <2>3 DEF PendCurr, PendTypeOK
  <2>8. \A u \in Threads : pendedOn'[u] = TxQ => mb'.tx[u].src \in Callers
    BY <1>1, <2>6, <2>7
  <2>9. ASSUME NEW u \in Callers
        PROVE  /\ mb'.pc[u] = "locked" => halted'[u] = "no"
               /\ (mb'.pc[u] = "get" /\ swapRet'[u] = "0") \/ mb'.pc[u] \in {"holding", "dispose"}
                    => mb'.rx[u].from # None
    <3>1. CASE u = t
      BY <2>2, <2>6, <3>1
    <3>2. CASE u # t
      BY <1>1, <2>4, <2>5, <2>6, <2>7, <3>2, MboxTypes
    <3>3. QED
      BY <3>1, <3>2
  <2>10. ASSUME NEW u \in Callers, mb.rx[u].from # None
         PROVE  mb'.tx[mb.rx[u].from] = mb.tx[mb.rx[u].from]
    <3>1. mb.rx[u].from \in Threads /\ mb.rx[u].from # s
      BY <1>0, <2>4, <2>10 DEF MboxTypeOK, RxMessages
    <3>2. QED
      BY <2>6, <3>1
  <2>11. QED
    BY <2>4, <2>5, <2>6, <2>8, <2>9, <2>10, MboxGotKept
<1>9. CASE \E t \in Callers : MboxPutReturn(t)
  <2>1. PICK t \in Callers : MboxPutReturn(t)
    BY <1>9
  <2>2. /\ sec.st = "free" /\ runnable[t]
        /\ mb' = [mb EXCEPT !.pc[t] = "idle", !.disposed = @ \ {t}, !.tx[t] = NoTx]
        /\ UNCHANGED <<pendedOn, swapRet, halted>>
    BY <2>1 DEF MboxPutReturn, Others, Unlocked, pendVars
  <2>3. pendedOn[t] = None /\ t \in Threads /\ \A u \in Callers : mb.rx[u].from # t
    BY <1>0, <2>2, MboxTypes, MboxNotSent DEF RunnableIsFree
  <2>4. /\ mb'.rx = mb.rx /\ mb'.pc = [mb.pc EXCEPT ![t] = "idle"]
        /\ mb'.tx = [mb.tx EXCEPT ![t] = NoTx]
    BY <1>0, <2>2 DEF MboxTypeOK
  <2>5. /\ mb'.pc[t] = "idle" /\ \A u \in Callers : u # t => mb'.pc[u] = mb.pc[u]
        /\ \A u \in Threads : u # t => mb'.tx[u] = mb.tx[u]
    BY <1>0, <2>4 DEF MboxTypeOK
  <2>6. ASSUME NEW u \in Callers, mb.rx[u].from # None
        PROVE  mb'.tx[mb.rx[u].from] = mb.tx[mb.rx[u].from]
    BY <1>0, <2>3, <2>5, <2>6 DEF MboxTypeOK, RxMessages
  <2>7. \A u \in Threads : pendedOn'[u] = TxQ => mb'.tx[u].src \in Callers
    BY <1>1, <2>2, <2>3, <2>5, MboxTypes
  <2>8. QED
    BY <1>1, <2>2, <2>3, <2>4, <2>5, <2>6, <2>7, MboxGotKept
<1>10. CASE \E t \in Callers, x \in Peers \cup {None}, now \in BOOLEAN :
              MboxGetMatch(t, x, now)
  <2>1. PICK t \in Callers, x \in Peers \cup {None}, now \in BOOLEAN : MboxGetMatch(t, x, now)
    BY <1>10
  <2>2. PICK s \in Threads : /\ s = waitq[TxQ][FirstSender(t, x)] /\ pendedOn[s] = TxQ
                             /\ Matches(mb.tx[s], t, x)
    BY <1>0, <2>1, FirstSenderFacts DEF MboxGetMatch
  <2>3. PICK m : m = [source |-> x, now |-> now, from |-> s]
    OBVIOUS
  <2>4. /\ sec.st = "free" /\ runnable[t]
        /\ mb' = [mb EXCEPT !.rx[t] = m, !.pc[t] = "locked"]
        /\ UNCHANGED <<pendedOn, swapRet, halted>>
    BY <2>1, <2>2, <2>3 DEF MboxGetMatch, MboxIdle, Unlocked, pendVars
  <2>5. /\ halted[t] = "no" /\ pendedOn[t] = None /\ s # t /\ s # None
        /\ s \in Callers => mb.pc[s] = "put"
        /\ \A u \in Callers : mb.rx[u].from # t
    BY <1>0, <2>2, <2>4, MboxTypes, MboxNotSent DEF RunnableIsFree, MboxThreadsOK
  <2>6. /\ mb'.tx = mb.tx /\ mb'.rx = [mb.rx EXCEPT ![t] = m]
        /\ mb'.pc = [mb.pc EXCEPT ![t] = "locked"]
    BY <1>0, <2>4 DEF MboxTypeOK
  <2>7. /\ mb'.rx[t].from = s /\ mb'.rx[t].source = x
        /\ \A u \in Callers : u # t => mb'.rx[u] = mb.rx[u]
        /\ mb'.pc[t] = "locked" /\ \A u \in Callers : u # t => mb'.pc[u] = mb.pc[u]
    BY <1>0, <2>3, <2>6 DEF MboxTypeOK
  <2>8. ASSUME NEW u \in Callers PROVE GotOK(u)'
    <3>1. GotOK(u)
      BY <1>0
    <3>2. CASE u = t
      <4>1. Matches(mb'.tx[s], u, mb'.rx[u].source) /\ mb'.tx[s].src \in Callers
        BY <1>1, <2>2, <2>6, <2>7, <3>2
      <4>2. s \in Callers => mb'.pc[s] = "put"
        BY <2>5, <2>7
      <4>3. QED
        BY <2>5, <2>7, <3>2, <4>1, <4>2 DEF GotOK, Matches
    <3>3. CASE u # t
      BY <2>4, <2>5, <2>6, <2>7, <3>1, <3>3 DEF GotOK, Matches
    <3>4. QED
      BY <3>2, <3>3
  <2>9. QED
    BY <1>1, <2>4, <2>5, <2>6, <2>7, <2>8 DEF MboxGotOK
<1>11. CASE \E t \in Callers, x \in Peers \cup {None}, now \in BOOLEAN, f \in Forevers :
              MboxGetWait(t, x, now, f)
  <2>1. PICK t \in Callers, x \in Peers \cup {None}, now \in BOOLEAN, f \in Forevers :
          MboxGetWait(t, x, now, f)
    BY <1>11
  <2>2. PICK m : m = [source |-> x, now |-> now, from |-> None]
    OBVIOUS
  <2>3. /\ sec.st = "free" /\ runnable[t] /\ PendCurr(t, RxQ, f) /\ t \in Threads
        /\ mb' = [mb EXCEPT !.rx[t] = m, !.pc[t] = "get"]
    BY <2>1, <2>2, MboxTypes DEF MboxGetWait, MboxIdle, Unlocked
  <2>4. \A u \in Callers : mb.rx[u].from # t
    BY <2>3, MboxNotSent
  <2>5. /\ mb'.tx = mb.tx /\ mb'.rx = [mb.rx EXCEPT ![t] = m]
        /\ mb'.pc = [mb.pc EXCEPT ![t] = "get"]
    BY <1>0, <2>3 DEF MboxTypeOK
  <2>6. /\ mb'.rx[t].from = None /\ \A u \in Callers : u # t => mb'.rx[u] = mb.rx[u]
        /\ mb'.pc[t] = "get" /\ \A u \in Callers : u # t => mb'.pc[u] = mb.pc[u]
    BY <1>0, <2>2, <2>5 DEF MboxTypeOK
  <2>7. /\ pendedOn'[t] = RxQ /\ swapRet'[t] = "EAGAIN" /\ halted' = halted
        /\ \A u \in Threads : u # t => pendedOn'[u] = pendedOn[u] /\ swapRet'[u] = swapRet[u]
    BY <1>0, <2>3 DEF PendCurr, PendTypeOK
  <2>8. \A u \in Threads : pendedOn'[u] = TxQ => mb'.tx[u].src \in Callers
    BY <1>1, <2>5, <2>7, MboxTypes
  <2>9. ASSUME NEW u \in Callers
        PROVE  /\ mb'.pc[u] = "locked" => halted'[u] = "no"
               /\ (mb'.pc[u] = "get" /\ swapRet'[u] = "0") \/ mb'.pc[u] \in {"holding", "dispose"}
                    => mb'.rx[u].from # None
               /\ mb'.rx[u].from \in {None, mb.rx[u].from}
               /\ mb'.rx[u].from # None => mb'.rx[u].source = mb.rx[u].source
               /\ mb'.rx[u].from # t
    <3>1. CASE u = t
      BY <2>3, <2>6, <2>7, <3>1, MboxTypes
    <3>2. CASE u # t
      BY <1>1, <2>4, <2>6, <2>7, <3>2, MboxTypes
    <3>3. QED
      BY <3>1, <3>2
  <2>10. QED
    BY <2>5, <2>6, <2>8, <2>9, MboxGotKept
<1>12. CASE \E t \in Callers : MboxGetReturn(t) \/ MboxDataGet(t)
  <2>1. PICK t \in Callers : MboxGetReturn(t) \/ MboxDataGet(t)
    BY <1>12
  <2>2. /\ sec.st = "free" /\ runnable[t] /\ UNCHANGED <<pendedOn, swapRet, halted>>
        /\ mb.pc[t] \in {"get", "holding"} /\ mb.rx[t] \in RxMessages
    BY <1>0, <2>1 DEF MboxGetReturn, MboxDataGet, Others, Unlocked, pendVars, MboxTypeOK
  <2>3. \A u \in Callers : mb.rx[u].from # t
    BY <2>2, MboxNotSent
  <2>4. CASE MboxGetReturn(t) /\ swapRet[t] # "0"
    <3>1. /\ mb'.tx = mb.tx /\ mb'.rx = [mb.rx EXCEPT ![t] = NoRx]
          /\ mb'.pc = [mb.pc EXCEPT ![t] = "idle"]
      BY <1>0, <2>4 DEF MboxGetReturn, MboxTypeOK
    <3>2. /\ mb'.rx[t].from = None /\ \A u \in Callers : u # t => mb'.rx[u] = mb.rx[u]
          /\ mb'.pc[t] = "idle" /\ \A u \in Callers : u # t => mb'.pc[u] = mb.pc[u]
      BY <1>0, <3>1 DEF MboxTypeOK, NoRx
    <3>3. \A u \in Callers : mb'.rx[u].from # t
      BY <2>3, <3>2, MboxTypes
    <3>4. QED
      BY <1>1, <2>2, <3>1, <3>2, <3>3, MboxGotKept
  <2>5. CASE MboxDataGet(t) \/ (MboxGetReturn(t) /\ swapRet[t] = "0")
    <3>1. PICK p \in {"holding", "dispose"} : mb' = [mb EXCEPT !.pc[t] = p]
      BY <2>5 DEF MboxDataGet, MboxGetReturn, Received
    <3>2. mb'.tx = mb.tx /\ mb'.rx = mb.rx /\ mb'.pc = [mb.pc EXCEPT ![t] = p]
      BY <1>0, <3>1 DEF MboxTypeOK
    <3>3. mb'.pc[t] = p /\ \A u \in Callers : u # t => mb'.pc[u] = mb.pc[u]
      BY <1>0, <3>2 DEF MboxTypeOK
    <3>4. mb.rx[t].from # None
      BY <1>1, <2>5 DEF MboxDataGet, MboxGetReturn
    <3>5. QED
      BY <1>1, <2>2, <2>3, <3>2, <3>3, <3>4, MboxGotKept
  <2>6. QED
    BY <2>1, <2>4, <2>5
<1>13. CASE \E t \in Callers : MboxDisposeAsync(t)
  <2>1. PICK t \in Callers : MboxDisposeAsync(t)
    BY <1>13
  <2>2. PICK d \in Dummies : d = mb.rx[t].from /\ d \in Threads /\ d # None
    BY <2>1, MboxTypes DEF MboxDisposeAsync
  <2>3. /\ sec.st = "free" /\ runnable[t] /\ UNCHANGED <<pendedOn, swapRet, halted>>
        /\ mb' = [mb EXCEPT !.free = @ \cup {d}, !.tx[d] = NoTx, !.rx[t] = NoRx,
                            !.pc[t] = "idle"]
    BY <2>1, <2>2 DEF MboxDisposeAsync, Others, Unlocked, pendVars
  <2>4. /\ \A u \in Callers : mb.rx[u].from # t
        /\ \A u \in Callers : u # t => mb.rx[u].from # d
        /\ pendedOn[d] # TxQ
    BY <1>0, <2>2, <2>3, MboxNotSent DEF MboxMessageOK
  <2>5. /\ mb'.tx = [mb.tx EXCEPT ![d] = NoTx] /\ mb'.rx = [mb.rx EXCEPT ![t] = NoRx]
        /\ mb'.pc = [mb.pc EXCEPT ![t] = "idle"]
    BY <1>0, <2>3 DEF MboxTypeOK
  <2>6. /\ mb'.rx[t].from = None /\ \A u \in Callers : u # t => mb'.rx[u] = mb.rx[u]
        /\ mb'.pc[t] = "idle" /\ \A u \in Callers : u # t => mb'.pc[u] = mb.pc[u]
        /\ \A u \in Threads : u # d => mb'.tx[u] = mb.tx[u]
    BY <1>0, <2>5 DEF MboxTypeOK, NoRx
  <2>7. ASSUME NEW u \in Callers, mb'.rx[u].from # None
        PROVE  mb'.tx[mb.rx[u].from] = mb.tx[mb.rx[u].from]
    <3>1. u # t /\ mb.rx[u].from \in Threads /\ mb.rx[u].from # d
      BY <1>0, <2>4, <2>6, <2>7 DEF MboxTypeOK, RxMessages
    <3>2. QED
      BY <2>6, <3>1
  <2>8. \A u \in Threads : pendedOn'[u] = TxQ => mb'.tx[u].src \in Callers
    BY <1>1, <2>3, <2>4, <2>6
  <2>9. \A u \in Callers : mb'.rx[u].from # t
    BY <2>4, <2>6, MboxTypes
  <2>10. QED
    BY <1>1, <2>3, <2>6, <2>7, <2>8, <2>9, MboxGotKept
<1>14. CASE \E t \in Callers : MboxDispose(t)
  <2>1. PICK t \in Callers : MboxDispose(t)
    BY <1>14
  <2>2. PICK s \in Callers : s = mb.rx[t].from /\ s \in Threads /\ s # None
    BY <2>1, MboxTypes DEF MboxDispose
  <2>3. /\ sec.st = "free" /\ runnable[t] /\ SetRetval(s, "0")
        /\ mb' = [mb EXCEPT !.disposed = @ \cup {s}, !.pc[t] = "disposed"]
    BY <2>1, <2>2 DEF MboxDispose, Others, Unlocked
  <2>4. /\ UNCHANGED <<pendedOn, halted>>
        /\ \A u \in Threads : u # s => swapRet'[u] = swapRet[u]
    BY <1>0, <2>3 DEF SetRetval, PendTypeOK
  <2>5. mb.pc[s] \in {"locked", "put"} /\ \A u \in Callers : mb.rx[u].from # t
    BY <1>0, <2>2, <2>3, MboxNotSent DEF GotOK
  <2>6. mb'.tx = mb.tx /\ mb'.rx = mb.rx /\ mb'.pc = [mb.pc EXCEPT ![t] = "disposed"]
    BY <1>0, <2>3 DEF MboxTypeOK
  <2>7. mb'.pc[t] = "disposed" /\ \A u \in Callers : u # t => mb'.pc[u] = mb.pc[u]
    BY <1>0, <2>6 DEF MboxTypeOK
  <2>8. \A u \in Callers :
          (mb'.pc[u] = "get" /\ swapRet'[u] = "0") \/ mb'.pc[u] \in {"holding", "dispose"} =>
            mb'.rx[u].from # None
    BY <1>1, <2>4, <2>5, <2>6, <2>7, MboxTypes
  <2>9. QED
    BY <1>1, <2>4, <2>5, <2>6, <2>7, <2>8, MboxGotKept
<1>15. CASE \E t \in Callers : MboxWakeSender(t)
  <2>1. PICK t \in Callers : MboxWakeSender(t)
    BY <1>15
  <2>2. PICK s \in Threads : s = mb.rx[t].from
    BY <1>0, <2>1, MboxTypes DEF MboxWakeSender, MboxCallOK
  <2>3. /\ sec.st = "free" /\ runnable[t] /\ UNCHANGED <<swapRet, halted>>
        /\ IF pendedOn[s] = NullQ THEN UnpendNoTimeout(s)
           ELSE UNCHANGED <<waitq, pendedOn>>
        /\ mb' = [mb EXCEPT !.rx[t] = NoRx, !.pc[t] = "idle"]
    BY <2>1, <2>2 DEF MboxWakeSender, Others, Unlocked
  <2>4. \A u \in Callers : mb.rx[u].from # t
    BY <2>3, MboxNotSent
  <2>5. \A u \in Threads : pendedOn'[u] \in {pendedOn[u], None}
    BY <1>0, <2>3, UnpendNoTimeoutMatch
  <2>6. /\ mb'.tx = mb.tx /\ mb'.rx = [mb.rx EXCEPT ![t] = NoRx]
        /\ mb'.pc = [mb.pc EXCEPT ![t] = "idle"]
    BY <1>0, <2>3 DEF MboxTypeOK
  <2>7. /\ mb'.rx[t].from = None /\ \A u \in Callers : u # t => mb'.rx[u] = mb.rx[u]
        /\ mb'.pc[t] = "idle" /\ \A u \in Callers : u # t => mb'.pc[u] = mb.pc[u]
    BY <1>0, <2>6 DEF MboxTypeOK, NoRx
  <2>8. \A u \in Threads : pendedOn'[u] = TxQ => mb'.tx[u].src \in Callers
    BY <1>1, <2>5, <2>6, MboxTypes
  <2>9. \A u \in Callers : mb'.rx[u].from # t
    BY <2>4, <2>7, MboxTypes
  <2>10. QED
    BY <1>1, <2>3, <2>6, <2>7, <2>8, <2>9, MboxGotKept
<1>16. CASE MboxEnvironment
  <2>1. /\ sec.st = "free" /\ suspending = None /\ Outside /\ suspending' = suspending
        /\ mb' = mb
    BY <1>0, <1>16 DEF MboxEnvironment, Others, Unlocked, MboxThreadsOK
  <2>2. \A u \in Threads : pendedOn'[u] \in {pendedOn[u], None}
    BY <1>0, <2>1, OutsideFacts
  <2>3. swapRet' = swapRet
    BY <1>0, <2>1, OutsideFacts
  <2>4. \A u \in Threads : halted[u] = "no" => halted'[u] = "no"
    <3>1. CASE ThreadTimeout
      BY <1>0, <3>1 DEF ThreadTimeout, PendTypeOK
    <3>2. CASE ~Suspend /\ ~ThreadTimeout
      <4>1. CASE \E t \in Victims : Resume(t)
        BY <1>0, <4>1 DEF Resume, PendTypeOK
      <4>2. CASE ~ \E t \in Victims : Resume(t)
        <5>1. halted' = halted
          BY <2>1, <3>2, <4>2 DEF Outside, Expire, PrioSet, SuspendAbortTimeout
        <5>2. QED
          BY <5>1
      <4>3. QED
        BY <4>1, <4>2
    <3>3. ~Suspend
      BY <2>1 DEF Suspend
    <3>4. QED
      BY <3>1, <3>2, <3>3
  <2>5. QED
    BY <1>1, <2>1, <2>2, <2>3, <2>4, MboxGotKept, MboxTypes
<1>17. CASE \E t \in Victims : MboxAbort(t)
  <2>1. PICK t \in Victims : MboxAbort(t)
    BY <1>17
  <2>2. t \in Callers /\ t \in Threads /\ Abort(t) /\ mb' = mb /\ mb.pc[t] # "locked"
    BY <2>1, MboxTypes DEF MboxAbort, HAbort
  <2>3. /\ swapRet' = swapRet /\ pendedOn'[t] = None
        /\ \A u \in Threads : u # t => pendedOn'[u] = pendedOn[u]
    BY <1>0, <2>2, AbortFacts DEF Abort
  <2>4. \A u \in Threads : u # t => halted'[u] = halted[u]
    BY <1>0, <2>2 DEF Abort, PendTypeOK
  <2>5. /\ \A u \in Threads : pendedOn'[u] = TxQ => mb'.tx[u].src \in Callers
        /\ \A u \in Callers : mb'.pc[u] = "locked" => halted'[u] = "no"
    BY <1>1, <2>2, <2>3, <2>4, MboxTypes
  <2>6. QED
    BY <1>1, <2>2, <2>3, <2>5, MboxGotKept
<1>18. QED
  BY <1>2, <1>3, <1>4, <1>5, <1>6, <1>7, <1>8, <1>9, <1>10, <1>11, <1>12, <1>13, <1>14,
     <1>15, <1>16, <1>17 DEF MboxNext


-----------------------------------------------------------------------------
(* The object in use.  Pipes are left to TLC.                              *)

(* Where an object keeps its promises: what passes items or messages on    *)
(* does so on one CPU; a queue is not searched while it is changed; a      *)
(* sender that waits is not resumed, and no priority changes meanwhile;    *)
(* and triggered work items are not cancelled by interrupts.               *)
KindIsSafe(k) ==
  /\ k \in {"stack", "slab", "queue", "mbox"} => ~SMP
  /\ k = "queue" => WalkAlone
  /\ k = "mbox" => ~MboxResume /\ NewPrios = {}
  /\ k = "poll" => WorksAreSafe

EmptyQueue == [head |-> None, tail |-> None, nxt |-> [x \in Items |-> None],
               wrapped |-> {}]

KindInv ==
  /\ kind = "stack" => ListInv(StackQ, stk) /\ StrandOK(StackQ)
  /\ kind = "slab" => SlabInv /\ StrandOK(SlabQ)
  /\ kind = "queue" => QueueInv /\ (ListsCover => QueueStrandOK)
  /\ kind = "mbox" => MboxInv /\ MboxGotOK
  /\ kind = "heap" => HeapInv
  /\ kind = "futex" => FutexInv
  /\ kind = "poll" => PollInv

(* What is not in use is as it was. *)
OthersAsInit ==
  /\ kind # "queue" => q = EmptyQueue /\ lst = NoList /\ walk = NoWalk
  /\ kind # "mbox" => mb = MboxRecord
  /\ kind # "poll" => PollInit

ObjectsInv == kind \in Kinds /\ OthersAsInit /\ (KindIsSafe(kind) => KindInv)

LEMMA ObjectsInitInv == Init => ObjectsInv
<1>1. SUFFICES ASSUME Init PROVE ObjectsInv
  OBVIOUS
<1>2. kind \in Kinds /\ HInit /\ OthersAsInit
  BY <1>1 DEF Init, OthersAsInit, EmptyQueue
<1>3. CASE kind = "stack"
  BY <1>1, <1>2, <1>3, StackInitInv, StrandInit, StackAssumption
     DEF Init, ObjectsInv, KindInv
<1>4. CASE kind = "slab"
  BY <1>1, <1>2, <1>4, SlabInitInv, StrandInit, SlabAssumption
     DEF Init, ObjectsInv, KindInv
<1>5. CASE kind = "queue"
  <2>1. QueueInv
    BY <1>1, <1>2, <1>5, QueueInitInv DEF Init
  <2>2. QueueStrandOK
    BY <1>1, <1>2, StrandInit, QueueAssumption DEF Init, QueueStrandOK
  <2>3. QED
    BY <1>2, <1>5, <2>1, <2>2 DEF ObjectsInv, KindInv
<1>6. CASE kind = "mbox"
  BY <1>1, <1>2, <1>6, MboxInitInv, MboxGotInit DEF Init, ObjectsInv, KindInv
<1>7. CASE kind = "heap"
  BY <1>1, <1>2, <1>7, HeapInitInv DEF Init, ObjectsInv, KindInv
<1>8. CASE kind = "futex"
  BY <1>1, <1>2, <1>8, FutexInitInv DEF Init, ObjectsInv, KindInv
<1>9. CASE kind = "poll"
  BY <1>1, <1>2, <1>9, PollInitInv DEF Init, HInit, ObjectsInv, KindInv
<1>10. CASE kind \notin {"stack", "slab", "queue", "mbox", "heap", "futex", "poll"}
  BY <1>2, <1>10 DEF ObjectsInv, KindInv
<1>11. QED
  BY <1>3, <1>4, <1>5, <1>6, <1>7, <1>8, <1>9, <1>10

LEMMA ObjectsStep ==
  ASSUME ObjectsInv, kind' = kind,
         kind # "queue" => UNCHANGED queueState,
         kind # "mbox" => UNCHANGED mb,
         kind # "poll" => UNCHANGED pollVars,
         KindIsSafe(kind) => KindInv'
  PROVE  ObjectsInv'
<1>1. OthersAsInit'
  <2>1. kind # "poll" => PollInit'
    <3>1. SUFFICES ASSUME kind # "poll" PROVE PollInit'
      OBVIOUS
    <3>2. PollInit /\ UNCHANGED pollVars
      BY <3>1 DEF ObjectsInv, OthersAsInit
    <3>3. /\ polled' = polled /\ cond' = cond /\ pollEvs' = pollEvs
          /\ evReady' = evReady /\ poller' = poller /\ work' = work
          /\ workFiring' = workFiring /\ handling' = handling /\ sig' = sig
      BY <3>2 DEF pollVars, objVars
    <3>4. QED
      BY <3>2, <3>3, Zenon DEF PollInit
  <2>2. QED
    BY <2>1 DEF ObjectsInv, OthersAsInit, queueState
<1>2. KindIsSafe(kind)' <=> KindIsSafe(kind)
  BY DEF KindIsSafe
<1>3. QED
  BY <1>1, <1>2 DEF ObjectsInv

LEMMA ObjectsNextInv == ASSUME ObjectsInv, Next PROVE ObjectsInv'
<1>0. kind' = kind
  BY DEF Next
<1>1. CASE kind = "stack" /\ StackNext /\ UNCHANGED <<queueState, slabState, waitState, pollVars>>
  <2>1. KindIsSafe(kind) => ListInv(StackQ, stk)' /\ StrandOK(StackQ)'
    BY <1>1, StackNextInv, StackStrand DEF ObjectsInv, KindInv, KindIsSafe
  <2>2. QED
    BY <1>0, <1>1, <2>1, ObjectsStep DEF KindInv, waitState
<1>2. CASE kind = "queue" /\ QueueNext /\ UNCHANGED <<stk, slabState, waitState, pollVars>>
  <2>1. KindIsSafe(kind) => QueueInv' /\ (ListsCover => QueueStrandOK')
    BY <1>2, QueueNextInv, QueueStrand DEF ObjectsInv, KindInv, KindIsSafe
  <2>2. QED
    BY <1>0, <1>2, <2>1, ObjectsStep DEF KindInv, waitState
<1>3. CASE kind = "slab" /\ SlabNext /\ UNCHANGED <<stk, queueState, waitState, pollVars>>
  <2>1. KindIsSafe(kind) => SlabInv' /\ StrandOK(SlabQ)'
    BY <1>3, SlabNextInv, SlabStrand DEF ObjectsInv, KindInv, KindIsSafe
  <2>2. QED
    BY <1>0, <1>3, <2>1, ObjectsStep DEF KindInv, waitState
<1>4. CASE kind = "mbox" /\ MboxNext /\ UNCHANGED <<stk, queueState, slabState, hp, fx, pp, pollVars>>
  <2>1. KindIsSafe(kind) => MboxInv' /\ MboxGotOK'
    BY <1>4, MboxNextInv, MboxGotNext DEF ObjectsInv, KindInv, KindIsSafe
  <2>2. QED
    BY <1>0, <1>4, <2>1, ObjectsStep DEF KindInv
<1>5. CASE kind = "heap" /\ HeapNext /\ UNCHANGED <<stk, queueState, slabState, mb, fx, pp, pollVars>>
  <2>1. KindIsSafe(kind) => HeapInv'
    BY <1>5, HeapNextInv DEF ObjectsInv, KindInv, KindIsSafe
  <2>2. QED
    BY <1>0, <1>5, <2>1, ObjectsStep DEF KindInv
<1>6. CASE kind = "futex" /\ FutexNext /\ UNCHANGED <<stk, queueState, slabState, mb, hp, pp, pollVars>>
  <2>1. KindIsSafe(kind) => FutexInv'
    BY <1>6, FutexNextInv DEF ObjectsInv, KindInv
  <2>2. QED
    BY <1>0, <1>6, <2>1, ObjectsStep DEF KindInv
<1>7. CASE kind = "pipe" /\ UNCHANGED <<stk, queueState, slabState, mb, hp, fx, pollVars>>
  BY <1>0, <1>7, ObjectsStep DEF KindInv
<1>8. CASE kind = "poll" /\ PollNext /\ UNCHANGED <<handVars, stk, queueState, slabState, waitState>>
  <2>1. KindIsSafe(kind) => PollInv'
    BY <1>8, PollNextInv DEF ObjectsInv, KindInv, KindIsSafe
  <2>2. QED
    BY <1>0, <1>8, <2>1, ObjectsStep DEF KindInv, waitState
<1>9. QED
  BY <1>1, <1>2, <1>3, <1>4, <1>5, <1>6, <1>7, <1>8 DEF Next

LEMMA HandStutter ==
  ASSUME NEW w, HandInv(w), UNCHANGED <<pendVars, handVars>>
  PROVE  HandInv(w)'
<1>1. PendInv'
  BY PendStutterInv DEF HandInv
<1>2. HandTypeOK' /\ HandOK(w)'
  BY DEF HandInv, HandTypeOK, HandOK, pendVars, handVars
<1>3. QED
  BY <1>1, <1>2 DEF HandInv

LEMMA StrandStutter ==
  ASSUME NEW w, StrandOK(w), UNCHANGED <<pendVars, handVars>>
  PROVE  StrandOK(w)'
  BY DEF StrandOK, NoneStranded, pendVars, handVars

LEMMA ObjectsStutter == ASSUME ObjectsInv, UNCHANGED vars PROVE ObjectsInv'
<1>0. /\ UNCHANGED <<pendVars, handVars, stk, queueState, slabState, waitState, pollVars>>
      /\ kind' = kind
  BY DEF vars
<1>1. SUFFICES ASSUME KindIsSafe(kind) PROVE KindInv'
  BY <1>0, ObjectsStep DEF waitState
<1>2. KindInv
  BY <1>1 DEF ObjectsInv
<1>3. CASE kind = "stack"
  <2>1. ListInv(StackQ, stk)
    BY <1>2, <1>3 DEF KindInv
  <2>2. HandInv(StackQ)'
    BY <1>0, <2>1, HandStutter DEF ListInv
  <2>3. ListInv(StackQ, stk)'
    BY <1>0, <2>1, <2>2 DEF ListInv, PlacesOK, Stored, NoDup, In, pendVars, handVars
  <2>4. StrandOK(StackQ)'
    BY <1>0, <1>2, <1>3, StrandStutter DEF KindInv
  <2>5. QED
    BY <1>0, <1>3, <2>3, <2>4 DEF KindInv
<1>4. CASE kind = "slab"
  <2>1. SlabInv /\ ListInv(SlabQ, freeList)
    BY <1>2, <1>4 DEF KindInv, SlabInv
  <2>2. HandInv(SlabQ)'
    BY <1>0, <2>1, HandStutter DEF ListInv
  <2>3. ListInv(SlabQ, freeList)'
    BY <1>0, <2>1, <2>2
       DEF ListInv, PlacesOK, Stored, NoDup, In, pendVars, handVars, slabState
  <2>4. SlabInv'
    BY <1>0, <2>1, <2>3 DEF SlabInv, SlabAccounts, slabState
  <2>5. StrandOK(SlabQ)'
    BY <1>0, <1>2, <1>4, StrandStutter DEF KindInv
  <2>6. QED
    BY <1>0, <1>4, <2>4, <2>5 DEF KindInv
<1>5. CASE kind = "queue"
  <2>1. PICK s : QueueIs(s)
    BY <1>2, <1>5 DEF KindInv, QueueInv
  <2>2. HandInv(QueueQ)'
    BY <1>0, <2>1, HandStutter DEF QueueIs
  <2>3. QueueIs(s)'
    BY <1>0, <2>1, <2>2
       DEF QueueIs, QueueTypeOK, IsList, Chain, At, PlacesOK, Stored, Rest, AppendListOK,
           HeldOK, WalkOK, Unlocked, NoDup, In, pendVars, handVars, queueState
  <2>4. ListsCover => QueueStrandOK'
    BY <1>0, <1>2, <1>5, StrandStutter DEF KindInv, QueueStrandOK, pendVars, queueState
  <2>5. QED
    BY <1>0, <1>5, <2>3, <2>4 DEF KindInv, QueueInv
<1>6. CASE kind = "mbox"
  <2>1. MboxInv /\ PendInv'
    BY <1>0, <1>2, <1>6, PendStutterInv DEF KindInv, MboxInv
  <2>2. MboxInv'
    BY <1>0, <2>1
       DEF MboxInv, MboxTypeOK, MboxThreadsOK, MboxPutOK, MboxGetOK, NoneMissed,
           MboxCallOK, MboxMessageOK, SenderSleeps, DescriptorOK, Matches,
           pendVars, handVars, waitState
  <2>3. MboxGotOK'
    BY <1>0, <1>2, <1>6 DEF KindInv, MboxGotOK, GotOK, Matches, pendVars, waitState
  <2>4. QED
    BY <1>0, <1>6, <2>2, <2>3 DEF KindInv
<1>7. CASE kind = "heap"
  <2>1. HeapInv /\ PendInv'
    BY <1>0, <1>2, <1>7, PendStutterInv DEF KindInv, HeapInv
  <2>2. HeapInv'
    BY <1>0, <2>1
       DEF HeapInv, HeapTypeOK, HeapWaitersOK, Fits, Placed, InPlace, FreeAt, InUse,
           Units, Unlocked, pendVars, handVars, waitState
  <2>3. QED
    BY <1>0, <1>7, <2>2 DEF KindInv
<1>8. CASE kind = "futex"
  <2>1. FutexInv /\ PendInv'
    BY <1>0, <1>2, <1>8, PendStutterInv DEF KindInv, FutexInv
  <2>2. FutexInv'
    BY <1>0, <2>1 DEF FutexInv, FutexTypeOK, FutexWoken, pendVars, handVars, waitState
  <2>3. QED
    BY <1>0, <1>8, <2>2 DEF KindInv
<1>9. CASE kind = "poll"
  BY <1>0, <1>2, <1>9, PollStutterInv DEF KindInv
<1>10. QED
  BY <1>0, <1>3, <1>4, <1>5, <1>6, <1>7, <1>8, <1>9 DEF KindInv

LEMMA ObjectsAlways == Spec => []ObjectsInv
<1>1. ObjectsInv /\ [Next]_vars => ObjectsInv'
  BY ObjectsNextInv, ObjectsStutter
<1>2. QED
  BY <1>1, ObjectsInitInv, PTL DEF Spec


(* Where every object of the choice is used as it must be *)
AllSafe == \A k \in Kinds : KindIsSafe(k)

LEMMA ObjectsSafe == ASSUME AllSafe, ObjectsInv PROVE kind \in Kinds /\ KindInv /\ OthersAsInit
  BY DEF AllSafe, ObjectsInv

(* Without a pipe among the objects, nothing an object passes on is lost   *)
(* or has two owners: items of stacks and queues, blocks of a slab, and    *)
(* the descriptors of asynchronous messages (k_stack_push,                 *)
(* k_queue_append_list, k_mem_slab_free, mbox_message_dispose).            *)
THEOREM ObjectsOneOwner ==
  ASSUME AllSafe, "pipe" \notin Kinds PROVE Spec => []OneOwner
<1>1. ASSUME ObjectsInv PROVE OneOwner
  <2>0. kind # "pipe" /\ KindInv /\ OthersAsInit
    BY <1>1, ObjectsSafe
  <2>1. ASSUME Stores, NEW x \in Items
        PROVE  Places(x, Store) + (IF x \in ListRest THEN 1 ELSE 0) = 1
    <3>1. CASE kind = "stack"
      <4>1. Store = stk /\ x \notin ListRest
        BY <2>0, <3>1 DEF Store, OthersAsInit, ListRest
      <4>2. Places(x, stk) = 1
        BY <2>0, <3>1, ListOneOwner, StackAssumption DEF KindInv
      <4>3. QED
        BY <4>1, <4>2
    <3>2. CASE kind = "slab"
      <4>1. Store = freeList /\ x \notin ListRest
        BY <2>0, <3>2 DEF Store, OthersAsInit, ListRest
      <4>2. Places(x, freeList) = 1
        BY <2>0, <3>2, ListOneOwner, SlabAssumption DEF KindInv, SlabInv
      <4>3. QED
        BY <4>1, <4>2
    <3>3. CASE kind = "queue"
      <4>1. Store = Hops(q, q.head) /\ QueueInv
        BY <2>0, <3>3 DEF Store, KindInv
      <4>2. QED
        BY <4>1, QueueInvImplies
    <3>4. QED
      BY <2>1, <3>1, <3>2, <3>3 DEF Stores
  <2>2. kind = "mbox" /\ Unlocked => \A d \in Dummies : DescriptorPlaces(d) = 1
    BY <2>0, MboxDescriptors DEF KindInv
  <2>3. QED
    BY <2>0, <2>1, <2>2 DEF OneOwner
<1>2. QED
  BY <1>1, ObjectsAlways, PTL

(* Without a pipe, nobody sleeps for what is there: while the store has an *)
(* item (which k_stack_push and k_mem_slab_free rely on), a message in the *)
(* queue suits a receiver that waits, or a heap has a place that fits and  *)
(* no free or realloc has passed the thread by.  Nobody sleeps unpended    *)
(* and not made ready either, where the lists given to k_queue_append_list *)
(* have an item for every thread that waits.                               *)
THEOREM ObjectsNobodyWaitsInVain ==
  ASSUME AllSafe, "pipe" \notin Kinds, "queue" \in Kinds => ListsCover
  PROVE  Spec => []NobodyWaitsInVain
<1>1. ASSUME ObjectsInv PROVE NobodyWaitsInVain
  <2>0. kind # "pipe" /\ KindInv /\ (kind = "queue" => ListsCover)
    BY <1>1, ObjectsSafe
  <2>1. ASSUME Stores, waitq[StoreQ] # <<>>
        PROVE  \A i \in DOMAIN Store : Store[i] = None
    <3>1. CASE kind = "stack"
      <4>1. Store = stk /\ StoreQ = StackQ
        BY <3>1 DEF Store, StoreQ
      <4>2. stk = <<>>
        BY <2>0, <2>1, <3>1, <4>1, ListNobodyWaits, StackAssumption DEF KindInv
      <4>3. QED
        BY <4>1, <4>2
    <3>2. CASE kind = "slab"
      <4>1. Store = freeList /\ StoreQ = SlabQ
        BY <3>2 DEF Store, StoreQ
      <4>2. freeList = <<>>
        BY <2>0, <2>1, <3>2, <4>1, ListNobodyWaits, SlabAssumption DEF KindInv, SlabInv
      <4>3. QED
        BY <4>1, <4>2
    <3>3. CASE kind = "queue"
      <4>1. Store = Hops(q, q.head) /\ StoreQ = QueueQ /\ QueueInv
        BY <2>0, <3>3 DEF Store, StoreQ, KindInv
      <4>2. QED
        BY <2>1, <4>1, QueueInvImplies
    <3>4. QED
      BY <2>1, <3>1, <3>2, <3>3 DEF Stores
  <2>2. kind = "mbox" => MboxNobodyMissed
    BY <2>0, MboxInvImplies DEF KindInv
  <2>3. kind = "heap" => HeapNobodyMissed
    BY <2>0, HeapInvImplies DEF KindInv
  <2>4. Stores => NoneStranded(StoreQ)
    <3>1. CASE kind = "stack"
      BY <2>0, <3>1 DEF KindInv, StrandOK, StoreQ
    <3>2. CASE kind = "slab"
      BY <2>0, <3>2 DEF KindInv, StrandOK, StoreQ
    <3>3. CASE kind = "queue"
      BY <2>0, <3>3 DEF KindInv, QueueStrandOK, StrandOK, StoreQ
    <3>4. QED
      BY <3>1, <3>2, <3>3 DEF Stores
  <2>5. QED
    BY <2>0, <2>1, <2>2, <2>3, <2>4 DEF NobodyWaitsInVain
<1>2. QED
  BY <1>1, ObjectsAlways, PTL

(* A wait reports success only for what it waited for: k_poll, where no    *)
(* wait is cancelled before its poller sleeps, for an event that is ready, *)
(* k_futex_wait for a k_futex_wake, k_mbox_get for a message that suits it *)
(* and k_mbox_put for one that was disposed of.                            *)
THEOREM ObjectsSuccessIsReal ==
  ASSUME AllSafe, "poll" \in Kinds => ~CancelEarly PROVE Spec => []SuccessIsReal
<1>1. ASSUME ObjectsInv PROVE SuccessIsReal
  <2>1. kind \in Kinds /\ KindInv
    BY <1>1, ObjectsSafe
  <2>2. kind = "poll" => SuccessHasEvent
    BY <2>1, PollInvImplies DEF KindInv
  <2>3. kind = "futex" => FutexSuccess
    BY <2>1, FutexInvImplies DEF KindInv
  <2>4. kind = "mbox" => MboxSuccess
    BY <2>1, MboxGotImplies DEF KindInv
  <2>5. QED
    BY <2>2, <2>3, <2>4 DEF SuccessIsReal
<1>2. QED
  BY <1>1, ObjectsAlways, PTL

(* A message is with one receiver, its sender sleeps until it is disposed  *)
(* of, and a sender that is in no queue sleeps for a receiver that has its *)
(* message, though that receiver may have been aborted (mbox_message_put,  *)
(* mbox_message_dispose).                                                  *)
THEOREM ObjectsSenderHasReceiver ==
  ASSUME AllSafe PROVE Spec => []SenderHasReceiver
<1>1. ASSUME ObjectsInv PROVE SenderHasReceiver
  <2>1. CASE kind = "mbox"
    BY <1>1, <2>1, ObjectsSafe, MboxInvImplies DEF KindInv
  <2>2. CASE kind # "mbox"
    <3>1. /\ mb.rx = [t \in Callers |-> [source |-> None, now |-> FALSE, from |-> None]]
          /\ mb.pc = [t \in Callers |-> "idle"]
      BY <1>1, <2>2 DEF ObjectsInv, OthersAsInit, MboxRecord, NoRx
    <3>2. QED
      BY <3>1 DEF SenderHasReceiver
  <2>3. QED
    BY <2>1, <2>2
<1>2. QED
  BY <1>1, ObjectsAlways, PTL

(* The links of a queue end at its tail, with no cycle, whatever inserts,  *)
(* removes, appends lists or walks (sys_sflist, k_queue_remove).           *)
THEOREM ObjectsQueueWellFormed ==
  ASSUME AllSafe PROVE Spec => []QueueWellFormed
<1>1. ASSUME ObjectsInv PROVE QueueWellFormed
  <2>1. CASE kind = "queue"
    BY <1>1, <2>1, ObjectsSafe, QueueInvImplies DEF KindInv
  <2>2. CASE kind # "queue"
    <3>1. q = EmptyQueue
      BY <1>1, <2>2 DEF ObjectsInv, OthersAsInit
    <3>2. PICK s \in Seq(Items) : s = <<>> /\ Len(s) = 0
      <4>1. <<>> \in Seq(Items) /\ Len(<<>>) = 0
        OBVIOUS
      <4>2. QED
        BY <4>1
    <3>3. NoDup(s) /\ IsList(q, s)
      BY <3>1, <3>2 DEF EmptyQueue, NoDup, IsList, Chain, At
    <3>4. QED
      BY <3>3, ListWellFormed
  <2>3. QED
    BY <2>1, <2>2
<1>2. QED
  BY <1>1, ObjectsAlways, PTL

(* k_poll returns, and a triggered work item ends, with none of its events *)
(* linked to an object (clear_event_registrations).                        *)
THEOREM ObjectsNoRegistrationLeft ==
  ASSUME AllSafe PROVE Spec => []NoRegistrationLeft
<1>1. ASSUME ObjectsInv PROVE NoRegistrationLeft
  <2>1. CASE kind = "poll"
    BY <1>1, <2>1, ObjectsSafe, PollInvImplies DEF KindInv
  <2>2. CASE kind # "poll"
    BY <1>1, <2>2 DEF ObjectsInv, OthersAsInit, PollInit, NoRegistrationLeft, Linked
  <2>3. QED
    BY <2>1, <2>2
<1>2. QED
  BY <1>1, ObjectsAlways, PTL

(* A poller that waits is told when an object becomes ready that only it   *)
(* polls (z_handle_obj_poll_events, signal_poll_event).                    *)
THEOREM ObjectsReadyIsNoticed ==
  ASSUME AllSafe PROVE Spec => []ReadyIsNoticed
<1>1. ASSUME ObjectsInv PROVE ReadyIsNoticed
  <2>1. CASE kind = "poll"
    BY <1>1, <2>1, ObjectsSafe, PollInvImplies DEF KindInv
  <2>2. CASE kind # "poll"
    BY <1>1, <2>2 DEF ObjectsInv, OthersAsInit, PollInit, ReadyIsNoticed
  <2>3. QED
    BY <2>1, <2>2
<1>2. QED
  BY <1>1, ObjectsAlways, PTL

(* num_used of a slab and the length of its free list add up to its blocks *)
(* (k_mem_slab_alloc, k_mem_slab_free).                                    *)
THEOREM ObjectsBlocksCounted ==
  ASSUME AllSafe PROVE Spec => []BlocksCounted
<1>1. ObjectsInv => BlocksCounted
  BY ObjectsSafe DEF KindInv, SlabInv, BlocksCounted
<1>2. QED
  BY <1>1, ObjectsAlways, PTL

=============================================================================
