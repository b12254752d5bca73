---------------------------- MODULE KEventProofs ----------------------------
(***************************************************************************)
(* Theorems about the event object, for every set of threads, event bits   *)
(* and priorities, on one CPU and on several.                              *)
(***************************************************************************)
EXTENDS KEvent, PendProofs

-----------------------------------------------------------------------------
(* What a walk of a wait queue collects. *)

Distinct(q) == \A i, j \in 1..Len(q) : q[i] = q[j] => i = j

(* One step of the walk, as a function of the steps before it. *)
WalkStep(q, S, f, n) ==
  IF n = 0 THEN <<>>
  ELSE IF q[n] \in S THEN <<q[n]>> \o f[n - 1] ELSE f[n - 1]

(* r holds the threads of S among the first n of q, each of them once. *)
HoldsFirst(r, q, S, n) ==
  /\ r \in Seq(Threads)
  /\ \A x : Contains(r, x) <=> x \in S /\ \E i \in 1..n : q[i] = x
  /\ Distinct(r)

LEMMA PushFacts ==
  ASSUME NEW s \in Seq(Threads), NEW x \in Threads
  PROVE  /\ <<x>> \o s \in Seq(Threads)
         /\ \A y : Contains(<<x>> \o s, y) <=> y = x \/ Contains(s, y)
         /\ (Distinct(s) /\ ~Contains(s, x)) => Distinct(<<x>> \o s)
<1> DEFINE r == <<x>> \o s
<1>1. /\ r \in Seq(Threads) /\ Len(r) = Len(s) + 1 /\ r[1] = x
      /\ \A i \in 1..Len(s) : r[i + 1] = s[i]
  OBVIOUS
<1>2. Len(s) \in Nat
  OBVIOUS
<1> HIDE DEF r
<1>3. \A i \in 1..Len(r) : i = 1 \/ (i - 1 \in 1..Len(s) /\ r[i] = s[i - 1])
  <2>1. TAKE i \in 1..Len(r)
  <2>2. CASE i # 1
    <3>1. i - 1 \in 1..Len(s) /\ (i - 1) + 1 = i
      BY <1>1, <1>2, <2>2
    <3>2. QED
      BY <1>1, <3>1
  <2>3. QED
    BY <2>2
<1>4. \A y : Contains(r, y) <=> y = x \/ Contains(s, y)
  <2>1. TAKE y
  <2>2. ASSUME Contains(r, y) PROVE y = x \/ Contains(s, y)
    BY <1>1, <1>3, <2>2 DEF Contains
  <2>3. ASSUME y = x PROVE Contains(r, y)
    <3>1. 1 \in 1..Len(r)
      BY <1>1, <1>2
    <3>2. QED
      BY <1>1, <2>3, <3>1 DEF Contains
  <2>4. ASSUME Contains(s, y) PROVE Contains(r, y)
    <3>1. PICK i \in 1..Len(s) : s[i] = y
      BY <2>4 DEF Contains
    <3>2. i + 1 \in 1..Len(r) /\ r[i + 1] = y
      BY <1>1, <1>2, <3>1
    <3>3. QED
      BY <3>2 DEF Contains
  <2>5. QED
    BY <2>2, <2>3, <2>4
<1>5. ASSUME Distinct(s), ~Contains(s, x)
      PROVE  Distinct(r)
  <2>1. SUFFICES ASSUME NEW i \in 1..Len(r), NEW j \in 1..Len(r), r[i] = r[j]
                 PROVE  i = j
    BY DEF Distinct
  <2>2. CASE i = 1 \/ j = 1
    BY <1>1, <1>3, <1>5, <2>1, <2>2 DEF Contains
  <2>3. CASE i # 1 /\ j # 1
    <3>1. i - 1 \in 1..Len(s) /\ j - 1 \in 1..Len(s) /\ s[i - 1] = s[j - 1]
      BY <1>3, <2>1, <2>3
    <3>2. i - 1 = j - 1
      BY <1>5, <3>1 DEF Distinct
    <3>3. QED
      BY <3>2
  <2>4. QED
    BY <2>2, <2>3
<1>6. QED
  BY <1>1, <1>4, <1>5 DEF r

(* The walk is well defined. *)
LEMMA WalkExists ==
  ASSUME NEW q, NEW S, NEW n \in Nat
  PROVE  \E f : f = [m \in 0..n |-> WalkStep(q, S, f, m)]
<1> DEFINE P(k) == \E f : f = [m \in 0..k |-> WalkStep(q, S, f, m)]
           Bad == {k \in Nat : ~P(k)}
<1>1. P(0)
  <2>1. [m \in 0..0 |-> <<>>] = [m \in 0..0 |-> WalkStep(q, S, [i \in 0..0 |-> <<>>], m)]
    BY DEF WalkStep
  <2>2. QED
    BY <2>1
<1>2. ASSUME NEW k \in Nat, P(k)
      PROVE  P(k + 1)
  <2>1. PICK f : f = [m \in 0..k |-> WalkStep(q, S, f, m)]
    BY <1>2
  <2> DEFINE g == [m \in 0..(k + 1) |->
                     IF m = k + 1 THEN WalkStep(q, S, f, m) ELSE f[m]]
  <2>2. \A m \in 0..(k + 1) : m # 0 => m - 1 \in 0..k /\ g[m - 1] = f[m - 1]
    OBVIOUS
  <2>3. \A m \in 0..(k + 1) : WalkStep(q, S, g, m) = WalkStep(q, S, f, m)
    <3>1. TAKE m \in 0..(k + 1)
    <3>2. m # 0 => g[m - 1] = f[m - 1]
      BY <2>2
    <3> HIDE DEF g
    <3>3. QED
      BY <3>2 DEF WalkStep
  <2>4. \A m \in 0..(k + 1) : g[m] = WalkStep(q, S, f, m)
    <3>1. TAKE m \in 0..(k + 1)
    <3>2. CASE m = k + 1
      BY <3>2
    <3>3. CASE m # k + 1
      <4>1. m \in 0..k
        BY <3>3
      <4>2. f[m] = WalkStep(q, S, f, m)
        BY <2>1, <4>1
      <4>3. QED
        BY <3>3, <4>2
    <3>4. QED
      BY <3>2, <3>3
  <2>5. g = [m \in 0..(k + 1) |-> g[m]]
    OBVIOUS
  <2> HIDE DEF g
  <2>6. g = [m \in 0..(k + 1) |-> WalkStep(q, S, g, m)]
    BY <2>3, <2>4, <2>5
  <2>7. QED
    BY <2>6
<1> HIDE DEF P
<1>3. Bad = {}
  <2>1. SUFFICES ASSUME Bad # {} PROVE FALSE
    OBVIOUS
  <2>2. PICK k \in Bad : \A j \in Bad : k =< j
    <3>1. Bad \in SUBSET Nat
      OBVIOUS
    <3> HIDE DEF Bad
    <3>2. QED
      BY <2>1, <3>1, MinOfNaturals
  <2>3. k # 0 /\ k \in Nat /\ ~P(k)
    BY <1>1, <2>2
  <2>4. k - 1 \in Nat /\ k - 1 \notin Bad /\ (k - 1) + 1 = k
    BY <2>2, <2>3
  <2>5. P(k - 1)
    BY <2>4
  <2>6. P((k - 1) + 1)
    BY <1>2, <2>4, <2>5
  <2>7. QED
    BY <2>3, <2>4, <2>6
<1>4. QED
  BY <1>3 DEF P

(* It collects the threads of S that are in the queue, each of them once. *)
LEMMA CollectedFacts ==
  ASSUME NEW q \in Seq(Threads), Distinct(q), NEW S
  PROVE  HoldsFirst(Collected(q, S), q, S, Len(q))
<1> DEFINE Walk == CHOOSE f : f = [n \in 0..Len(q) |-> WalkStep(q, S, f, n)]
<1>1. Collected(q, S) = Walk[Len(q)]
  BY DEF Collected, WalkStep
<1>2. Len(q) \in Nat
  OBVIOUS
<1>3. Walk = [n \in 0..Len(q) |-> WalkStep(q, S, Walk, n)]
  BY <1>2, WalkExists
<1> HIDE DEF Walk
<1>4. \A n \in 0..Len(q) : Walk[n] = WalkStep(q, S, Walk, n)
  BY <1>3
<1> DEFINE Bad == {n \in 0..Len(q) : ~HoldsFirst(Walk[n], q, S, n)}
<1>5. HoldsFirst(Walk[0], q, S, 0)
  <2>1. 0 \in 0..Len(q) /\ Walk[0] = WalkStep(q, S, Walk, 0)
    BY <1>2, <1>4
  <2>2. Walk[0] = <<>>
    BY <2>1 DEF WalkStep
  <2>3. QED
    BY <2>2 DEF HoldsFirst, Contains, Distinct
<1>6. ASSUME NEW k \in 0..Len(q), k # 0, HoldsFirst(Walk[k - 1], q, S, k - 1)
      PROVE  HoldsFirst(Walk[k], q, S, k)
  <2> DEFINE r == Walk[k - 1]
  <2>1. k \in 1..Len(q) /\ q[k] \in Threads
    BY <1>2, <1>6
  <2>2. /\ r \in Seq(Threads) /\ Distinct(r)
        /\ \A x : Contains(r, x) <=> x \in S /\ \E i \in 1..(k - 1) : q[i] = x
    BY <1>6 DEF HoldsFirst
  <2>3. Walk[k] = IF q[k] \in S THEN <<q[k]>> \o r ELSE r
    BY <1>4, <1>6 DEF WalkStep
  <2> HIDE DEF r
  <2>4. \A x : (\E i \in 1..k : q[i] = x) <=> x = q[k] \/ \E i \in 1..(k - 1) : q[i] = x
    BY <2>1
  <2>5. CASE q[k] \in S
    <3>1. ~Contains(r, q[k])
      <4>1. \A i \in 1..(k - 1) : i \in 1..Len(q) /\ i # k
        BY <1>2, <2>1
      <4>2. \A i \in 1..(k - 1) : q[i] # q[k]
        BY <2>1, <4>1 DEF Distinct
      <4>3. QED
        BY <2>2, <4>2
    <3>2. /\ <<q[k]>> \o r \in Seq(Threads)
          /\ \A y : Contains(<<q[k]>> \o r, y) <=> y = q[k] \/ Contains(r, y)
          /\ Distinct(<<q[k]>> \o r)
      BY <2>1, <2>2, <3>1, PushFacts
    <3>3. QED
      BY <2>2, <2>3, <2>4, <2>5, <3>2 DEF HoldsFirst
  <2>6. CASE q[k] \notin S
    BY <2>2, <2>3, <2>4, <2>6 DEF HoldsFirst
  <2>7. QED
    BY <2>5, <2>6
<1>7. Bad = {}
  <2>1. SUFFICES ASSUME Bad # {} PROVE FALSE
    OBVIOUS
  <2>2. PICK k \in Bad : \A j \in Bad : k =< j
    <3>1. Bad \in SUBSET Nat
      BY <1>2
    <3> HIDE DEF Bad
    <3>2. QED
      BY <2>1, <3>1, MinOfNaturals
  <2>3. k # 0 /\ k \in 0..Len(q) /\ ~HoldsFirst(Walk[k], q, S, k)
    BY <1>5, <2>2
  <2>4. k - 1 \in 0..Len(q) /\ k - 1 \notin Bad
    BY <1>2, <2>2, <2>3
  <2>5. QED
    BY <1>6, <2>3, <2>4
<1>8. QED
  BY <1>1, <1>2, <1>7

-----------------------------------------------------------------------------
(* The inductive invariant. *)
Calls == [desired : SUBSET Bits, all : BOOLEAN]

EventTypeOK ==
  /\ events \in SUBSET Bits
  /\ tev \in [Threads -> SUBSET Bits]
  /\ wait \in [Threads -> Calls \cup {None}]
  /\ noWake \in [Threads -> BOOLEAN]

(* The post in progress: it works with the events it has just set, and its *)
(* list is never empty.                                                    *)
PostOK ==
  \/ post = NoPost
  \/ /\ post \in [todo : Seq(Threads), ev : SUBSET Bits, st : {"walked", "stored"}]
     /\ post.todo # <<>> /\ Distinct(post.todo)
     /\ post.ev = events

(* Whoever is queued is in a call, and thread->events is what it asks for  *)
(* until the post that wakes it has stored what it gets.                   *)
QueuedInCall ==
  \A t \in Threads :
    /\ pendedOn[t] # None => wait[t] # None
    /\ pendedOn[t] = EventQ =>
         \/ tev[t] = wait[t].desired
         \/ post.st = "stored" /\ t = Head(post.todo)

(* A thread that a post has collected stays in the queue, for the wait it  *)
(* was collected for, until the post wakes it or it is aborted: it has no  *)
(* timeout any more, and a handler on its way finds no_wake_on_timeout.    *)
CollectedStays ==
  \A t \in Threads : Contains(post.todo, t) =>
    /\ wait[t] # None
    /\ halted[t] = "dead" \/ pendedOn[t] = EventQ
    /\ Met(wait[t].desired, post.ev, wait[t].all)
    /\ ~timeout[t]
    /\ firing = t => noWake[t]

(* Everybody whose condition the events meet has been collected. *)
NoneLeft ==
  \A t \in Threads : pendedOn[t] = EventQ /\ ~Contains(post.todo, t) =>
    ~Met(wait[t].desired, events, wait[t].all)

(* The return value of a call is 0 only with events that meet its          *)
(* condition.                                                              *)
ZeroIsSuccess ==
  /\ \A t \in Threads : wait[t] # None /\ swapRet[t] = "0" =>
       Met(wait[t].desired, tev[t], wait[t].all)

EventInv ==
  /\ PendInv /\ EventTypeOK /\ PostOK
  /\ QueuedInCall /\ CollectedStays /\ NoneLeft /\ ZeroIsSuccess
  /\ TimeoutHeeded

-----------------------------------------------------------------------------
LEMMA MetMonotone ==
  ASSUME NEW d, NEW a \in BOOLEAN, NEW c, NEW e, c \subseteq e, Met(d, c, a)
  PROVE  Met(d, e, a)
BY DEF Met

(* Outside a post nothing is collected; in one, the first thread is. *)
LEMMA PostFacts ==
  ASSUME PostOK
  PROVE  /\ post = NoPost => post.st = "none" /\ \A t : ~Contains(post.todo, t)
         /\ post # NoPost =>
              /\ post.todo \in Seq(Threads) /\ post.todo # <<>>
              /\ Head(post.todo) \in Threads
              /\ Contains(post.todo, Head(post.todo))
<1>1. ASSUME post = NoPost
      PROVE  post.st = "none" /\ \A t : ~Contains(post.todo, t)
  BY <1>1 DEF NoPost, Contains
<1>2. ASSUME post # NoPost
      PROVE  /\ post.todo \in Seq(Threads) /\ post.todo # <<>>
             /\ Head(post.todo) \in Threads
             /\ Contains(post.todo, Head(post.todo))
  <2>1. PICK s \in Seq(Threads) : s = post.todo /\ s # <<>>
    BY <1>2 DEF PostOK
  <2>2. 1 \in 1..Len(s) /\ Head(s) = s[1] /\ Head(s) \in Threads
    BY <2>1
  <2>3. Contains(s, Head(s))
    BY <2>2 DEF Contains
  <2>4. QED
    BY <2>1, <2>2, <2>3
<1>3. QED
  BY <1>1, <1>2

(* The call a thread is in. *)
LEMMA CallFacts ==
  ASSUME EventTypeOK, NEW t \in Threads, wait[t] # None
  PROVE  wait[t].desired \in SUBSET Bits /\ wait[t].all \in BOOLEAN
BY DEF EventTypeOK, Calls

LEMMA WaitPendInv ==
  ASSUME EventInv, NEW t \in Threads, NEW desired \in SUBSET Bits,
         NEW all \in BOOLEAN, NEW reset \in BOOLEAN, NEW fv \in BOOLEAN,
         WaitPend(t, desired, all, reset, fv)
  PROVE  EventInv'
<1> USE PendAssumption, EventAssumption
<1> DEFINE current == IF reset THEN {} ELSE events
<1>0. /\ PendInv /\ EventTypeOK /\ PostOK /\ QueuedInCall /\ CollectedStays
      /\ NoneLeft /\ ZeroIsSuccess /\ TimeoutHeeded
  BY DEF EventInv
<1>1. /\ post = NoPost /\ post' = post /\ noWake' = noWake
      /\ wait[t] = None /\ runnable[t] /\ events' = current
      /\ ~Met(desired, current, all)
      /\ tev' = [tev EXCEPT ![t] = desired]
      /\ wait' = [wait EXCEPT ![t] = [desired |-> desired, all |-> all]]
      /\ PendCurr(t, EventQ, fv)
  BY DEF WaitPend, Unlocked
<1>2. current \subseteq events /\ current \in SUBSET Bits
  BY <1>0 DEF EventTypeOK
<1> HIDE DEF current
<1>3. PendInv'
  BY <1>0, <1>1, PendCurrInv
<1>4. PendTypeOK
  BY <1>0 DEF PendInv
<1>5. PICK c \in Calls : c = [desired |-> desired, all |-> all]
  BY DEF Calls
<1>6. c.desired = desired /\ c.all = all /\ c # None
  BY <1>5 DEF Calls
<1>7. /\ pendedOn' = [pendedOn EXCEPT ![t] = EventQ]
      /\ swapRet' = [swapRet EXCEPT ![t] = "EAGAIN"]
      /\ wait' = [wait EXCEPT ![t] = c]
  BY <1>1, <1>5 DEF PendCurr
<1>8. /\ pendedOn'[t] = EventQ /\ wait'[t] = c /\ tev'[t] = desired
      /\ swapRet'[t] = "EAGAIN"
      /\ \A u \in Threads : u # t =>
           /\ pendedOn'[u] = pendedOn[u] /\ wait'[u] = wait[u]
           /\ tev'[u] = tev[u] /\ swapRet'[u] = swapRet[u]
  BY <1>0, <1>1, <1>4, <1>7 DEF PendTypeOK, EventTypeOK
<1>9. post.st = "none" /\ \A u : ~Contains(post.todo, u)
  BY <1>0, <1>1, PostFacts
<1>10. EventTypeOK'
  BY <1>0, <1>1, <1>2, <1>7 DEF EventTypeOK
<1>11. PostOK'
  BY <1>1 DEF PostOK
<1>12. QueuedInCall'
  BY <1>0, <1>1, <1>6, <1>8, <1>9 DEF QueuedInCall
<1>13. CollectedStays' /\ TimeoutHeeded'
  BY <1>0, <1>1, <1>9 DEF CollectedStays, TimeoutHeeded
<1>14. NoneLeft'
  <2>1. SUFFICES ASSUME NEW u \in Threads, pendedOn'[u] = EventQ
                 PROVE  ~Met(wait'[u].desired, events', wait'[u].all)
    BY DEF NoneLeft
  <2>2. CASE u = t
    BY <1>1, <1>6, <1>8, <2>2
  <2>3. CASE u # t
    <3>1. wait[u] # None /\ ~Met(wait[u].desired, events, wait[u].all)
      BY <1>0, <1>8, <1>9, <2>1, <2>3 DEF NoneLeft, QueuedInCall
    <3>2. wait[u].all \in BOOLEAN
      BY <1>0, <3>1, CallFacts
    <3>3. ~Met(wait[u].desired, current, wait[u].all)
      BY <1>2, <3>1, <3>2, MetMonotone
    <3>4. QED
      BY <1>1, <1>8, <2>3, <3>3
  <2>4. QED
    BY <2>2, <2>3
<1>15. ZeroIsSuccess'
  BY <1>0, <1>8 DEF ZeroIsSuccess
<1>16. QED
  BY <1>3, <1>10, <1>11, <1>12, <1>13, <1>14, <1>15 DEF EventInv

LEMMA WaitResetInv ==
  ASSUME EventInv, WaitReset
  PROVE  EventInv'
<1> USE PendAssumption, EventAssumption
<1>0. /\ PendInv /\ EventTypeOK /\ PostOK /\ QueuedInCall /\ CollectedStays
      /\ NoneLeft /\ ZeroIsSuccess /\ TimeoutHeeded
  BY DEF EventInv
<1>1. post = NoPost /\ events' = {} /\ UNCHANGED <<pendVars, tev, wait, noWake, post>>
  BY DEF WaitReset, Unlocked
<1>2. PendInv'
  BY <1>0, <1>1, PendStutterInv
<1>3. EventTypeOK' /\ PostOK' /\ TimeoutHeeded'
  BY <1>0, <1>1 DEF EventTypeOK, PostOK, TimeoutHeeded
<1>4. QueuedInCall' /\ CollectedStays' /\ ZeroIsSuccess'
  BY <1>0, <1>1 DEF QueuedInCall, CollectedStays, ZeroIsSuccess, pendVars
<1>5. NoneLeft'
  <2>1. SUFFICES ASSUME NEW u \in Threads, pendedOn[u] = EventQ
                 PROVE  ~Met(wait[u].desired, {}, wait[u].all)
    BY <1>1 DEF NoneLeft, pendVars
  <2>2. wait[u] # None /\ ~Met(wait[u].desired, events, wait[u].all)
    BY <1>0, <1>1, <2>1, PostFacts DEF NoneLeft, QueuedInCall
  <2>3. wait[u].all \in BOOLEAN
    BY <1>0, <2>2, CallFacts
  <2>4. {} \subseteq events
    OBVIOUS
  <2>5. QED
    BY <2>2, <2>3, <2>4, MetMonotone
<1>6. QED
  BY <1>2, <1>3, <1>4, <1>5 DEF EventInv

(* A thread that may run has not been collected. *)
LEMMA RunnableNotCollected ==
  ASSUME EventInv, NEW t \in Threads, runnable[t]
  PROVE  pendedOn[t] = None /\ ~Contains(post.todo, t)
BY PendAssumption, EventAssumption
   DEF EventInv, PendInv, RunnableIsFree, CollectedStays

LEMMA PendElsewhereInv ==
  ASSUME EventInv, NEW t \in Threads, NEW fv \in BOOLEAN, PendElsewhere(t, fv)
  PROVE  EventInv'
<1> USE PendAssumption, EventAssumption
<1>0. /\ PendInv /\ EventTypeOK /\ PostOK /\ QueuedInCall /\ CollectedStays
      /\ NoneLeft /\ ZeroIsSuccess /\ TimeoutHeeded
  BY DEF EventInv
<1>1. /\ wait[t] = None /\ runnable[t]
      /\ wait' = [wait EXCEPT ![t] = [desired |-> {}, all |-> FALSE]]
      /\ PendCurr(t, OtherQ, fv)
      /\ UNCHANGED <<events, tev, noWake, post>>
  BY DEF PendElsewhere
<1>2. PendInv'
  BY <1>0, <1>1, PendCurrInv
<1>3. PendTypeOK /\ ~Contains(post.todo, t)
  BY <1>0, <1>1, RunnableNotCollected DEF PendInv
<1>4. PICK c \in Calls : c = [desired |-> {}, all |-> FALSE]
  BY DEF Calls
<1>5. /\ pendedOn' = [pendedOn EXCEPT ![t] = OtherQ]
      /\ swapRet' = [swapRet EXCEPT ![t] = "EAGAIN"]
      /\ timeout' = [timeout EXCEPT ![t] = ~fv]
      /\ wait' = [wait EXCEPT ![t] = c] /\ c # None
      /\ firing' = firing /\ halted' = halted
  BY <1>1, <1>4 DEF PendCurr, Calls
<1>6. /\ pendedOn'[t] = OtherQ /\ wait'[t] = c /\ swapRet'[t] = "EAGAIN"
      /\ \A u \in Threads : u # t =>
           /\ pendedOn'[u] = pendedOn[u] /\ wait'[u] = wait[u]
           /\ timeout'[u] = timeout[u] /\ swapRet'[u] = swapRet[u]
  BY <1>0, <1>3, <1>5 DEF PendTypeOK, EventTypeOK
<1>e. UNCHANGED <<events, tev, noWake, post>>
  BY <1>1
<1>7. EventTypeOK' /\ PostOK' /\ TimeoutHeeded'
  <2>1. EventTypeOK'
    BY <1>0, <1>4, <1>5, <1>e DEF EventTypeOK
  <2>2. PostOK' /\ TimeoutHeeded'
    BY <1>0, <1>e DEF PostOK, TimeoutHeeded
  <2>3. QED
    BY <2>1, <2>2
<1>8. QueuedInCall' /\ NoneLeft'
  <2>1. QueuedInCall'
    BY <1>0, <1>5, <1>6, <1>e DEF QueuedInCall
  <2>2. NoneLeft'
    BY <1>0, <1>5, <1>6, <1>e DEF NoneLeft
  <2>3. QED
    BY <2>1, <2>2
<1>9. CollectedStays'
  BY <1>0, <1>1, <1>3, <1>5, <1>6, ZenonT(30) DEF CollectedStays
<1>10. ZeroIsSuccess'
  BY <1>0, <1>1, <1>6 DEF ZeroIsSuccess
<1>11. QED
  BY <1>2, <1>7, <1>8, <1>9, <1>10 DEF EventInv

LEMMA WaitReturnInv ==
  ASSUME EventInv, NEW t \in Threads, WaitReturn(t)
  PROVE  EventInv'
<1> USE PendAssumption, EventAssumption
<1>0. /\ PendInv /\ EventTypeOK /\ PostOK /\ QueuedInCall /\ CollectedStays
      /\ NoneLeft /\ ZeroIsSuccess /\ TimeoutHeeded
  BY DEF EventInv
<1>1. /\ runnable[t]
      /\ wait' = [wait EXCEPT ![t] = None]
      /\ tev' = [tev EXCEPT ![t] = {}]
      /\ UNCHANGED <<pendVars, events, noWake, post>>
  BY DEF WaitReturn
<1>2. PendInv'
  BY <1>0, <1>1, PendStutterInv
<1>3. pendedOn[t] = None /\ ~Contains(post.todo, t)
  BY <1>1, RunnableNotCollected
<1>4. /\ wait'[t] = None
      /\ \A u \in Threads : u # t => wait'[u] = wait[u] /\ tev'[u] = tev[u]
      /\ UNCHANGED <<pendedOn, timeout, firing, swapRet, halted>>
  BY <1>0, <1>1 DEF EventTypeOK, pendVars
<1>5. EventTypeOK' /\ PostOK' /\ TimeoutHeeded'
  BY <1>0, <1>1 DEF EventTypeOK, PostOK, TimeoutHeeded
<1>6. QueuedInCall' /\ NoneLeft'
  BY <1>0, <1>1, <1>3, <1>4 DEF QueuedInCall, NoneLeft
<1>7. CollectedStays' /\ ZeroIsSuccess'
  BY <1>0, <1>1, <1>3, <1>4 DEF CollectedStays, ZeroIsSuccess
<1>8. QED
  BY <1>2, <1>5, <1>6, <1>7 DEF EventInv

-----------------------------------------------------------------------------
(* The post. *)

(* What a walk collects: the queued threads whose condition is met. *)
LEMMA SatisfiedFacts ==
  ASSUME EventInv, post = NoPost, NEW ev
  PROVE  /\ Satisfied(ev) \in Seq(Threads) /\ Distinct(Satisfied(ev))
         /\ \A t \in Threads : Contains(Satisfied(ev), t) <=>
              pendedOn[t] = EventQ /\ Met(wait[t].desired, ev, wait[t].all)
<1> USE PendAssumption, EventAssumption
<1> DEFINE q == waitq[EventQ]
           S == {t \in ToSet(q) : Met(tev[t], ev, wait[t].all)}
<1>0. PendTypeOK /\ QueueMatchesState /\ QueuedInCall /\ PostOK
  BY DEF EventInv, PendInv
<1>1. q \in Seq(Threads) /\ Distinct(q)
  BY <1>0 DEF PendTypeOK, QueueMatchesState, Distinct
<1>2. Satisfied(ev) = Collected(q, S)
  BY DEF Satisfied
<1>3. \A t \in Threads : pendedOn[t] = EventQ <=> \E i \in 1..Len(q) : q[i] = t
  BY <1>0 DEF QueueMatchesState, PendTypeOK
<1>4. \A t \in Threads : t \in S <=>
        (\E i \in 1..Len(q) : q[i] = t) /\ Met(tev[t], ev, wait[t].all)
  BY DEF ToSet
<1>5. \A t \in Threads : pendedOn[t] = EventQ => tev[t] = wait[t].desired
  <2>1. post.st = "none"
    BY <1>0, PostFacts
  <2>2. QED
    BY <1>0, <2>1 DEF QueuedInCall
<1> HIDE DEF q, S
<1>6. HoldsFirst(Collected(q, S), q, S, Len(q))
  BY <1>1, CollectedFacts
<1>7. QED
  BY <1>2, <1>3, <1>4, <1>5, <1>6 DEF HoldsFirst

LEMMA PostWalkInv ==
  ASSUME EventInv, NEW mask \in SUBSET Bits, NEW posted \in SUBSET mask,
         PostWalk(posted, mask)
  PROVE  EventInv'
<1> USE PendAssumption, EventAssumption
<1> DEFINE ev == (events \ mask) \cup (posted \cap mask)
           todo == Satisfied(ev)
<1>0. /\ PendInv /\ EventTypeOK /\ PostOK /\ QueuedInCall /\ CollectedStays
      /\ NoneLeft /\ ZeroIsSuccess /\ TimeoutHeeded
  BY DEF EventInv
<1>1. /\ post = NoPost /\ events' = ev
      /\ noWake' = [t \in Threads |-> noWake[t] \/ Contains(todo, t)]
      /\ timeout' = [t \in Threads |-> timeout[t] /\ ~Contains(todo, t)]
      /\ post' = IF todo = <<>> THEN NoPost
                 ELSE [todo |-> todo, ev |-> ev, st |-> "walked"]
      /\ UNCHANGED <<prio, waitq, pendedOn, firing, suspending, swapRet,
                     runnable, halted, tev, wait>>
  BY DEF PostWalk, Unlocked
<1>2. ev \in SUBSET Bits
  BY <1>0 DEF EventTypeOK
<1>3. /\ todo \in Seq(Threads) /\ Distinct(todo)
      /\ \A t \in Threads : Contains(todo, t) <=>
           pendedOn[t] = EventQ /\ Met(wait[t].desired, ev, wait[t].all)
  BY <1>1, SatisfiedFacts
<1> HIDE DEF ev, todo
<1>4. PendTypeOK /\ QueueMatchesState /\ RunnableIsFree
  BY <1>0 DEF PendInv
<1>5. PendInv'
  <2>1. PendTypeOK'
    BY <1>1, <1>4 DEF PendTypeOK
  <2>2. QueueMatchesState'
    BY <1>1, <1>4, QueueUntouched
  <2>3. RunnableIsFree'
    BY <1>1, <1>4 DEF RunnableIsFree
  <2>4. QED
    BY <2>1, <2>2, <2>3 DEF PendInv
<1>6. /\ post'.todo = todo
      /\ todo # <<>> => post'.ev = ev /\ post'.st = "walked"
      /\ todo = <<>> => post' = NoPost
  BY <1>1 DEF NoPost
<1>7. PostOK'
  <2>1. CASE todo = <<>>
    BY <1>6, <2>1 DEF PostOK
  <2>2. CASE todo # <<>>
    <3>1. post' = [todo |-> todo, ev |-> ev, st |-> "walked"]
      BY <1>1, <2>2
    <3>2. post' \in [todo : Seq(Threads), ev : SUBSET Bits, st : {"walked", "stored"}]
      BY <1>2, <1>3, <3>1
    <3>3. QED
      BY <1>1, <1>3, <1>6, <2>2, <3>2 DEF PostOK
  <2>3. QED
    BY <2>1, <2>2
<1>8. EventTypeOK'
  BY <1>0, <1>1, <1>2 DEF EventTypeOK
<1>9. QueuedInCall'
  <2>1. post.st = "none"
    BY <1>0, <1>1, PostFacts
  <2>2. QED
    BY <1>0, <1>1, <2>1 DEF QueuedInCall
<1>10. CollectedStays'
  <2>1. SUFFICES ASSUME NEW t \in Threads, Contains(todo, t)
                 PROVE  /\ wait[t] # None /\ pendedOn[t] = EventQ
                        /\ Met(wait[t].desired, post'.ev, wait[t].all)
                        /\ ~timeout'[t] /\ noWake'[t]
    BY <1>1, <1>6 DEF CollectedStays
  <2>2. todo # <<>>
    BY <2>1 DEF Contains
  <2>3. pendedOn[t] = EventQ /\ Met(wait[t].desired, ev, wait[t].all)
    BY <1>3, <2>1
  <2>4. wait[t] # None
    BY <1>0, <2>3 DEF QueuedInCall
  <2>5. ~timeout'[t] /\ noWake'[t]
    BY <1>1, <2>1
  <2>6. QED
    BY <1>6, <2>2, <2>3, <2>4, <2>5
<1>11. NoneLeft'
  BY <1>1, <1>3, <1>6 DEF NoneLeft
<1>12. ZeroIsSuccess'
  BY <1>0, <1>1 DEF ZeroIsSuccess
<1>13. TimeoutHeeded'
  <2>1. \A t \in Threads : ~noWake[t]
    BY <1>0, <1>1, PostFacts DEF TimeoutHeeded
  <2>2. QED
    BY <1>1, <1>6, <2>1 DEF TimeoutHeeded
<1>14. QED
  BY <1>5, <1>7, <1>8, <1>9, <1>10, <1>11, <1>12, <1>13 DEF EventInv

LEMMA PostStoreInv ==
  ASSUME EventInv, PostStore
  PROVE  EventInv'
<1> USE PendAssumption, EventAssumption
<1>0. /\ PendInv /\ EventTypeOK /\ PostOK /\ QueuedInCall /\ CollectedStays
      /\ NoneLeft /\ ZeroIsSuccess /\ TimeoutHeeded
  BY DEF EventInv
<1>1. /\ post.st = "walked"
      /\ SetRetval(Head(post.todo), "0")
      /\ tev' = [tev EXCEPT ![Head(post.todo)] = post.ev]
      /\ post' = [post EXCEPT !.st = "stored"]
      /\ UNCHANGED <<events, wait, noWake>>
  BY DEF PostStore
<1>2. post # NoPost
  BY <1>1 DEF NoPost
<1>3. PICK t \in Threads : t = Head(post.todo) /\ Contains(post.todo, t)
  BY <1>0, <1>2, PostFacts
<1>4. /\ post \in [todo : Seq(Threads), ev : SUBSET Bits, st : {"walked", "stored"}]
      /\ post.todo # <<>> /\ Distinct(post.todo) /\ post.ev = events
  BY <1>0, <1>2 DEF PostOK
<1>5. PendInv'
  BY <1>0, <1>1, <1>3, SetRetvalInv DEF RetVals
<1>6. /\ post' \in [todo : Seq(Threads), ev : SUBSET Bits, st : {"walked", "stored"}]
      /\ post'.todo = post.todo /\ post'.ev = post.ev /\ post'.st = "stored"
  BY <1>1, <1>4
<1>7. PostOK'
  BY <1>1, <1>4, <1>6 DEF PostOK
<1>8. PendTypeOK
  BY <1>0 DEF PendInv
<1>9. /\ tev'[t] = post.ev
      /\ swapRet'[t] = "0"
      /\ \A u \in Threads : u # t => tev'[u] = tev[u] /\ swapRet'[u] = swapRet[u]
      /\ UNCHANGED <<pendedOn, timeout, firing, halted>>
  BY <1>0, <1>1, <1>3, <1>8 DEF SetRetval, PendTypeOK, EventTypeOK
<1>10. EventTypeOK'
  <2>1. post.ev \in SUBSET Bits
    BY <1>4
  <2>2. QED
    BY <1>0, <1>1, <2>1 DEF EventTypeOK
<1>11. QueuedInCall'
  <2>1. \A u \in Threads : pendedOn[u] = EventQ => tev[u] = wait[u].desired
    BY <1>0, <1>1 DEF QueuedInCall
  <2>2. QED
    BY <1>0, <1>1, <1>3, <1>6, <1>9, <2>1 DEF QueuedInCall
<1>12. CollectedStays' /\ NoneLeft' /\ TimeoutHeeded'
  BY <1>0, <1>1, <1>6, <1>9 DEF CollectedStays, NoneLeft, TimeoutHeeded
<1>13. ZeroIsSuccess'
  <2>1. Met(wait[t].desired, post.ev, wait[t].all)
    BY <1>0, <1>3 DEF CollectedStays
  <2>2. QED
    BY <1>0, <1>1, <1>9, <2>1 DEF ZeroIsSuccess
<1>14. QED
  BY <1>5, <1>7, <1>10, <1>11, <1>12, <1>13 DEF EventInv

(* Rest: the first thread leaves the list, the others stay. *)
LEMMA RestFacts ==
  ASSUME PostOK, post # NoPost
  PROVE  /\ \/ Rest = NoPost
            \/ /\ Rest \in [todo : Seq(Threads), ev : SUBSET Bits,
                            st : {"walked", "stored"}]
               /\ Rest.todo # <<>> /\ Distinct(Rest.todo)
               /\ Rest.ev = post.ev
         /\ \A t : Contains(Rest.todo, t) <=>
              Contains(post.todo, t) /\ t # Head(post.todo)
         /\ \A t : Contains(Rest.todo, t) => Rest.ev = post.ev
<1>0. /\ post \in [todo : Seq(Threads), ev : SUBSET Bits, st : {"walked", "stored"}]
      /\ post.todo # <<>> /\ Distinct(post.todo)
  BY DEF PostOK
<1>1. PICK s \in Seq(Threads) : s = post.todo
  BY <1>0
<1>2. /\ s # <<>> /\ Len(s) \in Nat /\ Len(s) > 0 /\ Head(s) = s[1]
      /\ Tail(s) \in Seq(Threads) /\ Len(Tail(s)) = Len(s) - 1
      /\ \A i \in 1..(Len(s) - 1) : Tail(s)[i] = s[i + 1]
  BY <1>0, <1>1
<1>3. \A i, j \in 1..Len(s) : s[i] = s[j] => i = j
  BY <1>0, <1>1 DEF Distinct
<1>4. Distinct(Tail(s))
  <2>1. SUFFICES ASSUME NEW i \in 1..(Len(s) - 1), NEW j \in 1..(Len(s) - 1),
                        s[i + 1] = s[j + 1]
                 PROVE  i = j
    BY <1>2 DEF Distinct
  <2>2. i + 1 \in 1..Len(s) /\ j + 1 \in 1..Len(s)
    BY <1>2
  <2>3. i + 1 = j + 1
    BY <1>3, <2>1, <2>2
  <2>4. QED
    BY <2>3
<1>5. \A t : Contains(Tail(s), t) <=> Contains(s, t) /\ t # Head(s)
  <2>1. TAKE t
  <2>2. ASSUME Contains(Tail(s), t)
        PROVE  Contains(s, t) /\ t # Head(s)
    <3>1. PICK i \in 1..(Len(s) - 1) : s[i + 1] = t
      BY <1>2, <2>2 DEF Contains
    <3>2. i + 1 \in 1..Len(s) /\ 1 \in 1..Len(s) /\ i + 1 # 1
      BY <1>2, <3>1
    <3>3. s[i + 1] # s[1]
      BY <1>3, <3>2
    <3>4. QED
      BY <1>2, <3>1, <3>2, <3>3 DEF Contains
  <2>3. ASSUME Contains(s, t), t # Head(s)
        PROVE  Contains(Tail(s), t)
    <3>1. PICK i \in 1..Len(s) : s[i] = t
      BY <2>3 DEF Contains
    <3>2. i # 1
      BY <1>2, <2>3, <3>1
    <3>3. i - 1 \in 1..(Len(s) - 1) /\ (i - 1) + 1 = i
      BY <1>2, <3>1, <3>2
    <3>4. Tail(s)[i - 1] = t
      BY <1>2, <3>1, <3>3
    <3>5. QED
      BY <1>2, <3>3, <3>4 DEF Contains
  <2>4. QED
    BY <2>2, <2>3
<1>6. CASE Len(s) = 1
  <2>1. Rest = NoPost
    BY <1>1, <1>6 DEF Rest
  <2>2. \A t : ~Contains(Rest.todo, t)
    BY <2>1 DEF NoPost, Contains
  <2>3. \A t : ~Contains(Tail(s), t)
    BY <1>2, <1>6 DEF Contains
  <2>4. QED
    BY <1>1, <1>5, <2>1, <2>2, <2>3
<1>7. CASE Len(s) # 1
  <2>1. Rest = [post EXCEPT !.todo = Tail(s), !.st = "walked"]
    BY <1>1, <1>7 DEF Rest
  <2>2. /\ Rest \in [todo : Seq(Threads), ev : SUBSET Bits, st : {"walked", "stored"}]
        /\ Rest.todo = Tail(s) /\ Rest.ev = post.ev
    BY <1>0, <1>2, <2>1
  <2>3. Tail(s) # <<>>
    <3>1. Len(Tail(s)) # 0
      BY <1>2, <1>7
    <3>2. Len(<<>>) = 0
      OBVIOUS
    <3>3. QED
      BY <3>1, <3>2
  <2>4. QED
    BY <1>1, <1>4, <1>5, <2>2, <2>3
<1>8. QED
  BY <1>6, <1>7

LEMMA PostWakeInv ==
  ASSUME EventInv, PostWake
  PROVE  EventInv'
<1> USE PendAssumption, EventAssumption
<1>0. /\ PendInv /\ EventTypeOK /\ PostOK /\ QueuedInCall /\ CollectedStays
      /\ NoneLeft /\ ZeroIsSuccess /\ TimeoutHeeded
      /\ PendTypeOK /\ QueueMatchesState /\ RunnableIsFree
  BY DEF EventInv, PendInv
<1>1. post.st = "stored" /\ post # NoPost
  BY DEF PostWake, NoPost
<1>2. PICK t \in Threads : t = Head(post.todo)
  BY <1>0, <1>1, PostFacts
<1>3. /\ noWake' = [noWake EXCEPT ![t] = FALSE]
      /\ IF halted[t] = "dead"
         THEN UNCHANGED <<waitq, pendedOn, runnable>>
         ELSE /\ UnpendNoTimeout(t)
              /\ runnable' = [runnable EXCEPT ![t] =
                                @ \/ (halted[t] = "no" /\ ~timeout[t])]
      /\ post' = Rest
      /\ UNCHANGED <<prio, timeout, firing, suspending, swapRet, halted,
                     events, tev, wait>>
  BY <1>2 DEF PostWake
<1>4. /\ \/ post' = NoPost
         \/ /\ post' \in [todo : Seq(Threads), ev : SUBSET Bits,
                          st : {"walked", "stored"}]
            /\ post'.todo # <<>> /\ Distinct(post'.todo)
            /\ post'.ev = post.ev
      /\ \A u : Contains(post'.todo, u) <=> Contains(post.todo, u) /\ u # t
      /\ \A u : Contains(post'.todo, u) => post'.ev = post.ev
  BY <1>0, <1>1, <1>2, <1>3, RestFacts
<1>5. /\ QueueMatchesState'
      /\ waitq' \in [WaitQs -> Seq(Threads)]
      /\ pendedOn' \in [Threads -> WaitQs \cup {None}]
      /\ pendedOn'[t] = None
      /\ \A u \in Threads : u # t => pendedOn'[u] = pendedOn[u]
  <2>1. CASE halted[t] = "dead"
    BY <1>0, <1>3, <2>1 DEF QueueMatchesState, PendTypeOK, RunnableIsFree
  <2>2. CASE halted[t] # "dead"
    BY <1>0, <1>3, <2>2, UnpendNoTimeoutMatch
  <2>3. QED
    BY <2>1, <2>2
<1>6. PendInv'
  <2>1. runnable' \in [Threads -> BOOLEAN]
    BY <1>0, <1>3 DEF PendTypeOK
  <2>2. PendTypeOK'
    BY <1>0, <1>3, <1>5, <2>1 DEF PendTypeOK
  <2>3. \A u \in Threads : runnable'[u] => runnable[u] \/ (u = t /\ halted[t] = "no")
    BY <1>0, <1>3 DEF PendTypeOK
  <2>4. RunnableIsFree'
    BY <1>0, <1>3, <1>5, <2>3 DEF RunnableIsFree
  <2>5. QED
    BY <1>5, <2>2, <2>4 DEF PendInv
<1>7. PostOK'
  BY <1>0, <1>1, <1>3, <1>4 DEF PostOK
<1>8. EventTypeOK'
  BY <1>0, <1>3 DEF EventTypeOK
<1>9. QueuedInCall'
  <2>1. \A u \in Threads : u # t /\ pendedOn[u] = EventQ => tev[u] = wait[u].desired
    BY <1>0, <1>2 DEF QueuedInCall
  <2>2. QED
    BY <1>0, <1>3, <1>5, <2>1 DEF QueuedInCall
<1>10. TimeoutHeeded' /\ \A u \in Threads : u # t => noWake'[u] = noWake[u]
  BY <1>0, <1>3, <1>4 DEF TimeoutHeeded, EventTypeOK
<1>11. CollectedStays'
  BY <1>0, <1>3, <1>4, <1>5, <1>10 DEF CollectedStays
<1>12. NoneLeft'
  BY <1>0, <1>3, <1>4, <1>5 DEF NoneLeft
<1>13. ZeroIsSuccess'
  BY <1>0, <1>3 DEF ZeroIsSuccess
<1>14. QED
  BY <1>6, <1>7, <1>8, <1>9, <1>10, <1>11, <1>12, <1>13 DEF EventInv

-----------------------------------------------------------------------------
(* What other code does to the threads meanwhile. *)

(* Steps that leave the event alone, wake no thread that a post has        *)
(* collected, and set no return value.                                     *)
Harmless ==
  /\ UNCHANGED <<swapRet, events, tev, wait, post>>
  /\ \A t \in Threads :
       /\ pendedOn'[t] \in {pendedOn[t], None}
       /\ Contains(post.todo, t) =>
            /\ halted'[t] = "dead" \/ pendedOn'[t] = EventQ
            /\ ~timeout'[t]
            /\ firing' = t => noWake'[t]

LEMMA HarmlessInv ==
  ASSUME EventInv, PendInv', Harmless,
         noWake' \in [Threads -> BOOLEAN],
         \A t \in Threads : noWake'[t] => noWake[t]
  PROVE  EventInv'
<1> USE PendAssumption, EventAssumption
<1>0. /\ EventTypeOK /\ PostOK /\ QueuedInCall /\ CollectedStays
      /\ NoneLeft /\ ZeroIsSuccess /\ TimeoutHeeded
  BY DEF EventInv
<1>1. UNCHANGED <<swapRet, events, tev, wait, post>>
  BY DEF Harmless
<1>2. EventTypeOK' /\ PostOK' /\ TimeoutHeeded' /\ ZeroIsSuccess'
  BY <1>0, <1>1 DEF EventTypeOK, PostOK, TimeoutHeeded, ZeroIsSuccess
<1>3. QueuedInCall' /\ NoneLeft'
  BY <1>0, <1>1 DEF Harmless, QueuedInCall, NoneLeft
<1>4. CollectedStays'
  BY <1>0, <1>1 DEF Harmless, CollectedStays
<1>5. QED
  BY <1>2, <1>3, <1>4 DEF EventInv

LEMMA EventTimeoutInv ==
  ASSUME EventInv, EventTimeout
  PROVE  EventInv'
<1> USE PendAssumption, EventAssumption
<1>0. /\ PendInv /\ EventTypeOK /\ CollectedStays
      /\ PendTypeOK /\ QueueMatchesState /\ RunnableIsFree
  BY DEF EventInv, PendInv
<1>1. PICK t \in Threads : t = firing
  BY <1>0 DEF EventTimeout, PendTypeOK
<1>2. /\ noWake' = [noWake EXCEPT ![t] = FALSE]
      /\ UNCHANGED <<events, tev, wait, post>>
  BY <1>1 DEF EventTimeout
<1>3. /\ noWake' \in [Threads -> BOOLEAN]
      /\ \A u \in Threads : noWake'[u] => noWake[u]
  BY <1>0, <1>2 DEF EventTypeOK
<1>4. CASE noWake[t]
  <2>1. /\ firing' = None
        /\ UNCHANGED <<prio, waitq, pendedOn, timeout, suspending, swapRet,
                       runnable, halted>>
    BY <1>1, <1>4 DEF EventTimeout
  <2>2. PendInv'
    <3>1. PendTypeOK'
      BY <1>0, <2>1 DEF PendTypeOK
    <3>2. QueueMatchesState' /\ RunnableIsFree'
      BY <1>0, <2>1, QueueUntouched DEF RunnableIsFree
    <3>3. QED
      BY <3>1, <3>2 DEF PendInv
  <2>3. Harmless
    BY <1>0, <1>2, <2>1 DEF Harmless, CollectedStays
  <2>4. QED
    BY <1>3, <2>2, <2>3, HarmlessInv
<1>5. CASE ~noWake[t]
  <2>1. ThreadTimeout
    BY <1>1, <1>5 DEF EventTimeout
  <2>2. PendInv'
    BY <1>0, <2>1, ThreadTimeoutInv
  <2>3. ~Contains(post.todo, t)
    BY <1>0, <1>1, <1>5 DEF CollectedStays
  <2>4. UNCHANGED <<timeout, swapRet>> /\ firing' = None
    BY <2>1 DEF ThreadTimeout
  <2>5. /\ pendedOn'[t] \in {pendedOn[t], None}
        /\ \A u \in Threads : u # t =>
             pendedOn'[u] = pendedOn[u] /\ halted'[u] = halted[u]
    <3>1. CASE halted[t] = "dead"
      BY <1>1, <2>1, <3>1 DEF ThreadTimeout
    <3>2. CASE halted[t] # "dead"
      <4>1. UnpendNoTimeout(t) /\ halted' = [halted EXCEPT ![t] = "no"]
        BY <1>1, <2>1, <3>2 DEF ThreadTimeout
      <4>2. QED
        BY <1>0, <4>1, UnpendNoTimeoutMatch DEF PendTypeOK
    <3>3. QED
      BY <3>1, <3>2
  <2>6. Harmless
    BY <1>0, <1>2, <2>3, <2>4, <2>5 DEF Harmless, CollectedStays
  <2>7. QED
    BY <1>3, <2>2, <2>6, HarmlessInv
<1>6. QED
  BY <1>4, <1>5

LEMMA EnvironmentInv ==
  ASSUME EventInv, Environment
  PROVE  EventInv'
<1> USE PendAssumption, EventAssumption
<1>0. /\ PendInv /\ EventTypeOK /\ CollectedStays
      /\ PendTypeOK /\ QueueMatchesState /\ RunnableIsFree
  BY DEF EventInv, PendInv
<1>1. UNCHANGED <<events, tev, wait, noWake, post>>
  BY DEF Environment, eventVars
<1>2. noWake' \in [Threads -> BOOLEAN] /\ \A u \in Threads : noWake'[u] => noWake[u]
  BY <1>0, <1>1 DEF EventTypeOK
<1>3. PendInv' /\ Harmless
  <2>1. CASE \E t \in Threads : Expire(t)
    <3>1. PICK t \in Threads : Expire(t)
      BY <2>1
    <3>2. PendInv'
      BY <1>0, <2>1, OutsideInv DEF Outside
    <3>3. ~Contains(post.todo, t)
      BY <1>0, <3>1 DEF Expire, CollectedStays
    <3>4. Harmless
      BY <1>0, <1>1, <3>1, <3>3 DEF Expire, PendTypeOK, Harmless, CollectedStays
    <3>5. QED
      BY <3>2, <3>4
  <2>2. CASE \E t \in Threads, p \in NewPrios : PrioSet(t, p)
    <3>1. PendInv'
      BY <1>0, <2>2, OutsideInv DEF Outside
    <3>2. Harmless
      BY <1>0, <1>1, <2>2 DEF PrioSet, Harmless, CollectedStays
    <3>3. QED
      BY <3>1, <3>2
  <2>3. CASE \E t \in Victims : SuspendAbortTimeout(t)
    <3>1. PendInv'
      BY <1>0, <2>3, OutsideInv DEF Outside
    <3>2. Harmless
      BY <1>0, <1>1, <2>3 DEF SuspendAbortTimeout, PendTypeOK, Harmless, CollectedStays
    <3>3. QED
      BY <3>1, <3>2
  <2>4. CASE Suspend
    <3>1. PendInv'
      BY <1>0, <2>4, OutsideInv DEF Outside
    <3>2. Harmless
      BY <1>0, <1>1, <2>4 DEF Suspend, PendTypeOK, Harmless, CollectedStays
    <3>3. QED
      BY <3>1, <3>2
  <2>5. CASE \E t \in Victims : Resume(t)
    <3>1. PendInv'
      BY <1>0, <2>5, OutsideInv DEF Outside
    <3>2. Harmless
      BY <1>0, <1>1, <2>5 DEF Resume, PendTypeOK, Harmless, CollectedStays
    <3>3. QED
      BY <3>1, <3>2
  <2>6. CASE \E t \in Victims : Abort(t)
    <3>1. PICK t \in Threads : Abort(t)
      BY <2>6
    <3>2. PendInv'
      BY <1>0, <3>1, AbortInv
    <3>3. /\ pendedOn'[t] = None /\ halted'[t] = "dead"
          /\ UNCHANGED <<swapRet, firing>>
          /\ \A u \in Threads :
               /\ u # t => pendedOn'[u] = pendedOn[u] /\ halted'[u] = halted[u]
               /\ ~timeout[u] => ~timeout'[u]
      BY <1>0, <3>1, AbortFacts DEF Abort, PendTypeOK
    <3>4. Harmless
      BY <1>0, <1>1, <3>3 DEF Harmless, CollectedStays
    <3>5. QED
      BY <3>2, <3>4
  <2>7. QED
    BY <2>1, <2>2, <2>3, <2>4, <2>5, <2>6 DEF Environment
<1>4. QED
  BY <1>2, <1>3, HarmlessInv

-----------------------------------------------------------------------------
LEMMA EventInitInv == Init => EventInv
<1> USE PendAssumption, EventAssumption
<1> SUFFICES ASSUME Init PROVE EventInv
  OBVIOUS
<1>2. PendInv
  BY PendInitInv DEF Init
<1>3. /\ EventTypeOK /\ PostOK
  BY DEF Init, EventTypeOK, PostOK
<1>4. QueuedInCall /\ NoneLeft /\ ZeroIsSuccess /\ TimeoutHeeded
  BY DEF Init, PendInit, QueuedInCall, NoneLeft, ZeroIsSuccess, TimeoutHeeded
<1>5. CollectedStays
  BY <1>3, PostFacts DEF Init, CollectedStays
<1>6. QED
  BY <1>2, <1>3, <1>4, <1>5 DEF EventInv

LEMMA EventInvNext ==
  ASSUME EventInv, [Next]_vars
  PROVE  EventInv'
<1>1. CASE \E t \in Threads, desired \in SUBSET Bits, all, reset, forever \in BOOLEAN :
             WaitPend(t, desired, all, reset, forever)
  BY <1>1, WaitPendInv
<1>2. CASE WaitReset
  BY <1>2, WaitResetInv
<1>3. CASE \E t \in Threads, forever \in BOOLEAN : PendElsewhere(t, forever)
  BY <1>3, PendElsewhereInv
<1>4. CASE \E t \in Threads : WaitReturn(t)
  BY <1>4, WaitReturnInv
<1>5. CASE \E mask \in SUBSET Bits : \E posted \in SUBSET mask : PostWalk(posted, mask)
  BY <1>5, PostWalkInv
<1>6. CASE PostStore
  BY <1>6, PostStoreInv
<1>7. CASE PostWake
  BY <1>7, PostWakeInv
<1>8. CASE EventTimeout
  BY <1>8, EventTimeoutInv
<1>9. CASE Environment
  BY <1>9, EnvironmentInv
<1>10. CASE UNCHANGED vars
  <2>1. UNCHANGED pendVars /\ UNCHANGED <<events, tev, wait, noWake, post>>
    BY <1>10 DEF vars, eventVars
  <2>2. PendInv'
    BY <2>1, PendStutterInv DEF EventInv
  <2>3. UNCHANGED <<swapRet, pendedOn, halted, timeout, firing>>
    BY <2>1 DEF pendVars
  <2>4. CollectedStays /\ EventTypeOK
    BY DEF EventInv
  <2>5. Harmless
    BY <2>1, <2>3, <2>4 DEF Harmless, CollectedStays
  <2>6. QED
    BY <2>1, <2>2, <2>4, <2>5, HarmlessInv DEF EventTypeOK
<1>11. QED
  BY <1>1, <1>2, <1>3, <1>4, <1>5, <1>6, <1>7, <1>8, <1>9, <1>10 DEF Next

LEMMA EventInvariant == Spec => []EventInv
<1>1. QED
  BY EventInitInv, EventInvNext, PTL DEF Spec

(* Outside a post no thread waits whose condition the events meet.  It     *)
(* takes the walk over the whole queue, thread->events still being what a  *)
(* queued thread asks for, and the collected threads staying collected     *)
(* until they are woken.                                                   *)
THEOREM EventSatisfiedAreWoken == Spec => []SatisfiedAreWoken
<1>1. EventInv => SatisfiedAreWoken
  BY PostFacts DEF EventInv, SatisfiedAreWoken, NoneLeft, Unlocked
<1>2. QED
  BY EventInvariant, <1>1, PTL

(* A wait returns 0 only with events that meet its own condition: the post *)
(* reaches a thread without the scheduler lock, long after it collected    *)
(* it, and still finds it in the wait it was collected for.                *)
THEOREM EventSuccessMeetsCondition == Spec => []SuccessMeetsCondition
<1>1. EventInv => SuccessMeetsCondition
  BY DEF EventInv, SuccessMeetsCondition, ZeroIsSuccess
<1>2. QED
  BY EventInvariant, <1>1, PTL

(* no_wake_on_timeout never outlives the post that set it. *)
THEOREM EventTimeoutHeeded == Spec => []TimeoutHeeded
<1>1. EventInv => TimeoutHeeded
  BY DEF EventInv
<1>2. QED
  BY EventInvariant, <1>1, PTL

=============================================================================
