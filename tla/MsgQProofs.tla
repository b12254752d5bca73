----------------------------- MODULE MsgQProofs -----------------------------
(***************************************************************************)
(* Proofs about the message queue of kernel/msg_q.c, for any number of     *)
(* threads, messages and any capacity: the ring's arithmetic, who may wait *)
(* when, and on one CPU the refinement of MsgQAbs.                         *)
(***************************************************************************)
EXTENDS MsgQ, PendProofs

-----------------------------------------------------------------------------
(* The modulo of the ring's indices, for one turn beyond the end. *)
LEMMA ModWraps ==
  ASSUME NEW x \in 0..(2 * MaxMsgs - 1)
  PROVE  x % MaxMsgs = IF x < MaxMsgs THEN x ELSE x - MaxMsgs
<1>1. MaxMsgs \in Nat \ {0}
  BY MsgQAssumption
<1>2. CASE x < MaxMsgs
  BY <1>1, <1>2
<1>3. CASE x >= MaxMsgs
  BY <1>1, <1>3
<1>4. QED
  BY <1>1, <1>2, <1>3

(* The n messages of buffer b that start at index r. *)
Ring(b, r, n) == [i \in 1..n |-> b[(r + i - 1) % MaxMsgs]]

IsBuffer(b) == b \in [0..(MaxMsgs - 1) -> Msgs \cup {None}]

(* The i-th message is found without a modulo. *)
LEMMA RingIndex ==
  ASSUME NEW b, NEW r \in 0..(MaxMsgs - 1), NEW n \in 0..MaxMsgs, NEW i \in 1..n
  PROVE  /\ (r + i - 1) % MaxMsgs = IF r + i - 1 < MaxMsgs THEN r + i - 1
                                    ELSE r + i - 1 - MaxMsgs
         /\ (r + i - 1) % MaxMsgs \in 0..(MaxMsgs - 1)
         /\ Ring(b, r, n)[i] = b[(r + i - 1) % MaxMsgs]
<1>1. MaxMsgs \in Nat \ {0}
  BY MsgQAssumption
<1>2. PICK x \in 0..(2 * MaxMsgs - 1) : x = r + i - 1
  BY <1>1
<1>3. x % MaxMsgs = IF x < MaxMsgs THEN x ELSE x - MaxMsgs
  BY ModWraps
<1>4. x % MaxMsgs \in 0..(MaxMsgs - 1)
  BY <1>1, <1>3
<1>5. Ring(b, r, n)[i] = b[(r + i - 1) % MaxMsgs]
  BY DEF Ring
<1>6. (r + i - 1) % MaxMsgs = x % MaxMsgs
  BY <1>2
<1>7. (r + i - 1) % MaxMsgs \in 0..(MaxMsgs - 1)
  BY <1>4, <1>6
<1>8. (r + i - 1) % MaxMsgs = IF r + i - 1 < MaxMsgs THEN r + i - 1
                              ELSE r + i - 1 - MaxMsgs
  <2>1. PICK y : y = (r + i - 1) % MaxMsgs
    OBVIOUS
  <2>2. y = IF x < MaxMsgs THEN x ELSE x - MaxMsgs
    BY <1>3, <1>6, <2>1
  <2>3. y = IF r + i - 1 < MaxMsgs THEN r + i - 1 ELSE r + i - 1 - MaxMsgs
    BY <1>1, <1>2, <2>2
  <2>4. QED
    BY <2>1, <2>3
<1>9. QED
  BY <1>5, <1>7, <1>8, Zenon

LEMMA RingIsSeq ==
  ASSUME NEW b, IsBuffer(b), NEW r \in 0..(MaxMsgs - 1), NEW n \in 0..MaxMsgs
  PROVE  Ring(b, r, n) \in Seq(Msgs \cup {None}) /\ Len(Ring(b, r, n)) = n
<1>1. \A i \in 1..n : b[(r + i - 1) % MaxMsgs] \in Msgs \cup {None}
  BY RingIndex DEF IsBuffer
<1>2. n \in Nat
  BY MsgQAssumption
<1>3. Ring(b, r, n) \in [1..n -> Msgs \cup {None}]
  BY <1>1 DEF Ring
<1>4. QED
  BY <1>2, <1>3

(* A message stored at write_ptr comes behind the others. *)
LEMMA RingAppend ==
  ASSUME NEW b, IsBuffer(b), NEW r \in 0..(MaxMsgs - 1), NEW n \in 0..(MaxMsgs - 1),
         NEW m \in Msgs \cup {None}
  PROVE  Ring([b EXCEPT ![(r + n) % MaxMsgs] = m], r, n + 1) = Append(Ring(b, r, n), m)
<1>0. PICK c : c = [b EXCEPT ![(r + n) % MaxMsgs] = m]
  OBVIOUS
<1>1. MaxMsgs \in Nat \ {0} /\ n \in 0..MaxMsgs /\ n + 1 \in 0..MaxMsgs /\ n \in Nat
  BY MsgQAssumption
<1>2. IsBuffer(c)
  BY <1>0 DEF IsBuffer
<1>3. PICK k \in 1..(n + 1) : k = n + 1 /\ r + k - 1 = r + n
  BY <1>1
<1>4. \A i \in 1..n : i \in 1..(n + 1) /\ (r + i - 1) % MaxMsgs # (r + k - 1) % MaxMsgs
  <2>1. TAKE i \in 1..n
  <2>2. i \in 1..(n + 1) /\ i < k
    BY <1>1, <1>3
  <2>3. PICK y, z : /\ y = (r + i - 1) % MaxMsgs /\ z = (r + k - 1) % MaxMsgs
    OBVIOUS
  <2>4. /\ y = IF r + i - 1 < MaxMsgs THEN r + i - 1 ELSE r + i - 1 - MaxMsgs
        /\ z = IF r + k - 1 < MaxMsgs THEN r + k - 1 ELSE r + k - 1 - MaxMsgs
    BY <1>1, <2>2, <2>3, RingIndex, Zenon
  <2>5. y # z
    BY <1>1, <1>3, <2>2, <2>4
  <2>6. QED
    BY <2>2, <2>3, <2>5
<1>5. (r + k - 1) % MaxMsgs \in 0..(MaxMsgs - 1)
  BY <1>1, RingIndex, Zenon
<1>5a. (r + k - 1) % MaxMsgs = (r + n) % MaxMsgs
  BY <1>3
<1>6a. Ring(c, r, n + 1)[k] = c[(r + k - 1) % MaxMsgs]
  BY DEF Ring
<1>6. Ring(c, r, n + 1)[k] = m
  BY <1>0, <1>6a, <1>5, <1>5a DEF IsBuffer
<1>7. \A i \in 1..n : Ring(c, r, n + 1)[i] = Ring(b, r, n)[i]
  <2>1. TAKE i \in 1..n
  <2>2. /\ (r + i - 1) % MaxMsgs \in 0..(MaxMsgs - 1)
        /\ Ring(b, r, n)[i] = b[(r + i - 1) % MaxMsgs]
        /\ Ring(c, r, n + 1)[i] = c[(r + i - 1) % MaxMsgs]
    BY <1>1, <1>4, RingIndex DEF Ring
  <2>3. (r + i - 1) % MaxMsgs # (r + n) % MaxMsgs
    BY <1>3, <1>4
  <2>4. QED
    BY <1>0, <2>2, <2>3 DEF IsBuffer
<1>8. /\ Ring(c, r, n + 1) \in Seq(Msgs \cup {None}) /\ Len(Ring(c, r, n + 1)) = n + 1
      /\ Ring(b, r, n) \in Seq(Msgs \cup {None}) /\ Len(Ring(b, r, n)) = n
  BY <1>1, <1>2, RingIsSeq
<1>9. PICK s \in Seq(Msgs \cup {None}), t \in Seq(Msgs \cup {None}) :
        s = Ring(c, r, n + 1) /\ t = Ring(b, r, n)
  BY <1>8
<1>10. /\ Len(s) = Len(t) + 1 /\ s[Len(t) + 1] = m
       /\ \A i \in 1..Len(t) : s[i] = t[i]
  BY <1>3, <1>6, <1>7, <1>8, <1>9
<1>11. s = Append(t, m)
  BY <1>10
<1>12. QED
  BY <1>0, <1>9, <1>11

(* The message at read_ptr comes first, and the others follow it. *)
LEMMA RingTail ==
  ASSUME NEW b, IsBuffer(b), NEW r \in 0..(MaxMsgs - 1), NEW n \in 1..MaxMsgs
  PROVE  /\ Ring(b, r, n) # <<>> /\ Head(Ring(b, r, n)) = b[r]
         /\ Advance(r) \in 0..(MaxMsgs - 1)
         /\ Tail(Ring(b, r, n)) = Ring(b, Advance(r), n - 1)
<1>1. MaxMsgs \in Nat \ {0} /\ n \in 0..MaxMsgs /\ n \in Nat
  BY MsgQAssumption
<1>2. PICK k \in 0..MaxMsgs : k = n - 1
  BY <1>1
<1>3. PICK a \in 0..(MaxMsgs - 1) : a = Advance(r)
  BY <1>1 DEF Advance
<1>4. \A i \in 1..k : (a + i - 1) % MaxMsgs = (r + (i + 1) - 1) % MaxMsgs
  <2>1. TAKE i \in 1..k
  <2>2. PICK j \in 1..n : j = i + 1
    BY <1>1, <1>2
  <2>3. (r + j - 1) % MaxMsgs = IF r + j - 1 < MaxMsgs THEN r + j - 1
                                ELSE r + j - 1 - MaxMsgs
    BY <1>1, RingIndex
  <2>4. (a + i - 1) % MaxMsgs = IF a + i - 1 < MaxMsgs THEN a + i - 1
                                ELSE a + i - 1 - MaxMsgs
    BY <1>2, RingIndex
  <2>5. IF r + 1 = MaxMsgs THEN a = 0 ELSE a = r + 1
    BY <1>3 DEF Advance
  <2>6. (a + i - 1) % MaxMsgs = (r + j - 1) % MaxMsgs
    BY <1>1, <1>2, <2>2, <2>3, <2>4, <2>5
  <2>7. QED
    BY <2>2, <2>6
<1>5. PICK s \in Seq(Msgs \cup {None}), t \in Seq(Msgs \cup {None}) :
        s = Ring(b, r, n) /\ t = Ring(b, a, k)
  BY <1>1, RingIsSeq
<1>6. Len(s) = n /\ Len(t) = k
  BY <1>1, <1>5, RingIsSeq
<1>7. \A i \in 1..k : t[i] = s[i + 1]
  <2>1. TAKE i \in 1..k
  <2>2. PICK j \in 1..n : j = i + 1
    BY <1>1, <1>2
  <2>3. t[i] = b[(a + i - 1) % MaxMsgs]
    BY <1>5, RingIndex
  <2>4. s[j] = b[(r + j - 1) % MaxMsgs]
    BY <1>5 DEF Ring
  <2>5. QED
    BY <1>4, <2>2, <2>3, <2>4
<1>8. s[1] = b[r]
  <2>1. 1 \in 1..n
    BY <1>1
  <2>2. s[1] = b[(r + 1 - 1) % MaxMsgs]
    BY <1>5, <2>1 DEF Ring
  <2>3. r \in 0..(2 * MaxMsgs - 1) /\ r < MaxMsgs /\ r + 1 - 1 = r
    BY <1>1
  <2>4. r % MaxMsgs = r
    BY <2>3, ModWraps
  <2>5. QED
    BY <2>2, <2>3, <2>4
<1>9. s # <<>> /\ Head(s) = b[r] /\ Tail(s) = t
  BY <1>1, <1>2, <1>6, <1>7, <1>8
<1>10. QED
  BY <1>2, <1>3, <1>5, <1>9

LEMMA RingEmpty ==
  ASSUME NEW b, NEW r
  PROVE  Ring(b, r, 0) = <<>>
BY DEF Ring

-----------------------------------------------------------------------------
(* What a section in progress is about. *)
SectionOK ==
  /\ sec.op = "free" => sec = Free
  /\ sec.st = "none" => sec.op \in {"free", "purge"}
  /\ sec.st # "none" => sec.th \in Threads
  /\ sec.op = "put" => sec.m \in Msgs

(* The number of messages a get has in hand. *)
InHand == IF sec.op = "get" /\ sec.st = "unpended" THEN 1 ELSE 0

(* A thread in the wait queue is inside a call, and a writer's swap_data   *)
(* points to its message; a reader waits for no message that is moving.    *)
WaitersInCall ==
  \A t \in Threads : pendedOn[t] # None =>
    /\ call[t] # "idle"
    /\ call[t] = "put" => data[t] \in Msgs
    /\ call[t] = "get" => InHand = 0

(* A get that has taken a message and not yet stored the writer's has left *)
(* room for it.                                                            *)
RoomForMoving == used + Len(Moving) \in 0..MaxMsgs

MsgInv == /\ PendInv /\ MTypeOK /\ RingConsistent /\ WaitersMatchFill
          /\ SectionOK /\ WaitersInCall /\ RoomForMoving

(* On one CPU nothing happens to a thread between the steps of its wakeup: *)
(* it is still in the call, and alive, with -EAGAIN as return value until  *)
(* the section stores another.                                             *)
OneCpuInv ==
  /\ \A t \in Threads : pendedOn[t] # None => swapRet[t] = "EAGAIN"
  /\ \A t \in Threads : call[t] = "get" /\ swapRet[t] = "0" => data[t] \in Msgs
  /\ sec.st # "none" =>
       pendedOn[sec.th] = None /\ call[sec.th] # "idle" /\ halted[sec.th] # "dead"
  /\ sec.st = "unpended" => swapRet[sec.th] = "EAGAIN"
  /\ sec.op = "put" => call[sec.th] = "get"
  /\ sec.op = "get" => call[sec.th] = "put" /\ data[sec.th] \in Msgs

(* write_ptr after a store, *)
LEMMA WritePtr ==
  ASSUME NEW r \in 0..(MaxMsgs - 1), NEW n \in 0..(MaxMsgs - 1)
  PROVE  /\ (r + n) % MaxMsgs \in 0..(MaxMsgs - 1)
         /\ Advance((r + n) % MaxMsgs) = (r + (n + 1)) % MaxMsgs
         /\ (r + (n + 1)) % MaxMsgs \in 0..(MaxMsgs - 1)
<1>1. MaxMsgs \in Nat \ {0}
  BY MsgQAssumption
<1>2. PICK x \in 0..(2 * MaxMsgs - 1), y \in 0..(2 * MaxMsgs - 1) :
        x = r + n /\ y = r + (n + 1)
  BY <1>1
<1>3. /\ x % MaxMsgs = IF x < MaxMsgs THEN x ELSE x - MaxMsgs
      /\ y % MaxMsgs = IF y < MaxMsgs THEN y ELSE y - MaxMsgs
  BY ModWraps
<1>4. PICK u, v : u = x % MaxMsgs /\ v = y % MaxMsgs
  OBVIOUS
<1>5. /\ u = IF x < MaxMsgs THEN x ELSE x - MaxMsgs
      /\ v = IF y < MaxMsgs THEN y ELSE y - MaxMsgs
  BY <1>3, <1>4
<1>6. u \in 0..(MaxMsgs - 1) /\ v \in 0..(MaxMsgs - 1) /\ y = x + 1
  BY <1>1, <1>2, <1>5
<1>7. v = IF u + 1 = MaxMsgs THEN 0 ELSE u + 1
  BY <1>1, <1>5, <1>6
<1>8. QED
  BY <1>2, <1>4, <1>6, <1>7 DEF Advance

(* and read_ptr after a message was taken. *)
LEMMA ReadPtr ==
  ASSUME NEW r \in 0..(MaxMsgs - 1), NEW n \in 1..MaxMsgs
  PROVE  /\ Advance(r) \in 0..(MaxMsgs - 1)
         /\ (r + n) % MaxMsgs = (Advance(r) + (n - 1)) % MaxMsgs
<1>1. MaxMsgs \in Nat \ {0}
  BY MsgQAssumption
<1>2. PICK a \in 0..(MaxMsgs - 1) : a = Advance(r) /\ a = IF r + 1 = MaxMsgs THEN 0 ELSE r + 1
  BY <1>1 DEF Advance
<1>3. PICK x \in 0..(2 * MaxMsgs - 1), y \in 0..(2 * MaxMsgs - 1) :
        x = r + n /\ y = a + (n - 1)
  BY <1>1
<1>4. /\ x % MaxMsgs = IF x < MaxMsgs THEN x ELSE x - MaxMsgs
      /\ y % MaxMsgs = IF y < MaxMsgs THEN y ELSE y - MaxMsgs
  BY ModWraps
<1>5. PICK u, v : u = x % MaxMsgs /\ v = y % MaxMsgs
  OBVIOUS
<1>6. /\ u = IF x < MaxMsgs THEN x ELSE x - MaxMsgs
      /\ v = IF y < MaxMsgs THEN y ELSE y - MaxMsgs
  BY <1>4, <1>5
<1>7. u = v
  BY <1>1, <1>2, <1>3, <1>6
<1>8. QED
  BY <1>2, <1>3, <1>5, <1>7

LEMMA MovingLen == Len(Moving) = InHand
BY DEF Moving, InHand

LEMMA MsgInitInv == MInit => MsgInv
<1> SUFFICES ASSUME MInit PROVE MsgInv
  OBVIOUS
<1> USE MsgQAssumption, PendAssumption
<1>1. PendInv /\ PendTypeOK
  BY PendInitInv DEF MInit, PendInv
<1>2. sec = Free /\ InHand = 0 /\ used = 0 /\ rd = 0 /\ wr = 0
  BY DEF MInit, Free, InHand
<1>3. MTypeOK
  BY <1>1 DEF MInit, MTypeOK, Free
<1>4. RingConsistent
  <2>1. 0 \in 0..(2 * MaxMsgs - 1) /\ 0 < MaxMsgs /\ 0 + 0 = 0
    OBVIOUS
  <2>2. 0 % MaxMsgs = 0
    BY <2>1, ModWraps
  <2>3. QED
    BY <1>2, <2>1, <2>2 DEF RingConsistent
<1>5. WaitersMatchFill /\ WaitersInCall
  BY DEF MInit, PendInit, WaitersMatchFill, WaitersInCall
<1>6. SectionOK
  BY <1>2 DEF SectionOK, Free
<1>7. RoomForMoving
  BY <1>2, MovingLen DEF RoomForMoving
<1>8. QED
  BY <1>1, <1>3, <1>4, <1>5, <1>6, <1>7 DEF MsgInv

(* Every step preserves MsgInv, on any number of CPUs: the queue's lock is *)
(* what keeps the ring together, and nothing else touches it.              *)
LEMMA MsgNextInv ==
  ASSUME MsgInv, [MNext]_vars
  PROVE  MsgInv'
<1> USE MsgQAssumption, PendAssumption
<1>0. /\ PendInv /\ PendTypeOK /\ QueueMatchesState /\ RunnableIsFree /\ MTypeOK
      /\ RingConsistent /\ SectionOK /\ WaitersInCall /\ Q \in WaitQs
  BY DEF MsgInv, PendInv
<1>r. /\ rd \in 0..(MaxMsgs - 1) /\ wr \in 0..(MaxMsgs - 1) /\ used \in 0..MaxMsgs
      /\ wr = (rd + used) % MaxMsgs /\ MaxMsgs \in Nat \ {0} /\ used \in Nat
  BY <1>0 DEF MTypeOK, RingConsistent
<1>f. /\ \A t \in Threads : pendedOn[t] # None =>
           /\ call[t] \in {"put", "get"}
           /\ call[t] = "get" => used = 0 /\ InHand = 0
           /\ call[t] = "put" => used + InHand = MaxMsgs /\ data[t] \in Msgs
      /\ used + InHand <= MaxMsgs /\ InHand \in {0, 1}
  <2>1. InHand \in {0, 1}
    BY DEF InHand
  <2>2. RoomForMoving /\ WaitersMatchFill /\ Len(Moving) = InHand
    BY MovingLen DEF MsgInv
  <2>3. used + InHand <= MaxMsgs
    BY <1>r, <2>1, <2>2 DEF RoomForMoving
  <2>4. \A t \in Threads : pendedOn[t] # None => pendedOn[t] = Q /\ call[t] \in {"put", "get"}
    BY <1>0 DEF PendTypeOK, MTypeOK, WaitersInCall
  <2>5. QED
    BY <1>0, <2>1, <2>2, <2>3, <2>4 DEF WaitersMatchFill, WaitersInCall
<1>g. ASSUME \A t \in Threads : pendedOn'[t] # None =>
               /\ call'[t] \in {"put", "get"}
               /\ call'[t] = "get" => used' = 0 /\ InHand' = 0
               /\ call'[t] = "put" => used' + InHand' = MaxMsgs /\ data'[t] \in Msgs
      PROVE  WaitersMatchFill' /\ WaitersInCall'
  <2>1. Len(Moving)' = InHand'
    BY DEF Moving, InHand
  <2>2. QED
    BY <1>g, <2>1 DEF WaitersMatchFill, WaitersInCall
<1>h. ASSUME used' \in 0..MaxMsgs, used' + InHand' <= MaxMsgs
      PROVE  RoomForMoving'
  <2>1. Len(Moving)' = InHand' /\ InHand' \in {0, 1}
    BY DEF Moving, InHand
  <2>2. PICK x \in 0..MaxMsgs, y \in {0, 1} : x = used' /\ y = InHand'
    BY <1>h, <2>1
  <2>3. x + y <= MaxMsgs
    BY <1>h, <2>2
  <2>4. x + y \in 0..MaxMsgs
    BY <2>3
  <2>5. QED
    BY <2>1, <2>2, <2>4 DEF RoomForMoving
<1>e. ASSUME waitq[Q] = <<>>
      PROVE  \A t \in Threads : pendedOn[t] = None
  BY <1>0, <1>e DEF QueueMatchesState, PendTypeOK
(* Steps that only take threads out of the wait queue, *)
<1>o. ASSUME PendInv', \A t \in Threads : pendedOn'[t] \in {pendedOn[t], None},
             UNCHANGED msgVars
      PROVE  MsgInv'
  <2>1. UNCHANGED <<buf, rd, wr, used, sec, call, data, out>> /\ InHand' = InHand
    BY <1>o DEF msgVars, ringVars, InHand
  <2>2. MTypeOK' /\ RingConsistent' /\ SectionOK'
    BY <1>0, <1>o, <2>1 DEF MTypeOK, PendInv, RingConsistent, SectionOK
  <2>3. WaitersMatchFill' /\ WaitersInCall' /\ RoomForMoving'
    BY <1>f, <1>g, <1>h, <1>o, <1>r, <2>1
  <2>4. QED
    BY <1>o, <2>2, <2>3 DEF MsgInv
(* and the wakeups, which also begin a section. *)
<1>u. ASSUME UnpendFirst(Q), UNCHANGED <<call, data>>,
             sec' \in [op : {"put", "get", "purge"}, th : {Head(waitq[Q])},
                       st : {"unpended"}, m : Msgs \cup {None}],
             sec'.op = "put" => sec'.m \in Msgs,
             IsBuffer(buf'), rd' \in 0..(MaxMsgs - 1), wr' \in 0..(MaxMsgs - 1),
             used' \in 0..MaxMsgs, wr' = (rd' + used') % MaxMsgs,
             out' \in Msgs \cup {None},
             used = 0 => used' = 0 /\ InHand' = 0, used' + InHand' = used + InHand
      PROVE  MsgInv'
  <2>1. PICK h \in Threads : h = Head(waitq[Q]) /\ pendedOn' = [pendedOn EXCEPT ![h] = None]
    BY <1>0, <1>u, HeadFacts DEF UnpendFirst
  <2>2. PendInv'
    BY <1>0, <1>u, UnpendFirstInv
  <2>3. sec'.op \in {"put", "get", "purge"} /\ sec'.th = h /\ sec'.st = "unpended"
    BY <1>u, <2>1
  <2>4. MTypeOK'
    BY <1>0, <1>u, <2>1, <2>2 DEF MTypeOK, PendInv, IsBuffer
  <2>5. RingConsistent' /\ SectionOK'
    BY <1>u, <2>3 DEF RingConsistent, SectionOK
  <2>6. \A t \in Threads : pendedOn'[t] \in {pendedOn[t], None}
    BY <1>0, <2>1 DEF PendTypeOK
  <2>7. WaitersMatchFill' /\ WaitersInCall'
    BY <1>f, <1>g, <1>u, <2>6
  <2>8. RoomForMoving'
    BY <1>f, <1>h, <1>u
  <2>9. QED
    BY <2>2, <2>4, <2>5, <2>7, <2>8 DEF MsgInv
<1>1. CASE \E m \in Msgs : PutStore(m)
  <2>1. PICK m \in Msgs : PutStore(m)
    BY <1>1
  <2>2. /\ sec = Free /\ used < MaxMsgs /\ buf' = [buf EXCEPT ![wr] = m]
        /\ wr' = Advance(wr) /\ used' = used + 1
        /\ UNCHANGED pendVars /\ UNCHANGED <<rd, sec, call, data, out>>
        /\ pendedOn' = pendedOn /\ waitq[Q] = <<>>
    BY <2>1 DEF PutStore, Unlocked, pendVars
  <2>3. PICK n \in 0..(MaxMsgs - 1) : n = used
    BY <1>r, <2>2
  <2>4. wr' = (rd' + used') % MaxMsgs /\ wr' \in 0..(MaxMsgs - 1)
    <3>1. /\ Advance((rd + n) % MaxMsgs) = (rd + (n + 1)) % MaxMsgs
          /\ (rd + (n + 1)) % MaxMsgs \in 0..(MaxMsgs - 1)
      BY <1>r, WritePtr
    <3>2. QED
      BY <1>r, <2>2, <2>3, <3>1
  <2>5. PendInv'
    BY <1>0, <2>2, PendStutterInv
  <2>6. MTypeOK'
    BY <1>0, <1>r, <2>2, <2>4, <2>5 DEF MTypeOK, PendInv
  <2>7. RingConsistent' /\ SectionOK'
    BY <1>0, <2>2, <2>4 DEF RingConsistent, SectionOK
  <2>8. InHand' = 0
    BY <2>2 DEF InHand, Free
  <2>9. WaitersMatchFill' /\ WaitersInCall' /\ RoomForMoving'
    BY <1>e, <1>g, <1>h, <1>r, <2>2, <2>8
  <2>10. QED
    BY <2>5, <2>6, <2>7, <2>9 DEF MsgInv
<1>2. CASE \E m \in Msgs : PutUnpend(m)
  <2>1. PICK m \in Msgs : PutUnpend(m)
    BY <1>2
  <2>2. /\ sec = Free /\ UnpendFirst(Q) /\ UNCHANGED <<buf, rd, wr, used, call, data, out>>
        /\ sec' = [op |-> "put", th |-> Head(waitq[Q]), st |-> "unpended", m |-> m]
    BY <2>1 DEF PutUnpend, Unlocked, ringVars
  <2>3. InHand = 0 /\ InHand' = 0
    BY <2>2 DEF InHand, Free
  <2>4. IsBuffer(buf') /\ out' \in Msgs \cup {None}
    BY <1>0, <2>2 DEF MTypeOK, IsBuffer
  <2>5. QED
    BY <1>r, <1>u, <2>2, <2>3, <2>4
<1>3. CASE \E t \in Threads, m \in Msgs, forever \in BOOLEAN : PutPend(t, m, forever)
  <2>1. PICK t \in Threads, m \in Msgs, forever \in BOOLEAN : PutPend(t, m, forever)
    BY <1>3
  <2>2. /\ sec = Free /\ used = MaxMsgs /\ runnable[t] /\ PendCurr(t, Q, forever)
        /\ call' = [call EXCEPT ![t] = "put"] /\ data' = [data EXCEPT ![t] = m]
        /\ UNCHANGED <<buf, rd, wr, used, sec, out>>
        /\ pendedOn' = [pendedOn EXCEPT ![t] = Q]
    BY <2>1 DEF PutPend, Unlocked, ringVars, PendCurr
  <2>3. PendInv'
    BY <1>0, <2>2, PendCurrInv
  <2>4. MTypeOK' /\ RingConsistent' /\ SectionOK'
    BY <1>0, <2>2, <2>3 DEF MTypeOK, PendInv, RingConsistent, SectionOK
  <2>5. InHand' = 0 /\ InHand = 0
    BY <2>2 DEF InHand, Free
  <2>6. \A u \in Threads : pendedOn'[u] # None =>
          /\ call'[u] \in {"put", "get"}
          /\ call'[u] = "get" => used' = 0 /\ InHand' = 0
          /\ call'[u] = "put" => used' + InHand' = MaxMsgs /\ data'[u] \in Msgs
    <3>1. TAKE u \in Threads
    <3>2. CASE u = t
      BY <1>0, <1>r, <2>2, <2>5, <3>2 DEF MTypeOK
    <3>3. CASE u # t
      BY <1>0, <1>f, <2>2, <2>5, <3>3 DEF MTypeOK, PendTypeOK
    <3>4. QED
      BY <3>2, <3>3
  <2>7. WaitersMatchFill' /\ WaitersInCall' /\ RoomForMoving'
    BY <1>g, <1>h, <1>r, <2>2, <2>5, <2>6
  <2>8. QED
    BY <2>3, <2>4, <2>7 DEF MsgInv
<1>4. CASE GetTake
  <2>1. /\ sec = Free /\ used > 0 /\ waitq[Q] = <<>> /\ out' = buf[rd]
        /\ rd' = Advance(rd) /\ used' = used - 1
        /\ UNCHANGED pendVars /\ UNCHANGED <<buf, wr, sec, call, data>>
        /\ pendedOn' = pendedOn
    BY <1>4 DEF GetTake, Unlocked, pendVars
  <2>2. PICK n \in 1..MaxMsgs : n = used
    BY <1>r, <2>1
  <2>3. wr' = (rd' + used') % MaxMsgs /\ rd' \in 0..(MaxMsgs - 1) /\ used' \in 0..MaxMsgs
    <3>1. /\ Advance(rd) \in 0..(MaxMsgs - 1)
          /\ (rd + n) % MaxMsgs = (Advance(rd) + (n - 1)) % MaxMsgs
      BY <1>r, ReadPtr
    <3>2. used' \in 0..MaxMsgs
      BY <1>r, <2>1
    <3>3. QED
      BY <1>r, <2>1, <2>2, <3>1, <3>2
  <2>4. PendInv'
    BY <1>0, <2>1, PendStutterInv
  <2>5. MTypeOK'
    BY <1>0, <1>r, <2>1, <2>3, <2>4 DEF MTypeOK, PendInv
  <2>6. RingConsistent' /\ SectionOK' /\ InHand' = 0
    BY <1>0, <2>1, <2>3 DEF RingConsistent, SectionOK, InHand, Free
  <2>7. WaitersMatchFill' /\ WaitersInCall' /\ RoomForMoving'
    BY <1>e, <1>g, <1>h, <1>r, <2>1, <2>3, <2>6
  <2>8. QED
    BY <2>4, <2>5, <2>6, <2>7 DEF MsgInv
<1>5. CASE GetUnpend
  <2>1. /\ sec = Free /\ used > 0 /\ UnpendFirst(Q) /\ out' = buf[rd]
        /\ rd' = Advance(rd) /\ used' = used - 1
        /\ sec' = [op |-> "get", th |-> Head(waitq[Q]), st |-> "unpended", m |-> None]
        /\ UNCHANGED <<buf, wr, call, data>>
    BY <1>5 DEF GetUnpend, Unlocked
  <2>2. PICK n \in 1..MaxMsgs : n = used
    BY <1>r, <2>1
  <2>3. wr' = (rd' + used') % MaxMsgs /\ rd' \in 0..(MaxMsgs - 1) /\ used' \in 0..MaxMsgs
    <3>1. /\ Advance(rd) \in 0..(MaxMsgs - 1)
          /\ (rd + n) % MaxMsgs = (Advance(rd) + (n - 1)) % MaxMsgs
      BY <1>r, ReadPtr
    <3>2. used' \in 0..MaxMsgs
      BY <1>r, <2>1
    <3>3. QED
      BY <1>r, <2>1, <2>2, <3>1, <3>2
  <2>4. InHand = 0 /\ InHand' = 1
    BY <2>1 DEF InHand, Free
  <2>5. IsBuffer(buf') /\ out' \in Msgs \cup {None}
    BY <1>0, <2>1 DEF MTypeOK, IsBuffer
  <2>6. used' + InHand' = used + InHand /\ used # 0
    BY <1>r, <2>1, <2>4
  <2>7. QED
    BY <1>r, <1>u, <2>1, <2>3, <2>5, <2>6
<1>6. CASE \E t \in Threads, forever \in BOOLEAN : GetPend(t, forever)
  <2>1. PICK t \in Threads, forever \in BOOLEAN : GetPend(t, forever)
    BY <1>6
  <2>2. /\ sec = Free /\ used = 0 /\ runnable[t] /\ PendCurr(t, Q, forever)
        /\ call' = [call EXCEPT ![t] = "get"] /\ data' = [data EXCEPT ![t] = None]
        /\ UNCHANGED <<buf, rd, wr, used, sec, out>>
        /\ pendedOn' = [pendedOn EXCEPT ![t] = Q]
    BY <2>1 DEF GetPend, Unlocked, ringVars, PendCurr
  <2>3. PendInv'
    BY <1>0, <2>2, PendCurrInv
  <2>4. MTypeOK' /\ RingConsistent' /\ SectionOK'
    BY <1>0, <2>2, <2>3 DEF MTypeOK, PendInv, RingConsistent, SectionOK
  <2>5. InHand' = 0 /\ InHand = 0
    BY <2>2 DEF InHand, Free
  <2>6. \A u \in Threads : pendedOn'[u] # None =>
          /\ call'[u] \in {"put", "get"}
          /\ call'[u] = "get" => used' = 0 /\ InHand' = 0
          /\ call'[u] = "put" => used' + InHand' = MaxMsgs /\ data'[u] \in Msgs
    <3>1. TAKE u \in Threads
    <3>2. CASE u = t
      BY <1>0, <2>2, <2>5, <3>2 DEF MTypeOK
    <3>3. CASE u # t
      BY <1>0, <1>f, <2>2, <2>5, <3>3 DEF MTypeOK, PendTypeOK
    <3>4. QED
      BY <3>2, <3>3
  <2>7. WaitersMatchFill' /\ WaitersInCall' /\ RoomForMoving'
    BY <1>g, <1>h, <1>r, <2>2, <2>5, <2>6
  <2>8. QED
    BY <2>3, <2>4, <2>7 DEF MsgInv
<1>7. CASE PurgeUnpend
  <2>1. /\ UnpendFirst(Q) /\ UNCHANGED <<buf, rd, wr, used, call, data, out>>
        /\ sec' = [op |-> "purge", th |-> Head(waitq[Q]), st |-> "unpended", m |-> None]
        /\ sec.op # "get"
    BY <1>7 DEF PurgeUnpend, Unlocked, ringVars, Free
  <2>2. InHand = 0 /\ InHand' = 0
    BY <2>1 DEF InHand
  <2>3. IsBuffer(buf') /\ out' \in Msgs \cup {None}
    BY <1>0, <2>1 DEF MTypeOK, IsBuffer
  <2>4. QED
    BY <1>r, <1>u, <2>1, <2>2, <2>3
<1>8. CASE PurgeDone
  <2>1. /\ waitq[Q] = <<>> /\ used' = 0 /\ rd' = wr /\ sec' = Free
        /\ UNCHANGED pendVars /\ UNCHANGED <<buf, wr, call, data, out>>
        /\ pendedOn' = pendedOn
    BY <1>8 DEF PurgeDone, pendVars
  <2>2. wr' = (rd' + used') % MaxMsgs
    <3>1. wr \in 0..(2 * MaxMsgs - 1) /\ wr < MaxMsgs /\ wr + 0 = wr
      BY <1>r
    <3>2. wr % MaxMsgs = wr
      BY <3>1, ModWraps
    <3>3. QED
      BY <2>1, <3>1, <3>2
  <2>3. PendInv'
    BY <1>0, <2>1, PendStutterInv
  <2>4. MTypeOK'
    BY <1>0, <1>r, <2>1, <2>3 DEF MTypeOK, PendInv, Free
  <2>5. RingConsistent' /\ SectionOK' /\ InHand' = 0
    BY <2>1, <2>2 DEF RingConsistent, SectionOK, InHand, Free
  <2>6. WaitersMatchFill' /\ WaitersInCall' /\ RoomForMoving'
    BY <1>e, <1>g, <1>h, <1>r, <2>1, <2>5
  <2>7. QED
    BY <2>3, <2>4, <2>5, <2>6 DEF MsgInv
<1>9. CASE StorePut
  <2>1. /\ sec.op = "put" /\ sec.st = "unpended" /\ sec.th \in Threads /\ sec.m \in Msgs
        /\ data' = [data EXCEPT ![sec.th] = sec.m] /\ SetRetval(sec.th, "0")
        /\ sec' = [sec EXCEPT !.st = "set"]
        /\ UNCHANGED <<buf, rd, wr, used, call, out>> /\ pendedOn' = pendedOn
    BY <1>0, <1>9 DEF StorePut, ringVars, SetRetval, SectionOK
  <2>2. PendInv'
    BY <1>0, <2>1, SetRetvalInv DEF RetVals
  <2>3. sec'.op = sec.op /\ sec'.th = sec.th /\ sec'.st = "set" /\ sec'.m = sec.m
    BY <1>0, <2>1 DEF MTypeOK
  <2>4. MTypeOK'
    BY <1>0, <2>1, <2>2 DEF MTypeOK, PendInv
  <2>5. RingConsistent' /\ SectionOK'
    BY <1>0, <2>1, <2>3 DEF RingConsistent, SectionOK
  <2>6. InHand' = 0 /\ InHand = 0
    BY <2>1, <2>3 DEF InHand
  <2>7. \A t \in Threads : data'[t] \in Msgs \/ data'[t] = data[t]
    BY <1>0, <2>1 DEF MTypeOK
  <2>8. WaitersMatchFill' /\ WaitersInCall' /\ RoomForMoving'
    BY <1>f, <1>g, <1>h, <1>r, <2>1, <2>6, <2>7
  <2>9. QED
    BY <2>2, <2>4, <2>5, <2>8 DEF MsgInv
<1>10. CASE StoreGet
  <2>1. /\ sec.op = "get" /\ sec.st = "unpended" /\ sec.th \in Threads
        /\ buf' = [buf EXCEPT ![wr] = data[sec.th]] /\ SetRetval(sec.th, "0")
        /\ wr' = Advance(wr) /\ used' = used + 1
        /\ sec' = [sec EXCEPT !.st = "set"]
        /\ UNCHANGED <<rd, call, data, out>> /\ pendedOn' = pendedOn
    BY <1>0, <1>10 DEF StoreGet, SetRetval, SectionOK
  <2>2. PendInv'
    BY <1>0, <2>1, SetRetvalInv DEF RetVals
  <2>3. sec'.op = sec.op /\ sec'.th = sec.th /\ sec'.st = "set" /\ sec'.m = sec.m
    BY <1>0, <2>1 DEF MTypeOK
  <2>4. InHand' = 0 /\ InHand = 1
    BY <2>1, <2>3 DEF InHand
  <2>5. PICK n \in 0..(MaxMsgs - 1) : n = used
    BY <1>f, <1>r, <2>4
  <2>6. wr' = (rd' + used') % MaxMsgs /\ wr' \in 0..(MaxMsgs - 1)
    <3>1. /\ Advance((rd + n) % MaxMsgs) = (rd + (n + 1)) % MaxMsgs
          /\ (rd + (n + 1)) % MaxMsgs \in 0..(MaxMsgs - 1)
      BY <1>r, WritePtr
    <3>2. QED
      BY <1>r, <2>1, <2>5, <3>1
  <2>7. MTypeOK'
    <3>1. used' \in 0..MaxMsgs
      BY <1>r, <2>1, <2>5
    <3>2. buf' \in [0..(MaxMsgs - 1) -> Msgs \cup {None}]
      BY <1>0, <1>r, <2>1 DEF MTypeOK
    <3>3. QED
      BY <1>0, <1>r, <2>1, <2>2, <2>6, <3>1, <3>2 DEF MTypeOK, PendInv
  <2>8. RingConsistent' /\ SectionOK'
    BY <1>0, <2>1, <2>3, <2>6 DEF RingConsistent, SectionOK
  <2>9. used' + InHand' = used + InHand /\ used' \in 0..MaxMsgs
    BY <1>r, <2>1, <2>4, <2>5
  <2>11. \A t \in Threads : pendedOn[t] # None => call[t] # "get"
    BY <1>f, <2>4
  <2>12. WaitersMatchFill' /\ WaitersInCall' /\ RoomForMoving'
    BY <1>f, <1>g, <1>h, <2>1, <2>9, <2>11
  <2>13. QED
    BY <2>2, <2>7, <2>8, <2>12 DEF MsgInv
<1>11. CASE StorePurge
  <2>1. /\ sec.op = "purge" /\ sec.st = "unpended" /\ SetRetval(sec.th, "ENOMSG")
        /\ sec' = [sec EXCEPT !.st = "set"]
        /\ UNCHANGED <<buf, rd, wr, used, call, data, out>> /\ pendedOn' = pendedOn
    BY <1>11 DEF StorePurge, SetRetval, ringVars
  <2>2. PendInv'
    BY <1>0, <2>1, SetRetvalInv DEF RetVals
  <2>3. sec'.op = sec.op /\ sec'.th = sec.th /\ sec'.st = "set" /\ sec'.m = sec.m
    BY <1>0, <2>1 DEF MTypeOK
  <2>4. MTypeOK' /\ RingConsistent'
    BY <1>0, <2>1, <2>2 DEF MTypeOK, PendInv, RingConsistent
  <2>5. SectionOK'
    BY <1>0, <2>1, <2>3 DEF SectionOK
  <2>6. InHand' = 0 /\ InHand = 0
    BY <2>1, <2>3 DEF InHand
  <2>7. WaitersMatchFill' /\ WaitersInCall' /\ RoomForMoving'
    BY <1>f, <1>g, <1>h, <1>r, <2>1, <2>6
  <2>8. QED
    BY <2>2, <2>4, <2>5, <2>7 DEF MsgInv
<1>12. CASE ReadyWoken
  <2>1. /\ sec.st = "set" /\ ReadyThread(sec.th)
        /\ sec' = IF sec.op = "purge" THEN [Free EXCEPT !.op = "purge"] ELSE Free
        /\ UNCHANGED <<buf, rd, wr, used, call, data, out>> /\ pendedOn' = pendedOn
    BY <1>12 DEF ReadyWoken, ReadyThread, ringVars
  <2>2. PendInv'
    BY <1>0, <2>1, ReadyThreadInv
  <2>3. MTypeOK' /\ RingConsistent'
    BY <1>0, <2>1, <2>2 DEF MTypeOK, PendInv, RingConsistent, Free
  <2>4. SectionOK' /\ InHand' = 0 /\ InHand = 0
    BY <2>1 DEF SectionOK, InHand, Free
  <2>5. WaitersMatchFill' /\ WaitersInCall' /\ RoomForMoving'
    BY <1>f, <1>g, <1>h, <1>r, <2>1, <2>4
  <2>6. QED
    BY <2>2, <2>3, <2>4, <2>5 DEF MsgInv
<1>13. CASE \E t \in Threads : CallReturn(t)
  <2>1. PICK t \in Threads : CallReturn(t)
    BY <1>13
  <2>2. /\ runnable[t] /\ call' = [call EXCEPT ![t] = "idle"]
        /\ data' = [data EXCEPT ![t] = None]
        /\ out' \in {data[t], out}
        /\ UNCHANGED pendVars /\ UNCHANGED <<buf, rd, wr, used, sec>> /\ pendedOn' = pendedOn
    BY <2>1 DEF CallReturn, ringVars, pendVars
  <2>3. PendInv' /\ pendedOn[t] = None
    BY <1>0, <2>2, PendStutterInv DEF RunnableIsFree
  <2>4. MTypeOK' /\ RingConsistent' /\ SectionOK'
    BY <1>0, <2>2, <2>3 DEF MTypeOK, PendInv, RingConsistent, SectionOK
  <2>5. InHand' = InHand
    BY <2>2 DEF InHand
  <2>6. \A u \in Threads : pendedOn[u] # None => call'[u] = call[u] /\ data'[u] = data[u]
    BY <1>0, <2>2, <2>3 DEF MTypeOK
  <2>7. WaitersMatchFill' /\ WaitersInCall' /\ RoomForMoving'
    BY <1>f, <1>g, <1>h, <1>r, <2>2, <2>5, <2>6
  <2>8. QED
    BY <2>3, <2>4, <2>7 DEF MsgInv
<1>14. CASE Environment
  BY <1>0, <1>o, <1>14, OutsideInv, OutsideFacts DEF Environment
<1>15. CASE \E t \in Victims : AbortThread(t)
  <2>1. PICK t \in Threads : Abort(t) /\ UNCHANGED msgVars
    BY <1>15 DEF AbortThread
  <2>2. PendInv'
    BY <1>0, <2>1, AbortInv
  <2>3. \A u \in Threads : pendedOn'[u] \in {pendedOn[u], None}
    BY <1>0, <2>1, AbortFacts
  <2>4. QED
    BY <1>o, <2>1, <2>2, <2>3
<1>16. CASE UNCHANGED vars
  <2>1. UNCHANGED pendVars /\ UNCHANGED msgVars /\ pendedOn' = pendedOn
    BY <1>16 DEF vars, pendVars
  <2>2. PendInv'
    BY <1>0, <2>1, PendStutterInv
  <2>3. QED
    BY <1>o, <2>1, <2>2
<1>17. QED
  BY <1>1, <1>2, <1>3, <1>4, <1>5, <1>6, <1>7, <1>8, <1>9, <1>10, <1>11, <1>12,
     <1>13, <1>14, <1>15, <1>16 DEF MNext

LEMMA MsgInvariant == MSpec => []MsgInv
BY MsgInitInv, MsgNextInv, PTL DEF MSpec

(* read_ptr, write_ptr and used_msgs agree at every step, on any number of *)
(* CPUs and for any max_msgs: also while a get has taken a message and not *)
(* yet stored the writer's.                                                *)
THEOREM MsgRingConsistent == MSpec => [](MTypeOK /\ RingConsistent)
<1>1. MsgInv => MTypeOK /\ RingConsistent
  BY DEF MsgInv
<1>2. QED
  BY MsgInvariant, <1>1, PTL

(* Put never takes a writer for a reader nor get a reader for a writer,    *)
(* although both kinds wait in one queue: readers wait only while it is    *)
(* empty and writers only while it is full, on any number of CPUs.         *)
THEOREM MsgWaitersMatchFill == MSpec => [](WaitersMatchFill /\ QueueMatchesState)
<1>1. MsgInv => WaitersMatchFill /\ QueueMatchesState
  BY DEF MsgInv, PendInv
<1>2. QED
  BY MsgInvariant, <1>1, PTL

(* k_msgq_peek_at() finds the message that get would return after i        *)
(* others, wherever the ring wraps.                                        *)
THEOREM MsgPeekAtRight == MSpec => []PeekAtRight
<1>1. MsgInv => PeekAtRight
  <2> SUFFICES ASSUME MsgInv, NEW i \in 0..(used - 1)
               PROVE  PeekAt(i) = Content[i + 1]
    BY DEF PeekAtRight
  <2>1. MaxMsgs \in Nat \ {0} /\ rd \in 0..(MaxMsgs - 1) /\ used \in 0..MaxMsgs
    BY MsgQAssumption DEF MsgInv, MTypeOK
  <2>2. PICK x \in 0..(2 * MaxMsgs - 1), k \in 1..used :
          x = rd + i /\ k = i + 1 /\ x = rd + k - 1
    BY <2>1
  <2>3. x % MaxMsgs = IF x < MaxMsgs THEN x ELSE x - MaxMsgs
    BY ModWraps
  <2>4. Content[k] = buf[x % MaxMsgs]
    BY <2>2 DEF Content
  <2>5. CASE MaxMsgs - rd <= i
    <3>1. i - (MaxMsgs - rd) = x - MaxMsgs /\ ~(x < MaxMsgs)
      BY <2>1, <2>2, <2>5
    <3>2. PeekAt(i) = buf[i - (MaxMsgs - rd)]
      BY <2>5 DEF PeekAt
    <3>3. QED
      BY <2>2, <2>3, <2>4, <3>1, <3>2
  <2>6. CASE ~(MaxMsgs - rd <= i)
    <3>1. x < MaxMsgs
      BY <2>1, <2>2, <2>6
    <3>2. PeekAt(i) = buf[rd + i]
      BY <2>6 DEF PeekAt
    <3>3. QED
      BY <2>2, <2>3, <2>4, <3>1, <3>2
  <2>7. QED
    BY <2>5, <2>6
<1>2. QED
  BY MsgInvariant, <1>1, PTL

-----------------------------------------------------------------------------
LEMMA OneCpuInit == MInit => OneCpuInv
BY PendAssumption DEF MInit, PendInit, OneCpuInv, Free

LEMMA OneCpuNext ==
  ASSUME ~SMP, MsgInv, OneCpuInv, [MNext]_vars
  PROVE  OneCpuInv'
<1> USE MsgQAssumption, PendAssumption
<1>0. /\ PendInv /\ PendTypeOK /\ QueueMatchesState /\ RunnableIsFree /\ MTypeOK
      /\ SectionOK /\ WaitersInCall /\ Q \in WaitQs
  BY DEF MsgInv, PendInv
<1>f. \A t \in Threads : pendedOn[t] # None =>
        /\ call[t] \in {"put", "get"}
        /\ call[t] = "get" => used = 0
        /\ call[t] = "put" => used + InHand = MaxMsgs /\ data[t] \in Msgs
  <2>1. WaitersMatchFill /\ Len(Moving) = InHand
    BY MovingLen DEF MsgInv
  <2>2. \A t \in Threads : pendedOn[t] # None => pendedOn[t] = Q /\ call[t] \in {"put", "get"}
    BY <1>0 DEF PendTypeOK, MTypeOK, WaitersInCall
  <2>3. QED
    BY <1>0, <2>1, <2>2 DEF WaitersMatchFill, WaitersInCall
<1>o. ASSUME sec = Free, UNCHANGED <<sec, call, data, swapRet>>,
             \A t \in Threads : pendedOn'[t] \in {pendedOn[t], None}
      PROVE  OneCpuInv'
  BY <1>o DEF OneCpuInv, Free
<1>u. ASSUME UnpendFirst(Q), UNCHANGED <<call, data>>, sec'.th = Head(waitq[Q]),
             sec'.op = "put" => call[Head(waitq[Q])] = "get",
             sec'.op = "get" => call[Head(waitq[Q])] = "put"
      PROVE  OneCpuInv'
  <2>1. PICK h \in Threads : h = Head(waitq[Q]) /\ pendedOn[h] = Q
    BY <1>0, <1>u, HeadFacts DEF UnpendFirst
  <2>2. /\ pendedOn' = [pendedOn EXCEPT ![h] = None]
        /\ UNCHANGED <<swapRet, halted, call, data>> /\ sec'.th = h
    BY <1>u, <2>1 DEF UnpendFirst
  <2>3. /\ call[h] # "idle" /\ halted[h] # "dead" /\ swapRet[h] = "EAGAIN"
        /\ call[h] = "put" => data[h] \in Msgs
    BY <1>0, <1>f, <2>1 DEF OneCpuInv, RunnableIsFree
  <2>4. pendedOn'[h] = None /\ \A t \in Threads : pendedOn'[t] \in {pendedOn[t], None}
    BY <1>0, <2>2 DEF PendTypeOK
  <2>5. QED
    BY <1>u, <2>1, <2>2, <2>3, <2>4 DEF OneCpuInv
<1>h. ASSUME waitq[Q] # <<>>
      PROVE  Head(waitq[Q]) \in Threads /\ pendedOn[Head(waitq[Q])] # None
  BY <1>0, <1>h, HeadFacts
<1>1. CASE \E m \in Msgs : PutStore(m)
  BY <1>1, <1>o DEF PutStore, Unlocked, pendVars
<1>2. CASE \E m \in Msgs : PutUnpend(m)
  <2>1. PICK m \in Msgs : PutUnpend(m)
    BY <1>2
  <2>2. /\ UnpendFirst(Q) /\ UNCHANGED <<call, data>> /\ used < MaxMsgs /\ sec = Free
        /\ sec' = [op |-> "put", th |-> Head(waitq[Q]), st |-> "unpended", m |-> m]
        /\ waitq[Q] # <<>>
    BY <2>1 DEF PutUnpend, UnpendFirst, Unlocked
  <2>3. InHand = 0 /\ used \in Nat /\ MaxMsgs \in Nat
    BY <1>0, <2>2 DEF InHand, Free, MTypeOK
  <2>4. call[Head(waitq[Q])] = "get"
    BY <1>f, <1>h, <2>2, <2>3
  <2>5. QED
    BY <1>u, <2>2, <2>4
<1>3. CASE \E t \in Threads, m \in Msgs, forever \in BOOLEAN : PutPend(t, m, forever)
  <2>1. PICK t \in Threads, m \in Msgs, forever \in BOOLEAN : PutPend(t, m, forever)
    BY <1>3
  <2>2. /\ sec = Free /\ sec' = sec /\ call' = [call EXCEPT ![t] = "put"]
        /\ data' = [data EXCEPT ![t] = m]
        /\ pendedOn' = [pendedOn EXCEPT ![t] = Q]
        /\ swapRet' = [swapRet EXCEPT ![t] = "EAGAIN"]
    BY <2>1 DEF PutPend, PendCurr, Unlocked
  <2>3. QED
    BY <1>0, <2>2 DEF OneCpuInv, PendTypeOK, MTypeOK, Free
<1>4. CASE GetTake
  BY <1>4, <1>o DEF GetTake, Unlocked, pendVars
<1>5. CASE GetUnpend
  <2>1. /\ UnpendFirst(Q) /\ UNCHANGED <<call, data>> /\ used > 0 /\ used # 0
        /\ sec' = [op |-> "get", th |-> Head(waitq[Q]), st |-> "unpended", m |-> None]
        /\ waitq[Q] # <<>>
    BY <1>0, <1>5 DEF GetUnpend, UnpendFirst, MTypeOK
  <2>2. call[Head(waitq[Q])] = "put"
    BY <1>f, <1>h, <2>1
  <2>3. QED
    BY <1>u, <2>1, <2>2
<1>6. CASE \E t \in Threads, forever \in BOOLEAN : GetPend(t, forever)
  <2>1. PICK t \in Threads, forever \in BOOLEAN : GetPend(t, forever)
    BY <1>6
  <2>2. /\ sec = Free /\ sec' = sec /\ call' = [call EXCEPT ![t] = "get"]
        /\ data' = [data EXCEPT ![t] = None]
        /\ pendedOn' = [pendedOn EXCEPT ![t] = Q]
        /\ swapRet' = [swapRet EXCEPT ![t] = "EAGAIN"]
    BY <2>1 DEF GetPend, PendCurr, Unlocked
  <2>3. QED
    BY <1>0, <2>2 DEF OneCpuInv, PendTypeOK, MTypeOK, Free
<1>7. CASE PurgeUnpend
  BY <1>7, <1>u DEF PurgeUnpend
<1>8. CASE PurgeDone
  BY <1>8 DEF PurgeDone, pendVars, OneCpuInv, Free
<1>9. CASE StorePut
  <2>1. /\ sec.op = "put" /\ sec.st = "unpended" /\ sec.th \in Threads /\ sec.m \in Msgs
        /\ data' = [data EXCEPT ![sec.th] = sec.m]
        /\ swapRet' = [swapRet EXCEPT ![sec.th] = "0"]
        /\ sec' = [sec EXCEPT !.st = "set"]
        /\ UNCHANGED <<call, pendedOn, halted>>
    BY <1>0, <1>9 DEF StorePut, SetRetval, SectionOK
  <2>2. sec'.op = "put" /\ sec'.th = sec.th /\ sec'.st = "set"
    BY <1>0, <2>1 DEF MTypeOK
  <2>3. pendedOn[sec.th] = None
    BY <2>1 DEF OneCpuInv
  <2>4. QED
    BY <1>0, <2>1, <2>2, <2>3 DEF OneCpuInv, PendTypeOK, MTypeOK
<1>10. CASE StoreGet
  <2>1. /\ sec.op = "get" /\ sec.st = "unpended" /\ sec.th \in Threads
        /\ swapRet' = [swapRet EXCEPT ![sec.th] = "0"]
        /\ sec' = [sec EXCEPT !.st = "set"]
        /\ UNCHANGED <<call, data, pendedOn, halted>>
    BY <1>0, <1>10 DEF StoreGet, SetRetval, SectionOK
  <2>2. sec'.op = "get" /\ sec'.th = sec.th /\ sec'.st = "set"
    BY <1>0, <2>1 DEF MTypeOK
  <2>3. pendedOn[sec.th] = None /\ call[sec.th] = "put"
    BY <2>1 DEF OneCpuInv
  <2>4. QED
    BY <1>0, <2>1, <2>2, <2>3 DEF OneCpuInv, PendTypeOK, MTypeOK
<1>11. CASE StorePurge
  <2>1. /\ sec.op = "purge" /\ sec.st = "unpended" /\ sec.th \in Threads
        /\ swapRet' = [swapRet EXCEPT ![sec.th] = "ENOMSG"]
        /\ sec' = [sec EXCEPT !.st = "set"]
        /\ UNCHANGED <<call, data, pendedOn, halted>>
    BY <1>0, <1>11 DEF StorePurge, SetRetval, SectionOK
  <2>2. sec'.op = "purge" /\ sec'.th = sec.th /\ sec'.st = "set"
    BY <1>0, <2>1 DEF MTypeOK
  <2>3. pendedOn[sec.th] = None
    BY <2>1 DEF OneCpuInv
  <2>4. QED
    BY <1>0, <2>1, <2>2, <2>3 DEF OneCpuInv, PendTypeOK, MTypeOK
<1>12. CASE ReadyWoken
  <2>1. /\ UNCHANGED <<swapRet, call, data, pendedOn, halted>>
        /\ sec'.st = "none" /\ sec'.op \in {"free", "purge"}
    BY <1>12 DEF ReadyWoken, ReadyThread, Free
  <2>2. QED
    BY <2>1 DEF OneCpuInv
<1>13. CASE \E t \in Threads : CallReturn(t)
  <2>1. PICK t \in Threads : CallReturn(t)
    BY <1>13
  <2>2. /\ sec = Free /\ sec' = sec /\ call' = [call EXCEPT ![t] = "idle"]
        /\ data' = [data EXCEPT ![t] = None] /\ UNCHANGED <<swapRet, pendedOn>>
    BY <2>1 DEF CallReturn, Others, Unlocked, pendVars
  <2>3. QED
    BY <1>0, <2>2 DEF OneCpuInv, MTypeOK, Free
<1>14. CASE Environment
  <2>1. sec = Free /\ UNCHANGED <<sec, call, data>> /\ Outside
    BY <1>14 DEF Environment, Others, Unlocked, msgVars
  <2>2. QED
    BY <1>0, <1>o, <2>1, OutsideFacts
<1>15. CASE \E t \in Victims : AbortThread(t)
  <2>1. PICK t \in Threads : Abort(t) /\ sec = Free /\ UNCHANGED <<sec, call, data>>
    BY <1>15 DEF AbortThread, Others, Unlocked, msgVars
  <2>2. swapRet' = swapRet /\ \A u \in Threads : pendedOn'[u] \in {pendedOn[u], None}
    BY <1>0, <2>1, AbortFacts
  <2>3. QED
    BY <1>o, <2>1, <2>2
<1>16. CASE UNCHANGED vars
  BY <1>16 DEF vars, pendVars, msgVars, OneCpuInv
<1>17. QED
  BY <1>1, <1>2, <1>3, <1>4, <1>5, <1>6, <1>7, <1>8, <1>9, <1>10, <1>11, <1>12,
     <1>13, <1>14, <1>15, <1>16 DEF MNext

-----------------------------------------------------------------------------
(* The state of the abstract queue. *)
Chan == Content \o Moving
Readers == {t \in Threads : pendedOn[t] = Q /\ call[t] = "get"}
Writers == {t \in Threads : pendedOn[t] = Q /\ call[t] = "put"}
MsgOf == [t \in Threads |-> IF pendedOn[t] = Q /\ call[t] = "put" THEN data[t] ELSE None]
Inbox == [t \in Threads |->
            IF Served(t) /\ call[t] = "get"
            THEN IF sec.op = "put" /\ sec.th = t /\ sec.st = "unpended"
                 THEN sec.m ELSE data[t]
            ELSE None]
Accepted == {t \in Threads : Served(t) /\ call[t] = "put"}
RefusedSet == {t \in Threads : Woken(t) /\ ~Served(t)}
Dead == {t \in Threads : halted[t] = "dead"}

(* Outside a get in progress the channel is what the ring holds. *)
LEMMA ChanIsRing ==
  ASSUME MTypeOK, InHand = 0
  PROVE  /\ Chan = Ring(buf, rd, used) /\ Len(Chan) = used
         /\ Chan \in Seq(Msgs \cup {None})
<1>1. PICK s \in Seq(Msgs \cup {None}) : s = Ring(buf, rd, used) /\ Len(s) = used
  BY RingIsSeq DEF MTypeOK, IsBuffer
<1>2. Content = s
  BY <1>1 DEF Content, Ring
<1>3. Moving = <<>>
  BY DEF Moving, InHand
<1>4. s \o <<>> = s
  OBVIOUS
<1>5. QED
  BY <1>1, <1>2, <1>3, <1>4 DEF Chan

LEMMA ChanMoving ==
  ASSUME MTypeOK, InHand = 1, data[sec.th] \in Msgs
  PROVE  Chan = Append(Ring(buf, rd, used), data[sec.th])
<1>1. PICK s \in Seq(Msgs \cup {None}) : s = Ring(buf, rd, used) /\ Len(s) = used
  BY RingIsSeq DEF MTypeOK, IsBuffer
<1>2. Content = s
  BY <1>1 DEF Content, Ring
<1>3. Moving = <<data[sec.th]>>
  BY DEF Moving, InHand
<1>4. s \o <<data[sec.th]>> = Append(s, data[sec.th])
  OBVIOUS
<1>5. QED
  BY <1>1, <1>2, <1>3, <1>4 DEF Chan

LEMMA MsgRefinementInit == MInit => Abs!AbsInit
<1> SUFFICES ASSUME MInit PROVE Abs!AbsInit
  OBVIOUS
<1> USE MsgQAssumption, PendAssumption
<1>1. /\ sec = Free /\ used = 0 /\ out = None /\ call = [t \in Threads |-> "idle"]
      /\ pendedOn = [t \in Threads |-> None] /\ halted = [t \in Threads |-> "no"]
  BY DEF MInit, PendInit
<1>2. Chan = <<>>
  <2>1. MTypeOK /\ InHand = 0
    BY <1>1, MsgInitInv DEF MsgInv, InHand, Free
  <2>2. QED
    BY <1>1, <2>1, ChanIsRing, RingEmpty
<1>3. \A t \in Threads : ~Woken(t) /\ ~Served(t)
  BY <1>1 DEF Woken, Served
<1>4. /\ Readers = {} /\ Writers = {} /\ Accepted = {} /\ RefusedSet = {} /\ Dead = {}
  BY <1>1, <1>3 DEF Readers, Writers, Accepted, RefusedSet, Dead
<1>5. MsgOf = [t \in Threads |-> None] /\ Inbox = [t \in Threads |-> None]
  BY <1>1, <1>3 DEF MsgOf, Inbox
<1>6. QED
  BY <1>1, <1>2, <1>4, <1>5
     DEF Abs!AbsInit, Chan, Readers, Writers, MsgOf, Inbox, Accepted, RefusedSet, Dead

(* Each step of msg_q.c is a step of the bounded FIFO or a stutter.  A     *)
(* wakeup takes effect when its thread leaves the wait queue; the steps    *)
(* that follow change nothing a caller can see.                            *)
LEMMA MsgRefinementStep ==
  ASSUME ~SMP, MsgInv, OneCpuInv, [MNext]_vars
  PROVE  [Abs!AbsNext]_(Abs!absVars)
<1> USE MsgQAssumption, PendAssumption
<1>0. /\ PendInv /\ PendTypeOK /\ QueueMatchesState /\ RunnableIsFree /\ MTypeOK
      /\ RingConsistent /\ SectionOK /\ WaitersInCall /\ Q \in WaitQs
  BY DEF MsgInv, PendInv
<1>n. MsgInv' /\ MTypeOK'
  BY MsgNextInv DEF MsgInv
<1>r. /\ rd \in 0..(MaxMsgs - 1) /\ wr \in 0..(MaxMsgs - 1) /\ used \in 0..MaxMsgs
      /\ MaxMsgs \in Nat \ {0} /\ used \in Nat /\ IsBuffer(buf)
  BY <1>0 DEF MTypeOK, IsBuffer
<1>f. \A t \in Threads : pendedOn[t] # None =>
        /\ pendedOn[t] = Q /\ call[t] \in {"put", "get"}
        /\ call[t] = "get" => used = 0
        /\ call[t] = "put" => used + InHand = MaxMsgs /\ data[t] \in Msgs
        /\ swapRet[t] = "EAGAIN" /\ halted[t] # "dead"
  <2>1. WaitersMatchFill /\ Len(Moving) = InHand
    BY MovingLen DEF MsgInv
  <2>2. \A t \in Threads : pendedOn[t] # None => pendedOn[t] = Q /\ call[t] \in {"put", "get"}
    BY <1>0 DEF PendTypeOK, MTypeOK, WaitersInCall
  <2>3. \A t \in Threads : pendedOn[t] # None => swapRet[t] = "EAGAIN" /\ halted[t] # "dead"
    BY <1>0 DEF OneCpuInv, RunnableIsFree
  <2>4. QED
    BY <1>0, <2>1, <2>2, <2>3 DEF WaitersMatchFill, WaitersInCall
<1>e. ASSUME waitq[Q] = <<>>
      PROVE  Readers = {} /\ Writers = {}
  <2>1. \A t \in Threads : pendedOn[t] # Q
    BY <1>0, <1>e DEF QueueMatchesState
  <2>2. QED
    BY <2>1 DEF Readers, Writers
<1>s. ASSUME Chan' = Chan, Readers' = Readers, Writers' = Writers, MsgOf' = MsgOf,
             Inbox' = Inbox, Accepted' = Accepted, RefusedSet' = RefusedSet,
             Dead' = Dead, out' = out
      PROVE  [Abs!AbsNext]_(Abs!absVars)
  <2>1. UNCHANGED Abs!absVars
    BY <1>s DEF Abs!absVars, Chan, Readers, Writers, MsgOf, Inbox, Accepted,
                RefusedSet, Dead
  <2>2. QED
    BY <2>1
(* The threads' part when no thread is touched. *)
<1>u. ASSUME UNCHANGED <<pendedOn, swapRet, call, data, sec>>,
             \A t \in Threads : halted'[t] = "dead" <=> halted[t] = "dead"
      PROVE  /\ Readers' = Readers /\ Writers' = Writers /\ MsgOf' = MsgOf
             /\ Inbox' = Inbox /\ Accepted' = Accepted /\ RefusedSet' = RefusedSet
             /\ Dead' = Dead
  <2>1. \A t \in Threads : (Woken(t)' <=> Woken(t)) /\ (Served(t)' <=> Served(t))
    BY <1>u DEF Woken, Served
  <2>2. Readers' = Readers /\ Writers' = Writers /\ MsgOf' = MsgOf /\ Dead' = Dead
    BY <1>u DEF Readers, Writers, MsgOf, Dead
  <2>3. Inbox' = Inbox /\ Accepted' = Accepted /\ RefusedSet' = RefusedSet
    BY <1>u, <2>1 DEF Inbox, Accepted, RefusedSet
  <2>4. QED
    BY <2>2, <2>3
<1>c. ASSUME InHand = 0, InHand' = 0, UNCHANGED <<buf, rd, used>>
      PROVE  Chan' = Chan
  <2>1. Moving = <<>> /\ Moving' = <<>>
    BY <1>c DEF Moving, InHand
  <2>2. QED
    BY <1>c, <2>1 DEF Chan, Content
<1>m. ASSUME InHand' = 0
      PROVE  Chan' = Ring(buf', rd', used')
  <2>1. PICK s \in Seq(Msgs \cup {None}) : s = Ring(buf', rd', used')
    BY <1>n, RingIsSeq DEF MTypeOK, IsBuffer
  <2>2. Content' = s
    BY <2>1 DEF Content, Ring
  <2>3. Moving' = <<>>
    BY <1>m DEF Moving, InHand
  <2>4. s \o <<>> = s
    OBVIOUS
  <2>5. QED
    BY <2>1, <2>2, <2>3, <2>4 DEF Chan
(* The threads' part when thread h leaves the queue and is not served:     *)
(* a timeout or a purge.                                                   *)
<1>w. ASSUME NEW h \in Threads, pendedOn[h] # None,
             pendedOn'[h] = None, \A u \in Threads : u # h => pendedOn'[u] = pendedOn[u],
             \A t \in Threads : halted'[t] = "dead" <=> halted[t] = "dead",
             UNCHANGED <<swapRet, call, data>>,
             sec.op \notin {"put", "get"}, sec'.op \notin {"put", "get"},
             Chan' = Chan, out' = out
      PROVE  [Abs!AbsNext]_(Abs!absVars)
  <2>1. /\ pendedOn[h] = Q /\ call[h] \in {"put", "get"}
        /\ swapRet[h] = "EAGAIN" /\ halted[h] # "dead" /\ Q # None
    BY <1>f, <1>w
  <2>2. \A u \in Threads : u # h => (Woken(u)' <=> Woken(u))
    BY <1>w DEF Woken
  <2>3. \A u \in Threads : u # h => (Served(u)' <=> Served(u))
    BY <1>w, <2>2 DEF Served
  <2>4. ~Woken(h) /\ ~Served(h) /\ Woken(h)' /\ ~Served(h)'
    BY <1>w, <2>1 DEF Woken, Served
  <2>5. /\ Readers' = Readers \ {h} /\ Writers' = Writers \ {h}
        /\ h \in Readers \cup Writers /\ Dead' = Dead
    BY <1>w, <2>1 DEF Readers, Writers, Dead
  <2>6. MsgOf' = [MsgOf EXCEPT ![h] = None]
    BY <1>w, <2>1 DEF MsgOf
  <2>7. Inbox' = Inbox
    BY <1>w, <2>3, <2>4 DEF Inbox
  <2>8. Accepted' = Accepted /\ RefusedSet' = RefusedSet \cup {h}
    BY <1>w, <2>2, <2>3, <2>4 DEF Accepted, RefusedSet
  <2>9. Abs!Withdraw(h)
    BY <1>w, <2>5, <2>6, <2>7, <2>8
       DEF Abs!Withdraw, Chan, Readers, Writers, MsgOf, Inbox, Accepted, RefusedSet, Dead
  <2>10. QED
    BY <2>9 DEF Abs!AbsNext
<1>1. CASE \E m \in Msgs : PutStore(m)
  <2>1. PICK m \in Msgs : PutStore(m)
    BY <1>1
  <2>2. /\ sec = Free /\ used < MaxMsgs /\ waitq[Q] = <<>>
        /\ buf' = [buf EXCEPT ![wr] = m] /\ used' = used + 1 /\ rd' = rd
        /\ UNCHANGED <<pendedOn, swapRet, call, data, sec, halted, out>>
    BY <2>1 DEF PutStore, Unlocked, pendVars
  <2>3. InHand = 0 /\ InHand' = 0
    BY <2>2 DEF InHand, Free
  <2>4. PICK n \in 0..(MaxMsgs - 1) : n = used
    BY <1>r, <2>2
  <2>5. Chan = Ring(buf, rd, n) /\ Len(Chan) = n
    BY <1>0, <2>3, <2>4, ChanIsRing
  <2>6. Chan' = Ring(buf', rd, n + 1)
    BY <1>m, <2>2, <2>3, <2>4
  <2>7. buf' = [buf EXCEPT ![(rd + n) % MaxMsgs] = m]
    BY <1>0, <2>2, <2>4 DEF RingConsistent
  <2>8. Chan' = Append(Chan, m)
    <3>1. m \in Msgs \cup {None} /\ IsBuffer(buf) /\ rd \in 0..(MaxMsgs - 1)
      BY <1>r
    <3>2. Ring([buf EXCEPT ![(rd + n) % MaxMsgs] = m], rd, n + 1)
            = Append(Ring(buf, rd, n), m)
      BY <3>1, RingAppend, Zenon
    <3>3. QED
      BY <2>5, <2>6, <2>7, <3>2
  <2>9. Len(Chan) < MaxMsgs
    BY <2>2, <2>4, <2>5
  <2>10. Abs!Put(m)
    BY <1>e, <1>u, <2>2, <2>8, <2>9
       DEF Abs!Put, Chan, Readers, Writers, MsgOf, Inbox, Accepted, RefusedSet, Dead
  <2>11. QED
    BY <2>10 DEF Abs!AbsNext
<1>2. CASE \E m \in Msgs : PutUnpend(m)
  <2>1. PICK m \in Msgs : PutUnpend(m)
    BY <1>2
  <2>2. PICK h \in Threads : h = Head(waitq[Q]) /\ pendedOn[h] = Q
    BY <1>0, <2>1, HeadFacts DEF PutUnpend, UnpendFirst
  <2>3. /\ sec = Free /\ used < MaxMsgs /\ pendedOn' = [pendedOn EXCEPT ![h] = None]
        /\ sec' = [op |-> "put", th |-> h, st |-> "unpended", m |-> m]
        /\ UNCHANGED <<buf, rd, wr, used, swapRet, call, data, halted, out>>
    BY <2>1, <2>2 DEF PutUnpend, UnpendFirst, Unlocked, ringVars
  <2>4. InHand = 0 /\ InHand' = 0
    BY <2>3 DEF InHand, Free
  <2>5. call[h] = "get" /\ used = 0 /\ halted[h] # "dead" /\ Q # None
    BY <1>f, <1>r, <2>2, <2>3, <2>4
  <2>6. Chan = <<>> /\ Chan' = Chan
    BY <1>0, <1>c, <2>3, <2>4, <2>5, ChanIsRing, RingEmpty
  <2>7. /\ pendedOn'[h] = None
        /\ \A u \in Threads : u # h => pendedOn'[u] = pendedOn[u]
    BY <1>0, <2>3 DEF PendTypeOK
  <2>8. \A u \in Threads : u # h => (Woken(u)' <=> Woken(u)) /\ (Served(u)' <=> Served(u))
    BY <2>3, <2>7 DEF Woken, Served, Free
  <2>9. ~Woken(h) /\ ~Served(h) /\ Woken(h)' /\ Served(h)'
    BY <2>2, <2>3, <2>5, <2>7 DEF Woken, Served
  <2>10. /\ Readers' = Readers \ {h} /\ h \in Readers /\ Writers' = Writers /\ Dead' = Dead
    BY <2>2, <2>3, <2>5, <2>7 DEF Readers, Writers, Dead
  <2>11. MsgOf' = MsgOf
    BY <2>3, <2>5, <2>7 DEF MsgOf
  <2>12. Accepted' = Accepted /\ RefusedSet' = RefusedSet
    BY <2>3, <2>5, <2>8, <2>9 DEF Accepted, RefusedSet
  <2>13. Inbox' = [Inbox EXCEPT ![h] = m]
    BY <2>3, <2>5, <2>8, <2>9 DEF Inbox, Free
  <2>14. Abs!Deliver(h, m)
    BY <2>3, <2>6, <2>10, <2>11, <2>12, <2>13
       DEF Abs!Deliver, Chan, Readers, Writers, MsgOf, Inbox, Accepted, RefusedSet, Dead
  <2>15. QED
    BY <2>14 DEF Abs!AbsNext
<1>3. CASE \E t \in Threads, m \in Msgs, forever \in BOOLEAN : PutPend(t, m, forever)
  <2>1. PICK t \in Threads, m \in Msgs, forever \in BOOLEAN : PutPend(t, m, forever)
    BY <1>3
  <2>2. /\ sec = Free /\ used = MaxMsgs /\ runnable[t] /\ call[t] = "idle"
        /\ call' = [call EXCEPT ![t] = "put"] /\ data' = [data EXCEPT ![t] = m]
        /\ pendedOn' = [pendedOn EXCEPT ![t] = Q]
        /\ swapRet' = [swapRet EXCEPT ![t] = "EAGAIN"]
        /\ UNCHANGED <<buf, rd, wr, used, sec, out, halted>>
    BY <2>1 DEF PutPend, Unlocked, ringVars, PendCurr
  <2>3. pendedOn[t] = None /\ halted[t] = "no" /\ Q # None
    BY <1>0, <2>2 DEF RunnableIsFree
  <2>4. InHand = 0 /\ InHand' = 0
    BY <2>2 DEF InHand, Free
  <2>5. Chan' = Chan /\ Len(Chan) = MaxMsgs
    BY <1>0, <1>c, <2>2, <2>4, ChanIsRing
  <2>6. /\ pendedOn'[t] = Q /\ call'[t] = "put" /\ data'[t] = m
        /\ \A u \in Threads : u # t =>
             /\ pendedOn'[u] = pendedOn[u] /\ call'[u] = call[u]
             /\ data'[u] = data[u] /\ swapRet'[u] = swapRet[u]
    BY <1>0, <2>2 DEF PendTypeOK, MTypeOK
  <2>7. \A u \in Threads : u # t => (Woken(u)' <=> Woken(u)) /\ (Served(u)' <=> Served(u))
    BY <2>2, <2>6 DEF Woken, Served, Free
  <2>8. ~Woken(t) /\ ~Served(t) /\ ~Woken(t)' /\ ~Served(t)'
    BY <2>2, <2>3, <2>6 DEF Woken, Served
  <2>9. /\ Writers' = Writers \cup {t} /\ Readers' = Readers /\ Dead' = Dead
        /\ t \notin Writers \cup Readers \cup Dead
    BY <2>2, <2>3, <2>6 DEF Readers, Writers, Dead
  <2>10. MsgOf' = [MsgOf EXCEPT ![t] = m]
    BY <2>6 DEF MsgOf
  <2>11. Inbox' = Inbox /\ Inbox[t] = None
    BY <2>2, <2>6, <2>7, <2>8 DEF Inbox
  <2>12. /\ Accepted' = Accepted /\ RefusedSet' = RefusedSet
         /\ t \notin Accepted \cup RefusedSet
    BY <2>6, <2>7, <2>8 DEF Accepted, RefusedSet
  <2>13. Abs!WaitToPut(t, m)
    BY <2>2, <2>5, <2>9, <2>10, <2>11, <2>12
       DEF Abs!WaitToPut, Abs!Away, Chan, Readers, Writers, MsgOf, Inbox, Accepted,
           RefusedSet, Dead
  <2>14. QED
    BY <2>13 DEF Abs!AbsNext
<1>4. CASE GetTake
  <2>1. /\ sec = Free /\ used > 0 /\ waitq[Q] = <<>> /\ out' = buf[rd]
        /\ rd' = Advance(rd) /\ used' = used - 1 /\ buf' = buf
        /\ UNCHANGED <<pendedOn, swapRet, call, data, sec, halted>>
    BY <1>4 DEF GetTake, Unlocked, pendVars
  <2>2. InHand = 0 /\ InHand' = 0
    BY <2>1 DEF InHand, Free
  <2>3. PICK n \in 1..MaxMsgs : n = used
    BY <1>r, <2>1
  <2>4. Chan = Ring(buf, rd, n) /\ Chan' = Ring(buf, Advance(rd), n - 1)
    BY <1>0, <1>m, <2>1, <2>2, <2>3, ChanIsRing
  <2>5. Chan # <<>> /\ out' = Head(Chan) /\ Chan' = Tail(Chan)
    BY <1>r, <2>1, <2>4, RingTail
  <2>6. Abs!Get
    BY <1>e, <1>u, <2>1, <2>5
       DEF Abs!Get, Chan, Readers, Writers, MsgOf, Inbox, Accepted, RefusedSet, Dead
  <2>7. QED
    BY <2>6 DEF Abs!AbsNext
<1>5. CASE GetUnpend
  <2>1. PICK h \in Threads : h = Head(waitq[Q]) /\ pendedOn[h] = Q
    BY <1>0, <1>5, HeadFacts DEF GetUnpend, UnpendFirst
  <2>2. /\ sec = Free /\ used > 0 /\ out' = buf[rd]
        /\ rd' = Advance(rd) /\ used' = used - 1
        /\ sec' = [op |-> "get", th |-> h, st |-> "unpended", m |-> None]
        /\ pendedOn' = [pendedOn EXCEPT ![h] = None]
        /\ UNCHANGED <<buf, wr, swapRet, call, data, halted>>
    BY <1>5, <2>1 DEF GetUnpend, UnpendFirst, Unlocked
  <2>3. InHand = 0 /\ InHand' = 1
    BY <2>2 DEF InHand, Free
  <2>4. PICK n \in 1..MaxMsgs : n = used /\ n # 0
    BY <1>r, <2>2
  <2>5. call[h] = "put" /\ data[h] \in Msgs /\ halted[h] # "dead" /\ Q # None
    BY <1>f, <2>1, <2>4
  <2>6. Chan = Ring(buf, rd, n)
    BY <1>0, <2>3, <2>4, ChanIsRing
  <2>7. Chan # <<>> /\ out' = Head(Chan) /\ Tail(Chan) = Ring(buf, Advance(rd), n - 1)
    BY <1>r, <2>2, <2>6, RingTail
  <2>8. PICK s \in Seq(Msgs \cup {None}) : s = Ring(buf', rd', used')
    BY <1>n, RingIsSeq DEF MTypeOK, IsBuffer
  <2>9. s = Tail(Chan)
    BY <2>2, <2>4, <2>7, <2>8
  <2>10. Content' = s /\ Moving' = <<data[h]>>
    BY <2>2, <2>8 DEF Content, Ring, Moving
  <2>11. Chan' = Append(Tail(Chan), data[h])
    <3>1. s \o <<data[h]>> = Append(s, data[h])
      BY <2>5
    <3>2. QED
      BY <2>9, <2>10, <3>1 DEF Chan
  <2>12. /\ pendedOn'[h] = None
         /\ \A u \in Threads : u # h => pendedOn'[u] = pendedOn[u]
    BY <1>0, <2>2 DEF PendTypeOK
  <2>13. \A u \in Threads : u # h => (Woken(u)' <=> Woken(u)) /\ (Served(u)' <=> Served(u))
    BY <2>2, <2>12 DEF Woken, Served, Free
  <2>14. ~Woken(h) /\ ~Served(h) /\ Woken(h)' /\ Served(h)'
    BY <2>1, <2>2, <2>5, <2>12 DEF Woken, Served
  <2>15. /\ Writers' = Writers \ {h} /\ h \in Writers /\ Readers' = Readers /\ Dead' = Dead
    BY <2>1, <2>2, <2>5, <2>12 DEF Readers, Writers, Dead
  <2>16. MsgOf' = [MsgOf EXCEPT ![h] = None] /\ MsgOf[h] = data[h]
    BY <2>1, <2>2, <2>5, <2>12 DEF MsgOf
  <2>17. Accepted' = Accepted \cup {h} /\ RefusedSet' = RefusedSet
    BY <2>2, <2>5, <2>13, <2>14 DEF Accepted, RefusedSet
  <2>18. Inbox' = Inbox
    BY <2>2, <2>5, <2>13, <2>14 DEF Inbox, Free
  <2>19. Chan' = Append(Tail(Chan), MsgOf[h])
    BY <2>11, <2>16
  <2>20. Abs!GetAndAccept(h)
    BY <2>7, <2>15, <2>16, <2>17, <2>18, <2>19
       DEF Abs!GetAndAccept, Chan, Readers, Writers, MsgOf, Inbox, Accepted,
           RefusedSet, Dead
  <2>21. QED
    BY <2>20 DEF Abs!AbsNext
<1>6. CASE \E t \in Threads, forever \in BOOLEAN : GetPend(t, forever)
  <2>1. PICK t \in Threads, forever \in BOOLEAN : GetPend(t, forever)
    BY <1>6
  <2>2. /\ sec = Free /\ used = 0 /\ runnable[t] /\ call[t] = "idle"
        /\ call' = [call EXCEPT ![t] = "get"] /\ data' = [data EXCEPT ![t] = None]
        /\ pendedOn' = [pendedOn EXCEPT ![t] = Q]
        /\ swapRet' = [swapRet EXCEPT ![t] = "EAGAIN"]
        /\ UNCHANGED <<buf, rd, wr, used, sec, out, halted>>
    BY <2>1 DEF GetPend, Unlocked, ringVars, PendCurr
  <2>3. pendedOn[t] = None /\ halted[t] = "no" /\ Q # None
    BY <1>0, <2>2 DEF RunnableIsFree
  <2>4. InHand = 0 /\ InHand' = 0
    BY <2>2 DEF InHand, Free
  <2>5. Chan' = Chan /\ Chan = <<>>
    BY <1>0, <1>c, <2>2, <2>4, ChanIsRing, RingEmpty
  <2>6. /\ pendedOn'[t] = Q /\ call'[t] = "get"
        /\ \A u \in Threads : u # t =>
             /\ pendedOn'[u] = pendedOn[u] /\ call'[u] = call[u]
             /\ data'[u] = data[u] /\ swapRet'[u] = swapRet[u]
    BY <1>0, <2>2 DEF PendTypeOK, MTypeOK
  <2>7. \A u \in Threads : u # t => (Woken(u)' <=> Woken(u)) /\ (Served(u)' <=> Served(u))
    BY <2>2, <2>6 DEF Woken, Served, Free
  <2>8. ~Woken(t) /\ ~Served(t) /\ ~Woken(t)' /\ ~Served(t)'
    BY <2>2, <2>3, <2>6 DEF Woken, Served
  <2>9. /\ Readers' = Readers \cup {t} /\ Writers' = Writers /\ Dead' = Dead
        /\ t \notin Writers \cup Readers \cup Dead
    BY <2>2, <2>3, <2>6 DEF Readers, Writers, Dead
  <2>10. MsgOf' = MsgOf
    BY <2>3, <2>6 DEF MsgOf
  <2>11. Inbox' = Inbox /\ Inbox[t] = None
    BY <2>2, <2>6, <2>7, <2>8 DEF Inbox
  <2>12. /\ Accepted' = Accepted /\ RefusedSet' = RefusedSet
         /\ t \notin Accepted \cup RefusedSet
    BY <2>6, <2>7, <2>8 DEF Accepted, RefusedSet
  <2>13. Abs!WaitToGet(t)
    BY <2>2, <2>5, <2>9, <2>10, <2>11, <2>12
       DEF Abs!WaitToGet, Abs!Away, Chan, Readers, Writers, MsgOf, Inbox, Accepted,
           RefusedSet, Dead
  <2>14. QED
    BY <2>13 DEF Abs!AbsNext
<1>7. CASE PurgeUnpend
  <2>1. PICK h \in Threads : h = Head(waitq[Q]) /\ pendedOn[h] = Q
    BY <1>0, <1>7, HeadFacts DEF PurgeUnpend, UnpendFirst
  <2>2. /\ sec.op \notin {"put", "get"}
        /\ sec' = [op |-> "purge", th |-> h, st |-> "unpended", m |-> None]
        /\ pendedOn' = [pendedOn EXCEPT ![h] = None]
        /\ UNCHANGED <<buf, rd, wr, used, swapRet, call, data, halted, out>>
    BY <1>7, <2>1 DEF PurgeUnpend, UnpendFirst, Unlocked, ringVars, Free
  <2>3. /\ pendedOn'[h] = None
        /\ \A u \in Threads : u # h => pendedOn'[u] = pendedOn[u]
    BY <1>0, <2>2 DEF PendTypeOK
  <2>4. InHand = 0 /\ InHand' = 0
    BY <2>2 DEF InHand
  <2>5. Chan' = Chan
    BY <1>c, <2>2, <2>4
  <2>6. QED
    BY <1>w, <2>1, <2>2, <2>3, <2>5
<1>8. CASE PurgeDone
  <2>1. /\ waitq[Q] = <<>> /\ used' = 0 /\ sec' = Free
        /\ sec.st = "none" /\ UNCHANGED <<pendedOn, swapRet, call, data, halted, out>>
    BY <1>8 DEF PurgeDone, pendVars, Unlocked, Free
  <2>2. InHand' = 0
    BY <2>1 DEF InHand, Free
  <2>3. Chan' = <<>>
    BY <1>m, <2>1, <2>2, RingEmpty
  <2>4. \A t \in Threads : (Woken(t)' <=> Woken(t)) /\ (Served(t)' <=> Served(t))
    BY <2>1 DEF Woken, Served, Free
  <2>5. Readers' = Readers /\ Writers' = Writers /\ MsgOf' = MsgOf /\ Dead' = Dead
    BY <2>1 DEF Readers, Writers, MsgOf, Dead
  <2>6. Inbox' = Inbox
    BY <2>1, <2>4 DEF Inbox, Free
  <2>7. Accepted' = Accepted /\ RefusedSet' = RefusedSet
    BY <2>1, <2>4 DEF Accepted, RefusedSet
  <2>8. Readers \cup Writers = {}
    BY <1>e, <2>1
  <2>9. Abs!Purge
    BY <2>1, <2>3, <2>5, <2>6, <2>7, <2>8
       DEF Abs!Purge, Chan, Readers, Writers, MsgOf, Inbox, Accepted, RefusedSet, Dead
  <2>10. QED
    BY <2>9 DEF Abs!AbsNext
<1>9. CASE StorePut
  <2>1. PICK h \in Threads : h = sec.th
    BY <1>0, <1>9 DEF StorePut, SectionOK
  <2>2. /\ sec.op = "put" /\ sec.st = "unpended" /\ sec' = [sec EXCEPT !.st = "set"]
        /\ data' = [data EXCEPT ![h] = sec.m] /\ swapRet' = [swapRet EXCEPT ![h] = "0"]
        /\ UNCHANGED <<buf, rd, wr, used, call, pendedOn, halted, out>>
    BY <1>9, <2>1 DEF StorePut, SetRetval, ringVars
  <2>3. sec'.op = "put" /\ sec'.th = h /\ sec'.st = "set"
    BY <1>0, <2>1, <2>2 DEF MTypeOK
  <2>4. /\ pendedOn[h] = None /\ call[h] = "get" /\ halted[h] # "dead"
        /\ swapRet[h] = "EAGAIN" /\ Q # None
    BY <2>1, <2>2 DEF OneCpuInv
  <2>5. /\ data'[h] = sec.m /\ swapRet'[h] = "0"
        /\ \A u \in Threads : u # h => data'[u] = data[u] /\ swapRet'[u] = swapRet[u]
    BY <1>0, <2>2 DEF MTypeOK, PendTypeOK
  <2>6. \A u \in Threads : u # h => (Woken(u)' <=> Woken(u)) /\ (Served(u)' <=> Served(u))
    BY <2>1, <2>2, <2>3, <2>5 DEF Woken, Served
  <2>7. Woken(h) /\ Served(h) /\ Woken(h)' /\ Served(h)'
    BY <2>1, <2>2, <2>4, <2>5 DEF Woken, Served
  <2>8. Readers' = Readers /\ Writers' = Writers /\ Dead' = Dead
    BY <2>2 DEF Readers, Writers, Dead
  <2>9. MsgOf' = MsgOf
    BY <2>2, <2>4, <2>5 DEF MsgOf
  <2>10. Inbox' = Inbox
    <3>1. \A u \in Threads :
            (IF Served(u)' /\ call'[u] = "get"
             THEN IF sec'.op = "put" /\ sec'.th = u /\ sec'.st = "unpended"
                  THEN sec'.m ELSE data'[u]
             ELSE None)
            = (IF Served(u) /\ call[u] = "get"
               THEN IF sec.op = "put" /\ sec.th = u /\ sec.st = "unpended"
                    THEN sec.m ELSE data[u]
               ELSE None)
      BY <2>1, <2>2, <2>3, <2>4, <2>5, <2>6, <2>7
    <3>2. QED
      BY <3>1 DEF Inbox
  <2>11. Accepted' = Accepted /\ RefusedSet' = RefusedSet
    BY <2>2, <2>6, <2>7 DEF Accepted, RefusedSet
  <2>12. InHand = 0 /\ InHand' = 0
    BY <2>2, <2>3 DEF InHand
  <2>13. QED
    BY <1>c, <1>s, <2>2, <2>8, <2>9, <2>10, <2>11, <2>12
<1>10. CASE StoreGet
  <2>1. PICK h \in Threads : h = sec.th
    BY <1>0, <1>10 DEF StoreGet, SectionOK
  <2>2. /\ sec.op = "get" /\ sec.st = "unpended" /\ sec' = [sec EXCEPT !.st = "set"]
        /\ buf' = [buf EXCEPT ![wr] = data[h]] /\ used' = used + 1 /\ rd' = rd
        /\ swapRet' = [swapRet EXCEPT ![h] = "0"]
        /\ UNCHANGED <<call, data, pendedOn, halted, out>>
    BY <1>10, <2>1 DEF StoreGet, SetRetval
  <2>3. sec'.op = "get" /\ sec'.th = h /\ sec'.st = "set"
    BY <1>0, <2>1, <2>2 DEF MTypeOK
  <2>4. /\ pendedOn[h] = None /\ call[h] = "put" /\ halted[h] # "dead"
        /\ swapRet[h] = "EAGAIN" /\ data[h] \in Msgs
    BY <2>1, <2>2 DEF OneCpuInv
  <2>5. /\ swapRet'[h] = "0"
        /\ \A u \in Threads : u # h => swapRet'[u] = swapRet[u]
    BY <1>0, <2>2 DEF PendTypeOK
  <2>6. \A u \in Threads : u # h => (Woken(u)' <=> Woken(u)) /\ (Served(u)' <=> Served(u))
    BY <2>1, <2>2, <2>3, <2>5 DEF Woken, Served
  <2>7. Woken(h) /\ Served(h) /\ Woken(h)' /\ Served(h)'
    BY <2>1, <2>2, <2>4, <2>5 DEF Woken, Served
  <2>8. Readers' = Readers /\ Writers' = Writers /\ MsgOf' = MsgOf /\ Dead' = Dead
    BY <2>2 DEF Readers, Writers, MsgOf, Dead
  <2>9. Inbox' = Inbox
    BY <2>2, <2>3, <2>6, <2>7 DEF Inbox
  <2>10. Accepted' = Accepted /\ RefusedSet' = RefusedSet
    BY <2>2, <2>6, <2>7 DEF Accepted, RefusedSet
  <2>11. InHand = 1 /\ InHand' = 0
    BY <2>2, <2>3 DEF InHand
  <2>12. used + 1 \in 0..MaxMsgs
    BY <1>n, <2>2 DEF MTypeOK
  <2>13. PICK n \in 0..(MaxMsgs - 1) : n = used
    BY <1>r, <2>12
  <2>14. Chan = Append(Ring(buf, rd, n), data[h])
    BY <1>0, <2>1, <2>4, <2>11, <2>13, ChanMoving
  <2>15. buf' = [buf EXCEPT ![(rd + n) % MaxMsgs] = data[h]]
    BY <1>0, <2>2, <2>13 DEF RingConsistent
  <2>16. Ring(buf', rd, n + 1) = Append(Ring(buf, rd, n), data[h])
    <3>1. data[h] \in Msgs \cup {None} /\ IsBuffer(buf) /\ rd \in 0..(MaxMsgs - 1)
      BY <1>r, <2>4
    <3>2. Ring([buf EXCEPT ![(rd + n) % MaxMsgs] = data[h]], rd, n + 1)
            = Append(Ring(buf, rd, n), data[h])
      BY <3>1, RingAppend, Zenon
    <3>3. QED
      BY <2>15, <3>2
  <2>17. Chan' = Ring(buf', rd, n + 1)
    BY <1>m, <2>2, <2>11, <2>13
  <2>18. QED
    BY <1>s, <2>2, <2>8, <2>9, <2>10, <2>14, <2>16, <2>17
<1>11. CASE StorePurge
  <2>1. PICK h \in Threads : h = sec.th
    BY <1>0, <1>11 DEF StorePurge, SectionOK
  <2>2. /\ sec.op = "purge" /\ sec.st = "unpended" /\ sec' = [sec EXCEPT !.st = "set"]
        /\ swapRet' = [swapRet EXCEPT ![h] = "ENOMSG"]
        /\ UNCHANGED <<buf, rd, wr, used, call, data, pendedOn, halted, out>>
    BY <1>11, <2>1 DEF StorePurge, SetRetval, ringVars
  <2>3. sec'.op = "purge" /\ swapRet[h] = "EAGAIN"
    BY <1>0, <2>1, <2>2 DEF MTypeOK, OneCpuInv
  <2>4. \A u \in Threads : swapRet'[u] = "0" <=> swapRet[u] = "0"
    BY <1>0, <2>2, <2>3 DEF PendTypeOK
  <2>5. \A u \in Threads : (Woken(u)' <=> Woken(u)) /\ (Served(u)' <=> Served(u))
    BY <2>2, <2>3, <2>4 DEF Woken, Served
  <2>6. Readers' = Readers /\ Writers' = Writers /\ MsgOf' = MsgOf /\ Dead' = Dead
    BY <2>2 DEF Readers, Writers, MsgOf, Dead
  <2>7. Inbox' = Inbox
    BY <2>2, <2>3, <2>5 DEF Inbox
  <2>8. Accepted' = Accepted /\ RefusedSet' = RefusedSet
    BY <2>2, <2>5 DEF Accepted, RefusedSet
  <2>9. InHand = 0 /\ InHand' = 0
    BY <2>2, <2>3 DEF InHand
  <2>10. QED
    BY <1>c, <1>s, <2>2, <2>6, <2>7, <2>8, <2>9
<1>12. CASE ReadyWoken
  <2>1. /\ UNCHANGED <<buf, rd, wr, used, swapRet, call, data, pendedOn, halted, out>>
        /\ sec.st = "set" /\ sec'.st = "none"
    BY <1>12 DEF ReadyWoken, ReadyThread, ringVars, Free
  <2>2. \A u \in Threads : (Woken(u)' <=> Woken(u)) /\ (Served(u)' <=> Served(u))
    BY <2>1 DEF Woken, Served
  <2>3. Readers' = Readers /\ Writers' = Writers /\ MsgOf' = MsgOf /\ Dead' = Dead
    BY <2>1 DEF Readers, Writers, MsgOf, Dead
  <2>4. Inbox' = Inbox
    BY <2>1, <2>2 DEF Inbox
  <2>5. Accepted' = Accepted /\ RefusedSet' = RefusedSet
    BY <2>1, <2>2 DEF Accepted, RefusedSet
  <2>6. InHand = 0 /\ InHand' = 0
    BY <2>1 DEF InHand
  <2>7. QED
    BY <1>c, <1>s, <2>1, <2>3, <2>4, <2>5, <2>6
<1>13. CASE \E t \in Threads : CallReturn(t)
  <2>1. PICK t \in Threads : CallReturn(t)
    BY <1>13
  <2>2. /\ sec = Free /\ sec' = sec /\ runnable[t] /\ call[t] # "idle"
        /\ call' = [call EXCEPT ![t] = "idle"] /\ data' = [data EXCEPT ![t] = None]
        /\ out' = IF call[t] = "get" /\ swapRet[t] = "0" THEN data[t] ELSE out
        /\ UNCHANGED <<buf, rd, wr, used, swapRet, pendedOn, halted>>
    BY <2>1 DEF CallReturn, Others, Unlocked, pendVars, ringVars
  <2>3. pendedOn[t] = None /\ halted[t] = "no" /\ Q # None
    BY <1>0, <2>2 DEF RunnableIsFree
  <2>4. /\ call'[t] = "idle"
        /\ \A u \in Threads : u # t => call'[u] = call[u] /\ data'[u] = data[u]
    BY <1>0, <2>2 DEF MTypeOK
  <2>5. \A u \in Threads : u # t => (Woken(u)' <=> Woken(u)) /\ (Served(u)' <=> Served(u))
    BY <2>2, <2>4 DEF Woken, Served
  <2>6. Woken(t) /\ (Served(t) <=> swapRet[t] = "0") /\ ~Woken(t)' /\ ~Served(t)'
    BY <2>2, <2>3, <2>4 DEF Woken, Served, Free
  <2>7. Readers' = Readers /\ Writers' = Writers /\ Dead' = Dead
    BY <2>2, <2>3, <2>4 DEF Readers, Writers, Dead
  <2>8. MsgOf' = MsgOf
    BY <2>2, <2>3, <2>4 DEF MsgOf
  <2>9. Inbox' = [Inbox EXCEPT ![t] = None]
    BY <2>2, <2>4, <2>5, <2>6 DEF Inbox
  <2>10. Accepted' = Accepted \ {t} /\ RefusedSet' = RefusedSet \ {t}
    BY <2>4, <2>5, <2>6 DEF Accepted, RefusedSet
  <2>11. InHand = 0 /\ InHand' = 0
    BY <2>2 DEF InHand, Free
  <2>12. Chan' = Chan
    BY <1>c, <2>2, <2>11
  <2>13. \/ Inbox[t] # None /\ out' = Inbox[t]
         \/ t \in Accepted \cup RefusedSet /\ out' = out
    <3>1. CASE call[t] = "get" /\ swapRet[t] = "0"
      <4>1. data[t] \in Msgs
        BY <3>1 DEF OneCpuInv
      <4>2. Inbox[t] = data[t]
        BY <2>2, <2>6, <3>1 DEF Inbox, Free
      <4>3. QED
        BY <2>2, <3>1, <4>1, <4>2
    <3>2. CASE call[t] = "put" /\ swapRet[t] = "0"
      BY <2>2, <2>6, <3>2 DEF Accepted
    <3>3. CASE swapRet[t] # "0"
      BY <2>2, <2>6, <3>3 DEF RefusedSet
    <3>4. QED
      BY <1>0, <2>2, <3>1, <3>2, <3>3 DEF MTypeOK
  <2>14. Abs!Return(t)
    BY <2>7, <2>8, <2>9, <2>10, <2>12, <2>13
       DEF Abs!Return, Chan, Readers, Writers, MsgOf, Inbox, Accepted, RefusedSet, Dead
  <2>15. QED
    BY <2>14 DEF Abs!AbsNext
<1>14. CASE Environment
  <2>0. /\ UNCHANGED <<buf, rd, wr, used, sec, call, data, out>> /\ sec = Free
        /\ sec.op \notin {"put", "get"} /\ sec'.op \notin {"put", "get"}
    BY <1>14 DEF Environment, msgVars, ringVars, Others, Unlocked, Free
  <2>1. InHand = 0 /\ InHand' = 0
    BY <2>0 DEF InHand
  <2>2. Chan' = Chan
    BY <1>c, <2>0, <2>1
  <2>3. CASE ThreadTimeout
    <3>1. PICK h \in Threads : h = firing
      BY <1>0, <2>3 DEF ThreadTimeout, PendTypeOK
    <3>2. UNCHANGED swapRet
      BY <2>3 DEF ThreadTimeout
    <3>3. CASE halted[h] = "dead"
      BY <1>s, <1>u, <2>0, <2>2, <2>3, <3>1, <3>2, <3>3 DEF ThreadTimeout
    <3>4. CASE halted[h] # "dead"
      <4>1. UnpendNoTimeout(h) /\ halted' = [halted EXCEPT ![h] = "no"]
        BY <2>3, <3>1, <3>4 DEF ThreadTimeout
      <4>2. /\ pendedOn' \in [Threads -> WaitQs \cup {None}] /\ pendedOn'[h] = None
            /\ \A u \in Threads : u # h => pendedOn'[u] = pendedOn[u]
        BY <1>0, <4>1, UnpendNoTimeoutMatch
      <4>3. \A t \in Threads : halted'[t] = "dead" <=> halted[t] = "dead"
        BY <1>0, <3>4, <4>1 DEF PendTypeOK
      <4>4. CASE pendedOn[h] = None
        <5>1. pendedOn' = pendedOn
          BY <1>0, <4>2, <4>4 DEF PendTypeOK
        <5>2. QED
          BY <1>s, <1>u, <2>0, <2>2, <3>2, <4>3, <5>1
      <4>5. CASE pendedOn[h] # None
        BY <1>w, <2>0, <2>2, <3>2, <4>2, <4>3, <4>5
      <4>6. QED
        BY <4>4, <4>5
    <3>5. QED
      BY <3>3, <3>4
  <2>4. CASE ~ThreadTimeout
    <3>1. UNCHANGED <<pendedOn, swapRet>>
      BY <1>14, <2>4
         DEF Environment, Outside, Expire, PrioSet, SuspendAbortTimeout, Suspend, Resume
    <3>2. \A t \in Threads : halted'[t] = "dead" <=> halted[t] = "dead"
      BY <1>0, <1>14, <2>4
         DEF Environment, Outside, Expire, PrioSet, SuspendAbortTimeout, Suspend,
             Resume, PendTypeOK
    <3>3. QED
      BY <1>s, <1>u, <2>0, <2>2, <3>1, <3>2
  <2>5. QED
    BY <2>3, <2>4
<1>15. CASE \E t \in Victims : AbortThread(t)
  <2>1. PICK t \in Threads : AbortThread(t)
    BY <1>15
  <2>2. /\ halted' = [halted EXCEPT ![t] = "dead"] /\ halted[t] # "dead"
        /\ UnpendNoTimeout(t) /\ sec = Free
        /\ UNCHANGED <<buf, rd, wr, used, sec, call, data, out, swapRet>>
    BY <2>1 DEF AbortThread, Abort, msgVars, ringVars, Others, Unlocked
  <2>3. /\ pendedOn'[t] = None /\ Q # None
        /\ \A u \in Threads : u # t => pendedOn'[u] = pendedOn[u]
    BY <1>0, <2>2, UnpendNoTimeoutMatch
  <2>4. halted'[t] = "dead" /\ \A u \in Threads : u # t => halted'[u] = halted[u]
    BY <1>0, <2>2 DEF PendTypeOK
  <2>5. InHand = 0 /\ InHand' = 0
    BY <2>2 DEF InHand, Free
  <2>6. Chan' = Chan
    BY <1>c, <2>2, <2>5
  <2>7. \A u \in Threads : u # t => (Woken(u)' <=> Woken(u)) /\ (Served(u)' <=> Served(u))
    BY <2>2, <2>3, <2>4 DEF Woken, Served
  <2>8. ~Woken(t)' /\ ~Served(t)'
    BY <2>4 DEF Woken, Served
  <2>9. /\ Readers' = Readers \ {t} /\ Writers' = Writers \ {t}
        /\ Dead' = Dead \cup {t} /\ t \notin Dead
    BY <2>2, <2>3, <2>4 DEF Readers, Writers, Dead
  <2>10. MsgOf' = [MsgOf EXCEPT ![t] = None]
    BY <2>2, <2>3 DEF MsgOf
  <2>11. Inbox' = [Inbox EXCEPT ![t] = None]
    BY <2>2, <2>7, <2>8 DEF Inbox
  <2>12. Accepted' = Accepted \ {t} /\ RefusedSet' = RefusedSet \ {t}
    BY <2>2, <2>7, <2>8 DEF Accepted, RefusedSet
  <2>13. Abs!Kill(t)
    BY <2>2, <2>6, <2>9, <2>10, <2>11, <2>12
       DEF Abs!Kill, Chan, Readers, Writers, MsgOf, Inbox, Accepted, RefusedSet, Dead
  <2>14. QED
    BY <2>13 DEF Abs!AbsNext
<1>16. CASE UNCHANGED vars
  <2>1. /\ UNCHANGED <<pendedOn, swapRet, call, data, sec, halted, out>>
        /\ UNCHANGED <<buf, rd, used>>
    BY <1>16 DEF vars, pendVars, msgVars, ringVars
  <2>2. Chan' = Chan
    BY <2>1 DEF Chan, Content, Moving
  <2>3. QED
    BY <1>s, <1>u, <2>1, <2>2
<1>17. QED
  BY <1>1, <1>2, <1>3, <1>4, <1>5, <1>6, <1>7, <1>8, <1>9, <1>10, <1>11, <1>12,
     <1>13, <1>14, <1>15, <1>16 DEF MNext

(* On one CPU the message queue of msg_q.c implements a bounded FIFO: each *)
(* message that was put is delivered once and in order, a waiting thread   *)
(* leaves with its message passed on or with nothing done, and readers     *)
(* and writers wait only when they must, for any capacity and any number   *)
(* of threads.                                                             *)
THEOREM MsgImplementsAbs ==
  ASSUME ~SMP
  PROVE  MSpec => ImplementsMsgQAbs
<1>1. MsgInv /\ OneCpuInv /\ [MNext]_vars => [Abs!AbsNext]_(Abs!absVars)
  BY MsgRefinementStep
<1>2. OneCpuInv /\ MsgInv /\ [MNext]_vars => OneCpuInv'
  BY OneCpuNext
<1>3. MsgInv /\ [MNext]_vars => MsgInv'
  BY MsgNextInv
<1>4. QED
  BY <1>1, <1>2, <1>3, MsgInitInv, OneCpuInit, MsgRefinementInit, PTL
     DEF MSpec, ImplementsMsgQAbs, Abs!AbsSpec

=============================================================================
