-------------------------------- MODULE MsgQ --------------------------------
(***************************************************************************)
(* The message queue of kernel/msg_q.c: a ring buffer, and ONE wait queue  *)
(* for the readers of an empty queue and the writers of a full one.  Put   *)
(* hands a message straight to the first waiting thread, taking it for a   *)
(* reader; get moves the first waiting thread's message into the ring,     *)
(* taking it for a writer.  Both hold the queue's spinlock over several    *)
(* sections under _sched_spinlock.                                         *)
(***************************************************************************)
EXTENDS Pend

CONSTANTS Q,         \* the message queue's wait queue
          MaxMsgs,   \* max_msgs
          Msgs       \* messages

ASSUME MsgQAssumption ==
  /\ WaitQs = {Q}
  /\ MaxMsgs \in Nat \ {0}
  /\ None \notin Msgs

VARIABLES buf,       \* the ring buffer; index 0 is buffer_start
          rd, wr,    \* read_ptr and write_ptr, in messages
          used,      \* used_msgs
          sec,       \* the critical section in progress under the lock
          call,      \* the blocking call each thread is in
          data,      \* what base.swap_data points to: a writer's message, or
                     \* a reader's buffer
          out        \* the last message returned by a get

ringVars == <<buf, rd, wr, used>>
msgVars == <<ringVars, sec, call, data, out>>
vars == <<pendVars, msgVars>>

Free == [op |-> "free", th |-> None, st |-> "none", m |-> None]

MTypeOK ==
  /\ PendTypeOK
  /\ buf \in [0..(MaxMsgs - 1) -> Msgs \cup {None}]
  /\ rd \in 0..(MaxMsgs - 1) /\ wr \in 0..(MaxMsgs - 1)
  /\ used \in 0..MaxMsgs
  /\ sec \in [op : {"free", "put", "get", "purge"}, th : Threads \cup {None},
              st : {"none", "unpended", "set"}, m : Msgs \cup {None}]
  /\ call \in [Threads -> {"idle", "put", "get"}]
  /\ data \in [Threads -> Msgs \cup {None}]
  /\ out \in Msgs \cup {None}

(* k_msgq_init *)
MInit ==
  /\ PendInit
  /\ buf = [i \in 0..(MaxMsgs - 1) |-> None]
  /\ rd = 0 /\ wr = 0 /\ used = 0
  /\ sec = Free
  /\ call = [t \in Threads |-> "idle"]
  /\ data = [t \in Threads |-> None]
  /\ out = None

Unlocked == sec = Free
Others == SMP \/ Unlocked

(* A pointer past the last message goes back to buffer_start. *)
Advance(i) == IF i + 1 = MaxMsgs THEN 0 ELSE i + 1

-----------------------------------------------------------------------------
(* k_msgq_put with room and nobody waiting *)
PutStore(m) ==
  /\ Unlocked
  /\ used < MaxMsgs
  /\ waitq[Q] = <<>>
  /\ buf' = [buf EXCEPT ![wr] = m]
  /\ wr' = Advance(wr)
  /\ used' = used + 1
  /\ UNCHANGED <<pendVars, rd, sec, call, data, out>>

(* k_msgq_put with room and a thread waiting *)
PutUnpend(m) ==
  /\ Unlocked
  /\ used < MaxMsgs
  /\ UnpendFirst(Q)
  /\ sec' = [op |-> "put", th |-> Head(waitq[Q]), st |-> "unpended", m |-> m]
  /\ UNCHANGED <<ringVars, call, data, out>>

(* k_msgq_put on a full queue, unless K_NO_WAIT (-ENOMSG) *)
PutPend(t, m, forever) ==
  /\ ThreadContext
  /\ Unlocked
  /\ call[t] = "idle" /\ runnable[t]
  /\ used = MaxMsgs
  /\ PendCurr(t, Q, forever)
  /\ call' = [call EXCEPT ![t] = "put"]
  /\ data' = [data EXCEPT ![t] = m]
  /\ UNCHANGED <<ringVars, sec, out>>

(* k_msgq_get with a message and nobody waiting *)
GetTake ==
  /\ Unlocked
  /\ used > 0
  /\ waitq[Q] = <<>>
  /\ out' = buf[rd]
  /\ rd' = Advance(rd)
  /\ used' = used - 1
  /\ UNCHANGED <<pendVars, buf, wr, sec, call, data>>

(* k_msgq_get with a message and a thread waiting *)
GetUnpend ==
  /\ Unlocked
  /\ used > 0
  /\ UnpendFirst(Q)
  /\ out' = buf[rd]
  /\ rd' = Advance(rd)
  /\ used' = used - 1
  /\ sec' = [op |-> "get", th |-> Head(waitq[Q]), st |-> "unpended", m |-> None]
  /\ UNCHANGED <<buf, wr, call, data>>

(* k_msgq_get on an empty queue, unless K_NO_WAIT (-ENOMSG) *)
GetPend(t, forever) ==
  /\ ThreadContext
  /\ Unlocked
  /\ call[t] = "idle" /\ runnable[t]
  /\ used = 0
  /\ PendCurr(t, Q, forever)
  /\ call' = [call EXCEPT ![t] = "get"]
  /\ data' = [data EXCEPT ![t] = None]
  /\ UNCHANGED <<ringVars, sec, out>>

(* k_msgq_purge: one turn of its loop, *)
PurgeUnpend ==
  /\ Unlocked \/ (sec.op = "purge" /\ sec.st = "none")
  /\ UnpendFirst(Q)
  /\ sec' = [op |-> "purge", th |-> Head(waitq[Q]), st |-> "unpended", m |-> None]
  /\ UNCHANGED <<ringVars, call, data, out>>

(* and its end. *)
PurgeDone ==
  /\ Unlocked \/ (sec.op = "purge" /\ sec.st = "none")
  /\ waitq[Q] = <<>>
  /\ used' = 0
  /\ rd' = wr
  /\ sec' = Free
  /\ UNCHANGED <<pendVars, buf, wr, call, data, out>>

-----------------------------------------------------------------------------
(* The unpended thread gets its message (put), gives it (get) or gets      *)
(* -ENOMSG (purge), and its return value is stored.  On several CPUs a     *)
(* reader whose timeout fired in between has left, and the message goes to *)
(* a buffer it no longer looks at.                                         *)
StorePut ==
  /\ sec.op = "put" /\ sec.st = "unpended"
  /\ data' = [data EXCEPT ![sec.th] = sec.m]
  /\ SetRetval(sec.th, "0")
  /\ sec' = [sec EXCEPT !.st = "set"]
  /\ UNCHANGED <<ringVars, call, out>>

(* Mutant of StoreGet: the writer's message is not counted. *)
StoreGetUncounted ==
  /\ sec.op = "get" /\ sec.st = "unpended"
  /\ buf' = [buf EXCEPT ![wr] = data[sec.th]]
  /\ wr' = Advance(wr)
  /\ SetRetval(sec.th, "0")
  /\ sec' = [sec EXCEPT !.st = "set"]
  /\ UNCHANGED <<rd, used, call, data, out>>

StoreGet ==
  /\ sec.op = "get" /\ sec.st = "unpended"
  /\ buf' = [buf EXCEPT ![wr] = data[sec.th]]
  /\ wr' = Advance(wr)
  /\ used' = used + 1
  /\ SetRetval(sec.th, "0")
  /\ sec' = [sec EXCEPT !.st = "set"]
  /\ UNCHANGED <<rd, call, data, out>>

StorePurge ==
  /\ sec.op = "purge" /\ sec.st = "unpended"
  /\ SetRetval(sec.th, "ENOMSG")
  /\ sec' = [sec EXCEPT !.st = "set"]
  /\ UNCHANGED <<ringVars, call, data, out>>

(* z_ready_thread *)
ReadyWoken ==
  /\ sec.st = "set"
  /\ ReadyThread(sec.th)
  /\ sec' = IF sec.op = "purge" THEN [Free EXCEPT !.op = "purge"] ELSE Free
  /\ UNCHANGED <<ringVars, call, data, out>>

(* The blocked call returns. *)
CallReturn(t) ==
  /\ ThreadContext
  /\ Others
  /\ call[t] # "idle"
  /\ runnable[t]
  /\ out' = IF call[t] = "get" /\ swapRet[t] = "0" THEN data[t] ELSE out
  /\ call' = [call EXCEPT ![t] = "idle"]
  /\ data' = [data EXCEPT ![t] = None]
  /\ UNCHANGED <<pendVars, ringVars, sec>>

Environment ==
  /\ Others
  /\ Outside
  /\ UNCHANGED msgVars

AbortThread(t) ==
  /\ Others
  /\ Abort(t)
  /\ UNCHANGED msgVars

MNext ==
  \/ \E m \in Msgs : PutStore(m)
  \/ \E m \in Msgs : PutUnpend(m)
  \/ \E t \in Threads, m \in Msgs, forever \in BOOLEAN : PutPend(t, m, forever)
  \/ GetTake
  \/ GetUnpend
  \/ \E t \in Threads, forever \in BOOLEAN : GetPend(t, forever)
  \/ PurgeUnpend
  \/ PurgeDone
  \/ StorePut
  \/ StoreGet
  \/ StorePurge
  \/ ReadyWoken
  \/ \E t \in Threads : CallReturn(t)
  \/ Environment
  \/ \E t \in Victims : AbortThread(t)

MSpec == MInit /\ [][MNext]_vars

-----------------------------------------------------------------------------
(* k_msgq_peek_at (and with index 0 k_msgq_peek), for an index below       *)
(* used_msgs.                                                              *)
PeekAt(i) ==
  LET toEnd == MaxMsgs - rd
  IN IF toEnd <= i THEN buf[i - toEnd] ELSE buf[rd + i]

(* The messages in the ring, in the order they will be taken. *)
Content == [i \in 1..used |-> buf[(rd + i - 1) % MaxMsgs]]

(* A message a get has taken from a writer and not yet stored. *)
Moving == IF sec.op = "get" /\ sec.st = "unpended" THEN <<data[sec.th]>> ELSE <<>>

Woken(t) == call[t] # "idle" /\ pendedOn[t] = None /\ halted[t] # "dead"

(* The unpended thread counts as served from the moment it left the queue. *)
Served(t) ==
  /\ Woken(t)
  /\ swapRet[t] = "0" \/ (sec.op \in {"put", "get"} /\ sec.th = t
                            /\ sec.st = "unpended")

Abs == INSTANCE MsgQAbs WITH
  chan <- Content \o Moving,
  readers <- {t \in Threads : pendedOn[t] = Q /\ call[t] = "get"},
  writers <- {t \in Threads : pendedOn[t] = Q /\ call[t] = "put"},
  msg <- [t \in Threads |-> IF pendedOn[t] = Q /\ call[t] = "put" THEN data[t]
                            ELSE None],
  inbox <- [t \in Threads |->
              IF Served(t) /\ call[t] = "get"
              THEN IF sec.op = "put" /\ sec.th = t /\ sec.st = "unpended"
                   THEN sec.m ELSE data[t]
              ELSE None],
  accepted <- {t \in Threads : Served(t) /\ call[t] = "put"},
  refused <- {t \in Threads : Woken(t) /\ ~Served(t)},
  dead <- {t \in Threads : halted[t] = "dead"}

(* On one CPU the message queue implements the bounded FIFO. *)
ImplementsMsgQAbs == Abs!AbsSpec

(* The ring's two pointers and its count agree at every step. *)
RingConsistent == wr = (rd + used) % MaxMsgs

(* The one wait queue never mixes readers and writers, so that put never   *)
(* mistakes a writer for a reader nor get a reader for a writer: readers   *)
(* wait only on an empty queue and writers only on a full one.             *)
WaitersMatchFill ==
  \A t \in Threads : pendedOn[t] = Q =>
    /\ call[t] = "get" => used = 0
    /\ call[t] = "put" => used + Len(Moving) = MaxMsgs

(* k_msgq_peek_at's offset arithmetic finds the message get would return   *)
(* after i others.                                                         *)
PeekAtRight == \A i \in 0..(used - 1) : PeekAt(i) = Content[i + 1]

=============================================================================
