------------------------------ MODULE Mailbox -------------------------------
(***************************************************************************)
(* The mailbox of kernel/mailbox.c.  A message goes from one sending to    *)
(* one receiving thread, each of which may name the other.  A synchronous  *)
(* sender sleeps until the receiver has disposed of the message; an        *)
(* asynchronous one leaves a descriptor in its place, which carries a      *)
(* dummy thread (Dummies).                                                 *)
(***************************************************************************)
EXTENDS HandOver

CONSTANTS TxQ, RxQ,  \* mbox->tx_msg_queue and mbox->rx_msg_queue
          NullQ,     \* stands for the wait queue NULL, of which there is no
                     \* list: a sender whose message has been received
          Peers,     \* the threads that others may name
          MboxResume \* senders may be suspended and resumed in the call

ASSUME MboxAssumption ==
  /\ {TxQ, RxQ, NullQ} \subseteq WaitQs
  /\ TxQ # RxQ /\ NullQ \notin {TxQ, RxQ}
  /\ Peers \subseteq Callers
  /\ MboxResume \in BOOLEAN

VARIABLE mb          \* tx, rx: the message descriptors of senders and
                     \* receivers, a receiver's with _syncing_thread (from);
                     \* pc: where the callers are; free: async_msg_free;
                     \* disposed: senders whose message has been disposed of

mboxVars == <<pendVars, handVars, mb>>

Dummies == Threads \ Callers

NoTx == [src |-> None, target |-> None]
NoRx == [source |-> None, now |-> FALSE, from |-> None]

MboxRecord ==
  [tx |-> [s \in Threads |-> NoTx],
   rx |-> [t \in Callers |-> NoRx],
   pc |-> [t \in Callers |-> "idle"],
   free |-> Dummies,
   disposed |-> {}]

(* k_mbox_init and init_mbox_module *)
MboxInit ==
  /\ HInit
  /\ held = {}
  /\ mb = MboxRecord

MboxIdle(t) ==
  /\ ThreadContext /\ Unlocked
  /\ runnable[t] /\ mb.pc[t] = "idle"

(* mbox_message_match; None stands for K_ANY.  What is copied between the  *)
(* descriptors is data, except _syncing_thread.                            *)
Matches(msg, r, source) ==
  /\ msg.target \in {None, r}
  /\ source \in {None, msg.src}

(* The search of mbox_message_put, and of k_mbox_get (0: no match). *)
FirstReceiver(msg) ==
  SelectInSeq(waitq[RxQ], LAMBDA r : Matches(msg, r, mb.rx[r].source))

FirstSender(t, source) ==
  SelectInSeq(waitq[TxQ], LAMBDA s : Matches(mb.tx[s], t, source))

(* k_mbox_put, or k_mbox_async_put with a descriptor s, which it has       *)
(* allocated before it takes the lock: mbox_message_put with a receiver *)
MboxPutMatch(t, s, target) ==
  LET msg == [src |-> t, target |-> target]
      i == FirstReceiver(msg)
      r == waitq[RxQ][i]
  IN /\ MboxIdle(t)
     /\ s \in {t} \cup mb.free
     /\ i # 0
     /\ mb' = [mb EXCEPT !.tx[s] = msg, !.rx[r].from = s,
                         !.pc[t] = "locked", !.free = @ \ {s}]
     /\ sec' = [st |-> "matched", th |-> r, item |-> s]
     /\ UNCHANGED <<pendVars, wanting, data, held>>

MboxUnpend ==
  /\ sec.st \in {"matched", "taken"}
  /\ UnpendNoTimeout(sec.th)
  /\ sec' = [sec EXCEPT !.st = IF @ = "matched" THEN "unpended" ELSE "leaving"]
  /\ UNCHANGED <<prio, timeout, firing, suspending, swapRet, runnable, halted,
                 wanting, data, held, mb>>

(* the rest of z_unpend_thread, and the return value *)
MboxStore ==
  /\ sec.st = "unpended"
  /\ timeout' = [timeout EXCEPT ![sec.th] = FALSE]
  /\ swapRet' = [swapRet EXCEPT ![sec.th] = "0"]
  /\ sec' = [sec EXCEPT !.st = "set"]
  /\ UNCHANGED <<prio, waitq, pendedOn, firing, suspending, runnable, halted,
                 wanting, data, held, mb>>

(* The receiver is made ready before the sender sleeps. *)
MboxReady ==
  LET t == mb.tx[sec.item].src
  IN /\ sec.st = "set"
     /\ ReadyThread(sec.th)
     /\ IF sec.item \in Dummies
        THEN sec' = Free /\ mb' = [mb EXCEPT !.pc[t] = "idle"]
        ELSE sec' = [sec EXCEPT !.st = "pend"] /\ mb' = mb
     /\ UNCHANGED <<wanting, data, held>>

MboxPutPend ==
  /\ sec.st = "pend"
  /\ PendCurr(sec.item, NullQ, TRUE)
  /\ mb' = [mb EXCEPT !.pc[sec.item] = "put"]
  /\ sec' = Free
  /\ UNCHANGED <<wanting, data, held>>

(* and without: the sender, or the descriptor, waits in the queue.         *)
(* (K_NO_WAIT: -ENOMSG.)                                                   *)
MboxPutWait(t, s, target, forever) ==
  LET msg == [src |-> t, target |-> target]
  IN /\ MboxIdle(t)
     /\ s \in {t} \cup mb.free
     /\ FirstReceiver(msg) = 0
     /\ PendCurr(s, TxQ, forever \/ s \in Dummies)
     /\ mb' = [mb EXCEPT !.tx[s] = msg, !.free = @ \ {s},
                         !.pc[t] = IF s = t THEN "put" ELSE @]
     /\ UNCHANGED handVars

MboxPutReturn(t) ==
  /\ ThreadContext /\ Others
  /\ runnable[t] /\ mb.pc[t] = "put"
  /\ mb' = [mb EXCEPT !.pc[t] = "idle", !.disposed = @ \ {t}, !.tx[t] = NoTx]
  /\ UNCHANGED <<pendVars, handVars>>

-----------------------------------------------------------------------------
(* mbox_message_data_check: with a buffer, or an empty message, the        *)
(* message is disposed of now, else when k_mbox_data_get is called.        *)
Received(now) == IF now THEN "dispose" ELSE "holding"

(* k_mbox_get with a sender: it leaves the queue and sleeps on. *)
MboxGetMatch(t, source, now) ==
  LET i == FirstSender(t, source)
      s == waitq[TxQ][i]
  IN /\ MboxIdle(t)
     /\ i # 0
     /\ mb' = [mb EXCEPT !.rx[t] = [source |-> source, now |-> now, from |-> s],
                         !.pc[t] = "locked"]
     /\ sec' = [st |-> "taken", th |-> s, item |-> t]
     /\ UNCHANGED <<pendVars, wanting, data, held>>

MboxGetUnlock ==
  /\ sec.st = "leaving"
  /\ timeout' = [timeout EXCEPT ![sec.th] = FALSE]
  /\ mb' = [mb EXCEPT !.pc[sec.item] = Received(mb.rx[sec.item].now)]
  /\ sec' = Free
  /\ UNCHANGED <<prio, waitq, pendedOn, firing, suspending, swapRet, runnable,
                 halted, wanting, data, held>>

MboxGetWait(t, source, now, forever) ==
  /\ MboxIdle(t)
  /\ FirstSender(t, source) = 0
  /\ PendCurr(t, RxQ, forever)
  /\ mb' = [mb EXCEPT !.rx[t] = [source |-> source, now |-> now, from |-> None],
                      !.pc[t] = "get"]
  /\ UNCHANGED handVars

MboxGetReturn(t) ==
  /\ ThreadContext /\ Others
  /\ runnable[t] /\ mb.pc[t] = "get"
  /\ mb' = IF swapRet[t] = "0"
           THEN [mb EXCEPT !.pc[t] = Received(mb.rx[t].now)]
           ELSE [mb EXCEPT !.pc[t] = "idle", !.rx[t] = NoRx]
  /\ UNCHANGED <<pendVars, handVars>>

MboxDataGet(t) ==
  /\ ThreadContext /\ Others
  /\ runnable[t] /\ mb.pc[t] = "holding"
  /\ mb' = [mb EXCEPT !.pc[t] = "dispose"]
  /\ UNCHANGED <<pendVars, handVars>>

(* mbox_message_dispose, which takes no lock: a descriptor is freed, *)
MboxDisposeAsync(t) ==
  /\ ThreadContext /\ Others
  /\ runnable[t] /\ mb.pc[t] = "dispose"
  /\ mb.rx[t].from \in Dummies
  /\ mb' = [mb EXCEPT !.free = @ \cup {mb.rx[t].from},
                      !.tx[mb.rx[t].from] = NoTx, !.rx[t] = NoRx,
                      !.pc[t] = "idle"]
  /\ UNCHANGED <<pendVars, handVars>>

(* a sender gets its return value *)
MboxDispose(t) ==
  /\ ThreadContext /\ Others
  /\ runnable[t] /\ mb.pc[t] = "dispose"
  /\ mb.rx[t].from \in Callers
  /\ SetRetval(mb.rx[t].from, "0")
  /\ mb' = [mb EXCEPT !.disposed = @ \cup {mb.rx[t].from}, !.pc[t] = "disposed"]
  /\ UNCHANGED handVars

(* Mutant of MboxWakeSender: the sender is not made ready. *)
MboxWakeSenderMissing(t) ==
  /\ ThreadContext /\ Others
  /\ runnable[t] /\ mb.pc[t] = "disposed"
  /\ mb' = [mb EXCEPT !.rx[t] = NoRx, !.pc[t] = "idle"]
  /\ UNCHANGED <<pendVars, handVars>>

(* and is made ready: z_mark_thread_as_not_pending, whatever the thread is *)
(* doing now, and z_ready_thread.                                          *)
MboxWakeSender(t) ==
  LET s == mb.rx[t].from
  IN /\ ThreadContext /\ Others
     /\ runnable[t] /\ mb.pc[t] = "disposed"
     /\ IF pendedOn[s] = NullQ THEN UnpendNoTimeout(s)
        ELSE UNCHANGED <<waitq, pendedOn>>
     /\ runnable' = [runnable EXCEPT ![s] = @ \/ (halted[s] = "no" /\ ~timeout[s])]
     /\ mb' = [mb EXCEPT !.rx[t] = NoRx, !.pc[t] = "idle"]
     /\ UNCHANGED <<prio, timeout, firing, suspending, swapRet, halted, handVars>>

-----------------------------------------------------------------------------
MboxEnvironment ==
  /\ Others
  /\ Outside
  /\ MboxResume \/ UNCHANGED suspending
  /\ UNCHANGED <<handVars, mb>>

(* A thread inside a section is aborted when it has left it. *)
MboxAbort(t) ==
  /\ mb.pc[t] # "locked"
  /\ HAbort(t)
  /\ UNCHANGED mb

MboxNext ==
  \/ \E t \in Callers, s \in Threads, x \in Peers \cup {None} :
       MboxPutMatch(t, s, x)
  \/ MboxUnpend
  \/ MboxStore
  \/ MboxReady
  \/ MboxPutPend
  \/ \E t \in Callers, s \in Threads, x \in Peers \cup {None}, f \in Forevers :
       MboxPutWait(t, s, x, f)
  \/ \E t \in Callers : MboxPutReturn(t)
  \/ \E t \in Callers, x \in Peers \cup {None}, now \in BOOLEAN :
       MboxGetMatch(t, x, now)
  \/ MboxGetUnlock
  \/ \E t \in Callers, x \in Peers \cup {None}, now \in BOOLEAN, f \in Forevers :
       MboxGetWait(t, x, now, f)
  \/ \E t \in Callers : MboxGetReturn(t)
  \/ \E t \in Callers : MboxDataGet(t)
  \/ \E t \in Callers : MboxDisposeAsync(t)
  \/ \E t \in Callers : MboxDispose(t)
  \/ \E t \in Callers : MboxWakeSender(t)
  \/ MboxEnvironment
  \/ \E t \in Victims : MboxAbort(t)

MboxSpec == MboxInit /\ [][MboxNext]_mboxVars

-----------------------------------------------------------------------------
(* No sender and receiver that would have each other wait in their queues. *)
MboxNobodyMissed ==
  Unlocked =>
    ~ \E i \in DOMAIN waitq[TxQ], j \in DOMAIN waitq[RxQ] :
        LET s == waitq[TxQ][i]
            r == waitq[RxQ][j]
        IN Matches(mb.tx[s], r, mb.rx[r].source)

(* A message is with one receiver, and its sender sleeps in its call until *)
(* the receiver has disposed of it (the receiver reads the sender's        *)
(* buffer); a sender that is in no queue sleeps for a receiver that has    *)
(* its message (mbox_message_put, mbox_message_dispose).  If that receiver *)
(* is aborted the sender sleeps on: k_thread_abort disposes of nothing.    *)
SenderHasReceiver ==
  /\ \A r \in Callers : LET s == mb.rx[r].from IN s # None =>
       /\ \A r2 \in Callers \ {r} : mb.rx[r2].from # s
       /\ s \in Callers /\ halted[s] = "no" => mb.pc[s] \in {"locked", "put"}
  /\ Unlocked => \A s \in Callers :
       /\ mb.pc[s] = "put" /\ halted[s] = "no" /\ ~runnable[s]
       /\ pendedOn[s] # TxQ
       => \E r \in Callers : mb.rx[r].from = s

(* A put that succeeds was disposed of by its receiver, and a get that     *)
(* succeeds has a message that names its caller, or anybody, from a sender *)
(* that the caller would have.                                             *)
MboxSuccess ==
  \A t \in Callers :
    /\ runnable[t] /\ mb.pc[t] = "put" /\ swapRet[t] = "0" => t \in mb.disposed
    /\ \/ runnable[t] /\ mb.pc[t] = "get" /\ swapRet[t] = "0"
       \/ mb.pc[t] \in {"holding", "dispose"}
       => LET s == mb.rx[t].from
          IN s # None /\ mb.tx[s].src # None /\ Matches(mb.tx[s], t, mb.rx[t].source)

(* A descriptor is free, in the queue, or with one receiver. *)
DescriptorPlaces(d) ==
  (IF d \in mb.free THEN 1 ELSE 0)
  + Cardinality({i \in DOMAIN waitq[TxQ] : waitq[TxQ][i] = d})
  + Cardinality({r \in Callers : mb.rx[r].from = d})

=============================================================================
