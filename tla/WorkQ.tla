-------------------------------- MODULE WorkQ --------------------------------
(***************************************************************************)
(* Work items and work queues (kernel/work.c).  One spinlock protects all  *)
(* of them, so each action is one section under it: an API call, or a step *)
(* of a queue's thread, which runs handlers without the lock.  The         *)
(* semaphores a flush or a synchronous cancel sleeps on are used once and  *)
(* by one thread; sync says whether it has been given.  The timeout list   *)
(* is abstracted: an armed timeout may expire at any moment.               *)
(***************************************************************************)
EXTENDS Integers, FiniteSets, SequencesExt

CONSTANTS Works,      \* work items
          Delayables, \* the ones that are struct k_work_delayable
          Queues,     \* work queues, each with its thread
          Clients,    \* threads that flush, cancel and drain; a client also
                      \* stands for the flusher item inside its k_work_sync
          Ops,        \* the blocking calls clients make
          SMP,        \* another CPU may act while a timeout handler is due
          None

ASSUME WorkAssumption ==
  /\ IsFiniteSet(Works) /\ IsFiniteSet(Clients)
  /\ Delayables \subseteq Works
  /\ Works \cap Clients = {}
  /\ Ops \subseteq {"flush", "cancel", "drain"}
  /\ SMP \in BOOLEAN
  /\ None \notin Works \cup Clients \cup Queues

Items == Works \cup Clients

VARIABLES flags,      \* work->flags
          last,       \* work->queue, the queue of the last submission
          pending,    \* queue->pending
          qflags,     \* queue->flags
          worker,     \* where each queue's thread is, and what it runs
          armed,      \* dwork->timeout is linked in the timeout list
          firing,     \* the item whose timeout was unlinked and whose
                      \* handler work_timeout() has not run yet
          target,     \* dwork->queue
          endless,    \* history: the item's last delay was K_FOREVER
          cancels,    \* pending_cancels, in order
          call,       \* the blocking call each client is in
          sync,       \* the semaphore of the client's k_work_sync was given
          owed,       \* history: runs of the item a flush has to wait for
          relinked,   \* history: z_add_timeout() met a linked timeout
          skipped     \* history: a flush left an item unsubmitted that was
                      \* scheduled with a delay that ends

workVars == <<flags, last, pending, worker>>
delayVars == <<armed, firing, target, endless, relinked, skipped>>
clientVars == <<cancels, call, sync, owed>>
vars == <<workVars, qflags, delayVars, clientVars>>

WorkFlags == {"RUNNING", "CANCELING", "QUEUED", "DELAYED", "FLUSHING"}
QueueFlags == {"STARTED", "BUSY", "DRAIN", "PLUGGED"}
NoCall == [op |-> "none", on |-> None]

WTypeOK ==
  /\ flags \in [Items -> SUBSET WorkFlags]
  /\ last \in [Works -> Queues \cup {None}]
  /\ pending \in [Queues -> Seq(Items)]
  /\ qflags \in [Queues -> SUBSET QueueFlags]
  /\ worker \in [Queues -> [st : {"off", "loop", "wait"}, it : {None}]
                              \cup [st : {"run"}, it : Items]]
  /\ armed \in [Works -> BOOLEAN]
  /\ firing \in Works \cup {None}
  /\ target \in [Works -> Queues \cup {None}]
  /\ endless \in [Works -> BOOLEAN]
  /\ relinked \in BOOLEAN
  /\ skipped \in BOOLEAN
  /\ cancels \in Seq(Clients)
  /\ call \in [Clients -> [op : {"none", "flush", "cancel", "drain"},
                           on : Works \cup Queues \cup {None}]]
  /\ sync \in [Clients -> BOOLEAN]
  /\ owed \in [Clients -> 0..2]

WInit ==
  /\ flags = [i \in Items |-> {}]
  /\ last = [w \in Works |-> None]
  /\ pending = [q \in Queues |-> <<>>]
  /\ qflags = [q \in Queues |-> {}]
  /\ worker = [q \in Queues |-> [st |-> "off", it |-> None]]
  /\ armed = [w \in Works |-> FALSE]
  /\ firing = None
  /\ target = [w \in Works |-> None]
  /\ endless = [w \in Works |-> FALSE]
  /\ relinked = FALSE
  /\ skipped = FALSE
  /\ cancels = <<>>
  /\ call = [c \in Clients |-> NoCall]
  /\ sync = [c \in Clients |-> FALSE]
  /\ owed = [c \in Clients |-> 0]

(* On one CPU nothing runs between a timeout's unlinking and its handler. *)
NoInterrupt == SMP \/ firing = None

-----------------------------------------------------------------------------
(* Submission.  ctx is the queue whose thread makes the call, from a       *)
(* handler, or None.                                                       *)

Contexts == {q \in Queues : worker[q].st = "run" /\ worker[q].it \in Works}
              \cup {None}

(* queue_submit_locked: may this queue take a new item? *)
QueueAccepts(q, ctx) ==
  /\ q # None
  /\ "STARTED" \in qflags[q]
  /\ "DRAIN" \in qflags[q] => ctx = q
  /\ "PLUGGED" \in qflags[q] => "DRAIN" \in qflags[q]

(* Mutant of SubmitQueue: a running item may go to another queue. *)
SubmitQueueAny(w, q) == IF q = None THEN last[w] ELSE q

(* The queue submit_to_queue_locked chooses; a running item stays on the   *)
(* queue that runs it.                                                     *)
SubmitQueue(w, q) ==
  IF q = None \/ "RUNNING" \in flags[w] THEN last[w] ELSE q

(* Mutant of Accepted: an item that is being cancelled is accepted. *)
AcceptedCanceling(w, q, ctx) ==
  /\ "QUEUED" \notin flags[w]
  /\ QueueAccepts(SubmitQueue(w, q), ctx)

(* submit_to_queue_locked: is the submission accepted? *)
Accepted(w, q, ctx) ==
  /\ "CANCELING" \notin flags[w]
  /\ "QUEUED" \notin flags[w]
  /\ QueueAccepts(SubmitQueue(w, q), ctx)

(* Mutant of Notified: the queue's thread is not woken. *)
NotifiedMissing(q) == worker

(* notify_queue_locked: the queue's thread, if it sleeps, looks again. *)
Notified(q) ==
  [worker EXCEPT ![q].st = IF @ = "wait" THEN "loop" ELSE @]

(* submit_to_queue_locked, after the flags in drop were cleared. *)
SubmitLocked(w, q, ctx, drop) ==
  LET to == SubmitQueue(w, q)
  IN IF Accepted(w, q, ctx)
     THEN /\ flags' = [flags EXCEPT ![w] = (@ \ drop) \cup {"QUEUED"}]
          /\ pending' = [pending EXCEPT ![to] = Append(@, w)]
          /\ last' = [last EXCEPT ![w] = to]
          /\ worker' = Notified(to)
     ELSE /\ flags' = [flags EXCEPT ![w] = @ \ drop]
          /\ UNCHANGED <<last, pending, worker>>

(* k_work_submit_to_queue *)
Submit(w, q, ctx) ==
  /\ NoInterrupt
  /\ SubmitLocked(w, q, ctx, {})
  /\ UNCHANGED <<qflags, delayVars, clientVars>>

-----------------------------------------------------------------------------
(* Delayable items *)

(* The timeouts that are linked after unschedule_locked, which looks at    *)
(* the timeout only if DELAYED is set.                                     *)
Unscheduled(w) == [armed EXCEPT ![w] = @ /\ "DELAYED" \notin flags[w]]

(* schedule_for_queue_locked with a delay, when linked are the timeouts    *)
(* that are in the list: z_add_timeout returns at once for K_FOREVER, and  *)
(* must not be called for a linked timeout otherwise.                      *)
ScheduleLocked(w, q, forever, linked) ==
  /\ flags' = [flags EXCEPT ![w] = @ \cup {"DELAYED"}]
  /\ target' = [target EXCEPT ![w] = q]
  /\ armed' = [linked EXCEPT ![w] = @ \/ ~forever]
  /\ relinked' = (relinked \/ (linked[w] /\ ~forever))
  /\ endless' = [endless EXCEPT ![w] = forever]

(* Mutant of Schedule: the timeout is not started. *)
ScheduleNotArmed(w, q, forever) ==
  /\ NoInterrupt
  /\ flags[w] \subseteq {"RUNNING"}
  /\ flags' = [flags EXCEPT ![w] = @ \cup {"DELAYED"}]
  /\ target' = [target EXCEPT ![w] = q]
  /\ endless' = [endless EXCEPT ![w] = forever]
  /\ UNCHANGED <<last, pending, worker, qflags, armed, firing, relinked, skipped,
                 clientVars>>

(* k_work_schedule_for_queue with a delay, on an item that is idle or only *)
(* running (else a no-op).                                                 *)
Schedule(w, q, forever) ==
  /\ NoInterrupt
  /\ flags[w] \subseteq {"RUNNING"}
  /\ ScheduleLocked(w, q, forever, armed)
  /\ UNCHANGED <<last, pending, worker, qflags, firing, skipped, clientVars>>

(* k_work_reschedule_for_queue with a delay *)
Reschedule(w, q, forever) ==
  /\ NoInterrupt
  /\ ScheduleLocked(w, q, forever, Unscheduled(w))
  /\ UNCHANGED <<last, pending, worker, qflags, firing, skipped, clientVars>>

(* Both with K_NO_WAIT. *)
RescheduleNow(w, q, ctx) ==
  /\ NoInterrupt
  /\ armed' = Unscheduled(w)
  /\ SubmitLocked(w, q, ctx, {"DELAYED"})
  /\ UNCHANGED <<qflags, firing, target, endless, relinked, skipped, clientVars>>

ScheduleNow(w, q, ctx) ==
  /\ NoInterrupt
  /\ flags[w] \subseteq {"RUNNING"}
  /\ SubmitLocked(w, q, ctx, {})
  /\ UNCHANGED <<qflags, delayVars, clientVars>>

(* sys_clock_announce unlinks the timeout, then calls work_timeout. *)
Expire(w) ==
  /\ firing = None
  /\ armed[w]
  /\ armed' = [armed EXCEPT ![w] = FALSE]
  /\ firing' = w
  /\ UNCHANGED <<workVars, qflags, target, endless, relinked, skipped, clientVars>>

WorkTimeout ==
  /\ firing # None
  /\ firing' = None
  /\ IF "DELAYED" \in flags[firing]
     THEN SubmitLocked(firing, target[firing], None, {"DELAYED"})
     ELSE UNCHANGED workVars
  /\ UNCHANGED <<qflags, armed, target, endless, relinked, skipped, clientVars>>

-----------------------------------------------------------------------------
(* Cancellation *)

(* sys_slist_find_and_remove *)
Gone(q, w) == RemoveFirst(pending[q], w)

(* Flushes of w that wait for more than n runs have one less to wait for. *)
OwedLess(w, n) ==
  [c \in Clients |-> IF call[c] = [op |-> "flush", on |-> w] /\ owed[c] > n
                     THEN owed[c] - 1 ELSE owed[c]]

(* cancel_delayable_async_locked, which for a plain item is                *)
(* cancel_async_locked: unschedule, leave the queue, and if the item is    *)
(* still running mark it.  A flush that waits for the run in progress and  *)
(* no other came before the submission that is taken back.                 *)
CancelLocked(w) ==
  LET queued == "QUEUED" \in flags[w] /\ "CANCELING" \notin flags[w]
      f == flags[w] \ (IF queued THEN {"DELAYED", "QUEUED"} ELSE {"DELAYED"})
  IN /\ flags' = [flags EXCEPT ![w] = IF f = {} THEN f ELSE f \cup {"CANCELING"}]
     /\ pending' = IF queued THEN [pending EXCEPT ![last[w]] = Gone(last[w], w)]
                   ELSE pending
     /\ owed' = IF queued THEN OwedLess(w, Cardinality(flags[w] \cap {"RUNNING"})) ELSE owed
     /\ armed' = Unscheduled(w)

(* k_work_cancel and k_work_cancel_delayable *)
Cancel(w) ==
  /\ NoInterrupt
  /\ CancelLocked(w)
  /\ UNCHANGED <<last, worker, qflags, firing, target, endless, relinked, skipped>>
  /\ UNCHANGED <<cancels, call, sync>>

(* k_work_cancel_sync and k_work_cancel_delayable_sync of a pending item:  *)
(* if it is now canceling, the caller joins pending_cancels and waits.     *)
CancelSync(c, w) ==
  /\ NoInterrupt
  /\ call[c] = NoCall
  /\ flags[w] # {}
  /\ CancelLocked(w)
  /\ IF "CANCELING" \in flags'[w]
     THEN /\ cancels' = Append(cancels, c)
          /\ call' = [call EXCEPT ![c] = [op |-> "cancel", on |-> w]]
          /\ sync' = [sync EXCEPT ![c] = FALSE]
     ELSE UNCHANGED <<cancels, call, sync>>
  /\ UNCHANGED <<last, worker, qflags, firing, target, endless, relinked, skipped>>

-----------------------------------------------------------------------------
(* Flushing *)

IndexIn(s, w) == CHOOSE i \in 1..Len(s) : s[i] = w

(* Mutant of WithFlusher: always ahead of everything queued. *)
WithFlusherFirst(s, w, c) == <<c>> \o s

(* queue_flusher_locked: right behind the item if it is queued, else (it   *)
(* is running) ahead of everything.                                        *)
WithFlusher(s, w, c) ==
  IF \E i \in 1..Len(s) : s[i] = w THEN InsertAt(s, IndexIn(s, w) + 1, c)
  ELSE <<c>> \o s

(* work_flush_locked on an item that is queued or running *)
FlushLocked(c, w) ==
  /\ pending' = [pending EXCEPT ![last[w]] = WithFlusher(@, w, c)]
  /\ worker' = Notified(last[w])
  /\ call' = [call EXCEPT ![c] = [op |-> "flush", on |-> w]]
  /\ sync' = [sync EXCEPT ![c] = FALSE]
  /\ owed' = [owed EXCEPT ![c] = Cardinality(flags[w] \cap {"QUEUED", "RUNNING"})]

(* k_work_flush *)
Flush(c, w) ==
  /\ NoInterrupt
  /\ call[c] = NoCall
  /\ flags[w] \cap {"QUEUED", "RUNNING"} # {}
  /\ FlushLocked(c, w)
  /\ flags' = [flags EXCEPT ![c] = {"FLUSHING"}]
  /\ UNCHANGED <<last, qflags, delayVars, cancels>>

(* k_work_flush_delayable of an item whose timeout could be aborted and    *)
(* that the queue accepts: it is submitted, and flushed in its new place.  *)
FlushDelayed(c, w) ==
  LET to == SubmitQueue(w, target[w])
  IN /\ NoInterrupt
     /\ call[c] = NoCall
     /\ "DELAYED" \in flags[w] /\ armed[w]
     /\ Accepted(w, target[w], None)
     /\ flags' = [flags EXCEPT ![w] = (@ \ {"DELAYED"}) \cup {"QUEUED"},
                               ![c] = {"FLUSHING"}]
     /\ armed' = [armed EXCEPT ![w] = FALSE]
     /\ last' = [last EXCEPT ![w] = to]
     /\ pending' = [pending EXCEPT ![to] = @ \o <<w, c>>]
     /\ worker' = Notified(to)
     /\ call' = [call EXCEPT ![c] = [op |-> "flush", on |-> w]]
     /\ sync' = [sync EXCEPT ![c] = FALSE]
     /\ owed' = [owed EXCEPT ![c] = Cardinality(flags[w] \cap {"RUNNING"}) + 1]
     /\ UNCHANGED <<qflags, firing, target, endless, relinked, skipped, cancels>>

(* k_work_flush_delayable otherwise *)
FlushDelayable(c, w) ==
  /\ NoInterrupt
  /\ call[c] = NoCall
  /\ flags[w] # {}
  /\ ~("DELAYED" \in flags[w] /\ armed[w] /\ Accepted(w, target[w], None))
  /\ armed' = Unscheduled(w)
  /\ skipped' = (skipped \/ ("DELAYED" \in flags[w] /\ ~endless[w]
                               /\ Accepted(w, target[w], None)))
  /\ IF flags[w] \cap {"QUEUED", "RUNNING"} # {}
     THEN /\ FlushLocked(c, w)
          /\ flags' = [flags EXCEPT ![w] = @ \ {"DELAYED"}, ![c] = {"FLUSHING"}]
     ELSE /\ flags' = [flags EXCEPT ![w] = @ \ {"DELAYED"}]
          /\ UNCHANGED <<pending, worker, call, sync, owed>>
  /\ UNCHANGED <<last, qflags, firing, target, endless, relinked, cancels>>

(* The thread in k_sem_take wakes and the flush or cancel returns. *)
SyncReturn(c) ==
  /\ NoInterrupt
  /\ call[c].op \in {"flush", "cancel"}
  /\ sync[c]
  /\ call' = [call EXCEPT ![c] = NoCall]
  /\ sync' = [sync EXCEPT ![c] = FALSE]
  /\ UNCHANGED <<workVars, qflags, delayVars, cancels, owed>>

-----------------------------------------------------------------------------
(* Queues *)

(* k_work_queue_start *)
Start(q) ==
  /\ NoInterrupt
  /\ "STARTED" \notin qflags[q]
  /\ qflags' = [qflags EXCEPT ![q] = {"STARTED"}]
  /\ worker' = [worker EXCEPT ![q].st = "loop"]
  /\ UNCHANGED <<flags, last, pending, delayVars, clientVars>>

(* k_work_queue_drain of a queue that has anything to drain, or with plug *)
Drain(c, q, plug) ==
  /\ NoInterrupt
  /\ call[c] = NoCall
  /\ "STARTED" \in qflags[q]
  /\ qflags[q] \cap {"BUSY", "DRAIN"} # {} \/ plug \/ pending[q] # <<>>
  /\ qflags' = [qflags EXCEPT ![q] =
                  @ \cup {"DRAIN"} \cup (IF plug THEN {"PLUGGED"} ELSE {})]
  /\ worker' = Notified(q)
  /\ call' = [call EXCEPT ![c] = [op |-> "drain", on |-> q]]
  /\ UNCHANGED <<flags, last, pending, delayVars, cancels, sync, owed>>

(* k_work_queue_unplug *)
Unplug(q) ==
  /\ NoInterrupt
  /\ "PLUGGED" \in qflags[q]
  /\ qflags' = [qflags EXCEPT ![q] = @ \ {"PLUGGED"}]
  /\ UNCHANGED <<workVars, delayVars, clientVars>>

(* work_queue_main takes the first item ... *)
WorkerTake(q) ==
  /\ NoInterrupt
  /\ worker[q].st = "loop"
  /\ pending[q] # <<>>
  /\ LET i == Head(pending[q])
     IN /\ pending' = [pending EXCEPT ![q] = Tail(@)]
        /\ flags' = [flags EXCEPT ![i] = (@ \cup {"RUNNING"}) \ {"QUEUED"}]
        /\ worker' = [worker EXCEPT ![q] = [st |-> "run", it |-> i]]
  /\ qflags' = [qflags EXCEPT ![q] = @ \cup {"BUSY"}]
  /\ UNCHANGED <<last, delayVars, clientVars>>

(* ... or, with none, ends a drain, waking every thread that waits for it, *)
(* and sleeps.                                                             *)
WorkerSleep(q) ==
  /\ NoInterrupt
  /\ worker[q].st = "loop"
  /\ pending[q] = <<>>
  /\ worker' = [worker EXCEPT ![q].st = "wait"]
  /\ qflags' = [qflags EXCEPT ![q] = @ \ {"DRAIN"}]
  /\ call' = IF "DRAIN" \in qflags[q]
             THEN [c \in Clients |-> IF call[c] = [op |-> "drain", on |-> q]
                                     THEN NoCall ELSE call[c]]
             ELSE call
  /\ UNCHANGED <<flags, last, pending, delayVars, cancels, sync, owed>>

(* The cancel finalize_cancel_locked completes: the first for the item. *)
FirstCancel(i) ==
  {k \in 1..Len(cancels) :
     /\ call[cancels[k]].on = i
     /\ \A j \in 1..(k - 1) : call[cancels[j]].on # i}

(* Mutant of WorkerDone: nobody waiting is released. *)
WorkerDoneSilent(q) ==
  /\ NoInterrupt
  /\ worker[q].st = "run"
  /\ flags' = [flags EXCEPT ![worker[q].it] = @ \ {"RUNNING", "FLUSHING"}]
  /\ worker' = [worker EXCEPT ![q] = [st |-> "loop", it |-> None]]
  /\ qflags' = [qflags EXCEPT ![q] = @ \ {"BUSY"}]
  /\ UNCHANGED <<last, pending, delayVars, clientVars>>

(* The handler has returned: finalize_flush_locked if the item is a        *)
(* flusher, finalize_cancel_locked if it is being cancelled.               *)
WorkerDone(q) ==
  /\ NoInterrupt
  /\ worker[q].st = "run"
  /\ LET i == worker[q].it
         done == IF "CANCELING" \in flags[i] THEN FirstCancel(i) ELSE {}
     IN /\ flags' = [flags EXCEPT ![i] = @ \ {"RUNNING", "FLUSHING", "CANCELING"}]
        /\ sync' = [c \in Clients |->
                      sync[c] \/ c = i \/ \E k \in done : cancels[k] = c]
        /\ cancels' = IF done = {} THEN cancels
                      ELSE RemoveAt(cancels, CHOOSE k \in done : TRUE)
        /\ owed' = OwedLess(i, 0)
  /\ worker' = [worker EXCEPT ![q] = [st |-> "loop", it |-> None]]
  /\ qflags' = [qflags EXCEPT ![q] = @ \ {"BUSY"}]
  /\ UNCHANGED <<last, pending, delayVars, call>>

-----------------------------------------------------------------------------
Worker(q) == WorkerTake(q) \/ WorkerSleep(q) \/ WorkerDone(q)

WNext ==
  \/ \E w \in Works \ Delayables, q \in Queues \cup {None}, ctx \in Contexts :
       Submit(w, q, ctx)
  \/ \E w \in Delayables, q \in Queues, forever \in BOOLEAN :
       Schedule(w, q, forever)
  \/ \E w \in Delayables, q \in Queues, forever \in BOOLEAN :
       Reschedule(w, q, forever)
  \/ \E w \in Delayables, q \in Queues, ctx \in Contexts : ScheduleNow(w, q, ctx)
  \/ \E w \in Delayables, q \in Queues, ctx \in Contexts : RescheduleNow(w, q, ctx)
  \/ \E w \in Delayables : Expire(w)
  \/ WorkTimeout
  \/ \E w \in Works : Cancel(w)
  \/ \E c \in Clients, w \in Works : "cancel" \in Ops /\ CancelSync(c, w)
  \/ \E c \in Clients, w \in Works \ Delayables : "flush" \in Ops /\ Flush(c, w)
  \/ \E c \in Clients, w \in Delayables : "flush" \in Ops /\ FlushDelayed(c, w)
  \/ \E c \in Clients, w \in Delayables : "flush" \in Ops /\ FlushDelayable(c, w)
  \/ \E c \in Clients : SyncReturn(c)
  \/ \E q \in Queues : Start(q)
  \/ \E c \in Clients, q \in Queues, plug \in BOOLEAN :
       "drain" \in Ops /\ Drain(c, q, plug)
  \/ \E q \in Queues : Unplug(q)
  \/ \E q \in Queues : Worker(q)

WSpec == WInit /\ [][WNext]_vars

(* Queue threads run, handlers return, and a thread whose semaphore was    *)
(* given wakes.  On one CPU a timer interrupt stops them for a moment, so  *)
(* they are only enabled again and again: the timeouts that follow one     *)
(* another do not leave the CPU to interrupts for ever.                    *)
WFairSpec ==
  /\ WSpec
  /\ \A q \in Queues : SF_vars(Worker(q))
  /\ WF_vars(WorkTimeout)
  /\ \A c \in Clients : SF_vars(SyncReturn(c))

-----------------------------------------------------------------------------
(* An item's handler never runs in two queue threads at once, whatever     *)
(* queue it is submitted to while it runs; and the flags agree.            *)
NotReentrant ==
  \A i \in Items :
    /\ \A q, r \in Queues :
         (worker[q].st = "run" /\ worker[r].st = "run"
            /\ worker[q].it = i /\ worker[r].it = i) => q = r
    /\ "RUNNING" \in flags[i] <=>
         \E q \in Queues : worker[q].st = "run" /\ worker[q].it = i

(* An item is linked in at most one place of one list, and is QUEUED       *)
(* exactly then: the list node is inside the item.                         *)
QueuedOnce ==
  /\ \A q, r \in Queues : \A j \in 1..Len(pending[q]), k \in 1..Len(pending[r]) :
       pending[q][j] = pending[r][k] => q = r /\ j = k
  /\ \A w \in Works : "QUEUED" \in flags[w] <=>
       \E q \in Queues : \E j \in 1..Len(pending[q]) : pending[q][j] = w
  /\ \A w \in Works : "QUEUED" \in flags[w] =>
       \E j \in 1..Len(pending[last[w]]) : pending[last[w]][j] = w

(* An item refuses submissions as canceling only while a queue thread runs *)
(* it, which will end that state.                                          *)
CancelingIsRunning ==
  \A w \in Works : "CANCELING" \in flags[w] => "RUNNING" \in flags[w]

(* Lost notification: no queue thread sleeps on work, nor on a drain. *)
NoSleepOnWork ==
  \A q \in Queues : worker[q].st = "wait" =>
    pending[q] = <<>> /\ "DRAIN" \notin qflags[q]

(* "Wait for last-submitted instance to complete" (k_work_flush): when it  *)
(* is released, every run that was queued or in progress is over.          *)
FlushWaitsForRuns ==
  \A c \in Clients : (call[c].op = "flush" /\ sync[c]) => owed[c] = 0

(* "On return the work structure will be idle unless something submits it  *)
(* after the cancellation was complete" (k_work_cancel_sync).              *)
CancelledIsIdle ==
  [][\A c \in Clients :
       (call[c].op = "cancel" /\ ~sync[c] /\ sync'[c])
         => flags'[call[c].on] \subseteq {"DELAYED"}]_vars

(* "submission will continue to be blocked after the drain operation       *)
(* completes": a plugged and drained queue stays empty and idle.           *)
PluggedStaysEmpty ==
  \A q \in Queues :
    ("PLUGGED" \in qflags[q] /\ "DRAIN" \notin qflags[q])
      => pending[q] = <<>> /\ worker[q].st # "run"

(* z_add_timeout's assertion: its timeout is not linked yet. *)
AddedOnce == ~relinked

(* "If the work is scheduled, it is immediately submitted"                 *)
(* (k_work_flush_delayable), unless it was scheduled with K_FOREVER: no    *)
(* timeout is linked then, so there is none to abort, and the flush clears *)
(* DELAYED and submits nothing.                                            *)
FlushSubmitsScheduled == ~skipped

(* The same without the exception *)
FlushSubmitsForever ==
  [][\A c \in Clients, w \in Delayables :
       FlushDelayable(c, w) /\ "DELAYED" \in flags[w] => ~Accepted(w, target[w], None)]_vars

(* A flush returns. *)
FlushReturns == \A c \in Clients : (call[c].op = "flush") ~> (call[c].op # "flush")

(* k_work_cancel_sync returns: "cancel a work item and wait for it to      *)
(* complete".                                                              *)
CancelSyncReturns ==
  \A c \in Clients : (call[c].op = "cancel") ~> (call[c].op # "cancel")

=============================================================================
