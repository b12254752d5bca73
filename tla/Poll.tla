-------------------------------- MODULE Poll --------------------------------
(***************************************************************************)
(* Polling, kernel/poll.c: k_poll, by which a thread waits for several     *)
(* objects at once, and triggered work items (k_work_poll), which are      *)
(* submitted to a work queue when one of several objects is ready.  A      *)
(* poller registers its events one by one, each in a section of its own    *)
(* under poll.c's lock, while the objects may already signal them.         *)
(*                                                                         *)
(* An object is a condition (a semaphore's count, a queue's data, a raised *)
(* signal) with a list of poll events; a work item's queue is reduced to   *)
(* whether the item is in it.                                              *)
(***************************************************************************)
EXTENDS Pend

CONSTANTS PollQ,     \* the wait queue of all k_poll calls
          Objs,      \* what can be polled
          Signals,   \* the poll signals among them
          Works,     \* triggered work items
          Polls,     \* what pollers may poll: a poller's objects, in order
          CancelNested, \* an interrupt may cancel an item whose timeout was
                     \* unlinked by the interrupt it came before
          CancelEarly \* k_queue_cancel_wait may find a thread that polls the
                     \* queue before it sleeps

Pollers == Threads \cup Works

ASSUME PollAssumption ==
  /\ PollQ \in WaitQs
  /\ Signals \subseteq Objs
  /\ None \notin Objs /\ None \notin Works
  /\ Threads \cap Works = {}
  /\ Polls \subseteq [Pollers -> Seq(Objs)]
  /\ CancelNested \in BOOLEAN /\ CancelEarly \in BOOLEAN

VARIABLES polled,    \* the objects each thread or work item polls
          cond,      \* the object is ready
          pollEvs,   \* each object's poll_events: <<poller, index>>
          evReady,   \* the events whose state says that they are ready
                     \* (K_POLL_STATE_NOT_READY and _CANCELLED do not)
          poller,    \* where a poller is: its registration index, how many
                     \* events it has registered, is_polling, and what it will
                     \* return (a work item: whether it was cancelled)
          work,      \* k_work_poll: workq # NULL, mode = MODE_TRIGGERED, the
                     \* timeout, the index at which the queue thread clears
                     \* registrations, in the queue, work.queue # NULL
          workFiring,\* the work item whose timeout was unlinked and whose
                     \* handler has not run yet
          handling,  \* the object whose provider has made it (un)ready and
                     \* not yet called z_handle_obj_poll_events
          sig        \* signal_poll_event in progress, under poll.c's lock

objVars == <<polled, cond, pollEvs, evReady, handling, sig>>
pollVars == <<objVars, poller, work, workFiring>>

NoSig == [ev |-> <<None, 0>>, st |-> "none", ret |-> "0"]

PollInit ==
  /\ polled \in Polls
  /\ cond = [o \in Objs |-> FALSE]
  /\ pollEvs = [o \in Objs |-> <<>>]
  /\ evReady = {}
  /\ poller = [p \in Pollers |-> [pc |-> "idle", i |-> 0, n |-> 0,
                                  polling |-> FALSE, ret |-> "0"]]
  /\ work = [w \in Works |-> [own |-> FALSE, trig |-> FALSE, timeout |-> FALSE,
                              clear |-> 0, queued |-> FALSE, was |-> FALSE]]
  /\ workFiring = None
  /\ handling = None
  /\ sig = NoSig

LockFree == sig = NoSig
PollOthers == SMP \/ (LockFree /\ handling = None)

(* On one CPU threads also wait for a work item's timeout handler. *)
PollThreads == ThreadContext /\ (SMP \/ workFiring = None) /\ PollOthers

Obj(e) == polled[e[1]][e[2]]

NotYet(p) == [i \in 1..Len(polled[p]) |-> <<p, i>>]

-----------------------------------------------------------------------------
(* Where add_event may insert: by priority.  poller_thread takes the       *)
(* poller of a work item for a thread's and reads a priority that is not   *)
(* there.                                                                  *)
AddPositions(o, p) ==
  LET ps == [j \in DOMAIN pollEvs[o] |-> pollEvs[o][j][1]]
  IN CASE ps = <<>> -> {1}
       [] Range(ps) \cup {p} \subseteq Threads -> {PriqPos(ps, p, prio)}
       [] OTHER -> 1..(Len(ps) + 1)

(* One turn of register_events *)
Register(p) ==
  LET i == poller[p].i
      o == polled[p][i]
  IN /\ LockFree
     /\ poller[p].pc = "register" /\ i <= Len(polled[p])
     /\ \/ /\ cond[o]
           /\ evReady' = evReady \cup {<<p, i>>}
           /\ poller' = [poller EXCEPT ![p].i = i + 1, ![p].polling = FALSE]
           /\ UNCHANGED pollEvs
        \/ /\ ~cond[o] /\ poller[p].polling
           /\ \E j \in AddPositions(o, p) :
                pollEvs' = [pollEvs EXCEPT ![o] = InsertAt(@, j, <<p, i>>)]
           /\ poller' = [poller EXCEPT ![p].i = i + 1, ![p].n = @ + 1]
           /\ UNCHANGED evReady
        \/ /\ ~cond[o] /\ ~poller[p].polling
           /\ poller' = [poller EXCEPT ![p].i = i + 1]
           /\ UNCHANGED <<pollEvs, evReady>>
     /\ UNCHANGED <<polled, cond, handling, sig, work, workFiring>>

Registered(p) == poller[p].pc = "register" /\ poller[p].i > Len(polled[p])

(* clear_event_registration: an event that is linked is taken out *)
Unlinked(e) == [pollEvs EXCEPT ![Obj(e)] = RemoveFirst(@, e)]

(* Mutant of ClearTurn: the first event is forgotten. *)
ClearTurnShort(p) ==
  LET i == poller[p].i
  IN /\ LockFree
     /\ poller[p].pc = "clear" /\ i > 0
     /\ pollEvs' = IF i = 1 THEN pollEvs ELSE Unlinked(<<p, i>>)
     /\ poller' = [poller EXCEPT ![p].i = i - 1]
     /\ UNCHANGED <<polled, cond, evReady, handling, sig, work, workFiring>>

(* One turn of clear_event_registrations, which drops the lock after each. *)
ClearTurn(p) ==
  LET i == poller[p].i
  IN /\ LockFree
     /\ poller[p].pc = "clear" /\ i > 0
     /\ pollEvs' = Unlinked(<<p, i>>)
     /\ poller' = [poller EXCEPT ![p].i = i - 1]
     /\ UNCHANGED <<polled, cond, evReady, handling, sig, work, workFiring>>

Cleared(p) == poller[p].pc = "clear" /\ poller[p].i = 0

-----------------------------------------------------------------------------
(* k_poll with a timeout or K_FOREVER, on events that are not ready yet *)
PollStart(t) ==
  /\ PollThreads
  /\ poller[t].pc = "idle" /\ runnable[t]
  /\ polled[t] # <<>>
  /\ poller' = [poller EXCEPT ![t] = [pc |-> "register", i |-> 1, n |-> 0,
                                      polling |-> TRUE, ret |-> "0"]]
  /\ evReady' = evReady \ Range(NotYet(t))
  /\ UNCHANGED <<pendVars, polled, cond, pollEvs, handling, sig, work, workFiring>>

PollRegister(t) ==
  /\ PollThreads
  /\ runnable[t]
  /\ Register(t)
  /\ UNCHANGED pendVars

(* An event became ready during the registration. *)
PollReady(t) ==
  /\ PollThreads
  /\ LockFree
  /\ runnable[t]
  /\ Registered(t) /\ ~poller[t].polling
  /\ poller' = [poller EXCEPT ![t].pc = "clear", ![t].i = poller[t].n]
  /\ UNCHANGED <<pendVars, objVars, work, workFiring>>

(* Mutant of PollPend: is_polling is not looked at again. *)
PollPendBlind(t, forever) ==
  /\ PollThreads
  /\ LockFree
  /\ runnable[t]
  /\ Registered(t)
  /\ poller' = [poller EXCEPT ![t].pc = "wait", ![t].polling = FALSE]
  /\ PendCurr(t, PollQ, forever)
  /\ UNCHANGED <<objVars, work, workFiring>>

PollPend(t, forever) ==
  /\ PollThreads
  /\ LockFree
  /\ runnable[t]
  /\ Registered(t) /\ poller[t].polling
  /\ poller' = [poller EXCEPT ![t].pc = "wait", ![t].polling = FALSE]
  /\ PendCurr(t, PollQ, forever)
  /\ UNCHANGED <<objVars, work, workFiring>>

(* Mutant of PollWoken: the result of the wait is dropped. *)
PollWokenZero(t) ==
  /\ PollThreads
  /\ runnable[t]
  /\ poller[t].pc = "wait"
  /\ poller' = [poller EXCEPT ![t].pc = "clear", ![t].i = poller[t].n]
  /\ UNCHANGED <<pendVars, objVars, work, workFiring>>

PollWoken(t) ==
  /\ PollThreads
  /\ runnable[t]
  /\ poller[t].pc = "wait"
  /\ poller' = [poller EXCEPT ![t].pc = "clear", ![t].i = poller[t].n,
                              ![t].ret = swapRet[t]]
  /\ UNCHANGED <<pendVars, objVars, work, workFiring>>

PollClear(t) ==
  /\ PollThreads
  /\ runnable[t]
  /\ ClearTurn(t)
  /\ UNCHANGED pendVars

PollReturn(t) ==
  /\ PollThreads
  /\ runnable[t]
  /\ Cleared(t)
  /\ poller' = [poller EXCEPT ![t].pc = "idle", ![t].n = 0]
  /\ UNCHANGED <<pendVars, objVars, work, workFiring>>

-----------------------------------------------------------------------------
(* signal_poll_event once the poller has been told: is_polling is reset    *)
(* and set_event_ready, to a ready state or (-EINTR) to CANCELLED.         *)
Told(e, ret) ==
  /\ poller' = [poller EXCEPT ![e[1]].polling = FALSE]
  /\ evReady' = IF ret = "0" THEN evReady \cup {e} ELSE evReady
  /\ sig' = NoSig

(* sys_dlist_get and signal_poll_event, up to the first section under      *)
(* another lock.  The event of a thread that is not pending, and of a work *)
(* item that is not triggered, is only marked.                             *)
SignalFirst(o, ret) ==
  IF pollEvs[o] = <<>>
  THEN UNCHANGED <<pendVars, pollEvs, evReady, poller, sig>>
  ELSE LET e == Head(pollEvs[o])
           p == e[1]
       IN /\ pollEvs' = [pollEvs EXCEPT ![o] = Tail(@)]
          /\ \/ /\ p \in Threads /\ pendedOn[p] # None
                /\ UnpendNoTimeout(p)
                /\ sig' = [ev |-> e, st |-> "unpended", ret |-> ret]
                /\ UNCHANGED <<prio, timeout, firing, suspending, swapRet,
                               runnable, halted, evReady, poller>>
             \/ /\ p \in Works
                /\ work[p].trig /\ poller[p].polling /\ work[p].own
                /\ sig' = [ev |-> e, st |-> "work", ret |-> ret]
                /\ UNCHANGED <<pendVars, evReady, poller>>
             \/ /\ IF p \in Threads THEN pendedOn[p] = None
                   ELSE ~(work[p].trig /\ poller[p].polling /\ work[p].own)
                /\ Told(e, ret)
                /\ UNCHANGED pendVars

(* k_poll_signal_raise *)
SignalRaise(o) ==
  /\ LockFree /\ PollOthers
  /\ o \in Signals
  /\ cond' = [cond EXCEPT ![o] = TRUE]
  /\ SignalFirst(o, "0")
  /\ UNCHANGED <<polled, handling, work, workFiring>>

(* The object's first event is of a thread that still registers its events *)
(* and has found none ready.                                               *)
Undecided(o) ==
  \E t \in Threads : /\ poller[t].pc = "register" /\ poller[t].polling
                     /\ pollEvs[o] # <<>> /\ pollEvs[o][1][1] = t

(* Another object becomes ready, or is reset (k_sem_reset), under its own  *)
(* lock,                                                                   *)
Provide(o, ready) ==
  /\ PollOthers
  /\ o \notin Signals
  /\ handling = None
  /\ cond' = [cond EXCEPT ![o] = ready]
  /\ handling' = o
  /\ UNCHANGED <<pendVars, polled, pollEvs, evReady, sig, poller, work,
                 workFiring>>

(* and then calls z_handle_obj_poll_events; k_queue_cancel_wait calls it   *)
(* with K_POLL_STATE_CANCELLED.                                            *)
HandleObjPollEvents(ret) ==
  /\ LockFree
  /\ handling # None
  /\ ret = "EINTR" /\ ~CancelEarly => ~Undecided(handling)
  /\ SignalFirst(handling, ret)
  /\ handling' = None
  /\ UNCHANGED <<polled, cond, work, workFiring>>

(* A reader takes what made the object ready, or k_poll_signal_reset. *)
Consume(o) ==
  /\ PollOthers
  /\ cond[o] /\ handling # o
  /\ cond' = [cond EXCEPT ![o] = FALSE]
  /\ UNCHANGED <<pendVars, polled, pollEvs, evReady, handling, sig, poller, work,
                 workFiring>>

(* signal_poller after the unpend: the rest of z_unpend_thread and the     *)
(* return value, *)
SignalStore ==
  LET t == sig.ev[1]
  IN /\ sig.st = "unpended"
     /\ timeout' = [timeout EXCEPT ![t] = FALSE]
     /\ swapRet' = [swapRet EXCEPT ![t] = sig.ret]
     /\ sig' = [sig EXCEPT !.st = "stored"]
     /\ UNCHANGED <<prio, waitq, pendedOn, firing, suspending, runnable, halted,
                    polled, cond, pollEvs, evReady, handling, poller, work, workFiring>>

(* and z_ready_thread if z_is_thread_ready. *)
SignalReady ==
  /\ sig.st = "stored"
  /\ ReadyThread(sig.ev[1])
  /\ Told(sig.ev, sig.ret)
  /\ UNCHANGED <<polled, cond, pollEvs, handling, work, workFiring>>

(* submit_to_queue_locked without a queue takes the last one. *)
Queued(w, hasQueue) ==
  [work EXCEPT ![w].queued = @ \/ hasQueue \/ work[w].was,
               ![w].was = @ \/ hasQueue]

(* signal_triggered_work *)
SignalWork ==
  LET w == sig.ev[1]
  IN /\ sig.st = "work"
     /\ work' = [Queued(w, TRUE) EXCEPT ![w].timeout = FALSE]
     /\ Told(sig.ev, sig.ret)
     /\ UNCHANGED <<pendVars, polled, cond, pollEvs, handling, workFiring>>

-----------------------------------------------------------------------------
(* k_work_poll_submit_to_queue of an item that is not submitted, *)
WorkSubmit(w) ==
  /\ LockFree /\ PollOthers
  /\ poller[w].pc = "idle" /\ ~work[w].own
  /\ polled[w] # <<>>
  /\ work' = [work EXCEPT ![w].own = TRUE, ![w].trig = FALSE]
  /\ poller' = [poller EXCEPT ![w] = [pc |-> "register", i |-> 1, n |-> 0,
                                      polling |-> TRUE, ret |-> "0"]]
  /\ evReady' = evReady \ Range(NotYet(w))
  /\ UNCHANGED <<pendVars, polled, cond, pollEvs, handling, sig, workFiring>>

WorkRegister(w) == PollOthers /\ Register(w) /\ UNCHANGED pendVars

(* its end: from now on any event submits the work, *)
WorkArm(w, timed) ==
  /\ LockFree /\ PollOthers
  /\ Registered(w) /\ poller[w].polling
  /\ work' = [work EXCEPT ![w].trig = TRUE, ![w].timeout = timed]
  /\ poller' = [poller EXCEPT ![w].pc = "idle"]
  /\ UNCHANGED <<pendVars, objVars, workFiring>>

(* or, if an event is ready already or with K_NO_WAIT, the registrations   *)
(* are cleared                                                             *)
WorkReady(w) ==
  /\ LockFree /\ PollOthers
  /\ Registered(w)
  /\ poller' = [poller EXCEPT ![w].pc = "clear", ![w].i = poller[w].n,
                              ![w].polling = FALSE, ![w].ret = "0"]
  /\ UNCHANGED <<pendVars, objVars, work, workFiring>>

WorkClear(w) == PollOthers /\ ClearTurn(w) /\ UNCHANGED pendVars

(* and the work is submitted. *)
WorkSubmitted(w) ==
  /\ PollOthers
  /\ Cleared(w) /\ poller[w].ret = "0"
  /\ work' = Queued(w, TRUE)
  /\ poller' = [poller EXCEPT ![w].pc = "idle"]
  /\ UNCHANGED <<pendVars, objVars, workFiring>>

(* triggered_work_cancel, for k_work_poll_cancel and for a submission of   *)
(* an item that waits for its events                                       *)
WorkCancel(w) ==
  /\ LockFree /\ PollOthers
  /\ poller[w].pc = "idle"
  /\ poller[w].polling /\ work[w].trig
  /\ SMP \/ CancelNested \/ workFiring = None
  /\ work' = [work EXCEPT ![w].timeout = FALSE, ![w].trig = FALSE]
  /\ poller' = [poller EXCEPT ![w].pc = "clear", ![w].i = Len(polled[w]),
                              ![w].ret = "cancelled"]
  /\ UNCHANGED <<pendVars, objVars, workFiring>>

WorkCancelled(w) ==
  /\ PollOthers
  /\ Cleared(w) /\ poller[w].ret = "cancelled"
  /\ work' = [work EXCEPT ![w].own = FALSE]
  /\ poller' = [poller EXCEPT ![w].pc = "idle", ![w].n = 0]
  /\ UNCHANGED <<pendVars, objVars, workFiring>>

WorkExpire(w) ==
  /\ PollOthers
  /\ workFiring = None
  /\ work[w].timeout
  /\ work' = [work EXCEPT ![w].timeout = FALSE]
  /\ workFiring' = w
  /\ UNCHANGED <<pendVars, objVars, poller>>

(* triggered_work_expiration_handler, which takes no lock.  On one CPU an  *)
(* interrupt that came before it and cancels or submits ends first.        *)
WorkTimeout ==
  /\ PollOthers
  /\ workFiring # None
  /\ SMP \/ poller[workFiring].pc = "idle"
  /\ poller' = [poller EXCEPT ![workFiring].polling = FALSE]
  /\ work' = Queued(workFiring, work[workFiring].own)
  /\ workFiring' = None
  /\ UNCHANGED <<pendVars, objVars>>

(* The queue thread runs triggered_work_handler: *)
WorkRun(w) ==
  /\ PollThreads
  /\ work[w].queued /\ work[w].clear = 0
  /\ work' = [work EXCEPT ![w].queued = FALSE,
                          ![w].clear = IF work[w].trig THEN Len(polled[w]) + 1
                                       ELSE 1]
  /\ UNCHANGED <<pendVars, objVars, poller, workFiring>>

(* it clears the registrations *)
WorkRunClear(w) ==
  /\ PollThreads
  /\ LockFree
  /\ work[w].clear > 1
  /\ pollEvs' = Unlinked(<<w, work[w].clear - 1>>)
  /\ work' = [work EXCEPT ![w].clear = @ - 1]
  /\ UNCHANGED <<pendVars, polled, cond, evReady, handling, sig, poller, workFiring>>

(* and drops its ownership before the item's own handler runs. *)
WorkRunDone(w) ==
  /\ PollThreads
  /\ work[w].clear = 1
  /\ work' = [work EXCEPT ![w].clear = 0, ![w].own = FALSE]
  /\ UNCHANGED <<pendVars, objVars, poller, workFiring>>

-----------------------------------------------------------------------------
PollEnvironment ==
  /\ PollOthers
  /\ Outside
  /\ UNCHANGED pollVars

(* k_thread_abort clears no registration. *)
PollAbort(t) ==
  /\ PollOthers
  /\ Abort(t)
  /\ UNCHANGED pollVars

PollNext ==
  \/ \E t \in Threads : PollStart(t)
  \/ \E t \in Threads : PollRegister(t)
  \/ \E t \in Threads : PollReady(t)
  \/ \E t \in Threads, forever \in BOOLEAN : PollPend(t, forever)
  \/ \E t \in Threads : PollWoken(t)
  \/ \E t \in Threads : PollClear(t)
  \/ \E t \in Threads : PollReturn(t)
  \/ \E o \in Objs : SignalRaise(o)
  \/ \E o \in Objs, ready \in BOOLEAN : Provide(o, ready)
  \/ \E ret \in {"0", "EINTR"} : HandleObjPollEvents(ret)
  \/ \E o \in Objs : Consume(o)
  \/ SignalStore
  \/ SignalReady
  \/ SignalWork
  \/ \E w \in Works : WorkSubmit(w)
  \/ \E w \in Works : WorkRegister(w)
  \/ \E w \in Works, timed \in BOOLEAN : WorkArm(w, timed)
  \/ \E w \in Works : WorkReady(w)
  \/ \E w \in Works : WorkClear(w)
  \/ \E w \in Works : WorkSubmitted(w)
  \/ \E w \in Works : WorkCancel(w)
  \/ \E w \in Works : WorkCancelled(w)
  \/ \E w \in Works : WorkExpire(w)
  \/ WorkTimeout
  \/ \E w \in Works : WorkRun(w)
  \/ \E w \in Works : WorkRunClear(w)
  \/ \E w \in Works : WorkRunDone(w)
  \/ PollEnvironment
  \/ \E t \in Victims : PollAbort(t)

PollSpec == PendInit /\ PollInit /\ [][PollNext]_<<pendVars, pollVars>>

-----------------------------------------------------------------------------
Linked(p) == \E o \in Objs : \E j \in DOMAIN pollEvs[o] : pollEvs[o][j][1] = p

(* Outside its call no event of a poller is in an object's list: the       *)
(* events of k_poll often live on the caller's stack, and those of a work  *)
(* item may be reused when its handler runs or it is cancelled.            *)
NoRegistrationLeft ==
  /\ \A t \in Threads : poller[t].pc = "idle" => ~Linked(t)
  /\ \A w \in Works : ~work[w].own => ~Linked(w)

Waiting(p) ==
  IF p \in Threads THEN poller[p].pc = "wait" /\ pendedOn[p] = PollQ
  ELSE poller[p].pc = "idle" /\ work[p].own /\ work[p].trig
       /\ poller[p].polling

(* A poller that alone polls an object never sleeps while the object is    *)
(* ready: whatever became ready between the check of the event and the     *)
(* wait has been noticed, or its provider is about to tell.                *)
ReadyIsNoticed ==
  \A p \in Pollers, o \in Objs :
    /\ Waiting(p) /\ cond[o] /\ o \in Range(polled[p])
    /\ \A r \in Pollers \ {p} : o \notin Range(polled[r])
    => handling = o \/ sig.ev[1] = p

(* A notification is not spent on a thread that has timed out and has not  *)
(* yet cleared its registration, while another one waits in the list.      *)
NotificationUseful ==
  [][\A o \in Objs :
       Len(pollEvs[o]) > 1 /\ sig = NoSig /\ pollEvs'[o] = Tail(pollEvs[o])
         /\ pendedOn[pollEvs[o][2][1]] = PollQ /\ sig' = NoSig
       => poller[pollEvs[o][1][1]].pc # "wait"]_<<pendVars, pollVars>>

(* An aborted thread is in no object's list. *)
DeadIsUnlinked == \A t \in Threads : halted[t] = "dead" => ~Linked(t)

(* k_poll returns 0 only with an event that is ready; a wait that was      *)
(* cancelled (k_queue_cancel_wait) is no success.                          *)
SuccessHasEvent ==
  \A t \in Threads : poller[t].pc = "clear" /\ poller[t].ret = "0" /\ LockFree =>
    \E e \in evReady : e[1] = t

=============================================================================
