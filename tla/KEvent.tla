------------------------------- MODULE KEvent -------------------------------
(***************************************************************************)
(* The event object of kernel/events.c: a set of event bits, and threads   *)
(* that wait until any or all of the bits they ask for are in it.  A post  *)
(* wakes every thread it satisfies in three rounds: one walk of the wait   *)
(* queue under _sched_spinlock that collects them, and then, one by one,   *)
(* the store of what they get and their wake-up.  In between a thread is   *)
(* still in the queue, and no_wake_on_timeout keeps its timeout handler,   *)
(* which may be on its way on another CPU, from waking it.                 *)
(***************************************************************************)
EXTENDS Pend

CONSTANTS EventQ,    \* event->wait_q
          OtherQ,    \* the wait queue of another object
          Bits       \* the bits of event->events

ASSUME EventAssumption ==
  /\ EventQ # OtherQ /\ WaitQs = {EventQ, OtherQ}
  /\ None \notin [desired : SUBSET Bits, all : BOOLEAN]

VARIABLES events,    \* event->events
          tev,       \* thread->events: what a waiting thread asks for, then
                     \* what it was woken with
          wait,      \* the call a thread is in: its events parameter ({}
                     \* when it waits for another object) and
                     \* K_EVENT_WAIT_ALL (None: not in a call)
          noWake,    \* thread->no_wake_on_timeout
          post       \* the post in progress: the threads to wake, the events
                     \* to wake them with, how far the first one is

eventVars == <<events, tev, wait, noWake, post>>
vars == <<pendVars, eventVars>>

NoPost == [todo |-> <<>>, ev |-> {}, st |-> "none"]

(* k_event_init *)
Init ==
  /\ PendInit
  /\ events = {}
  /\ tev = [t \in Threads |-> {}]
  /\ wait = [t \in Threads |-> None]
  /\ noWake = [t \in Threads |-> FALSE]
  /\ post = NoPost

Unlocked == post = NoPost
Others == SMP \/ Unlocked

(* are_wait_conditions_met *)
Met(desired, current, all) ==
  IF all THEN desired \subseteq current ELSE desired \cap current # {}

-----------------------------------------------------------------------------
(* k_event_wait and k_event_wait_all, when the condition is not met (with  *)
(* `reset' it never is, as the events are dropped first).                  *)
WaitPend(t, desired, all, reset, forever) ==
  LET current == IF reset THEN {} ELSE events
  IN /\ ThreadContext
     /\ Unlocked
     /\ wait[t] = None /\ runnable[t]
     /\ desired # {}
     /\ ~Met(desired, current, all)
     /\ events' = current
     /\ tev' = [tev EXCEPT ![t] = desired]
     /\ wait' = [wait EXCEPT ![t] = [desired |-> desired, all |-> all]]
     /\ PendCurr(t, EventQ, forever)
     /\ UNCHANGED <<noWake, post>>

(* The same with `reset' and K_NO_WAIT. *)
WaitReset ==
  /\ Unlocked
  /\ events' = {}
  /\ UNCHANGED <<pendVars, tev, wait, noWake, post>>

(* The thread waits for another object, which nobody gives it. *)
PendElsewhere(t, forever) ==
  /\ ThreadContext
  /\ Others
  /\ wait[t] = None /\ runnable[t]
  /\ wait' = [wait EXCEPT ![t] = [desired |-> {}, all |-> FALSE]]
  /\ PendCurr(t, OtherQ, forever)
  /\ UNCHANGED <<events, tev, noWake, post>>

WaitReturn(t) ==
  /\ ThreadContext
  /\ Others
  /\ wait[t] # None
  /\ runnable[t]
  /\ wait' = [wait EXCEPT ![t] = None]
  /\ tev' = [tev EXCEPT ![t] = {}]
  /\ UNCHANGED <<pendVars, events, noWake, post>>

-----------------------------------------------------------------------------
(* The list that a walk of q makes of the threads in S, each of which goes *)
(* to its head.                                                            *)
Collected(q, S) ==
  LET walk[n \in 0..Len(q)] ==
        IF n = 0 THEN <<>>
        ELSE IF q[n] \in S THEN <<q[n]>> \o walk[n - 1] ELSE walk[n - 1]
  IN walk[Len(q)]

(* The threads event_walk_op collects. *)
Satisfied(ev) ==
  Collected(waitq[EventQ],
            {t \in ToSet(waitq[EventQ]) : Met(tev[t], ev, wait[t].all)})

(* Mutant of PostWalk: the walk looks at the posted events alone. *)
PostWalkNew(posted, mask) ==
  LET ev == (events \ mask) \cup (posted \cap mask)
      todo == Satisfied(posted)
  IN /\ Unlocked
     /\ events' = ev
     /\ noWake' = [t \in Threads |-> noWake[t] \/ Contains(todo, t)]
     /\ timeout' = [t \in Threads |-> timeout[t] /\ ~Contains(todo, t)]
     /\ post' = IF todo = <<>> THEN NoPost
                ELSE [todo |-> todo, ev |-> ev, st |-> "walked"]
     /\ UNCHANGED <<prio, waitq, pendedOn, firing, suspending, swapRet,
                    runnable, halted, tev, wait>>

(* k_event_post_internal, for k_event_post (mask = posted), k_event_set    *)
(* (mask = Bits), k_event_set_masked and k_event_clear (posted = {}).      *)
PostWalk(posted, mask) ==
  LET ev == (events \ mask) \cup (posted \cap mask)
      todo == Satisfied(ev)
  IN /\ Unlocked
     /\ events' = ev
     /\ noWake' = [t \in Threads |-> noWake[t] \/ Contains(todo, t)]
     /\ timeout' = [t \in Threads |-> timeout[t] /\ ~Contains(todo, t)]
     /\ post' = IF todo = <<>> THEN NoPost
                ELSE [todo |-> todo, ev |-> ev, st |-> "walked"]
     /\ UNCHANGED <<prio, waitq, pendedOn, firing, suspending, swapRet,
                    runnable, halted, tev, wait>>

PostStore ==
  LET t == Head(post.todo)
  IN /\ post.st = "walked"
     /\ SetRetval(t, "0")
     /\ tev' = [tev EXCEPT ![t] = post.ev]
     /\ post' = [post EXCEPT !.st = "stored"]
     /\ UNCHANGED <<events, wait, noWake>>

Rest == IF Len(post.todo) = 1 THEN NoPost
        ELSE [post EXCEPT !.todo = Tail(@), !.st = "walked"]

(* Mutant of PostWake: an aborted thread is skipped altogether. *)
PostWakeSkipsKilled ==
  LET t == Head(post.todo)
  IN /\ post.st = "stored"
     /\ IF halted[t] = "dead"
        THEN UNCHANGED <<waitq, pendedOn, runnable, noWake>>
        ELSE /\ UnpendNoTimeout(t)
             /\ noWake' = [noWake EXCEPT ![t] = FALSE]
             /\ runnable' = [runnable EXCEPT ![t] =
                               @ \/ (halted[t] = "no" /\ ~timeout[t])]
     /\ post' = Rest
     /\ UNCHANGED <<prio, timeout, firing, suspending, swapRet, halted,
                    events, tev, wait>>

(* z_sched_wake_thread(thread, false) *)
PostWake ==
  LET t == Head(post.todo)
  IN /\ post.st = "stored"
     /\ noWake' = [noWake EXCEPT ![t] = FALSE]
     /\ IF halted[t] = "dead"
        THEN UNCHANGED <<waitq, pendedOn, runnable>>
        ELSE /\ UnpendNoTimeout(t)
             /\ runnable' = [runnable EXCEPT ![t] =
                               @ \/ (halted[t] = "no" /\ ~timeout[t])]
     /\ post' = Rest
     /\ UNCHANGED <<prio, timeout, firing, suspending, swapRet, halted,
                    events, tev, wait>>

-----------------------------------------------------------------------------
(* Mutant of EventTimeout: no_wake_on_timeout is not consulted. *)
EventTimeoutWakes ==
  /\ Others
  /\ ThreadTimeout
  /\ noWake' = [noWake EXCEPT ![firing] = FALSE]
  /\ UNCHANGED <<events, tev, wait, post>>

(* z_thread_timeout, that is z_sched_wake_thread(thread, true) *)
EventTimeout ==
  /\ Others
  /\ firing # None
  /\ IF noWake[firing]
     THEN /\ firing' = None
          /\ UNCHANGED <<prio, waitq, pendedOn, timeout, suspending, swapRet,
                         runnable, halted>>
     ELSE ThreadTimeout
  /\ noWake' = [noWake EXCEPT ![firing] = FALSE]
  /\ UNCHANGED <<events, tev, wait, post>>

Environment ==
  /\ Others
  /\ \/ \E t \in Threads : Expire(t)
     \/ \E t \in Threads, p \in NewPrios : PrioSet(t, p)
     \/ \E t \in Victims : SuspendAbortTimeout(t)
     \/ Suspend
     \/ \E t \in Victims : Resume(t)
     \/ \E t \in Victims : Abort(t)
  /\ UNCHANGED eventVars

Next ==
  \/ \E t \in Threads, desired \in SUBSET Bits, all, reset, forever \in BOOLEAN :
       WaitPend(t, desired, all, reset, forever)
  \/ WaitReset
  \/ \E t \in Threads, forever \in BOOLEAN : PendElsewhere(t, forever)
  \/ \E t \in Threads : WaitReturn(t)
  \/ \E mask \in SUBSET Bits : \E posted \in SUBSET mask : PostWalk(posted, mask)
  \/ PostStore
  \/ PostWake
  \/ EventTimeout
  \/ Environment

Spec == Init /\ [][Next]_vars

-----------------------------------------------------------------------------
(* Outside a post no thread waits whose condition the events meet: neither *)
(* a post nor a reset nor a wait that comes late leaves one behind.        *)
SatisfiedAreWoken ==
  Unlocked => \A t \in Threads : pendedOn[t] = EventQ =>
                ~Met(wait[t].desired, events, wait[t].all)

(* A wait that succeeds returns events that meet the condition of THIS     *)
(* wait: a post that collected the thread for an earlier one must not be   *)
(* overtaken by the thread's timeout, or it would end whatever the thread  *)
(* waits for by then, be it another object.                                *)
SuccessMeetsCondition ==
  \A t \in Threads : wait[t] # None /\ runnable[t] /\ swapRet[t] = "0" =>
    Met(wait[t].desired, tev[t], wait[t].all)

(* no_wake_on_timeout never outlives the post that set it: the timeout of  *)
(* a later wait would be ignored.                                          *)
TimeoutHeeded ==
  \A t \in Threads : noWake[t] => Contains(post.todo, t)

=============================================================================
