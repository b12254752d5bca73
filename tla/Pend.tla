-------------------------------- MODULE Pend --------------------------------
(***************************************************************************)
(* How a thread blocks on a kernel object and is woken again: the wait     *)
(* queues, the thread's timeout and the part of the thread state that      *)
(* decides whether it may run.  Every object module (semaphore, mutex,     *)
(* condition variable, message queue) extends this one.                    *)
(*                                                                         *)
(* One action stands for one section under _sched_spinlock; what happens   *)
(* between two such sections is not atomic and other CPUs may step in.     *)
(* The queue discipline is CONFIG_WAITQ_DUMB, a list kept sorted on insert.*)
(* Time is abstracted: an armed timeout may expire at any moment.          *)
(***************************************************************************)
EXTENDS Integers, FiniteSets, SequencesExt, Priq

CONSTANTS Threads,   \* the threads that use the object
          WaitQs,    \* the wait queues (one per object)
          Prios,     \* thread priorities; a smaller number runs first
          NewPrios,  \* priorities k_thread_priority_set may give
          Victims,   \* threads that other code may suspend, resume or abort
          SMP,       \* CONFIG_SMP: TRUE lets two CPUs be inside the kernel
          None

ASSUME PendAssumption ==
  /\ IsFiniteSet(Threads)
  /\ Prios \subseteq Int
  /\ NewPrios \subseteq Prios
  /\ Victims \subseteq Threads
  /\ SMP \in BOOLEAN
  /\ None \notin Threads
  /\ None \notin WaitQs

VARIABLES prio,      \* base.prio
          waitq,     \* each queue's threads, first to be woken first
          pendedOn,  \* base.pended_on (None: NULL)
          timeout,   \* base.timeout is linked in the timeout list
          firing,    \* the thread whose timeout sys_clock_announce() has
                     \* unlinked and whose handler has not run yet
          suspending,\* the target of a k_thread_suspend() that has aborted
                     \* its timeout and not yet taken _sched_spinlock
          swapRet,   \* swap_retval, what the blocked call will return
          runnable,  \* queued in the run queue, or running
          halted     \* _THREAD_SUSPENDED / _THREAD_DEAD

pendVars == <<prio, waitq, pendedOn, timeout, firing, suspending, swapRet,
              runnable, halted>>

RetVals == {"0", "EAGAIN", "ENOMSG", "EINTR"}

PendTypeOK ==
  /\ prio \in [Threads -> Prios]
  /\ waitq \in [WaitQs -> Seq(Threads)]
  /\ pendedOn \in [Threads -> WaitQs \cup {None}]
  /\ timeout \in [Threads -> BOOLEAN]
  /\ firing \in Threads \cup {None}
  /\ suspending \in Threads \cup {None}
  /\ swapRet \in [Threads -> RetVals]
  /\ runnable \in [Threads -> BOOLEAN]
  /\ halted \in [Threads -> {"no", "suspended", "dead"}]

-----------------------------------------------------------------------------
PendInit ==
  /\ prio \in [Threads -> Prios]
  /\ waitq = [w \in WaitQs |-> <<>>]
  /\ pendedOn = [t \in Threads |-> None]
  /\ timeout = [t \in Threads |-> FALSE]
  /\ firing = None
  /\ suspending = None
  /\ swapRet = [t \in Threads |-> "0"]
  /\ runnable = [t \in Threads |-> TRUE]
  /\ halted = [t \in Threads |-> "no"]

(* On one CPU a timeout handler is an interrupt: no thread runs between    *)
(* the unlinking of the timeout and the end of its handler.                *)
ThreadContext == SMP \/ firing = None

(* z_is_thread_ready, the guard of ready_thread. *)
IsThreadReady(t) ==
  pendedOn[t] = None /\ halted[t] = "no" /\ ~timeout[t]

(* The caller blocks: pend_locked, then the context switch, which presets  *)
(* the return value to -EAGAIN.                                            *)
PendCurr(t, w, forever) ==
  /\ waitq' = [waitq EXCEPT ![w] = PriqAdd(@, t, prio)]
  /\ pendedOn' = [pendedOn EXCEPT ![t] = w]
  /\ timeout' = [timeout EXCEPT ![t] = ~forever]
  /\ swapRet' = [swapRet EXCEPT ![t] = "EAGAIN"]
  /\ runnable' = [runnable EXCEPT ![t] = FALSE]
  /\ UNCHANGED <<prio, firing, suspending, halted>>

(* z_unpend_first_thread: the head leaves the queue and its timeout is     *)
(* aborted.  The thread does not run until ready_thread.                   *)
UnpendFirst(w) ==
  /\ waitq[w] # <<>>
  /\ waitq' = [waitq EXCEPT ![w] = Tail(@)]
  /\ pendedOn' = [pendedOn EXCEPT ![Head(waitq[w])] = None]
  /\ timeout' = [timeout EXCEPT ![Head(waitq[w])] = FALSE]
  /\ UNCHANGED <<prio, firing, suspending, swapRet, runnable, halted>>

(* arch_thread_return_value_set: a plain store, under no scheduler lock. *)
SetRetval(t, v) ==
  /\ swapRet' = [swapRet EXCEPT ![t] = v]
  /\ UNCHANGED <<prio, waitq, pendedOn, timeout, firing, suspending,
                 runnable, halted>>

(* z_ready_thread *)
ReadyThread(t) ==
  /\ runnable' = [runnable EXCEPT ![t] = @ \/ IsThreadReady(t)]
  /\ UNCHANGED <<prio, waitq, pendedOn, timeout, firing, suspending,
                 swapRet, halted>>

-----------------------------------------------------------------------------
(* Mutant of UnpendNoTimeout: the thread is left in the queue. *)
UnpendKeepsLink(t) ==
  /\ waitq' = waitq
  /\ pendedOn' = [pendedOn EXCEPT ![t] = None]

(* unpend_thread_no_timeout, when the thread pends at all. *)
UnpendNoTimeout(t) ==
  /\ waitq' = IF pendedOn[t] = None THEN waitq
              ELSE [waitq EXCEPT ![pendedOn[t]] = PriqRemove(@, t)]
  /\ pendedOn' = [pendedOn EXCEPT ![t] = None]

(* sys_clock_announce unlinks an expired timeout and drops timeout_lock to *)
(* call the handler.                                                       *)
Expire(t) ==
  /\ firing = None
  /\ timeout[t]
  /\ timeout' = [timeout EXCEPT ![t] = FALSE]
  /\ firing' = t
  /\ UNCHANGED <<prio, waitq, pendedOn, suspending, swapRet, runnable, halted>>

(* The handler z_thread_timeout, that is z_sched_wake_thread(thread, true). *)
(* It does not know which wait its timeout was armed for.                   *)
ThreadTimeout ==
  /\ firing # None
  /\ firing' = None
  /\ IF halted[firing] = "dead"
     THEN UNCHANGED <<waitq, pendedOn, runnable, halted>>
     ELSE /\ UnpendNoTimeout(firing)
          /\ halted' = [halted EXCEPT ![firing] = "no"]
          /\ runnable' = [runnable EXCEPT ![firing] = @ \/ ~timeout[firing]]
  /\ UNCHANGED <<prio, timeout, suspending, swapRet>>

(* k_thread_priority_set.  z_thread_prio_set leaves a wait queue as it is; *)
(* on one CPU it takes any thread for which z_is_thread_ready holds out of *)
(* the run queue and puts it in, also one that was in none because its     *)
(* waker has unpended and not yet readied it.                              *)
PrioSet(t, p) ==
  /\ ThreadContext
  /\ halted[t] # "dead"
  /\ prio' = [prio EXCEPT ![t] = p]
  /\ runnable' = [runnable EXCEPT ![t] = @ \/ (~SMP /\ IsThreadReady(t))]
  /\ UNCHANGED <<waitq, pendedOn, timeout, firing, suspending, swapRet, halted>>

(* k_thread_suspend: the timeout is aborted before the scheduler lock is   *)
(* taken; a pending thread stays in its wait queue.                        *)
SuspendAbortTimeout(t) ==
  /\ ThreadContext
  /\ suspending = None
  /\ halted[t] # "dead"
  /\ suspending' = t
  /\ timeout' = [timeout EXCEPT ![t] = FALSE]
  /\ UNCHANGED <<prio, waitq, pendedOn, firing, swapRet, runnable, halted>>

Suspend ==
  /\ ThreadContext
  /\ suspending # None
  /\ suspending' = None
  /\ halted' = [halted EXCEPT ![suspending] = IF @ = "no" THEN "suspended" ELSE @]
  /\ runnable' = [runnable EXCEPT ![suspending] = FALSE]
  /\ UNCHANGED <<prio, waitq, pendedOn, timeout, firing, swapRet>>

(* k_thread_resume *)
Resume(t) ==
  /\ ThreadContext
  /\ halted[t] = "suspended"
  /\ halted' = [halted EXCEPT ![t] = "no"]
  /\ runnable' = [runnable EXCEPT ![t] = pendedOn[t] = None /\ ~timeout[t]]
  /\ UNCHANGED <<prio, waitq, pendedOn, timeout, firing, suspending, swapRet>>

(* k_thread_abort of another thread: halt_thread(thread, _THREAD_DEAD). *)
Abort(t) ==
  /\ ThreadContext
  /\ halted[t] # "dead"
  /\ halted' = [halted EXCEPT ![t] = "dead"]
  /\ UnpendNoTimeout(t)
  /\ timeout' = [timeout EXCEPT ![t] = FALSE]
  /\ runnable' = [runnable EXCEPT ![t] = FALSE]
  /\ UNCHANGED <<prio, firing, suspending, swapRet>>

(* What other code may do to the threads while they use the object. *)
Outside ==
  \/ \E t \in Threads : Expire(t)
  \/ ThreadTimeout
  \/ \E t \in Threads, p \in NewPrios : PrioSet(t, p)
  \/ \E t \in Victims : SuspendAbortTimeout(t)
  \/ Suspend
  \/ \E t \in Victims : Resume(t)

-----------------------------------------------------------------------------
(* A thread is in a wait queue exactly when its pended_on says so, and in  *)
(* no queue twice: the queue link is shared by all queues, so a second     *)
(* insertion would corrupt both lists.                                     *)
QueueMatchesState ==
  /\ \A w \in WaitQs : \A i \in 1..Len(waitq[w]) : pendedOn[waitq[w][i]] = w
  /\ \A t \in Threads : pendedOn[t] # None =>
       \E i \in 1..Len(waitq[pendedOn[t]]) : waitq[pendedOn[t]][i] = t
  /\ \A w \in WaitQs : \A i, j \in 1..Len(waitq[w]) :
       waitq[w][i] = waitq[w][j] => i = j

(* A thread that can run waits for nothing and is not halted; a dead one   *)
(* is in no queue and has no timeout armed, even if its timeout handler    *)
(* was already on its way when it was aborted.                             *)
RunnableIsFree ==
  /\ \A t \in Threads : runnable[t] => pendedOn[t] = None /\ halted[t] = "no"
  /\ \A t \in Threads : halted[t] = "dead" =>
       pendedOn[t] = None /\ ~timeout[t] /\ ~runnable[t]

PendInv == PendTypeOK /\ QueueMatchesState /\ RunnableIsFree

=============================================================================
