-------------------------------- MODULE KSem --------------------------------
(***************************************************************************)
(* The counting semaphore of kernel/sem.c.  One spinlock protects every    *)
(* semaphore; k_sem_give() and k_sem_reset() hold it across several        *)
(* sections under _sched_spinlock (unpend, store the return value, ready), *)
(* and the timeout handler, which takes only _sched_spinlock, may run      *)
(* between them on another CPU.                                            *)
(***************************************************************************)
EXTENDS Pend

CONSTANTS Sem,       \* the semaphore's wait queue
          Limit,     \* sem->limit
          Initial    \* initial_count

(* k_sem_init() refuses anything else with -EINVAL. *)
ASSUME SemAssumption ==
  /\ WaitQs = {Sem}
  /\ Limit \in Nat \ {0}
  /\ Initial \in 0..Limit

VARIABLES count,     \* sem->count
          sec,       \* the critical section in progress under the sem lock
          call,      \* what each thread is doing: idle, or inside k_sem_take
          forever,   \* that take was called with K_FOREVER
          cancelled, \* history: k_sem_reset() hit the take in progress
          result     \* what each thread's last blocking take returned

semVars == <<count, sec, call, forever, cancelled, result>>
vars == <<pendVars, semVars>>

Free == [op |-> "free", th |-> None, st |-> "none"]

TypeOK ==
  /\ PendTypeOK
  /\ count \in 0..Limit
  /\ sec \in [op : {"free", "give", "reset"}, th : Threads \cup {None},
              st : {"none", "unpended", "set"}]
  /\ call \in [Threads -> {"idle", "take"}]
  /\ forever \in [Threads -> BOOLEAN]
  /\ cancelled \in [Threads -> BOOLEAN]
  /\ result \in [Threads -> RetVals \cup {"none"}]

Init ==
  /\ PendInit
  /\ count = Initial
  /\ sec = Free
  /\ call = [t \in Threads |-> "idle"]
  /\ forever = [t \in Threads |-> FALSE]
  /\ cancelled = [t \in Threads |-> FALSE]
  /\ result = [t \in Threads |-> "none"]

Unlocked == sec = Free

(* On one CPU the spinlock masks interrupts, so nothing else happens while *)
(* a section is in progress.                                               *)
Others == SMP \/ Unlocked

(* A unit that left the semaphore for t and that t has not yet returned with. *)
HandedOver(t) ==
  /\ call[t] = "take"
  /\ pendedOn[t] = None
  /\ halted[t] # "dead"
  /\ \/ swapRet[t] = "0"
     \/ sec = [op |-> "give", th |-> t, st |-> "unpended"]

(* A wait that has ended without a unit, and has not yet returned. *)
Refused(t) ==
  /\ call[t] = "take"
  /\ pendedOn[t] = None
  /\ halted[t] # "dead"
  /\ ~HandedOver(t)

-----------------------------------------------------------------------------
(* Mutant of GiveUnpend: the unit is handed over and counted as well. *)
GiveUnpendAndCount ==
  /\ Unlocked
  /\ UnpendFirst(Sem)
  /\ sec' = [op |-> "give", th |-> Head(waitq[Sem]), st |-> "unpended"]
  /\ count' = count + (IF count # Limit THEN 1 ELSE 0)
  /\ UNCHANGED <<call, forever, cancelled, result>>

(* k_sem_give with a waiter: the unit goes to the head of the queue. *)
GiveUnpend ==
  /\ Unlocked
  /\ UnpendFirst(Sem)
  /\ sec' = [op |-> "give", th |-> Head(waitq[Sem]), st |-> "unpended"]
  /\ UNCHANGED <<count, call, forever, cancelled, result>>

(* Mutant of GiveCount: the limit is not tested. *)
GiveCountNoLimit ==
  /\ Unlocked
  /\ waitq[Sem] = <<>>
  /\ count' = count + 1
  /\ UNCHANGED <<pendVars, sec, call, forever, cancelled, result>>

(* k_sem_give without a waiter.  Giving is allowed in interrupts. *)
GiveCount ==
  /\ Unlocked
  /\ waitq[Sem] = <<>>
  /\ count' = count + (IF count # Limit THEN 1 ELSE 0)
  /\ UNCHANGED <<pendVars, sec, call, forever, cancelled, result>>

(* k_sem_reset, one turn of its loop. *)
ResetUnpend ==
  /\ Unlocked \/ (sec.op = "reset" /\ sec.st = "none")
  /\ UnpendFirst(Sem)
  /\ sec' = [op |-> "reset", th |-> Head(waitq[Sem]), st |-> "unpended"]
  /\ UNCHANGED <<count, call, forever, cancelled, result>>

ResetDone ==
  /\ Unlocked \/ (sec.op = "reset" /\ sec.st = "none")
  /\ waitq[Sem] = <<>>
  /\ count' = 0
  /\ sec' = Free
  /\ UNCHANGED <<pendVars, call, forever, cancelled, result>>

(* Mutant of StoreRetval: the return value is not stored. *)
StoreRetvalMissing ==
  /\ sec.st = "unpended"
  /\ sec' = [sec EXCEPT !.st = "set"]
  /\ UNCHANGED <<pendVars, count, call, forever, cancelled, result>>

(* arch_thread_return_value_set in give and in reset *)
StoreRetval ==
  /\ sec.st = "unpended"
  /\ SetRetval(sec.th, IF sec.op = "give" THEN "0" ELSE "EAGAIN")
  /\ sec' = [sec EXCEPT !.st = "set"]
  /\ cancelled' = [cancelled EXCEPT ![sec.th] = @ \/ sec.op = "reset"]
  /\ UNCHANGED <<count, call, forever, result>>

(* Mutant of ReadyWoken: the woken thread is not made ready. *)
ReadyWokenMissing ==
  /\ sec.st = "set"
  /\ sec' = IF sec.op = "give" THEN Free
            ELSE [op |-> "reset", th |-> None, st |-> "none"]
  /\ UNCHANGED <<pendVars, count, call, forever, cancelled, result>>

(* z_ready_thread in give and in reset; give then drops the lock. *)
ReadyWoken ==
  /\ sec.st = "set"
  /\ ReadyThread(sec.th)
  /\ sec' = IF sec.op = "give" THEN Free
            ELSE [op |-> "reset", th |-> None, st |-> "none"]
  /\ UNCHANGED <<count, call, forever, cancelled, result>>

(* k_sem_take with a unit available (also from an interrupt).  With none   *)
(* available and K_NO_WAIT it returns -EBUSY and changes nothing.          *)
TakeNow ==
  /\ Unlocked
  /\ count > 0
  /\ count' = count - 1
  /\ UNCHANGED <<pendVars, sec, call, forever, cancelled, result>>

TakePend(t, fv) ==
  /\ ThreadContext
  /\ Unlocked
  /\ call[t] = "idle"
  /\ runnable[t]
  /\ count = 0
  /\ PendCurr(t, Sem, fv)
  /\ call' = [call EXCEPT ![t] = "take"]
  /\ forever' = [forever EXCEPT ![t] = fv]
  /\ cancelled' = [cancelled EXCEPT ![t] = FALSE]
  /\ result' = [result EXCEPT ![t] = "none"]
  /\ UNCHANGED <<count, sec>>

(* The woken thread runs again and k_sem_take returns swap_retval. *)
TakeReturn(t) ==
  /\ ThreadContext
  /\ Others
  /\ call[t] = "take"
  /\ runnable[t]
  /\ call' = [call EXCEPT ![t] = "idle"]
  /\ result' = [result EXCEPT ![t] = swapRet[t]]
  /\ UNCHANGED <<pendVars, count, sec, forever, cancelled>>

(* Expiry, timeouts, priority changes, suspend and resume by other code. *)
Environment ==
  /\ Others
  /\ Outside
  /\ UNCHANGED semVars

AbortThread(t) ==
  /\ Others
  /\ Abort(t)
  /\ UNCHANGED <<count, sec, call, forever, cancelled, result>>

Next ==
  \/ GiveUnpend
  \/ GiveCount
  \/ ResetUnpend
  \/ ResetDone
  \/ StoreRetval
  \/ ReadyWoken
  \/ TakeNow
  \/ \E t \in Threads, fv \in BOOLEAN : TakePend(t, fv)
  \/ \E t \in Threads : TakeReturn(t)
  \/ Environment
  \/ \E t \in Victims : AbortThread(t)

Spec == Init /\ [][Next]_vars

(* A section in progress runs to its end, a running thread makes progress,  *)
(* and every armed timeout is announced: the timeout list is ordered by     *)
(* deadline, so others cannot overtake it for ever, although each of them   *)
(* disables it for a moment.                                                *)
Fairness ==
  /\ WF_vars(StoreRetval)
  /\ WF_vars(ReadyWoken)
  /\ WF_vars(sec.op = "reset" /\ (ResetUnpend \/ ResetDone))
  /\ WF_vars(Others /\ ThreadTimeout /\ UNCHANGED semVars)
  /\ \A t \in Threads : SF_vars(TakeReturn(t))
  /\ \A t \in Threads : SF_vars(Others /\ Expire(t) /\ UNCHANGED semVars)

FairSpec == Spec /\ Fairness

-----------------------------------------------------------------------------
Abs == INSTANCE SemAbs WITH
         avail <- count,
         waiting <- {t \in Threads : pendedOn[t] = Sem},
         granted <- {t \in Threads : HandedOver(t)},
         refused <- {t \in Threads : Refused(t)},
         dead <- {t \in Threads : halted[t] = "dead"}

(* On one CPU k_sem_give, k_sem_take and k_sem_reset implement the abstract *)
(* semaphore: a hand-over in three steps is never seen half done.           *)
ImplementsSemAbs == Abs!AbsSpec

(* Lost wakeup: nobody waits while a unit is there to be taken. *)
NoWaiterWhileAvailable == count > 0 => waitq[Sem] = <<>>

(* A give that finds a waiter is not lost: the take it picks returns 0. *)
GiveReachesTaker ==
  [][\A t \in Threads :
       (sec.op = "give" /\ sec.th = t /\ call[t] = "take" /\ call'[t] = "idle")
         => result'[t] = "0"]_vars

(* k_sem_take(K_FOREVER) fails only if the semaphore was reset. *)
ForeverNeverTimesOut ==
  \A t \in Threads :
    (call[t] = "take" /\ forever[t] /\ runnable[t] /\ swapRet[t] = "EAGAIN")
      => cancelled[t]

(* A thread that left the queue can run, unless it is halted or a section  *)
(* in progress is about to make it ready.                                  *)
NoneStranded ==
  \A t \in Threads :
    (call[t] = "take" /\ pendedOn[t] = None)
      => runnable[t] \/ halted[t] # "no" \/ sec.th = t

(* "It is taken by the highest priority thread that has waited longest."   *)
HeadHasHighestPriority ==
  \A i \in 1..Len(waitq[Sem]) : prio[Head(waitq[Sem])] <= prio[waitq[Sem][i]]

(* "On resume, the thread will begin running immediately and return from   *)
(* the blocked call" (k_thread_suspend in kernel.h).                       *)
ResumedThreadRuns ==
  [][\A t \in Threads :
       (halted[t] = "suspended" /\ halted'[t] = "no") => runnable'[t]]_vars

(* A take whose timeout is armed returns, with or without a unit, unless   *)
(* the thread is aborted, or suspended, which cancels the timeout.         *)
TimedTakeReturns ==
  \A t \in Threads :
    (call[t] = "take" /\ timeout[t])
      ~> (call[t] = "idle" \/ halted[t] # "no" \/ suspending = t)

=============================================================================
