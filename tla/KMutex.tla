------------------------------- MODULE KMutex -------------------------------
(***************************************************************************)
(* The reentrant mutex with priority inheritance of kernel/mutex.c.  One   *)
(* spinlock protects all mutexes.  k_mutex_lock() and k_mutex_unlock()     *)
(* hold it across several sections under _sched_spinlock: changing the     *)
(* owner's priority, pending or unpending, storing the return value,       *)
(* readying.  The variable sec says how far the holder of the lock is.     *)
(***************************************************************************)
EXTENDS Pend

CONSTANTS Mutexes,   \* the mutexes (each is its own wait queue)
          Ceiling,   \* CONFIG_PRIORITY_CEILING
          MaxNest    \* bound on lock_count

ASSUME MutexAssumption ==
  /\ Mutexes \subseteq WaitQs
  /\ Ceiling \in Prios
  /\ MaxNest \in Nat \ {0}

VARIABLES owner,     \* mutex->owner (None: NULL)
          lockCount, \* mutex->lock_count
          origPrio,  \* mutex->owner_orig_prio
          sec,       \* the critical section in progress under the mutex lock
          call,      \* the mutex each thread's k_mutex_lock() waits for
          late,      \* z_pend_curr() has returned an error to that call
          failed,    \* history: the mutex its last lock failed to get
          held,      \* history: locks minus unlocks as the threads see them
          base       \* history: each thread's priority without inheritance

mutexVars == <<owner, lockCount, origPrio, sec, call, late, failed, held,
               base>>
vars == <<pendVars, mutexVars>>

Free == [st |-> "free", by |-> None, m |-> None, th |-> None]

TypeOK ==
  /\ PendTypeOK
  /\ owner \in [Mutexes -> Threads \cup {None}]
  /\ lockCount \in [Mutexes -> 0..MaxNest]
  /\ origPrio \in [Mutexes -> Prios]
  /\ sec \in [st : {"free", "raised", "restored", "unpended", "set"},
              by : Threads \cup {None}, m : Mutexes \cup {None},
              th : Threads \cup {None}]
  /\ call \in [Threads -> Mutexes \cup {None}]
  /\ late \in [Threads -> BOOLEAN]
  /\ failed \in [Threads -> Mutexes \cup {None}]
  /\ held \in [Mutexes -> [Threads -> 0..MaxNest]]
  /\ base \in [Threads -> Prios]

(* k_mutex_init does not touch owner_orig_prio; its value is not read while *)
(* the mutex is free.                                                       *)
MutexInit ==
  /\ PendInit
  /\ owner = [m \in Mutexes |-> None]
  /\ lockCount = [m \in Mutexes |-> 0]
  /\ origPrio = [m \in Mutexes |-> Ceiling]
  /\ sec = Free
  /\ call = [t \in Threads |-> None]
  /\ late = [t \in Threads |-> FALSE]
  /\ failed = [t \in Threads |-> None]
  /\ held = [m \in Mutexes |-> [t \in Threads |-> 0]]
  /\ base = prio

Unlocked == sec = Free

(* On one CPU the spinlock masks interrupts. *)
Others == SMP \/ Unlocked

(* t runs and is inside no mutex call. *)
Runs(t) == ThreadContext /\ runnable[t] /\ call[t] = None /\ sec.by # t

-----------------------------------------------------------------------------
(* The higher priority of the two, but not above the ceiling. *)
NewPrioForInheritance(target, limit) ==
  LET p == IF target < limit THEN target ELSE limit
  IN IF p >= Ceiling THEN p ELSE Ceiling

(* adjust_owner_prio: z_thread_prio_set, which leaves a wait queue that the *)
(* owner pends in as it is.                                                 *)
AdjustOwnerPrio(m, p) == prio' = [prio EXCEPT ![owner[m]] = p]

(* k_mutex_lock on a free mutex or one the caller owns. *)
LockNow(t, m) ==
  /\ Runs(t)
  /\ Unlocked
  /\ lockCount[m] = 0 \/ owner[m] = t
  /\ lockCount[m] < MaxNest
  /\ origPrio' = [origPrio EXCEPT ![m] = IF lockCount[m] = 0 THEN prio[t] ELSE @]
  /\ lockCount' = [lockCount EXCEPT ![m] = @ + 1]
  /\ owner' = [owner EXCEPT ![m] = t]
  /\ held' = [held EXCEPT ![m][t] = @ + 1]
  /\ failed' = [failed EXCEPT ![t] = None]
  /\ UNCHANGED <<pendVars, sec, call, late, base>>

(* k_mutex_lock on a mutex of another thread, which inherits the caller's  *)
(* priority.  With K_NO_WAIT it returns -EBUSY and changes nothing.        *)
LockRaise(t, m) ==
  /\ Runs(t)
  /\ Unlocked
  /\ lockCount[m] # 0 /\ owner[m] # t
  /\ LET p == NewPrioForInheritance(prio[t], prio[owner[m]])
     IN IF p < prio[owner[m]] THEN AdjustOwnerPrio(m, p) ELSE prio' = prio
  /\ sec' = [st |-> "raised", by |-> t, m |-> m, th |-> None]
  /\ failed' = [failed EXCEPT ![t] = None]
  /\ UNCHANGED <<waitq, pendedOn, timeout, firing, suspending, swapRet,
                 runnable, halted>>
  /\ UNCHANGED <<owner, lockCount, origPrio, call, late, held, base>>

(* z_pend_curr, which drops the mutex lock *)
LockPend(forever) ==
  /\ sec.st = "raised"
  /\ PendCurr(sec.by, sec.m, forever)
  /\ call' = [call EXCEPT ![sec.by] = sec.m]
  /\ sec' = Free
  /\ UNCHANGED <<owner, lockCount, origPrio, late, failed, held, base>>

(* The caller was handed the mutex: z_pend_curr returned 0. *)
LockReturn(t) ==
  /\ ThreadContext
  /\ Others
  /\ call[t] # None
  /\ ~late[t]
  /\ runnable[t]
  /\ swapRet[t] = "0"
  /\ call' = [call EXCEPT ![t] = None]
  /\ held' = [held EXCEPT ![call[t]][t] = 1]
  /\ UNCHANGED <<pendVars, owner, lockCount, origPrio, sec, late, failed, base>>

(* z_pend_curr returned -EAGAIN; the caller goes for the mutex lock. *)
LockLate(t) ==
  /\ ThreadContext
  /\ Others
  /\ call[t] # None
  /\ ~late[t]
  /\ runnable[t]
  /\ swapRet[t] # "0"
  /\ late' = [late EXCEPT ![t] = TRUE]
  /\ UNCHANGED <<pendVars, owner, lockCount, origPrio, sec, call, failed, held,
                 base>>

(* Mutant of LockTimedOut: the remaining waiters are ignored. *)
LockTimedOutRestores(t) ==
  LET m == call[t]
  IN /\ ThreadContext
     /\ Unlocked
     /\ m # None
     /\ runnable[t]
     /\ late[t]
     /\ IF owner[m] = None THEN prio' = prio
        ELSE AdjustOwnerPrio(m, origPrio[m])
     /\ call' = [call EXCEPT ![t] = None]
     /\ late' = [late EXCEPT ![t] = FALSE]
     /\ failed' = [failed EXCEPT ![t] = m]
     /\ UNCHANGED <<waitq, pendedOn, timeout, firing, suspending, swapRet,
                    runnable, halted>>
     /\ UNCHANGED <<owner, lockCount, origPrio, sec, held, base>>

(* The wait timed out: the owner's priority is lowered to what the first   *)
(* remaining waiter lends it.                                              *)
LockTimedOut(t) ==
  LET m == call[t]
  IN /\ ThreadContext
     /\ Unlocked
     /\ m # None
     /\ runnable[t]
     /\ late[t]
     /\ IF owner[m] = None THEN prio' = prio
        ELSE AdjustOwnerPrio(m,
               IF waitq[m] = <<>> THEN origPrio[m]
               ELSE NewPrioForInheritance(prio[Head(waitq[m])], origPrio[m]))
     /\ call' = [call EXCEPT ![t] = None]
     /\ late' = [late EXCEPT ![t] = FALSE]
     /\ failed' = [failed EXCEPT ![t] = m]
     /\ UNCHANGED <<waitq, pendedOn, timeout, firing, suspending, swapRet,
                    runnable, halted>>
     /\ UNCHANGED <<owner, lockCount, origPrio, sec, held, base>>

-----------------------------------------------------------------------------
Less(n) == IF n = 0 THEN 0 ELSE n - 1

(* k_mutex_unlock of a mutex locked more than once: no lock is taken.  A   *)
(* caller that is not the owner gets -EPERM or -EINVAL.                    *)
UnlockNested(t, m) ==
  /\ Runs(t)
  /\ Others
  /\ owner[m] = t
  /\ lockCount[m] > 1
  /\ lockCount' = [lockCount EXCEPT ![m] = @ - 1]
  /\ held' = [held EXCEPT ![m][t] = Less(@)]
  /\ UNCHANGED <<pendVars, owner, origPrio, sec, call, late, failed, base>>

(* Mutant of UnlockRestore: the priority is left raised. *)
UnlockKeepsPrio(t, m) ==
  /\ Runs(t)
  /\ Unlocked
  /\ owner[m] = t
  /\ lockCount[m] = 1
  /\ sec' = [st |-> "restored", by |-> t, m |-> m, th |-> None]
  /\ held' = [held EXCEPT ![m][t] = Less(@)]
  /\ UNCHANGED <<pendVars, owner, lockCount, origPrio, call, late, failed,
                 base>>

(* Mutant of UnlockRestore: the first unlock already frees the mutex. *)
UnlockEarly(t, m) ==
  /\ Runs(t)
  /\ Unlocked
  /\ owner[m] = t
  /\ lockCount[m] >= 1
  /\ AdjustOwnerPrio(m, origPrio[m])
  /\ sec' = [st |-> "restored", by |-> t, m |-> m, th |-> None]
  /\ held' = [held EXCEPT ![m][t] = Less(@)]
  /\ UNCHANGED <<waitq, pendedOn, timeout, firing, suspending, swapRet,
                 runnable, halted>>
  /\ UNCHANGED <<owner, lockCount, origPrio, call, late, failed, base>>

(* The last unlock gives up the inherited priority ... *)
UnlockRestore(t, m) ==
  /\ Runs(t)
  /\ Unlocked
  /\ owner[m] = t
  /\ lockCount[m] = 1
  /\ AdjustOwnerPrio(m, origPrio[m])
  /\ sec' = [st |-> "restored", by |-> t, m |-> m, th |-> None]
  /\ held' = [held EXCEPT ![m][t] = Less(@)]
  /\ UNCHANGED <<waitq, pendedOn, timeout, firing, suspending, swapRet,
                 runnable, halted>>
  /\ UNCHANGED <<owner, lockCount, origPrio, call, late, failed, base>>

(* ... and with no waiter frees the mutex ... *)
UnlockFree ==
  /\ sec.st = "restored"
  /\ waitq[sec.m] = <<>>
  /\ owner' = [owner EXCEPT ![sec.m] = None]
  /\ lockCount' = [lockCount EXCEPT ![sec.m] = 0]
  /\ sec' = Free
  /\ UNCHANGED <<pendVars, origPrio, call, late, failed, held, base>>

(* ... or else takes the first waiter, *)
UnlockUnpend ==
  /\ sec.st = "restored"
  /\ UnpendFirst(sec.m)
  /\ sec' = [sec EXCEPT !.st = "unpended", !.th = Head(waitq[sec.m])]
  /\ UNCHANGED <<owner, lockCount, origPrio, call, late, failed, held, base>>

(* makes it the owner, lock_count staying 1, and stores its return value, *)
UnlockHandOver ==
  /\ sec.st = "unpended"
  /\ owner' = [owner EXCEPT ![sec.m] = sec.th]
  /\ origPrio' = [origPrio EXCEPT ![sec.m] = prio[sec.th]]
  /\ SetRetval(sec.th, "0")
  /\ sec' = [sec EXCEPT !.st = "set"]
  /\ UNCHANGED <<lockCount, call, late, failed, held, base>>

(* and readies it. *)
UnlockReady ==
  /\ sec.st = "set"
  /\ ReadyThread(sec.th)
  /\ sec' = Free
  /\ UNCHANGED <<owner, lockCount, origPrio, call, late, failed, held, base>>

-----------------------------------------------------------------------------
(* Timeouts, k_thread_priority_set, suspend and resume by other code.  A   *)
(* thread in a section has interrupts masked, and z_thread_halt() waits    *)
(* for it to take the interrupt that halts it.                             *)
Environment ==
  /\ Others
  /\ Outside
  /\ (sec.by # None /\ suspending = sec.by) => suspending' = suspending
  /\ base' = [t \in Threads |-> IF prio'[t] # prio[t] THEN prio'[t] ELSE base[t]]
  /\ UNCHANGED <<owner, lockCount, origPrio, sec, call, late, failed, held>>

AbortThread(t) ==
  /\ Others
  /\ sec.by # t
  /\ Abort(t)
  /\ UNCHANGED mutexVars

MutexNext ==
  \/ \E t \in Threads, m \in Mutexes : LockNow(t, m)
  \/ \E t \in Threads, m \in Mutexes : LockRaise(t, m)
  \/ \E forever \in BOOLEAN : LockPend(forever)
  \/ \E t \in Threads : LockReturn(t)
  \/ \E t \in Threads : LockLate(t)
  \/ \E t \in Threads : LockTimedOut(t)
  \/ \E t \in Threads, m \in Mutexes : UnlockNested(t, m)
  \/ \E t \in Threads, m \in Mutexes : UnlockRestore(t, m)
  \/ UnlockFree
  \/ UnlockUnpend
  \/ UnlockHandOver
  \/ UnlockReady
  \/ Environment
  \/ \E t \in Victims : AbortThread(t)

MutexSpec == MutexInit /\ [][MutexNext]_vars

-----------------------------------------------------------------------------
(* Mutual exclusion: a thread that has locked the mutex more often than it *)
(* unlocked it is the owner, and the mutex cannot be freed before it has   *)
(* unlocked it that often, whatever timeouts, aborts and hand-overs do to  *)
(* the other callers.                                                      *)
MutualExclusion ==
  \A m \in Mutexes, t \in Threads :
    held[m][t] > 0 => owner[m] = t /\ lockCount[m] >= held[m][t]

(* Lost wakeup: nobody waits for a mutex that is free. *)
NoWaiterOnFreeMutex ==
  \A m \in Mutexes :
    owner[m] = None => lockCount[m] = 0 /\ waitq[m] = <<>>

(* Priority inheritance: no waiter outranks the owner, except that the     *)
(* ceiling limits what it inherits, and except for the unlock in progress. *)
OwnerNotOutranked ==
  \A m \in Mutexes : \A i \in 1..Len(waitq[m]) :
    \/ prio[owner[m]] <= prio[waitq[m][i]]
    \/ prio[owner[m]] <= Ceiling
    \/ sec.m = m

(* "Once the mutex has been unlocked, the unlocking thread resets its      *)
(* priority to the level it had before locking that mutex": no thread      *)
(* keeps an inherited priority when it owns nothing.                       *)
PriorityRestored ==
  \A t \in Threads :
    (sec.th # t /\ \A m \in Mutexes : owner[m] # t) => prio[t] = base[t]

(* "new owner is already of higher or equal prio than first waiter since   *)
(* the wait queue is priority-based" (k_mutex_unlock).                     *)
NewOwnerOutranksWaiters ==
  sec.st = "unpended" =>
    \A i \in 1..Len(waitq[sec.m]) : prio[sec.th] <= prio[waitq[sec.m][i]]

(* A thread whose k_mutex_lock() failed does not own the mutex: nobody     *)
(* would ever unlock it.                                                   *)
FailedLockOwnsNothing ==
  \A t \in Threads : failed[t] # None => owner[failed[t]] # t

=============================================================================
