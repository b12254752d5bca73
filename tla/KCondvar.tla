------------------------------ MODULE KCondvar ------------------------------
(***************************************************************************)
(* The condition variable of kernel/condvar.c, composed with the mutex it  *)
(* is used with.  k_condvar_wait() holds the condvar spinlock while it     *)
(* calls k_mutex_unlock() and until it pends, then calls k_mutex_lock()    *)
(* with K_FOREVER, ignoring what either returns.                           *)
(***************************************************************************)
EXTENDS KMutex

CONSTANT Cond        \* the condition variable's wait queue

ASSUME CondAssumption ==
  /\ Cond \in WaitQs
  /\ Cond \notin Mutexes

VARIABLES csec,      \* the critical section in progress under the condvar lock
          cv,        \* how far each thread is in k_condvar_wait()
          cvMutex,   \* the mutex that wait was called with
          cvForever, \* that wait was called with K_FOREVER
          signalled  \* history: a signal or broadcast picked this wait

condVars == <<csec, cv, cvMutex, cvForever, signalled>>
cvars == <<vars, condVars>>

CFree == [op |-> "free", th |-> None, st |-> "none"]

CondTypeOK ==
  /\ TypeOK
  /\ csec \in [op : {"free", "wait", "signal", "broadcast"},
               th : Threads \cup {None}, st : {"none", "unpended", "set"}]
  /\ cv \in [Threads -> {"no", "unlock", "unlocked", "waiting", "relock"}]
  /\ cvMutex \in [Threads -> Mutexes \cup {None}]
  /\ cvForever \in [Threads -> BOOLEAN]
  /\ signalled \in [Threads -> BOOLEAN]

CondInit ==
  /\ MutexInit
  /\ csec = CFree
  /\ cv = [t \in Threads |-> "no"]
  /\ cvMutex = [t \in Threads |-> None]
  /\ cvForever = [t \in Threads |-> FALSE]
  /\ signalled = [t \in Threads |-> FALSE]

CUnlocked == csec = CFree

(* Mutex steps and interrupts run while the condvar lock is held only on   *)
(* another CPU, or if they are what its holder does.                       *)
COthers(t) == SMP \/ CUnlocked \/ (csec.op = "wait" /\ csec.th = t)

-----------------------------------------------------------------------------
(* Mutant of WaitEnter: the mutex is unlocked before the condvar is locked. *)
WaitEnterUnlocked(t, m) ==
  /\ Runs(t)
  /\ Others
  /\ CUnlocked
  /\ cv[t] = "no"
  /\ owner[m] = t
  /\ cv' = [cv EXCEPT ![t] = "unlock"]
  /\ cvMutex' = [cvMutex EXCEPT ![t] = m]
  /\ signalled' = [signalled EXCEPT ![t] = FALSE]
  /\ UNCHANGED <<vars, csec, cvForever>>

(* k_condvar_wait called by the owner of the mutex takes the condvar lock. *)
WaitEnter(t, m) ==
  /\ Runs(t)
  /\ Others
  /\ CUnlocked
  /\ cv[t] = "no"
  /\ owner[m] = t
  /\ csec' = [op |-> "wait", th |-> t, st |-> "none"]
  /\ cv' = [cv EXCEPT ![t] = "unlock"]
  /\ cvMutex' = [cvMutex EXCEPT ![t] = m]
  /\ signalled' = [signalled EXCEPT ![t] = FALSE]
  /\ UNCHANGED <<vars, cvForever>>

(* Its call of k_mutex_unlock; a hand-over continues as the mutex's steps. *)
WaitUnlock(t) ==
  /\ cv[t] = "unlock"
  /\ UnlockNested(t, cvMutex[t]) \/ UnlockRestore(t, cvMutex[t])
  /\ cv' = [cv EXCEPT ![t] = "unlocked"]
  /\ UNCHANGED <<csec, cvMutex, cvForever, signalled>>

(* z_pend_curr, which drops the condvar lock *)
WaitPend(t, forever) ==
  /\ cv[t] = "unlocked"
  /\ sec.by # t
  /\ PendCurr(t, Cond, forever)
  /\ csec' = CFree
  /\ cv' = [cv EXCEPT ![t] = "waiting"]
  /\ cvForever' = [cvForever EXCEPT ![t] = forever]
  /\ UNCHANGED <<mutexVars, cvMutex, signalled>>

(* Mutant of WaitWoken: a timed-out wait returns at once. *)
WaitWokenReturns(t) ==
  /\ Runs(t)
  /\ Others
  /\ COthers(t)
  /\ cv[t] = "waiting"
  /\ cv' = [cv EXCEPT ![t] = IF swapRet[t] = "0" THEN "relock" ELSE "no"]
  /\ UNCHANGED <<vars, csec, cvMutex, cvForever, signalled>>

(* The wait is over, one way or another. *)
WaitWoken(t) ==
  /\ Runs(t)
  /\ Others
  /\ COthers(t)
  /\ cv[t] = "waiting"
  /\ cv' = [cv EXCEPT ![t] = "relock"]
  /\ UNCHANGED <<vars, csec, cvMutex, cvForever, signalled>>

(* Its call of k_mutex_lock with K_FOREVER, after which the wait returns. *)
RelockNow(t) ==
  /\ COthers(t)
  /\ cv[t] = "relock"
  /\ LockNow(t, cvMutex[t])
  /\ cv' = [cv EXCEPT ![t] = "no"]
  /\ UNCHANGED <<csec, cvMutex, cvForever, signalled>>

RelockRaise(t) ==
  /\ COthers(t)
  /\ cv[t] = "relock"
  /\ LockRaise(t, cvMutex[t])
  /\ UNCHANGED condVars

(* k_mutex_lock returns: to the thread, or to the end of k_condvar_wait. *)
LockCallReturn(t) ==
  /\ COthers(t)
  /\ LockReturn(t) \/ LockTimedOut(t)
  /\ cv' = [cv EXCEPT ![t] = "no"]
  /\ UNCHANGED <<csec, cvMutex, cvForever, signalled>>

-----------------------------------------------------------------------------
(* k_condvar_signal with a waiter; without one it does nothing. *)
SignalUnpend ==
  /\ Others
  /\ CUnlocked
  /\ UnpendFirst(Cond)
  /\ csec' = [op |-> "signal", th |-> Head(waitq[Cond]), st |-> "unpended"]
  /\ UNCHANGED <<mutexVars, cv, cvMutex, cvForever, signalled>>

(* One turn of the loop of k_condvar_broadcast, *)
BroadcastUnpend ==
  /\ Others
  /\ CUnlocked \/ (csec.op = "broadcast" /\ csec.st = "none")
  /\ UnpendFirst(Cond)
  /\ csec' = [op |-> "broadcast", th |-> Head(waitq[Cond]), st |-> "unpended"]
  /\ UNCHANGED <<mutexVars, cv, cvMutex, cvForever, signalled>>

(* and its end. *)
BroadcastDone ==
  /\ csec.op = "broadcast"
  /\ csec.st = "none"
  /\ waitq[Cond] = <<>>
  /\ csec' = CFree
  /\ UNCHANGED <<vars, cv, cvMutex, cvForever, signalled>>

(* Mutant of CondStoreRetval: the return value stays -EAGAIN. *)
CondStoreNothing ==
  /\ csec.st = "unpended"
  /\ csec' = [csec EXCEPT !.st = "set"]
  /\ signalled' = [signalled EXCEPT ![csec.th] = TRUE]
  /\ UNCHANGED <<vars, cv, cvMutex, cvForever>>

(* arch_thread_return_value_set in both *)
CondStoreRetval ==
  /\ csec.st = "unpended"
  /\ SetRetval(csec.th, "0")
  /\ csec' = [csec EXCEPT !.st = "set"]
  /\ signalled' = [signalled EXCEPT ![csec.th] = TRUE]
  /\ UNCHANGED <<mutexVars, cv, cvMutex, cvForever>>

(* z_ready_thread in both *)
CondReady ==
  /\ csec.st = "set"
  /\ ReadyThread(csec.th)
  /\ csec' = IF csec.op = "signal" THEN CFree
             ELSE [op |-> "broadcast", th |-> None, st |-> "none"]
  /\ UNCHANGED <<mutexVars, cv, cvMutex, cvForever, signalled>>

-----------------------------------------------------------------------------
(* Mutex calls of threads that are not in k_condvar_wait. *)
MutexCall(t) ==
  /\ COthers(t)
  /\ cv[t] = "no"
  /\ \E m \in Mutexes :
       LockNow(t, m) \/ LockRaise(t, m) \/ UnlockNested(t, m) \/ UnlockRestore(t, m)
  /\ UNCHANGED condVars

(* Steps of a mutex call in progress.  The lock of a wait is K_FOREVER. *)
MutexStep ==
  /\ \/ \E forever \in BOOLEAN :
          LockPend(forever) /\ (cv[sec.by] = "relock" => forever)
     \/ UnlockFree
     \/ UnlockUnpend
     \/ UnlockHandOver
     \/ UnlockReady
  /\ UNCHANGED condVars

LockLateStep(t) ==
  /\ COthers(t)
  /\ LockLate(t)
  /\ UNCHANGED condVars

(* A thread inside the condvar section cannot be halted either. *)
CondEnvironment ==
  /\ SMP \/ CUnlocked
  /\ Environment
  /\ (csec.op = "wait" /\ suspending = csec.th) => suspending' = suspending
  /\ UNCHANGED condVars

CondAbort(t) ==
  /\ SMP \/ CUnlocked
  /\ ~(csec.op = "wait" /\ csec.th = t)
  /\ AbortThread(t)
  /\ UNCHANGED condVars

CondNext ==
  \/ \E t \in Threads, m \in Mutexes : WaitEnter(t, m)
  \/ \E t \in Threads : WaitUnlock(t)
  \/ \E t \in Threads, forever \in BOOLEAN : WaitPend(t, forever)
  \/ \E t \in Threads : WaitWoken(t)
  \/ \E t \in Threads : RelockNow(t)
  \/ \E t \in Threads : RelockRaise(t)
  \/ \E t \in Threads : LockCallReturn(t)
  \/ SignalUnpend
  \/ BroadcastUnpend
  \/ BroadcastDone
  \/ CondStoreRetval
  \/ CondReady
  \/ \E t \in Threads : MutexCall(t)
  \/ MutexStep
  \/ \E t \in Threads : LockLateStep(t)
  \/ CondEnvironment
  \/ \E t \in Victims : CondAbort(t)

CondSpec == CondInit /\ [][CondNext]_cvars

-----------------------------------------------------------------------------
(* Lost signal: "atomically releases the currently owned mutex, blocks"    *)
(* (kernel.h).  While somebody signals or broadcasts, no thread has        *)
(* released the mutex for a wait and is not yet in the queue to be found.  *)
ReleaseAndWaitAtomic ==
  csec.op \in {"signal", "broadcast"} =>
    \A t \in Threads : cv[t] # "unlocked"

(* "... and finally acquires the mutex again" (kernel.h): a wait returns   *)
(* to a thread that owns the mutex, also when it timed out.                *)
WaitReturnsOwning ==
  [][\A t \in Threads :
       (cv[t] # "no" /\ cv'[t] = "no") => owner'[cvMutex[t]] = t]_cvars

(* "Atomically releases the currently owned mutex" (kernel.h): a thread    *)
(* blocked on the condition variable does not own the mutex.               *)
WaitReleasesMutex ==
  \A t \in Threads : pendedOn[t] = Cond => owner[cvMutex[t]] # t

(* "The waiting thread unblocks only after another thread calls            *)
(* k_condvar_signal, or k_condvar_broadcast" (kernel.h), unless the wait   *)
(* has a timeout; and a signalled thread sees 0.                           *)
UnblockedBySignal ==
  \A t \in Threads :
    (cv[t] = "waiting" /\ runnable[t]) =>
      /\ cvForever[t] => signalled[t]
      /\ signalled[t] => swapRet[t] = "0"

=============================================================================
