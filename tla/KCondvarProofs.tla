--------------------------- MODULE KCondvarProofs ---------------------------
(***************************************************************************)
(* Theorems about the mutexes and about the condition variable that uses   *)
(* them, for every set of threads and mutexes, every priority assignment   *)
(* and nesting depth.  The mutexes are proved for one CPU and several.     *)
(***************************************************************************)
EXTENDS KCondvar, PendProofs

-----------------------------------------------------------------------------
(* The mutexes.                                                            *)

(* Whoever is inside a critical section runs and is in no other call. *)
SectionOK ==
  \/ sec = Free
  \/ /\ sec.st # "free"
     /\ sec.by \in Threads /\ sec.m \in Mutexes
     /\ call[sec.by] = None /\ runnable[sec.by]
     /\ sec.st \in {"unpended", "set"} => sec.th \in Threads
     /\ sec.st = "raised" => lockCount[sec.m] # 0

(* A mutex without an owner is free, and nobody waits for it. *)
FreeMutexOK ==
  \A m \in Mutexes :
    /\ owner[m] = None <=> lockCount[m] = 0
    /\ owner[m] = None => waitq[m] = <<>>

(* A thread in the wait queue of a mutex is inside k_mutex_lock() ... *)
WaitersAreCallers ==
  \A t \in Threads : pendedOn[t] \in Mutexes => call[t] = pendedOn[t]

(* ... and one whose k_mutex_lock() is about to return 0 is the owner. *)
GrantedOwns ==
  \A t \in Threads : (call[t] # None /\ swapRet[t] = "0") =>
    owner[call[t]] = t

(* Inside the last unlock the caller still is the owner, for the last time. *)
UnlockOK ==
  /\ sec.st \in {"restored", "unpended"} =>
       /\ owner[sec.m] = sec.by
       /\ lockCount[sec.m] = 1
       /\ held[sec.m][sec.by] = 0
  /\ sec.st = "unpended" => call[sec.th] = sec.m

MutexInv ==
  /\ TypeOK /\ PendInv
  /\ SectionOK /\ FreeMutexOK /\ WaitersAreCallers /\ GrantedOwns /\ UnlockOK
  /\ MutualExclusion

LEMMA MutexInitInv == MutexInit => MutexInv
<1> SUFFICES ASSUME MutexInit PROVE MutexInv
  OBVIOUS
<1> USE PendAssumption, MutexAssumption
<1>1. PendInv
  BY PendInitInv DEF MutexInit
<1>2. TypeOK
  BY <1>1 DEF MutexInit, TypeOK, PendInv, PendTypeOK, Free
<1>3. SectionOK /\ UnlockOK
  BY DEF MutexInit, SectionOK, UnlockOK, Free
<1>4. FreeMutexOK
  BY DEF MutexInit, PendInit, FreeMutexOK
<1>5. WaitersAreCallers /\ GrantedOwns /\ MutualExclusion
  BY DEF MutexInit, PendInit, WaitersAreCallers, GrantedOwns, MutualExclusion
<1>6. QED
  BY <1>1, <1>2, <1>3, <1>4, <1>5 DEF MutexInv

(* What the priority of an owner is set to is a priority. *)
LEMMA InheritedIsPrio ==
  ASSUME NEW a \in Prios, NEW b \in Prios
  PROVE  NewPrioForInheritance(a, b) \in Prios
BY MutexAssumption DEF NewPrioForInheritance

(* A step that changes only the priority of the owner of a mutex. *)
LEMMA AdjustOwnerPrioInv ==
  ASSUME PendInv, prio' \in [Threads -> Prios],
         UNCHANGED <<waitq, pendedOn, timeout, firing, suspending, swapRet,
                     runnable, halted>>
  PROVE  PendInv'
<1>1. PendTypeOK /\ QueueMatchesState /\ RunnableIsFree
  BY DEF PendInv
<1>2. PendTypeOK'
  BY <1>1 DEF PendTypeOK
<1>3. QueueMatchesState'
  BY <1>1, QueueUntouched
<1>4. RunnableIsFree'
  BY <1>1 DEF RunnableIsFree
<1>5. QED
  BY <1>2, <1>3, <1>4 DEF PendInv

LEMMA MutexNextInv ==
  ASSUME MutexInv, [MutexNext]_vars
  PROVE  MutexInv'
<1> USE PendAssumption, MutexAssumption
<1>0. /\ TypeOK /\ PendInv /\ SectionOK /\ FreeMutexOK /\ WaitersAreCallers
      /\ GrantedOwns /\ UnlockOK /\ MutualExclusion
      /\ PendTypeOK /\ QueueMatchesState /\ RunnableIsFree
  BY DEF MutexInv, PendInv
<1>1. CASE \E t \in Threads, m \in Mutexes : LockNow(t, m)
  <2>0. PICK t \in Threads, m \in Mutexes : LockNow(t, m)
    BY <1>1
  <2>1. PendInv'
    BY <1>0, <2>0, PendStutterInv DEF LockNow
  <2>2. /\ UNCHANGED <<waitq, pendedOn, swapRet, runnable, sec, call>>
        /\ sec = Free /\ call[t] = None
        /\ lockCount[m] = 0 \/ owner[m] = t
        /\ lockCount' = [lockCount EXCEPT ![m] = @ + 1]
        /\ owner' = [owner EXCEPT ![m] = t]
        /\ held' = [held EXCEPT ![m][t] = @ + 1]
    BY <2>0 DEF LockNow, Runs, Unlocked, pendVars
  <2>3. lockCount[m] \in Nat /\ lockCount[m] < MaxNest /\ held[m][t] \in Nat
    BY <1>0, <2>0 DEF LockNow, TypeOK
  <2>4. held[m][t] <= lockCount[m]
    BY <1>0, <2>2, <2>3 DEF MutualExclusion, FreeMutexOK
  <2>5. lockCount' \in [Mutexes -> 0..MaxNest] /\ held' \in [Mutexes -> [Threads -> 0..MaxNest]]
    BY <1>0, <2>2, <2>3, <2>4 DEF TypeOK
  <2>6. TypeOK'
    BY <1>0, <2>0, <2>1, <2>5 DEF LockNow, TypeOK, PendInv, PendTypeOK
  <2>7. SectionOK' /\ UnlockOK'
    BY <2>2 DEF SectionOK, UnlockOK, Free
  <2>8. FreeMutexOK'
    BY <1>0, <2>2, <2>3 DEF FreeMutexOK, TypeOK
  <2>9. WaitersAreCallers'
    BY <1>0, <2>2 DEF WaitersAreCallers
  <2>10. GrantedOwns'
    BY <1>0, <2>2 DEF GrantedOwns, FreeMutexOK, TypeOK
  <2>11. MutualExclusion'
    <3> SUFFICES ASSUME NEW n \in Mutexes, NEW u \in Threads, held'[n][u] > 0
                 PROVE  owner'[n] = u /\ lockCount'[n] >= held'[n][u]
      BY DEF MutualExclusion
    <3>1. CASE n = m /\ u = t
      BY <1>0, <2>2, <2>3, <2>4, <3>1 DEF TypeOK
    <3>2. CASE n = m /\ u # t
      BY <1>0, <2>2, <2>3, <3>2 DEF MutualExclusion, TypeOK, FreeMutexOK
    <3>3. CASE n # m
      BY <1>0, <2>2, <3>3 DEF MutualExclusion, TypeOK
    <3>4. QED
      BY <3>1, <3>2, <3>3
  <2>12. QED
    BY <2>1, <2>6, <2>7, <2>8, <2>9, <2>10, <2>11 DEF MutexInv
<1>2. CASE \E t \in Threads, m \in Mutexes : LockRaise(t, m)
  <2>0. PICK t \in Threads, m \in Mutexes : LockRaise(t, m)
    BY <1>2
  <2>1. prio' \in [Threads -> Prios]
    <3> DEFINE p == NewPrioForInheritance(prio[t], prio[owner[m]])
    <3>1. owner[m] \in Threads
      BY <1>0, <2>0 DEF LockRaise, FreeMutexOK, TypeOK
    <3>2. p \in Prios
      BY <1>0, <3>1, InheritedIsPrio DEF PendTypeOK
    <3>3. prio' = [prio EXCEPT ![owner[m]] = p] \/ prio' = prio
      BY <2>0 DEF LockRaise, AdjustOwnerPrio
    <3> HIDE DEF p
    <3>4. QED
      BY <1>0, <3>2, <3>3 DEF PendTypeOK
  <2>2. PendInv'
    BY <1>0, <2>0, <2>1, AdjustOwnerPrioInv DEF LockRaise
  <2>3. /\ UNCHANGED <<waitq, pendedOn, swapRet, runnable, owner, lockCount, call, held>>
        /\ sec' = [st |-> "raised", by |-> t, m |-> m, th |-> None]
        /\ lockCount[m] # 0 /\ call[t] = None /\ runnable[t]
    BY <2>0 DEF LockRaise, Runs
  <2>4. TypeOK'
    BY <1>0, <2>0, <2>2 DEF LockRaise, TypeOK, PendInv, PendTypeOK
  <2>5. SectionOK' /\ UnlockOK'
    BY <2>3 DEF SectionOK, UnlockOK
  <2>6. FreeMutexOK' /\ WaitersAreCallers' /\ GrantedOwns' /\ MutualExclusion'
    BY <1>0, <2>3 DEF FreeMutexOK, WaitersAreCallers, GrantedOwns, MutualExclusion
  <2>7. QED
    BY <2>2, <2>4, <2>5, <2>6 DEF MutexInv
<1>3. CASE \E forever \in BOOLEAN : LockPend(forever)
  <2>0. PICK fv \in BOOLEAN : LockPend(fv)
    BY <1>3
  <2>1. /\ sec.by \in Threads /\ sec.m \in Mutexes /\ sec.m \in WaitQs
        /\ runnable[sec.by] /\ call[sec.by] = None /\ lockCount[sec.m] # 0
    BY <1>0, <2>0 DEF LockPend, SectionOK, Free
  <2>2. PendInv'
    BY <1>0, <2>0, <2>1, PendCurrInv DEF LockPend
  <2>3. /\ waitq' = [waitq EXCEPT ![sec.m] = PriqAdd(@, sec.by, prio)]
        /\ pendedOn' = [pendedOn EXCEPT ![sec.by] = sec.m]
        /\ swapRet' = [swapRet EXCEPT ![sec.by] = "EAGAIN"]
        /\ call' = [call EXCEPT ![sec.by] = sec.m]
        /\ sec' = Free
        /\ UNCHANGED <<owner, lockCount, held>>
    BY <2>0 DEF LockPend, PendCurr
  <2>4. TypeOK'
    BY <1>0, <2>0, <2>1, <2>2 DEF LockPend, TypeOK, PendInv, Free
  <2>5. SectionOK' /\ UnlockOK'
    BY <2>3 DEF SectionOK, UnlockOK, Free
  <2>6. FreeMutexOK'
    BY <1>0, <2>1, <2>3 DEF FreeMutexOK, PendTypeOK
  <2>7. WaitersAreCallers' /\ GrantedOwns'
    BY <1>0, <2>1, <2>3 DEF WaitersAreCallers, GrantedOwns, PendTypeOK, TypeOK
  <2>8. MutualExclusion'
    BY <1>0, <2>3 DEF MutualExclusion
  <2>9. QED
    BY <2>2, <2>4, <2>5, <2>6, <2>7, <2>8 DEF MutexInv
<1>4. CASE \E t \in Threads : LockReturn(t)
  <2>0. PICK t \in Threads : LockReturn(t)
    BY <1>4
  <2>1. PendInv'
    BY <1>0, <2>0, PendStutterInv DEF LockReturn
  <2>2. /\ UNCHANGED <<waitq, pendedOn, swapRet, runnable, owner, lockCount, sec>>
        /\ call[t] # None /\ runnable[t] /\ swapRet[t] = "0"
        /\ call' = [call EXCEPT ![t] = None]
        /\ held' = [held EXCEPT ![call[t]][t] = 1]
    BY <2>0 DEF LockReturn, pendVars
  <2>3. call[t] \in Mutexes /\ owner[call[t]] = t /\ pendedOn[t] = None
    BY <1>0, <2>2 DEF GrantedOwns, TypeOK, RunnableIsFree
  <2>4. lockCount[call[t]] \in Nat /\ lockCount[call[t]] >= 1
    BY <1>0, <2>3 DEF FreeMutexOK, TypeOK
  <2>5. held' \in [Mutexes -> [Threads -> 0..MaxNest]]
    BY <1>0, <2>2, <2>3 DEF TypeOK
  <2>6. TypeOK'
    BY <1>0, <2>0, <2>1, <2>5 DEF LockReturn, TypeOK, PendInv
  <2>7. SectionOK'
    BY <1>0, <2>2, <2>3 DEF SectionOK, TypeOK, Free
  <2>8. UnlockOK'
    <3>1. CASE sec.st \in {"restored", "unpended"}
      <4>1. /\ sec.by \in Threads /\ sec.m \in Mutexes /\ call[sec.by] = None
            /\ owner[sec.m] = sec.by
        BY <1>0, <3>1 DEF SectionOK, UnlockOK, Free
      <4>2. sec.m # call[t] /\ sec.by # t
        BY <2>2, <2>3, <4>1
      <4>3. held'[sec.m][sec.by] = held[sec.m][sec.by]
        BY <1>0, <2>2, <2>3, <4>1, <4>2 DEF TypeOK
      <4>4. sec.st = "unpended" => call[sec.th] = sec.m /\ sec.th # t /\ sec.th \in Threads
        BY <1>0, <4>2 DEF UnlockOK, SectionOK, Free
      <4>5. QED
        BY <1>0, <2>2, <4>3, <4>4 DEF UnlockOK, TypeOK
    <3>2. CASE sec.st \notin {"restored", "unpended"}
      BY <2>2, <3>2 DEF UnlockOK
    <3>3. QED
      BY <3>1, <3>2
  <2>9. FreeMutexOK'
    BY <1>0, <2>2 DEF FreeMutexOK
  <2>10. WaitersAreCallers' /\ GrantedOwns'
    BY <1>0, <2>2, <2>3 DEF WaitersAreCallers, GrantedOwns, TypeOK
  <2>11. MutualExclusion'
    BY <1>0, <2>2, <2>3, <2>4 DEF MutualExclusion, TypeOK
  <2>12. QED
    BY <2>1, <2>6, <2>7, <2>8, <2>9, <2>10, <2>11 DEF MutexInv
<1>5. CASE \E t \in Threads : LockLate(t)
  <2>0. PICK t \in Threads : LockLate(t)
    BY <1>5
  <2>1. PendInv'
    BY <1>0, <2>0, PendStutterInv DEF LockLate
  <2>2. UNCHANGED <<waitq, pendedOn, swapRet, runnable, owner, lockCount, sec, call, held>>
    BY <2>0 DEF LockLate, pendVars
  <2>3. TypeOK'
    BY <1>0, <2>0, <2>1 DEF LockLate, TypeOK, PendInv
  <2>4. SectionOK' /\ UnlockOK'
    BY <1>0, <2>2 DEF SectionOK, UnlockOK
  <2>5. FreeMutexOK' /\ WaitersAreCallers' /\ GrantedOwns' /\ MutualExclusion'
    BY <1>0, <2>2 DEF FreeMutexOK, WaitersAreCallers, GrantedOwns, MutualExclusion
  <2>6. QED
    BY <2>1, <2>3, <2>4, <2>5 DEF MutexInv
<1>6. CASE \E t \in Threads : LockTimedOut(t)
  <2>0. PICK t \in Threads : LockTimedOut(t)
    BY <1>6
  <2>1. call[t] \in Mutexes /\ runnable[t] /\ pendedOn[t] = None
    BY <1>0, <2>0 DEF LockTimedOut, TypeOK, RunnableIsFree
  <2>2. prio' \in [Threads -> Prios]
    <3> DEFINE p == NewPrioForInheritance(prio[Head(waitq[call[t]])], origPrio[call[t]])
    <3>1. waitq[call[t]] # <<>> => Head(waitq[call[t]]) \in Threads
      BY <1>0, <2>1, HeadFacts
    <3>2. origPrio[call[t]] \in Prios /\ (waitq[call[t]] # <<>> => p \in Prios)
      BY <1>0, <2>1, <3>1, InheritedIsPrio DEF PendTypeOK, TypeOK
    <3>3. \/ prio' = prio
          \/ waitq[call[t]] = <<>> /\ prio' = [prio EXCEPT ![owner[call[t]]] = origPrio[call[t]]]
          \/ waitq[call[t]] # <<>> /\ prio' = [prio EXCEPT ![owner[call[t]]] = p]
      BY <2>0 DEF LockTimedOut, AdjustOwnerPrio
    <3> HIDE DEF p
    <3>4. QED
      BY <1>0, <3>2, <3>3 DEF PendTypeOK
  <2>3. PendInv'
    BY <1>0, <2>0, <2>2, AdjustOwnerPrioInv DEF LockTimedOut
  <2>4. /\ UNCHANGED <<waitq, pendedOn, swapRet, runnable, owner, lockCount, sec, held>>
        /\ sec = Free
        /\ call' = [call EXCEPT ![t] = None]
    BY <2>0 DEF LockTimedOut, Unlocked
  <2>5. TypeOK'
    BY <1>0, <2>0, <2>1, <2>3 DEF LockTimedOut, TypeOK, PendInv
  <2>6. SectionOK' /\ UnlockOK'
    BY <2>4 DEF SectionOK, UnlockOK, Free
  <2>7. FreeMutexOK' /\ MutualExclusion'
    BY <1>0, <2>4 DEF FreeMutexOK, MutualExclusion
  <2>8. WaitersAreCallers' /\ GrantedOwns'
    BY <1>0, <2>1, <2>4 DEF WaitersAreCallers, GrantedOwns, TypeOK
  <2>9. QED
    BY <2>3, <2>5, <2>6, <2>7, <2>8 DEF MutexInv
<1>7. CASE \E t \in Threads, m \in Mutexes : UnlockNested(t, m)
  <2>0. PICK t \in Threads, m \in Mutexes : UnlockNested(t, m)
    BY <1>7
  <2>1. PendInv'
    BY <1>0, <2>0, PendStutterInv DEF UnlockNested
  <2>2. /\ UNCHANGED <<waitq, pendedOn, swapRet, runnable, owner, sec, call>>
        /\ call[t] = None /\ sec.by # t /\ owner[m] = t /\ lockCount[m] > 1
        /\ lockCount' = [lockCount EXCEPT ![m] = @ - 1]
        /\ held' = [held EXCEPT ![m][t] = Less(@)]
    BY <2>0 DEF UnlockNested, Runs, pendVars
  <2>3. /\ lockCount[m] \in Nat /\ held[m][t] \in 0..MaxNest
        /\ Less(held[m][t]) \in 0..MaxNest
        /\ held[m][t] > 0 => Less(held[m][t]) = held[m][t] - 1
        /\ held[m][t] = 0 => Less(held[m][t]) = 0
    BY <1>0 DEF TypeOK, Less
  <2>4. lockCount' \in [Mutexes -> 0..MaxNest] /\ held' \in [Mutexes -> [Threads -> 0..MaxNest]]
    BY <1>0, <2>2, <2>3 DEF TypeOK
  <2>5. TypeOK'
    BY <1>0, <2>0, <2>1, <2>4 DEF UnlockNested, TypeOK, PendInv
  <2>6. SectionOK'
    BY <1>0, <2>2, <2>3 DEF SectionOK, TypeOK
  <2>7. UnlockOK'
    <3>1. CASE sec.st \in {"restored", "unpended"}
      <4>1. sec.m \in Mutexes /\ sec.m # m
        BY <1>0, <2>2, <3>1 DEF SectionOK, UnlockOK, Free
      <4>2. QED
        BY <1>0, <2>2, <4>1 DEF UnlockOK, TypeOK
    <3>2. CASE sec.st \notin {"restored", "unpended"}
      BY <2>2, <3>2 DEF UnlockOK
    <3>3. QED
      BY <3>1, <3>2
  <2>8. FreeMutexOK' /\ WaitersAreCallers' /\ GrantedOwns'
    BY <1>0, <2>2, <2>3 DEF FreeMutexOK, WaitersAreCallers, GrantedOwns, TypeOK
  <2>9. MutualExclusion'
    <3> SUFFICES ASSUME NEW n \in Mutexes, NEW u \in Threads, held'[n][u] > 0
                 PROVE  owner'[n] = u /\ lockCount'[n] >= held'[n][u]
      BY DEF MutualExclusion
    <3>1. CASE n = m /\ u = t
      BY <1>0, <2>2, <2>3, <3>1 DEF TypeOK, MutualExclusion
    <3>2. CASE n = m /\ u # t
      BY <1>0, <2>2, <2>3, <3>2 DEF MutualExclusion, TypeOK
    <3>3. CASE n # m
      BY <1>0, <2>2, <3>3 DEF MutualExclusion, TypeOK
    <3>4. QED
      BY <3>1, <3>2, <3>3
  <2>10. QED
    BY <2>1, <2>5, <2>6, <2>7, <2>8, <2>9 DEF MutexInv
<1>8. CASE \E t \in Threads, m \in Mutexes : UnlockRestore(t, m)
  <2>0. PICK t \in Threads, m \in Mutexes : UnlockRestore(t, m)
    BY <1>8
  <2>1. prio' \in [Threads -> Prios]
    BY <1>0, <2>0 DEF UnlockRestore, AdjustOwnerPrio, PendTypeOK, TypeOK
  <2>2. PendInv'
    BY <1>0, <2>0, <2>1, AdjustOwnerPrioInv DEF UnlockRestore
  <2>3. /\ UNCHANGED <<waitq, pendedOn, swapRet, runnable, owner, lockCount, call>>
        /\ call[t] = None /\ runnable[t] /\ owner[m] = t /\ lockCount[m] = 1
        /\ sec' = [st |-> "restored", by |-> t, m |-> m, th |-> None]
        /\ held' = [held EXCEPT ![m][t] = Less(@)]
    BY <2>0 DEF UnlockRestore, Runs
  <2>4. held[m][t] \in {0, 1} /\ Less(held[m][t]) = 0
    BY <1>0, <2>3 DEF TypeOK, MutualExclusion, Less
  <2>5. held' = [held EXCEPT ![m][t] = 0] /\ held' \in [Mutexes -> [Threads -> 0..MaxNest]]
    BY <1>0, <2>3, <2>4 DEF TypeOK
  <2>6. TypeOK'
    BY <1>0, <2>0, <2>2, <2>5 DEF UnlockRestore, TypeOK, PendInv
  <2>7. SectionOK' /\ UnlockOK'
    BY <1>0, <2>3, <2>5 DEF SectionOK, UnlockOK, TypeOK
  <2>8. FreeMutexOK' /\ WaitersAreCallers' /\ GrantedOwns'
    BY <1>0, <2>3 DEF FreeMutexOK, WaitersAreCallers, GrantedOwns
  <2>9. MutualExclusion'
    BY <1>0, <2>3, <2>5 DEF MutualExclusion, TypeOK
  <2>10. QED
    BY <2>2, <2>6, <2>7, <2>8, <2>9 DEF MutexInv
<1>9. CASE UnlockFree
  <2>1. PendInv'
    BY <1>0, <1>9, PendStutterInv DEF UnlockFree
  <2>2. /\ UNCHANGED <<waitq, pendedOn, swapRet, runnable, call, held>>
        /\ waitq[sec.m] = <<>> /\ sec' = Free
        /\ owner' = [owner EXCEPT ![sec.m] = None]
        /\ lockCount' = [lockCount EXCEPT ![sec.m] = 0]
    BY <1>9 DEF UnlockFree, pendVars
  <2>3. /\ sec.m \in Mutexes /\ sec.by \in Threads /\ call[sec.by] = None
        /\ owner[sec.m] = sec.by /\ held[sec.m][sec.by] = 0
    BY <1>0, <1>9 DEF UnlockFree, SectionOK, UnlockOK, Free
  <2>4. TypeOK'
    BY <1>0, <1>9, <2>1, <2>3 DEF UnlockFree, TypeOK, PendInv, Free
  <2>5. SectionOK' /\ UnlockOK'
    BY <2>2 DEF SectionOK, UnlockOK, Free
  <2>6. FreeMutexOK'
    BY <1>0, <2>2, <2>3 DEF FreeMutexOK, TypeOK
  <2>7. WaitersAreCallers' /\ GrantedOwns'
    BY <1>0, <2>2, <2>3 DEF WaitersAreCallers, GrantedOwns, TypeOK
  <2>8. MutualExclusion'
    BY <1>0, <2>2, <2>3 DEF MutualExclusion, TypeOK
  <2>9. QED
    BY <2>1, <2>4, <2>5, <2>6, <2>7, <2>8 DEF MutexInv
<1>10. CASE UnlockUnpend
  <2>1. /\ sec.m \in Mutexes /\ sec.m \in WaitQs /\ sec.by \in Threads
        /\ call[sec.by] = None /\ runnable[sec.by]
        /\ owner[sec.m] = sec.by /\ lockCount[sec.m] = 1 /\ held[sec.m][sec.by] = 0
    BY <1>0, <1>10 DEF UnlockUnpend, SectionOK, UnlockOK, Free
  <2>2. PendInv'
    BY <1>0, <1>10, <2>1, UnpendFirstInv DEF UnlockUnpend
  <2>3. PICK h \in Threads : h = Head(waitq[sec.m]) /\ pendedOn[h] = sec.m
    BY <1>0, <1>10, <2>1, HeadFacts DEF UnlockUnpend, UnpendFirst
  <2>4. /\ UNCHANGED <<swapRet, runnable, owner, lockCount, call, held>>
        /\ waitq' = [waitq EXCEPT ![sec.m] = Tail(@)]
        /\ pendedOn' = [pendedOn EXCEPT ![h] = None]
        /\ sec' = [sec EXCEPT !.st = "unpended", !.th = h]
    BY <1>10, <2>3 DEF UnlockUnpend, UnpendFirst
  <2>5. sec'.st = "unpended" /\ sec'.th = h /\ sec'.by = sec.by /\ sec'.m = sec.m
    BY <1>0, <2>4 DEF TypeOK
  <2>6. TypeOK'
    BY <1>0, <1>10, <2>2, <2>3 DEF UnlockUnpend, TypeOK, PendInv
  <2>7. SectionOK' /\ UnlockOK'
    BY <1>0, <2>1, <2>3, <2>4, <2>5 DEF SectionOK, UnlockOK, WaitersAreCallers
  <2>8. FreeMutexOK'
    BY <1>0, <2>1, <2>4 DEF FreeMutexOK, PendTypeOK
  <2>9. WaitersAreCallers' /\ GrantedOwns' /\ MutualExclusion'
    BY <1>0, <2>4 DEF WaitersAreCallers, GrantedOwns, MutualExclusion, PendTypeOK
  <2>10. QED
    BY <2>2, <2>6, <2>7, <2>8, <2>9 DEF MutexInv
<1>11. CASE UnlockHandOver
  <2>1. /\ sec.m \in Mutexes /\ sec.by \in Threads /\ sec.th \in Threads
        /\ call[sec.by] = None /\ runnable[sec.by] /\ call[sec.th] = sec.m
        /\ owner[sec.m] = sec.by /\ lockCount[sec.m] = 1 /\ held[sec.m][sec.by] = 0
    BY <1>0, <1>11 DEF UnlockHandOver, SectionOK, UnlockOK, Free
  <2>2. PendInv'
    BY <1>0, <1>11, SetRetvalInv DEF UnlockHandOver, RetVals
  <2>3. /\ UNCHANGED <<waitq, pendedOn, runnable, lockCount, call, held>>
        /\ swapRet' = [swapRet EXCEPT ![sec.th] = "0"]
        /\ owner' = [owner EXCEPT ![sec.m] = sec.th]
        /\ sec' = [sec EXCEPT !.st = "set"]
    BY <1>11 DEF UnlockHandOver, SetRetval
  <2>4. sec'.st = "set" /\ sec'.th = sec.th /\ sec'.by = sec.by /\ sec'.m = sec.m
    BY <1>0, <2>3 DEF TypeOK
  <2>5. TypeOK'
    BY <1>0, <1>11, <2>1, <2>2 DEF UnlockHandOver, TypeOK, PendInv, PendTypeOK
  <2>6. SectionOK' /\ UnlockOK'
    BY <2>1, <2>3, <2>4 DEF SectionOK, UnlockOK
  <2>7. FreeMutexOK' /\ WaitersAreCallers'
    BY <1>0, <2>1, <2>3 DEF FreeMutexOK, WaitersAreCallers, TypeOK
  <2>8. GrantedOwns'
    BY <1>0, <2>1, <2>3, SMTT(30) DEF GrantedOwns, TypeOK, PendTypeOK
  <2>9. MutualExclusion'
    BY <1>0, <2>1, <2>3 DEF MutualExclusion, TypeOK
  <2>10. QED
    BY <2>2, <2>5, <2>6, <2>7, <2>8, <2>9 DEF MutexInv
<1>12. CASE UnlockReady
  <2>1. PendInv'
    BY <1>0, <1>12, ReadyThreadInv DEF UnlockReady
  <2>2. /\ UNCHANGED <<waitq, pendedOn, swapRet, owner, lockCount, call, held>>
        /\ sec' = Free
    BY <1>12 DEF UnlockReady, ReadyThread
  <2>3. TypeOK'
    BY <1>0, <1>12, <2>1 DEF UnlockReady, TypeOK, PendInv, Free
  <2>4. SectionOK' /\ UnlockOK'
    BY <2>2 DEF SectionOK, UnlockOK, Free
  <2>5. FreeMutexOK' /\ WaitersAreCallers' /\ GrantedOwns' /\ MutualExclusion'
    BY <1>0, <2>2 DEF FreeMutexOK, WaitersAreCallers, GrantedOwns, MutualExclusion
  <2>6. QED
    BY <2>1, <2>3, <2>4, <2>5 DEF MutexInv
<1>13. CASE Environment
  <2>1. PendInv' /\ PendTypeOK'
    BY <1>0, <1>13, OutsideInv DEF Environment, PendInv
  <2>2. /\ swapRet' = swapRet
        /\ \A t \in Threads : pendedOn'[t] \in {pendedOn[t], None}
        /\ sec.by # None => (runnable[sec.by] => runnable'[sec.by] \/ sec.by \notin Threads)
    BY <1>0, <1>13, OutsideFacts DEF Environment
  <2>3. UNCHANGED <<owner, lockCount, sec, call, held>>
    BY <1>13 DEF Environment
  <2>4. base' \in [Threads -> Prios]
    BY <1>0, <1>13, <2>1 DEF Environment, TypeOK, PendTypeOK
  <2>5. TypeOK'
    BY <1>0, <1>13, <2>1, <2>4 DEF Environment, TypeOK
  <2>6. SectionOK' /\ UnlockOK'
    BY <1>0, <2>2, <2>3 DEF SectionOK, UnlockOK
  <2>7. FreeMutexOK'
    <3>1. \A m \in Mutexes : waitq[m] = <<>> => waitq'[m] = <<>>
      BY <1>0, <1>13, OutsideKeepsEmpty DEF Environment
    <3>2. QED
      BY <1>0, <2>3, <3>1 DEF FreeMutexOK
  <2>8. WaitersAreCallers' /\ GrantedOwns' /\ MutualExclusion'
    BY <1>0, <2>2, <2>3 DEF WaitersAreCallers, GrantedOwns, MutualExclusion
  <2>9. QED
    BY <2>1, <2>5, <2>6, <2>7, <2>8 DEF MutexInv
<1>14. CASE \E t \in Victims : AbortThread(t)
  <2>0. PICK t \in Threads : AbortThread(t)
    BY <1>14
  <2>1. PendInv'
    BY <1>0, <2>0, AbortInv DEF AbortThread
  <2>2. /\ swapRet' = swapRet /\ pendedOn'[t] = None
        /\ \A u \in Threads : u # t =>
             pendedOn'[u] = pendedOn[u] /\ runnable'[u] = runnable[u]
    BY <1>0, <2>0, AbortFacts DEF AbortThread
  <2>3. UNCHANGED <<owner, lockCount, sec, call, held>> /\ sec.by # t
    BY <2>0 DEF AbortThread, mutexVars
  <2>4. TypeOK'
    BY <1>0, <2>0, <2>1 DEF AbortThread, TypeOK, PendInv, mutexVars
  <2>5. SectionOK' /\ UnlockOK'
    BY <1>0, <2>2, <2>3 DEF SectionOK, UnlockOK
  <2>6. FreeMutexOK'
    <3>1. \A m \in Mutexes : waitq[m] = <<>> => waitq'[m] = <<>>
      BY <1>0, <2>0, UnpendKeepsEmpty DEF AbortThread, Abort
    <3>2. QED
      BY <1>0, <2>3, <3>1 DEF FreeMutexOK
  <2>7. WaitersAreCallers' /\ GrantedOwns' /\ MutualExclusion'
    BY <1>0, <2>2, <2>3 DEF WaitersAreCallers, GrantedOwns, MutualExclusion
  <2>8. QED
    BY <2>1, <2>4, <2>5, <2>6, <2>7 DEF MutexInv
<1>15. CASE UNCHANGED vars
  <2>1. PendInv'
    BY <1>0, <1>15, PendStutterInv DEF vars
  <2>2. /\ UNCHANGED mutexVars
        /\ UNCHANGED <<waitq, pendedOn, swapRet, runnable>>
    BY <1>15 DEF vars, pendVars
  <2>3. TypeOK'
    BY <1>0, <2>1, <2>2 DEF TypeOK, PendInv, mutexVars
  <2>4. SectionOK' /\ UnlockOK' /\ FreeMutexOK'
    BY <1>0, <2>2 DEF SectionOK, UnlockOK, FreeMutexOK, mutexVars
  <2>5. WaitersAreCallers' /\ GrantedOwns' /\ MutualExclusion'
    BY <1>0, <2>2 DEF WaitersAreCallers, GrantedOwns, MutualExclusion, mutexVars
  <2>6. QED
    BY <2>1, <2>3, <2>4, <2>5 DEF MutexInv
<1>16. QED
  BY <1>1, <1>2, <1>3, <1>4, <1>5, <1>6, <1>7, <1>8, <1>9, <1>10, <1>11, <1>12,
     <1>13, <1>14, <1>15 DEF MutexNext

(* Type correctness of the mutexes: in particular the lock count stays     *)
(* within its bound and the owner's priority is one of the priorities.     *)
THEOREM MutexTypeCorrect == MutexSpec => []TypeOK
<1>1. MutexInv => TypeOK
  BY DEF MutexInv
<1>2. QED
  BY MutexInitInv, MutexNextInv, <1>1, PTL DEF MutexSpec

(* Mutual exclusion for any number of CPUs, threads and mutexes: whoever   *)
(* has locked a mutex owns it, and its lock_count covers all its locks,    *)
(* although timeouts, suspensions and aborts hit lock calls at any step of *)
(* a hand-over, and nested unlocks take no lock.                           *)
THEOREM MutexExcludes == MutexSpec => []MutualExclusion
<1>1. MutexInv => MutualExclusion
  BY DEF MutexInv
<1>2. QED
  BY MutexInitInv, MutexNextInv, <1>1, PTL DEF MutexSpec

(* No lost wakeup: nobody waits for a mutex that has no owner. *)
THEOREM MutexNoLostWakeup == MutexSpec => []NoWaiterOnFreeMutex
<1>1. MutexInv => NoWaiterOnFreeMutex
  BY DEF MutexInv, FreeMutexOK, NoWaiterOnFreeMutex
<1>2. QED
  BY MutexInitInv, MutexNextInv, <1>1, PTL DEF MutexSpec

(* Wait queues and thread states agree. *)
THEOREM MutexQueueMatches == MutexSpec => [](QueueMatchesState /\ RunnableIsFree)
<1>1. MutexInv => QueueMatchesState /\ RunnableIsFree
  BY DEF MutexInv, PendInv
<1>2. QED
  BY MutexInitInv, MutexNextInv, <1>1, PTL DEF MutexSpec

-----------------------------------------------------------------------------
(* Priority inheritance, for one mutex and where nobody changes a priority *)
(* with k_thread_priority_set(): with two mutexes unlocked in another      *)
(* order than they were locked, or a priority set while it is raised, the  *)
(* owner_orig_prio of mutex.c is not the priority to go back to.           *)

(* The owner, and the next owner, are not among the waiters. *)
OwnerDoesNotWait(m) ==
  /\ \A t \in Threads : pendedOn[t] = m => owner[m] # t
  /\ sec.st = "unpended" => pendedOn[sec.th] # m
  /\ sec.st = "raised" => owner[m] # sec.by

(* Only the owner has a priority that is not its own, and the mutex knows  *)
(* the owner's.                                                            *)
OnlyOwnerInherits(m) ==
  /\ \A t \in Threads : owner[m] # t => prio[t] = base[t]
  /\ owner[m] # None => origPrio[m] = base[owner[m]]
  /\ sec.st \in {"restored", "unpended"} => prio[sec.by] = base[sec.by]
  /\ sec.st = "unpended" => sec.th # sec.by
  /\ sec.st = "set" => owner[m] = sec.th

(* u is not outranked by t, as far as the ceiling lets it inherit. *)
Outranks(u, t) == prio[u] <= prio[t] \/ prio[u] <= Ceiling

NotOutranked(m) ==
  /\ sec.st \in {"free", "raised"} =>
       \A t \in Threads : pendedOn[t] = m => Outranks(owner[m], t)
  /\ sec.st = "raised" => Outranks(owner[m], sec.by)
  /\ sec.st \in {"unpended", "set"} =>
       \A t \in Threads : pendedOn[t] = m => prio[sec.th] <= prio[t]

PrioInv(m) ==
  /\ InPrioOrder(waitq[m], prio)
  /\ OwnerDoesNotWait(m) /\ OnlyOwnerInherits(m) /\ NotOutranked(m)

(* The first waiter has the highest priority of all. *)
LEMMA HeadOutranksWaiters ==
  ASSUME PendInv, NEW w \in WaitQs, waitq[w] # <<>>, InPrioOrder(waitq[w], prio),
         NEW t \in Threads, pendedOn[t] = w
  PROVE  prio[Head(waitq[w])] <= prio[t]
<1>1. PendTypeOK /\ QueueMatchesState
  BY DEF PendInv
<1>2. PICK i \in 1..Len(waitq[w]) : waitq[w][i] = t
  BY <1>1, PendAssumption DEF QueueMatchesState
<1>3. waitq[w] \in Seq(Threads)
  BY <1>1 DEF PendTypeOK
<1>4. 1 \in 1..Len(waitq[w]) /\ 1 <= i /\ Head(waitq[w]) = waitq[w][1]
  BY <1>3
<1>5. QED
  BY <1>2, <1>4 DEF InPrioOrder

(* Changing the priority of a thread that is not queued leaves the queue   *)
(* in order.                                                               *)
LEMMA OwnerPrioOrder ==
  ASSUME PendInv, NEW w \in WaitQs, InPrioOrder(waitq[w], prio), waitq' = waitq,
         \A t \in Threads : pendedOn[t] = w => prio'[t] = prio[t]
  PROVE  InPrioOrder(waitq[w], prio)'
<1>1. PendTypeOK /\ QueueMatchesState
  BY DEF PendInv
<1>2. waitq[w] \in Seq(Threads)
  BY <1>1 DEF PendTypeOK
<1>3. \A i \in 1..Len(waitq[w]) : waitq[w][i] \in Threads /\ pendedOn[waitq[w][i]] = w
  BY <1>1, <1>2 DEF QueueMatchesState
<1>4. \A i \in 1..Len(waitq[w]) : prio'[waitq[w][i]] = prio[waitq[w][i]]
  BY <1>3
<1>5. QED
  BY <1>4 DEF InPrioOrder

LEMMA PrioNext ==
  ASSUME NewPrios = {}, NEW m, Mutexes = {m}, MutexInv, PrioInv(m), [MutexNext]_vars
  PROVE  PrioInv(m)'
<1> USE PendAssumption, MutexAssumption
<1>0. /\ TypeOK /\ PendInv /\ SectionOK /\ FreeMutexOK /\ WaitersAreCallers
      /\ GrantedOwns /\ UnlockOK
      /\ PendTypeOK /\ QueueMatchesState /\ RunnableIsFree
      /\ m \in Mutexes /\ m \in WaitQs /\ m # None
      /\ InPrioOrder(waitq[m], prio)
      /\ OwnerDoesNotWait(m) /\ OnlyOwnerInherits(m) /\ NotOutranked(m)
      /\ sec # Free => sec.m = m /\ sec.by \in Threads
      /\ sec.st = "unpended" => sec.th \in Threads
  BY DEF MutexInv, PendInv, PrioInv, SectionOK, Free
<1>a. /\ \A t \in Threads : prio[t] \in Int
      /\ Ceiling \in Int /\ owner[m] \in Threads \cup {None} /\ origPrio[m] \in Int
  BY <1>0 DEF PendTypeOK, TypeOK
<1>1. ASSUME UNCHANGED <<prio, base, waitq, pendedOn, owner, origPrio, sec>>
      PROVE  PrioInv(m)'
  BY <1>0, <1>1 DEF PrioInv, InPrioOrder, OwnerDoesNotWait, OnlyOwnerInherits,
                    NotOutranked, Outranks
<1>2. CASE \E t \in Threads, n \in Mutexes : LockNow(t, n)
  <2>0. PICK t \in Threads : LockNow(t, m)
    BY <1>2, <1>0
  <2>1. /\ UNCHANGED <<prio, base, waitq, pendedOn, sec>> /\ sec = Free
        /\ lockCount[m] = 0 \/ owner[m] = t
        /\ owner' = [owner EXCEPT ![m] = t]
        /\ origPrio' = [origPrio EXCEPT ![m] = IF lockCount[m] = 0 THEN prio[t] ELSE @]
        /\ runnable[t]
    BY <2>0 DEF LockNow, Runs, Unlocked, pendVars
  <2>2. owner'[m] = t /\ pendedOn[t] = None
    BY <1>0, <2>1 DEF TypeOK, RunnableIsFree
  <2>3. lockCount[m] = 0 => owner[m] = None /\ \A u \in Threads : pendedOn[u] # m
    BY <1>0 DEF FreeMutexOK, QueueMatchesState
  <2>4. InPrioOrder(waitq[m], prio)'
    BY <1>0, <2>1 DEF InPrioOrder
  <2>5. OwnerDoesNotWait(m)'
    BY <1>0, <2>1, <2>2 DEF OwnerDoesNotWait, Free
  <2>6. OnlyOwnerInherits(m)'
    <3>1. origPrio'[m] = base[t]
      BY <1>0, <2>1, <2>3 DEF OnlyOwnerInherits, TypeOK
    <3>2. \A u \in Threads : u # t => prio[u] = base[u]
      BY <1>0, <2>1, <2>3 DEF OnlyOwnerInherits
    <3>3. QED
      BY <2>1, <2>2, <3>1, <3>2 DEF OnlyOwnerInherits, Free
  <2>7. NotOutranked(m)'
    BY <1>0, <2>1, <2>2, <2>3 DEF NotOutranked, Outranks, Free
  <2>8. QED
    BY <2>4, <2>5, <2>6, <2>7 DEF PrioInv
<1>3. CASE \E t \in Threads, n \in Mutexes : LockRaise(t, n)
  <2>0. PICK t \in Threads : LockRaise(t, m)
    BY <1>3, <1>0
  <2> DEFINE p == NewPrioForInheritance(prio[t], prio[owner[m]])
  <2>1. /\ UNCHANGED <<base, waitq, pendedOn, owner, origPrio>> /\ sec = Free
        /\ lockCount[m] # 0 /\ owner[m] # t
        /\ sec' = [st |-> "raised", by |-> t, m |-> m, th |-> None]
        /\ prio' = IF p < prio[owner[m]] THEN [prio EXCEPT ![owner[m]] = p] ELSE prio
    BY <2>0 DEF LockRaise, Unlocked, AdjustOwnerPrio
  <2>2. owner[m] \in Threads
    BY <1>0, <1>a, <2>1 DEF FreeMutexOK
  <2>3. /\ p \in Int /\ p \in Prios
        /\ p <= prio[t] \/ p <= Ceiling
        /\ p >= prio[owner[m]] => prio[owner[m]] <= prio[t] \/ prio[owner[m]] <= Ceiling
    BY <1>0, <1>a, <2>2 DEF NewPrioForInheritance, PendTypeOK
  <2> HIDE DEF p
  <2>4. /\ prio'[owner[m]] <= prio[owner[m]]
        /\ prio'[owner[m]] \in Int
        /\ prio'[owner[m]] <= prio[t] \/ prio'[owner[m]] <= Ceiling
        /\ \A u \in Threads : u # owner[m] => prio'[u] = prio[u]
    BY <1>0, <1>a, <2>1, <2>2, <2>3 DEF PendTypeOK
  <2>5. InPrioOrder(waitq[m], prio)'
    <3>1. \A u \in Threads : pendedOn[u] = m => prio'[u] = prio[u]
      BY <1>0, <2>4 DEF OwnerDoesNotWait
    <3>2. QED
      BY <1>0, <2>1, <3>1, OwnerPrioOrder
  <2>6. OwnerDoesNotWait(m)'
    BY <1>0, <2>1 DEF OwnerDoesNotWait
  <2>7. OnlyOwnerInherits(m)'
    BY <1>0, <2>1, <2>2, <2>4 DEF OnlyOwnerInherits
  <2>8. NotOutranked(m)'
    <3>1. Outranks(owner[m], t)'
      BY <1>0, <2>0, <2>1, <2>2, <2>4 DEF Outranks
    <3>2. \A u \in Threads : pendedOn[u] = m => prio'[u] = prio[u] /\ Outranks(owner[m], u)
      BY <1>0, <2>1, <2>4 DEF NotOutranked, OwnerDoesNotWait, Free
    <3>3. \A u \in Threads : pendedOn[u] = m => Outranks(owner[m], u)'
      BY <1>a, <2>1, <2>2, <2>4, <3>2 DEF Outranks
    <3>4. QED
      BY <2>1, <3>1, <3>3 DEF NotOutranked
  <2>9. QED
    BY <2>5, <2>6, <2>7, <2>8 DEF PrioInv
<1>4. CASE \E forever \in BOOLEAN : LockPend(forever)
  <2>0. PICK fv \in BOOLEAN : LockPend(fv)
    BY <1>4
  <2>1. sec.by \in Threads /\ sec.m = m /\ sec.st = "raised"
    BY <1>0, <2>0 DEF LockPend, Free
  <2>2. /\ UNCHANGED <<prio, base, owner, origPrio>> /\ sec' = Free
        /\ pendedOn' = [pendedOn EXCEPT ![sec.by] = m]
    BY <2>0, <2>1 DEF LockPend, PendCurr
  <2>3. InPrioOrder(waitq[m], prio)'
    BY <1>0, <2>0, <2>1, PendCurrOrder DEF LockPend
  <2>4. OwnerDoesNotWait(m)'
    BY <1>0, <2>1, <2>2 DEF OwnerDoesNotWait, Free, PendTypeOK
  <2>5. OnlyOwnerInherits(m)'
    BY <1>0, <2>2 DEF OnlyOwnerInherits, Free
  <2>6. NotOutranked(m)'
    BY <1>0, <2>1, <2>2 DEF NotOutranked, Outranks, Free, PendTypeOK
  <2>7. QED
    BY <2>3, <2>4, <2>5, <2>6 DEF PrioInv
<1>5. CASE \E t \in Threads : LockTimedOut(t)
  <2>0. PICK t \in Threads : LockTimedOut(t)
    BY <1>5
  <2> DEFINE p == IF waitq[m] = <<>> THEN origPrio[m]
                  ELSE NewPrioForInheritance(prio[Head(waitq[m])], origPrio[m])
  <2>1. call[t] = m
    BY <1>0, <2>0 DEF LockTimedOut, TypeOK
  <2>2. /\ UNCHANGED <<base, waitq, pendedOn, owner, origPrio, sec>> /\ sec = Free
        /\ prio' = IF owner[m] = None THEN prio ELSE [prio EXCEPT ![owner[m]] = p]
    BY <2>0, <2>1 DEF LockTimedOut, Unlocked, AdjustOwnerPrio
  <2>3. CASE owner[m] = None
    BY <1>1, <2>2, <2>3
  <2>4. CASE owner[m] # None
    <3>1. owner[m] \in Threads /\ prio' = [prio EXCEPT ![owner[m]] = p]
      BY <1>a, <2>2, <2>4
    <3>2. ASSUME NEW u \in Threads, pendedOn[u] = m
          PROVE  p <= prio[u] \/ p <= Ceiling
      <4>1. waitq[m] # <<>>
        BY <1>0, <3>2 DEF QueueMatchesState
      <4>2. prio[Head(waitq[m])] <= prio[u] /\ prio[Head(waitq[m])] \in Int
        BY <1>0, <1>a, <3>2, <4>1, HeadOutranksWaiters, HeadFacts
      <4>3. QED
        BY <1>a, <4>1, <4>2 DEF NewPrioForInheritance
    <3> HIDE DEF p
    <3>3. /\ prio'[owner[m]] = p
          /\ \A u \in Threads : u # owner[m] => prio'[u] = prio[u]
      BY <1>0, <3>1 DEF PendTypeOK
    <3>4. InPrioOrder(waitq[m], prio)'
      <4>1. \A u \in Threads : pendedOn[u] = m => prio'[u] = prio[u]
        BY <1>0, <3>3 DEF OwnerDoesNotWait
      <4>2. QED
        BY <1>0, <2>2, <4>1, OwnerPrioOrder
    <3>5. OwnerDoesNotWait(m)'
      BY <1>0, <2>2 DEF OwnerDoesNotWait
    <3>6. OnlyOwnerInherits(m)'
      BY <1>0, <2>2, <3>3 DEF OnlyOwnerInherits, Free
    <3>7. NotOutranked(m)'
      <4>1. \A u \in Threads : pendedOn[u] = m => prio'[u] = prio[u]
        BY <1>0, <3>3 DEF OwnerDoesNotWait
      <4>2. QED
        BY <2>2, <3>2, <3>3, <4>1 DEF NotOutranked, Outranks, Free
    <3>8. QED
      BY <3>4, <3>5, <3>6, <3>7 DEF PrioInv
  <2>5. QED
    BY <2>3, <2>4
<1>6. CASE \E t \in Threads, n \in Mutexes : UnlockRestore(t, n)
  <2>0. PICK t \in Threads : UnlockRestore(t, m)
    BY <1>6, <1>0
  <2>1. /\ UNCHANGED <<base, waitq, pendedOn, owner, origPrio>> /\ owner[m] = t
        /\ sec' = [st |-> "restored", by |-> t, m |-> m, th |-> None]
        /\ prio' = [prio EXCEPT ![t] = origPrio[m]]
    BY <2>0 DEF UnlockRestore, AdjustOwnerPrio
  <2>2. InPrioOrder(waitq[m], prio)'
    <3>1. \A u \in Threads : pendedOn[u] = m => prio'[u] = prio[u]
      BY <1>0, <2>1 DEF OwnerDoesNotWait, PendTypeOK
    <3>2. QED
      BY <1>0, <2>1, <3>1, OwnerPrioOrder
  <2>3. OwnerDoesNotWait(m)'
    BY <1>0, <2>1 DEF OwnerDoesNotWait
  <2>4. OnlyOwnerInherits(m)'
    BY <1>0, <2>1 DEF OnlyOwnerInherits, PendTypeOK
  <2>5. NotOutranked(m)'
    BY <2>1 DEF NotOutranked
  <2>6. QED
    BY <2>2, <2>3, <2>4, <2>5 DEF PrioInv
<1>7. CASE UnlockFree
  <2>1. /\ UNCHANGED <<prio, base, waitq, pendedOn, origPrio>> /\ sec' = Free
        /\ sec.m = m /\ waitq[m] = <<>> /\ owner' = [owner EXCEPT ![m] = None]
        /\ sec.st = "restored" /\ owner[m] = sec.by
    <3>1. sec.st = "restored" /\ sec # Free
      BY <1>7 DEF UnlockFree, Free
    <3>2. sec.m = m /\ owner[m] = sec.by
      BY <1>0, <3>1 DEF UnlockOK
    <3>3. QED
      BY <1>7, <3>1, <3>2 DEF UnlockFree, pendVars
  <2>2. owner'[m] = None /\ \A u \in Threads : pendedOn[u] # m
    BY <1>0, <2>1 DEF QueueMatchesState, TypeOK
  <2>3. OnlyOwnerInherits(m)'
    BY <1>0, <2>1, <2>2 DEF OnlyOwnerInherits, Free
  <2>4. QED
    BY <1>0, <2>1, <2>2, <2>3
       DEF PrioInv, OwnerDoesNotWait, NotOutranked, InPrioOrder, Free
<1>8. CASE UnlockUnpend
  <2>1. sec.m = m /\ owner[m] = sec.by /\ sec.by \in Threads /\ UnpendFirst(m) /\ sec.st = "restored"
    BY <1>0, <1>8 DEF UnlockUnpend, UnlockOK, Free
  <2>2. PICK h \in Threads : h = Head(waitq[m]) /\ pendedOn[h] = m /\ waitq[m] # <<>>
    BY <1>0, <2>1, HeadFacts DEF UnpendFirst
  <2>3. /\ UNCHANGED <<prio, base, owner, origPrio>>
        /\ pendedOn' = [pendedOn EXCEPT ![h] = None]
        /\ sec'.st = "unpended" /\ sec'.th = h /\ sec'.by = sec.by
    BY <1>0, <1>8, <2>1, <2>2 DEF UnlockUnpend, UnpendFirst, TypeOK
  <2>4. InPrioOrder(waitq[m], prio)'
    BY <1>0, <2>1, UnpendFirstOrder
  <2>5. OwnerDoesNotWait(m)'
    BY <1>0, <2>3 DEF OwnerDoesNotWait, PendTypeOK
  <2>6. OnlyOwnerInherits(m)'
    BY <1>0, <2>1, <2>2, <2>3 DEF OnlyOwnerInherits, OwnerDoesNotWait
  <2>7. NotOutranked(m)'
    <3>1. \A u \in Threads : pendedOn[u] = m => prio[h] <= prio[u]
      BY <1>0, <2>2, HeadOutranksWaiters
    <3>2. QED
      BY <1>0, <2>3, <3>1 DEF NotOutranked, PendTypeOK
  <2>8. QED
    BY <2>4, <2>5, <2>6, <2>7 DEF PrioInv
<1>9. CASE UnlockHandOver
  <2>1. /\ sec.m = m /\ owner[m] = sec.by /\ sec.by \in Threads /\ sec.th \in Threads
        /\ sec.st = "unpended" /\ call[sec.th] = m
    BY <1>0, <1>9 DEF UnlockHandOver, UnlockOK, SectionOK, Free
  <2>2. /\ UNCHANGED <<prio, base, waitq, pendedOn>>
        /\ owner' = [owner EXCEPT ![m] = sec.th]
        /\ origPrio' = [origPrio EXCEPT ![m] = prio[sec.th]]
        /\ sec'.st = "set" /\ sec'.th = sec.th /\ sec'.by = sec.by
    BY <1>0, <1>9, <2>1 DEF UnlockHandOver, SetRetval, TypeOK
  <2>3. owner'[m] = sec.th /\ origPrio'[m] = prio[sec.th]
    BY <1>0, <2>2 DEF TypeOK
  <2>4. OnlyOwnerInherits(m)'
    BY <1>0, <2>1, <2>2, <2>3 DEF OnlyOwnerInherits
  <2>5. NotOutranked(m)' /\ InPrioOrder(waitq[m], prio)'
    BY <1>0, <2>1, <2>2 DEF NotOutranked, InPrioOrder
  <2>6. OwnerDoesNotWait(m)'
    BY <1>0, <2>1, <2>2, <2>3 DEF OwnerDoesNotWait
  <2>7. QED
    BY <2>4, <2>5, <2>6 DEF PrioInv
<1>10. CASE UnlockReady
  <2>1. /\ sec.st = "set" /\ sec.th \in Threads /\ sec' = Free
        /\ UNCHANGED <<prio, base, waitq, pendedOn, owner, origPrio>>
    BY <1>0, <1>10 DEF UnlockReady, ReadyThread, SectionOK, Free
  <2>2. owner[m] = sec.th
    BY <1>0, <2>1 DEF OnlyOwnerInherits
  <2>3. QED
    BY <1>0, <2>1, <2>2 DEF PrioInv, OwnerDoesNotWait, OnlyOwnerInherits, NotOutranked,
                            Outranks, InPrioOrder, Free
<1>11. CASE Environment
  <2>1. InPrioOrder(waitq[m], prio)' /\ prio' = prio
    BY <1>0, <1>11, OutsideOrder DEF Environment
  <2>2. \A t \in Threads : pendedOn'[t] = m => pendedOn[t] = m
    BY <1>0, <1>11, OutsideFacts DEF Environment
  <2>3. base' = base /\ UNCHANGED <<owner, origPrio, sec>>
    BY <1>0, <1>11, <2>1 DEF Environment, TypeOK
  <2>4. QED
    BY <1>0, <2>1, <2>2, <2>3
       DEF PrioInv, OwnerDoesNotWait, OnlyOwnerInherits, NotOutranked, Outranks
<1>12. CASE \E t \in Victims : AbortThread(t)
  <2>0. PICK t \in Threads : AbortThread(t)
    BY <1>12
  <2>1. /\ prio' = prio /\ \A u \in Threads : pendedOn'[u] = m => pendedOn[u] = m
        /\ UNCHANGED <<base, owner, origPrio, sec>>
    BY <1>0, <2>0, AbortFacts DEF AbortThread, mutexVars
  <2>2. InPrioOrder(waitq[m], prio)'
    BY <1>0, <2>0, <2>1, UnpendNoTimeoutOrder DEF AbortThread, Abort
  <2>3. QED
    BY <1>0, <2>1, <2>2
       DEF PrioInv, OwnerDoesNotWait, OnlyOwnerInherits, NotOutranked, Outranks
<1>13. CASE \/ \E t \in Threads : LockReturn(t)
            \/ \E t \in Threads : LockLate(t)
            \/ \E t \in Threads, n \in Mutexes : UnlockNested(t, n)
            \/ UNCHANGED vars
  BY <1>1, <1>13 DEF LockReturn, LockLate, UnlockNested, pendVars, vars, mutexVars
<1>14. QED
  BY <1>2, <1>3, <1>4, <1>5, <1>6, <1>7, <1>8, <1>9, <1>10, <1>11, <1>12, <1>13
     DEF MutexNext

LEMMA PrioInit ==
  ASSUME NEW m, Mutexes = {m}
  PROVE  MutexInit => PrioInv(m)
<1> USE PendAssumption, MutexAssumption
<1>1. ASSUME MutexInit PROVE PrioInv(m)
  BY <1>1 DEF MutexInit, PendInit, PrioInv, InPrioOrder, OwnerDoesNotWait,
              OnlyOwnerInherits, NotOutranked, Free
<1>2. QED
  BY <1>1

(* No thread keeps an inherited priority when it owns nothing: every way   *)
(* out of a raised priority, unlock with and without a waiter and the      *)
(* timeout of a waiter, goes back to the thread's own priority.            *)
THEOREM MutexPriorityRestored ==
  ASSUME NewPrios = {}, NEW m, Mutexes = {m}
  PROVE  MutexSpec => []PriorityRestored
<1>1. PrioInv(m) => PriorityRestored
  BY DEF PrioInv, OnlyOwnerInherits, PriorityRestored
<1>2. MutexInv /\ PrioInv(m) /\ [MutexNext]_vars => PrioInv(m)'
  BY PrioNext
<1>3. MutexInit => PrioInv(m)
  BY PrioInit
<1>4. QED
  BY MutexInitInv, MutexNextInv, <1>1, <1>2, <1>3, PTL DEF MutexSpec

(* No priority inversion: no waiter outranks the owner, except for what    *)
(* the ceiling denies it and during a lock or unlock in progress, although *)
(* a timed-out waiter takes back only its own share.                       *)
THEOREM MutexOwnerNotOutranked ==
  ASSUME NewPrios = {}, NEW m, Mutexes = {m}
  PROVE  MutexSpec => []OwnerNotOutranked
<1>1. MutexInv /\ PrioInv(m) => OwnerNotOutranked
  <2> SUFFICES ASSUME MutexInv, PrioInv(m), NEW i \in 1..Len(waitq[m]), sec.m # m
               PROVE  Outranks(owner[m], waitq[m][i])
    BY DEF OwnerNotOutranked, Outranks
  <2>1. m \in WaitQs /\ m \in Mutexes
    BY MutexAssumption
  <2>2. sec.st = "free"
    BY DEF MutexInv, SectionOK, Free
  <2>3. waitq[m] \in Seq(Threads)
    BY <2>1 DEF MutexInv, PendInv, PendTypeOK
  <2>4. waitq[m][i] \in Threads /\ pendedOn[waitq[m][i]] = m
    BY <2>1, <2>3 DEF MutexInv, PendInv, QueueMatchesState
  <2>5. QED
    BY <2>2, <2>4 DEF PrioInv, NotOutranked
<1>2. MutexInv /\ PrioInv(m) /\ [MutexNext]_vars => PrioInv(m)'
  BY PrioNext
<1>3. MutexInit => PrioInv(m)
  BY PrioInit
<1>4. QED
  BY MutexInitInv, MutexNextInv, <1>1, <1>2, <1>3, PTL DEF MutexSpec

(* "new owner is already of higher or equal prio than first waiter since   *)
(* the wait queue is priority-based": the unlock need not raise it.        *)
THEOREM MutexNewOwnerOutranks ==
  ASSUME NewPrios = {}, NEW m, Mutexes = {m}
  PROVE  MutexSpec => []NewOwnerOutranksWaiters
<1>1. MutexInv /\ PrioInv(m) => NewOwnerOutranksWaiters
  <2> SUFFICES ASSUME MutexInv, PrioInv(m), sec.st = "unpended",
                      NEW i \in 1..Len(waitq[sec.m])
               PROVE  prio[sec.th] <= prio[waitq[sec.m][i]]
    BY DEF NewOwnerOutranksWaiters
  <2>1. m \in WaitQs /\ m \in Mutexes /\ sec.m = m
    BY MutexAssumption DEF MutexInv, SectionOK, Free
  <2>2. waitq[m] \in Seq(Threads)
    BY <2>1 DEF MutexInv, PendInv, PendTypeOK
  <2>3. waitq[m][i] \in Threads /\ pendedOn[waitq[m][i]] = m
    BY <2>1, <2>2 DEF MutexInv, PendInv, QueueMatchesState
  <2>4. QED
    BY <2>1, <2>3 DEF PrioInv, NotOutranked
<1>2. MutexInv /\ PrioInv(m) /\ [MutexNext]_vars => PrioInv(m)'
  BY PrioNext
<1>3. MutexInit => PrioInv(m)
  BY PrioInit
<1>4. QED
  BY MutexInitInv, MutexNextInv, <1>1, <1>2, <1>3, PTL DEF MutexSpec

-----------------------------------------------------------------------------
(* On one CPU no step of another thread or interrupt comes between the     *)
(* steps of a hand-over, so a call that has timed out is not handed the    *)
(* mutex any more.                                                         *)
LateOwnsNothing ==
  /\ \A t \in Threads : call[t] # None => failed[t] = None
  /\ \A t \in Threads : late[t] => call[t] # None /\ pendedOn[t] = None
  /\ \A t \in Threads : (call[t] # None /\ (late[t] \/ swapRet[t] # "0")) =>
       owner[call[t]] # t
  /\ sec.st = "raised" => owner[sec.m] # sec.by /\ failed[sec.by] = None
  /\ sec.st = "unpended" => ~late[sec.th]
  /\ FailedLockOwnsNothing

LEMMA LateNext ==
  ASSUME ~SMP, MutexInv, LateOwnsNothing, [MutexNext]_vars
  PROVE  LateOwnsNothing'
<1> USE PendAssumption, MutexAssumption
<1>0. /\ TypeOK /\ PendInv /\ SectionOK /\ FreeMutexOK /\ WaitersAreCallers
      /\ GrantedOwns /\ UnlockOK
      /\ PendTypeOK /\ QueueMatchesState /\ RunnableIsFree
  BY DEF MutexInv, PendInv
<1>1. ASSUME \A t \in Threads : pendedOn'[t] \in {pendedOn[t], None}, swapRet' = swapRet,
             UNCHANGED <<owner, call, late, failed, sec>>
      PROVE  LateOwnsNothing'
  BY <1>1 DEF LateOwnsNothing, FailedLockOwnsNothing
<1>2. CASE \E t \in Threads, m \in Mutexes : LockNow(t, m)
  <2>0. PICK t \in Threads, m \in Mutexes : LockNow(t, m)
    BY <1>2
  <2>1. /\ UNCHANGED <<pendedOn, swapRet, sec, call, late>> /\ call[t] = None /\ sec = Free
        /\ owner' = [owner EXCEPT ![m] = t]
        /\ failed' = [failed EXCEPT ![t] = None]
    BY <2>0 DEF LockNow, Runs, Unlocked, pendVars
  <2>2. QED
    BY <1>0, <2>1 DEF LateOwnsNothing, FailedLockOwnsNothing, TypeOK, Free
<1>3. CASE \E t \in Threads, m \in Mutexes : LockRaise(t, m)
  <2>0. PICK t \in Threads, m \in Mutexes : LockRaise(t, m)
    BY <1>3
  <2>1. /\ UNCHANGED <<pendedOn, swapRet, owner, call, late>> /\ owner[m] # t
        /\ sec' = [st |-> "raised", by |-> t, m |-> m, th |-> None]
        /\ failed' = [failed EXCEPT ![t] = None]
    BY <2>0 DEF LockRaise
  <2>2. QED
    BY <1>0, <2>1 DEF LateOwnsNothing, FailedLockOwnsNothing, TypeOK
<1>4. CASE \E forever \in BOOLEAN : LockPend(forever)
  <2>0. PICK fv \in BOOLEAN : LockPend(fv)
    BY <1>4
  <2>1. sec.st = "raised" /\ sec.by \in Threads /\ sec.m \in Mutexes /\ call[sec.by] = None
    BY <1>0, <2>0 DEF LockPend, SectionOK, Free
  <2>2. /\ pendedOn' = [pendedOn EXCEPT ![sec.by] = sec.m]
        /\ swapRet' = [swapRet EXCEPT ![sec.by] = "EAGAIN"]
        /\ call' = [call EXCEPT ![sec.by] = sec.m]
        /\ sec' = Free /\ UNCHANGED <<owner, late, failed>>
    BY <2>0 DEF LockPend, PendCurr
  <2>3. QED
    BY <1>0, <2>1, <2>2 DEF LateOwnsNothing, FailedLockOwnsNothing, TypeOK, PendTypeOK, Free
<1>5. CASE \E t \in Threads : LockReturn(t)
  <2>0. PICK t \in Threads : LockReturn(t)
    BY <1>5
  <2>1. /\ UNCHANGED <<pendedOn, swapRet, owner, late, failed, sec>> /\ ~late[t]
        /\ call' = [call EXCEPT ![t] = None]
    BY <2>0 DEF LockReturn, pendVars
  <2>2. QED
    BY <1>0, <2>1 DEF LateOwnsNothing, FailedLockOwnsNothing, TypeOK
<1>6. CASE \E t \in Threads : LockLate(t)
  <2>0. PICK t \in Threads : LockLate(t)
    BY <1>6
  <2>1. /\ UNCHANGED <<pendedOn, swapRet, owner, call, failed, sec>>
        /\ call[t] # None /\ swapRet[t] # "0" /\ runnable[t] /\ sec = Free
        /\ late' = [late EXCEPT ![t] = TRUE]
    BY <2>0 DEF LockLate, Others, Unlocked, pendVars
  <2>2. pendedOn[t] = None
    BY <1>0, <2>1 DEF RunnableIsFree
  <2>3. QED
    BY <1>0, <2>1, <2>2 DEF LateOwnsNothing, FailedLockOwnsNothing, TypeOK, Free
<1>7. CASE \E t \in Threads : LockTimedOut(t)
  <2>0. PICK t \in Threads : LockTimedOut(t)
    BY <1>7
  <2>1. /\ UNCHANGED <<pendedOn, swapRet, owner, sec>> /\ late[t] /\ call[t] # None
        /\ sec = Free
        /\ call' = [call EXCEPT ![t] = None]
        /\ late' = [late EXCEPT ![t] = FALSE]
        /\ failed' = [failed EXCEPT ![t] = call[t]]
    BY <2>0 DEF LockTimedOut, Unlocked
  <2>2. QED
    BY <1>0, <2>1 DEF LateOwnsNothing, FailedLockOwnsNothing, TypeOK, Free
<1>8. CASE \E t \in Threads, m \in Mutexes : UnlockRestore(t, m)
  <2>1. /\ UNCHANGED <<pendedOn, swapRet, owner, call, late, failed>>
        /\ sec'.st = "restored"
    BY <1>8 DEF UnlockRestore
  <2>2. QED
    BY <2>1 DEF LateOwnsNothing, FailedLockOwnsNothing
<1>9. CASE UnlockFree
  <2>1. sec.m \in Mutexes
    BY <1>0, <1>9 DEF UnlockFree, SectionOK, Free
  <2>2. /\ UNCHANGED <<pendedOn, swapRet, call, late, failed>> /\ sec' = Free
        /\ owner' = [owner EXCEPT ![sec.m] = None]
    BY <1>9 DEF UnlockFree, pendVars
  <2>3. QED
    BY <1>0, <2>1, <2>2 DEF LateOwnsNothing, FailedLockOwnsNothing, TypeOK, Free
<1>10. CASE UnlockUnpend
  <2>1. sec.m \in Mutexes /\ sec.m \in WaitQs /\ UnpendFirst(sec.m) /\ sec.m # None
    BY <1>0, <1>10 DEF UnlockUnpend, SectionOK, Free
  <2>2. PICK h \in Threads : h = Head(waitq[sec.m]) /\ pendedOn[h] = sec.m
    BY <1>0, <2>1, HeadFacts DEF UnpendFirst
  <2>3. /\ UNCHANGED <<swapRet, owner, call, late, failed>>
        /\ pendedOn' = [pendedOn EXCEPT ![h] = None]
        /\ sec'.st = "unpended" /\ sec'.th = h
    BY <1>0, <1>10, <2>2 DEF UnlockUnpend, UnpendFirst, TypeOK
  <2>4. ~late[h]
    BY <2>1, <2>2 DEF LateOwnsNothing
  <2>5. QED
    BY <1>0, <2>3, <2>4 DEF LateOwnsNothing, FailedLockOwnsNothing, PendTypeOK
<1>11. CASE UnlockHandOver
  <2>1. /\ sec.st = "unpended" /\ sec.m \in Mutexes /\ sec.th \in Threads
        /\ call[sec.th] = sec.m /\ sec.m # None
    BY <1>0, <1>11 DEF UnlockHandOver, SectionOK, UnlockOK, Free
  <2>2. /\ UNCHANGED <<pendedOn, call, late, failed>>
        /\ swapRet' = [swapRet EXCEPT ![sec.th] = "0"]
        /\ owner' = [owner EXCEPT ![sec.m] = sec.th]
        /\ sec'.st = "set"
    BY <1>0, <1>11 DEF UnlockHandOver, SetRetval, TypeOK
  <2>3. ~late[sec.th] /\ failed[sec.th] = None
    BY <2>1 DEF LateOwnsNothing
  <2>4. QED
    BY <1>0, <2>1, <2>2, <2>3
       DEF LateOwnsNothing, FailedLockOwnsNothing, TypeOK, PendTypeOK
<1>12. CASE UnlockReady
  BY <1>12 DEF UnlockReady, ReadyThread, LateOwnsNothing, FailedLockOwnsNothing, Free
<1>13. CASE Environment
  BY <1>0, <1>1, <1>13, OutsideFacts DEF Environment
<1>14. CASE \E t \in Victims : AbortThread(t)
  <2>0. PICK t \in Threads : AbortThread(t)
    BY <1>14
  <2>1. swapRet' = swapRet /\ \A u \in Threads : pendedOn'[u] \in {pendedOn[u], None}
    BY <1>0, <2>0, AbortFacts DEF AbortThread
  <2>2. QED
    BY <1>1, <2>0, <2>1 DEF AbortThread, mutexVars
<1>15. CASE \E t \in Threads, m \in Mutexes : UnlockNested(t, m)
  BY <1>1, <1>15 DEF UnlockNested, pendVars
<1>16. CASE UNCHANGED vars
  BY <1>1, <1>16 DEF vars, pendVars, mutexVars
<1>17. QED
  BY <1>2, <1>3, <1>4, <1>5, <1>6, <1>7, <1>8, <1>9, <1>10, <1>11, <1>12, <1>13,
     <1>14, <1>15, <1>16 DEF MutexNext

(* A k_mutex_lock() that returned -EAGAIN has not been given the mutex, on *)
(* one CPU.  (On several it may be: the timeout can make the caller run    *)
(* between the steps of a hand-over to it.)                                *)
THEOREM MutexFailedLockOwnsNothing ==
  ASSUME ~SMP
  PROVE  MutexSpec => []FailedLockOwnsNothing
<1>1. MutexInit => LateOwnsNothing
  BY PendAssumption, MutexAssumption
     DEF MutexInit, PendInit, LateOwnsNothing, FailedLockOwnsNothing, Free
<1>2. MutexInv /\ LateOwnsNothing /\ [MutexNext]_vars => LateOwnsNothing'
  BY LateNext
<1>3. LateOwnsNothing => FailedLockOwnsNothing
  BY DEF LateOwnsNothing
<1>4. QED
  BY MutexInitInv, MutexNextInv, <1>1, <1>2, <1>3, PTL DEF MutexSpec

-----------------------------------------------------------------------------
(* The condition variable.                                                 *)

(* A thread that is about to release the mutex, or has released it and not *)
(* yet queued itself, holds the condvar lock.                              *)
WaiterHoldsLock ==
  \A t \in Threads : cv[t] \in {"unlock", "unlocked"} =>
    csec = [op |-> "wait", th |-> t, st |-> "none"]

LockInv ==
  /\ cv \in [Threads -> {"no", "unlock", "unlocked", "waiting", "relock"}]
  /\ WaiterHoldsLock

LEMMA LockInvNext ==
  ASSUME LockInv, [CondNext]_cvars
  PROVE  LockInv'
<1> USE DEF LockInv, WaiterHoldsLock
<1>1. CASE \E t \in Threads, m \in Mutexes : WaitEnter(t, m)
  <2>1. PICK t \in Threads, m \in Mutexes : WaitEnter(t, m)
    BY <1>1
  <2>2. \A u \in Threads : cv[u] \notin {"unlock", "unlocked"}
    BY <2>1 DEF WaitEnter, CUnlocked, CFree
  <2>3. QED
    BY <2>1, <2>2 DEF WaitEnter
<1>2. CASE \E t \in Threads : WaitUnlock(t)
  BY <1>2 DEF WaitUnlock
<1>3. CASE \E t \in Threads, forever \in BOOLEAN : WaitPend(t, forever)
  <2>1. PICK t \in Threads, fv \in BOOLEAN : WaitPend(t, fv)
    BY <1>3
  <2>2. csec = [op |-> "wait", th |-> t, st |-> "none"]
    BY <2>1 DEF WaitPend
  <2>3. \A u \in Threads : u # t => cv[u] \notin {"unlock", "unlocked"}
    BY <2>2
  <2>4. cv' = [cv EXCEPT ![t] = "waiting"]
    BY <2>1 DEF WaitPend
  <2>5. QED
    BY <2>3, <2>4
<1>4. CASE \E t \in Threads : WaitWoken(t) \/ RelockNow(t) \/ LockCallReturn(t)
  BY <1>4 DEF WaitWoken, RelockNow, LockCallReturn
<1>5. CASE SignalUnpend \/ BroadcastUnpend \/ BroadcastDone
  <2>1. \A u \in Threads : cv[u] \notin {"unlock", "unlocked"}
    BY <1>5 DEF SignalUnpend, BroadcastUnpend, BroadcastDone, CUnlocked, CFree
  <2>2. cv' = cv
    BY <1>5 DEF SignalUnpend, BroadcastUnpend, BroadcastDone
  <2>3. QED
    BY <2>1, <2>2
<1>6. CASE CondStoreRetval \/ CondReady
  <2>1. \A u \in Threads : cv[u] \notin {"unlock", "unlocked"}
    BY <1>6 DEF CondStoreRetval, CondReady
  <2>2. cv' = cv
    BY <1>6 DEF CondStoreRetval, CondReady
  <2>3. QED
    BY <2>1, <2>2
<1>7. CASE \/ \E t \in Threads : RelockRaise(t) \/ MutexCall(t) \/ LockLateStep(t)
           \/ MutexStep \/ CondEnvironment \/ \E t \in Victims : CondAbort(t)
           \/ UNCHANGED cvars
  <2>1. UNCHANGED <<cv, csec>>
    BY <1>7 DEF RelockRaise, MutexCall, LockLateStep, MutexStep, CondEnvironment,
                CondAbort, condVars, cvars
  <2>2. QED
    BY <2>1
<1>8. QED
  BY <1>1, <1>2, <1>3, <1>4, <1>5, <1>6, <1>7 DEF CondNext

(* No signal is lost, on one CPU or several: whoever signals under the     *)
(* condvar lock finds every thread that has released the mutex for its     *)
(* wait already in the queue.                                              *)
THEOREM CondReleaseAndWaitAtomic == CondSpec => []ReleaseAndWaitAtomic
<1>1. CondInit => LockInv
  BY DEF CondInit, LockInv, WaiterHoldsLock
<1>2. LockInv => ReleaseAndWaitAtomic
  BY DEF LockInv, WaiterHoldsLock, ReleaseAndWaitAtomic
<1>3. QED
  BY LockInvNext, <1>1, <1>2, PTL DEF CondSpec

-----------------------------------------------------------------------------
(* On one CPU: what holds inside a section under the condvar lock. *)
CondSectionOK ==
  /\ csec.op = "free" => csec = CFree
  /\ csec.op = "wait" =>
       /\ csec.st = "none" /\ csec.th \in Threads
       /\ runnable[csec.th] /\ call[csec.th] = None
       /\ cv[csec.th] \in {"unlock", "unlocked"} /\ ~signalled[csec.th]
       /\ firing = None
  /\ csec.op \in {"signal", "broadcast"} => sec = Free
  /\ csec.st # "none" => csec.op \in {"signal", "broadcast"} /\ csec.th \in Threads
  /\ csec.st = "unpended" => cv[csec.th] = "waiting" /\ ~runnable[csec.th]
  /\ sec # Free => firing = None

(* Which part of k_condvar_wait() a thread can be in. *)
CallsAgree ==
  /\ \A t \in Threads :
       /\ pendedOn[t] = Cond => cv[t] = "waiting"
       /\ call[t] # None => cv[t] \in {"no", "relock"}
       /\ late[t] => call[t] # None
       /\ cv[t] # "no" => cvMutex[t] \in Mutexes
       /\ (cv[t] = "relock" /\ call[t] # None) => call[t] = cvMutex[t]
  /\ sec.st = "raised" =>
       /\ cv[sec.by] \in {"no", "relock"}
       /\ cv[sec.by] = "relock" => sec.m = cvMutex[sec.by]

(* Why a wait has not returned: it is queued, without a timeout if it is   *)
(* K_FOREVER; a signal is waking it; it was aborted; or it may return.     *)
WaitState(t) ==
  \/ /\ pendedOn[t] = Cond /\ ~signalled[t]
     /\ cvForever[t] => ~timeout[t] /\ firing # t
  \/ csec.st = "unpended" /\ csec.th = t
  \/ halted[t] = "dead"
  \/ /\ cvForever[t] => signalled[t]
     /\ signalled[t] => swapRet[t] = "0"

(* The same for the k_mutex_lock(K_FOREVER) at its end. *)
RelockState(t) ==
  /\ ~late[t]
  /\ \/ pendedOn[t] = call[t] /\ ~timeout[t] /\ firing # t
     \/ sec.st = "unpended" /\ sec.th = t /\ ~runnable[t]
     \/ halted[t] = "dead"
     \/ swapRet[t] = "0"

WaitsOK == \A t \in Threads : cv[t] = "waiting" => WaitState(t)
RelocksOK ==
  \A t \in Threads : (cv[t] = "relock" /\ call[t] # None) => RelockState(t)

CondInv ==
  /\ MutexInv /\ CondTypeOK
  /\ WaiterHoldsLock /\ CondSectionOK /\ CallsAgree
  /\ WaitsOK /\ RelocksOK

LEMMA CondInitInv == CondInit => CondInv
<1> SUFFICES ASSUME CondInit PROVE CondInv
  OBVIOUS
<1> USE PendAssumption, MutexAssumption, CondAssumption
<1>1. MutexInv
  BY MutexInitInv DEF CondInit
<1>2. CondTypeOK
  BY <1>1 DEF CondInit, MutexInv, CondTypeOK, CFree
<1>3. WaiterHoldsLock /\ CondSectionOK /\ CallsAgree
  BY DEF CondInit, MutexInit, PendInit, WaiterHoldsLock, CondSectionOK, CallsAgree,
         CFree, Free
<1>4. \A t \in Threads : cv[t] = "no"
  BY DEF CondInit
<1>5. QED
  BY <1>1, <1>2, <1>3, <1>4 DEF CondInv, WaitsOK, RelocksOK

(* The mutexes do not suffer from the condition variable, on one CPU. *)
LEMMA CondMutexInv ==
  ASSUME ~SMP, CondInv, [CondNext]_cvars
  PROVE  MutexInv'
<1> USE PendAssumption, MutexAssumption, CondAssumption
<1>0. /\ MutexInv /\ CondTypeOK /\ WaiterHoldsLock /\ CondSectionOK /\ CallsAgree
      /\ TypeOK /\ PendInv /\ SectionOK /\ FreeMutexOK /\ WaitersAreCallers
      /\ GrantedOwns /\ UnlockOK /\ MutualExclusion
      /\ PendTypeOK /\ QueueMatchesState /\ RunnableIsFree
  BY DEF CondInv, MutexInv, PendInv
<1>m. ASSUME [MutexNext]_vars PROVE MutexInv'
  BY <1>0, <1>m, MutexNextInv
<1>1. CASE \E t \in Threads, m \in Mutexes : WaitEnter(t, m)
  BY <1>m, <1>1 DEF WaitEnter
<1>2. CASE \E t \in Threads : WaitUnlock(t)
  <2>1. PICK t \in Threads : WaitUnlock(t)
    BY <1>2
  <2>2. cvMutex[t] \in Mutexes
    BY <1>0, <2>1 DEF WaitUnlock, CallsAgree
  <2>3. MutexNext
    BY <2>1, <2>2 DEF WaitUnlock, MutexNext
  <2>4. QED
    BY <1>m, <2>3
<1>3. CASE \E t \in Threads, forever \in BOOLEAN : WaitPend(t, forever)
  <2>0. PICK t \in Threads, fv \in BOOLEAN : WaitPend(t, fv)
    BY <1>3
  <2>1. runnable[t] /\ call[t] = None /\ sec.by # t
    BY <1>0, <2>0 DEF WaitPend, WaiterHoldsLock, CondSectionOK
  <2>2. PendInv'
    BY <1>0, <2>0, <2>1, PendCurrInv DEF WaitPend
  <2>3. /\ UNCHANGED mutexVars
        /\ waitq' = [waitq EXCEPT ![Cond] = PriqAdd(@, t, prio)]
        /\ pendedOn' = [pendedOn EXCEPT ![t] = Cond]
        /\ swapRet' = [swapRet EXCEPT ![t] = "EAGAIN"]
        /\ runnable' = [runnable EXCEPT ![t] = FALSE]
    BY <2>0 DEF WaitPend, PendCurr
  <2>4. TypeOK'
    BY <1>0, <2>2, <2>3 DEF TypeOK, PendInv, mutexVars
  <2>5. SectionOK' /\ UnlockOK'
    BY <1>0, <2>1, <2>3 DEF SectionOK, UnlockOK, mutexVars, PendTypeOK
  <2>6. FreeMutexOK'
    BY <1>0, <2>3 DEF FreeMutexOK, mutexVars, PendTypeOK
  <2>7. WaitersAreCallers' /\ GrantedOwns' /\ MutualExclusion'
    BY <1>0, <2>1, <2>3
       DEF WaitersAreCallers, GrantedOwns, MutualExclusion, mutexVars, PendTypeOK
  <2>8. QED
    BY <2>2, <2>4, <2>5, <2>6, <2>7 DEF MutexInv
<1>4. CASE \E t \in Threads : WaitWoken(t)
  BY <1>m, <1>4 DEF WaitWoken
<1>5. CASE \E t \in Threads : RelockNow(t) \/ RelockRaise(t)
  <2>1. PICK t \in Threads : RelockNow(t) \/ RelockRaise(t)
    BY <1>5
  <2>2. cvMutex[t] \in Mutexes
    BY <1>0, <2>1 DEF RelockNow, RelockRaise, CallsAgree
  <2>3. MutexNext
    BY <2>1, <2>2 DEF RelockNow, RelockRaise, MutexNext
  <2>4. QED
    BY <1>m, <2>3
<1>6. CASE \E t \in Threads : LockCallReturn(t)
  BY <1>m, <1>6 DEF LockCallReturn, MutexNext
<1>7. CASE SignalUnpend \/ BroadcastUnpend
  <2>1. PendInv'
    BY <1>0, <1>7, UnpendFirstInv DEF SignalUnpend, BroadcastUnpend
  <2>2. PICK h \in Threads : h = Head(waitq[Cond])
    BY <1>0, <1>7, HeadFacts DEF SignalUnpend, BroadcastUnpend, UnpendFirst
  <2>3. /\ UNCHANGED mutexVars /\ UNCHANGED <<swapRet, runnable>>
        /\ waitq' = [waitq EXCEPT ![Cond] = Tail(@)]
        /\ pendedOn' = [pendedOn EXCEPT ![h] = None]
    BY <1>7, <2>2 DEF SignalUnpend, BroadcastUnpend, UnpendFirst
  <2>4. TypeOK'
    BY <1>0, <2>1, <2>3 DEF TypeOK, PendInv, mutexVars
  <2>5. SectionOK' /\ UnlockOK'
    BY <1>0, <2>3 DEF SectionOK, UnlockOK, mutexVars
  <2>6. FreeMutexOK'
    BY <1>0, <2>3 DEF FreeMutexOK, mutexVars, PendTypeOK
  <2>7. WaitersAreCallers' /\ GrantedOwns' /\ MutualExclusion'
    BY <1>0, <2>3
       DEF WaitersAreCallers, GrantedOwns, MutualExclusion, mutexVars, PendTypeOK
  <2>8. QED
    BY <2>1, <2>4, <2>5, <2>6, <2>7 DEF MutexInv
<1>8. CASE BroadcastDone
  BY <1>m, <1>8 DEF BroadcastDone
<1>9. CASE CondStoreRetval
  <2>1. csec.th \in Threads /\ call[csec.th] = None
    BY <1>0, <1>9 DEF CondStoreRetval, CondSectionOK, CallsAgree
  <2>2. PendInv'
    BY <1>0, <1>9, SetRetvalInv DEF CondStoreRetval, RetVals
  <2>3. /\ UNCHANGED mutexVars /\ UNCHANGED <<waitq, pendedOn, runnable>>
        /\ swapRet' = [swapRet EXCEPT ![csec.th] = "0"]
    BY <1>9 DEF CondStoreRetval, SetRetval
  <2>4. TypeOK'
    BY <1>0, <2>2, <2>3 DEF TypeOK, PendInv, mutexVars
  <2>5. SectionOK' /\ UnlockOK' /\ FreeMutexOK'
    BY <1>0, <2>3 DEF SectionOK, UnlockOK, FreeMutexOK, mutexVars
  <2>6. WaitersAreCallers' /\ GrantedOwns' /\ MutualExclusion'
    BY <1>0, <2>1, <2>3
       DEF WaitersAreCallers, GrantedOwns, MutualExclusion, mutexVars, PendTypeOK
  <2>7. QED
    BY <2>2, <2>4, <2>5, <2>6 DEF MutexInv
<1>10. CASE CondReady
  <2>1. PendInv'
    BY <1>0, <1>10, ReadyThreadInv DEF CondReady
  <2>2. /\ UNCHANGED mutexVars /\ UNCHANGED <<waitq, pendedOn, swapRet>>
        /\ \A t \in Threads : runnable[t] => runnable'[t]
    BY <1>0, <1>10 DEF CondReady, ReadyThread, PendTypeOK
  <2>3. TypeOK'
    BY <1>0, <2>1, <2>2 DEF TypeOK, PendInv, mutexVars
  <2>4. SectionOK' /\ UnlockOK' /\ FreeMutexOK'
    BY <1>0, <2>2 DEF SectionOK, UnlockOK, FreeMutexOK, mutexVars
  <2>5. WaitersAreCallers' /\ GrantedOwns' /\ MutualExclusion'
    BY <1>0, <2>2 DEF WaitersAreCallers, GrantedOwns, MutualExclusion, mutexVars
  <2>6. QED
    BY <2>1, <2>3, <2>4, <2>5 DEF MutexInv
<1>11. CASE \/ \E t \in Threads : MutexCall(t) \/ LockLateStep(t)
            \/ MutexStep \/ CondEnvironment \/ \E t \in Victims : CondAbort(t)
  BY <1>m, <1>11 DEF MutexCall, LockLateStep, MutexStep, CondEnvironment, CondAbort,
                     MutexNext
<1>12. CASE UNCHANGED cvars
  BY <1>m, <1>12 DEF cvars
<1>13. QED
  BY <1>1, <1>2, <1>3, <1>4, <1>5, <1>6, <1>7, <1>8, <1>9, <1>10, <1>11, <1>12
     DEF CondNext

LEMMA CondNextInv ==
  ASSUME ~SMP, CondInv, [CondNext]_cvars
  PROVE  CondInv'
<1> USE PendAssumption, MutexAssumption, CondAssumption
<1>0. /\ MutexInv /\ CondTypeOK /\ WaiterHoldsLock /\ CondSectionOK /\ CallsAgree
      /\ WaitsOK /\ RelocksOK
      /\ TypeOK /\ PendInv /\ SectionOK /\ WaitersAreCallers /\ GrantedOwns /\ UnlockOK
      /\ PendTypeOK /\ QueueMatchesState /\ RunnableIsFree
      /\ Cond \in WaitQs /\ Cond # None
  BY DEF CondInv, MutexInv, PendInv
<1>a. MutexInv' /\ TypeOK' /\ WaiterHoldsLock'
  BY <1>0, CondMutexInv, LockInvNext DEF CondTypeOK, LockInv, MutexInv
<1>q. ASSUME CondTypeOK', CondSectionOK', CallsAgree', WaitsOK', RelocksOK'
      PROVE  CondInv'
  BY <1>a, <1>q DEF CondInv
<1>t. ASSUME UNCHANGED condVars PROVE CondTypeOK'
  BY <1>0, <1>a, <1>t DEF CondTypeOK, condVars
<1>w. ASSUME UNCHANGED <<pendedOn, timeout, firing, halted, swapRet>>, UNCHANGED condVars
      PROVE  WaitsOK'
  BY <1>0, <1>w DEF WaitsOK, WaitState, condVars
<1>r. ASSUME UNCHANGED <<pendedOn, timeout, firing, halted, swapRet, runnable, call, late>>,
             UNCHANGED cv,
             sec.st = "unpended" => sec'.st = "unpended" /\ sec'.th = sec.th
      PROVE  RelocksOK'
  BY <1>0, <1>r DEF RelocksOK, RelockState
<1>1. CASE \E t \in Threads, m \in Mutexes : WaitEnter(t, m)
  <2>0. PICK t \in Threads, m \in Mutexes : WaitEnter(t, m)
    BY <1>1
  <2>1. /\ UNCHANGED <<pendedOn, timeout, firing, halted, swapRet, runnable, call, late, sec>>
        /\ UNCHANGED cvForever
        /\ runnable[t] /\ call[t] = None /\ sec.by # t /\ sec = Free /\ firing = None
        /\ csec = CFree /\ cv[t] = "no"
        /\ csec' = [op |-> "wait", th |-> t, st |-> "none"]
        /\ cv' = [cv EXCEPT ![t] = "unlock"]
        /\ cvMutex' = [cvMutex EXCEPT ![t] = m]
        /\ signalled' = [signalled EXCEPT ![t] = FALSE]
    BY <2>0 DEF WaitEnter, Runs, ThreadContext, Others, Unlocked, CUnlocked, vars,
                pendVars, mutexVars
  <2>2. CondTypeOK'
    BY <1>0, <1>a, <2>1 DEF CondTypeOK
  <2>3. CondSectionOK'
    BY <1>0, <2>1 DEF CondSectionOK, CondTypeOK
  <2>4. CallsAgree'
    BY <1>0, <2>1 DEF CallsAgree, CondTypeOK, Free, RunnableIsFree
  <2>5. WaitsOK'
    BY <1>0, <2>1 DEF WaitsOK, WaitState, CondTypeOK, CFree
  <2>6. RelocksOK'
    BY <1>0, <2>1 DEF RelocksOK, RelockState, CondTypeOK
  <2>7. QED
    BY <1>q, <2>2, <2>3, <2>4, <2>5, <2>6
<1>2. CASE \E t \in Threads : WaitUnlock(t)
  <2>0. PICK t \in Threads : WaitUnlock(t)
    BY <1>2
  <2>1. /\ UNCHANGED <<pendedOn, timeout, firing, halted, swapRet, runnable, call, late>>
        /\ UNCHANGED <<csec, cvMutex, cvForever, signalled>>
        /\ cv[t] = "unlock" /\ firing = None
        /\ cv' = [cv EXCEPT ![t] = "unlocked"]
        /\ sec' = sec \/ (sec = Free /\ sec'.st = "restored")
    BY <2>0 DEF WaitUnlock, UnlockNested, UnlockRestore, Runs, ThreadContext, Unlocked,
                pendVars
  <2>2. csec = [op |-> "wait", th |-> t, st |-> "none"]
    BY <1>0, <2>1 DEF WaiterHoldsLock
  <2>3. CondTypeOK'
    BY <1>0, <1>a, <2>1 DEF CondTypeOK
  <2>4. CondSectionOK'
    BY <1>0, <2>1, <2>2 DEF CondSectionOK, CondTypeOK
  <2>5. CallsAgree'
    BY <1>0, <2>1 DEF CallsAgree, CondTypeOK
  <2>6. WaitsOK'
    BY <1>0, <2>1 DEF WaitsOK, WaitState, CondTypeOK
  <2>7. RelocksOK'
    BY <1>0, <2>1 DEF RelocksOK, RelockState, CondTypeOK, Free
  <2>8. QED
    BY <1>q, <2>3, <2>4, <2>5, <2>6, <2>7
<1>3. CASE \E t \in Threads, forever \in BOOLEAN : WaitPend(t, forever)
  <2>0. PICK t \in Threads, fv \in BOOLEAN : WaitPend(t, fv)
    BY <1>3
  <2>1. /\ UNCHANGED <<firing, halted, call, late, sec>> /\ UNCHANGED <<cvMutex, signalled>>
        /\ cv[t] = "unlocked" /\ sec.by # t
        /\ pendedOn' = [pendedOn EXCEPT ![t] = Cond]
        /\ timeout' = [timeout EXCEPT ![t] = ~fv]
        /\ swapRet' = [swapRet EXCEPT ![t] = "EAGAIN"]
        /\ runnable' = [runnable EXCEPT ![t] = FALSE]
        /\ csec' = CFree
        /\ cv' = [cv EXCEPT ![t] = "waiting"]
        /\ cvForever' = [cvForever EXCEPT ![t] = fv]
    BY <2>0 DEF WaitPend, PendCurr, mutexVars
  <2>2. /\ csec = [op |-> "wait", th |-> t, st |-> "none"]
        /\ call[t] = None /\ firing = None
    BY <1>0, <2>1 DEF WaiterHoldsLock, CondSectionOK
  <2>3. CondTypeOK'
    BY <1>0, <1>a, <2>1 DEF CondTypeOK, CFree
  <2>4. CondSectionOK'
    BY <1>0, <2>1 DEF CondSectionOK, CFree
  <2>5. CallsAgree'
    BY <1>0, <2>1, <2>2 DEF CallsAgree, CondTypeOK, PendTypeOK
  <2>6. WaitsOK'
    <3>1. signalled[t] = FALSE
      BY <1>0, <2>2 DEF CondSectionOK, CondTypeOK
    <3>2. QED
      BY <1>0, <2>1, <2>2, <3>1 DEF WaitsOK, WaitState, CondTypeOK, PendTypeOK
  <2>7. RelocksOK'
    BY <1>0, <2>1, <2>2 DEF RelocksOK, RelockState, CondTypeOK, PendTypeOK
  <2>8. QED
    BY <1>q, <2>3, <2>4, <2>5, <2>6, <2>7
<1>4. CASE \E t \in Threads : WaitWoken(t)
  <2>0. PICK t \in Threads : WaitWoken(t)
    BY <1>4
  <2>1. /\ UNCHANGED <<pendedOn, timeout, firing, halted, swapRet, runnable, call, late, sec>>
        /\ UNCHANGED <<csec, cvMutex, cvForever, signalled>>
        /\ cv[t] = "waiting" /\ runnable[t] /\ call[t] = None /\ sec.by # t
        /\ cv' = [cv EXCEPT ![t] = "relock"]
    BY <2>0 DEF WaitWoken, Runs, vars, pendVars, mutexVars
  <2>2. CondTypeOK'
    BY <1>0, <1>a, <2>1 DEF CondTypeOK
  <2>3. CondSectionOK'
    BY <1>0, <2>1 DEF CondSectionOK, CondTypeOK
  <2>4. CallsAgree'
    BY <1>0, <2>1 DEF CallsAgree, CondTypeOK, RunnableIsFree
  <2>5. WaitsOK' /\ RelocksOK'
    BY <1>0, <2>1 DEF WaitsOK, WaitState, RelocksOK, RelockState, CondTypeOK
  <2>6. QED
    BY <1>q, <2>2, <2>3, <2>4, <2>5
<1>5. CASE \E t \in Threads : RelockNow(t)
  <2>0. PICK t \in Threads : RelockNow(t)
    BY <1>5
  <2>1. /\ UNCHANGED <<pendedOn, timeout, firing, halted, swapRet, runnable, call, late, sec>>
        /\ UNCHANGED <<csec, cvMutex, cvForever, signalled>>
        /\ cv[t] = "relock" /\ sec.by # t
        /\ cv' = [cv EXCEPT ![t] = "no"]
    BY <2>0 DEF RelockNow, LockNow, Runs, pendVars
  <2>2. CondTypeOK'
    BY <1>0, <1>a, <2>1 DEF CondTypeOK
  <2>3. CondSectionOK' /\ CallsAgree'
    BY <1>0, <2>1 DEF CondSectionOK, CallsAgree, CondTypeOK
  <2>4. WaitsOK' /\ RelocksOK'
    BY <1>0, <2>1 DEF WaitsOK, WaitState, RelocksOK, RelockState, CondTypeOK
  <2>5. QED
    BY <1>q, <2>2, <2>3, <2>4
<1>6. ASSUME NEW t \in Threads, NEW m \in Mutexes, LockRaise(t, m), COthers(t),
             UNCHANGED condVars,
             cv[t] = "no" \/ (cv[t] = "relock" /\ m = cvMutex[t])
      PROVE  CondInv'
  <2>1. /\ UNCHANGED <<pendedOn, timeout, firing, halted, swapRet, runnable, call, late>>
        /\ UNCHANGED <<csec, cv, cvMutex, signalled>>
        /\ sec = Free /\ firing = None
        /\ sec' = [st |-> "raised", by |-> t, m |-> m, th |-> None]
    BY <1>6 DEF LockRaise, Runs, ThreadContext, Unlocked, condVars
  <2>2. csec.op \notin {"signal", "broadcast"}
    BY <1>6 DEF COthers, CUnlocked, CFree
  <2>3. CondSectionOK'
    BY <1>0, <2>1, <2>2 DEF CondSectionOK
  <2>4. CallsAgree'
    BY <1>0, <1>6, <2>1 DEF CallsAgree
  <2>5. WaitsOK' /\ RelocksOK' /\ CondTypeOK'
    BY <1>6, <1>r, <1>t, <1>w, <2>1 DEF Free
  <2>6. QED
    BY <1>q, <2>3, <2>4, <2>5
<1>7. CASE \E t \in Threads : RelockRaise(t)
  <2>0. PICK t \in Threads : RelockRaise(t)
    BY <1>7
  <2>1. cv[t] = "relock" /\ cvMutex[t] \in Mutexes
    BY <1>0, <2>0 DEF RelockRaise, CallsAgree
  <2>2. QED
    BY <1>6, <2>0, <2>1 DEF RelockRaise
<1>8. CASE \E t \in Threads : LockCallReturn(t)
  <2>0. PICK t \in Threads : LockCallReturn(t)
    BY <1>8
  <2>1. /\ UNCHANGED <<pendedOn, timeout, firing, halted, swapRet, runnable, sec>>
        /\ UNCHANGED <<csec, cvMutex, cvForever, signalled>>
        /\ call[t] # None /\ sec = Free
        /\ call' = [call EXCEPT ![t] = None]
        /\ (late' = late /\ ~late[t]) \/ late' = [late EXCEPT ![t] = FALSE]
        /\ cv' = [cv EXCEPT ![t] = "no"]
    BY <2>0 DEF LockCallReturn, LockReturn, LockTimedOut, Others, Unlocked, pendVars
  <2>2. cv[t] \in {"no", "relock"}
    BY <1>0, <2>1 DEF CallsAgree
  <2>3. CondTypeOK'
    BY <1>0, <1>a, <2>1 DEF CondTypeOK
  <2>4. CondSectionOK'
    BY <1>0, <2>1, <2>2 DEF CondSectionOK, CondTypeOK, TypeOK
  <2>5. CallsAgree'
    BY <1>0, <2>1, <2>2 DEF CallsAgree, CondTypeOK, TypeOK, Free
  <2>6. WaitsOK'
    BY <1>0, <2>1 DEF WaitsOK, WaitState, CondTypeOK
  <2>7. RelocksOK'
    BY <1>0, <2>1 DEF RelocksOK, RelockState, CondTypeOK, TypeOK
  <2>8. QED
    BY <1>q, <2>3, <2>4, <2>5, <2>6, <2>7
<1>9. CASE SignalUnpend \/ BroadcastUnpend
  <2>1. PICK h \in Threads : h = Head(waitq[Cond]) /\ pendedOn[h] = Cond
    BY <1>0, <1>9, HeadFacts DEF SignalUnpend, BroadcastUnpend, UnpendFirst
  <2>2. /\ UNCHANGED <<firing, halted, swapRet, runnable, call, late, sec>>
        /\ UNCHANGED <<cv, cvMutex, cvForever, signalled>>
        /\ sec = Free /\ csec.op # "wait" /\ csec.st # "unpended"
        /\ pendedOn' = [pendedOn EXCEPT ![h] = None]
        /\ timeout' = [timeout EXCEPT ![h] = FALSE]
        /\ csec' \in {[op |-> o, th |-> h, st |-> "unpended"] : o \in {"signal", "broadcast"}}
    BY <1>9, <2>1 DEF SignalUnpend, BroadcastUnpend, UnpendFirst, Others, Unlocked,
                      CUnlocked, CFree, mutexVars
  <2>3. cv[h] = "waiting" /\ ~runnable[h]
    BY <1>0, <2>1 DEF CallsAgree, RunnableIsFree
  <2>4. CondTypeOK'
    BY <1>0, <1>a, <2>2 DEF CondTypeOK
  <2>5. CondSectionOK'
    BY <1>0, <2>2, <2>3 DEF CondSectionOK
  <2>6. CallsAgree'
    BY <1>0, <2>2 DEF CallsAgree, PendTypeOK
  <2>7. WaitsOK'
    BY <1>0, <2>1, <2>2 DEF WaitsOK, WaitState, PendTypeOK
  <2>8. RelocksOK'
    BY <1>0, <2>1, <2>2, <2>3 DEF RelocksOK, RelockState, PendTypeOK
  <2>9. QED
    BY <1>q, <2>4, <2>5, <2>6, <2>7, <2>8
<1>10. CASE BroadcastDone
  <2>1. /\ UNCHANGED <<pendedOn, timeout, firing, halted, swapRet, runnable, call, late, sec>>
        /\ UNCHANGED <<cv, cvMutex, cvForever, signalled>>
        /\ csec.st = "none" /\ csec' = CFree
    BY <1>10 DEF BroadcastDone, vars, pendVars, mutexVars
  <2>2. CondTypeOK'
    BY <1>0, <1>a, <2>1 DEF CondTypeOK, CFree
  <2>3. CondSectionOK' /\ CallsAgree'
    BY <1>0, <2>1 DEF CondSectionOK, CallsAgree, CFree
  <2>4. WaitsOK' /\ RelocksOK'
    BY <1>0, <2>1 DEF WaitsOK, WaitState, RelocksOK, RelockState, CFree
  <2>5. QED
    BY <1>q, <2>2, <2>3, <2>4
<1>11. CASE CondStoreRetval
  <2>1. csec.th \in Threads /\ cv[csec.th] = "waiting" /\ call[csec.th] = None
    BY <1>0, <1>11 DEF CondStoreRetval, CondSectionOK, CallsAgree
  <2>2. /\ UNCHANGED <<pendedOn, timeout, firing, halted, runnable, call, late, sec>>
        /\ UNCHANGED <<cv, cvMutex, cvForever>>
        /\ csec.st = "unpended"
        /\ swapRet' = [swapRet EXCEPT ![csec.th] = "0"]
        /\ csec' = [csec EXCEPT !.st = "set"]
        /\ signalled' = [signalled EXCEPT ![csec.th] = TRUE]
    BY <1>11 DEF CondStoreRetval, SetRetval, mutexVars
  <2>3. csec'.st = "set" /\ csec'.th = csec.th /\ csec'.op = csec.op
    BY <1>0, <2>2 DEF CondTypeOK
  <2>4. CondTypeOK'
    BY <1>0, <1>a, <2>2 DEF CondTypeOK
  <2>5. CondSectionOK'
    BY <1>0, <2>2, <2>3 DEF CondSectionOK, CFree
  <2>6. CallsAgree'
    BY <1>0, <2>2 DEF CallsAgree
  <2>7. WaitsOK'
    BY <1>0, <2>1, <2>2, <2>3 DEF WaitsOK, WaitState, CondTypeOK, PendTypeOK
  <2>8. RelocksOK'
    BY <1>0, <2>1, <2>2 DEF RelocksOK, RelockState, PendTypeOK
  <2>9. QED
    BY <1>q, <2>4, <2>5, <2>6, <2>7, <2>8
<1>12. CASE CondReady
  <2>1. /\ UNCHANGED <<pendedOn, timeout, firing, halted, swapRet, call, late, sec>>
        /\ UNCHANGED <<cv, cvMutex, cvForever, signalled>>
        /\ csec.st = "set" /\ csec.op \in {"signal", "broadcast"} /\ sec = Free
        /\ csec' \in {CFree, [op |-> "broadcast", th |-> None, st |-> "none"]}
        /\ \A t \in Threads : runnable[t] => runnable'[t]
    BY <1>0, <1>12 DEF CondReady, ReadyThread, mutexVars, CondSectionOK, PendTypeOK
  <2>2. CondTypeOK'
    BY <1>0, <1>a, <2>1 DEF CondTypeOK, CFree
  <2>3. CondSectionOK'
    BY <1>0, <2>1 DEF CondSectionOK, CFree
  <2>4. CallsAgree'
    BY <1>0, <2>1 DEF CallsAgree
  <2>5. WaitsOK'
    BY <1>0, <2>1 DEF WaitsOK, WaitState, CFree
  <2>6. RelocksOK'
    BY <1>0, <2>1 DEF RelocksOK, RelockState, Free
  <2>7. QED
    BY <1>q, <2>2, <2>3, <2>4, <2>5, <2>6
<1>13. CASE \E t \in Threads : MutexCall(t)
  <2>0. PICK t \in Threads, m \in Mutexes :
          /\ COthers(t) /\ cv[t] = "no" /\ UNCHANGED condVars
          /\ LockNow(t, m) \/ LockRaise(t, m) \/ UnlockNested(t, m) \/ UnlockRestore(t, m)
    BY <1>13 DEF MutexCall
  <2>1. CASE LockRaise(t, m)
    BY <1>6, <2>0, <2>1
  <2>2. CASE LockNow(t, m) \/ UnlockNested(t, m) \/ UnlockRestore(t, m)
    <3>1. /\ UNCHANGED <<pendedOn, timeout, firing, halted, swapRet, runnable, call, late>>
          /\ UNCHANGED <<csec, cv, cvMutex, signalled>>
          /\ sec' = sec \/ (sec = Free /\ sec'.st = "restored")
          /\ firing = None
      BY <2>0, <2>2 DEF LockNow, UnlockNested, UnlockRestore, Runs, ThreadContext,
                        Unlocked, pendVars, condVars
    <3>2. csec.op \notin {"signal", "broadcast"}
      BY <2>0 DEF COthers, CUnlocked, CFree
    <3>3. CondSectionOK' /\ CallsAgree'
      BY <1>0, <3>1, <3>2 DEF CondSectionOK, CallsAgree
    <3>4. WaitsOK' /\ RelocksOK' /\ CondTypeOK'
      BY <1>r, <1>t, <1>w, <2>0, <3>1 DEF Free
    <3>5. QED
      BY <1>q, <3>3, <3>4
  <2>3. QED
    BY <2>0, <2>1, <2>2
<1>14. CASE MutexStep
  <2>0. UNCHANGED condVars /\ UNCHANGED <<csec, cv, cvMutex, cvForever, signalled>>
    BY <1>14 DEF MutexStep, condVars
  <2>1. CASE \E forever \in BOOLEAN : LockPend(forever) /\ (cv[sec.by] = "relock" => forever)
    <3>0. PICK fv \in BOOLEAN : LockPend(fv) /\ (cv[sec.by] = "relock" => fv)
      BY <2>1
    <3>1. /\ sec.by \in Threads /\ sec.m \in Mutexes /\ sec.st = "raised" /\ sec # Free
          /\ call[sec.by] = None
      BY <1>0, <3>0 DEF LockPend, SectionOK, Free
    <3>2. /\ UNCHANGED <<firing, halted, late>> /\ sec' = Free
          /\ pendedOn' = [pendedOn EXCEPT ![sec.by] = sec.m]
          /\ timeout' = [timeout EXCEPT ![sec.by] = ~fv]
          /\ swapRet' = [swapRet EXCEPT ![sec.by] = "EAGAIN"]
          /\ runnable' = [runnable EXCEPT ![sec.by] = FALSE]
          /\ call' = [call EXCEPT ![sec.by] = sec.m]
      BY <3>0 DEF LockPend, PendCurr
    <3>3. cv[sec.by] \in {"no", "relock"} /\ firing = None /\ sec.m # Cond /\ sec.m # None
      BY <1>0, <3>1 DEF CallsAgree, CondSectionOK
    <3>4. CondSectionOK'
      BY <1>0, <2>0, <3>1, <3>2, <3>3 DEF CondSectionOK, PendTypeOK, TypeOK
    <3>5. CallsAgree'
      BY <1>0, <2>0, <3>1, <3>2, <3>3 DEF CallsAgree, PendTypeOK, TypeOK, Free
    <3>6. WaitsOK'
      BY <1>0, <2>0, <3>1, <3>2, <3>3 DEF WaitsOK, WaitState, PendTypeOK
    <3>7. RelocksOK'
      <4>1. ~late[sec.by]
        BY <1>0, <3>1 DEF CallsAgree
      <4>2. QED
        BY <1>0, <2>0, <3>0, <3>1, <3>2, <3>3, <4>1
           DEF RelocksOK, RelockState, PendTypeOK, TypeOK
    <3>8. QED
      BY <1>q, <1>t, <2>0, <3>4, <3>5, <3>6, <3>7
  <2>2. CASE UnlockFree
    <3>1. /\ UNCHANGED <<pendedOn, timeout, firing, halted, swapRet, runnable, call, late>>
          /\ sec.st = "restored" /\ sec' = Free
      BY <2>2 DEF UnlockFree, pendVars
    <3>2. CondSectionOK' /\ CallsAgree'
      BY <1>0, <2>0, <3>1 DEF CondSectionOK, CallsAgree, Free
    <3>3. QED
      BY <1>q, <1>r, <1>t, <1>w, <2>0, <3>1, <3>2
  <2>3. CASE UnlockUnpend
    <3>1. sec.m \in Mutexes /\ sec.m \in WaitQs /\ UnpendFirst(sec.m) /\ sec # Free
          /\ sec.st = "restored"
      BY <1>0, <2>3 DEF UnlockUnpend, SectionOK, Free
    <3>2. PICK h \in Threads : h = Head(waitq[sec.m]) /\ pendedOn[h] = sec.m
      BY <1>0, <3>1, HeadFacts DEF UnpendFirst
    <3>3. /\ UNCHANGED <<firing, halted, swapRet, runnable, call, late>>
          /\ pendedOn' = [pendedOn EXCEPT ![h] = None]
          /\ timeout' = [timeout EXCEPT ![h] = FALSE]
          /\ sec'.st = "unpended" /\ sec'.th = h
      BY <1>0, <2>3, <3>2 DEF UnlockUnpend, UnpendFirst, TypeOK
    <3>4. ~runnable[h] /\ call[h] = sec.m /\ cv[h] # "waiting"
      BY <1>0, <3>1, <3>2 DEF RunnableIsFree, WaitersAreCallers, CallsAgree
    <3>5. CondSectionOK'
      BY <1>0, <2>0, <3>1, <3>3 DEF CondSectionOK, Free
    <3>6. CallsAgree'
      BY <1>0, <2>0, <3>3 DEF CallsAgree, PendTypeOK
    <3>7. WaitsOK'
      BY <1>0, <2>0, <3>3, <3>4 DEF WaitsOK, WaitState, PendTypeOK
    <3>8. RelocksOK'
      BY <1>0, <2>0, <3>1, <3>3, <3>4 DEF RelocksOK, RelockState, PendTypeOK
    <3>9. QED
      BY <1>q, <1>t, <2>0, <3>5, <3>6, <3>7, <3>8
  <2>4. CASE UnlockHandOver
    <3>1. sec.th \in Threads /\ sec # Free
      BY <1>0, <2>4 DEF UnlockHandOver, SectionOK, Free
    <3>2. /\ UNCHANGED <<pendedOn, timeout, firing, halted, runnable, call, late>>
          /\ swapRet' = [swapRet EXCEPT ![sec.th] = "0"]
          /\ sec'.st = "set" /\ sec'.th = sec.th
      BY <1>0, <2>4 DEF UnlockHandOver, SetRetval, TypeOK
    <3>3. CondSectionOK' /\ CallsAgree'
      BY <1>0, <2>0, <3>1, <3>2 DEF CondSectionOK, CallsAgree
    <3>4. WaitsOK'
      BY <1>0, <2>0, <3>1, <3>2 DEF WaitsOK, WaitState, PendTypeOK
    <3>5. RelocksOK'
      BY <1>0, <2>0, <3>1, <3>2 DEF RelocksOK, RelockState, PendTypeOK
    <3>6. QED
      BY <1>q, <1>t, <2>0, <3>3, <3>4, <3>5
  <2>5. CASE UnlockReady
    <3>1. /\ UNCHANGED <<pendedOn, timeout, firing, halted, swapRet, call, late>>
          /\ sec.st = "set" /\ sec' = Free /\ sec # Free
          /\ \A t \in Threads : runnable[t] => runnable'[t]
      BY <1>0, <2>5 DEF UnlockReady, ReadyThread, PendTypeOK, Free
    <3>2. CondSectionOK'
      BY <1>0, <2>0, <3>1 DEF CondSectionOK
    <3>3. CallsAgree'
      BY <1>0, <2>0, <3>1 DEF CallsAgree, Free
    <3>4. WaitsOK'
      BY <1>w, <2>0, <3>1
    <3>5. RelocksOK'
      BY <1>0, <2>0, <3>1 DEF RelocksOK, RelockState, Free
    <3>6. QED
      BY <1>q, <1>t, <2>0, <3>2, <3>3, <3>4, <3>5
  <2>6. QED
    BY <1>14, <2>1, <2>2, <2>3, <2>4, <2>5 DEF MutexStep
<1>15. CASE \E t \in Threads : LockLateStep(t)
  <2>0. PICK t \in Threads : LockLateStep(t)
    BY <1>15
  <2>1. /\ UNCHANGED <<pendedOn, timeout, firing, halted, swapRet, runnable, call, sec>>
        /\ UNCHANGED condVars /\ UNCHANGED <<csec, cv, cvMutex, signalled>>
        /\ call[t] # None /\ runnable[t] /\ swapRet[t] # "0"
        /\ late' = [late EXCEPT ![t] = TRUE]
    BY <2>0 DEF LockLateStep, LockLate, pendVars, condVars
  <2>2. cv[t] # "relock"
    <3>1. pendedOn[t] = None /\ halted[t] # "dead"
      BY <1>0, <2>1 DEF RunnableIsFree
    <3>2. QED
      BY <1>0, <2>1, <3>1 DEF RelocksOK, RelockState
  <2>3. CondSectionOK' /\ CallsAgree'
    BY <1>0, <2>1 DEF CondSectionOK, CallsAgree, TypeOK
  <2>4. RelocksOK'
    BY <1>0, <2>1, <2>2 DEF RelocksOK, RelockState, TypeOK
  <2>5. QED
    BY <1>q, <1>t, <1>w, <2>1, <2>3, <2>4
<1>16. CASE CondEnvironment
  <2>1. /\ sec = Free /\ csec = CFree /\ Outside
        /\ UNCHANGED condVars /\ UNCHANGED <<csec, cv, cvMutex, cvForever, signalled>>
        /\ UNCHANGED <<sec, call, late>>
    BY <1>16 DEF CondEnvironment, Environment, CUnlocked, Others, Unlocked, condVars
  <2>2. /\ swapRet' = swapRet
        /\ \A t \in Threads : pendedOn'[t] \in {pendedOn[t], None}
        /\ \A t \in Threads : (~timeout[t] /\ firing # t) =>
             pendedOn'[t] = pendedOn[t] /\ ~timeout'[t] /\ firing' # t
        /\ \A t \in Threads : halted[t] = "dead" => halted'[t] = "dead"
    BY <1>0, <2>1, OutsideFacts, OutsideForever, OutsideDead
  <2>3. CondSectionOK' /\ CallsAgree'
    BY <1>0, <2>1, <2>2 DEF CondSectionOK, CallsAgree, CFree, Free
  <2>4. WaitsOK'
    BY <1>0, <2>1, <2>2 DEF WaitsOK, WaitState, CFree
  <2>5. RelocksOK'
    BY <1>0, <2>1, <2>2 DEF RelocksOK, RelockState, Free
  <2>6. QED
    BY <1>q, <1>t, <2>1, <2>3, <2>4, <2>5
<1>17. CASE \E t \in Victims : CondAbort(t)
  <2>0. PICK t \in Threads : CondAbort(t)
    BY <1>17
  <2>1. /\ sec = Free /\ csec = CFree /\ Abort(t)
        /\ UNCHANGED condVars /\ UNCHANGED <<csec, cv, cvMutex, cvForever, signalled>>
        /\ UNCHANGED <<sec, call, late>>
    BY <2>0 DEF CondAbort, AbortThread, CUnlocked, Others, Unlocked, condVars, mutexVars
  <2>2. /\ swapRet' = swapRet /\ firing' = firing /\ pendedOn'[t] = None
        /\ \A u \in Threads : u # t => pendedOn'[u] = pendedOn[u]
        /\ halted'[t] = "dead"
        /\ \A u \in Threads : u # t => halted'[u] = halted[u] /\ timeout'[u] = timeout[u]
    <3>1. PendInv /\ Abort(t)
      BY <1>0, <2>1
    <3>2. /\ swapRet' = swapRet /\ firing' = firing /\ pendedOn'[t] = None
          /\ \A u \in Threads : u # t => pendedOn'[u] = pendedOn[u]
      BY <3>1, AbortFacts
    <3>3. /\ halted' = [halted EXCEPT ![t] = "dead"]
          /\ timeout' = [timeout EXCEPT ![t] = FALSE]
      BY <3>1 DEF Abort
    <3>4. DOMAIN halted = Threads /\ DOMAIN timeout = Threads
      BY <1>0 DEF PendTypeOK
    <3>5. QED
      BY <3>2, <3>3, <3>4
  <2>3. CondSectionOK' /\ CallsAgree'
    BY <1>0, <2>1, <2>2 DEF CondSectionOK, CallsAgree, CFree, Free
  <2>4. WaitsOK'
    BY <1>0, <2>1, <2>2 DEF WaitsOK, WaitState, CFree
  <2>5. RelocksOK'
    BY <1>0, <2>1, <2>2 DEF RelocksOK, RelockState, Free
  <2>6. QED
    BY <1>q, <1>t, <2>1, <2>3, <2>4, <2>5
<1>18. CASE UNCHANGED cvars
  <2>1. /\ UNCHANGED <<pendedOn, timeout, firing, halted, swapRet, runnable, call, late, sec>>
        /\ UNCHANGED condVars /\ UNCHANGED <<csec, cv, cvMutex, signalled>>
    BY <1>18 DEF cvars, vars, pendVars, mutexVars, condVars
  <2>2. CondSectionOK' /\ CallsAgree'
    BY <1>0, <2>1 DEF CondSectionOK, CallsAgree
  <2>3. QED
    BY <1>q, <1>r, <1>t, <1>w, <2>1, <2>2
<1>19. QED
  BY <1>1, <1>2, <1>3, <1>4, <1>5, <1>7, <1>8, <1>9, <1>10, <1>11, <1>12, <1>13,
     <1>14, <1>15, <1>16, <1>17, <1>18 DEF CondNext

(* On one CPU a K_FOREVER wait ends only by a signal or a broadcast, and   *)
(* a wait that was signalled returns 0 even if its timeout expires before  *)
(* the thread runs.                                                        *)
THEOREM CondUnblockedBySignal ==
  ASSUME ~SMP
  PROVE  CondSpec => []UnblockedBySignal
<1>1. CondInv => UnblockedBySignal
  <2> SUFFICES ASSUME CondInv, NEW t \in Threads, cv[t] = "waiting", runnable[t]
               PROVE  /\ cvForever[t] => signalled[t]
                      /\ signalled[t] => swapRet[t] = "0"
    BY DEF UnblockedBySignal
  <2>1. WaitState(t)
    BY DEF CondInv, WaitsOK
  <2>2. pendedOn[t] = None /\ halted[t] # "dead"
    BY DEF CondInv, MutexInv, PendInv, RunnableIsFree
  <2>3. ~(csec.st = "unpended" /\ csec.th = t)
    BY DEF CondInv, CondSectionOK
  <2>4. QED
    BY <2>1, <2>2, <2>3, PendAssumption, CondAssumption DEF WaitState
<1>2. CondInv /\ [CondNext]_cvars => CondInv'
  BY CondNextInv
<1>3. QED
  BY CondInitInv, <1>1, <1>2, PTL DEF CondSpec

(* On one CPU k_condvar_wait() returns to a thread that owns the mutex,    *)
(* whether it was signalled or timed out, and although it ignores what its *)
(* k_mutex_lock() returns.                                                 *)
THEOREM CondWaitReturnsOwning ==
  ASSUME ~SMP
  PROVE  CondSpec => WaitReturnsOwning
<1> DEFINE Owning == \A t \in Threads :
             (cv[t] # "no" /\ cv'[t] = "no") => owner'[cvMutex[t]] = t
<1>1. ASSUME CondInv, CondNext, NEW t \in Threads, cv[t] # "no", cv'[t] = "no"
      PROVE  owner'[cvMutex[t]] = t
  <2>0. /\ CondTypeOK /\ CallsAgree /\ RelocksOK /\ TypeOK /\ GrantedOwns
    BY <1>1 DEF CondInv, MutexInv
  <2>1. RelockNow(t) \/ LockCallReturn(t)
    BY <1>1, <2>0
       DEF CondNext, WaitEnter, WaitUnlock, WaitPend, WaitWoken, RelockNow, RelockRaise,
           LockCallReturn, SignalUnpend, BroadcastUnpend, BroadcastDone,
           CondStoreRetval, CondReady, MutexCall, MutexStep, LockLateStep,
           CondEnvironment, CondAbort, condVars, CondTypeOK
  <2>2. cvMutex[t] \in Mutexes
    BY <1>1, <2>0 DEF CallsAgree
  <2>3. CASE RelockNow(t)
    BY <2>0, <2>2, <2>3 DEF RelockNow, LockNow, TypeOK
  <2>4. CASE LockCallReturn(t)
    <3>1. call[t] # None
      BY <2>4 DEF LockCallReturn, LockReturn, LockTimedOut
    <3>2. cv[t] = "relock" /\ call[t] = cvMutex[t] /\ ~late[t]
      BY <1>1, <2>0, <3>1 DEF CallsAgree, RelocksOK, RelockState
    <3>3. LockReturn(t)
      BY <2>4, <3>2 DEF LockCallReturn, LockTimedOut
    <3>4. QED
      BY <2>0, <3>2, <3>3 DEF LockReturn, GrantedOwns
  <2>5. QED
    BY <2>1, <2>3, <2>4
<1>2. CondInv /\ [CondNext]_cvars => [Owning]_cvars
  BY <1>1
<1>3. CondInv /\ [CondNext]_cvars => CondInv'
  BY CondNextInv
<1>4. CondSpec => [][Owning]_cvars
  BY CondInitInv, <1>2, <1>3, PTL DEF CondSpec
<1>5. QED
  BY <1>4 DEF WaitReturnsOwning

(* On one CPU the mutexes still exclude and their queues still match when  *)
(* condition variables release and take them.                              *)
THEOREM CondKeepsExclusion ==
  ASSUME ~SMP
  PROVE  CondSpec => [](MutualExclusion /\ NoWaiterOnFreeMutex /\ QueueMatchesState)
<1>1. CondInv => MutualExclusion /\ NoWaiterOnFreeMutex /\ QueueMatchesState
  BY DEF CondInv, MutexInv, PendInv, FreeMutexOK, NoWaiterOnFreeMutex
<1>2. CondInv /\ [CondNext]_cvars => CondInv'
  BY CondNextInv
<1>3. QED
  BY CondInitInv, <1>1, <1>2, PTL DEF CondSpec

=============================================================================
