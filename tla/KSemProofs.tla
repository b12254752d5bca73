----------------------------- MODULE KSemProofs -----------------------------
(***************************************************************************)
(* Theorems about the semaphore, for every set of threads, every priority  *)
(* assignment, limit and initial count.                                    *)
(***************************************************************************)
EXTENDS KSem, PendProofs

(* The inductive invariant of the safety theorem: a waiter can only be     *)
(* missed if a queue and a thread state disagree, so both are needed.      *)
SemInv == TypeOK /\ PendInv /\ NoWaiterWhileAvailable

LEMMA SemInitInv == Init => SemInv
<1> SUFFICES ASSUME Init PROVE SemInv
  OBVIOUS
<1>1. PendInv
  BY PendInitInv DEF Init
<1>2. TypeOK
  BY <1>1, SemAssumption, PendAssumption DEF Init, TypeOK, PendInv, Free
<1>3. NoWaiterWhileAvailable
  BY SemAssumption DEF Init, PendInit, NoWaiterWhileAvailable
<1>4. QED
  BY <1>1, <1>2, <1>3 DEF SemInv

LEMMA SemNextInv ==
  ASSUME SemInv, [Next]_vars
  PROVE  SemInv'
<1> USE SemAssumption, PendAssumption DEF SemInv
<1>0. TypeOK /\ PendInv /\ NoWaiterWhileAvailable /\ Sem \in WaitQs
  OBVIOUS
<1>a. PendInv => PendTypeOK
  BY DEF PendInv
<1>b. waitq \in [WaitQs -> Seq(Threads)]
  BY <1>0 DEF TypeOK, PendTypeOK
<1>1. CASE GiveUnpend
  <2>1. PendInv'
    BY <1>0, <1>1, UnpendFirstInv DEF GiveUnpend
  <2>2. TypeOK'
    <3>1. Head(waitq[Sem]) \in Threads
      BY <1>0, <1>1, HeadFacts DEF GiveUnpend, UnpendFirst, PendInv
    <3>2. QED
      BY <1>0, <1>1, <2>1, <3>1 DEF GiveUnpend, TypeOK, PendInv
  <2>3. NoWaiterWhileAvailable'
    BY <1>0, <1>1 DEF GiveUnpend, UnpendFirst, NoWaiterWhileAvailable
  <2>4. QED
    BY <2>1, <2>2, <2>3
<1>2. CASE GiveCount
  <2>1. PendInv'
    BY <1>0, <1>2, PendStutterInv DEF GiveCount
  <2>2. TypeOK'
    BY <1>0, <1>2, <2>1 DEF GiveCount, TypeOK, PendInv
  <2>3. NoWaiterWhileAvailable'
    BY <1>2 DEF GiveCount, pendVars, NoWaiterWhileAvailable
  <2>4. QED
    BY <2>1, <2>2, <2>3
<1>3. CASE ResetUnpend
  <2>1. PendInv'
    BY <1>0, <1>3, UnpendFirstInv DEF ResetUnpend
  <2>2. TypeOK'
    <3>1. Head(waitq[Sem]) \in Threads
      BY <1>0, <1>3, HeadFacts DEF ResetUnpend, UnpendFirst, PendInv
    <3>2. QED
      BY <1>0, <1>3, <2>1, <3>1 DEF ResetUnpend, TypeOK, PendInv
  <2>3. NoWaiterWhileAvailable'
    BY <1>0, <1>3 DEF ResetUnpend, UnpendFirst, NoWaiterWhileAvailable
  <2>4. QED
    BY <2>1, <2>2, <2>3
<1>4. CASE ResetDone
  <2>1. PendInv'
    BY <1>0, <1>4, PendStutterInv DEF ResetDone
  <2>2. TypeOK'
    BY <1>0, <1>4, <2>1 DEF ResetDone, TypeOK, PendInv, Free
  <2>3. NoWaiterWhileAvailable'
    BY <1>4 DEF ResetDone, NoWaiterWhileAvailable
  <2>4. QED
    BY <2>1, <2>2, <2>3
<1>5. CASE StoreRetval
  <2>1. PendInv'
    BY <1>0, <1>5, SetRetvalInv DEF StoreRetval, RetVals
  <2>2. TypeOK'
    BY <1>0, <1>5, <2>1 DEF StoreRetval, TypeOK, PendInv
  <2>3. NoWaiterWhileAvailable'
    BY <1>0, <1>5 DEF StoreRetval, SetRetval, NoWaiterWhileAvailable
  <2>4. QED
    BY <2>1, <2>2, <2>3
<1>6. CASE ReadyWoken
  <2>1. PendInv'
    BY <1>0, <1>6, ReadyThreadInv DEF ReadyWoken
  <2>2. TypeOK'
    BY <1>0, <1>6, <2>1 DEF ReadyWoken, TypeOK, PendInv, Free
  <2>3. NoWaiterWhileAvailable'
    BY <1>0, <1>6 DEF ReadyWoken, ReadyThread, NoWaiterWhileAvailable
  <2>4. QED
    BY <2>1, <2>2, <2>3
<1>7. CASE TakeNow
  <2>1. PendInv'
    BY <1>0, <1>7, PendStutterInv DEF TakeNow
  <2>2. TypeOK'
    BY <1>0, <1>7, <2>1 DEF TakeNow, TypeOK, PendInv
  <2>3. NoWaiterWhileAvailable'
    BY <1>0, <1>7 DEF TakeNow, pendVars, NoWaiterWhileAvailable
  <2>4. QED
    BY <2>1, <2>2, <2>3
<1>8. CASE \E t \in Threads, fv \in BOOLEAN : TakePend(t, fv)
  <2>0. PICK t \in Threads, fv \in BOOLEAN : TakePend(t, fv)
    BY <1>8
  <2>1. PendInv'
    BY <1>0, <2>0, PendCurrInv DEF TakePend
  <2>2. TypeOK'
    BY <1>0, <2>0, <2>1 DEF TakePend, TypeOK, PendInv
  <2>3. NoWaiterWhileAvailable'
    BY <2>0 DEF TakePend, NoWaiterWhileAvailable
  <2>4. QED
    BY <2>1, <2>2, <2>3
<1>9. CASE \E t \in Threads : TakeReturn(t)
  <2>0. PICK t \in Threads : TakeReturn(t)
    BY <1>9
  <2>1. PendInv'
    BY <1>0, <2>0, PendStutterInv DEF TakeReturn
  <2>2. TypeOK'
    BY <1>0, <2>0, <2>1 DEF TakeReturn, TypeOK, PendInv, PendTypeOK
  <2>3. NoWaiterWhileAvailable'
    BY <1>0, <2>0 DEF TakeReturn, pendVars, NoWaiterWhileAvailable
  <2>4. QED
    BY <2>1, <2>2, <2>3
<1>10. CASE Environment
  <2>1. PendInv'
    BY <1>0, <1>10, OutsideInv DEF Environment
  <2>2. TypeOK'
    BY <1>0, <1>10, <2>1 DEF Environment, TypeOK, PendInv, semVars
  <2>3. NoWaiterWhileAvailable'
    BY <1>0, <1>10, OutsideKeepsEmpty
       DEF Environment, semVars, NoWaiterWhileAvailable
  <2>4. QED
    BY <2>1, <2>2, <2>3
<1>11. CASE \E t \in Victims : AbortThread(t)
  <2>0. PICK t \in Threads : AbortThread(t)
    BY <1>11
  <2>1. PendInv'
    BY <1>0, <2>0, AbortInv DEF AbortThread
  <2>2. TypeOK'
    BY <1>0, <2>0, <2>1 DEF AbortThread, TypeOK, PendInv
  <2>3. NoWaiterWhileAvailable'
    BY <1>0, <2>0, UnpendKeepsEmpty
       DEF AbortThread, Abort, NoWaiterWhileAvailable, PendInv
  <2>4. QED
    BY <2>1, <2>2, <2>3
<1>12. CASE UNCHANGED vars
  <2>1. PendInv'
    BY <1>0, <1>12, PendStutterInv DEF vars
  <2>2. QED
    BY <1>0, <1>12, <2>1
       DEF vars, pendVars, semVars, TypeOK, PendInv, NoWaiterWhileAvailable
<1>13. QED
  BY <1>1, <1>2, <1>3, <1>4, <1>5, <1>6, <1>7, <1>8, <1>9, <1>10, <1>11, <1>12
     DEF Next

(* Type correctness of the semaphore: in particular the count stays within *)
(* 0..limit, whatever gives, takes, resets and timeouts do.                *)
THEOREM SemTypeCorrect == Spec => []TypeOK
<1>1. SemInv => TypeOK
  BY DEF SemInv
<1>2. QED
  BY SemInitInv, SemNextInv, <1>1, PTL DEF Spec

(* No lost wakeup, on one CPU or several: no thread waits in k_sem_take()  *)
(* while the count is positive.                                            *)
THEOREM SemNoLostWakeup == Spec => []NoWaiterWhileAvailable
<1>1. SemInv => NoWaiterWhileAvailable
  BY DEF SemInv
<1>2. QED
  BY SemInitInv, SemNextInv, <1>1, PTL DEF Spec

(* Wait queue and thread states agree in every reachable state. *)
THEOREM SemQueueMatches == Spec => [](QueueMatchesState /\ RunnableIsFree)
<1>1. SemInv => QueueMatchesState /\ RunnableIsFree
  BY DEF SemInv, PendInv
<1>2. QED
  BY SemInitInv, SemNextInv, <1>1, PTL DEF Spec

-----------------------------------------------------------------------------
(* On one CPU the section in progress is never interleaved, so the thread  *)
(* it has unpended stays inside its take, with -EAGAIN as return value     *)
(* until the section stores another.                                       *)
OneCpuInv ==
  /\ \A t \in Threads : swapRet[t] \in {"0", "EAGAIN"}
  /\ \A t \in Threads : pendedOn[t] # None =>
       call[t] = "take" /\ swapRet[t] = "EAGAIN"
  /\ sec.op = "free" => sec = Free
  /\ sec.st # "none" => sec.th \in Threads /\ pendedOn[sec.th] = None
  /\ sec.st = "unpended" => swapRet[sec.th] = "EAGAIN"

LEMMA OneCpuInit == Init => OneCpuInv
BY PendAssumption DEF Init, PendInit, OneCpuInv, Free

LEMMA OneCpuNext ==
  ASSUME ~SMP, SemInv, OneCpuInv, [Next]_vars
  PROVE  OneCpuInv'
<1> USE SemAssumption, PendAssumption
<1>0. PendTypeOK /\ QueueMatchesState /\ RunnableIsFree /\ TypeOK /\ Sem \in WaitQs
  BY DEF SemInv, PendInv
<1>1. ASSUME UnpendFirst(Sem), UNCHANGED call,
             sec'.th = Head(waitq[Sem]), sec'.st = "unpended", sec'.op # "free"
      PROVE  OneCpuInv'
  <2> DEFINE h == Head(waitq[Sem])
  <2>1. h \in Threads /\ pendedOn[h] = Sem
    BY <1>0, <1>1, HeadFacts DEF UnpendFirst
  <2>2. /\ pendedOn' = [pendedOn EXCEPT ![h] = None]
        /\ UNCHANGED <<swapRet, call>> /\ sec'.th = h
    BY <1>1 DEF UnpendFirst
  <2> HIDE DEF h
  <2>3. QED
    BY <1>0, <1>1, <2>1, <2>2 DEF OneCpuInv, PendTypeOK
<1>2. ASSUME NEW t \in Threads, UnpendNoTimeout(t), UNCHANGED <<swapRet, call, sec>>
      PROVE  OneCpuInv'
  <2>1. /\ pendedOn'[t] = None
        /\ \A u \in Threads : u # t => pendedOn'[u] = pendedOn[u]
    BY <1>0, <1>2, UnpendNoTimeoutMatch
  <2>2. QED
    BY <1>2, <2>1 DEF OneCpuInv
<1>3. ASSUME UNCHANGED <<pendedOn, swapRet, call, sec>>
      PROVE  OneCpuInv'
  BY <1>3 DEF OneCpuInv
<1>4. CASE GiveUnpend
  BY <1>1, <1>4 DEF GiveUnpend
<1>5. CASE GiveCount
  BY <1>3, <1>5 DEF GiveCount, pendVars
<1>6. CASE ResetUnpend
  BY <1>1, <1>6 DEF ResetUnpend
<1>7. CASE ResetDone
  BY <1>7 DEF ResetDone, pendVars, OneCpuInv, Free
<1>8. CASE StoreRetval
  <2>1. /\ sec.th \in Threads /\ pendedOn[sec.th] = None
        /\ sec' = [sec EXCEPT !.st = "set"]
        /\ UNCHANGED <<pendedOn, call>>
        /\ swapRet' = [swapRet EXCEPT ![sec.th] =
                         IF sec.op = "give" THEN "0" ELSE "EAGAIN"]
    BY <1>8 DEF StoreRetval, SetRetval, OneCpuInv
  <2>2. sec'.th = sec.th /\ sec'.st = "set" /\ sec'.op = sec.op /\ sec.op # "free"
    BY <1>0, <1>8, <2>1 DEF TypeOK, StoreRetval, OneCpuInv, Free
  <2>3. QED
    BY <1>0, <2>1, <2>2 DEF OneCpuInv, PendTypeOK
<1>9. CASE ReadyWoken
  BY <1>0, <1>9 DEF ReadyWoken, ReadyThread, OneCpuInv, Free
<1>10. CASE TakeNow
  BY <1>3, <1>10 DEF TakeNow, pendVars
<1>11. CASE \E t \in Threads, fv \in BOOLEAN : TakePend(t, fv)
  <2>1. PICK t \in Threads, fv \in BOOLEAN : TakePend(t, fv)
    BY <1>11
  <2>2. /\ pendedOn' = [pendedOn EXCEPT ![t] = Sem]
        /\ swapRet' = [swapRet EXCEPT ![t] = "EAGAIN"]
        /\ call' = [call EXCEPT ![t] = "take"]
        /\ sec = Free /\ sec' = sec
    BY <2>1 DEF TakePend, PendCurr, Unlocked
  <2>3. QED
    BY <1>0, <2>2 DEF OneCpuInv, TypeOK, PendTypeOK, Free
<1>12. CASE \E t \in Threads : TakeReturn(t)
  <2>1. PICK t \in Threads : TakeReturn(t)
    BY <1>12
  <2>2. /\ call' = [call EXCEPT ![t] = "idle"] /\ pendedOn[t] = None
        /\ UNCHANGED <<pendedOn, swapRet, sec>>
    BY <1>0, <2>1 DEF TakeReturn, RunnableIsFree, pendVars
  <2>3. QED
    BY <1>0, <2>2 DEF OneCpuInv, TypeOK
<1>13. CASE Environment
  <2>1. CASE ThreadTimeout
    <3>1. firing \in Threads /\ UNCHANGED <<swapRet, call, sec>>
      BY <1>0, <1>13, <2>1 DEF ThreadTimeout, PendTypeOK, Environment, semVars
    <3>2. CASE halted[firing] = "dead"
      BY <1>3, <2>1, <3>1, <3>2 DEF ThreadTimeout
    <3>3. CASE halted[firing] # "dead"
      BY <1>2, <2>1, <3>1, <3>3 DEF ThreadTimeout
    <3>4. QED
      BY <3>2, <3>3
  <2>2. CASE ~ThreadTimeout
    BY <1>3, <1>13, <2>2
       DEF Environment, semVars, Outside, Expire, PrioSet, SuspendAbortTimeout,
           Suspend, Resume
  <2>3. QED
    BY <2>1, <2>2
<1>14. CASE \E t \in Victims : AbortThread(t)
  BY <1>2, <1>14 DEF AbortThread, Abort
<1>15. CASE UNCHANGED vars
  BY <1>3, <1>15 DEF vars, pendVars, semVars
<1>16. QED
  BY <1>4, <1>5, <1>6, <1>7, <1>8, <1>9, <1>10, <1>11, <1>12, <1>13, <1>14, <1>15
     DEF Next

(* The state of the abstract semaphore. *)
Waiting == {t \in Threads : pendedOn[t] = Sem}
Granted == {t \in Threads : HandedOver(t)}
RefusedSet == {t \in Threads : Refused(t)}
Dead == {t \in Threads : halted[t] = "dead"}

LEMMA RefinementInit == Init => Abs!AbsInit
BY PendAssumption, SemAssumption
   DEF Init, PendInit, Abs!AbsInit, HandedOver, Refused, Free

LEMMA RefinementStep ==
  ASSUME ~SMP, SemInv, OneCpuInv, [Next]_vars
  PROVE  [Abs!AbsNext]_(Abs!absVars)
<1> USE SemAssumption, PendAssumption
<1>0. PendTypeOK /\ QueueMatchesState /\ RunnableIsFree /\ TypeOK /\ Sem \in WaitQs
  BY DEF SemInv, PendInv
<1>s. ASSUME UNCHANGED <<count, result>>,
             Waiting' = Waiting, Granted' = Granted, RefusedSet' = RefusedSet,
             Dead' = Dead
      PROVE  UNCHANGED Abs!absVars
  BY <1>s DEF Abs!absVars, Waiting, Granted, RefusedSet, Dead
<1>u. ASSUME UNCHANGED <<pendedOn, swapRet, call, sec, halted>>
      PROVE  /\ Waiting' = Waiting /\ Granted' = Granted
             /\ RefusedSet' = RefusedSet /\ Dead' = Dead
  BY <1>u DEF Waiting, Granted, RefusedSet, Dead, HandedOver, Refused
<1>w. ASSUME NEW t \in Threads, UnpendNoTimeout(t), UNCHANGED <<swapRet, call, sec>>,
             sec = Free, UNCHANGED <<count, result>>,
             halted[t] # "dead", halted' = [halted EXCEPT ![t] = "no"]
      PROVE  [Abs!AbsNext]_(Abs!absVars)
  <2>1. /\ pendedOn' \in [Threads -> WaitQs \cup {None}]
        /\ pendedOn'[t] = None
        /\ \A u \in Threads : u # t => pendedOn'[u] = pendedOn[u]
    BY <1>0, <1>w, UnpendNoTimeoutMatch
  <2>2. Dead' = Dead
    BY <1>0, <1>w DEF Dead, PendTypeOK
  <2>3. CASE pendedOn[t] = None
    <3>1. Waiting' = Waiting /\ Granted' = Granted /\ RefusedSet' = RefusedSet
      BY <1>0, <1>w, <2>1, <2>3
         DEF Waiting, Granted, RefusedSet, HandedOver, Refused, PendTypeOK
    <3>2. QED
      BY <1>s, <1>w, <2>2, <3>1
  <2>4. CASE pendedOn[t] # None
    <3>1. pendedOn[t] = Sem /\ call[t] = "take" /\ swapRet[t] = "EAGAIN"
      BY <1>0, <2>4 DEF OneCpuInv, PendTypeOK
    <3>2. Waiting' = Waiting \ {t} /\ t \in Waiting
      BY <1>0, <2>1, <3>1 DEF Waiting
    <3>3. Granted' = Granted
      BY <1>0, <1>w, <2>1, <3>1 DEF Granted, HandedOver, PendTypeOK, Free
    <3>4. RefusedSet' = RefusedSet \cup {t}
      BY <1>0, <1>w, <2>1, <3>1 DEF RefusedSet, Refused, HandedOver, PendTypeOK, Free
    <3>5. Abs!Withdraw(t)
      BY <1>w, <2>2, <3>2, <3>3, <3>4
         DEF Abs!Withdraw, Waiting, Granted, RefusedSet, Dead
    <3>6. QED
      BY <3>5 DEF Abs!AbsNext
  <2>5. QED
    BY <2>3, <2>4
<1>1. CASE GiveUnpend
  <2>1. PICK h \in Threads : h = Head(waitq[Sem]) /\ pendedOn[h] = Sem
    BY <1>0, <1>1, HeadFacts DEF GiveUnpend, UnpendFirst
  <2>2. /\ pendedOn' = [pendedOn EXCEPT ![h] = None]
        /\ UNCHANGED <<swapRet, halted, call, count, result>>
        /\ sec = Free /\ sec' = [op |-> "give", th |-> h, st |-> "unpended"]
    BY <1>1, <2>1 DEF GiveUnpend, UnpendFirst, Unlocked
  <2>3. call[h] = "take" /\ halted[h] # "dead"
    BY <1>0, <2>1 DEF OneCpuInv, RunnableIsFree
  <2>4. Waiting' = Waiting \ {h} /\ h \in Waiting /\ Dead' = Dead
    BY <1>0, <2>1, <2>2 DEF Waiting, Dead, PendTypeOK
  <2>5. Granted' = Granted \cup {h}
    BY <1>0, <2>1, <2>2, <2>3 DEF Granted, HandedOver, PendTypeOK, Free
  <2>6. RefusedSet' = RefusedSet
    BY <1>0, <2>1, <2>2, <2>3 DEF RefusedSet, Refused, HandedOver, PendTypeOK, Free
  <2>7. Abs!Grant(h)
    BY <2>2, <2>4, <2>5, <2>6 DEF Abs!Grant, Waiting, Granted, RefusedSet, Dead
  <2>8. QED
    BY <2>1, <2>7 DEF Abs!AbsNext
<1>2. CASE GiveCount
  <2>1. UNCHANGED <<pendedOn, swapRet, call, sec, halted, result>>
    BY <1>2 DEF GiveCount, pendVars
  <2>2. CASE count = Limit
    BY <1>0, <1>2, <1>s, <1>u, <2>1, <2>2 DEF GiveCount, TypeOK
  <2>3. CASE count # Limit
    <3>1. Waiting = {}
      BY <1>0, <1>2 DEF Waiting, GiveCount, QueueMatchesState
    <3>2. count < Limit /\ count' = count + 1
      BY <1>0, <1>2, <2>3 DEF GiveCount, TypeOK
    <3>3. Abs!Count
      BY <1>u, <2>1, <3>1, <3>2 DEF Abs!Count, Waiting, Granted, RefusedSet, Dead
    <3>4. QED
      BY <3>3 DEF Abs!AbsNext
  <2>4. QED
    BY <2>2, <2>3
<1>3. CASE ResetUnpend
  <2>1. PICK h \in Threads : h = Head(waitq[Sem]) /\ pendedOn[h] = Sem
    BY <1>0, <1>3, HeadFacts DEF ResetUnpend, UnpendFirst
  <2>2. /\ pendedOn' = [pendedOn EXCEPT ![h] = None]
        /\ UNCHANGED <<swapRet, halted, call, count, result>>
        /\ sec' = [op |-> "reset", th |-> h, st |-> "unpended"]
        /\ sec.op # "give"
    BY <1>3, <2>1 DEF ResetUnpend, UnpendFirst, Unlocked, Free
  <2>3. call[h] = "take" /\ swapRet[h] = "EAGAIN" /\ halted[h] # "dead"
    BY <1>0, <2>1 DEF OneCpuInv, RunnableIsFree
  <2>4. Waiting' = Waiting \ {h} /\ h \in Waiting /\ Dead' = Dead
    BY <1>0, <2>1, <2>2 DEF Waiting, Dead, PendTypeOK
  <2>5. Granted' = Granted
    BY <1>0, <2>1, <2>2, <2>3 DEF Granted, HandedOver, PendTypeOK
  <2>6. RefusedSet' = RefusedSet \cup {h}
    BY <1>0, <2>1, <2>2, <2>3 DEF RefusedSet, Refused, HandedOver, PendTypeOK
  <2>7. Abs!Withdraw(h)
    BY <2>2, <2>4, <2>5, <2>6 DEF Abs!Withdraw, Waiting, Granted, RefusedSet, Dead
  <2>8. QED
    BY <2>1, <2>7 DEF Abs!AbsNext
<1>4. CASE ResetDone
  <2>1. UNCHANGED <<pendedOn, swapRet, call, halted, result>> /\ sec' = Free /\ count' = 0
    BY <1>4 DEF ResetDone, pendVars
  <2>2. sec.op # "give"
    BY <1>4 DEF ResetDone, Unlocked, Free
  <2>3. /\ Waiting' = Waiting /\ Granted' = Granted
        /\ RefusedSet' = RefusedSet /\ Dead' = Dead
    BY <2>1, <2>2 DEF Waiting, Granted, RefusedSet, Dead, HandedOver, Refused, Free
  <2>4. Waiting = {}
    BY <1>0, <1>4 DEF Waiting, ResetDone, QueueMatchesState
  <2>5. Abs!Clear
    BY <2>1, <2>3, <2>4 DEF Abs!Clear, Waiting, Granted, RefusedSet, Dead
  <2>6. QED
    BY <2>5 DEF Abs!AbsNext
<1>5. CASE StoreRetval
  <2>1. /\ sec.th \in Threads /\ pendedOn[sec.th] = None
        /\ sec.st = "unpended" /\ swapRet[sec.th] = "EAGAIN"
        /\ sec' = [sec EXCEPT !.st = "set"]
        /\ UNCHANGED <<pendedOn, halted, call, count, result>>
        /\ swapRet' = [swapRet EXCEPT ![sec.th] =
                         IF sec.op = "give" THEN "0" ELSE "EAGAIN"]
    BY <1>5 DEF StoreRetval, SetRetval, OneCpuInv
  <2>2. sec'.th = sec.th /\ sec'.st = "set" /\ sec'.op = sec.op
    BY <1>0, <2>1 DEF TypeOK
  <2>3. \A t \in Threads : HandedOver(t)' <=> HandedOver(t)
    <3>1. TAKE t \in Threads
    <3>2. CASE t # sec.th
      BY <1>0, <2>1, <2>2, <3>2 DEF HandedOver, PendTypeOK
    <3>3. CASE t = sec.th
      <4>1. CASE sec.op = "give"
        <5>1. sec = [op |-> "give", th |-> t, st |-> "unpended"]
          BY <1>0, <2>1, <3>3, <4>1 DEF TypeOK
        <5>2. swapRet'[t] = "0"
          BY <1>0, <2>1, <3>3, <4>1 DEF PendTypeOK
        <5>3. QED
          BY <2>1, <5>1, <5>2 DEF HandedOver
      <4>2. CASE sec.op # "give"
        <5>1. swapRet'[t] = "EAGAIN" /\ swapRet[t] = "EAGAIN"
          BY <1>0, <2>1, <3>3, <4>2 DEF PendTypeOK
        <5>2. QED
          BY <2>1, <2>2, <4>2, <5>1 DEF HandedOver
      <4>3. QED
        BY <4>1, <4>2
    <3>4. QED
      BY <3>2, <3>3
  <2>4. /\ Waiting' = Waiting /\ Granted' = Granted
        /\ RefusedSet' = RefusedSet /\ Dead' = Dead
    BY <2>1, <2>3 DEF Waiting, Granted, RefusedSet, Dead, Refused
  <2>5. QED
    BY <1>s, <2>1, <2>4
<1>6. CASE ReadyWoken
  <2>1. /\ UNCHANGED <<pendedOn, swapRet, halted, call, count, result>>
        /\ sec.st = "set" /\ sec'.st = "none"
    BY <1>6 DEF ReadyWoken, ReadyThread, Free
  <2>2. /\ Waiting' = Waiting /\ Granted' = Granted
        /\ RefusedSet' = RefusedSet /\ Dead' = Dead
    BY <2>1 DEF Waiting, Granted, RefusedSet, Dead, HandedOver, Refused
  <2>3. QED
    BY <1>s, <2>1, <2>2
<1>7. CASE TakeNow
  <2>1. UNCHANGED <<pendedOn, swapRet, call, sec, halted, result>>
    BY <1>7 DEF TakeNow, pendVars
  <2>2. Abs!Take
    BY <1>7, <1>u, <2>1 DEF TakeNow, Abs!Take, Waiting, Granted, RefusedSet, Dead
  <2>3. QED
    BY <2>2 DEF Abs!AbsNext
<1>8. CASE \E t \in Threads, fv \in BOOLEAN : TakePend(t, fv)
  <2>1. PICK t \in Threads, fv \in BOOLEAN : TakePend(t, fv)
    BY <1>8
  <2>2. /\ pendedOn' = [pendedOn EXCEPT ![t] = Sem]
        /\ swapRet' = [swapRet EXCEPT ![t] = "EAGAIN"]
        /\ call' = [call EXCEPT ![t] = "take"]
        /\ result' = [result EXCEPT ![t] = "none"]
        /\ UNCHANGED <<count, sec, halted>>
        /\ sec = Free /\ call[t] = "idle" /\ count = 0
    BY <2>1 DEF TakePend, PendCurr, Unlocked
  <2>3. pendedOn[t] = None /\ halted[t] = "no"
    BY <1>0, <2>1 DEF TakePend, RunnableIsFree
  <2>4. Waiting' = Waiting \cup {t} /\ t \notin Waiting /\ Dead' = Dead /\ t \notin Dead
    BY <1>0, <2>2, <2>3 DEF Waiting, Dead, PendTypeOK
  <2>5. Granted' = Granted /\ t \notin Granted
    BY <1>0, <2>2, <2>3 DEF Granted, HandedOver, TypeOK, PendTypeOK
  <2>6. RefusedSet' = RefusedSet /\ t \notin RefusedSet
    BY <1>0, <2>2, <2>3 DEF RefusedSet, Refused, HandedOver, TypeOK, PendTypeOK
  <2>7. Abs!Wait(t)
    BY <2>2, <2>4, <2>5, <2>6 DEF Abs!Wait, Waiting, Granted, RefusedSet, Dead
  <2>8. QED
    BY <2>7 DEF Abs!AbsNext
<1>9. CASE \E t \in Threads : TakeReturn(t)
  <2>1. PICK t \in Threads : TakeReturn(t)
    BY <1>9
  <2>2. /\ call' = [call EXCEPT ![t] = "idle"] /\ call[t] = "take"
        /\ pendedOn[t] = None /\ halted[t] = "no" /\ sec = Free
        /\ result' = [result EXCEPT ![t] = swapRet[t]]
        /\ UNCHANGED <<pendedOn, swapRet, sec, halted, count>>
    BY <1>0, <2>1 DEF TakeReturn, RunnableIsFree, pendVars, Others, Unlocked
  <2>3. Waiting' = Waiting /\ Dead' = Dead
    BY <2>2 DEF Waiting, Dead
  <2>4. Granted' = Granted \ {t} /\ RefusedSet' = RefusedSet \ {t}
    BY <1>0, <2>2 DEF Granted, RefusedSet, Refused, HandedOver, TypeOK
  <2>5. \/ t \in Granted /\ swapRet[t] = "0"
        \/ t \in RefusedSet /\ swapRet[t] = "EAGAIN"
    BY <2>2 DEF Granted, RefusedSet, Refused, HandedOver, OneCpuInv, Free
  <2>6. Abs!Return(t)
    BY <2>2, <2>3, <2>4, <2>5 DEF Abs!Return, Waiting, Granted, RefusedSet, Dead
  <2>7. QED
    BY <2>6 DEF Abs!AbsNext
<1>10. CASE Environment
  <2>0. UNCHANGED <<count, sec, call, result>> /\ sec = Free
    BY <1>10 DEF Environment, semVars, Others, Unlocked
  <2>1. CASE ThreadTimeout
    <3>1. firing \in Threads /\ UNCHANGED swapRet
      BY <1>0, <2>1 DEF ThreadTimeout, PendTypeOK
    <3>2. CASE halted[firing] = "dead"
      BY <1>s, <1>u, <2>0, <2>1, <3>1, <3>2 DEF ThreadTimeout
    <3>3. CASE halted[firing] # "dead"
      BY <1>w, <2>0, <2>1, <3>1, <3>3 DEF ThreadTimeout
    <3>4. QED
      BY <3>2, <3>3
  <2>2. CASE ~ThreadTimeout
    <3>1. UNCHANGED <<pendedOn, swapRet>>
      BY <1>10, <2>2
         DEF Environment, Outside, Expire, PrioSet, SuspendAbortTimeout, Suspend, Resume
    <3>2. \A t \in Threads : halted'[t] = "dead" <=> halted[t] = "dead"
      BY <1>0, <1>10, <2>2
         DEF Environment, Outside, Expire, PrioSet, SuspendAbortTimeout, Suspend,
             Resume, PendTypeOK
    <3>3. /\ Waiting' = Waiting /\ Granted' = Granted
          /\ RefusedSet' = RefusedSet /\ Dead' = Dead
      BY <2>0, <3>1, <3>2 DEF Waiting, Granted, RefusedSet, Dead, HandedOver, Refused
    <3>4. QED
      BY <1>s, <2>0, <3>3
  <2>3. QED
    BY <2>1, <2>2
<1>11. CASE \E t \in Victims : AbortThread(t)
  <2>1. PICK t \in Threads : AbortThread(t)
    BY <1>11
  <2>2. /\ halted' = [halted EXCEPT ![t] = "dead"] /\ halted[t] # "dead"
        /\ UnpendNoTimeout(t) /\ sec = Free
        /\ UNCHANGED <<swapRet, sec, call, count, result>>
    BY <2>1 DEF AbortThread, Abort, Others, Unlocked
  <2>3. /\ pendedOn'[t] = None
        /\ \A u \in Threads : u # t => pendedOn'[u] = pendedOn[u]
    BY <1>0, <2>2, UnpendNoTimeoutMatch
  <2>4. Waiting' = Waiting \ {t} /\ Dead' = Dead \cup {t} /\ t \notin Dead
    BY <1>0, <2>2, <2>3 DEF Waiting, Dead, PendTypeOK
  <2>5. Granted' = Granted \ {t} /\ RefusedSet' = RefusedSet \ {t}
    BY <1>0, <2>2, <2>3 DEF Granted, RefusedSet, Refused, HandedOver, PendTypeOK
  <2>6. Abs!Kill(t)
    BY <2>2, <2>4, <2>5 DEF Abs!Kill, Waiting, Granted, RefusedSet, Dead
  <2>7. QED
    BY <2>6 DEF Abs!AbsNext
<1>12. CASE UNCHANGED vars
  BY <1>12, <1>s, <1>u DEF vars, pendVars, semVars
<1>13. QED
  BY <1>1, <1>2, <1>3, <1>4, <1>5, <1>6, <1>7, <1>8, <1>9, <1>10, <1>11, <1>12
     DEF Next

(* On one CPU the semaphore of sem.c implements the abstract one: every    *)
(* give is counted or reaches exactly one taker, and a taker is refused    *)
(* only by its timeout or a reset.                                         *)
THEOREM SemImplementsAbs ==
  ASSUME ~SMP
  PROVE  Spec => ImplementsSemAbs
<1>1. SemInv /\ OneCpuInv /\ [Next]_vars => [Abs!AbsNext]_(Abs!absVars)
  BY RefinementStep
<1>2. OneCpuInv /\ SemInv /\ [Next]_vars => OneCpuInv'
  BY OneCpuNext
<1>3. SemInv /\ [Next]_vars => SemInv'
  BY SemNextInv
<1>4. QED
  BY <1>1, <1>2, <1>3, SemInitInv, OneCpuInit, RefinementInit, PTL
     DEF Spec, ImplementsSemAbs, Abs!AbsSpec

-----------------------------------------------------------------------------
(* The queue of the semaphore is sorted. *)
SemOrdered == InPrioOrder(waitq[Sem], prio)

LEMMA SemOrderNext ==
  ASSUME NewPrios = {}, SemInv, SemOrdered, [Next]_vars
  PROVE  SemOrdered'
<1> USE SemAssumption DEF SemOrdered
<1>0. PendInv /\ PendTypeOK /\ QueueMatchesState /\ Sem \in WaitQs
  BY DEF SemInv, PendInv
<1>1. CASE GiveUnpend \/ ResetUnpend
  BY <1>0, <1>1, UnpendFirstOrder DEF GiveUnpend, ResetUnpend
<1>2. CASE \E t \in Threads, fv \in BOOLEAN : TakePend(t, fv)
  <2>1. PICK t \in Threads, fv \in BOOLEAN : TakePend(t, fv)
    BY <1>2
  <2>2. QED
    BY <1>0, <2>1, PendCurrOrder DEF TakePend
<1>3. CASE Environment
  BY <1>0, <1>3, OutsideOrder DEF Environment
<1>4. CASE \E t \in Victims : AbortThread(t)
  <2>1. PICK t \in Threads : AbortThread(t)
    BY <1>4, PendAssumption
  <2>2. UnpendNoTimeout(t) /\ prio' = prio
    BY <2>1 DEF AbortThread, Abort
  <2>3. QED
    BY <1>0, <2>2, UnpendNoTimeoutOrder
<1>5. CASE \/ GiveCount \/ ResetDone \/ StoreRetval \/ ReadyWoken \/ TakeNow
           \/ \E t \in Threads : TakeReturn(t)
           \/ UNCHANGED vars
  <2>1. UNCHANGED <<waitq, prio>>
    BY <1>5 DEF GiveCount, ResetDone, StoreRetval, ReadyWoken, TakeNow, TakeReturn,
                SetRetval, ReadyThread, pendVars, vars
  <2>2. QED
    BY <2>1 DEF InPrioOrder
<1>6. QED
  BY <1>1, <1>2, <1>3, <1>4, <1>5 DEF Next

(* k_sem_give() wakes a thread no other waiter outranks, as long as no     *)
(* thread's priority is changed while it waits: z_thread_prio_set() leaves *)
(* the wait queue of a pending thread as it is.                            *)
THEOREM SemHeadHasHighestPriority ==
  ASSUME NewPrios = {}
  PROVE  Spec => []HeadHasHighestPriority
<1>1. Init => SemOrdered
  BY SemAssumption DEF Init, PendInit, SemOrdered, InPrioOrder
<1>2. SemInv /\ SemOrdered => HeadHasHighestPriority
  <2> SUFFICES ASSUME SemInv, SemOrdered, NEW i \in 1..Len(waitq[Sem])
               PROVE  prio[Head(waitq[Sem])] <= prio[waitq[Sem][i]]
    BY DEF HeadHasHighestPriority
  <2>1. waitq[Sem] \in Seq(Threads)
    BY SemAssumption DEF SemInv, PendInv, PendTypeOK
  <2>2. 1 \in 1..Len(waitq[Sem]) /\ 1 <= i /\ Head(waitq[Sem]) = waitq[Sem][1]
    BY <2>1
  <2>3. QED
    BY <2>2 DEF SemOrdered, InPrioOrder
<1>3. SemInv /\ SemOrdered /\ [Next]_vars => SemOrdered'
  BY SemOrderNext
<1>4. QED
  BY SemInitInv, SemNextInv, <1>1, <1>2, <1>3, PTL DEF Spec

=============================================================================
