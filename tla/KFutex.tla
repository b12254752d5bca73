------------------------------- MODULE KFutex -------------------------------
(***************************************************************************)
(* The futex of kernel/futex.c.  k_futex_wait looks at the value before it *)
(* takes the lock under which it sleeps.                                   *)
(***************************************************************************)
EXTENDS HandOver

CONSTANTS FutexQ,    \* futex_data->wait_q
          FutexCallers \* the threads that wait on it

ASSUME FutexAssumption == FutexQ \in WaitQs /\ FutexCallers \subseteq Callers

VARIABLE fx          \* val: the futex; pc: where the callers are; expected:
                     \* what a caller has compared val with; all: wake_all;
                     \* woken: threads that k_futex_wake has woken; missed:
                     \* threads that were about to sleep on an old value
                     \* when everybody was woken

futexVars == <<pendVars, handVars, fx>>

FutexRecord ==
  [val |-> 0, pc |-> [t \in FutexCallers |-> "idle"],
   expected |-> [t \in FutexCallers |-> 0], all |-> FALSE,
   woken |-> {}, missed |-> {}]

FutexInit ==
  /\ HInit
  /\ held = {}
  /\ fx = FutexRecord

(* The application changes the value. *)
FutexSet(v) ==
  /\ Others
  /\ fx' = [fx EXCEPT !.val = v]
  /\ UNCHANGED <<pendVars, handVars>>

(* k_futex_wait: the comparison (-EAGAIN if the value is another), *)
FutexCheck(t) ==
  /\ ThreadContext /\ Others
  /\ runnable[t] /\ fx.pc[t] = "idle"
  /\ fx' = [fx EXCEPT !.pc[t] = "checked", !.expected[t] = fx.val]
  /\ UNCHANGED <<pendVars, handVars>>

(* the wait, *)
FutexPend(t, forever) ==
  /\ ThreadContext /\ Unlocked
  /\ runnable[t] /\ fx.pc[t] = "checked"
  /\ PendCurr(t, FutexQ, forever)
  /\ fx' = [fx EXCEPT !.pc[t] = "wait", !.woken = @ \ {t}]
  /\ UNCHANGED handVars

(* and its end, with 0, or -ETIMEDOUT for -EAGAIN. *)
FutexReturn(t) ==
  /\ ThreadContext /\ Others
  /\ runnable[t] /\ fx.pc[t] = "wait"
  /\ fx' = [fx EXCEPT !.pc[t] = "idle", !.expected[t] = 0,
                      !.woken = @ \ {t}, !.missed = @ \ {t}]
  /\ UNCHANGED <<pendVars, handVars>>

(* k_futex_wake *)
FutexUnpend ==
  /\ UnpendFirst(FutexQ)
  /\ sec' = [st |-> "unpended", th |-> Head(waitq[FutexQ]), item |-> None]

FutexWake(all) ==
  LET late == {t \in FutexCallers : all /\ fx.pc[t] = "checked"
                                /\ fx.expected[t] # fx.val}
  IN /\ Unlocked
     /\ \/ FutexUnpend
        \/ waitq[FutexQ] = <<>> /\ UNCHANGED <<pendVars, sec>>
     /\ fx' = [fx EXCEPT !.all = all /\ waitq[FutexQ] # <<>>,
                         !.missed = @ \cup late]
     /\ UNCHANGED <<wanting, data, held>>

FutexStore ==
  /\ sec.st = "unpended"
  /\ SetRetval(sec.th, "0")
  /\ sec' = [sec EXCEPT !.st = "set"]
  /\ fx' = [fx EXCEPT !.woken = @ \cup {sec.th}]
  /\ UNCHANGED <<wanting, data, held>>

FutexReady ==
  /\ ReadyWoken(IF fx.all THEN [Free EXCEPT !.st = "all"] ELSE Free)
  /\ UNCHANGED fx

FutexWakeNext ==
  /\ sec.st = "all"
  /\ \/ FutexUnpend /\ UNCHANGED fx
     \/ /\ waitq[FutexQ] = <<>>
        /\ sec' = Free
        /\ fx' = [fx EXCEPT !.all = FALSE]
        /\ UNCHANGED pendVars
  /\ UNCHANGED <<wanting, data, held>>

FutexNext ==
  \/ \E v \in {0, 1} : FutexSet(v)
  \/ \E t \in FutexCallers : FutexCheck(t)
  \/ \E t \in FutexCallers, forever \in Forevers : FutexPend(t, forever)
  \/ \E t \in FutexCallers : FutexReturn(t)
  \/ \E all \in BOOLEAN : FutexWake(all)
  \/ FutexStore
  \/ FutexReady
  \/ FutexWakeNext
  \/ HEnvironment /\ UNCHANGED fx
  \/ \E t \in Victims : HAbort(t) /\ UNCHANGED fx

FutexSpec == FutexInit /\ [][FutexNext]_futexVars

(* A wait returns 0 only to a thread that k_futex_wake has woken. *)
FutexSuccess ==
  \A t \in FutexCallers : fx.pc[t] = "wait" /\ runnable[t] /\ swapRet[t] = "0" =>
    t \in fx.woken

(* Nobody sleeps on a value that was changed, and everybody woken for it,  *)
(* after the thread had compared it.                                       *)
FutexNobodyMissed ==
  \A t \in FutexCallers : pendedOn[t] = FutexQ => t \notin fx.missed

=============================================================================
