------------------------------- MODULE KStack -------------------------------
(***************************************************************************)
(* The stack of kernel/stack.c.                                            *)
(***************************************************************************)
EXTENDS HandOver

CONSTANTS StackQ,     \* stack->wait_q
          MaxEntries  \* top - base

ASSUME StackAssumption == StackQ \in WaitQs /\ MaxEntries \in Nat \ {0}

VARIABLE stk          \* the entries from base to next

stackVars == <<pendVars, handVars, stk>>

(* k_stack_init *)
StackInit ==
  /\ HInit
  /\ stk = <<>>
  /\ held = Items

(* k_stack_push; a full stack refuses (-ENOMEM) before it looks for a      *)
(* waiting thread.                                                         *)
PushHandOver(x) ==
  /\ Unlocked
  /\ Len(stk) < MaxEntries
  /\ UnpendFor(StackQ, x)
  /\ held' = held \ {x}
  /\ UNCHANGED stk

(* Mutant of PushStore: stored whether or not somebody waits. *)
PushStoreBlind(x) ==
  /\ Unlocked
  /\ Len(stk) < MaxEntries
  /\ stk' = Append(stk, x)
  /\ held' = held \ {x}
  /\ UNCHANGED <<pendVars, sec, wanting, data>>

PushStore(x) ==
  /\ Unlocked
  /\ Len(stk) < MaxEntries
  /\ waitq[StackQ] = <<>>
  /\ stk' = Append(stk, x)
  /\ held' = held \ {x}
  /\ UNCHANGED <<pendVars, sec, wanting, data>>

(* k_stack_pop with an entry; without one and with K_NO_WAIT it returns    *)
(* -EBUSY.                                                                 *)
Pop ==
  /\ Unlocked
  /\ stk # <<>>
  /\ held' = held \cup {Last(stk)}
  /\ stk' = Front(stk)
  /\ UNCHANGED <<pendVars, sec, wanting, data>>

PopPend(t, forever) ==
  /\ stk = <<>>
  /\ PendFor(t, StackQ, forever)
  /\ UNCHANGED stk

StackNext ==
  \/ \E x \in held : PushHandOver(x)
  \/ \E x \in held : PushStore(x)
  \/ Pop
  \/ \E t \in Callers, forever \in Forevers : PopPend(t, forever)
  \/ StoreData /\ UNCHANGED stk
  \/ ReadyWoken(Free) /\ UNCHANGED stk
  \/ \E t \in Callers : WaitReturn(t) /\ UNCHANGED stk
  \/ HEnvironment /\ UNCHANGED stk
  \/ \E t \in Victims : HAbort(t) /\ UNCHANGED stk

StackSpec == StackInit /\ [][StackNext]_stackVars

=============================================================================
