------------------------------ MODULE HandOver ------------------------------
(***************************************************************************)
(* What stacks (kernel/stack.c), queues (kernel/queue.c) and memory slabs  *)
(* (kernel/mem_slab.c) share: an object with a store of items and a wait   *)
(* queue of threads that want one.  Whoever brings an item hands it to the *)
(* first waiting thread through the thread's swap_data, in three sections  *)
(* under the object's lock; only when nobody waits does it go to the store.*)
(***************************************************************************)
EXTENDS Pend

CONSTANTS Items,     \* queue items, stack entries or slab blocks
          Forevers,  \* what callers pass: TRUE is K_FOREVER, FALSE a timeout
          Callers    \* the threads that run; the others are dummy threads,
                     \* which only mailboxes have

ASSUME HandOverAssumption ==
  /\ None \notin Items /\ IsFiniteSet(Items)
  /\ Forevers \subseteq BOOLEAN
  /\ Victims \subseteq Callers /\ Callers \subseteq Threads

VARIABLES sec,       \* the hand-over in progress under the object's lock
          wanting,   \* the threads inside a blocking call
          data,      \* base.swap_data of a thread woken with an item
          held       \* the items the application has, outside the object

handVars == <<sec, wanting, data, held>>

Free == [st |-> "free", th |-> None, item |-> None]

HInit ==
  /\ PendInit
  /\ sec = Free
  /\ wanting = {}
  /\ data = [t \in Threads |-> None]

Unlocked == sec.st = "free"
Others == SMP \/ Unlocked

(* z_unpend_first_thread, for an item (None: NULL, a cancelled wait). *)
UnpendFor(w, x) ==
  /\ UnpendFirst(w)
  /\ sec' = [st |-> "unpended", th |-> Head(waitq[w]), item |-> x]
  /\ UNCHANGED <<wanting, data>>

(* Mutant of StoreData: the item does not reach the thread. *)
StoreDataMissing ==
  /\ sec.st = "unpended"
  /\ SetRetval(sec.th, "0")
  /\ sec' = [sec EXCEPT !.st = "set", !.item = None]
  /\ UNCHANGED <<wanting, data, held>>

(* z_thread_return_value_set_with_data *)
StoreData ==
  /\ sec.st = "unpended"
  /\ SetRetval(sec.th, "0")
  /\ data' = [data EXCEPT ![sec.th] = sec.item]
  /\ sec' = [sec EXCEPT !.st = "set", !.item = None]
  /\ UNCHANGED <<wanting, held>>

(* z_ready_thread; `then' is what the caller goes on with. *)
ReadyWoken(then) ==
  /\ sec.st = "set"
  /\ ReadyThread(sec.th)
  /\ sec' = then
  /\ UNCHANGED <<wanting, data, held>>

(* z_pend_curr of a call that found the store empty *)
PendFor(t, w, forever) ==
  /\ ThreadContext
  /\ Unlocked
  /\ t \notin wanting /\ runnable[t]
  /\ PendCurr(t, w, forever)
  /\ wanting' = wanting \cup {t}
  /\ UNCHANGED <<sec, data, held>>

(* The blocked call returns: with the item if the wait ended by a          *)
(* hand-over, with -EAGAIN (NULL) if not.                                  *)
WaitReturn(t) ==
  /\ ThreadContext
  /\ Others
  /\ t \in wanting
  /\ runnable[t]
  /\ wanting' = wanting \ {t}
  /\ held' = IF swapRet[t] = "0" THEN held \cup ({data[t]} \ {None}) ELSE held
  /\ data' = IF swapRet[t] = "0" THEN [data EXCEPT ![t] = None] ELSE data
  /\ UNCHANGED <<pendVars, sec>>

HEnvironment ==
  /\ Others
  /\ Outside
  /\ UNCHANGED handVars

HAbort(t) ==
  /\ Others
  /\ Abort(t)
  /\ UNCHANGED handVars

-----------------------------------------------------------------------------
(* In how many places an item is: with the application, in the store, in   *)
(* the hand-over, or in the swap_data of a thread that has still to return *)
(* with it (one that died there keeps it).                                 *)
Places(x, store) ==
  (IF x \in held THEN 1 ELSE 0)
  + Cardinality({i \in DOMAIN store : store[i] = x})
  + (IF sec.item = x THEN 1 ELSE 0)
  + Cardinality({t \in wanting : data[t] = x})

(* A thread in a blocking call that does not run and is not halted is in   *)
(* the wait queue w, or about to be made ready.                            *)
NoneStranded(w) ==
  \A t \in wanting : ~runnable[t] /\ halted[t] = "no" =>
    pendedOn[t] = w \/ sec.th = t

=============================================================================
