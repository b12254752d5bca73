-------------------------------- MODULE KHeap --------------------------------
(***************************************************************************)
(* The heap of kernel/kheap.c: a heap of lib/heap behind a lock, with a    *)
(* wait queue for allocations that do not fit.  Every free wakes everybody *)
(* and each tries again with what is left of its timeout.                  *)
(*                                                                         *)
(* The heap of lib/heap is its layout: blocks of whole units, each with    *)
(* its header.  Which free chunk alloc_chunk takes, and where in it, is    *)
(* left open; that it finds one where there is one supposes that no bucket *)
(* has more than CONFIG_SYS_HEAP_ALLOC_LOOPS chunks too small to serve.    *)
(***************************************************************************)
EXTENDS HandOver

CONSTANTS HeapQ,     \* heap->wait_q
          HeapCallers, \* the threads that wait for memory
          HeapTotal, \* the size of the heap in units
          Resizes    \* <<old, new>> that k_heap_realloc is called with

Sizes == 1..HeapTotal

ASSUME HeapAssumption ==
  /\ HeapQ \in WaitQs
  /\ HeapCallers \subseteq Callers
  /\ HeapTotal \in Nat
  /\ Resizes \subseteq Sizes \X Sizes

VARIABLE hp          \* blocks: the allocated blocks, <<first unit, size>>;
                     \* call: a blocked call, the block it resizes, the size
                     \* it wants and the timeout that it passed last ("last":
                     \* K_NO_WAIT); passed: the threads that waited when
                     \* k_heap_realloc last gave memory back (history)

heapVars == <<pendVars, handVars, hp>>

NoBlock == <<0, 0>>  \* NULL: an allocation
NoCall == [block |-> NoBlock, new |-> 0, timeout |-> "none"]

HeapRecord ==
  [blocks |-> {},
   call |-> [t \in HeapCallers |-> NoCall],
   passed |-> {}]

(* k_heap_init *)
HeapInit ==
  /\ HInit
  /\ held = {}
  /\ hp = HeapRecord

Units(b) == b[1]..(b[1] + b[2] - 1)

InUse == UNION {Units(b) : b \in hp.blocks}

FreeAt(b) == Units(b) \subseteq Sizes \ InUse

(* sys_heap_aligned_realloc keeps a block where it is if the block is to   *)
(* shrink or the units behind it are free,                                 *)
InPlace(b, new) ==
  /\ b # NoBlock
  /\ new <= b[2] \/ FreeAt(<<b[1] + b[2], new - b[2]>>)

(* and else moves it: a new block first (as sys_heap_aligned_alloc, which  *)
(* it is for NULL), then sys_heap_free of the old one.                     *)
Placed(b, new) ==
  IF InPlace(b, new) THEN {<<b[1], new>>}
  ELSE {c \in Sizes \X {new} : FreeAt(c)}

Fits(b, new) == Placed(b, new) # {}

(* Nobody is woken by what a k_heap_realloc gives back. *)
Allocated(b, c) ==
  [hp EXCEPT !.blocks = (@ \ {b}) \cup {c},
             !.passed = IF Units(b) \subseteq Units(c) THEN @
                        ELSE @ \cup Range(waitq[HeapQ])]

(* Blocks that no k_heap_realloc is about to resize *)
Settled == hp.blocks \ {hp.call[t].block : t \in HeapCallers}

(* What callers ask for *)
Request(b, new) == b = NoBlock \/ (b \in Settled /\ <<b[2], new>> \in Resizes)

(* k_heap_aligned_alloc, k_heap_alloc and k_heap_realloc when it fits      *)
(* (when not, with K_NO_WAIT: NULL) *)
HeapAlloc(b, new) ==
  /\ Unlocked
  /\ Request(b, new)
  /\ \E c \in Placed(b, new) : hp' = Allocated(b, c)
  /\ UNCHANGED <<pendVars, handVars>>

(* sys_timepoint_timeout: what is left of the timeout; K_NO_WAIT if        *)
(* nothing, which z_pend_curr takes for a timeout of one tick.             *)
Remaining(timeoutNow) ==
  IF timeoutNow = "forever" THEN {"forever"} ELSE {"timed", "last"}

HeapPend(t, b, new, left) ==
  /\ PendCurr(t, HeapQ, left = "forever")
  /\ hp' = [hp EXCEPT !.call[t] = [block |-> b, new |-> new, timeout |-> left],
                      !.passed = @ \ {t}]
  /\ UNCHANGED handVars

(* when it does not, *)
HeapWait(t, b, new, wait) ==
  /\ ThreadContext /\ Unlocked
  /\ runnable[t] /\ hp.call[t] = NoCall
  /\ Request(b, new)
  /\ ~Fits(b, new)
  /\ \E left \in Remaining(wait) : HeapPend(t, b, new, left)

(* and every time the thread runs again, woken or not. *)
HeapRetry(t) ==
  LET k == hp.call[t]
  IN /\ ThreadContext /\ Unlocked
     /\ runnable[t] /\ k # NoCall
     /\ \/ /\ \E c \in Placed(k.block, k.new) :
                hp' = [Allocated(k.block, c) EXCEPT !.call[t] = NoCall]
           /\ UNCHANGED <<pendVars, handVars>>
        \/ /\ ~Fits(k.block, k.new) /\ k.timeout = "last"
           /\ hp' = [hp EXCEPT !.call[t] = NoCall]
           /\ UNCHANGED <<pendVars, handVars>>
        \/ /\ ~Fits(k.block, k.new) /\ k.timeout # "last"
           /\ \E left \in Remaining(k.timeout) : HeapPend(t, k.block, k.new, left)

(* k_heap_free: sys_heap_free, then z_unpend_all *)
HeapFree(b) ==
  /\ Unlocked
  /\ b \in Settled
  /\ hp' = [hp EXCEPT !.blocks = @ \ {b}, !.passed = {}]
  /\ sec' = [Free EXCEPT !.st = "all"]
  /\ UNCHANGED <<pendVars, wanting, data, held>>

HeapUnpend ==
  /\ sec.st = "all"
  /\ waitq[HeapQ] # <<>>
  /\ UnpendNoTimeout(Head(waitq[HeapQ]))
  /\ sec' = [sec EXCEPT !.st = "unpended", !.th = Head(waitq[HeapQ])]
  /\ UNCHANGED <<prio, timeout, firing, suspending, swapRet, runnable, halted,
                 wanting, data, held, hp>>

(* the rest of z_unpend_thread, and z_ready_thread *)
HeapReady ==
  /\ sec.st = "unpended"
  /\ timeout' = [timeout EXCEPT ![sec.th] = FALSE]
  /\ runnable' = [runnable EXCEPT ![sec.th] =
                    @ \/ (pendedOn[sec.th] = None /\ halted[sec.th] = "no")]
  /\ sec' = [Free EXCEPT !.st = "all"]
  /\ UNCHANGED <<prio, waitq, pendedOn, firing, suspending, swapRet, halted,
                 wanting, data, held, hp>>

HeapFreed ==
  /\ sec.st = "all"
  /\ waitq[HeapQ] = <<>>
  /\ sec' = Free
  /\ UNCHANGED <<pendVars, wanting, data, held, hp>>

Blocks == Sizes \X Sizes

HeapNext ==
  \/ \E b \in Blocks \cup {NoBlock}, new \in Sizes : HeapAlloc(b, new)
  \/ \E t \in HeapCallers, b \in Blocks \cup {NoBlock}, new \in Sizes :
       \E wait \in {"timed", "forever"} : HeapWait(t, b, new, wait)
  \/ \E t \in HeapCallers : HeapRetry(t)
  \/ \E b \in Blocks : HeapFree(b)
  \/ HeapUnpend
  \/ HeapReady
  \/ HeapFreed
  \/ HEnvironment /\ UNCHANGED hp
  \/ \E t \in Victims : HAbort(t) /\ UNCHANGED hp

HeapSpec == HeapInit /\ [][HeapNext]_heapVars

(* Nobody waits for memory that is there (k_heap_free wakes all, because   *)
(* what it frees may serve several, or not the first), except that a       *)
(* k_heap_realloc which shrinks or moves a block wakes nobody: who waited  *)
(* then waits on for the next k_heap_free or its timeout.                  *)
HeapNobodyMissed ==
  Unlocked => \A i \in DOMAIN waitq[HeapQ] :
    LET t == waitq[HeapQ][i]
    IN Fits(hp.call[t].block, hp.call[t].new) => t \in hp.passed

(* The same without the exception *)
HeapNobodyPassed ==
  Unlocked => \A i \in DOMAIN waitq[HeapQ] :
    LET t == waitq[HeapQ][i] IN ~Fits(hp.call[t].block, hp.call[t].new)

=============================================================================
