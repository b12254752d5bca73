------------------------------ MODULE Objects -------------------------------
(***************************************************************************)
(* One kernel object in use: a stack, a queue, a memory slab, a mailbox, a *)
(* heap, a futex or a pipe, or the objects of the polling module, with     *)
(* what they promise alike.                                                *)
(***************************************************************************)
EXTENDS KStack, KQueue, MemSlab, Mailbox, KHeap, KFutex, KPipe, Poll

CONSTANT Kinds        \* the objects to choose from

ASSUME ObjectsAssumption ==
  Kinds \subseteq {"stack", "queue", "slab", "poll", "mbox", "heap", "futex", "pipe"}

VARIABLE kind         \* the object in use

queueState == <<q, lst, walk>>
slabState == <<freeList, numUsed>>
waitState == <<mb, hp, fx, pp>>
vars == <<pendVars, handVars, stk, queueState, slabState, waitState, pollVars, kind>>

Init ==
  /\ kind \in Kinds
  /\ HInit
  /\ stk = <<>>
  /\ q = [head |-> None, tail |-> None, nxt |-> [x \in Items |-> None],
          wrapped |-> {}]
  /\ lst = NoList
  /\ walk = NoWalk
  /\ numUsed = 0
  /\ freeList \in IF kind = "slab" THEN SetToSeqs(Items) ELSE {<<>>}
  /\ held = IF kind \in {"stack", "queue"} THEN Items ELSE {}
  /\ mb = MboxRecord
  /\ hp = HeapRecord
  /\ fx = FutexRecord
  /\ pp \in {PipeRecord(size) : size \in PipeSizes}
  /\ kind # "pipe" => pp.size = 0
  /\ PollInit
  /\ kind # "poll" => polled = CHOOSE f \in Polls : TRUE

Next ==
  /\ \/ /\ kind = "stack"
        /\ StackNext
        /\ UNCHANGED <<queueState, slabState, waitState, pollVars>>
     \/ /\ kind = "queue"
        /\ QueueNext
        /\ UNCHANGED <<stk, slabState, waitState, pollVars>>
     \/ /\ kind = "slab"
        /\ SlabNext
        /\ UNCHANGED <<stk, queueState, waitState, pollVars>>
     \/ /\ kind = "mbox"
        /\ MboxNext
        /\ UNCHANGED <<stk, queueState, slabState, hp, fx, pp, pollVars>>
     \/ /\ kind = "heap"
        /\ HeapNext
        /\ UNCHANGED <<stk, queueState, slabState, mb, fx, pp, pollVars>>
     \/ /\ kind = "futex"
        /\ FutexNext
        /\ UNCHANGED <<stk, queueState, slabState, mb, hp, pp, pollVars>>
     \/ /\ kind = "pipe"
        /\ PipeNext
        /\ UNCHANGED <<stk, queueState, slabState, mb, hp, fx, pollVars>>
     \/ /\ kind = "poll"
        /\ PollNext
        /\ UNCHANGED <<handVars, stk, queueState, slabState, waitState>>
  /\ UNCHANGED kind

Spec == Init /\ [][Next]_vars

-----------------------------------------------------------------------------
Store ==
  CASE kind = "stack" -> stk
    [] kind = "queue" -> Hops(q, q.head)
    [] kind = "slab" -> freeList

StoreQ ==
  CASE kind = "stack" -> StackQ
    [] kind = "queue" -> QueueQ
    [] kind = "slab" -> SlabQ

Stores == kind \in {"stack", "queue", "slab"}

(* Everything an object passes on is in one place, never lost and never    *)
(* with two owners: whatever times out, is aborted, suspended or cancelled *)
(* while an item changes hands (k_stack_push, k_mem_slab_free,             *)
(* queue_insert, k_queue_append_list), the receiver returns with it or     *)
(* somebody else has it; a descriptor of an asynchronous message is free,  *)
(* queued or with its receiver (mbox_message_dispose); a byte of a pipe is *)
(* read, buffered, with its writer or reported as not written.             *)
OneOwner ==
  /\ Stores => \A x \in Items :
       Places(x, Store) + (IF x \in ListRest THEN 1 ELSE 0) = 1
  /\ kind = "mbox" /\ Unlocked => \A d \in Dummies : DescriptorPlaces(d) = 1
  /\ kind = "pipe" => \A x \in 1..(pp.next - 1) : BytePlaces(x) = 1

(* Nobody waits for what is there: an item in the store, a message that    *)
(* matches, memory that fits, bytes or room in a pipe.  Stack and slab     *)
(* rely on it: k_stack_push refuses on a full stack and k_mem_slab_free    *)
(* looks at the free list before either looks for a waiting thread.  And   *)
(* nobody sleeps where the next item would not find it, unpended and not   *)
(* made ready (k_queue_append_list).                                       *)
NobodyWaitsInVain ==
  /\ Stores => NoneStranded(StoreQ)
  /\ Stores /\ waitq[StoreQ] # <<>> => \A i \in DOMAIN Store : Store[i] = None
  /\ kind = "mbox" => MboxNobodyMissed
  /\ kind = "heap" => HeapNobodyMissed
  /\ kind = "pipe" => PipeNobodyMissed

(* A wait reports success only for what it waited for: k_poll for an event *)
(* that is ready, k_futex_wait for a k_futex_wake, k_mbox_get for a        *)
(* message that suits it and k_mbox_put for one that was disposed of.      *)
SuccessIsReal ==
  /\ kind = "poll" => SuccessHasEvent
  /\ kind = "futex" => FutexSuccess
  /\ kind = "mbox" => MboxSuccess

(* A slab's num_used counts the blocks that are not on its free list. *)
BlocksCounted == kind = "slab" => SlabAccounts

=============================================================================
