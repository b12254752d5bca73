------------------------------ MODULE MemSlab -------------------------------
(***************************************************************************)
(* The memory slab of kernel/mem_slab.c: fixed-size blocks, the free ones  *)
(* linked through their first word.                                        *)
(***************************************************************************)
EXTENDS HandOver

CONSTANT SlabQ        \* slab->wait_q

ASSUME SlabAssumption == SlabQ \in WaitQs

VARIABLES freeList,   \* the blocks linked from slab->free_list
          numUsed     \* slab->info.num_used

slabVars == <<pendVars, handVars, freeList, numUsed>>

(* k_mem_slab_init and create_free_list; in which order the blocks lie in  *)
(* the buffer is left open.                                                *)
SlabInit ==
  /\ HInit
  /\ freeList \in SetToSeqs(Items)
  /\ numUsed = 0
  /\ held = {}

(* k_mem_slab_alloc with a free block; without one and with K_NO_WAIT it   *)
(* returns -ENOMEM.                                                        *)
AllocBlock ==
  /\ Unlocked
  /\ freeList # <<>>
  /\ held' = held \cup {Head(freeList)}
  /\ freeList' = Tail(freeList)
  /\ numUsed' = numUsed + 1
  /\ UNCHANGED <<pendVars, sec, wanting, data>>

AllocPend(t, forever) ==
  /\ freeList = <<>>
  /\ PendFor(t, SlabQ, forever)
  /\ UNCHANGED <<freeList, numUsed>>

(* k_mem_slab_free; it looks for a waiting thread only when the free list  *)
(* is empty.                                                               *)
FreeHandOver(x) ==
  /\ Unlocked
  /\ freeList = <<>>
  /\ UnpendFor(SlabQ, x)
  /\ held' = held \ {x}
  /\ UNCHANGED <<freeList, numUsed>>

FreeStore(x) ==
  /\ Unlocked
  /\ freeList # <<>> \/ waitq[SlabQ] = <<>>
  /\ freeList' = <<x>> \o freeList
  /\ numUsed' = numUsed - 1
  /\ held' = held \ {x}
  /\ UNCHANGED <<pendVars, sec, wanting, data>>

SlabNext ==
  \/ AllocBlock
  \/ \E t \in Callers, forever \in Forevers : AllocPend(t, forever)
  \/ \E x \in held : FreeHandOver(x)
  \/ \E x \in held : FreeStore(x)
  \/ StoreData /\ UNCHANGED <<freeList, numUsed>>
  \/ ReadyWoken(Free) /\ UNCHANGED <<freeList, numUsed>>
  \/ \E t \in Callers : WaitReturn(t) /\ UNCHANGED <<freeList, numUsed>>
  \/ HEnvironment /\ UNCHANGED <<freeList, numUsed>>
  \/ \E t \in Victims : HAbort(t) /\ UNCHANGED <<freeList, numUsed>>

SlabSpec == SlabInit /\ [][SlabNext]_slabVars

(* num_used counts the blocks that are not on the free list, whichever way *)
(* they changed hands (k_mem_slab_free hands over without touching it).    *)
SlabAccounts == numUsed + Len(freeList) = Cardinality(Items)

=============================================================================
