-------------------------------- MODULE Priq --------------------------------
(***************************************************************************)
(* The list that orders threads by priority (kernel/include/priority_q.h,  *)
(* CONFIG_SCHED_DUMB and CONFIG_WAITQ_DUMB).  The run queue and every wait *)
(* queue are such lists.                                                   *)
(***************************************************************************)
EXTENDS Integers, SequencesExt

(* The priority queue.  z_priq_dumb_add inserts before the first thread of *)
(* strictly lower priority, so threads of equal priority stay in FIFO      *)
(* order.  It compares the priorities threads have now: a queue that was   *)
(* sorted stays sorted only if no priority in it has changed.              *)

LowerPrio(q, t, p) == {i \in 1..Len(q) : p[t] < p[q[i]]}

(* Mutant of PriqPos: append, whatever the priorities. *)
PriqPosTail(q, t, p) == Len(q) + 1

PriqPos(q, t, p) ==
  IF LowerPrio(q, t, p) = {} THEN Len(q) + 1 ELSE Min(LowerPrio(q, t, p))

PriqAdd(q, t, p) == InsertAt(q, PriqPos(q, t, p), t)

PriqRemove(q, t) == RemoveAt(q, CHOOSE i \in 1..Len(q) : q[i] = t)

=============================================================================
