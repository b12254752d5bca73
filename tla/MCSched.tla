------------------------------- MODULE MCSched -------------------------------
(* Instances of Sched.  A metaIRQ thread has priority -3, the highest one, *)
(* a cooperative thread a negative one, a preemptible thread the others.   *)
EXTENDS Sched

CONSTANTS t1, t2, t3, t4, c1, c2

AllCoopPreempt == t1 :> -3 @@ t2 :> -1 @@ t3 :> 1 @@ t4 :> 1
ThreePreempt == t1 :> 0 @@ t2 :> 1 @@ t3 :> 1
MetaCoopPreempt == t1 :> -3 @@ t2 :> -1 @@ t3 :> 1
MetaHighest == -3

UPWorkloads ==
  {{"start", "yield", "block", "isr", "lock"},
   {"start", "yield", "block", "isr", "slice"},
   {"start", "yield", "block", "isr", "prio"},
   {"start", "sleep", "wakeup", "lock"},
   {"start", "isr", "suspend", "resume"},
   {"start", "isr", "block", "abort", "isr_abort"},
   {"start", "yield", "block", "exit", "join"}}

SMPWorkloads ==
  {{"start", "yield", "block", "prio", "lock"},
   {"start", "yield", "slice", "slice_set"},
   {"start", "yield", "block", "mask"},
   {"start", "sleep", "lock"},
   {"start", "suspend", "resume"},
   {"start", "isr", "isr_suspend"},
   {"start", "isr", "block", "abort", "isr_abort"}}

Symmetric == Permutations({c1, c2}) \cup Permutations({t2, t3})
=============================================================================
