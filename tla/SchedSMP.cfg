SPECIFICATION Spec
CONSTANTS
  t1 = t1  t2 = t2  t3 = t3  t4 = t4  c1 = c1  c2 = c2
  Threads = {t1, t2, t3}
  CPUs = {c1, c2}
  SMP = TRUE
  StartPrio <- ThreePreempt
  IdlePrio = 15
  HighestPrio <- MetaHighest
  NumMetaIrq = 0
  IpiCascade = TRUE
  IpiOptimize = TRUE
  SliceMaxPrio = 0
  Workloads <- SMPWorkloads
  NewPrios = {0,1}
  PrioTargets = {t2, t3}
  Masks = {{c1}, {c2}}
  MaxLock = 1
  Idle = Idle  Dummy = Dummy  None = None
CHECK_DEADLOCK FALSE
SYMMETRY Symmetric
INVARIANTS
  OnePlace
  PreemptionNotLost
  HaltersAreReleased
  HaltSpinsEnd
