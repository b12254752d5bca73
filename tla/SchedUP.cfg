SPECIFICATION FairSpec
CONSTANTS
  t1 = t1  t2 = t2  t3 = t3  t4 = t4  c1 = c1  c2 = c2
  Threads = {t1, t2, t3, t4}
  CPUs = {c1}
  SMP = FALSE
  StartPrio <- AllCoopPreempt
  IdlePrio = 15
  HighestPrio <- MetaHighest
  NumMetaIrq = 1
  IpiCascade = FALSE
  IpiOptimize = FALSE
  SliceMaxPrio = 0
  Workloads <- UPWorkloads
  NewPrios = {0, 2}
  PrioTargets = {t3}
  Masks = {}
  MaxLock = 1
  Idle = Idle  Dummy = Dummy  None = None
CHECK_DEADLOCK FALSE
INVARIANTS
  MetaIrqReturns
PROPERTIES
  CoopKeepsCpu
  NobodyHogs
