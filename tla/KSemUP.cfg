SPECIFICATION FairSpec
CONSTANTS
  Threads = {t1, t2}
  WaitQs = {sem}
  Sem = sem
  Prios = {1, 2}
  NewPrios = {}
  Victims = {t1}
  SMP = FALSE
  None = None
  Limit = 2
  Initial = 0
INVARIANTS
  TypeOK
  HeadHasHighestPriority
  NoWaiterWhileAvailable
PROPERTIES
  ImplementsSemAbs
  TimedTakeReturns
