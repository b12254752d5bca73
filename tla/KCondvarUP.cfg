SPECIFICATION CondSpec
CONSTANTS
  Threads = {t1, t2, t3}
  WaitQs = {m1, cond}
  Mutexes = {m1}
  Cond = cond
  Prios = {1}
  NewPrios = {}
  Victims = {t1}
  SMP = FALSE
  None = None
  Ceiling = 1
  MaxNest = 2
INVARIANTS
  UnblockedBySignal
  ReleaseAndWaitAtomic
SYMMETRY Symmetry
PROPERTY WaitReturnsOwning
CHECK_DEADLOCK FALSE
