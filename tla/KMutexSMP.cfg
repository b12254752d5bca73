SPECIFICATION MutexSpec
CONSTANTS
  Threads = {t1, t2, t3}
  WaitQs = {m1}
  Mutexes = {m1}
  Prios = {1, 2, 3}
  NewPrios = {}
  Victims = {t1}
  SMP = TRUE
  None = None
  Ceiling = 1
  MaxNest = 2
SYMMETRY Symmetry
CHECK_DEADLOCK FALSE
INVARIANTS
  MutualExclusion
  QueueMatchesState
  OwnerNotOutranked
  PriorityRestored
