SPECIFICATION Spec
CONSTANTS
  Threads = {t1, t2}
  Victims = {t1}
  Prios = {1}
  NewPrios = {}
  SMP = TRUE
  None = None
  EventQ = eq
  OtherQ = oq
  WaitQs = {eq, oq}
  Bits = {b1, b2}
SYMMETRY Symmetry
INVARIANTS
  SatisfiedAreWoken
  SuccessMeetsCondition
  TimeoutHeeded
