SPECIFICATION WFairSpec
CONSTANTS
  Works = {w1, d1}
  Delayables = {d1}
  Queues = {q1, q2}
  Clients = {c1}
  Ops = {"flush", "cancel"}
  SMP = FALSE
  None = None
INVARIANTS
  FlushSubmitsScheduled
PROPERTIES
  FlushReturns
