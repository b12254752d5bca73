SPECIFICATION WSpec
CONSTANTS
  Works = {w1, w2, w3}
  Delayables = {}
  Queues = {q1, q2}
  Clients = {c1, c2}
  Ops = {"flush", "cancel", "drain"}
  SMP = FALSE
  None = None
SYMMETRY Symmetry
INVARIANTS
  NotReentrant
  NoSleepOnWork
  FlushWaitsForRuns
PROPERTIES
  CancelledIsIdle
