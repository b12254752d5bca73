SPECIFICATION WFairSpec
CONSTANTS
  Works = {w1}
  Delayables = {}
  Queues = {q1}
  Clients = {c1, c2}
  Ops = {"cancel"}
  SMP = FALSE
  None = None
PROPERTY CancelSyncReturns
