SPECIFICATION PollSpec
CONSTANTS
  Threads = {"t1", "t2"}
  Victims = {"t1"}
  Prios = {1, 2}
  NewPrios = {}
  SMP = TRUE
  None = None
  PollQ = pq
  WaitQs = {pq}
  Objs = {"o1", "o2"}
  Signals = {"o1"}
  Works = {"w1"}
  Polls <- ThreadPolls
  CancelNested = FALSE
  CancelEarly = FALSE
INVARIANTS
  NoRegistrationLeft
  ReadyIsNoticed
  SuccessHasEvent
