SPECIFICATION Spec
CONSTANTS
  Threads = {"t1", "t2", "t3", "t4"}
  Callers = {"t1", "t2", "t3"}
  Victims = {"t1"}
  Prios = {1}
  NewPrios = {}
  SMP = FALSE
  None = None
  StackQ = sq
  QueueQ = qq
  SlabQ = mq
  PollQ = pq
  TxQ = tq
  RxQ = rq
  NullQ = nq
  HeapQ = hq
  FutexQ = fq
  ReadQ = rdq
  WriteQ = wrq
  WaitQs = {sq, qq, mq, pq, tq, rq, nq, hq, fq, rdq, wrq}
  Objs = {"o1", "o2"}
  Signals = {"o1"}
  Works = {"w1"}
  Polls <- AllPolls
  CancelNested = FALSE
  CancelEarly = FALSE
  Items = {x1, x2, x3}
  Forevers = {TRUE, FALSE}
  MaxEntries = 2
  MaxAnodes = 1
  WalkAlone = TRUE
  ListsCover = TRUE
  Peers = {"t2"}
  MboxResume = FALSE
  HeapCallers = {"t1", "t2"}
  HeapTotal = 3
  Resizes <- TwoResizes
  FutexCallers = {"t1", "t2"}
  PipeCallers = {"t1", "t2"}
  PipeSizes = {0, 2}
  Requests <- PipeRequests
  MaxByte = 4
  Kinds = {"stack", "queue", "slab", "poll", "mbox", "heap", "futex", "pipe"}
SYMMETRY Symmetry
CHECK_DEADLOCK FALSE
INVARIANTS
  OneOwner
  NobodyWaitsInVain
  QueueWellFormed
  NoRegistrationLeft
  ReadyIsNoticed
  SuccessIsReal
  SenderHasReceiver
  StreamInOrder
