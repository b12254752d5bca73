SPECIFICATION MSpec
CONSTANTS
  Threads = {t1, t2}
  WaitQs = {q}
  Q = q
  Prios = {1}
  NewPrios = {1}
  Victims = {t1}
  SMP = FALSE
  None = None
  MaxMsgs = 2
  Msgs = {a, b}
PROPERTIES
  ImplementsMsgQAbs
