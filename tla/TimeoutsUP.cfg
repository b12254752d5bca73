SPECIFICATION TSpec
CONSTANTS
  Timeouts = {t1, t2, t3}
  Cpus = {c1}
  Delays = {0, 1, 2}
  AbsTicks = {0, 3}
  MaxTick = 4
CHECK_DEADLOCK FALSE
INVARIANTS
  DeadlinesKept
  WakeupProgrammed
PROPERTIES
  NeverEarly
