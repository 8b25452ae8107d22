CONSTANTS
  a = a
  b = b
  c1 = c1
  c2 = c2
  c3 = c3
  Fds = {a, b}
  Closures = {c1, c2}
  None = none
  MaxTime = 1
  TimerCap = 1
  IntMax = 7
  Replace = FALSE
  StaleCancel = FALSE
SPECIFICATION FairSpec
INVARIANTS EnvsOwned KernelAgrees
PROPERTY TimerFires
CHECK_DEADLOCK FALSE
