CONSTANTS
  a = a
  b = b
  c1 = c1
  c2 = c2
  c3 = c3
  Fds = {a}
  Closures = {c1, c2}
  None = none
  MaxTime = 1
  TimerCap = 1
  IntMax = 7
  Replace = FALSE
  StaleCancel = TRUE
SPECIFICATION Spec
PROPERTY CancelledByOwner
CHECK_DEADLOCK FALSE
