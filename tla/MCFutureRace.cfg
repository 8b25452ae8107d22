CONSTANTS
  f1 = f1
  f2 = f2
  f3 = f3
  h1 = h1
  h2 = h2
  h3 = h3
  t1 = t1
  t2 = t2
  t3 = t3
  NoValue = none
  Futures <- OneFuture
  Producers <- Racer
  Foreign <- Racer
  Target <- RacerTarget
  Droppable <- OneFuture
SPECIFICATION Spec
INVARIANT NoTouchAfterFree
CHECK_DEADLOCK FALSE
