CONSTANTS
  t1 = t1
  t2 = t2
  w1 = w1
  w2 = w2
  w3 = w3
  w4 = w4
  Wakers <- MCWakers
  Schedulers <- MCSchedulers
  Loop = loop
  NoThread = nobody
  NoWaker = nothing
  PipeCap = 2
SPECIFICATION FairSpec
INVARIANTS PipeSound NoLostWake
PROPERTIES ImplementsWakerQueue EventuallyRun EventuallyStops
\* the loop thread waits for ever when nobody schedules
CHECK_DEADLOCK FALSE
