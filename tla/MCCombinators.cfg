CONSTANTS
  a = a
  b = b
  c = c
  j = j
  r = r
  Leaves = {a, b, c}
  Combs = {j, r}
  Nop = nop
  None = none
  Trees <- MCTrees
  Kinds <- MCKinds
  Cleanup <- MCNoCleanup
SPECIFICATION FairSpec
INVARIANTS NoUseAfterFree NoLeak Settled
PROPERTY EventuallyReleased
CHECK_DEADLOCK FALSE
