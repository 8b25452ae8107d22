CONSTANTS
  a = a
  b = b
  c = c
  j = j
  r = r
  Leaves = {a, b, c}
  Combs = {j, r}
  Nop = nop
  None = none
  Trees <- MCOneTree
  Kinds <- MCErased
  Cleanup <- MCCompletesB
SPECIFICATION Spec
INVARIANT NoUseAfterFree
CHECK_DEADLOCK FALSE
