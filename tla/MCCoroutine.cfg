CONSTANTS
  a = a  b = b  c = c
  la = la  lb = lb  lc = lc  lx = lx
  Tasks = {a, b, c}
  Leaves = {la, lb, lc, lx}
  Roots = {a, c}
  Callee <- MCCallee
  Programs <- MCPrograms
  Plain = Plain
  None = None
SPECIFICATION FairSpec
INVARIANTS NoUseAfterFree Released
PROPERTIES NoCompletionAfterDrop EventuallyFreed
CHECK_DEADLOCK FALSE
