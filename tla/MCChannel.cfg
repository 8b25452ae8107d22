CONSTANTS
  Futures = {f1, f2, f3, f4}
  Cap = 2
  MaxSends = 4
  None = None
SPECIFICATION Spec
INVARIANTS NoStranded NoDangling 
PROPERTY ImplementsMailbox
CHECK_DEADLOCK FALSE
