SPECIFICATION EventqSpec
CONSTANTS
  Events = {e1, e2, e3}
  Garbage = garbage
  MaxItems = 3
INVARIANTS
  RingConsistent
PROPERTY ImplementsFifo
