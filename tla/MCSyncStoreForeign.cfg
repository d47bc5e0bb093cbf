CONSTANTS
  Keys = {k1}
  Accounts = {a, b}
  Loads = {l1}
  Writes = {w1}
  MaxWrites = 1
  MaxClock = 1
  MaxRetries = 0
  MaxGeneration = 1
  MaxSent = 2
  None = None
SPECIFICATION Spec
SYMMETRY Symmetry
CHECK_DEADLOCK FALSE
INVARIANT
  OwnAuthorsOnly
