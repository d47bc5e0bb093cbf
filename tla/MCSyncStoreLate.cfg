CONSTANTS
  Keys = {k1, k2}
  Accounts = {a}
  Loads = {l1}
  Writes = {w1}
  MaxWrites = 3
  MaxClock = 2
  MaxRetries = 0
  MaxGeneration = 0
  MaxSent = 4
  None = None
SPECIFICATION Spec
SYMMETRY Symmetry
CHECK_DEADLOCK FALSE
INVARIANT
  Converged
