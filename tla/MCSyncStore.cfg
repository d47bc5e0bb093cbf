CONSTANTS
  Keys = {k1, k2}
  Accounts = {a, b}
  Loads = {l1, l2}
  Writes = {w1, w2}
  MaxWrites = 3
  MaxClock = 2
  MaxRetries = 1
  MaxGeneration = 1
  MaxSent = 3
  None = None
SPECIFICATION Spec
SYMMETRY Symmetry
CONSTRAINT OneFocus
CHECK_DEADLOCK FALSE
INVARIANTS
  TypeOK
  ConfirmedWritesSurvive
  ListsConverge
  OwnRowsOnly
  LayersAreRunning
PROPERTIES
  ImplementsOptimisticRows
