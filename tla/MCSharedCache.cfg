CONSTANTS
  Servers = {s1, s2}
  Requests = {r1, r2}
  MaxData = 1
  MaxInvalidations = 1
  MaxResets = 0
  None = None
SPECIFICATION Spec
SYMMETRY Symmetry
INVARIANTS
  TypeOK
  OwnReadsAreFresh
  ActiveFillsAreFresh
  LeaseHeld
PROPERTIES
  ImplementsRevalidatedData
