CONSTANTS
  Servers = {s1}
  Requests = {r1, r2}
  MaxData = 1
  MaxInvalidations = 1
  None = None
SPECIFICATION Spec
INVARIANTS
  ServedShellsAreFresh
