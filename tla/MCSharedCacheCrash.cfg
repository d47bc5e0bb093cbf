CONSTANTS
  Servers = {s1, s2}
  Requests = {r1, r2}
  MaxData = 0
  MaxInvalidations = 0
  MaxResets = 1
  None = None
SPECIFICATION FairSpec
PROPERTIES
  RequestsSettle
