CONSTANTS
  Keys = {k1, k2, k3}
  t1 = t1
  t2 = t2
  Tags = {t1, t2}
  TagSets <- MixedTagSets
  Requests = {r1, r2}
  MaxEntries = 2
  MaxVersion = 2
  MaxGeneration = 0
  None = None
SPECIFICATION Spec
CONSTRAINT OneFocus
SYMMETRY Symmetry
INVARIANTS
  TypeOK
  ReadsAreFresh
  MarksHaveDependents
  CapacityRespected
PROPERTIES
  EvictsLeastRecent
