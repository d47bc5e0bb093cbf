CONSTANTS
  Keys = {k1}
  t1 = t1
  t2 = t2
  Tags = {t1}
  TagSets <- OneTagSet
  Requests = {r1, r2}
  MaxEntries = 1
  MaxVersion = 1
  MaxGeneration = 1
  None = None
SPECIFICATION FairSpec
INVARIANTS
  NothingSurvivesClear
  SingleFlight
PROPERTIES
  ImplementsTagCache
  RequestsSettle
