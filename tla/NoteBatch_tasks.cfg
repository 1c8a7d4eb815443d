SPECIFICATION FairSpec
CONSTANTS
  d1 = d1
  b1 = b1
  b2 = b2
  p1 = p1
  p2 = p2
  None = None
  Docs = {d1}
  Notes = {b1}
  Regenerations = {b2}
  Processes = {p1, p2}
  MaxRev = 2
  MaxVersion = 2
  MaxFaults = 1
CHECK_DEADLOCK FALSE
INVARIANTS
  EndsOnce
  HistoryIsWhole
  CleanedIsUnquoted
PROPERTIES
  SourcesAreCurrent
  EveryBatchEnds
