SPECIFICATION RetriedSpec
CONSTANTS
  d1 = d1
  d2 = d2
  q1 = q1
  q2 = q2
  Docs = {d1, d2}
  Queries = {q1}
  MaxRev = 1
  MaxManifest = 2
CHECK_DEADLOCK FALSE
PROPERTIES
  DeletedIsUncited
