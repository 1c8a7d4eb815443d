SPECIFICATION Spec
CONSTANTS
  d1 = d1
  d2 = d2
  j1 = j1
  j2 = j2
  w2 = w2
  NoWorker = NoWorker
  NoJob = NoJob
  Docs = {d1, d2}
  Jobs = {j1, j2}
  Workers = {w2}
  OcrWorkers = {w2}
  ImageDocs = {d1}
  ExcludedDocs = {d2}
  MaxPages = 1
  PageCount <- OnePage
  MaxAttempts = 2
CONSTRAINT FewLeases
SYMMETRY Symmetry
INVARIANTS
  DeletedIsQuiet
  OneLiveJob
CHECK_DEADLOCK FALSE
