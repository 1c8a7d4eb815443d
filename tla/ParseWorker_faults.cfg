SPECIFICATION FairWorkerSpec
CONSTANTS
  d1 = d1
  j1 = j1
  w1 = w1
  w2 = w2
  NoWorker = NoWorker
  NoJob = NoJob
  NoLease = NoLease
  Docs = {d1}
  Jobs = {j1}
  Workers = {w1, w2}
  OcrWorkers = {w1, w2}
  ImageDocs = {}
  ExcludedDocs = {}
  MaxPages = 2
  PageCount <- TwoPages
  MaxAttempts = 2
  MaxFaults = 2
INVARIANTS
  OneActiveLease
  RowMatchesLease
  RevisionIsWhole
  NeverRefused
  AttemptsAreFaults
  ArtifactsAreKept
  ResumeCoversMissing
PROPERTIES
  JobsAreFencedTasks
  KeepsToProtocol
  JobsSucceed
CHECK_DEADLOCK FALSE
