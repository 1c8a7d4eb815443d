SPECIFICATION FairSpec
CONSTANTS
  u1 = u1
  u2 = u2
  c1 = c1
  c2 = c2
  e1 = e1
  e2 = e2
  Uploads = {u1, u2}
  Completions = {c1, c2}
  Deletions = {e1, e2}
  Excluded = FALSE
INVARIANTS
  DeletedFileIsGone
PROPERTIES
  CompletedFileIsFrozen
  DerivedDataGoes
