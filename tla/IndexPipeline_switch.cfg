SPECIFICATION FairSpec
CONSTANTS
  d1 = d1
  d2 = d2
  None = None
  Docs = {d1, d2}
  Revs = {1, 2, 3}
  DocOf <- OwnerOf
  Chunkless = {3}
  Models = {m1}
  Runners = {x}
  MaxAttempt = 3
  MaxCrashes = 1
CHECK_DEADLOCK FALSE
INVARIANTS
  ActiveIndexMatches
PROPERTIES
  ServesTheCourse
  EveryIndexJobSettles
