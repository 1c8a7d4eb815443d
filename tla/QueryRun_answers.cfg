SPECIFICATION FairSpec
CONSTANTS
  d1 = d1
  d2 = d2
  q1 = q1
  q2 = q2
  Docs = {d1, d2}
  Queries = {q1, q2}
  MaxRev = 2
  MaxManifest = 2
CHECK_DEADLOCK FALSE
INVARIANTS
  AnswerFromOneIndex
  CleanedLeavesNoText
PROPERTIES
  AnswersTheCourse
  EveryQueryEnds
