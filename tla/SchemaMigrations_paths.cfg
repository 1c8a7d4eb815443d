SPECIFICATION Spec
CONSTANTS
  MaxVersion = 2
  MaxJob = 2
INVARIANTS
  ScriptsFit
  RevisionIsItsSchema
  HeadIsDeclared
  RowsKeepMeaning
  CoursesStayApart
CHECK_DEADLOCK FALSE
