SPECIFICATION Spec
CONSTANTS
  d1 = d1
  b1 = b1
  b2 = b2
  p1 = p1
  p2 = p2
  None = None
  Docs = {d1}
  Notes = {b1}
  Regenerations = {b2}
  Processes = {p1}
  MaxRev = 1
  MaxVersion = 2
  MaxFaults = 0
CHECK_DEADLOCK FALSE
PROPERTY
  RegenerationIsOfCurrent
