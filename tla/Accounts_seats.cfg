SPECIFICATION Spec
CONSTANTS
  a1 = a1
  a2 = a2
  a3 = a3
  i1 = i1
  i2 = i2
  s1 = s1
  s2 = s2
  s3 = s3
  Users = {a1, a2, a3}
  Invitations = {i1, i2}
  Cookies = {s1, s2, s3}
  Nobody = Nobody
  Capacity = 2
  InvitationTTL = 1
  SessionTTL = 1
  MaxTime = 1
  MaxRequests = 2
SYMMETRY Symmetry
INVARIANTS
  SeatsAreKept
  LastAdminStays
  SuspendedIsLockedOut
PROPERTIES
  ClosedStaysClosed
CHECK_DEADLOCK FALSE
