SPECIFICATION DriveSpec
CONSTANTS
  Students = {s1, s2}
  Listed = {s1}
  Requests = {r1, r2}
  MaxCalls = 3
  LastDate = 1
CHECK_DEADLOCK FALSE
INVARIANTS
  DriveInv
  RevokedTellsAcceptance
  CongratulatedAreSelected
  TrailIsTrue
  AgreesWhenQuiet
PROPERTIES
  KeepsTheLifecycle
  InvitationsSettle
