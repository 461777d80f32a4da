SPECIFICATION TimetableSpec
CONSTANTS
  maths = maths
  elective = elective
  club = club
  m = m
  e1 = e1
  e2 = e2
  Templates = {a, b}
  Days = {1, 2, 3}
  Semester = {1, 2}
  Periods = {1, 2}
  FirstPeriods <- MCFirst
  FirstGrids <- MCGrids
  Classes = {maths, elective, club}
  Rows = {m, e1, e2}
  RowsOf <- MCRowsOf
  Electives = {e1, e2}
  Handlers = {h1, h2}
  MaxCalls = 3
  MaxNoise = 1
SYMMETRY MCSymmetry
CHECK_DEADLOCK FALSE
INVARIANTS
  GridInv
  OneClassAtATime
PROPERTIES
  PublishSparesTheRest
