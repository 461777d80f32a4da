SPECIFICATION ExportSpec
CONSTANTS
  Jobs = {j1, j2}
  Creators = {c1, c2}
  MaxActive = 1
CHECK_DEADLOCK FALSE
INVARIANTS
  ExportInv
  WithinActiveLimit
  ToldStands
PROPERTIES
  JobsSettle
