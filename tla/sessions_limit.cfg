SPECIFICATION SessionSpec
CONSTANTS
  Sids = {a, b}
  Devices = {d1}
  NoDevice = NoDevice
  Absent = Absent
  Handlers = {h1, h2}
  Limit = 1
  Ttl = 1
  Grace = 0
  MaxJti = 3
  MaxTime = 1
CONSTRAINT MCBounded
SYMMETRY MCSymmetry
INVARIANTS
  SessionInv
PROPERTIES
  RevokedStaysRevoked
  RotatedOutIsRemembered
