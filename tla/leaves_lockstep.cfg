SPECIFICATION LeaveSpec
CONSTANTS
  Ids = {i1, i2}
  Requesters = {asha}
  Employees = {emp}
  Handlers = {h1, h2}
  Nobody = Nobody
  Absent = Absent
  morning = morning
  afternoon = afternoon
  group = group
  MaxEvents = 2
  Slots <- MCSlots
  Ranges <- MCRanges
  Scopes <- MCScopes
  RouteOf <- MCRouteOf
  Types <- MCTypes
  OpenRoutes <- MCOpenRoutes
  TypeOf <- MCTypeOf
  Payloads <- MCPayloads
  ClaimsOf <- MCClaimsOf
  LockKeys <- MCLockKeys
  LockKey <- MCLockKey
  MaySubmit <- MCMaySubmit
SYMMETRY MCSymmetry
INVARIANTS
  NoOverlappingLeaves
  LeavesInLockStep
PROPERTIES
  LeavesFollowDiagram
  ImplementsFramework
