SPECIFICATION Spec
CONSTANTS
  Ids = {i1, i2}
  Requesters = {asha}
  Employees = {emp}
  Handlers = {h1, h2}
  Nobody = Nobody
  Absent = Absent
  profile = profile
  leave = leave
  batch = batch
  MaxEvents = 2
  Scopes <- MCScopes
  RouteOf <- MCRouteOf
  Types <- MCTypes
  OpenRoutes <- MCOpenRoutes
  TypeOf <- MCTypeOf
  Payloads <- MCPayloads
  ClaimsOf <- MCClaimsOf
  LockKeys <- MCLockKeys
  LockKey <- MCLockKey
  MaySubmit <- MCMaySubmit
SYMMETRY MCSymmetry
INVARIANTS
  IInv
  ClaimsExclusive
  HistoryIsTrue
  NotifiesOnlyCommitted
PROPERTIES
  ImplementsLifecycle
