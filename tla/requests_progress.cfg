SPECIFICATION FairSpec
CONSTANTS
  Ids = {i1}
  Requesters = {asha}
  Employees = {emp}
  Handlers = {h1, h2}
  Nobody = Nobody
  Absent = Absent
  profile = profile
  leave = leave
  batch = batch
  MaxEvents = 4
  Scopes <- MCScopes
  RouteOf <- MCRouteOf
  Types <- MCTypes
  OpenRoutes <- MCOpenRoutes
  TypeOf <- MCTypeOf
  Payloads <- MCPayloadsOne
  ClaimsOf <- MCClaimsOf
  LockKeys <- MCLockKeys
  LockKey <- MCLockKey
  MaySubmit <- MCMaySubmit
PROPERTY
  EveryHandlerEnds
