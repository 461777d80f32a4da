SPECIFICATION CompanySpec
CONSTANTS
  Ids = {i1, i2}
  Requesters = {mgr}
  Employees = {emp}
  Handlers = {h1, h2}
  Companies = {acme}
  Details = {d1}
  Logos = {k1, k2}
  NoLogo = NoLogo
  Keep = Keep
  OpenRoutes = {}
  Nobody = Nobody
  Absent = Absent
  manageCompanies = manageCompanies
  MaxEvents = 2
  Scopes <- MCScopes
  RouteOf <- MCRouteOf
  Types <- MCTypes
  Payloads <- MCPayloads
  TypeOf <- MCTypeOf
  ClaimsOf <- MCClaimsOf
  LockKeys <- MCLockKeys
  LockKey <- MCLockKey
  MaySubmit <- MCMaySubmit
CONSTRAINT MCBounded
SYMMETRY MCSymmetry
INVARIANTS
  CatalogInv
PROPERTIES
  OnlyDecisionsMoveCompanies
  CompanyRequestsFollowLifecycle
