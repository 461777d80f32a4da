SPECIFICATION CredentialSpec
CONSTANTS
  Handlers = {h1, h2}
  Sids = {a, b}
  Invites = {i1, i2}
  Tokens = {t1, t2}
  Limit = 1
  MaxAttempts = 2
  MaxPassword = 3
  MaxCalls = 4
SYMMETRY MCSymmetry
CHECK_DEADLOCK FALSE
INVARIANTS
  CredentialInv
  LinksAreCurrent
  SessionsKnowThePassword
PROPERTIES
  InviteSetsOnce
