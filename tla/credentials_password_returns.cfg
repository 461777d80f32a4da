SPECIFICATION CredentialSpec
CONSTANTS
  Handlers = {h1, h2}
  Sids = {a}
  Invites = {i1}
  Tokens = {t1}
  Limit = 1
  MaxAttempts = 2
  MaxPassword = 2
  MaxCalls = 2
SYMMETRY MCSymmetry
CHECK_DEADLOCK FALSE
PROPERTY PasswordStands
