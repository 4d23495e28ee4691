CONSTANTS
  None = None
  Codes = {c1, c2}
  AccessTokens = {a1, a2}
  Requests = {r1, r2}
  MaxRequests = 4
  CodeTtl = 2
  AccessTokenTtl = 3
SPECIFICATION Spec
INVARIANTS RevokedTokensAreGone CodesAreRedeemedOnce
PROPERTIES EverythingExpires
CHECK_DEADLOCK FALSE
