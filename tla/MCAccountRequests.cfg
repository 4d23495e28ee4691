CONSTANTS
  None = None
  Requests = {r1, r2}
  MaxRequests = 4
  Passkeys = {k1}
  Secrets = {s1, s2}
  Offers <- FactorsOrTokens
SPECIFICATION Spec
SYMMETRY Symmetry
INVARIANTS LockoutNeedsContention LastMailWorks SecretsAreAcceptedOnce
PROPERTIES ImplementsAtomicAccount
CHECK_DEADLOCK FALSE
