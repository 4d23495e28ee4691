CONSTANTS
  None = None
  Users = {u1, u2}
  Browsers = {b1, b2}
  Passkeys = {k1}
  Mails = {"verify", "magic", "reset"}
  Clocks = {"sign-in", "token", "verification"}
  AuthenticateBrowser = TRUE
  InitialAccounts <- StrangersOrSettled
SPECIFICATION SpecOfEach
SYMMETRY Symmetry
INVARIANTS RedirectsSettleWhenCurrent SecondFactorPageOffersAFactor ForcedUserIsCapable
  TrustIsEarned CookiesAreEarned AuthTimeNotBeforeSignIn
PROPERTIES FactorsAreNotInherited FactorsChangeWithTwoFactors
CHECK_DEADLOCK FALSE
