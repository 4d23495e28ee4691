CONSTANTS
  None = None
  Users = {u1}
  Browsers = {b1}
  Passkeys = {}
  Mails = {"verify", "reset"}
  Clocks = {}
  AuthenticateBrowser = TRUE
  InitialAccounts <- Strangers
SPECIFICATION Spec
INVARIANTS RedirectsSettle
CHECK_DEADLOCK FALSE
