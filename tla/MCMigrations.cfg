CONSTANTS
  upper = upper
  lower = lower
  free = free
  Domains = {upper, lower, free}
  Lower <- LowerCase
  Free = {free}
  MaxCopies = 2
  MaxWrites = 2
  NoDomain = NoDomain
SPECIFICATION MigrationsSpec
INVARIANTS UpgradesRun
PROPERTIES UpgradesKeepDomains UpgradesKeepAccounts
