CONSTANTS
  None = None
  Users = {u1, u2}
  Emails <- Colleagues
  FreeDomains <- Free
  Cases <- SixOrganizations
  Tables <- Rows
  Requests = {r1, r2}
  MaxRequests = 3
SPECIFICATION Spec
SYMMETRY Symmetry
INVARIANTS DomainLinksRestOnADomain SuggestedOrganizationsNeedNoModerator OnePendingRequest
PROPERTIES MarkingReachesEveryMember ImplementsMembership
CHECK_DEADLOCK FALSE
