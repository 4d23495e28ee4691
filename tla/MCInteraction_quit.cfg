CONSTANTS
  None = None
  Former = Former
  Users = {u1}
  Browsers = {b1}
  Organizations = {o1}
  Capable = {u1}
  Forced = {}
  Interactions = {i1, i2}
  Requests <- OneOrgRequests
  JoinedLinks <- CheckedLinks
  AlwaysEidas1 = FALSE
SPECIFICATION Spec
PROPERTIES SilentCodesNameAMembership
CHECK_DEADLOCK FALSE
