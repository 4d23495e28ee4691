CONSTANTS
  None = None
  Former = Former
  Users = {u1}
  Browsers = {b1}
  Organizations = {o1}
  Capable = {}
  Forced = {}
  Interactions = {i1}
  Requests <- CertifiedSelection
  JoinedLinks <- ToCheck
  AlwaysEidas1 = FALSE
  MaxDistractions = 0
SPECIFICATION JourneySpec
PROPERTIES RequestsAreAnswered
CHECK_DEADLOCK FALSE
