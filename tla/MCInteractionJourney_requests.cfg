CONSTANTS
  None = None
  Former = Former
  Users = {u1, u2}
  Browsers = {b1}
  Organizations = {o1, o2}
  Capable = {u1}
  Forced = {}
  Interactions = {i1, i2}
  Requests <- AnyRequests
  JoinedLinks <- SelfAssertedOrToCheck
  AlwaysEidas1 = FALSE
  MaxDistractions = 1
SPECIFICATION SpecOfEach
INVARIANTS LevelIsEarned TwoFactorsRequestedIsNecessary RequestsThatCanBeMet
PROPERTIES AnswersAreTheirOwn ConsistencyIsChecked ImplementsMembership JourneysEnd RequestsAreAnswered
CHECK_DEADLOCK FALSE
