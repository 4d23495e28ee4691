CONSTANTS
  None = None
  Sirets = {s1, s2}
  Domains = {d1}
  Users = {u1}
  Files <- SmallFiles
  MaxChanges = 1
  MaxStarts = 2
SPECIFICATION Spec
SYMMETRY Symmetry
INVARIANTS EveryOrganizationIsFetched
PROPERTIES OnlyActiveIsUsed
CHECK_DEADLOCK FALSE
