CONSTANTS
  None = None
  Emails = {e1}
  Sirets = {o1, o2}
  Files <- SmallFiles
  MaxIds = 2
  MaxStarts = 2
SPECIFICATION Spec
INVARIANTS ImportedUsersAreNamed
PROPERTIES WhatUsersEnteredIsKept SuccessMeansImported
CHECK_DEADLOCK FALSE
