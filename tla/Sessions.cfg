SPECIFICATION FairSpec
CONSTANTS
  Clients = {s1, s2}
  Ids = {i1}
  Jobs = {j1}
  MaxJid = 1
  None = None
INVARIANTS SessionsAreRun OpenAreListed OrphansOnlyLate
PROPERTIES ClosesFinish
CHECK_DEADLOCK FALSE
