SPECIFICATION FairSpec
CONSTANTS
  ClientCalls = {c1, c2}
  ServerCalls = {d1}
  Expiring = {d1}
  NoAccept = {}
  Closing = {"client"}
  PipeCap = 4
  AcceptCap = 1
  MaxWrites <- None
  MaxCloses <- None
  NoCall = NoCall
INVARIANTS FreshIdentifiers RefusedNotAccepted
PROPERTIES DialsAnswered
CHECK_DEADLOCK FALSE
