SPECIFICATION FairSpec
CONSTANTS
  ClientCalls = {c1}
  ServerCalls = {}
  Expiring = {}
  NoAccept = {}
  Closing = {"server"}
  PipeCap = 4
  AcceptCap = 1
  MaxWrites <- StreamWrites
  MaxCloses <- StreamCloses
  NoCall = NoCall
INVARIANTS UnroutedIsClosed NothingLostWhileRouted
PROPERTIES ImplementsService CloseTakesEffect Quiesces
CHECK_DEADLOCK FALSE
