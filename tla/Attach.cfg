SPECIFICATION Spec
CONSTANTS
  Attachments = {a1, a2}
  Detaches = {d1}
  Shells = {s1}
  QueueSize = 1
  NoProcess = NoProcess
  Nobody = Nobody
INVARIANTS OnlyCurrentWatched NothingInFlight
CHECK_DEADLOCK FALSE
