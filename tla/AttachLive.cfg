SPECIFICATION FairSpec
CONSTANTS
  Attachments = {a1}
  Detaches = {d1}
  Shells = {s1}
  QueueSize = 1
  NoProcess = NoProcess
  Nobody = Nobody
PROPERTIES CallsReturn ExitDetaches
CHECK_DEADLOCK FALSE
