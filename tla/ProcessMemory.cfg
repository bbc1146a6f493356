SPECIFICATION Spec
CONSTANTS
    Clients = {c1, c2}
    Loop = loop
    Nobody = nobody
    Operating = {c1, c2}
    Watching = {c2}
    Unknown = unknown
    DefaultMode = "ptrace"
    QueueCap = 1
    MaxCalls = 2
    MaxChanges = 1
INVARIANTS SuspendHolds LeftRunning
PROPERTIES CommandsReturn SettledIsShown
CHECK_DEADLOCK FALSE
