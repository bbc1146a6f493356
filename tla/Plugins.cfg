SPECIFICATION Spec
CONSTANTS
    Runs = {r1}
    Edits = {e1, e2}
    Names = {p, q}
    Unloadable = {p}
    WithCtx = {p}
    BootName = p
    Boot = boot
    None = none
INVARIANTS NoCallAfterRelease CallbackOwner ListIsAccountedFor
PROPERTIES CancelledRunsEnd
CHECK_DEADLOCK FALSE
