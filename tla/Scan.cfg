SPECIFICATION Spec
CONSTANTS
    Workers = {w1, w2}
    Tables <- AnyTable
    Patterns <- AnyPattern
    Ranges <- AnyRange
    Wild = wild
    MinRead = 2
    Nothing = nothing
    Sizes = {0, 3, 4}
INVARIANTS WindowInPlace ScanIsWhole
PROPERTIES ScanEnds
CHECK_DEADLOCK FALSE
