SPECIFICATION FairHandshake
CONSTANT MaxNum = 2
INVARIANTS DistinctParity NoLateHandshake
PROPERTIES StartReturns
CHECK_DEADLOCK FALSE
