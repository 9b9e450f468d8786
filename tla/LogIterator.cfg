SPECIFICATION IteratorFairSpec
CONSTANTS
    MaxLogs = 5
    Capacity = 2
INVARIANTS IteratorTypeOK FetchIsWhole NoFeederLeft
PROPERTIES FetchReturns
CHECK_DEADLOCK FALSE
