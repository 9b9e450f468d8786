SPECIFICATION SendCommandsSpec
CONSTANTS
    Word = 4
    MaxRuns = 1
    MaxLogs = 1
INVARIANTS DataAsAsked
CHECK_DEADLOCK FALSE
