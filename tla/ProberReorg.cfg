SPECIFICATION Spec
CONSTANTS
    MaxHead = 4
    MaxCheckpoint = 2
    ReorgDepth = 1
    HeadLag = 1
    LogLag = 1
    SourceMessageBlock = 1
    CheckpointConfs = 1
    Word = 16
INVARIANTS BestIsConfirmed ReadyIsBacked
CHECK_DEADLOCK FALSE
