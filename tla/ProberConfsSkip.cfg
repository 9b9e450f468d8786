SPECIFICATION Spec
CONSTANTS
    MaxHead = 3
    MaxCheckpoint = 2
    ReorgDepth = 0
    HeadLag = 0
    LogLag = 0
    SourceMessageBlock = 1
    CheckpointConfs = 1
    Word = 16
INVARIANTS BestIsHighest
CHECK_DEADLOCK FALSE
