SPECIFICATION PipelineSpec
CONSTANTS
    MaxHead = 1
    MaxCheckpoint = 1
    ReorgDepth = 0
    HeadLag = 0
    LogLag = 0
    SourceMessageBlock = 1
    MaxMessageBlock = 1
    CheckpointConfs = 0
    Word = 16
    MaxClaimTxs = 2
    Timeout = 1
    MaxClock = 3
INVARIANTS DeadlineExitsTimeout
CHECK_DEADLOCK FALSE
