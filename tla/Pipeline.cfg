SPECIFICATION PipelineFairSpec
CONSTANTS
    MaxHead = 2
    MaxCheckpoint = 2
    ReorgDepth = 1
    HeadLag = 1
    LogLag = 1
    SourceMessageBlock = 1
    MaxMessageBlock = 2
    CheckpointConfs = 1
    Word = 16
    MaxClaimTxs = 2
    Timeout = 1
    MaxClock = 3
INVARIANTS PipelineTypeOK SuccessIsClaimed TimeoutIsUnclaimed OneClaimPerCommand SuccessIsConfirmed ClaimHoldsMessage
PROPERTIES PipelineIsTransfer CommandEnds
CHECK_DEADLOCK FALSE
