SPECIFICATION RerunSpec
CONSTANTS
    MaxHead = 2
    MaxCheckpoint = 1
    ReorgDepth = 0
    HeadLag = 0
    LogLag = 0
    SourceMessageBlock = 1
    CheckpointConfs = 1
    Word = 16
    MaxClaimTxs = 2
    MaxOutages = 1
INVARIANTS LowLevelTypeOK ExitIsAboutThisRun SnapshotFits
PROPERTIES InvocationEnds RerunFindsReady
CHECK_DEADLOCK FALSE
