SPECIFICATION FairSpec
CONSTANTS
    MaxHead = 3
    MaxCheckpoint = 2
    ReorgDepth = 0
    HeadLag = 1
    LogLag = 0
    SourceMessageBlock = 1
    CheckpointConfs = 0
    Word = 16
INVARIANTS TypeOK BestIsHighest
PROPERTIES BestNeverFalls ProberImplementsOracle ConfirmedLeadsToReady
CHECK_DEADLOCK FALSE
