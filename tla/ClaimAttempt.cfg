SPECIFICATION ClaimFairSpec
CONSTANTS
    MaxClaimTxs = 2
INVARIANTS ClaimTypeOK OutcomeIsHonest NotReadyLeavesNothing OneClaimAtMost
PROPERTIES DeadlineEndsProcess
CHECK_DEADLOCK FALSE
