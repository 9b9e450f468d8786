SPECIFICATION SendCommandsSpec
CONSTANTS
    Word = 4
    MaxRuns = 2
    MaxLogs = 3
INVARIANTS
    SendCommandsTypeOK CarefulUserSendsOnce SuccessIsOwn EventIndexCountsMessages
    PaysAsAsked ClientsOpenWhileUsed AddressesAreOfTheirChain
CHECK_DEADLOCK FALSE
