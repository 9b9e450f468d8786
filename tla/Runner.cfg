SPECIFICATION RunnerSpec
CONSTANTS
    MaxLines = 3
    MaxErrLines = 1
INVARIANTS RunnerTypeOK EventsAreTheLines NothingIsUntold ResultIsTheOutput
CHECK_DEADLOCK FALSE
