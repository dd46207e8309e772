SPECIFICATION Spec
CONSTANTS
    MaxServerMessages = 1
    MaxClientMessages = 0
    MaxSockets = 2
    MaxInFlight = 1
    MaxWaiting = 0
    Tokens = {TRUE}
    LateClose = {1}
CHECK_DEADLOCK FALSE
PROPERTY
    LiveConnectionKept
