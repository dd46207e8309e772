SPECIFICATION FairSpec
CONSTANTS
    MaxServerMessages = 2
    MaxClientMessages = 1
    MaxSockets = 2
    MaxInFlight = 1
    MaxWaiting = 0
    Tokens = {TRUE}
    LateClose = {}
CHECK_DEADLOCK FALSE
PROPERTIES
    EverythingDelivered
    RetainedDrains
