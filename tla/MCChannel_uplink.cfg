SPECIFICATION Spec
CONSTANTS
    MaxServerMessages = 0
    MaxClientMessages = 2
    MaxSockets = 2
    MaxInFlight = 1
    MaxWaiting = 0
    Tokens = {TRUE}
    LateClose = {}
CHECK_DEADLOCK FALSE
PROPERTY
    UpLinkReliable
