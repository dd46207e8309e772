SPECIFICATION Spec
CONSTANTS
    MaxServerMessages = 2
    MaxClientMessages = 1
    MaxSockets = 3
    MaxInFlight = 1
    MaxWaiting = 0
    Tokens = {TRUE, FALSE}
    LateClose = {1}
CHECK_DEADLOCK FALSE
INVARIANTS
    TypeOK
    UnseenRetained
    InFlightTruthful
PROPERTIES
    DownLinkReliable
    NoGapOnceRecovered
