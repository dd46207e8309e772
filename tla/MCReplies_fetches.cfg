SPECIFICATION RepliesSpec
CONSTANTS
    s1 = s1
    s2 = s2
    Scopes = {s1, s2}
    Name <- Names
    MaxServerMessages = 2
    MaxClientMessages = 3
    MaxSockets = 2
    MaxInFlight = 1
    MaxWaiting = 0
    Tokens = {TRUE}
    LateClose = {}
SYMMETRY Alike
CONSTRAINT LastBeforeLoss
CHECK_DEADLOCK FALSE
INVARIANTS
    RepliesTypeOK
    CallbacksFollowSession
    AttachedWhenTaken
    OneListenerPerFetch
    ChangesFindTheirScope
