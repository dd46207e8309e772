SPECIFICATION FairSpec
CONSTANTS
    c1 = c1
    c2 = c2
    Connections = {c1, c2}
    Server = Server
    MaxVersion = 2
    MaxFetches = 2
CHECK_DEADLOCK FALSE
INVARIANTS
    TypeOK
    RegistryAgrees
    MissesNothing
PROPERTIES
    StateSent
