SPECIFICATION FairSpec
CONSTANTS
    MaxSent = 4
    MaxProduced = 4
    MaxRequests = 2
    MaxCopies = 2
    MaxReentrant = 1
    MaxThrows = 1
CHECK_DEADLOCK FALSE
INVARIANTS
    TypeOK
    InOrderOnce
    NoneForgotten
PROPERTIES
    Handled
