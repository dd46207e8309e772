SPECIFICATION FairSpec
CONSTANTS
    ur = ur
    ua = ua
    ub = ub
    RootUuid = ur
    Null = Null
    Unset = Unset
    Uuids <- MCUuids
    Collections <- MCCollections
    Fragments <- MCFragments
    MaxInstances = 3
    MaxEdits = 1
    MaxChanges = 2
CONSTRAINT Rooted
CHECK_DEADLOCK FALSE
INVARIANTS
    TypeOK
    ParentsMirror
    ScopedDistinct
PROPERTIES
    OrphansRemoved
    HeldIsKept
    OnlyOrphansLeave
    LockReleased
