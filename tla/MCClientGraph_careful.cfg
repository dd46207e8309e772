SPECIFICATION Spec
CONSTANTS
    r = r
    a = a
    b = b
    x = x
    Root = r
    Mine = {a, b}
    Theirs = {x}
    Null = Null
    Unset = Unset
    MaxEdits = 3
    MaxWrites = 1
SYMMETRY Symmetric
CHECK_DEADLOCK FALSE
INVARIANTS
    TypeOK
    ParentsMirror
    ScopeIsReached
    ServerCatchesUp
