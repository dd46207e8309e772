SPECIFICATION FairSpec
CONSTANTS
    q1 = q1
    q2 = q2
    a = a
    b = b
    Requests = {q1, q2}
    Items = {a, b}
    Arrays <- MCArrays
    Constraints <- InsertIntoRoot
    Unset = Unset
    MaxOperations = 1
CHECK_DEADLOCK FALSE
INVARIANTS
    TypeOK
    Serial
PROPERTIES
    GrowsAsVerified
    Answered
