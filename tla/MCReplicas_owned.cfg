SPECIFICATION FairSpec
CONSTANTS
    c1 = c1
    c2 = c2
    m1 = m1
    m2 = m2
    Clients = {c1, c2}
    Models = {m1, m2}
    Values = {0, 1, 2}
    Unset = Unset
    Writers <- OneWriter
    Patient = TRUE
    Returning = FALSE
    Policies = {"accept", "whole", "part"}
    MaxEdits = 3
CHECK_DEADLOCK FALSE
INVARIANTS
    TypeOK
    ReadersFollow
    WriterAhead
    RepliesExpected
PROPERTIES
    Settles
