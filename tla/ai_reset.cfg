CONSTANTS
    p1 = p1
    p2 = p2
    MaxReqs = 4
    Scenarios <- Resetting
SPECIFICATION FairSpec
CHECK_DEADLOCK FALSE
PROPERTY RequestsEnd
