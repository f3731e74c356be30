CONSTANTS
    t1 = t1
    c1 = c1
    c2 = c2
    None = None
    Tasks <- OneTask
    Clients <- TwoClients
    Cap = 1
    MaxProgress = 2
    MaxCrashes = 0
    Faults <- NoFaults
SPECIFICATION FairSpec
CHECK_DEADLOCK FALSE
PROPERTIES RecordContract Settles
