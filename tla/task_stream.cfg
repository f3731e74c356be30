CONSTANTS
    t1 = t1
    c1 = c1
    c2 = c2
    None = None
    Tasks <- OneTask
    Clients <- TwoClients
    Cap = 2
    MaxProgress = 3
    MaxCrashes = 1
    Faults <- AllFaults
SPECIFICATION Spec
CHECK_DEADLOCK FALSE
INVARIANT StreamContract
PROPERTY ImplementsLifecycle
