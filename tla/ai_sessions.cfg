CONSTANTS
    p1 = p1
    p2 = p2
    MaxReqs = 4
    Scenarios <- Sessions
SPECIFICATION Spec
CHECK_DEADLOCK FALSE
INVARIANTS SessionSound ConversationKept
