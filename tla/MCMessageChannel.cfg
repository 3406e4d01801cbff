SPECIFICATION Spec
CONSTANTS
    c1 = c1
    c2 = c2
    Callers = {c1, c2}
    Capacity = 2
    EventCounts <- OneTwoOne
    Unacked = {3}
    MaxCopies = 2
    MaxCalls = 3
    MaxFaults = 2
SYMMETRY Symmetry
INVARIANTS
    OnceInOrder
    AckedIsAccounted
    NoLostWakeup
CHECK_DEADLOCK FALSE
