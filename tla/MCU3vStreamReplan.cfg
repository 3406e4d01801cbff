SPECIFICATION Spec
CONSTANTS
    Size = 2
    Count = 1
    Final = 1
    InFlight = 5
    MaxFailures = 1
    Lengths = {1, 3, 4}
    MaxBlocks = 3
    MaxFaults = 0
INVARIANT ReplanCostsNothing
CHECK_DEADLOCK FALSE
