SPECIFICATION Spec
CONSTANTS
    Size = 1
    Count = 1
    Final = 2
    InFlight = 5
    Lengths = {1, 3, 4}
    MaxBlocks = 3
    MaxFaults = 2
    MaxFailures = 1
INVARIANTS
    CompleteIsOneBlock
    DeliveredOrMissed
    LossHasCause
CHECK_DEADLOCK FALSE
