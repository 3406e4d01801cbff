SPECIFICATION SFairSpec
CONSTANTS
    Cycle = 7
    Word = 8
    LateWindow = 2
    MaxInFlight = 2
    Delay = 0
    RetryInterval = 0
    MaxRequests = 0
    BudgetPercent = 0
    EstimateCap = 3
    PayloadPackets = 0
    Setups <- TwoSetups
    Capacity = 1
    MaxForeign = 1
    MaxSettings = 1
    MayFail = TRUE
INVARIANTS
    EveryFrameCounted
    DeliveredInOrder
PROPERTIES
    DropReturns
    BlockLeaves
CHECK_DEADLOCK FALSE
