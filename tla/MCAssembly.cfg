SPECIFICATION Spec
CONSTANTS
    Cycle = 7
    Word = 8
    LateWindow = 2
    MaxInFlight = 2
    Delay = 1
    RetryInterval = 1
    MaxRequests = 2
    BudgetPercent = 75
    EstimateCap = 3
    PayloadPackets = 0
    Setups <- AllSetups
INVARIANTS
    InFlightBounded
    FramesAreTruthful
    CountedOnce
    NewestIsStarted
    AsksOnlyForLost
    OutcomeOnce
CHECK_DEADLOCK FALSE
