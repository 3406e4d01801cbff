SPECIFICATION FairSpec
CONSTANTS
    Capacity = 2
    MaxPush = 4
    MaxReport = 3
INVARIANTS
    Conservation
    NoLostWakeup
    FailureOnceThenFinished
PROPERTIES
    SuspendedCallServed
    KeepsPromise
