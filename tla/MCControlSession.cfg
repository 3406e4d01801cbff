SPECIFICATION FairSpec
CONSTANTS
    Tasks = {"k1", "k2"}
INVARIANTS
    OneKeepalive
PROPERTIES
    RefusalSettled
    CallReturns
    CameraFreed
CHECK_DEADLOCK FALSE
