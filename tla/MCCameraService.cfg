SPECIFICATION FairSpec
CONSTANTS
    MaxSessions = 2
    MaxRequests = 2
    MaxFaults = 1
INVARIANTS
    RetiredIsQuiet
    CameraReleased
    StatusIsTrue
PROPERTIES ShutdownEnds
CHECK_DEADLOCK FALSE
