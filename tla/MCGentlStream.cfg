SPECIFICATION FairSpec
CONSTANTS
    Callers = {c1, c2}
    Memories = {1}
    Counts <- OneOrAll
    Prepared = {0, 2}
    MaxKeys = 3
    MaxEvents = 2
    MaxStarts = 2
    MaxFrames = 2
    MaxCalls = 3
INVARIANTS
    PoolsAgree
    FramesInOrder
    ThreadOwned
PROPERTIES
    CallsReturn
CHECK_DEADLOCK FALSE
