SPECIFICATION FairSpec
CONSTANTS
    MaxId = 2
    MAX_RETRIES = 3
    MAX_PENDING_ACKS = 1
    CONTROL_TIMEOUT = 1
    MAX_PENDING_ACK_WAIT = 2
    MaxDrawn = 5
INVARIANTS
    AnswerIsOurs
    LatchEarned
PROPERTIES
    AccessReturns
CHECK_DEADLOCK FALSE
