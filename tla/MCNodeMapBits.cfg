SPECIFICATION Spec
CONSTANTS
    Documents <- Unlinked
    MaxChanges = 3
    MaxTime = 0
    MaxFaults = 0
INVARIANTS
    OtherBitsSurvive
CHECK_DEADLOCK FALSE
