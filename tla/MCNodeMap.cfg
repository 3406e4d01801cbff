SPECIFICATION Spec
CONSTANTS
    Documents <- Sheets
    MaxChanges = 3
    MaxTime = 3
    MaxFaults = 1
INVARIANTS
    OtherBitsSurvive
    AnswersAreCurrent
    ViewerIsTold
CHECK_DEADLOCK FALSE
