SPECIFICATION Spec
CONSTANTS
    MaxSteps = 2
    MaxTimes = 2
    MaxDuration = 3
INVARIANTS
    SummaryIsReference
    AverageBetweenExtremes
    SuccessIsClean
CHECK_DEADLOCK FALSE
