SPECIFICATION LiveSpec
CONSTANTS
    NoBatch = NoBatch
    NumBatches = 2
    NumRounds = 1
    StartTime <- MCShortStart
    EndTime <- MCShortEnd
    Punctual = FALSE
    MaxTime = 3
    MaxSubmissions = 0
    MaxCrashes = 1
    MaxFaults = 1
    MaxStaleReads = 1
CHECK_DEADLOCK FALSE
INVARIANTS EvaluatedOnce AdminModeComesLast
PROPERTIES EveryBatchCloses EventEnds TimetableSpec
