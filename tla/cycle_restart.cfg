SPECIFICATION Spec
CONSTANTS
    NoBatch = NoBatch
    NumBatches = 2
    NumRounds = 2
    StartTime <- MCUnevenStart
    EndTime <- MCUnevenEnd
    Punctual = TRUE
    MaxTime = 4
    MaxSubmissions = 2
    MaxCrashes = 1
    MaxFaults = 0
    MaxStaleReads = 0
CHECK_DEADLOCK FALSE
INVARIANTS TypeOK TimersMatchDatabase
PROPERTIES EarlierRoundsFirst
