SPECIFICATION LiveSpec
CONSTANTS
    s1 = s1
    s2 = s2
    s3 = s3
    g1 = g1
    g2 = g2
    r1 = r1
    r2 = r2
    Student = {s1, s2}
    Group = {g1}
    Room = {r1}
    NoRoom = NoRoom
    NoGroup = NoGroup
    NoSubmission = NoSubmission
    NoBatch = NoBatch
    NumBatches = 2
    NumRounds = 1
    Executor = {e1}
    Rank <- MCRank
    HomeBatch <- MCHomeTogether
    InitialGroup <- MCInitialGroup
    InitialRoom <- MCNoResident
    Invitations <- MCNobodyInvited
    MaxOfficeCalls = 0
    Capacity <- MCCapacity
CHECK_DEADLOCK FALSE
INVARIANTS DissolvedLeavesNothing
PROPERTIES EveryRoundEnds EveryEvaluationEnds GhostNeverSubmitted
