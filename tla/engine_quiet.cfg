SPECIFICATION QuietSpec
CONSTANTS
    s1 = s1
    s2 = s2
    s3 = s3
    g1 = g1
    g2 = g2
    r1 = r1
    r2 = r2
    Student = {s1, s2, s3}
    Group = {g1, g2}
    Room = {r1, r2}
    NoRoom = NoRoom
    NoGroup = NoGroup
    NoSubmission = NoSubmission
    NoBatch = NoBatch
    NumBatches = 1
    NumRounds = 2
    Executor = {e1}
    Rank <- MCRank
    HomeBatch <- MCHomeTogether
    InitialGroup <- MCOneInvited
    InitialRoom <- MCSingleTaken
    Invitations <- MCInvitation
    MaxOfficeCalls = 0
    Capacity <- MCCapacity
CHECK_DEADLOCK FALSE
INVARIANTS FailedMeansFull
