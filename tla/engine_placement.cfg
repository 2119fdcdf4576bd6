SPECIFICATION Spec
CONSTANTS
    s1 = s1
    s2 = s2
    s3 = s3
    g1 = g1
    g2 = g2
    r1 = r1
    r2 = r2
    Student = {s1, s2, s3}
    Group = {g1, g2}
    Room = {r1}
    NoRoom = NoRoom
    NoGroup = NoGroup
    NoSubmission = NoSubmission
    NoBatch = NoBatch
    NumBatches = 1
    NumRounds = 1
    Executor = {e1, e2}
    Rank <- MCRank
    HomeBatch <- MCHomeTogether
    InitialGroup <- MCOneInvited
    InitialRoom <- MCSettled
    Invitations <- MCInvitation
    MaxOfficeCalls = 1
    Capacity <- MCTriple
CHECK_DEADLOCK FALSE
SYMMETRY MCExecutorSymmetry
INVARIANTS TypeOK NoOverbooking AllocatedOnce
PROPERTIES AllocationIsFinal PlacementSpec
