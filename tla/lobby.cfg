SPECIFICATION Spec
CONSTANTS
    s1 = s1
    s2 = s2
    s3 = s3
    Student = {s1, s2, s3}
    individual_rank <- MCRank
    Shattered = {s1}
    NoStudent = NoStudent
    GroupLimit = 2
    BatchSize = 1
    NumBatches = 2
    Txn = {t1, t2}
    MaxGroups = 2
    MaxRequests = 2
    NewPhases = {"SOFT_LOCK"}
    MaxAsked = 5
SYMMETRY MCSymmetry
CHECK_DEADLOCK FALSE
INVARIANTS AtMostFour LeaderIsMember LatePlaceOnce
PROPERTIES LockedMembersStay
