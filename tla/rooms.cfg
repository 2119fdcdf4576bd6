SPECIFICATION Spec
CONSTANTS
    s1 = s1
    s2 = s2
    s3 = s3
    r1 = r1
    r2 = r2
    Student = {s1, s2, s3}
    ByRank <- MCByRank
    state_category <- MCState
    branch <- MCBranch
    Room = {r1, r2}
    Built = {r1}
    Capacity = {1, 2}
    Layout <- MCLayout
    Target <- MCTarget
    Txn = {t1, t2}
    MaxAsked = 4
SYMMETRY MCSymmetry
CHECK_DEADLOCK FALSE
INVARIANTS TypeOK LayoutHolds
PROPERTIES NeverOverfilled RollbackEmpties ManualMovesNobody
