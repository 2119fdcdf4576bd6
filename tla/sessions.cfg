SPECIFICATION Spec
CONSTANTS
    Account = {student, guard}
    Student = {student}
    GuardAccount = {guard}
    Registered = {student, guard}
    Machine = {gate1, gate2}
    NoMachine = NoMachine
    Request = {q1, q2}
    MaxCodes = 2
    MaxSessions = 2
SYMMETRY MCSymmetry
CHECK_DEADLOCK FALSE
INVARIANTS CodeAcceptedOnce OverForGood AdmittedCanRefresh
