SPECIFICATION LiveSpec
CONSTANTS
    Outpass = {1}
    Owner <- MCOwner
    PassType <- MCPassType
    Official = {a1}
    Guard = {w1}
    Log = {1, 2}
    LogPass <- MCLogPass
    LogAction <- MCLogAction
    MaxVisits = 2
    SyncSlot = {1}
    MaxSyncs = 2
    BarcodeInScope = TRUE
    ScanSlot = {n1}
    MaxFailures = 1
CHECK_DEADLOCK FALSE
INVARIANTS TypeOK OutNeedsApproval OutMeansOpenVisit TokenMeansApproved
PROPERTIES OverdueReported
