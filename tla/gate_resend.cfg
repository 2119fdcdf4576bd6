SPECIFICATION Spec
CONSTANTS
    Outpass = {1}
    Owner <- MCOwner
    PassType <- MCLocal
    Official = {a1}
    Guard = {w1}
    Log = {1, 2}
    LogPass <- MCLogPass
    LogAction <- MCLogAction
    MaxVisits = 2
    SyncSlot = {1, 2}
    MaxSyncs = 3
    BarcodeInScope = TRUE
    ScanSlot = {}
    MaxFailures = 0
CHECK_DEADLOCK FALSE
INVARIANTS MovedOnce
