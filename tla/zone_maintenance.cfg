SPECIFICATION LiveSpec
CONSTANTS
    None = None
    Ids = {i1, i2}
    Writers = {w1}
    MinRetained = 2
    FaultKinds = {"corrupt", "crash", "export"}
    MaxFaults = 1
    MaxSnapshots = 5
INVARIANT ReportIsHonest
INVARIANT OneFaultKeepsACopy
PROPERTY NothingElseIsLost
PROPERTY CopyCatchesUp
CHECK_DEADLOCK FALSE
