SPECIFICATION RecordsSpec

CONSTANTS
    u1 = u1
    Keys = {u1}
    Calls <- SomeCalls
    Absent = absent
    Browsers = {b1}
    MaxAccounts = 2
    MaxReads = 2
    Components = {k1, k2}
    MaxVersions = 3
    Tags <- OneTag
    Imports = {"file", "panel"}
    RowsOf <- FileAndPanel
    MaxCrashes = 1
    Replicas = {r1}
    QueueSize = 1
    Retries = 1
    PullLimit = 2
    MaxMade = 3

INVARIANTS
    GateKept
    SetupInv
    CopiesInv

PROPERTIES
    NoLostUpdate
    QueueDrains
    LoadingEnds
    ListCatchesUp
    ReplicaCatchesUp

CHECK_DEADLOCK FALSE
