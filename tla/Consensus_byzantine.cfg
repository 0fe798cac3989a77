SPECIFICATION HeightSpec

CONSTANTS
    N = 4
    Quorum = 3
    Byz = {1}
    Forgeable = {"PROPOSAL", "PREPARE"}
    Down = {}
    Blocks = {x, y}
    NoBlock = nil
    StaleBlock = stale
    Clients = {}
    Synchronous = TRUE
    Uniform = FALSE
    MaxHeight = 1
    MaxRound = 0
    MaxQueue = 1
    MaxRestarts = 0
    MaxLosses = 0
    MaxFaults = 0

PROPERTIES
    LedgerSpec

SYMMETRY BlockSymmetry

CHECK_DEADLOCK FALSE
