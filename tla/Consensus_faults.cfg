SPECIFICATION EnginesSpec

CONSTANTS
    N = 4
    Quorum = 3
    Byz = {}
    Forgeable = {}
    Down = {3}
    Blocks = {x, y}
    NoBlock = nil
    StaleBlock = stale
    Clients = {1, 2}
    Synchronous = FALSE
    Uniform = FALSE
    MaxHeight = 2
    MaxRound = 1
    MaxQueue = 1
    MaxRestarts = 1
    MaxLosses = 1
    MaxFaults = 1

INVARIANTS
    Agreement
    WorkIsTimed
    EngineInv

PROPERTIES
    LockHeld

SYMMETRY BlockSymmetry

CHECK_DEADLOCK FALSE
