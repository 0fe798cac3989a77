SPECIFICATION FairSpec

CONSTANTS
    N = 4
    Quorum = 3
    Byz = {}
    Forgeable = {}
    Down = {2}
    Blocks = {x, y}
    NoBlock = nil
    StaleBlock = stale
    Clients = {0, 3}
    Synchronous = TRUE
    Uniform = TRUE
    MaxHeight = 1
    MaxRound = 4
    MaxQueue = 1
    MaxRestarts = 0
    MaxLosses = 0
    MaxFaults = 0

PROPERTIES
    WritesLand

CHECK_DEADLOCK FALSE
