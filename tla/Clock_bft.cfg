SPECIFICATION ClockSpec

CONSTANTS
    ClockNodes = {c1, c2}
    Sealer = c1
    ClockQuorum = 2
    Modes = {"bft"}
    Drift = 1
    Jumps = {}
    Pins = {}
    FirstWall = 3
    LastWall = 5
    MaxBlocks = 3
    MaxDevCalls = 2

INVARIANTS
    DatedNow

CHECK_DEADLOCK FALSE
