SPECIFICATION Spec

CONSTANTS
    N = 4
    Quorum = 3
    Byz = {3}
    Height = 1
    Blocks = {x, y}
    NoBlock = nil
    MaxRound = 1
    MaxRestarts = 1
    MaxFaulty = 1

INVARIANTS
    Inv
    CommitOnce
    Agreement

PROPERTIES
    PromiseKept

SYMMETRY BlockSymmetry

CHECK_DEADLOCK FALSE
