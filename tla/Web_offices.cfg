SPECIFICATION OfficesSpec

CONSTANTS
    Owner = owner
    Officers = {}
    Divisions = {d1, d2}
    Devices = {v1}
    Nics = {n1}
    Zero = zero
    MAX_REISSUES = 1
    MaxEpoch = 1
    Commitments <- TwoLeaves
    MaxCandidates = 1
    MaxElection = 1
    RelayCalls = {c1, c2}
    TTL = 2
    MaxRead = 1
    MaxContracts = 2
    MaxKeys = 1
    MaxMoment = 4
    Wards = {w1, w2}
    Candidates = {"a", "b"}
    Ballots <- TwoBallots
    MaxEvents = 6
    Attempts = {a1, a2, a3}
    Addresses = {ip1, ip2}
    Limit = 1
    WindowMs = 2
    MaxFailures = 2
    LockoutMs = 2
    MaxTime = 5
    MAX_ATTEMPTS = 2
    CODE_TTL_MS = 3
    RESEND_COOLDOWN_MS = 2
    MaxCodes = 3
    MaxClock = 6

INVARIANTS
    ListedOneLeaf
    SignedWhenUsable
    ResultsInv
    LimitsInv

PROPERTIES
    ResultsFrozen
    RelayTruthful

SYMMETRY Symmetry

CHECK_DEADLOCK FALSE
