SPECIFICATION Spec

CONSTANTS
    Owner = owner
    Officers = {gn}
    Divisions = {d1}
    Devices = {v1, v2, v3}
    Nics = {n1, n2}
    Zero = zero
    MAX_REISSUES = 1
    MaxEpoch = 1
    Commitments <- SharedNullifier
    MaxCandidates = 2
    MaxElection = 1

INVARIANTS
    EInv
    VotesCounted
    NicInv

PROPERTIES
    RootStable
    SupersededForever

SYMMETRY Symmetry

CHECK_DEADLOCK FALSE
