SPECIFICATION CitizenSpec

CONSTANTS
    Owner = owner
    Officers = {o1, o2}
    Divisions = {d1}
    d1 = d1
    Devices = {v1, v2}
    Nics = {n1}
    Citizen = n1
    Zero = zero
    MAX_REISSUES = 1
    MaxEpoch = 1
    Commitments <- TwoLeaves
    MaxCandidates = 1
    MaxElection = 1
    NoIdentity = none
    MaxSends = 3
    DivisionOf <- TwoDesks
    Requests = {r1}

INVARIANTS
    PhoneInv
    OneVotePerElection
    EnrolmentInv

PROPERTIES
    SecretsKept

SYMMETRY Symmetry

CHECK_DEADLOCK FALSE
