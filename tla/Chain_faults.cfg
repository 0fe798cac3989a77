SPECIFICATION ChainSpec

CONSTANTS
    ClockNodes = {c1, c2}
    Sealer = c1
    ClockQuorum = 2
    Modes = {"solo", "bft"}
    Drift = 1
    Jumps = {2}
    Pins = {3}
    FirstWall = 3
    LastWall = 5
    MaxBlocks = 3
    MaxDevCalls = 2
    N = 4
    Running = {1, 2}
    Txs <- OneAccount
    NoTx = none
    MaxRound = 1
    MaxHops = 1
    MaxExpiries = 1
    Accounts = {"a", "b"}
    Prefund = 1
    Transactions <- SomeTransactions
    SysOps <- SomeSysOps
    Deadline = 2
    LastTime = 3
    MaxNumber = 2
    MaxFailures = 1
    ValidatorSet = {"ec", "jvp"}
    CertQuorum = 2
    Stranger = "stranger"
    Peers <- TwoPeers
    Suspects = {"unp"}
    PageLimit = 2
    TopBlock = 2
    MaxCuts = 1
    BlockGasLimit = 7
    Leaves = {leafX, leafY}
    Parties = {k1, k2}
    Ballots <- TwoBallots
    LogRangeLimit = 6
    BlockChunk = 2
    MaxHead = 6
    Plan <- FiveNames
    Machines = {"ec", "unp", "npp"}
    Unset = "unset"

INVARIANTS
    ClockInv
    WritesInv
    LedgerInv
    SealsInv
    GasInv
    ReadersInv
    DeploymentInv

SYMMETRY Symmetry

CHECK_DEADLOCK FALSE
