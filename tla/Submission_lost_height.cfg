SPECIFICATION Spec

CONSTANTS
    N = 4
    Running = {1, 2}
    Txs <- TwoTxs
    NoTx = none
    MaxRound = 1
    MaxHops = 0
    MaxExpiries = 0

INVARIANTS
    AnsweredFinal

CHECK_DEADLOCK FALSE
