CONSTANTS
    Block <- LineBlock
    Genesis = 1
    NoBlock = 0
    pprev <- LinePrev
    nHeight <- LineHeight
    nChainWork <- LineHeight
    Outpoint <- LoopOutpoint
    Spent = Spent
    vin <- LineIn
    vout <- LoopOut
    Utxo <- MCUtxo
    MIN_BLOCKS_TO_KEEP = 1
    FileSize = 3
    MaxFile = 1
    PruneMode = FALSE
    Faults = {}
    PowerFailure = TRUE
    MaxCrash = 2
SPECIFICATION Spec
INVARIANTS
    UndoDurable
    StartSucceeds
    MarkedConsistent
CHECK_DEADLOCK FALSE
