CONSTANTS
    Block <- LineBlock
    Genesis = 1
    NoBlock = 0
    pprev <- LinePrev
    nHeight <- LineHeight
    nChainWork <- LineHeight
    Outpoint <- Out
    Spent = Spent
    vin <- LineIn
    vout <- LineOut
    Utxo <- MCUtxo
    MIN_BLOCKS_TO_KEEP = 1
    FileSize = 2
    MaxFile = 2
    PruneMode = TRUE
    Faults = {}
    PowerFailure = FALSE
    MaxCrash = 1
SPECIFICATION Spec
INVARIANTS
    StartSucceeds
