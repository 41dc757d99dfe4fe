CONSTANTS
    Block <- ShortBlock
    Genesis = 1
    NoBlock = 0
    pprev <- ShortPrev
    nHeight <- ShortHeight
    nChainWork <- ShortHeight
    Outpoint <- Out
    Spent = Spent
    vin <- ShortIn
    vout <- ShortOut
    Utxo <- MCUtxo
    MIN_BLOCKS_TO_KEEP = 1
    FileSize = 1
    MaxFile = 2
    PruneMode = TRUE
    Faults = {"index", "coins"}
    PowerFailure = FALSE
    MaxCrash = 1
SPECIFICATION Spec
INVARIANTS
    IndexRefersToBlocks
CHECK_DEADLOCK FALSE
