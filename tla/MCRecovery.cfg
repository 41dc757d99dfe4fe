CONSTANTS
    Block <- ForkBlock
    Genesis = 1
    NoBlock = 0
    pprev <- ForkPrev
    nHeight <- ForkHeight
    nChainWork <- ForkHeight
    Outpoint <- Out
    Spent = Spent
    vin <- ForkIn
    vout <- ForkOut
    Utxo <- MCUtxo
    MIN_BLOCKS_TO_KEEP = 1
    FileSize = 8
    MaxFile = 0
    PruneMode = FALSE
    Faults = {}
    PowerFailure = FALSE
    MaxCrash = 2
SPECIFICATION FairSpec
INVARIANTS
    OldOrNewCoin
PROPERTIES
    ImplementsDurableChain
    NodeComesUp
