CONSTANTS
    Block <- ForkBlock
    Genesis = 1
    NoBlock = 0
    pprev <- ForkPrev
    nHeight <- ForkHeight
    nChainWork <- ForkWork
    Verdicts <- ForkVerdicts
    Addresses <- OneLayout
    MIN_BLOCKS_TO_KEEP = 1
    MinimumChainWork = 2
    ConnectBatch = 2
    MinSequenceId <- Least
    Scenarios <- Busy
SPECIFICATION Spec
INVARIANTS
    CandidatesWhenChecked
    ActiveChainValid
    BestChainActive
    ListenerFollows
