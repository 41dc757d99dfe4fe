CONSTANTS
    Block <- TreeBlock
    Genesis = 1
    NoBlock = 0
    pprev <- TreePrev
    nHeight <- TreeHeight
    nChainWork <- TreeWork
    Verdicts <- TreeVerdicts
    Addresses <- OneLayout
    MIN_BLOCKS_TO_KEEP = 1
    MinimumChainWork = 2
    ConnectBatch = 2
    MinSequenceId <- Least
    Scenarios <- Calm
SPECIFICATION FairSpec
INVARIANTS
    LinkedExact
    ForwardProgress
    FailureFlagsExact
    BestHeaderIsBest
PROPERTIES
    CallsReturn
    MostWorkWins
