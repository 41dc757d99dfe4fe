CONSTANTS
    Worker = {w1, w2}
    Controller = {m1}
    NoOne = NoOne
    NullOpt = NullOpt
    nBatchSize = 2
    MaxAdd = 4
    MaxChecks = 4
    MaxRound = 2
SPECIFICATION Spec
INVARIANTS Accounting NoCheckOutlivesRound VerdictExact
PROPERTY EveryWaitEnds
