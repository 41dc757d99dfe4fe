CONSTANTS
    Outpoint = {o1, o2}
    Coin = {c1, c2}
    Spent = Spent
    Block = {b1, b2}
    NullBlock = NullBlock
    NoEntry = NoEntry
SYMMETRY Symmetry
SPECIFICATION Spec
INVARIANTS FlagsTruthful NoLogicError
PROPERTY ImplementsUtxoSet
CHECK_DEADLOCK TRUE
