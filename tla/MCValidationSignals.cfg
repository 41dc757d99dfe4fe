CONSTANTS
    v = v
    b = b
    Listener = {l1, l2}
    Thread <- MCThread
    Validation = v
    Background = b
    NoEntry = NoEntry
    NoTask = NoTask
    Runner <- MCRunner
    MaxEntry = 3
    MaxEvent = 3
    MaxSync = 1
SPECIFICATION FairSpec
INVARIANTS CountExact SyncedMeansFinished
PROPERTIES EventsReachListeners UnregisteredGoes
CHECK_DEADLOCK FALSE
