CONSTANTS
    Worker = {w1, w2}
    Producer = {p1}
    Main = Main
    NoTask = NoTask
    Reenter = TRUE
    Limit = 1
    MaxBurst = 1
    MaxTask = 3
    MaxClock = 1
SPECIFICATION Spec
INVARIANT QueueBounded
PROPERTIES ImplementsTaskQueue ReentryNeverReturns QueueDrains ShutdownCompletes
CHECK_DEADLOCK FALSE
