CONSTANTS
    Thread = {t1, t2}
    Connection = {c1, c2, c3}
    NoThread = NoThread
    NoConnection = NoConnection
    Size = {1, 2, 4}
    MaxBuffer = 3
    MaxMsg = 4
SPECIFICATION Spec
INVARIANTS
    BufferExact
    UserDataAlive
    HeardInOrder
    Accounted
CHECK_DEADLOCK FALSE
