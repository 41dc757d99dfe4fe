CONSTANTS
    MaxData = 2
    Option = {o1}
    Ctx = {c1, c2}
    ManagerOption = {k1}
    Manager = {m1}
    Thread = {t1, t2}
    None = None
    MaxHandle = 2
SPECIFICATION Spec
INVARIANTS
    DestroyedWhenUnused
    UserDataAlive
