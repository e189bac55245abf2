SPECIFICATION Spec
CONSTANTS
    Requests = {r1, r2, r3}
    Keys = {k1}
    Managers = {m1}
    PoolSize = 2
    MaxClock = 0
    NoOne = NoOne
PROPERTIES
    SignedIsImmutable
