SPECIFICATION Spec
CONSTANTS
    h = h
    p = p
    q = q
    AllPools <- ThreePools
    Hooked = {h}
    Seeds = {h}
    Warm = {}
    Traded = {q}
    Chunk = 6
    PageSize = 3
    SaveEvery = 1
    MaxVersion = 2
    MaxErrors = 1
    MaxRestarts = 0
PROPERTIES
    BuiltOnFreshReserves
