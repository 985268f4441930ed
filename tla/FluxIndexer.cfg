SPECIFICATION FairIndexSpec
CONSTANTS
    h = h
    p = p
    AllPools <- TwoPools
    Hooked = {h}
    Seeds = {h}
    Warm = {p}
    Traded = {h, p}
    Chunk = 2
    PageSize = 1
    SaveEvery = 1
    MaxVersion = 2
    MaxErrors = 1
    MaxRestarts = 1
INVARIANTS
    ReservesOfOneSlot
    FullScanIsFull
PROPERTIES
    IndexCatchesUp
