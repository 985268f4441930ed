SPECIFICATION Spec
CONSTANTS
    Wad = 100
    U64Max = 1
    I64Max = 1000000
    I128Max = 2000000000
    p = p
    q = q
    r = r
    NumEntries = 2
    Pools = {p, q}
    PumpPools = {q}
    Foreign = {}
    Tables <- TwoSlots
    MaxTables = 1
    Reserves <- LiveReserves
    MinBaseReserve = 100
    InitLayouts = {"cpswap", "pumpswap"}
    InitAggregate = 100
    Migrated = TRUE
INVARIANTS
    SeededHookWorks
