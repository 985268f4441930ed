SPECIFICATION FairSpec
CONSTANTS
    Wad = 100
    U64Max = 1
    I64Max = 1000000
    I128Max = 2000000000
    p = p
    q = q
    r = r
    NumEntries = 3
    Pools = {p, q, r}
    PumpPools = {q}
    Foreign = {}
    Tables <- ThreeSlots
    MaxTables = 2
    Reserves <- AllReserves
    MinBaseReserve = 100
    InitLayouts = {"none", "cpswap"}
    InitAggregate = 100
    Migrated = FALSE
INVARIANTS
    AggregateIsMedian
    SampleOfItsSlot
PROPERTIES
    SlotFollowsTable
    AggregateFollows
