SPECIFICATION Spec
CONSTANTS
    Wad = 1000
    U64Max = 1000000
    I64Max = 1000000
    I128Max = 2000000000
    Readings = {0, 1, 2, 5, 8}
    Voters = 4
    LMin = 20000
    LMax = 50000
    MaxMint = 900
    Depths = {40, 90, 230}
    Moved = {900, 1150}
    CycleFee = 25
    Wsol = "SOL"
    Usdc = "USDC"
    Token = "T"
    FluxDepths = {60, 200, 350}
    Swaps = {3, 40}
INVARIANTS
    MedianIsExact
    CrankOpensNoGap
    SearchNearBest
    GreedyRouteIsBest
    ArbIsReal
