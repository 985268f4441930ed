SPECIFICATION Spec
CONSTANTS
    Wad = 1000
    U64Max = 1000000
    I64Max = 1000000
    I128Max = 2000000000
    Fee = 25
    MinProfit = 2
    Floor = 10
    MaxTries = 2
    Starts = {40}
    Quotes = {115}
    Extras = {1}
    Band <- MCBand
    Markets <- MCMarkets
    Basis0 = 1000
    Ratio0 = 1000
    Wallet0 <- MCWallet
    Underlying = {1000, 980, 960}
    TradeSizes = {120}
    Ticks = {t1, t2}
    MaxEvents = 2
INVARIANTS
    CrankIsPredicted
PROPERTIES
    LandedPays
    VenueBundlesKeepInventory
    TicksAdvance
CHECK_DEADLOCK FALSE
