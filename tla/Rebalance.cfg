SPECIFICATION FairSpec
CONSTANTS
    Wad = 1000
    U64Max = 1000
    I64Max = 1000000
    I128Max = 2000000000
    LMin = 20000
    LMax = 50000
    MaxMint = 400
    Breaker = 5000
    UserLeverages = {0, 30000}
    OracleKinds = {"none", "pumpswap", "crawl"}
    QuoteLevels = {98, 100, 200}
    PairLevels = {50}
    OraclePrices = {40000, 130000}
    InitReserve = 100
    InitSupply = 300
    InitOracleLast = {41000}
    MaxEvents = 1
PROPERTIES
    MintIsCapped
    BreakerStopsMint
    BasesNeverOvershoot
    LoserCheapens
    BreakerReleases
    OracleBasisSettles
CHECK_DEADLOCK FALSE
