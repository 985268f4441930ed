SPECIFICATION Spec
CONSTANTS
    Wad = 1000
    U64Max = 400
    I64Max = 1000000
    I128Max = 2000000000
    LMin = 20000
    LMax = 50000
    MaxMint = 800
    Breaker = 5000
    UserLeverages = {0}
    OracleKinds = {"none", "crawl"}
    QuoteLevels = {100, 200}
    PairLevels = {150}
    OraclePrices = {100}
    InitReserve = 100
    InitSupply = 300
    InitOracleLast = {0}
    MaxEvents = 2
INVARIANTS
    NoMoveNoMint
CHECK_DEADLOCK FALSE
