SPECIFICATION FairSpec
CONSTANTS
    n = n
    o = o
    Pairs = {n, o}
    Boot = {o}
    Oracles = {"none", "pumpswap"}
    Scripts = {"finish", "setup", "migrate"}
    MaxScripts = 2
    Symbol <- OneSymbol
    MaxPolls = 2
    MaxValue = 1
    Wallets = {"u"}
    Tokens = {"ray", "pump"}
    Quote = "usdc"
    Raydium = {"ray"}
    PumpSwap = {"ray", "pump"}
    MaxAsks = 2
    MaxOwned = 2
    Scenes <- AllScenes
INVARIANTS
    SetupRepairs
PROPERTIES
    MigrateKeepsTransfers
    HistoryKept
    ListedAndCharted
    ReceiptSettles
    PageComesToRest
CHECK_DEADLOCK FALSE
