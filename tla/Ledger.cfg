SPECIFICATION Spec
CONSTANTS
    U64Max = 10
    FeeBps = 2500
    SharedFeeVault = FALSE
    LpAmounts = {1, 2}
    QuoteAmounts = {1, 4}
    SynthCaps = {2}
    CrankMints = {0, 1}
    SlippageBps = 100
    InitReserve = 3
    InitPurse = 5
INVARIANTS
    ReceiptsBacked
    ExitOpen
    PoolNeverEmptied
    QuoteConserved
    FreshDepositLands
PROPERTIES
    LpNeverDiluted
    VaultPromise
CHECK_DEADLOCK FALSE
