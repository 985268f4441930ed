SPECIFICATION PairsSpec
CONSTANTS
    Pairs = {n}
    Boot = {}
    Oracles = {"none", "pumpswap"}
    Scripts = {"setup"}
    MaxScripts = 1
INVARIANTS SetUpPairTransfers
CHECK_DEADLOCK FALSE
