SPECIFICATION Spec
CONSTANTS
    LutSteps = 1
    AllSteps = 5
    Needs <- MCNeeds
    Probed = {2}
    Repeatable = {3}
    Validity = 2
    Behind = 1
    MaxRounds = 6
    StaleRounds = 2
    MaxHeight = 5
INVARIANTS FinishedMeansLanded OneValidCopy
PROPERTIES BuildsStepwise LaunchEnds
