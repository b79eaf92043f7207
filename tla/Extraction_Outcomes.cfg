SPECIFICATION Spec
CONSTANTS
    MaxAttempts = 4
    Inputs <- MCInputs
    Draws = {0, 500, 1000}
    Missing = Missing
INVARIANTS
    MockMeansWhatItSays
    EveryBrokenRuleOnce
    WaitsGrow
CHECK_DEADLOCK FALSE
