SPECIFICATION Spec
CONSTANTS
    Commands <- MCFollow
    Bench = FALSE
    Brushed = FALSE
    HoldTicks = 0
    CalSamples = 1
INVARIANTS
    SafeOffClearsMoe
