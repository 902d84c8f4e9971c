SPECIFICATION Spec
CONSTANTS
    Commands <- MCHost
    Bench = TRUE
    Brushed = FALSE
    HoldTicks = 2
    CalSamples = 1
CONSTRAINT MCStatuses
INVARIANTS
    ClosedOnlyWhenEnabled
    TripHoldsOff
    AlignOwnsDrive
    OpenOnlyWhenAligning
