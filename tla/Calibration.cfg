SPECIFICATION CalSpec
CONSTANTS
    Commands <- MCFollow
    Bench = FALSE
    Brushed = FALSE
    HoldTicks = 1
    CalSamples = 2
    CalCommands = {"align", "offset", "zero"}
    Patient = FALSE
INVARIANTS
    CalTypeOK
    BlindOnlyWhenOff
PROPERTIES
    ImplementsDrive
