SPECIFICATION CalFairSpec
CONSTANTS
    Commands <- MCResets
    Bench = FALSE
    Brushed = FALSE
    HoldTicks = 1
    CalSamples = 1
    CalCommands = {"align", "offset", "zero"}
    Patient = TRUE
INVARIANTS
    PatientHostServed
PROPERTIES
    OffsetsSaved
    OffsetAnswered
    AlignEnds
    ResetWorks
    TripEndsByReset
