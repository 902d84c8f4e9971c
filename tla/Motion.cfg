SPECIFICATION Spec
CONSTANTS
    Commands <- MCCommands
    Targets <- MCTargets
    Axis <- MCAxis
    Homes <- MCHomes
    Turn = 3
INVARIANTS
    TypeOK
PROPERTIES
    HaltHolds
    DemandNeverJumps
    AnchorFrozen
