SPECIFICATION Spec
CONSTANTS
    Signals <- MCSignals
INVARIANTS
    TypeOK
    NearItsBand
PROPERTIES
    AccelLimited
    StopEnds
    TrainAlternates
