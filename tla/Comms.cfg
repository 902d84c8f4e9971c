SPECIFICATION Spec
CONSTANTS
    Div = 2
    Limit = 3
    MaxBusy = 3
    Bench = TRUE
    Entries <- MCEntries
    Mappable <- MCMappable
    Size <- MCSize
    MaxEntries = 2
    BlobMax = 3
    Versions = 2
    Disciplined = TRUE
INVARIANTS
    TypeOK
    SilenceStops
    LayoutValidated
PROPERTIES
    OnlySilenceStops
