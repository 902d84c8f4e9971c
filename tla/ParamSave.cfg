SPECIFICATION Spec
CONSTANTS
    Table <- MCTable
    BlobMax = 5
    MaxValue = 1
    Patient = TRUE
INVARIANTS
    SavedWhenClean
    CalibratedMeansMeasured
PROPERTIES
    UsesDurableRegister
