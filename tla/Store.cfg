SPECIFICATION FairSpec
CONSTANTS
    Word <- MCWord
    Payload <- MCPayload
    Zero = "0"
    MayFail = {"save", "reset"}
    MaxSeq = 3
INVARIANTS
    TypeOK
    GoodCopyKept
    NoMixedRecord
PROPERTIES
    SeqNeverGoesBack
    SaveEventuallyCommits
    ImplementsDurableRegister
