SPECIFICATION Spec
CONSTANTS
    Word <- MCWord
    Payload <- MCPayload
    Zero = "0"
    MayFail = {}
    MaxSeq = 2
INVARIANTS
    CleanMeansSaved
