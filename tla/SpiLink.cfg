SPECIFICATION SpiFairSpec
CONSTANTS
    MaxRequests = 2
    MaxErrors = 2
    Gapped = TRUE
INVARIANTS
    AppliesWhatItValidated
    ErrorMeansNotExecuted
PROPERTIES
    ImplementsRequestReply
    ReplyArrives
