SPECIFICATION Spec
CONSTANTS
    Libraries <- MCLibraries
    Environments <- MCEnvironments
    kMaxTransfers = 11
    kDefaultMaxTransfers = 3
    kMaxStageTimeout = 20
    kDefaultStageTimeout = 5
    SIZE_MAX = 111
    INT64_MAX = 110
INVARIANTS
    NeverCallsNull
    
    
    DmabufsAreClosed
