CONSTANTS
    N <- MC_N
    NDEBUG = FALSE
    EnableMultiGraph = TRUE
    HasValidateFn = TRUE
SPECIFICATION DSpec
INVARIANTS
    DTypeOK
    CandidatesCoverDeviceOps
    EmittedClustersConvex
