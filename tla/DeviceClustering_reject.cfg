CONSTANTS
    N <- MC_N
    NDEBUG = FALSE
    EnableMultiGraph = FALSE
    HasValidateFn = TRUE
SPECIFICATION DSpec
INVARIANT RejectedClusteringFails
