CONSTANTS
    N <- MC_N
    NDEBUG = FALSE
    EnableMultiGraph = TRUE
    HasValidateFn = TRUE
SPECIFICATION DFairSpec
PROPERTY
    ClusteringTerminates
