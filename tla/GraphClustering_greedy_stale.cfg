CONSTANTS
    N <- MC_N
    MaxRet <- MC_MaxRet
    NDEBUG = FALSE
    EnableMultiGraph = FALSE
    HasValidateFn = TRUE
    Algos = {"greedy"}
SPECIFICATION GSpec
INVARIANTS
    GreedyCoversMost
