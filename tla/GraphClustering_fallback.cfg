CONSTANTS
    N <- MC_N
    MaxRet <- MC_MaxRet
    NDEBUG = FALSE
    EnableMultiGraph = TRUE
    HasValidateFn = TRUE
    Algos = {"fallback"}
SPECIFICATION GSpec
INVARIANTS
    DataflowPreserved
    NoAssertionFailure
