CONSTANTS
    N <- MC_N
    MaxRet <- MC_MaxRet
    NDEBUG = FALSE
    EnableMultiGraph = TRUE
    HasValidateFn = TRUE
    Algos = {"top_down"}
SPECIFICATION GSpec
INVARIANTS
    ExcludesHostClosure
