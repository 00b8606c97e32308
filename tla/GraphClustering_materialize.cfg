CONSTANTS
    N <- MC_N
    MaxRet <- MC_MaxRet
    NDEBUG = FALSE
    EnableMultiGraph = TRUE
    HasValidateFn = TRUE
    Algos = {"top_down", "bottom_up", "greedy"}
SPECIFICATION GSpec
INVARIANTS
    UsesDominated
    DataflowPreserved
    DupOutputsDistinct
    FunctionsClosed
    NoAssertionFailure
