CONSTANTS
    N <- MC_N
    NDEBUG = TRUE
    EnableMultiGraph = TRUE
    HasValidateFn = FALSE
SPECIFICATION DSpec
INVARIANT DefsBeforeUses
