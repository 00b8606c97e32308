CONSTANTS
    N <- MC_N
    NDEBUG = FALSE
SPECIFICATION Spec
INVARIANTS
    TypeOK
    DefsBeforeUses
    ClustersContiguous
    UnionFindPartition
    NoAssertionFailure
