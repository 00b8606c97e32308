CONSTANTS
    NumFuncs <- MC_NumFuncs
    MaxOut <- MC_MaxOut
    MaxFuncs <- MC_MaxFuncs
SPECIFICATION DSpec
INVARIANTS
    ClusteredOnceInputsOnly
    FailureStopsPass
