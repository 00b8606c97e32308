CONSTANTS
    N <- MC_N
    NDEBUG = FALSE
SPECIFICATION Spec
PROPERTY RefinesClusterLayout
