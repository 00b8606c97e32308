---------------------- MODULE MC_GraphClusteringGreedy ----------------------
EXTENDS GraphClustering

\* Four ops: the smallest function where the two clones and the original
\* can coalesce into clusters of different sizes.  The terminator returns
\* nothing, since greedy's choice does not depend on it.
MC_N == 4
MC_MaxRet == 0

=============================================================================
