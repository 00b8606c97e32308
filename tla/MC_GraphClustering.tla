-------------------------- MODULE MC_GraphClustering --------------------------
EXTENDS GraphClustering

\* Three ops already give a host op between a device op and its user, two
\* clusters, and a value returned twice.
MC_N == 3
MC_MaxRet == 2

=============================================================================
