--------------------- MODULE MC_DeviceClusteringLive ---------------------
(* DeviceClustering for liveness checking: both strategies on every      *)
(* dependency graph of three ops and every host choice.                  *)
EXTENDS DeviceClustering

MC_N == 3
=============================================================================
