----------------------- MODULE MC_ActiveDeviceCluster -----------------------
(* Model-checking instance of ActiveDeviceCluster: every dependency graph *)
(* of MC_N ops and every choice of host ops, with tryMerge called on any  *)
(* two root clusters.                                                      *)
EXTENDS ActiveDeviceCluster

MC_N == 4
=============================================================================
