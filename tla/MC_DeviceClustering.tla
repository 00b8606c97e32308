------------------------ MODULE MC_DeviceClustering ------------------------
(* Model-checking instance of DeviceClustering: both directed strategies *)
(* on every dependency graph of MC_N ops and every choice of host ops.   *)
EXTENDS DeviceClustering

MC_N == 4
=============================================================================
