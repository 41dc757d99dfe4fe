--------------------------- MODULE MCTaskRunner ---------------------------
(* TaskRunner for TLC: the threads and bounds are in the configurations.   *)
EXTENDS TaskRunner
=============================================================================
