------------------------- MODULE MCRealtimeRuntime -------------------------
(* RealtimeRuntime for TLC: everything is small enough to take as it is.   *)
EXTENDS RealtimeRuntime
============================================================================
