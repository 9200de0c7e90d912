------------------------- MODULE MCWorkerScheduler -------------------------
(* WorkerScheduler for TLC: everything is small enough to take as it is.   *)
EXTENDS WorkerScheduler
============================================================================
