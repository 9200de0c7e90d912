-------------------------- MODULE MCVirtualRuntime --------------------------
(***************************************************************************)
(* VirtualRuntime for TLC.  A period of two units lets latencies and       *)
(* intervals fall between two ticks; the horizon of four periods is        *)
(* shorter than the chunk, and a latency of nine outlasts it.  The         *)
(* interval of five decides the supply criterion for the latency of three. *)
(* Fourteen ticks are enough for a window of two to fill and forget.       *)
(***************************************************************************)
EXTENDS VirtualRuntime

AllSchedulers == {"sync", "fixed_async", "adaptive_async"}
============================================================================
