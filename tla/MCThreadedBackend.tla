------------------------- MODULE MCThreadedBackend -------------------------
(***************************************************************************)
(* Model checking of ThreadedBackend on small instances.                   *)
(***************************************************************************)
EXTENDS ThreadedBackend, TLC

EpisodeSymmetry == Permutations(Episodes)
============================================================================
