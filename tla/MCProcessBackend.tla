-------------------------- MODULE MCProcessBackend --------------------------
(***************************************************************************)
(* Model checking of ProcessBackend on small instances.                    *)
(***************************************************************************)
EXTENDS ProcessBackend, TLC

EpisodeSymmetry == Permutations(Episodes)
============================================================================
