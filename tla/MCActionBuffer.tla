--------------------------- MODULE MCActionBuffer ---------------------------
(***************************************************************************)
(* Model checking of ActionBuffer on a small instance.                     *)
(***************************************************************************)
EXTENDS ActionBuffer, TLC

EpisodeSymmetry == Permutations(Episodes)
============================================================================
