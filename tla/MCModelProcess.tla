--------------------------- MODULE MCModelProcess ---------------------------
(* ModelProcess for TLC: everything is small enough to take as it is.      *)
EXTENDS ModelProcess
============================================================================
