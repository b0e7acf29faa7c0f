---------------------------- MODULE MCMediaSource ----------------------------
(* MediaSource with a few threads. *)
EXTENDS MediaSource, TLC

CONSTANTS t1, t2, t3
Symmetry == Permutations(Callers)
==============================================================================
