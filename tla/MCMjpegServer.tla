---------------------------- MODULE MCMjpegServer ----------------------------
(* MjpegServer on small instances. *)
EXTENDS MjpegServer, TLC

(* Clients are interchangeable. *)
ClientSymmetry == Permutations(Clients)
==============================================================================
