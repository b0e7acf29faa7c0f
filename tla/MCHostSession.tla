---------------------------- MODULE MCHostSession ----------------------------
(* HostSession on small instances. *)
EXTENDS HostSession
==============================================================================
