---------------------------- MODULE MCIpcChannel -----------------------------
(* IpcChannel on small instances. *)
EXTENDS IpcChannel
==============================================================================
