---------------------------- MODULE FrameRegister ----------------------------
(****************************************************************************)
(* What a channel between one producer and one consumer of frames promises: *)
(* it is a register.  A write replaces the frame in it at one instant; a    *)
(* read returns the frame that is in it at one instant, descriptor and      *)
(* payload of the same frame, and only if it is not the one read before.    *)
(* IpcChannel implements this specification until a fault disturbs it.      *)
(****************************************************************************)
EXTENDS Integers

VARIABLES
  value,   \* the frame in the register, 0 before the first
  got      \* the frame the consumer read last, 0 before the first

registerVars == <<value, got>>

Init == value = 0 /\ got = 0

Write == value' > value /\ UNCHANGED got

Read == value # got /\ got' = value /\ UNCHANGED value

(* The consumer leaves and comes back, and knows of no frame. *)
Rejoin == got' = 0 /\ UNCHANGED value

(* A producer comes back while there is no consumer. *)
Reset == value' = 0 /\ UNCHANGED got

Next == Write \/ Read \/ Rejoin \/ Reset

Spec == Init /\ [][Next]_registerVars
==============================================================================
