---------------------------- MODULE MCFrameBuffer ----------------------------
(* FrameBuffer on small instances. *)
EXTENDS FrameBuffer

CONSTANT MaxShared  \* bound: frames published while a mortal stream may be there

(* Later frames find the segment as such a stream has left it, and no other *)
(* one joins then.                                                          *)
SharedNext ==
  Next /\ (written' > MaxShared => \A r \in Mortal : pc'[r] = "closed")

SharedSpec == Init /\ [][SharedNext]_vars /\ ViewFairness
==============================================================================
