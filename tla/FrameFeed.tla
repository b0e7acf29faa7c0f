------------------------------ MODULE FrameFeed ------------------------------
(****************************************************************************)
(* What the virtual camera promises to an application, whatever the shared  *)
(* memory underneath does.  A producer publishes numbered frames; each      *)
(* viewer sees a picture whose pixels may come from different frames (the   *)
(* driver does not promise whole frames), but                               *)
(*   - no pixel a viewer sees ever goes back to an earlier frame,           *)
(*   - every pixel is at least as new as the last frame that was complete   *)
(*     when the viewer began to take the picture, and                       *)
(*   - a viewer sees a blank picture or one made of published pixels only.  *)
(* FrameBuffer implements this specification.                               *)
(****************************************************************************)
EXTENDS Integers

CONSTANTS
  Viewers,    \* the applications' streams
  Pixels      \* the independently copied parts of a picture

VARIABLES
  published,  \* the number of frames whose publication has begun
  settled,    \* the newest frame that is complete, 0 if there is none
  floor,      \* per viewer: the frame that was settled when it last looked
  shown       \* per viewer: the frame each pixel of its picture comes from

feedVars == <<published, settled, floor, shown>>

Blank == [x \in Pixels |-> 0]

Init ==
  /\ published = 0
  /\ settled = 0
  /\ floor = [v \in Viewers |-> 0]
  /\ shown = [v \in Viewers |-> Blank]

(* The producer starts on the next frame. *)
Publish ==
  /\ published' = published + 1
  /\ UNCHANGED <<settled, floor, shown>>

(* The newest frame is complete. *)
Settle ==
  /\ settled' = published
  /\ UNCHANGED <<published, floor, shown>>

(* A viewer begins to take a new picture; there is something to take. *)
Look(v) ==
  /\ settled > 0
  /\ floor' = [floor EXCEPT ![v] = settled]
  /\ UNCHANGED <<published, settled, shown>>

(* A viewer shows a picture that is no older, anywhere, than what it showed *)
(* before and than what was settled when it looked.                         *)
Show(v) ==
  /\ floor[v] > 0
  /\ \E p \in [Pixels -> floor[v] .. published] :
       /\ \A x \in Pixels : shown[v][x] <= p[x]
       /\ shown' = [shown EXCEPT ![v] = p]
  /\ UNCHANGED <<published, settled, floor>>

Gone(v) == floor[v] = 0 /\ shown[v] = Blank

(* A viewer goes away; if it was the last, the frames may go with it. *)
Leave(v) ==
  /\ floor' = [floor EXCEPT ![v] = 0]
  /\ shown' = [shown EXCEPT ![v] = Blank]
  /\ \/ settled' = settled
     \/ settled' = 0 /\ \A u \in Viewers \ {v} : Gone(u)
  /\ UNCHANGED published

(* With nobody looking, the frames are lost with the memory they were in. *)
Lose ==
  /\ \A v \in Viewers : Gone(v)
  /\ settled' = 0
  /\ UNCHANGED <<published, floor, shown>>

Next ==
  \/ Publish \/ Settle \/ Lose
  \/ \E v \in Viewers : Look(v) \/ Show(v) \/ Leave(v)

Spec == Init /\ [][Next]_feedVars
==============================================================================
