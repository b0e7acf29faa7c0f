----------------------------- MODULE MjpegParser -----------------------------
(****************************************************************************)
(* The two readers that cut the phone's byte stream into frames: the loop   *)
(* of the bridge thread (mjpeg_bridge.cpp), which handles all the frames in *)
(* its buffer after each recv(), and the shared library's parser            *)
(* (mjpeg_parser.c), whose caller feeds it bytes and gets at most one frame *)
(* back per call.  Bytes are counted in pieces (see MjpegParts), the 4 MB   *)
(* limit of the bridge too.                                                 *)
(****************************************************************************)
EXTENDS MjpegParts

CONSTANTS
  Sizes,     \* the sizes of the frames the phone sends, one choice of them
  MaxChunk,  \* bound: the most recv() returns
  Limit      \* the size of the bridge's buffer above which it is emptied

ASSUME SizesAssumption == \A s \in Sizes : s \in Seq(Nat \ {0})
ASSUME LimitAssumption == Limit \in Nat /\ MaxChunk \in 1 .. Limit

VARIABLES
  reader,    \* "bridge" or "library"
  sizes,     \* the sizes of the frames in this stream
  headed,    \* the HTTP response headers are part of what is read
  endMarked, \* an end-of-stream marker follows the frames
  read,      \* how much of the stream was received
  pc,        \* "recv", "parse" or "exit"; the library is called in "recv"
  buf,       \* buf, or the first p->buf_len pieces of p->buf
  frames,    \* the frames handed to the decoder or to the caller
  dropped    \* history: how much was received when the bridge emptied buf

streamVars == <<reader, sizes, headed, endMarked>>
vars == <<streamVars, read, pc, buf, frames, dropped>>

ResponseHead == IF headed THEN <<Preamble>> \o Boundary \o CRLF \o CRLF ELSE <<>>
Stream == ResponseHead \o Parts(sizes)
            \o IF endMarked THEN Boundary \o <<EndMark>> ELSE <<>>
ToCome == Len(Stream) - read
Chunk(n) == SubSeq(Stream, read + 1, read + n)

(* The bridge reads the response headers before it enters the loop. *)
Init ==
  /\ reader \in {"bridge", "library"}
  /\ sizes \in Sizes /\ endMarked \in BOOLEAN
  /\ headed \in IF reader = "bridge" THEN {FALSE} ELSE BOOLEAN
  /\ read = 0 /\ dropped = 0
  /\ pc = "recv"
  /\ buf = <<>> /\ frames = <<>>

(* The first boundary in a buffer, or 0. *)
Marker(b) == Search(b, 1, Boundary)

(* What stands in b is not yet a frame, nor the end. *)
NeedMore(b) ==
  Marker(b) > 0 => ~EndsStream(b, Marker(b)) /\ ~FrameReady(b, Marker(b))
Ends(b) == Marker(b) > 0 /\ EndsStream(b, Marker(b))
Ready(b) ==
  Marker(b) > 0 /\ ~EndsStream(b, Marker(b)) /\ FrameReady(b, Marker(b))

------------------------------------------------------------------------------
(* The bridge *)

(* Mutant: the chunk is inserted at the front. *)
Recv_Front(n) ==
  /\ reader = "bridge" /\ pc = "recv"
  /\ read' = read + n
  /\ pc' = "parse"
  /\ buf' = Chunk(n) \o buf
  /\ UNCHANGED <<streamVars, frames, dropped>>

(* recv() returns n > 0; an overflow of the buffer empties it. *)
Recv(n) ==
  /\ reader = "bridge" /\ pc = "recv"
  /\ read' = read + n
  /\ pc' = "parse"
  /\ LET more == buf \o Chunk(n)
     IN  IF Len(more) > Limit
         THEN buf' = <<>> /\ dropped' = read + n
         ELSE buf' = more /\ UNCHANGED dropped
  /\ UNCHANGED <<streamVars, frames>>

(* recv() returns 0 or an error: the phone is gone. *)
RecvEnds ==
  /\ reader = "bridge" /\ pc = "recv"
  /\ pc' = "exit"
  /\ UNCHANGED <<streamVars, read, buf, frames, dropped>>

(* Mutant: without a whole boundary the buffer is emptied. *)
ParseWait_Discards ==
  /\ pc = "parse" /\ NeedMore(buf)
  /\ buf' = IF Marker(buf) = 0 THEN <<>> ELSE buf
  /\ pc' = "recv"
  /\ UNCHANGED <<streamVars, read, frames, dropped>>

(* No boundary, or no whole frame behind it: more data is needed. *)
ParseWait ==
  /\ pc = "parse" /\ NeedMore(buf)
  /\ pc' = "recv"
  /\ UNCHANGED <<streamVars, read, buf, frames, dropped>>

(* The end-of-stream marker. *)
ParseEnd ==
  /\ pc = "parse" /\ Ends(buf)
  /\ buf' = <<>>
  /\ pc' = "exit"
  /\ UNCHANGED <<streamVars, read, frames, dropped>>

(* A frame is decoded and taken off the buffer. *)
ParseFrame ==
  /\ pc = "parse" /\ Ready(buf)
  /\ frames' = Append(frames, Frame(buf, Marker(buf)))
  /\ buf' = After(buf, Marker(buf))
  /\ UNCHANGED <<streamVars, read, pc, dropped>>

------------------------------------------------------------------------------
(* The library: gvcam_mjpeg_feed.  Its while loop returns in the first      *)
(* round, whatever it finds; b is the buffer with the new bytes.            *)

(* The length in bytes: boundary_len is 10, a piece <<"length", n>> and the *)
(* pieces of JPEG data and of response headers are longer than any bound.   *)
Bytes(p) ==
  CASE p \in {CR, LF} -> 1
    [] p = EndMark -> 2
    [] p \in {Boundary[1], Boundary[3]} -> 3
    [] p = Boundary[2] -> 4
    [] OTHER -> 40
ByteLen(b) == Total([k \in DOMAIN b |-> Bytes(b[k])], Len(b))
Short(b) == ByteLen(b) <= ByteLen(Boundary) + 4

(* Mutant: what may be the beginning of a boundary is thrown away at once. *)
KeepShort_Discards(b) ==
  Short(b) /\ buf' = (IF Marker(b) = 0 THEN <<>> ELSE b) /\ UNCHANGED <<pc, frames>>

KeepShort(b) == Short(b) /\ buf' = b /\ UNCHANGED <<pc, frames>>

Discard(b) ==
  ~Short(b) /\ Marker(b) = 0 /\ buf' = <<>> /\ UNCHANGED <<pc, frames>>

(* -1 is returned, and the caller gives up. *)
End(b) ==
  ~Short(b) /\ Ends(b) /\ buf' = <<>> /\ pc' = "exit" /\ UNCHANGED frames

KeepPart(b) ==
  /\ ~Short(b) /\ Marker(b) > 0 /\ NeedMore(b)
  /\ buf' = b /\ UNCHANGED <<pc, frames>>

(* Mutant: the bytes behind the frame are forgotten. *)
Extract_ForgetsRest(b) ==
  /\ ~Short(b) /\ Ready(b)
  /\ frames' = Append(frames, Frame(b, Marker(b)))
  /\ buf' = <<>> /\ UNCHANGED pc

Extract(b) ==
  /\ ~Short(b) /\ Ready(b)
  /\ frames' = Append(frames, Frame(b, Marker(b)))
  /\ buf' = After(b, Marker(b)) /\ UNCHANGED pc

(* Memory is short: for the buffer, which stays without the new bytes, for  *)
(* the text of the part headers or for the frame.  -1 is returned as at the *)
(* end of the stream.                                                       *)
NoMemory(b) ==
  /\ \/ buf' = buf
     \/ ~Short(b) /\ Marker(b) > 0 /\ ~Ends(b) /\ HeadEnd(b, Marker(b)) > 0 /\ buf' = b
  /\ pc' = "exit" /\ UNCHANGED frames

(* The caller feeds the next n pieces of the stream, or none. *)
Feed(n) ==
  /\ reader = "library" /\ pc = "recv"
  /\ read' = read + n
  /\ UNCHANGED <<streamVars, dropped>>
  /\ LET b == buf \o Chunk(n)
     IN  \/ KeepShort(b) \/ Discard(b) \/ End(b) \/ KeepPart(b)
         \/ Extract(b) \/ NoMemory(b)

Next ==
  \/ \E n \in 1 .. Min({MaxChunk, ToCome}) : Recv(n)
  \/ RecvEnds \/ ParseWait \/ ParseEnd \/ ParseFrame
  \/ \E n \in 0 .. ToCome : Feed(n)

Spec == Init /\ [][Next]_vars

------------------------------------------------------------------------------
(* Properties *)

TypeOK ==
  /\ reader \in {"bridge", "library"} /\ sizes \in Sizes
  /\ headed \in BOOLEAN /\ endMarked \in BOOLEAN
  /\ read \in 0 .. Len(Stream) /\ dropped \in 0 .. read
  /\ pc \in {"recv", "parse", "exit"}
  /\ pc # "exit" => \E k \in 0 .. read : buf = SubSeq(Stream, k + 1, read)
  /\ frames \in Seq({Jpeg(f, sizes[f]) : f \in DOMAIN sizes})

FrameNumber(jpeg) == jpeg[1][2]

(* However the stream is cut into chunks, and wherever the buffer was       *)
(* emptied, the frames decoded are the frames sent, whole and in order.     *)
FramesWholeInOrder ==
  /\ \A i \in DOMAIN frames :
       \E f \in DOMAIN sizes : frames[i] = Jpeg(f, sizes[f])
  /\ \A i \in 2 .. Len(frames) :
       FrameNumber(frames[i - 1]) < FrameNumber(frames[i])

(* When the bridge waits for data, every frame that was received since its  *)
(* buffer was last emptied has been decoded: no frame waits for the next,   *)
(* none is lost to the way it was cut, and an overflow costs only the       *)
(* frames that it hits.                                                     *)
Arrived ==
  {f \in DOMAIN sizes :
     dropped < PartStart(sizes, f) /\ PartEnd(sizes, f) - 2 <= read}
ArrivedFramesDecoded ==
  reader = "bridge" /\ pc = "recv" =>
    \A f \in Arrived : \E i \in DOMAIN frames : FrameNumber(frames[i]) = f

(* The frames the library returns are consecutive frames of the stream: a   *)
(* call that returns a frame keeps what belongs to the next ones.  Fed with *)
(* the response headers too, the parser may miss frames, because it throws  *)
(* away the beginning of a boundary that ends in the next call, but it does *)
(* so only before its first frame.                                          *)
InStepFromFirstFrame ==
  reader = "library" /\ frames # <<>> =>
    \E skipped \in 0 .. Len(sizes) - Len(frames) :
      /\ ~headed => skipped = 0
      /\ \A i \in DOMAIN frames : FrameNumber(frames[i]) = skipped + i

(* Until the end of the stream, a frame that was not returned is still in   *)
(* the buffer or still to come: the buffer reaches back to its boundary.    *)
NothingLost ==
  LET next == Len(frames) + 1
  IN  reader = "library" /\ ~headed /\ pc = "recv" /\ next \in DOMAIN sizes =>
        read - Len(buf) < PartStart(sizes, next)
==============================================================================
