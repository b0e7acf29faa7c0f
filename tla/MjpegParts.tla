----------------------------- MODULE MjpegParts ------------------------------
(****************************************************************************)
(* The multipart stream of MjpegServer.kt as its readers see it, cut into   *)
(* pieces small enough to show every place a recv() can end at that matters *)
(* to them: inside the boundary, inside "\r\n", after each part header and  *)
(* inside the JPEG data.  The boundary "--boundary" is three pieces; the    *)
(* part header between its line ends is the piece <<"length", n>>; the JPEG *)
(* data of frame f is the pieces <<"jpeg", f, 1>> ... <<"jpeg", f, n>>, in  *)
(* which the boundary does not occur.                                       *)
(****************************************************************************)
EXTENDS Integers, Sequences, SequencesExt, FiniteSetsExt

CR == <<"cr">>
LF == <<"lf">>
CRLF == <<CR, LF>>
Boundary == << <<"b1">>, <<"b2">>, <<"b3">> >>
EndMark == <<"--">>                 \* the "--" that ends a stream
Preamble == <<"http">>              \* the response headers up to "boundary="

IsLength(p) == p[1] = "length"
Jpeg(f, n) == [k \in 1 .. n |-> <<"jpeg", f, k>>]

(* What broadcast writes for frame f, whose data is n pieces long. *)
Part(f, n) == Boundary \o CRLF \o << <<"length", n>> >> \o CRLF \o CRLF
                \o Jpeg(f, n) \o CRLF

(* The stream of frames 1, 2, ... of the given sizes. *)
Parts(sizes) == FlattenSeq([f \in 1 .. Len(sizes) |-> Part(f, sizes[f])])

(* The sum of weight[1] ... weight[n]. *)
Total(weight, n) ==
  LET upTo[k \in 0 .. n] == IF k = 0 THEN 0 ELSE upTo[k - 1] + weight[k]
  IN  upTo[n]

(* Where the part of frame f begins and ends in Parts(sizes). *)
PartSize(n) == Len(Boundary) + 7 + n + 2
PartEnd(sizes, f) == Total([g \in DOMAIN sizes |-> PartSize(sizes[g])], f)
PartStart(sizes, f) == PartEnd(sizes, f - 1) + 1

------------------------------------------------------------------------------
(* What both readers do with a buffer *)

HoldsAt(b, i, pattern) ==
  i + Len(pattern) - 1 <= Len(b)
  /\ SubSeq(b, i, i + Len(pattern) - 1) = pattern

(* std::search and memmem, from position i on: a position, or 0 for none. *)
Search(b, i, pattern) ==
  LET found == {k \in i .. Len(b) : HoldsAt(b, k, pattern)}
  IN  IF found = {} THEN 0 ELSE Min(found)

SkipCRLF(b, i) == IF HoldsAt(b, i, CRLF) THEN i + 2 ELSE i

(* Where the part headers that follow the boundary at i begin and end. *)
HeadStart(b, i) == SkipCRLF(b, i + Len(Boundary))
HeadEnd(b, i) == Search(b, HeadStart(b, i), CRLF \o CRLF)

(* Mutant: only one line end is skipped behind the headers. *)
BodyStart_OneLineEnd(b, i) == HeadEnd(b, i) + 2

BodyStart(b, i) == HeadEnd(b, i) + 4

(* Content-Length, the first there is; 0 if there is none. *)
ContentLength(b, i) ==
  LET lengths == {k \in HeadStart(b, i) .. HeadEnd(b, i) - 1 : IsLength(b[k])}
  IN  IF lengths = {} THEN 0 ELSE b[Min(lengths)][2]

EndsStream(b, i) == HoldsAt(b, i + Len(Boundary), <<EndMark>>)

(* The frame whose boundary is at i is there as a whole. *)
FrameReady(b, i) ==
  /\ HeadEnd(b, i) > 0
  /\ ContentLength(b, i) > 0
  /\ BodyStart(b, i) + ContentLength(b, i) - 1 <= Len(b)

Frame(b, i) ==
  SubSeq(b, BodyStart(b, i), BodyStart(b, i) + ContentLength(b, i) - 1)

(* The buffer without the frame at i and all that precedes it. *)
After(b, i) ==
  LET next == BodyStart(b, i) + ContentLength(b, i)
  IN  SubSeq(b, SkipCRLF(b, next), Len(b))
==============================================================================
