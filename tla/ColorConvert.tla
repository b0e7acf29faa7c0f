---------------------------- MODULE ColorConvert -----------------------------
(****************************************************************************)
(* The conversion of a decoded picture into the pixel format of a frame     *)
(* (color_convert.c), pixel by pixel, and the size of the buffer it goes to *)
(* (frame.c).  The buffer is followed by offset: what is stored there is    *)
(* named by its plane and its pixel; its value is followed for the pixel    *)
(* that is being converted, which has any of some colours.                  *)
(****************************************************************************)
EXTENDS Integers

CONSTANTS
  Sizes,    \* the sizes of pictures, as <<width, height>>, all even: with
            \* odd ones the chroma planes do not fit the buffer
  Colours   \* the colours of pixels, as <<blue, green, red>>

Bytes == 0 .. 255

Even == {n \in Nat \ {0} : n % 2 = 0}

ASSUME SizesAssumption == \A size \in Sizes : size[1] \in Even /\ size[2] \in Even
ASSUME ColoursAssumption == Colours \subseteq (Bytes \X Bytes \X Bytes)

VARIABLES
  fmt,      \* the pixel format
  w, h,     \* the size of the picture
  row, col, \* the pixel that comes next
  dst,      \* what is stored at the offsets that were written
  read,     \* the pixels that were read last
  stored    \* what was stored last: plane, colour, the value before it is cut

vars == <<fmt, w, h, row, col, dst, read, stored>>

(* gvcam_frame_buffer_size *)
gvcam_frame_buffer_size(width, height, format) ==
  CASE format \in {"NV12", "I420"} -> (width * height * 3) \div 2
    [] format = "YUY2" -> width * height * 2
    [] format = "BGR" -> width * height * 3
    [] OTHER -> 0

(* A number that is no format gets -1 and no buffer. *)
Formats == {"NV12", "YUY2", "I420", "BGR", "other"}

Init ==
  /\ fmt \in Formats
  /\ \E size \in Sizes : w = size[1] /\ h = size[2]
  /\ row = 0 /\ col = 0
  /\ dst = <<>>
  /\ read = {} /\ stored = {}

(* Integer arithmetic on a colour.  >> 8 rounds down, as \div does. *)
Luma(c) == (66 * c[3] + 129 * c[2] + 25 * c[1] + 128) \div 256

(* Mutant: the blue weight of U is one of full-range video. *)
ChromaU_FullSwing(c) == (-38 * c[3] - 74 * c[2] + 129 * c[1] + 128) \div 256

ChromaU(c) == (-38 * c[3] - 74 * c[2] + 112 * c[1] + 128) \div 256
ChromaV(c) == (112 * c[3] - 94 * c[2] - 18 * c[1] + 128) \div 256

U(c) == <<"U", c, ChromaU(c) + 128>>
V(c) == <<"V", c, ChromaV(c) + 128>>

Mean(c, d) == [i \in 1 .. 3 |-> (c[i] + d[i]) \div 2]

(* The loop goes on in the next column of the row, or with the next row. *)
Advance(by) ==
  IF col + by < w THEN col' = col + by /\ row' = row
                  ELSE col' = 0 /\ row' = row + 1

Chroma == row % 2 = 0 /\ col % 2 = 0

Write(samples) ==
  dst' = [o \in DOMAIN samples \union DOMAIN dst |->
            IF o \in DOMAIN samples THEN samples[o] ELSE dst[o]]

(* One pixel of a format with planes: Y, and U and V of every fourth pixel, *)
(* which go to the offsets u and v behind the Y plane.                      *)
Planar(c, u, v) ==
  LET y == row * w + col
      plane(o) == IF o = y THEN "Y" ELSE IF o = w * h + v THEN "V" ELSE "U"
  IN  /\ row < h
      /\ Write([o \in IF Chroma THEN {y, w * h + u, w * h + v} ELSE {y} |->
                  <<plane(o), row, col>>])
      /\ stored' = IF Chroma THEN {<<"Y", c, Luma(c)>>, U(c), V(c)}
                             ELSE {<<"Y", c, Luma(c)>>}
      /\ read' = {<<row, col>>}
      /\ Advance(1)
      /\ UNCHANGED <<fmt, w, h>>

Quarter == (row \div 2) * (w \div 2) + col \div 2

(* Mutant: V is written over U. *)
ConvertNV12_OneByte(c) == fmt = "NV12" /\ Planar(c, 2 * Quarter, 2 * Quarter)

(* gvcam_bgr_to_nv12: one plane for U and V, interleaved. *)
ConvertNV12(c) == fmt = "NV12" /\ Planar(c, 2 * Quarter, 2 * Quarter + 1)

(* gvcam_bgr_to_i420: a plane each. *)
ConvertI420(c) == fmt = "I420" /\ Planar(c, Quarter, (w * h) \div 4 + Quarter)

(* Two pixels of gvcam_bgr_to_yuy2: Y0 U Y1 V. *)
ConvertYUY2(c, d) ==
  LET o == row * w * 2 + col * 2
      m == Mean(c, d)
  IN  /\ fmt = "YUY2" /\ row < h
      /\ Write([p \in o .. o + 3 |->
                  <<<<"Y", "U", "Y", "V">>[p - o + 1], row,
                    IF p = o + 2 THEN col + 1 ELSE col>>])
      /\ stored' = {<<"Y", c, Luma(c)>>, U(m), <<"Y", d, Luma(d)>>, V(m)}
      /\ read' = {<<row, col>>, <<row, col + 1>>}
      /\ Advance(2)
      /\ UNCHANGED <<fmt, w, h>>

(* gvcam_bgr_convert to GVCAM_FMT_BGR: a memcpy. *)
CopyBGR ==
  /\ fmt = "BGR" /\ row = 0
  /\ Write([o \in 0 .. w * h * 3 - 1 |->
              <<<<"B", "G", "R">>[(o % 3) + 1], o \div (3 * w), (o \div 3) % w>>])
  /\ read' = (0 .. h - 1) \X (0 .. w - 1)
  /\ row' = h
  /\ UNCHANGED <<fmt, w, h, col, stored>>

Next ==
  \/ \E c \in Colours : ConvertNV12(c) \/ ConvertI420(c)
  \/ \E c, d \in Colours : ConvertYUY2(c, d)
  \/ CopyBGR

Spec == Init /\ [][Next]_vars

------------------------------------------------------------------------------
(* Properties *)

Done == row >= h

(* The sample of a plane for a pixel: Y for each; U and V for each two      *)
(* columns, and in the planar formats for each two rows.                    *)
Samples ==
  {<<"Y", i, j>> : i \in 0 .. h - 1, j \in 0 .. w - 1} \union
  {<<p, i, j>> : p \in {"U", "V"},
                 i \in {i \in 0 .. h - 1 : fmt = "YUY2" \/ i % 2 = 0},
                 j \in {j \in 0 .. w - 1 : j % 2 = 0}}

(* A conversion stays inside the picture and inside the buffer that         *)
(* gvcam_frame_buffer_size says a frame needs.  When it is done it has      *)
(* filled the buffer, and every sample of the picture is there: no planes   *)
(* that overlap, no holes that keep pixels of an earlier frame.             *)
FillsBuffer ==
  LET buffer == 0 .. gvcam_frame_buffer_size(w, h, fmt) - 1
  IN  /\ read \subseteq (0 .. h - 1) \X (0 .. w - 1)
      /\ DOMAIN dst \subseteq buffer
      /\ Done => /\ DOMAIN dst = buffer
                 /\ fmt # "BGR" => {dst[o] : o \in buffer} = Samples

(* What the sums of weights compute is the BT.601 of the comments, Y =      *)
(* 0.299 R + 0.587 G + 0.114 B and so on (color_convert.c:9-11), in studio  *)
(* swing but without the offset 16 of its luma: 219 steps of luma, 224 of   *)
(* chroma, each value off by no more than 1.  It is not the "full swing" of *)
(* the comment (:29), in which white is 255 and not 219.                    *)
Thousandths(plane, c) ==
  IF plane = "Y" THEN 299 * c[3] + 587 * c[2] + 114 * c[1]
  ELSE IF plane = "U" THEN -169 * c[3] - 331 * c[2] + 500 * c[1]
  ELSE 500 * c[3] - 419 * c[2] - 81 * c[1]
Swing(plane) == IF plane = "Y" THEN 219 ELSE 224
Off(plane) == IF plane = "Y" THEN 0 ELSE 128
SwingRange(plane) == IF plane = "Y" THEN 0 .. 219 ELSE 16 .. 240

InSwing(plane, c, v) ==
  /\ v \in SwingRange(plane)
  /\ 255000 * (v - Off(plane) - 1) <= Swing(plane) * Thousandths(plane, c)
  /\ Swing(plane) * Thousandths(plane, c) <= 255000 * (v - Off(plane) + 1)

(* Luma lies in 0..219 and chroma in 16..240, so neither is changed by      *)
(* being cut to a byte, and each is the formula's value of that pixel.      *)
StudioSwing == \A s \in stored : InSwing(s[1], s[2], s[3])
==============================================================================
