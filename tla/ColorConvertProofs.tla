------------------------- MODULE ColorConvertProofs --------------------------
(****************************************************************************)
(* Proofs about ColorConvert: the integer arithmetic of color_convert.c     *)
(* gives a byte for every colour there is, not only for those that TLC can  *)
(* try, and a conversion fills exactly its buffer for pictures of any even  *)
(* size.                                                                    *)
(****************************************************************************)
EXTENDS ColorConvert, TLAPS

Colour == Bytes \X Bytes \X Bytes

(* The weights of luma have the sum 220, and each is within 1/256 of its    *)
(* share of 219.                                                            *)
LEMMA LumaSwing ==
  ASSUME NEW b \in Bytes, NEW g \in Bytes, NEW r \in Bytes
  PROVE  /\ (66 * r + 129 * g + 25 * b + 128) \div 256 \in 0 .. 219
         /\ 255000 * ((66 * r + 129 * g + 25 * b + 128) \div 256 - 1)
              <= 219 * (299 * r + 587 * g + 114 * b)
         /\ 219 * (299 * r + 587 * g + 114 * b)
              <= 255000 * ((66 * r + 129 * g + 25 * b + 128) \div 256 + 1)
  BY DEF Bytes

(* Those of U and V have the sum 0, and the positive one is 112.            *)
LEMMA USwing ==
  ASSUME NEW b \in Bytes, NEW g \in Bytes, NEW r \in Bytes
  PROVE  /\ (-38 * r - 74 * g + 112 * b + 128) \div 256 + 128 \in 16 .. 240
         /\ 255000 * ((-38 * r - 74 * g + 112 * b + 128) \div 256 - 1)
              <= 224 * (-169 * r - 331 * g + 500 * b)
         /\ 224 * (-169 * r - 331 * g + 500 * b)
              <= 255000 * ((-38 * r - 74 * g + 112 * b + 128) \div 256 + 1)
  BY DEF Bytes

LEMMA VSwing ==
  ASSUME NEW b \in Bytes, NEW g \in Bytes, NEW r \in Bytes
  PROVE  /\ (112 * r - 94 * g - 18 * b + 128) \div 256 + 128 \in 16 .. 240
         /\ 255000 * ((112 * r - 94 * g - 18 * b + 128) \div 256 - 1)
              <= 224 * (500 * r - 419 * g - 81 * b)
         /\ 224 * (500 * r - 419 * g - 81 * b)
              <= 255000 * ((112 * r - 94 * g - 18 * b + 128) \div 256 + 1)
  BY DEF Bytes

(* Two colours have a mean. *)
LEMMA MeanRange ==
  ASSUME NEW c \in Colour, NEW d \in Colour
  PROVE  \A i \in 1 .. 3 : Mean(c, d)[i] \in Bytes
<1>1. \A i \in 1 .. 3 : c[i] \in Bytes /\ d[i] \in Bytes
  BY DEF Colour
<1>2. \A x, y \in Bytes : (x + y) \div 2 \in Bytes
  BY DEF Bytes
<1>3. QED
  BY <1>1, <1>2 DEF Mean

LEMMA ColourSwing ==
  ASSUME NEW c, \A i \in 1 .. 3 : c[i] \in Bytes
  PROVE  /\ InSwing("Y", c, Luma(c))
         /\ InSwing("U", c, ChromaU(c) + 128)
         /\ InSwing("V", c, ChromaV(c) + 128)
<1>1. c[1] \in Bytes /\ c[2] \in Bytes /\ c[3] \in Bytes
  OBVIOUS
<1>2. Luma(c) \in Int /\ ChromaU(c) \in Int /\ ChromaV(c) \in Int
  <2>1. \A b, g, r \in Bytes :
          /\ (66 * r + 129 * g + 25 * b + 128) \div 256 \in Int
          /\ (-38 * r - 74 * g + 112 * b + 128) \div 256 \in Int
          /\ (112 * r - 94 * g - 18 * b + 128) \div 256 \in Int
    BY DEF Bytes
  <2>2. QED
    BY <1>1, <2>1 DEF Luma, ChromaU, ChromaV
<1>3. InSwing("Y", c, Luma(c))
  <2>1. Swing("Y") = 219 /\ Off("Y") = 0 /\ SwingRange("Y") = 0 .. 219
    BY DEF Swing, Off, SwingRange
  <2>2. Thousandths("Y", c) = 299 * c[3] + 587 * c[2] + 114 * c[1]
    BY DEF Thousandths
  <2>3. /\ Luma(c) \in SwingRange("Y")
        /\ 255000 * (Luma(c) - 1) <= 219 * Thousandths("Y", c)
        /\ 219 * Thousandths("Y", c) <= 255000 * (Luma(c) + 1)
    BY <1>1, <2>1, <2>2, LumaSwing DEF Luma
  <2>4. Luma(c) - 0 = Luma(c)
    BY <1>2
  <2>5. QED
    BY <2>1, <2>2, <2>3, <2>4 DEF InSwing
<1>4. \A n \in Int : (n + 128) - 128 = n
  OBVIOUS
<1>5. InSwing("U", c, ChromaU(c) + 128)
  <2>1. Swing("U") = 224 /\ Off("U") = 128 /\ SwingRange("U") = 16 .. 240
    BY DEF Swing, Off, SwingRange
  <2>2. Thousandths("U", c) = -169 * c[3] - 331 * c[2] + 500 * c[1]
    BY DEF Thousandths
  <2>3. /\ ChromaU(c) + 128 \in SwingRange("U")
        /\ 255000 * (ChromaU(c) - 1) <= 224 * Thousandths("U", c)
        /\ 224 * Thousandths("U", c) <= 255000 * (ChromaU(c) + 1)
    BY <1>1, <2>1, <2>2, USwing DEF ChromaU
  <2>4. QED
    BY <1>2, <1>4, <2>1, <2>2, <2>3 DEF InSwing
<1>6. InSwing("V", c, ChromaV(c) + 128)
  <2>1. Swing("V") = 224 /\ Off("V") = 128 /\ SwingRange("V") = 16 .. 240
    BY DEF Swing, Off, SwingRange
  <2>2. Thousandths("V", c) = 500 * c[3] - 419 * c[2] - 81 * c[1]
    BY DEF Thousandths
  <2>3. /\ ChromaV(c) + 128 \in SwingRange("V")
        /\ 255000 * (ChromaV(c) - 1) <= 224 * Thousandths("V", c)
        /\ 224 * Thousandths("V", c) <= 255000 * (ChromaV(c) + 1)
    BY <1>1, <2>1, <2>2, VSwing DEF ChromaV
  <2>4. QED
    BY <1>2, <1>4, <2>1, <2>2, <2>3 DEF InSwing
<1>7. QED
  BY <1>3, <1>5, <1>6

(* Whatever the colour of a pixel, or of the two that YUY2 takes together,  *)
(* what is stored is BT.601 in studio swing, within 1, and needs no cut.    *)
THEOREM Fits == Spec => []StudioSwing
<1>1. Init => StudioSwing
  BY DEF Init, StudioSwing
<1>2. ASSUME StudioSwing, [Next]_vars
      PROVE  StudioSwing'
  <2>1. CASE UNCHANGED vars \/ CopyBGR
    BY <1>2, <2>1 DEF StudioSwing, vars, CopyBGR
  <2>2. ASSUME NEW c \in Colours, ConvertNV12(c) \/ ConvertI420(c)
        PROVE  StudioSwing'
    <3>1. /\ InSwing("Y", c, Luma(c))
          /\ InSwing("U", c, ChromaU(c) + 128)
          /\ InSwing("V", c, ChromaV(c) + 128)
      BY ColourSwing, ColoursAssumption
    <3>2. stored' \subseteq {<<"Y", c, Luma(c)>>, U(c), V(c)}
      BY <2>2 DEF ConvertNV12, ConvertI420, Planar
    <3>3. QED
      BY <3>1, <3>2 DEF StudioSwing, U, V
  <2>3. ASSUME NEW c \in Colours, NEW d \in Colours, ConvertYUY2(c, d)
        PROVE  StudioSwing'
    <3> DEFINE m == Mean(c, d)
    <3>1. c \in Colour /\ d \in Colour
      BY ColoursAssumption DEF Colour
    <3>2. InSwing("Y", c, Luma(c)) /\ InSwing("Y", d, Luma(d))
      BY <3>1, ColourSwing DEF Colour
    <3>3. InSwing("U", m, ChromaU(m) + 128) /\ InSwing("V", m, ChromaV(m) + 128)
      BY <3>1, MeanRange, ColourSwing
    <3>4. stored' = {<<"Y", c, Luma(c)>>, U(m), <<"Y", d, Luma(d)>>, V(m)}
      BY <2>3 DEF ConvertYUY2
    <3> HIDE DEF m
    <3>5. QED
      BY <3>2, <3>3, <3>4 DEF StudioSwing, U, V
  <2>4. QED
    BY <1>2, <2>1, <2>2, <2>3 DEF Next
<1>3. QED
  BY <1>1, <1>2, PTL DEF Spec

------------------------------------------------------------------------------
(* That a conversion fills its buffer depends on how far it is: the offsets *)
(* written are the first ones of each plane, as many as there are samples   *)
(* of the pixels behind it, and what they hold are these samples.           *)

Behind(i, j) == i < row \/ (i = row /\ j < col)

Positions ==
  /\ fmt \in {"NV12", "YUY2", "I420", "BGR", "other"}
  /\ w \in Even /\ h \in Even
  /\ row \in 0 .. h /\ col \in 0 .. w - 1
  /\ row = h => col = 0
  /\ fmt = "YUY2" => col % 2 = 0
  /\ fmt = "BGR" => row \in {0, h} /\ col = 0
  /\ fmt = "other" => row = 0 /\ col = 0
  /\ read \subseteq (0 .. h - 1) \X (0 .. w - 1)

(* The pixels behind, and those of them that have U and V in formats with   *)
(* planes.                                                                  *)
Pixels == row * w + col
Quarters ==
  IF row % 2 = 0 THEN (row \div 2) * (w \div 2) + (col + 1) \div 2
                 ELSE (row \div 2 + 1) * (w \div 2)

FirstOf(start, n) == start .. start + n - 1
Written ==
  CASE fmt = "NV12" -> FirstOf(0, Pixels) \union FirstOf(w * h, 2 * Quarters)
    [] fmt = "I420" -> FirstOf(0, Pixels) \union FirstOf(w * h, Quarters)
                         \union FirstOf(w * h + (w * h) \div 4, Quarters)
    [] fmt = "YUY2" -> FirstOf(0, 2 * Pixels)
    [] fmt = "BGR" -> IF row = 0 THEN {} ELSE FirstOf(0, w * h * 3)
    [] fmt = "other" -> {}

Offsets == DOMAIN dst = Written
Values ==
  fmt # "BGR" =>
    {dst[o] : o \in DOMAIN dst} = {s \in Samples : Behind(s[2], s[3])}

IInv == Positions /\ Offsets /\ Values

(* What the provers need to know of products. *)
LEMMA Products ==
  /\ \A a, b \in Nat : a * b \in Nat
  /\ \A a, b \in Nat : (2 * a) * (2 * b) = 4 * (a * b)
  /\ \A a, b \in Nat : (a + 1) * b = a * b + b
  /\ \A a, b, c \in Nat : a <= b => a * c <= b * c
  OBVIOUS

(* A picture of even size has whole squares of four pixels. *)
LEMMA Sides ==
  ASSUME Positions
  PROVE  /\ w \div 2 \in Nat \ {0} /\ h \div 2 \in Nat \ {0}
         /\ w = 2 * (w \div 2) /\ h = 2 * (h \div 2)
         /\ w * h = h * w
         /\ w * h = 4 * ((h \div 2) * (w \div 2))
         /\ (h \div 2) * (w \div 2) \in Nat
<1> DEFINE W == w \div 2
           H == h \div 2
<1>1. W \in Nat \ {0} /\ H \in Nat \ {0} /\ w = 2 * W /\ h = 2 * H
  BY DEF Positions, Even
<1> HIDE DEF W, H
<1>2. w * h = h * w
  BY DEF Positions, Even
<1>3. H * W \in Nat /\ h * w = 4 * (H * W)
  BY <1>1, Products
<1> QED
  BY <1>1, <1>2, <1>3 DEF W, H

(* The pixel that comes next is one of the picture, and so is the quarter   *)
(* it begins.                                                               *)
LEMMA Inside ==
  ASSUME Positions, row < h
  PROVE  /\ Pixels \in Nat /\ Quarters \in Nat
         /\ Pixels + w - col <= w * h
         /\ Chroma => Quarter = Quarters /\ Quarter < (h \div 2) * (w \div 2)
<1> DEFINE W == w \div 2
           H == h \div 2
           R == row \div 2
           C == col \div 2
<1>1. /\ W \in Nat \ {0} /\ H \in Nat \ {0} /\ w = 2 * W /\ h = 2 * H
      /\ w * h = h * w
  BY Sides
<1>2. /\ row \in Nat /\ col \in Nat /\ w \in Nat /\ h \in Nat
      /\ row + 1 <= h /\ col + 1 <= w
  BY DEF Positions, Even
<1>3. R \in Nat /\ C \in Nat /\ R + 1 <= H /\ C + 1 <= W
  BY <1>1, <1>2
<1>4. (row + 1) * w <= h * w /\ (row + 1) * w = row * w + w /\ row * w \in Nat
  BY <1>2, Products
<1>5. (R + 1) * W <= H * W /\ (R + 1) * W = R * W + W /\ R * W \in Nat
  <2> HIDE DEF W, H, R
  <2> QED
    BY <1>1, <1>3, Products
<1>6. Pixels \in Nat /\ Pixels + w - col <= w * h
  BY <1>1, <1>2, <1>4 DEF Pixels
<1>7. (col + 1) \div 2 \in Nat /\ (col % 2 = 0 => (col + 1) \div 2 = C)
  BY <1>2
<1>8. Quarters \in Nat
  <2> HIDE DEF W, R
  <2> QED
    BY <1>5, <1>7, <1>1 DEF Quarters, W, R
<1>9. ASSUME Chroma
      PROVE  Quarter = Quarters /\ Quarter < H * W
  <2>1. Quarter = R * W + C /\ Quarters = R * W + C
    BY <1>9, <1>7 DEF Chroma, Quarter, Quarters
  <2> HIDE DEF W, H, R, C
  <2>2. R * W + C < H * W
    <3>1. R * W \in Nat /\ H * W \in Nat
      BY <1>1, <1>3, Products
    <3> DEFINE a == R * W
               b == H * W
    <3> HIDE DEF a, b
    <3>2. a + W <= b
      BY <1>5 DEF a, b
    <3> QED
      BY <3>1, <3>2, <1>1, <1>3 DEF a, b
  <2> QED
    BY <2>1, <2>2
<1> QED
  BY <1>6, <1>8, <1>9

(* One step of the loop. *)
LEMMA OneOn ==
  ASSUME Positions, row < h, NEW by \in {1, 2}, Advance(by),
         by = 2 <=> fmt = "YUY2", fmt \notin {"BGR", "other"},
         UNCHANGED <<fmt, w, h>>,
         read' \subseteq {<<row, col>>, <<row, col + by - 1>>}
  PROVE  /\ Positions'
         /\ Pixels' = Pixels + by
         /\ by = 1 => Quarters' = Quarters + (IF Chroma THEN 1 ELSE 0)
         /\ \A i \in 0 .. h - 1, j \in 0 .. w - 1 :
              Behind(i, j)' <=> Behind(i, j) \/ (i = row /\ j \in col .. col + by - 1)
<1>1. /\ row \in Nat /\ col \in Nat /\ w \in Nat /\ h \in Nat
      /\ w % 2 = 0 /\ w > 0 /\ h > 0 /\ h % 2 = 0
      /\ row + 1 <= h /\ col + 1 <= w
  BY DEF Positions, Even
<1>2. by = 2 => col % 2 = 0 /\ col + 2 <= w
  BY <1>1 DEF Positions
<1>3. /\ col + by < w => col' = col + by /\ row' = row
      /\ ~ (col + by < w) => col' = 0 /\ row' = row + 1 /\ col + by = w
  BY <1>1, <1>2 DEF Advance
<1>4. Positions'
  <2>1. row' \in 0 .. h /\ col' \in 0 .. w - 1 /\ (row' = h => col' = 0)
    BY <1>1, <1>3
  <2>2. fmt = "YUY2" => col' % 2 = 0
    BY <1>1, <1>2, <1>3
  <2>3. read' \subseteq (0 .. h - 1) \X (0 .. w - 1)
    BY <1>1, <1>2
  <2> QED
    BY <2>1, <2>2, <2>3 DEF Positions
<1>5. Pixels' = Pixels + by
  <2>1. (row + 1) * w = row * w + w /\ row * w \in Nat
    BY <1>1, Products
  <2>2. CASE col + by < w
    BY <2>1, <2>2, <1>1, <1>3 DEF Pixels
  <2>3. CASE ~ (col + by < w)
    <3>1. Pixels' = (row + 1) * w + 0
      BY <2>3, <1>3 DEF Pixels
    <3> QED
      BY <2>1, <2>3, <3>1, <1>1, <1>3 DEF Pixels
  <2> QED
    BY <2>2, <2>3
<1>6. ASSUME by = 1
      PROVE  Quarters' = Quarters + (IF Chroma THEN 1 ELSE 0)
  <2> DEFINE W == w \div 2
             R == row \div 2
  <2>1. W \in Nat /\ R \in Nat /\ w = 2 * W
    BY <1>1
  <2>2. (R + 1) * W = R * W + W /\ R * W \in Nat
    <3> HIDE DEF W, R
    <3> QED
      BY <2>1, Products
  <2>3. CASE row % 2 = 0 /\ col + 1 < w
    <3>1. /\ Quarters = R * W + (col + 1) \div 2
          /\ Quarters' = R * W + (col + 2) \div 2
      BY <2>3, <1>1, <1>3, <1>6 DEF Quarters
    <3>2. (col + 2) \div 2 = (col + 1) \div 2 + (IF col % 2 = 0 THEN 1 ELSE 0)
      BY <1>1
    <3>3. Chroma <=> col % 2 = 0
      BY <2>3 DEF Chroma
    <3>4. (col + 1) \div 2 \in Nat
      BY <1>1
    <3> HIDE DEF W, R
    <3> QED
      BY <3>1, <3>2, <3>3, <3>4, <2>2
  <2>4. CASE row % 2 = 0 /\ ~ (col + 1 < w)
    <3>1. (row + 1) % 2 # 0 /\ (row + 1) \div 2 = R /\ col % 2 # 0 /\ (col + 1) \div 2 = W
      BY <2>4, <1>1, <1>3, <1>6
    <3>2. Quarters = R * W + W /\ Quarters' = (R + 1) * W
      BY <2>4, <3>1, <1>3, <1>6 DEF Quarters
    <3>3. ~ Chroma
      BY <3>1 DEF Chroma
    <3> HIDE DEF W, R
    <3> QED
      BY <3>2, <3>3, <2>1, <2>2
  <2>5. CASE row % 2 # 0 /\ col + 1 < w
    <3>1. Quarters = (R + 1) * W /\ Quarters' = (R + 1) * W /\ ~ Chroma
      BY <2>5, <1>3, <1>6 DEF Quarters, Chroma
    <3> HIDE DEF W, R
    <3> QED
      BY <3>1, <2>1, <2>2
  <2>6. CASE row % 2 # 0 /\ ~ (col + 1 < w)
    <3>1. (row + 1) % 2 = 0 /\ (row + 1) \div 2 = R + 1 /\ (0 + 1) \div 2 = 0
      BY <2>6, <1>1
    <3>2. Quarters = (R + 1) * W /\ Quarters' = (R + 1) * W + 0 /\ ~ Chroma
      BY <2>6, <3>1, <1>3, <1>6 DEF Quarters, Chroma
    <3> HIDE DEF W, R
    <3> QED
      BY <3>2, <2>1, <2>2
  <2> QED
    BY <2>3, <2>4, <2>5, <2>6
<1>7. ASSUME NEW i \in 0 .. h - 1, NEW j \in 0 .. w - 1
      PROVE  Behind(i, j)' <=> Behind(i, j) \/ (i = row /\ j \in col .. col + by - 1)
  <2>1. CASE col + by < w
    BY <2>1, <1>1, <1>3 DEF Behind
  <2>2. CASE ~ (col + by < w)
    BY <2>2, <1>1, <1>3 DEF Behind
  <2> QED
    BY <2>1, <2>2
<1> QED
  BY <1>4, <1>5, <1>6, <1>7

(* What is written at new offsets is added, and nothing is lost. *)
LEMMA WriteAdds ==
  ASSUME NEW samples, Write(samples), DOMAIN samples \cap DOMAIN dst = {}
  PROVE  /\ DOMAIN dst' = DOMAIN dst \union DOMAIN samples
         /\ {dst'[o] : o \in DOMAIN dst'} =
              {dst[o] : o \in DOMAIN dst} \union {samples[o] : o \in DOMAIN samples}
<1>1. DOMAIN dst' = DOMAIN dst \union DOMAIN samples
  BY DEF Write
<1>2. \A o \in DOMAIN samples : dst'[o] = samples[o]
  BY DEF Write
<1>3. \A o \in DOMAIN dst : dst'[o] = dst[o]
  BY DEF Write
<1> QED
  BY <1>1, <1>2, <1>3

(* The pixel that was converted is behind now, and nothing else. *)
LEMMA StepBehind ==
  ASSUME Positions, UNCHANGED <<fmt, w, h>>, NEW J \in SUBSET Int,
         \A i \in 0 .. h - 1, j \in 0 .. w - 1 :
           Behind(i, j)' <=> Behind(i, j) \/ (i = row /\ j \in J)
  PROVE  {s \in Samples' : Behind(s[2], s[3])'} =
           {s \in Samples : Behind(s[2], s[3])}
             \union {s \in Samples : s[2] = row /\ s[3] \in J}
<1>1. Samples' = Samples
  BY DEF Samples
<1>2. \A s \in Samples : s[2] \in 0 .. h - 1 /\ s[3] \in 0 .. w - 1
  BY DEF Samples
<1>3. \A s \in Samples :
        Behind(s[2], s[3])' <=> Behind(s[2], s[3]) \/ (s[2] = row /\ s[3] \in J)
  BY <1>2
<1> QED
  BY <1>1, <1>3

(* What there is of one pixel in a format with planes, and of two in YUY2.  *)
LEMMA SamplesHere ==
  ASSUME Positions, row < h
  PROVE  /\ fmt \in {"NV12", "I420"} =>
              {s \in Samples : s[2] = row /\ s[3] \in col .. col} =
                IF Chroma THEN {<<"Y", row, col>>, <<"U", row, col>>, <<"V", row, col>>}
                          ELSE {<<"Y", row, col>>}
         /\ fmt = "YUY2" =>
              {s \in Samples : s[2] = row /\ s[3] \in col .. col + 1} =
                {<<"Y", row, col>>, <<"U", row, col>>,
                 <<"Y", row, col + 1>>, <<"V", row, col>>}
<1>1. /\ row \in 0 .. h - 1 /\ col \in 0 .. w - 1 /\ w \in Nat /\ h \in Nat
      /\ w % 2 = 0
  BY DEF Positions, Even
<1>2. \A i, j : <<"Y", i, j>> \in Samples <=> i \in 0 .. h - 1 /\ j \in 0 .. w - 1
  BY DEF Samples
<1>3. \A p \in {"U", "V"} : \A i, j :
        <<p, i, j>> \in Samples <=> /\ i \in 0 .. h - 1 /\ (fmt = "YUY2" \/ i % 2 = 0)
                                   /\ j \in 0 .. w - 1 /\ j % 2 = 0
  BY DEF Samples
<1>4. \A s \in Samples : \E p \in {"Y", "U", "V"} : s = <<p, s[2], s[3]>>
  BY DEF Samples
<1>5. ASSUME fmt \in {"NV12", "I420"}
      PROVE  {s \in Samples : s[2] = row /\ s[3] \in col .. col} =
                IF Chroma THEN {<<"Y", row, col>>, <<"U", row, col>>, <<"V", row, col>>}
                          ELSE {<<"Y", row, col>>}
  <2>1. \A j : j \in col .. col <=> j = col
    BY <1>1
  <2>2. <<"Y", row, col>> \in Samples
    BY <1>1, <1>2
  <2>3. \A p \in {"U", "V"} : <<p, row, col>> \in Samples <=> Chroma
    BY <1>1, <1>3, <1>5 DEF Chroma
  <2> QED
    BY <1>4, <2>1, <2>2, <2>3
<1>6. ASSUME fmt = "YUY2"
      PROVE  {s \in Samples : s[2] = row /\ s[3] \in col .. col + 1} =
                {<<"Y", row, col>>, <<"U", row, col>>,
                 <<"Y", row, col + 1>>, <<"V", row, col>>}
  <2>1. col % 2 = 0 /\ (col + 1) % 2 # 0 /\ col + 1 \in 0 .. w - 1
    BY <1>1, <1>6 DEF Positions
  <2>2. \A j : j \in col .. col + 1 <=> j = col \/ j = col + 1
    BY <1>1
  <2>3. <<"Y", row, col>> \in Samples /\ <<"Y", row, col + 1>> \in Samples
    BY <1>1, <1>2, <2>1
  <2>4. \A p \in {"U", "V"} : /\ <<p, row, col>> \in Samples
                             /\ <<p, row, col + 1>> \notin Samples
    BY <1>1, <1>3, <1>6, <2>1
  <2> QED
    BY <1>4, <2>2, <2>3, <2>4
<1> QED
  BY <1>5, <1>6

(* The offsets one pixel of a format with planes goes to. *)
Targets(u, v) == IF Chroma THEN {Pixels, w * h + u, w * h + v} ELSE {Pixels}

(* A pixel whose targets are new adds its samples and nothing else. *)
LEMMA PlanarStep ==
  ASSUME IInv, NEW c, NEW u, NEW v, Planar(c, u, v), fmt \in {"NV12", "I420"},
         Targets(u, v) \cap DOMAIN dst = {},
         Chroma => /\ w * h + u # Pixels /\ w * h + v # Pixels
                   /\ w * h + u # w * h + v
  PROVE  /\ Positions' /\ Values'
         /\ DOMAIN dst' = DOMAIN dst \union Targets(u, v)
         /\ Pixels' = Pixels + 1
         /\ Quarters' = Quarters + (IF Chroma THEN 1 ELSE 0)
<1>1. /\ row < h /\ UNCHANGED <<fmt, w, h>> /\ Advance(1)
      /\ read' = {<<row, col>>}
  BY DEF Planar
<1>2. Positions /\ Values
  BY DEF IInv
<1>3. /\ Positions' /\ Pixels' = Pixels + 1
      /\ Quarters' = Quarters + (IF Chroma THEN 1 ELSE 0)
      /\ \A i \in 0 .. h - 1, j \in 0 .. w - 1 :
           Behind(i, j)' <=> Behind(i, j) \/ (i = row /\ j \in col .. col + 1 - 1)
  BY <1>1, <1>2, OneOn
<1>4. col + 1 - 1 = col
  BY <1>2 DEF Positions, Even
<1> DEFINE plane(o) == IF o = Pixels THEN "Y" ELSE IF o = w * h + v THEN "V" ELSE "U"
           samples == [o \in Targets(u, v) |-> <<plane(o), row, col>>]
           here == IF Chroma THEN {<<"Y", row, col>>, <<"U", row, col>>, <<"V", row, col>>}
                             ELSE {<<"Y", row, col>>}
<1>5. Write(samples)
  BY DEF Planar, Targets, Pixels
<1>6. {samples[o] : o \in DOMAIN samples} = here
  <2>1. CASE Chroma
    <3>1. DOMAIN samples = {Pixels, w * h + u, w * h + v}
      BY <2>1 DEF Targets
    <3>2. /\ samples[Pixels] = <<"Y", row, col>>
          /\ samples[w * h + u] = <<"U", row, col>>
          /\ samples[w * h + v] = <<"V", row, col>>
      BY <2>1 DEF Targets
    <3> HIDE DEF samples
    <3> QED
      BY <2>1, <3>1, <3>2
  <2>2. CASE ~ Chroma
    <3>1. Targets(u, v) = {Pixels}
      BY <2>2 DEF Targets
    <3>2. DOMAIN samples = {Pixels} /\ samples[Pixels] = <<"Y", row, col>>
      BY <3>1
    <3> HIDE DEF samples
    <3> QED
      BY <2>2, <3>2
  <2> QED
    BY <2>1, <2>2
<1>7. DOMAIN samples = Targets(u, v)
  OBVIOUS
<1> HIDE DEF samples
<1>8. /\ DOMAIN dst' = DOMAIN dst \union Targets(u, v)
      /\ {dst'[o] : o \in DOMAIN dst'} = {dst[o] : o \in DOMAIN dst} \union here
  BY <1>5, <1>6, <1>7, WriteAdds
<1>9. {s \in Samples' : Behind(s[2], s[3])'} = {s \in Samples : Behind(s[2], s[3])} \union here
  <2>1. here = {s \in Samples : s[2] = row /\ s[3] \in col .. col}
    BY <1>1, <1>2, SamplesHere
  <2>2. /\ col .. col \in SUBSET Int
        /\ \A i \in 0 .. h - 1, j \in 0 .. w - 1 :
             Behind(i, j)' <=> Behind(i, j) \/ (i = row /\ j \in col .. col)
    <3>1. col .. col \in SUBSET Int
      BY <1>2 DEF Positions, Even
    <3>2. col .. col + 1 - 1 = col .. col
      BY <1>4
    <3> QED
      BY <1>3, <3>1, <3>2
  <2> HIDE DEF here
  <2> QED
    BY <1>1, <1>2, <2>1, <2>2, StepBehind
<1>10. Values'
  <2>1. {dst[o] : o \in DOMAIN dst} = {s \in Samples : Behind(s[2], s[3])}
    BY <1>2 DEF Values
  <2> HIDE DEF here
  <2> QED
    BY <1>8, <1>9, <2>1 DEF Values
<1> QED
  BY <1>3, <1>8, <1>10

(* U and V of a quarter are the next two bytes of their common plane. *)
LEMMA NV12Step ==
  ASSUME IInv, NEW c, ConvertNV12(c)
  PROVE  IInv'
<1> DEFINE A == w * h
           q == Quarters
           n == Pixels
<1>1. /\ fmt = "NV12" /\ row < h /\ UNCHANGED <<fmt, w, h>>
      /\ Planar(c, 2 * Quarter, 2 * Quarter + 1)
  BY DEF ConvertNV12, Planar
<1>2. Positions /\ DOMAIN dst = FirstOf(0, n) \union FirstOf(A, 2 * q)
  BY <1>1 DEF IInv, Offsets, Written
<1>3. n \in Nat /\ q \in Nat /\ A \in Nat /\ n < A /\ (Chroma => Quarter = q)
  <2>1. col + 1 <= w /\ col \in Nat /\ w \in Nat /\ h \in Nat
    BY <1>2 DEF Positions, Even
  <2>2. A \in Nat
    BY <2>1, Products
  <2> QED
    BY <1>1, <1>2, <2>1, <2>2, Inside
<1>4. ASSUME Chroma
      PROVE  Targets(2 * Quarter, 2 * Quarter + 1) = {n, A + 2 * q, A + (2 * q + 1)}
  BY <1>3, <1>4 DEF Targets
<1> HIDE DEF A, q, n
<1>5. /\ FirstOf(A, 2 * q) \union {A + 2 * q, A + (2 * q + 1)} = FirstOf(A, 2 * (q + 1))
      /\ A + 2 * q \notin FirstOf(A, 2 * q) /\ A + (2 * q + 1) \notin FirstOf(A, 2 * q)
      /\ A + 2 * q \notin FirstOf(0, n) /\ A + (2 * q + 1) \notin FirstOf(0, n)
      /\ A + 2 * q # n /\ A + (2 * q + 1) # n /\ A + 2 * q # A + (2 * q + 1)
      /\ n \notin FirstOf(0, n) /\ n \notin FirstOf(A, 2 * q)
      /\ FirstOf(0, n) \union {n} = FirstOf(0, n + 1)
  BY <1>3 DEF FirstOf
<1>6. Targets(2 * Quarter, 2 * Quarter + 1) \cap DOMAIN dst = {}
  <2>1. CASE Chroma
    BY <1>2, <1>4, <1>5, <2>1
  <2>2. CASE ~ Chroma
    BY <1>2, <1>5, <2>2 DEF Targets, n
  <2> QED
    BY <2>1, <2>2
<1>7. Chroma => /\ w * h + 2 * Quarter # Pixels /\ w * h + (2 * Quarter + 1) # Pixels
                /\ w * h + 2 * Quarter # w * h + (2 * Quarter + 1)
  BY <1>3, <1>5 DEF A, n
<1>8. /\ Positions' /\ Values'
      /\ DOMAIN dst' = DOMAIN dst \union Targets(2 * Quarter, 2 * Quarter + 1)
      /\ Pixels' = n + 1
      /\ Quarters' = q + (IF Chroma THEN 1 ELSE 0)
  BY <1>1, <1>6, <1>7, PlanarStep DEF n, q
<1>9. DOMAIN dst' = FirstOf(0, Pixels') \union FirstOf(A, 2 * Quarters')
  <2>1. CASE Chroma
    BY <1>2, <1>4, <1>5, <1>8, <2>1
  <2>2. CASE ~ Chroma
    <3>1. DOMAIN dst' = DOMAIN dst \union {n} /\ Quarters' = q
      BY <1>3, <1>8, <2>2 DEF Targets, n
    <3> QED
      BY <1>2, <1>5, <1>8, <3>1
  <2> QED
    BY <2>1, <2>2
<1>10. Offsets'
  BY <1>1, <1>9 DEF Offsets, Written, A
<1> QED
  BY <1>8, <1>10 DEF IInv

(* U and V of a quarter are the next byte of a plane each, and the plane   *)
(* of U ends before that of V begins.                                       *)
LEMMA I420Step ==
  ASSUME IInv, NEW c, ConvertI420(c)
  PROVE  IInv'
<1> DEFINE A == w * h
           B == (w * h) \div 4
           q == Quarters
           n == Pixels
<1>1. /\ fmt = "I420" /\ row < h /\ UNCHANGED <<fmt, w, h>>
      /\ Planar(c, Quarter, B + Quarter)
  BY DEF ConvertI420, Planar
<1>2. Positions /\ DOMAIN dst = FirstOf(0, n) \union FirstOf(A, q) \union FirstOf(A + B, q)
  BY <1>1 DEF IInv, Offsets, Written
<1>3. /\ n \in Nat /\ q \in Nat /\ A \in Nat /\ B \in Nat /\ n < A
      /\ Chroma => Quarter = q /\ q < B
  <2>1. col + 1 <= w /\ col \in Nat /\ w \in Nat /\ h \in Nat
    BY <1>2 DEF Positions, Even
  <2>2. A \in Nat
    BY <2>1, Products
  <2>3. B = (h \div 2) * (w \div 2)
    <3> DEFINE b == (h \div 2) * (w \div 2)
    <3>1. A = 4 * b /\ b \in Nat
      BY <1>2, Sides
    <3> HIDE DEF b
    <3>2. A \div 4 = b
      BY <3>1
    <3> QED
      BY <3>2 DEF b
  <2> QED
    BY <1>1, <1>2, <2>1, <2>2, <2>3, Inside
<1>4. ASSUME Chroma
      PROVE  Targets(Quarter, B + Quarter) = {n, A + q, A + (B + q)}
  BY <1>3, <1>4 DEF Targets
<1> HIDE DEF A, B, q, n
<1>5. ASSUME Chroma
      PROVE  /\ FirstOf(A, q) \union {A + q} = FirstOf(A, q + 1)
             /\ FirstOf(A + B, q) \union {A + (B + q)} = FirstOf(A + B, q + 1)
             /\ A + q \notin FirstOf(A, q) /\ A + (B + q) \notin FirstOf(A, q)
             /\ A + q \notin FirstOf(A + B, q) /\ A + (B + q) \notin FirstOf(A + B, q)
             /\ A + q \notin FirstOf(0, n) /\ A + (B + q) \notin FirstOf(0, n)
             /\ A + q # n /\ A + (B + q) # n /\ A + q # A + (B + q)
  BY <1>3, <1>5 DEF FirstOf
<1>6. /\ n \notin FirstOf(0, n) /\ n \notin FirstOf(A, q) /\ n \notin FirstOf(A + B, q)
      /\ FirstOf(0, n) \union {n} = FirstOf(0, n + 1)
  BY <1>3 DEF FirstOf
<1>7. Targets(Quarter, B + Quarter) \cap DOMAIN dst = {}
  <2>1. CASE Chroma
    BY <1>2, <1>4, <1>5, <1>6, <2>1
  <2>2. CASE ~ Chroma
    BY <1>2, <1>6, <2>2 DEF Targets, n
  <2> QED
    BY <2>1, <2>2
<1>8. Chroma => /\ w * h + Quarter # Pixels /\ w * h + (B + Quarter) # Pixels
                /\ w * h + Quarter # w * h + (B + Quarter)
  BY <1>3, <1>5 DEF A, n
<1>9. /\ Positions' /\ Values'
      /\ DOMAIN dst' = DOMAIN dst \union Targets(Quarter, B + Quarter)
      /\ Pixels' = n + 1
      /\ Quarters' = q + (IF Chroma THEN 1 ELSE 0)
  BY <1>1, <1>7, <1>8, PlanarStep DEF n, q
<1>10. DOMAIN dst' = FirstOf(0, Pixels') \union FirstOf(A, Quarters')
                       \union FirstOf(A + B, Quarters')
  <2>1. CASE Chroma
    BY <1>2, <1>4, <1>5, <1>6, <1>9, <2>1
  <2>2. CASE ~ Chroma
    <3>1. DOMAIN dst' = DOMAIN dst \union {n} /\ Quarters' = q
      BY <1>3, <1>9, <2>2 DEF Targets, n
    <3> QED
      BY <1>2, <1>6, <1>9, <3>1
  <2> QED
    BY <2>1, <2>2
<1>11. Offsets'
  BY <1>1, <1>10 DEF Offsets, Written, A, B
<1> QED
  BY <1>9, <1>11 DEF IInv

(* Two pixels are the next four bytes. *)
LEMMA YUY2Step ==
  ASSUME IInv, NEW c, NEW d, ConvertYUY2(c, d)
  PROVE  IInv'
<1> DEFINE n == Pixels
           o == row * w * 2 + col * 2
           name == <<"Y", "U", "Y", "V">>
           samples == [p \in o .. o + 3 |->
                         <<name[p - o + 1], row, IF p = o + 2 THEN col + 1 ELSE col>>]
           here == {<<"Y", row, col>>, <<"U", row, col>>,
                    <<"Y", row, col + 1>>, <<"V", row, col>>}
<1>1. /\ fmt = "YUY2" /\ row < h /\ UNCHANGED <<fmt, w, h>> /\ Advance(2)
      /\ read' = {<<row, col>>, <<row, col + 1>>}
      /\ Write(samples)
  BY DEF ConvertYUY2
<1>2. Positions /\ Values /\ DOMAIN dst = FirstOf(0, 2 * n)
  BY <1>1 DEF IInv, Offsets, Written
<1>3. col \in Nat /\ row \in Nat /\ w \in Nat
  BY <1>2 DEF Positions, Even
<1>4. o = 2 * n /\ n \in Nat
  <2>1. row * w \in Nat
    BY <1>3, Products
  <2> QED
    BY <1>3, <2>1 DEF Pixels
<1>5. col + 2 - 1 = col + 1
  BY <1>3
<1>6. /\ Positions' /\ Pixels' = n + 2
      /\ \A i \in 0 .. h - 1, j \in 0 .. w - 1 :
           Behind(i, j)' <=> Behind(i, j) \/ (i = row /\ j \in col .. col + 1)
  <2>1. /\ read' \subseteq {<<row, col>>, <<row, col + 2 - 1>>}
        /\ 2 \in {1, 2} /\ (2 = 2 <=> fmt = "YUY2") /\ fmt \notin {"BGR", "other"}
    BY <1>1, <1>5
  <2>2. /\ Positions' /\ Pixels' = Pixels + 2
        /\ \A i \in 0 .. h - 1, j \in 0 .. w - 1 :
             Behind(i, j)' <=> Behind(i, j) \/ (i = row /\ j \in col .. col + 2 - 1)
    BY <1>1, <1>2, <2>1, OneOn
  <2>3. col .. col + 2 - 1 = col .. col + 1
    BY <1>5
  <2> QED
    BY <2>2, <2>3
<1>7. {samples[p] : p \in DOMAIN samples} = here
  <2>1. o .. o + 3 = {o, o + 1, o + 2, o + 3}
    <3> HIDE DEF o
    <3> QED
      BY <1>4
  <2>2. o \in Int
    BY <1>4
  <2> HIDE DEF o
  <2>3. /\ samples[o] = <<"Y", row, col>> /\ samples[o + 1] = <<"U", row, col>>
        /\ samples[o + 2] = <<"Y", row, col + 1>> /\ samples[o + 3] = <<"V", row, col>>
    BY <2>2
  <2>4. DOMAIN samples = {o, o + 1, o + 2, o + 3}
    BY <2>1
  <2> HIDE DEF samples
  <2> QED
    BY <2>3, <2>4
<1>8. DOMAIN samples = o .. o + 3
  OBVIOUS
<1> HIDE DEF samples, o, n
<1>9. /\ (o .. o + 3) \cap FirstOf(0, 2 * n) = {}
      /\ FirstOf(0, 2 * n) \union (o .. o + 3) = FirstOf(0, 2 * (n + 2))
  BY <1>4 DEF FirstOf
<1>10. /\ DOMAIN dst' = FirstOf(0, 2 * (n + 2))
       /\ {dst'[p] : p \in DOMAIN dst'} = {dst[p] : p \in DOMAIN dst} \union here
  <2>1. DOMAIN samples \cap DOMAIN dst = {}
    BY <1>2, <1>8, <1>9
  <2>2. /\ DOMAIN dst' = DOMAIN dst \union DOMAIN samples
        /\ {dst'[p] : p \in DOMAIN dst'} =
             {dst[p] : p \in DOMAIN dst} \union {samples[p] : p \in DOMAIN samples}
    BY <1>1, <2>1, WriteAdds
  <2> HIDE DEF here
  <2> QED
    BY <1>2, <1>7, <1>8, <1>9, <2>2
<1>11. Offsets'
  BY <1>1, <1>6, <1>10 DEF Offsets, Written
<1>12. {s \in Samples' : Behind(s[2], s[3])'} = {s \in Samples : Behind(s[2], s[3])} \union here
  <2>1. here = {s \in Samples : s[2] = row /\ s[3] \in col .. col + 1}
    BY <1>1, <1>2, SamplesHere
  <2>2. col .. col + 1 \in SUBSET Int
    BY <1>3
  <2> HIDE DEF here
  <2> QED
    BY <1>1, <1>2, <1>6, <2>1, <2>2, StepBehind
<1>13. Values'
  <2>1. {dst[p] : p \in DOMAIN dst} = {s \in Samples : Behind(s[2], s[3])}
    BY <1>1, <1>2 DEF Values
  <2> HIDE DEF here
  <2> QED
    BY <1>10, <1>12, <2>1 DEF Values
<1> QED
  BY <1>6, <1>11, <1>13 DEF IInv

(* memcpy writes all there is at once. *)
LEMMA BGRStep ==
  ASSUME IInv, CopyBGR
  PROVE  IInv'
<1> DEFINE size == w * h * 3
           samples == [o \in 0 .. w * h * 3 - 1 |->
             <<<<"B", "G", "R">>[(o % 3) + 1], o \div (3 * w), (o \div 3) % w>>]
<1>1. /\ fmt = "BGR" /\ row = 0 /\ row' = h /\ UNCHANGED <<fmt, w, h, col>>
      /\ read' = (0 .. h - 1) \X (0 .. w - 1)
      /\ Write(samples)
  BY DEF CopyBGR
<1>2. Positions /\ DOMAIN dst = {}
  BY <1>1 DEF IInv, Offsets, Written
<1>3. h \in Nat \ {0} /\ w \in Nat \ {0} /\ col = 0
  BY <1>1, <1>2 DEF Positions, Even
<1>4. Positions'
  BY <1>1, <1>2, <1>3 DEF Positions
<1>5. DOMAIN samples = 0 .. size - 1
  OBVIOUS
<1> HIDE DEF samples
<1>6. DOMAIN dst' = 0 .. size - 1
  BY <1>1, <1>2, <1>5, WriteAdds
<1>7. size \in Nat
  BY <1>3, Products
<1> HIDE DEF size
<1>8. DOMAIN dst' = FirstOf(0, size)
  BY <1>6, <1>7 DEF FirstOf
<1>9. Offsets'
  BY <1>1, <1>3, <1>8 DEF Offsets, Written, size
<1>10. Values'
  BY <1>1 DEF Values
<1> QED
  BY <1>4, <1>9, <1>10 DEF IInv

(* Nothing is written, and no pixel is behind. *)
LEMMA Initially == Init => IInv
<1> SUFFICES ASSUME Init
             PROVE  IInv
  OBVIOUS
<1>1. /\ fmt \in {"NV12", "YUY2", "I420", "BGR", "other"} /\ w \in Even /\ h \in Even
      /\ row = 0 /\ col = 0 /\ dst = <<>> /\ read = {}
  BY SizesAssumption DEF Init, Formats
<1>2. Positions
  BY <1>1 DEF Positions, Even
<1>3. w \in Nat /\ h \in Nat /\ DOMAIN dst = {}
  BY <1>1 DEF Even
<1>4. Pixels = 0 /\ Quarters = 0
  <2>1. (0 + 1) \div 2 = 0 /\ 0 \div 2 = 0 /\ 0 % 2 = 0 /\ w \div 2 \in Nat
    BY <1>3
  <2>2. Quarters = 0 * (w \div 2) + 0 /\ Pixels = 0 * w + 0
    BY <1>1, <2>1 DEF Quarters, Pixels
  <2>3. \A n \in Nat : 0 * n + 0 = 0
    OBVIOUS
  <2> QED
    BY <1>3, <2>1, <2>2, <2>3
<1>5. \A a \in Nat : FirstOf(a, 0) = {}
  BY DEF FirstOf
<1>6. w * h \in Nat /\ w * h + (w * h) \div 4 \in Nat /\ 2 * 0 = 0
  <2>1. w * h \in Nat
    BY <1>3, Products
  <2> DEFINE A == w * h
  <2> HIDE DEF A
  <2>2. A \in Nat => A + A \div 4 \in Nat
    OBVIOUS
  <2> QED
    BY <2>1, <2>2 DEF A
<1>7. Offsets
  BY <1>1, <1>3, <1>4, <1>5, <1>6 DEF Offsets, Written
<1>8. Values
  <2>1. \A s \in Samples : ~ Behind(s[2], s[3])
    BY <1>1 DEF Samples, Behind
  <2> QED
    BY <1>3, <2>1 DEF Values
<1> QED
  BY <1>2, <1>7, <1>8 DEF IInv

(* After every pixel the offsets written are the first ones of each plane,  *)
(* and hold the samples of the pixels behind: for pictures of any even      *)
(* size, in all four formats.                                               *)
THEOREM Invariant == Spec => []IInv
<1>1. ASSUME IInv, [Next]_vars
      PROVE  IInv'
  <2>1. ASSUME UNCHANGED vars
        PROVE  IInv'
    BY <1>1, <2>1 DEF vars, IInv, Positions, Offsets, Values, Written, Pixels,
      Quarters, Samples, Behind
  <2>2. ASSUME NEW c \in Colours, ConvertNV12(c) \/ ConvertI420(c)
        PROVE  IInv'
    BY <1>1, <2>2, NV12Step, I420Step
  <2>3. ASSUME NEW c \in Colours, NEW d \in Colours, ConvertYUY2(c, d)
        PROVE  IInv'
    BY <1>1, <2>3, YUY2Step
  <2>4. ASSUME CopyBGR
        PROVE  IInv'
    BY <1>1, <2>4, BGRStep
  <2> QED
    BY <1>1, <2>1, <2>2, <2>3, <2>4 DEF Next
<1> QED
  BY Initially, <1>1, PTL DEF Spec

(* No plane is longer than its part of the buffer, and behind the last      *)
(* pixel each is full.                                                      *)
LEMMA Full ==
  ASSUME Positions
  PROVE  LET A == w * h
             B == (h \div 2) * (w \div 2)
         IN  /\ Pixels \in 0 .. A /\ Quarters \in 0 .. B
             /\ Done => Pixels = A /\ Quarters = B
<1> DEFINE W == w \div 2
           H == h \div 2
           R == row \div 2
           A == w * h
           B == H * W
<1>1. /\ W \in Nat \ {0} /\ H \in Nat \ {0} /\ w = 2 * W /\ h = 2 * H
      /\ A = h * w /\ A = 4 * B /\ B \in Nat
  BY Sides
<1>2. /\ row \in 0 .. h /\ col \in 0 .. w - 1 /\ w \in Nat /\ h \in Nat
      /\ row = h => col = 0
  BY DEF Positions, Even
<1>3. CASE row < h
  <2>1. Pixels \in Nat /\ Quarters \in Nat /\ Pixels + w - col <= A /\ ~ Done
    BY <1>2, <1>3, Inside DEF Done
  <2>2. Pixels <= A
    <3> HIDE DEF A
    <3> QED
      BY <1>1, <1>2, <2>1
  <2>3. Quarters <= B
    <3>1. R \in Nat /\ R + 1 <= H /\ (col + 1) \div 2 <= W /\ (col + 1) \div 2 \in Nat
      BY <1>1, <1>2, <1>3
    <3>2. Quarters = R * W + (col + 1) \div 2 \/ Quarters = (R + 1) * W
      BY DEF Quarters
    <3> HIDE DEF W, H, R
    <3>3. (R + 1) * W = R * W + W /\ (R + 1) * W <= H * W /\ R * W \in Nat
      BY <1>1, <3>1, Products
    <3> DEFINE b == H * W
    <3> HIDE DEF b
    <3>4. (R + 1) * W <= b
      BY <3>3 DEF b
    <3>5. Quarters <= b
      BY <1>1, <3>1, <3>2, <3>3, <3>4 DEF b
    <3> QED
      BY <3>5 DEF b
  <2> HIDE DEF A, B
  <2>4. Pixels \in 0 .. A /\ Quarters \in 0 .. B
    BY <1>1, <2>1, <2>2, <2>3
  <2> QED
    BY <2>1, <2>4 DEF A, B
<1>4. CASE row = h
  <2>1. col = 0 /\ h % 2 = 0 /\ (0 + 1) \div 2 = 0
    BY <1>1, <1>2, <1>4
  <2>2. Pixels = h * w + 0 /\ Quarters = B + 0
    BY <1>4, <2>1 DEF Pixels, Quarters
  <2> HIDE DEF A, B
  <2>3. Pixels = A /\ Quarters = B /\ A \in Nat
    BY <1>1, <1>2, <2>2
  <2>4. Pixels \in 0 .. A /\ Quarters \in 0 .. B
    BY <1>1, <2>3
  <2> QED
    BY <2>3, <2>4 DEF A, B
<1> QED
  BY <1>2, <1>3, <1>4

(* A conversion stays inside the picture and inside the buffer that         *)
(* gvcam_frame_buffer_size says a frame needs; when it is done it has       *)
(* filled the buffer, with every sample of the picture: for pictures of any *)
(* even size, in all four formats; for any other number it writes nothing.  *)
THEOREM Fills == Spec => []FillsBuffer
<1>1. IInv => FillsBuffer
  <2> DEFINE A == w * h
             B == (h \div 2) * (w \div 2)
             p == Pixels
             q == Quarters
             size == gvcam_frame_buffer_size(w, h, fmt)
             buffer == 0 .. size - 1
  <2> SUFFICES ASSUME IInv
               PROVE  FillsBuffer
    OBVIOUS
  <2>1. Positions /\ Offsets /\ Values
    BY DEF IInv
  <2>2. p \in 0 .. A /\ q \in 0 .. B /\ (Done => p = A /\ q = B)
    BY <2>1, Full
  <2>3. A = 4 * B /\ B \in Nat
    BY <2>1, Sides
  <2>4. /\ read \subseteq (0 .. h - 1) \X (0 .. w - 1)
        /\ fmt \in {"NV12", "YUY2", "I420", "BGR", "other"} /\ h \in Nat \ {0}
        /\ row \in 0 .. h
        /\ fmt = "BGR" => row \in {0, h}
        /\ fmt = "other" => row = 0
    BY <2>1 DEF Positions, Even
  <2>5. /\ fmt \in {"NV12", "I420"} => size = (A * 3) \div 2
        /\ fmt = "YUY2" => size = A * 2
        /\ fmt = "BGR" => size = A * 3
        /\ fmt = "other" => size = 0
    BY DEF gvcam_frame_buffer_size
  <2>6. /\ fmt = "NV12" => DOMAIN dst = FirstOf(0, p) \union FirstOf(A, 2 * q)
        /\ fmt = "I420" => DOMAIN dst = FirstOf(0, p) \union FirstOf(A, q)
                                          \union FirstOf(A + A \div 4, q)
        /\ fmt = "YUY2" => DOMAIN dst = FirstOf(0, 2 * p)
        /\ fmt = "BGR" => DOMAIN dst = IF row = 0 THEN {} ELSE FirstOf(0, A * 3)
        /\ fmt = "other" => DOMAIN dst = {}
    BY <2>1 DEF Offsets, Written
  <2> HIDE DEF A, B, p, q, size
  <2>7. DOMAIN dst \subseteq buffer /\ (Done => DOMAIN dst = buffer)
    <3>1. CASE fmt = "NV12"
      BY <2>2, <2>3, <2>5, <2>6, <3>1 DEF FirstOf
    <3>2. CASE fmt = "I420"
      BY <2>2, <2>3, <2>5, <2>6, <3>2 DEF FirstOf
    <3>3. CASE fmt = "YUY2"
      BY <2>2, <2>3, <2>5, <2>6, <3>3 DEF FirstOf
    <3>4. CASE fmt = "BGR"
      BY <2>2, <2>3, <2>4, <2>5, <2>6, <3>4 DEF FirstOf, Done
    <3>5. CASE fmt = "other"
      BY <2>4, <2>5, <2>6, <3>5 DEF Done
    <3> QED
      BY <2>4, <3>1, <3>2, <3>3, <3>4, <3>5
  <2>8. ASSUME Done, fmt # "BGR"
        PROVE  {dst[o] : o \in buffer} = Samples
    <3>1. \A s \in Samples : Behind(s[2], s[3])
      BY <2>4, <2>8 DEF Samples, Done, Behind
    <3>2. {dst[o] : o \in DOMAIN dst} = Samples
      BY <2>1, <2>8, <3>1 DEF Values
    <3> HIDE DEF buffer
    <3> QED
      BY <2>7, <2>8, <3>2
  <2> QED
    BY <2>4, <2>7, <2>8 DEF FillsBuffer, size
<1> QED
  BY Invariant, <1>1, PTL
=============================================================================
