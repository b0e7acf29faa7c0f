-------------------------- MODULE MjpegParserProofs --------------------------
(****************************************************************************)
(* Proofs about MjpegParser: for streams of frames of any sizes, cut in any *)
(* way, and for any limit of the bridge's buffer, both readers return the   *)
(* frames that were sent.                                                   *)
(****************************************************************************)
EXTENDS MjpegParser, FiniteSetTheorems, SequenceTheorems, TLAPS

------------------------------------------------------------------------------
(* Least elements.  They stand for induction: what fails for some number    *)
(* fails for a least one.                                                   *)

LEMMA LeastElement ==
  ASSUME NEW K, K \subseteq Nat, K # {}
  PROVE  \E m \in K : \A k \in K : m <= k
<1> DEFINE T == {0 .. k : k \in K}
<1>1. \A n \in Nat : 0 .. n \in FiniteSubsetsOf(Nat)
  BY FS_Interval DEF FiniteSubsetsOf
<1>2. T \subseteq FiniteSubsetsOf(Nat) /\ T # {}
  BY <1>1
<1>3. PICK x \in T : \A y \in T : ~ (<<y, x>> \in StrictSubsetOrdering(Nat))
  <2> HIDE DEF T
  <2> QED
    BY <1>2, FS_StrictSubsetOrderingWellFounded, WFMin
<1>4. PICK m \in K : x = 0 .. m
  OBVIOUS
<1>5. ASSUME NEW k \in K, ~ (m <= k)
      PROVE  FALSE
  <2>1. k \in Nat /\ m \in Nat /\ k < m
    BY <1>5
  <2>2. m \in 0 .. m /\ m \notin 0 .. k
    BY <2>1
  <2>3. 0 .. k \subseteq 0 .. m /\ 0 .. k # 0 .. m
    BY <2>1, <2>2
  <2>4. <<0 .. k, 0 .. m>> \in StrictSubsetOrdering(Nat)
    BY <2>1, <2>3 DEF StrictSubsetOrdering
  <2> QED
    BY <2>4, <1>3, <1>4
<1> QED
  BY <1>5

LEMMA MinOf ==
  ASSUME NEW K, K \subseteq Nat, K # {}
  PROVE  Min(K) \in K /\ \A k \in K : Min(K) <= k
  BY LeastElement DEF Min

(* What holds for 0, and for each number up to n when it holds for the one  *)
(* before, holds for all of them.                                           *)
LEMMA UpTo ==
  ASSUME NEW n \in Nat, NEW Good \in SUBSET Nat, 0 \in Good,
         \A i \in 1 .. n : i - 1 \in Good => i \in Good
  PROVE  0 .. n \subseteq Good
<1> DEFINE Bad == (0 .. n) \ Good
<1>1. ASSUME Bad # {}
      PROVE  FALSE
  <2>0. Bad \subseteq Nat
    OBVIOUS
  <2>1. PICK m \in Bad : \A k \in Bad : m <= k
    <3> HIDE DEF Bad
    <3> QED
      BY <1>1, <2>0, LeastElement
  <2>2. m \in 1 .. n /\ m - 1 \in 0 .. n
    BY <2>1
  <2>3. m - 1 \in Good
    BY <2>1, <2>2
  <2> QED
    BY <2>1, <2>2, <2>3
<1> QED
  BY <1>1

(* g goes from a first value in n steps. *)
Goes(g, n, base, step) ==
  g[0] = base /\ \A i \in 1 .. n : g[i] = step[<<i, g[i - 1]>>]

(* Whatever the steps, there is such a sequence: so the functions that are  *)
(* defined by recursion over 0 .. n exist, and obey their equations.        *)
LEMMA Steps ==
  ASSUME NEW V, NEW base \in V, NEW n \in Nat,
         NEW step \in [(1 .. n) \X V -> V]
  PROVE  \E g \in [0 .. n -> V] : Goes(g, n, base, step)
<1> USE DEF Goes
<1> DEFINE Made(m, g) == /\ g \in [0 .. m -> V]
                         /\ g[0] = base
                         /\ \A i \in 1 .. m : g[i] = step[<<i, g[i - 1]>>]
           Good == {m \in 0 .. n : \E g : Made(m, g)}
<1>1. 0 \in Good
  <2>1. Made(0, [i \in 0 .. 0 |-> base])
    OBVIOUS
  <2>2. \E g : Made(0, g)
    BY <2>1
  <2> QED
    BY <2>2
<1>2. ASSUME NEW m \in 1 .. n, m - 1 \in Good
      PROVE  m \in Good
  <2>1. PICK g : Made(m - 1, g)
    BY <1>2
  <2> DEFINE next == step[<<m, g[m - 1]>>]
             h == [i \in 0 .. m |-> IF i = m THEN next ELSE g[i]]
  <2>2. m - 1 \in 0 .. m - 1 /\ m - 1 # m /\ m - 1 \in 0 .. m
    OBVIOUS
  <2>3. g[m - 1] \in V
    BY <2>1, <2>2
  <2>4. next \in V
    BY <2>3
  <2>5. h \in [0 .. m -> V]
    BY <2>1, <2>4
  <2>6. h[0] = base
    BY <2>1
  <2>7. ASSUME NEW i \in 1 .. m
        PROVE  h[i] = step[<<i, h[i - 1]>>]
    <3>1. h[i - 1] = g[i - 1]
      OBVIOUS
    <3>2. CASE i = m
      <4>1. h[m] = next
        OBVIOUS
      <4> QED
        BY <3>1, <3>2, <4>1
    <3>3. CASE i # m
      <4>1. i \in 1 .. m - 1
        BY <3>3
      <4> QED
        BY <2>1, <3>1, <3>3, <4>1
    <3> QED
      BY <3>2, <3>3
  <2>8. Made(m, h)
    BY <2>5, <2>6, <2>7
  <2>9. \E f : Made(m, f)
    <3> HIDE DEF Made, h
    <3> QED
      BY <2>8
  <2> QED
    BY <2>9
<1>3. n \in Good
  <2>1. Good \in SUBSET Nat
    OBVIOUS
  <2> HIDE DEF Good
  <2>2. 0 .. n \subseteq Good
    BY <1>1, <1>2, <2>1, UpTo
  <2> QED
    BY <2>2
<1> QED
  BY <1>3

------------------------------------------------------------------------------
(* The sums that Total takes, of parts and of bytes *)

LEMMA TotalAgrees ==
  ASSUME NEW n \in Nat, NEW w, NEW g \in [0 .. n -> Nat], g[0] = 0,
         \A i \in 1 .. n : g[i] = g[i - 1] + w[i],
         NEW m \in 0 .. n
  PROVE  Total(w, m) = g[m]
<1>0. m \in Nat /\ 0 .. m \subseteq 0 .. n
  OBVIOUS
<1> DEFINE Sums(h) == h = [k \in 0 .. m |-> IF k = 0 THEN 0 ELSE h[k - 1] + w[k]]
<1>1. Sums([k \in 0 .. m |-> g[k]])
  <2> DEFINE cut == [k \in 0 .. m |-> g[k]]
  <2>1. \A k \in 0 .. m : cut[k] = IF k = 0 THEN 0 ELSE cut[k - 1] + w[k]
    <3> TAKE k \in 0 .. m
    <3>1. k # 0 => k \in 1 .. n /\ k - 1 \in 0 .. m
      BY <1>0
    <3> QED
      BY <3>1
  <2>2. cut = [k \in 0 .. m |-> cut[k]]
    OBVIOUS
  <2> HIDE DEF cut
  <2> QED
    BY <2>1, <2>2
<1>2. \E h : Sums(h) /\ Total(w, m) = h[m]
  <2>1. \E h : Sums(h)
    BY <1>1
  <2> QED
    BY <2>1 DEF Total
<1>3. PICK h : Sums(h) /\ Total(w, m) = h[m]
  BY <1>2
<1> DEFINE Good == {k \in Nat : k \in 0 .. m => h[k] = g[k]}
<1>4. h[0] = 0 /\ \A k \in 1 .. m : h[k] = h[k - 1] + w[k]
  <2>0. \A k \in 0 .. m : h[k] = IF k = 0 THEN 0 ELSE h[k - 1] + w[k]
    BY <1>3
  <2>1. 0 \in 0 .. m /\ \A k \in 1 .. m : k \in 0 .. m /\ k # 0
    OBVIOUS
  <2> QED
    BY <2>0, <2>1, <1>0
<1>5. 0 \in Good
  BY <1>4
<1>6. \A k \in 1 .. m : k - 1 \in Good => k \in Good
  BY <1>4
<1>7. 0 .. m \subseteq Good
  <2>1. Good \in SUBSET Nat /\ m \in Nat
    OBVIOUS
  <2> HIDE DEF Good
  <2> QED
    BY <1>5, <1>6, <2>1, UpTo
<1> QED
  BY <1>3, <1>7

LEMMA TotalIs ==
  ASSUME NEW n \in Nat, NEW w, \A i \in 1 .. n : w[i] \in Nat
  PROVE  /\ Total(w, 0) = 0
         /\ \A i \in 1 .. n : Total(w, i) = Total(w, i - 1) + w[i]
         /\ \A i \in 0 .. n : Total(w, i) \in Nat
<1> DEFINE step == [p \in (1 .. n) \X Nat |-> p[2] + w[p[1]]]
<1>1. step \in [(1 .. n) \X Nat -> Nat]
  OBVIOUS
<1>2. PICK g \in [0 .. n -> Nat] : Goes(g, n, 0, step)
  <2>1. 0 \in Nat
    OBVIOUS
  <2> HIDE DEF step
  <2> QED
    BY <1>1, <2>1, Steps
<1>3. \A i \in 1 .. n : g[i] = g[i - 1] + w[i]
  <2> TAKE i \in 1 .. n
  <2>1. g[i - 1] \in Nat
    OBVIOUS
  <2>2. step[<<i, g[i - 1]>>] = g[i - 1] + w[i]
    BY <2>1
  <2> QED
    BY <1>2, <2>2 DEF Goes
<1>4. \A i \in 0 .. n : Total(w, i) = g[i]
  <2> HIDE DEF step
  <2> QED
    BY <1>2, <1>3, TotalAgrees DEF Goes
<1>5. 0 \in 0 .. n /\ \A i \in 1 .. n : i \in 0 .. n /\ i - 1 \in 0 .. n
  OBVIOUS
<1> QED
  BY <1>2, <1>3, <1>4, <1>5 DEF Goes

------------------------------------------------------------------------------
(* What the stream consists of *)

Piece ==
  {CR, LF, EndMark, Preamble, Boundary[1], Boundary[2], Boundary[3]}
    \union {<<"length", n>> : n \in Nat}
    \union {<<"jpeg", f, k>> : f \in Nat, k \in Nat}

(* r consists of s, which is m pieces long, and t, which is n long. *)
Joins(r, s, m, t, n) ==
  /\ r \in Seq(Piece) /\ Len(r) = m + n
  /\ \A i \in 1 .. m : r[i] = s[i]
  /\ \A i \in 1 .. n : r[m + i] = t[i]

LEMMA Joined ==
  ASSUME NEW s \in Seq(Piece), NEW t \in Seq(Piece), NEW m, NEW n,
         Len(s) = m, Len(t) = n
  PROVE  Joins(s \o t, s, m, t, n)
<1>1. /\ s \o t \in Seq(Piece)
      /\ Len(s \o t) = Len(s) + Len(t)
      /\ \A i \in 1 .. Len(s) + Len(t) :
           (s \o t)[i] = IF i <= Len(s) THEN s[i] ELSE t[i - Len(s)]
  BY ConcatProperties
<1>2. m \in Nat /\ n \in Nat
  OBVIOUS
<1>3. \A i \in 1 .. m : i \in 1 .. m + n /\ i <= m
  BY <1>2
<1>4. \A i \in 1 .. n : m + i \in 1 .. m + n /\ ~ (m + i <= m) /\ m + i - m = i
  BY <1>2
<1> QED
  BY <1>1, <1>3, <1>4 DEF Joins

LEMMA Literals ==
  /\ Boundary \in Seq(Piece) /\ Len(Boundary) = 3
  /\ CRLF \in Seq(Piece) /\ Len(CRLF) = 2 /\ CRLF[1] = CR /\ CRLF[2] = LF
  /\ <<EndMark>> \in Seq(Piece) /\ Len(<<EndMark>>) = 1 /\ <<EndMark>>[1] = EndMark
  /\ <<Preamble>> \in Seq(Piece) /\ Len(<<Preamble>>) = 1 /\ <<Preamble>>[1] = Preamble
<1>1. /\ Boundary[1] \in Piece /\ Boundary[2] \in Piece /\ Boundary[3] \in Piece
      /\ CR \in Piece /\ LF \in Piece /\ EndMark \in Piece /\ Preamble \in Piece
  BY DEF Piece
<1>2. Boundary \in Seq(Piece) /\ Len(Boundary) = 3
  BY <1>1 DEF Boundary
<1>3. CRLF \in Seq(Piece) /\ Len(CRLF) = 2 /\ CRLF[1] = CR /\ CRLF[2] = LF
  BY <1>1 DEF CRLF
<1>4. \A p \in Piece : <<p>> \in Seq(Piece) /\ Len(<<p>>) = 1 /\ <<p>>[1] = p
  OBVIOUS
<1> QED
  BY <1>1, <1>2, <1>3, <1>4

(* Two line ends in a row, as they stand behind the part headers. *)
LEMMA TwoLineEnds ==
  /\ CRLF \o CRLF \in Seq(Piece) /\ Len(CRLF \o CRLF) = 4
  /\ (CRLF \o CRLF)[1] = CR /\ (CRLF \o CRLF)[2] = LF
  /\ (CRLF \o CRLF)[3] = CR /\ (CRLF \o CRLF)[4] = LF
<1> DEFINE r == CRLF \o CRLF
<1>1. Joins(r, CRLF, 2, CRLF, 2)
  BY Literals, Joined
<1> HIDE DEF r
<1>2. r \in Seq(Piece) /\ Len(r) = 4 /\ r[1] = CR /\ r[2] = LF /\ r[3] = CR /\ r[4] = LF
  BY <1>1, Literals DEF Joins
<1> QED
  BY <1>2 DEF r

(* The part of a frame, piece by piece. *)
LEMMA PartLayout ==
  ASSUME NEW f \in Nat, NEW n \in Nat
  PROVE  /\ Part(f, n) \in Seq(Piece) /\ Len(Part(f, n)) = n + 12
         /\ Part(f, n)[1] = Boundary[1] /\ Part(f, n)[2] = Boundary[2]
         /\ Part(f, n)[3] = Boundary[3]
         /\ Part(f, n)[4] = CR /\ Part(f, n)[5] = LF
         /\ Part(f, n)[6] = <<"length", n>>
         /\ Part(f, n)[7] = CR /\ Part(f, n)[8] = LF
         /\ Part(f, n)[9] = CR /\ Part(f, n)[10] = LF
         /\ \A k \in 1 .. n : Part(f, n)[10 + k] = <<"jpeg", f, k>>
         /\ Part(f, n)[n + 11] = CR /\ Part(f, n)[n + 12] = LF
<1> DEFINE length == << <<"length", n>> >>
           s2 == Boundary \o CRLF
           s3 == s2 \o length
           s4 == s3 \o CRLF
           s5 == s4 \o CRLF
           s6 == s5 \o Jpeg(f, n)
           s7 == s6 \o CRLF
<1>1. /\ length \in Seq(Piece) /\ Len(length) = 1
      /\ length[1] = <<"length", n>>
  <2>1. <<"length", n>> \in Piece
    BY DEF Piece
  <2> QED
    BY <2>1
<1>2. /\ Jpeg(f, n) \in Seq(Piece) /\ Len(Jpeg(f, n)) = n
      /\ \A k \in 1 .. n : Jpeg(f, n)[k] = <<"jpeg", f, k>>
  <2>1. \A k \in 1 .. n : <<"jpeg", f, k>> \in Piece
    BY DEF Piece
  <2> QED
    BY <2>1 DEF Jpeg
<1> HIDE DEF length
<1>3. /\ s2 \in Seq(Piece) /\ Len(s2) = 5
      /\ s2[1] = Boundary[1] /\ s2[2] = Boundary[2] /\ s2[3] = Boundary[3]
      /\ s2[4] = CR /\ s2[5] = LF
  <2>1. Joins(s2, Boundary, 3, CRLF, 2)
    BY Literals, Joined
  <2> HIDE DEF s2
  <2> QED
    BY <2>1, Literals DEF Joins
<1> HIDE DEF s2
<1>4. /\ s3 \in Seq(Piece) /\ Len(s3) = 6
      /\ s3[6] = <<"length", n>>
      /\ \A k \in 1 .. 5 : s3[k] = s2[k]
  <2>1. Joins(s3, s2, 5, length, 1)
    BY <1>1, <1>3, Joined
  <2> HIDE DEF s3
  <2> QED
    BY <2>1, <1>1, <1>3 DEF Joins
<1> HIDE DEF s3
<1>5. /\ s4 \in Seq(Piece) /\ Len(s4) = 8
      /\ s4[7] = CR /\ s4[8] = LF
      /\ \A k \in 1 .. 6 : s4[k] = s3[k]
  <2>1. Joins(s4, s3, 6, CRLF, 2)
    BY <1>4, Literals, Joined
  <2> HIDE DEF s4
  <2> QED
    BY <2>1, <1>4, Literals DEF Joins
<1> HIDE DEF s4
<1>6. /\ s5 \in Seq(Piece) /\ Len(s5) = 10
      /\ s5[9] = CR /\ s5[10] = LF
      /\ \A k \in 1 .. 8 : s5[k] = s4[k]
  <2>1. Joins(s5, s4, 8, CRLF, 2)
    BY <1>5, Literals, Joined
  <2> HIDE DEF s5
  <2> QED
    BY <2>1, <1>5, Literals DEF Joins
<1> HIDE DEF s5
<1>7. /\ s6 \in Seq(Piece) /\ Len(s6) = n + 10
      /\ \A k \in 1 .. 10 : s6[k] = s5[k]
      /\ \A k \in 1 .. n : s6[10 + k] = <<"jpeg", f, k>>
  <2>1. Joins(s6, s5, 10, Jpeg(f, n), n)
    BY <1>2, <1>6, Joined
  <2> HIDE DEF s6
  <2> QED
    BY <2>1, <1>2, <1>6 DEF Joins
<1> HIDE DEF s6
<1>8. /\ s7 \in Seq(Piece) /\ Len(s7) = n + 12
      /\ \A k \in 1 .. n + 10 : s7[k] = s6[k]
      /\ s7[n + 11] = CR /\ s7[n + 12] = LF
  <2>1. Joins(s7, s6, n + 10, CRLF, 2)
    BY <1>7, Literals, Joined
  <2> HIDE DEF s7
  <2> QED
    BY <2>1, <1>7, Literals DEF Joins
<1>9. Part(f, n) = s7
  BY DEF Part, s2, s3, s4, s5, s6, s7, length
<1> HIDE DEF s7
<1>10. \A k \in 1 .. n : 10 + k \in 1 .. n + 10
  OBVIOUS
<1> QED
  BY <1>3, <1>4, <1>5, <1>6, <1>7, <1>8, <1>9, <1>10

(* Where the parts of a stream end. *)
LEMMA PartEnds ==
  ASSUME NEW s \in Seq(Nat \ {0})
  PROVE  /\ PartEnd(s, 0) = 0
         /\ \A f \in 1 .. Len(s) : PartEnd(s, f) = PartEnd(s, f - 1) + s[f] + 12
         /\ \A f \in 0 .. Len(s) : PartEnd(s, f) \in Nat
<1> DEFINE w == [g \in DOMAIN s |-> PartSize(s[g])]
<1>1. \A f \in 1 .. Len(s) : w[f] = s[f] + 12 /\ w[f] \in Nat /\ s[f] \in Nat
  BY Literals DEF PartSize
<1> HIDE DEF w
<1>2. Len(s) \in Nat
  OBVIOUS
<1>3. /\ Total(w, 0) = 0
      /\ \A f \in 1 .. Len(s) : Total(w, f) = Total(w, f - 1) + w[f]
      /\ \A f \in 0 .. Len(s) : Total(w, f) \in Nat
  BY <1>1, <1>2, TotalIs
<1>4. \A f : PartEnd(s, f) = Total(w, f)
  BY DEF PartEnd, w
<1>5. ASSUME NEW f \in 1 .. Len(s)
      PROVE  PartEnd(s, f) = PartEnd(s, f - 1) + s[f] + 12
  <2>1. f - 1 \in 0 .. Len(s) /\ Total(w, f - 1) \in Nat
    BY <1>2, <1>3
  <2>2. Total(w, f) = Total(w, f - 1) + (s[f] + 12) /\ s[f] \in Nat
    BY <1>1, <1>3
  <2>3. PartEnd(s, f) = Total(w, f) /\ PartEnd(s, f - 1) = Total(w, f - 1)
    BY <1>4
  <2> QED
    BY <2>1, <2>2, <2>3
<1> QED
  BY <1>3, <1>4, <1>5

(* Ends that are at least a part's twelve other pieces apart increase. *)
LEMMA Increasing ==
  ASSUME NEW n \in Nat, NEW z \in [0 .. n -> Nat],
         \A i \in 1 .. n : z[i - 1] + 12 <= z[i]
  PROVE  \A i, j \in 0 .. n : i < j => z[i] + 12 <= z[j]
<1> TAKE i, j \in 0 .. n
<1> HAVE i < j
<1> DEFINE Good == {d \in Nat : i + d + 1 <= n => z[i] + 12 <= z[i + d + 1]}
<1>1. 0 \in Good
  <2>1. i + 1 <= n => i + 1 \in 1 .. n /\ i + 1 - 1 = i /\ i + 0 + 1 = i + 1
    OBVIOUS
  <2> QED
    BY <2>1
<1>2. \A d \in 1 .. n : d - 1 \in Good => d \in Good
  <2> TAKE d \in 1 .. n
  <2> HAVE d - 1 \in Good
  <2>1. CASE i + d + 1 <= n
    <3>1. i + d \in 0 .. n /\ i + d + 1 \in 1 .. n /\ i + (d - 1) + 1 = i + d
      BY <2>1
    <3>2. z[i] + 12 <= z[i + d]
      BY <3>1, <2>1
    <3>3. z[i + d] + 12 <= z[i + d + 1]
      <4>1. i + d + 1 - 1 = i + d
        OBVIOUS
      <4> QED
        BY <3>1, <4>1
    <3>4. z[i] \in Nat /\ z[i + d] \in Nat /\ z[i + d + 1] \in Nat
      BY <3>1
    <3> QED
      BY <3>2, <3>3, <3>4
  <2>2. CASE ~ (i + d + 1 <= n)
    BY <2>2
  <2> QED
    BY <2>1, <2>2
<1>3. 0 .. n \subseteq Good
  <2>1. Good \in SUBSET Nat
    OBVIOUS
  <2> HIDE DEF Good
  <2> QED
    BY <1>1, <1>2, <2>1, UpTo
<1>4. j - i - 1 \in 0 .. n /\ i + (j - i - 1) + 1 = j
  OBVIOUS
<1>5. j - i - 1 \in Good
  BY <1>3, <1>4
<1> QED
  BY <1>4, <1>5

(* The parts of the first m frames are laid out in r. *)
Holds(r, s, m) ==
  /\ r \in Seq(Piece) /\ Len(r) = PartEnd(s, m)
  /\ \A f \in 1 .. m : \A j \in 1 .. s[f] + 12 :
       r[PartEnd(s, f - 1) + j] = Part(f, s[f])[j]

LEMMA HoldsOneMore ==
  ASSUME NEW s \in Seq(Nat \ {0}), NEW m \in 1 .. Len(s), NEW r,
         Holds(r, s, m - 1)
  PROVE  Holds(r \o Part(m, s[m]), s, m)
<1> DEFINE n == PartEnd(s, m - 1)
           part == Part(m, s[m])
           more == r \o part
<1>1. s[m] \in Nat /\ m \in Nat /\ m - 1 \in 0 .. Len(s) /\ Len(s) \in Nat
  OBVIOUS
<1>2. part \in Seq(Piece) /\ Len(part) = s[m] + 12
  BY <1>1, PartLayout
<1>3. n \in Nat /\ PartEnd(s, m) = n + (s[m] + 12)
  BY <1>1, PartEnds
<1>4. Joins(more, r, n, part, s[m] + 12)
  <2> HIDE DEF part
  <2> QED
    BY <1>2, Joined DEF Holds
<1> HIDE DEF more, part
<1>5. ASSUME NEW f \in 1 .. m, NEW j \in 1 .. s[f] + 12
      PROVE  more[PartEnd(s, f - 1) + j] = Part(f, s[f])[j]
  <2>1. CASE f = m
    BY <1>4, <2>1 DEF Joins, part
  <2>2. CASE f # m
    <3>1. f \in 1 .. m - 1 /\ f - 1 \in 0 .. Len(s) /\ s[f] \in Nat
      BY <1>1, <2>2
    <3>2. PartEnd(s, f) <= n
      <4> DEFINE z == [i \in 0 .. Len(s) |-> PartEnd(s, i)]
      <4>1. z \in [0 .. Len(s) -> Nat]
        BY PartEnds
      <4>2. \A i \in 1 .. Len(s) : z[i - 1] + 12 <= z[i]
        <5> TAKE i \in 1 .. Len(s)
        <5>1. i \in 0 .. Len(s) /\ i - 1 \in 0 .. Len(s) /\ s[i] \in Nat
          BY <1>1
        <5>2. /\ PartEnd(s, i) = PartEnd(s, i - 1) + s[i] + 12
              /\ PartEnd(s, i - 1) \in Nat
          BY <5>1, PartEnds
        <5> QED
          BY <5>1, <5>2
      <4>3. f \in 0 .. Len(s) /\ (f = m - 1 \/ f < m - 1)
        BY <3>1
      <4>4. f < m - 1 => z[f] + 12 <= z[m - 1]
        <5> HIDE DEF z
        <5> QED
          BY <1>1, <4>1, <4>2, <4>3, Increasing
      <4>5. z[f] = PartEnd(s, f) /\ z[m - 1] = n /\ z[f] \in Nat
        BY <1>1, <4>1, <4>3
      <4> DEFINE x == z[f]
                 y == z[m - 1]
      <4>6. x \in Nat /\ n \in Nat /\ y = n /\ x = PartEnd(s, f)
        BY <4>5, <1>3
      <4>7. (f < m - 1 => x + 12 <= y) /\ (f = m - 1 => x = y)
        BY <4>4
      <4> HIDE DEF x, y, z, n
      <4>8. x <= n
        BY <4>3, <4>6, <4>7
      <4> QED
        BY <4>6, <4>8
    <3>3. PartEnd(s, f) = PartEnd(s, f - 1) + s[f] + 12 /\ PartEnd(s, f - 1) \in Nat
      BY <3>1, PartEnds
    <3>4. PartEnd(s, f - 1) + j \in 1 .. n
      <4>1. j \in Nat /\ 1 <= j /\ j <= s[f] + 12 /\ s[f] \in Nat
        BY <3>1
      <4> HIDE DEF n
      <4> QED
        BY <4>1, <3>2, <3>3, <1>3
    <3>5. more[PartEnd(s, f - 1) + j] = r[PartEnd(s, f - 1) + j]
      BY <1>4, <3>4 DEF Joins
    <3> QED
      BY <3>1, <3>5 DEF Holds
  <2> QED
    BY <2>1, <2>2
<1>6. more \in Seq(Piece) /\ Len(more) = PartEnd(s, m)
  BY <1>3, <1>4 DEF Joins
<1>7. Holds(more, s, m)
  BY <1>5, <1>6 DEF Holds
<1> QED
  BY <1>7 DEF more, part

LEMMA PartsLayout ==
  ASSUME NEW s \in Seq(Nat \ {0})
  PROVE  Holds(Parts(s), s, Len(s))
<1> DEFINE n == Len(s)
           parts == [f \in 1 .. Len(s) |-> Part(f, s[f])]
<1>1. n \in Nat /\ \A f \in 1 .. n : s[f] \in Nat /\ f \in Nat
  OBVIOUS
<1>2. parts \in Seq(Seq(Piece)) /\ Len(parts) = n
  <2>1. \A f \in 1 .. Len(s) : Part(f, s[f]) \in Seq(Piece)
    BY <1>1, PartLayout
  <2> QED
    BY <2>1
<1>3. Parts(s) = FlattenSeq(parts)
  BY DEF Parts
<1>4. CASE n = 0
  <2>1. parts = <<>>
    BY <1>4
  <2>2. Parts(s) = <<>>
    BY <1>2, <1>3, <1>4, <2>1 DEF FlattenSeq
  <2>3. PartEnd(s, 0) = 0
    BY PartEnds
  <2>4. <<>> \in Seq(Piece) /\ Len(<<>>) = 0
    OBVIOUS
  <2> QED
    BY <1>4, <2>2, <2>3, <2>4 DEF Holds
<1>5. CASE n # 0
  <2> DEFINE step == [p \in (1 .. n) \X Seq(Piece) |->
                        IF p[1] = 1 THEN parts[1] ELSE p[2] \o parts[p[1]]]
             Flat(h) == h = [i \in 1 .. Len(parts) |->
                               IF i = 1 THEN parts[i] ELSE h[i - 1] \o parts[i]]
  <2>0. \A i \in 1 .. n : parts[i] \in Seq(Piece)
    BY <1>2
  <2>1. step \in [(1 .. n) \X Seq(Piece) -> Seq(Piece)]
    <3> HIDE DEF parts
    <3>1. \A p \in (1 .. n) \X Seq(Piece) : 
            (IF p[1] = 1 THEN parts[1] ELSE p[2] \o parts[p[1]]) \in Seq(Piece)
      <4> TAKE p \in (1 .. n) \X Seq(Piece)
      <4>1. p[1] \in 1 .. n /\ p[2] \in Seq(Piece) /\ 1 \in 1 .. n
        BY <1>1, <1>5
      <4>2. p[2] \o parts[p[1]] \in Seq(Piece)
        BY <4>1, <2>0
      <4> QED
        BY <4>1, <4>2, <2>0
    <3> QED
      BY <3>1
  <2>2. PICK g \in [0 .. n -> Seq(Piece)] : Goes(g, n, <<>>, step)
    <3>1. <<>> \in Seq(Piece)
      OBVIOUS
    <3> HIDE DEF step, n
    <3> QED
      BY <1>1, <2>1, <3>1, Steps
  <2>3. \A i \in 1 .. n : g[i] = IF i = 1 THEN parts[i] ELSE g[i - 1] \o parts[i]
    <3> HIDE DEF parts
    <3> TAKE i \in 1 .. n
    <3>1. i - 1 \in 0 .. n
      OBVIOUS
    <3>2. g[i - 1] \in Seq(Piece)
      BY <3>1
    <3>3. <<i, g[i - 1]>> \in (1 .. n) \X Seq(Piece)
      BY <3>2
    <3>4. step[<<i, g[i - 1]>>] = IF i = 1 THEN parts[1] ELSE g[i - 1] \o parts[i]
      BY <3>3
    <3> QED
      BY <2>2, <3>4 DEF Goes
  <2>4. Flat([i \in 1 .. n |-> g[i]])
    <3> DEFINE cut == [i \in 1 .. n |-> g[i]]
    <3> HIDE DEF parts
    <3>1. \A i \in 1 .. n : cut[i] = IF i = 1 THEN parts[i] ELSE cut[i - 1] \o parts[i]
      <4> TAKE i \in 1 .. n
      <4>1. i # 1 => i - 1 \in 1 .. n
        OBVIOUS
      <4> QED
        BY <2>3, <4>1
    <3>2. cut = [i \in 1 .. n |-> cut[i]]
      OBVIOUS
    <3>3. cut = [i \in 1 .. n |-> IF i = 1 THEN parts[i] ELSE cut[i - 1] \o parts[i]]
      <4> HIDE DEF cut
      <4> QED
        BY <3>1, <3>2
    <3>4. Len(parts) = n
      BY <1>2
    <3>5. Flat(cut)
      <4> HIDE DEF cut, n
      <4> QED
        BY <3>3, <3>4, Zenon
    <3> QED
      BY <3>5
  <2>5. PICK h : Flat(h) /\ Parts(s) = h[n]
    <3>1. \E h : Flat(h)
      BY <2>4
    <3> QED
      BY <3>1, <1>2, <1>3, <1>5 DEF FlattenSeq
  <2>6. \A i \in 1 .. n : h[i] = IF i = 1 THEN parts[i] ELSE h[i - 1] \o parts[i]
    BY <2>5, <1>2
  <2> DEFINE Good == {i \in Nat : i \in 1 .. n => Holds(h[i], s, i)}
  <2>7. 0 \in Good
    OBVIOUS
  <2>8. ASSUME NEW i \in 1 .. n, i - 1 \in Good
        PROVE  i \in Good
    <3>1. parts[i] = Part(i, s[i]) /\ i \in 1 .. Len(s)
      OBVIOUS
    <3>2. CASE i = 1
      <4>1. h[1] = Part(1, s[1])
        BY <2>6, <3>1, <3>2
      <4>2. Holds(<<>>, s, 0)
        <5>1. <<>> \in Seq(Piece) /\ Len(<<>>) = 0
          OBVIOUS
        <5> QED
          BY <5>1, PartEnds DEF Holds
      <4>3. 1 \in 1 .. Len(s) /\ 1 - 1 = 0
        BY <3>2
      <4>4. Holds(<<>> \o Part(1, s[1]), s, 1)
        BY <4>2, <4>3, HoldsOneMore
      <4>5. <<>> \o Part(1, s[1]) = Part(1, s[1])
        BY <4>3, <1>1, PartLayout, ConcatEmptySeq
      <4> QED
        BY <4>1, <4>4, <4>5, <3>2
    <3>3. CASE i # 1
      <4>1. i - 1 \in 1 .. n
        BY <3>3
      <4>2. Holds(h[i - 1], s, i - 1)
        BY <4>1, <2>8
      <4>3. Holds(h[i - 1] \o Part(i, s[i]), s, i)
        BY <3>1, <4>2, HoldsOneMore
      <4>4. h[i] = h[i - 1] \o Part(i, s[i])
        <5> HIDE DEF parts
        <5> QED
          BY <2>6, <3>1, <3>3
      <4>5. Holds(h[i], s, i)
        <5> HIDE DEF Good
        <5> QED
          BY <4>3, <4>4, Zenon
      <4> QED
        BY <4>5
    <3> QED
      BY <3>2, <3>3
  <2>9. 0 .. n \subseteq Good
    <3>1. Good \in SUBSET Nat
      OBVIOUS
    <3> HIDE DEF Good, n
    <3> QED
      BY <1>1, <2>7, <2>8, <3>1, UpTo
  <2>10. n \in Good /\ n \in 1 .. n
    BY <1>1, <1>5, <2>9
  <2> QED
    BY <2>5, <2>10
<1> QED
  BY <1>4, <1>5

------------------------------------------------------------------------------
(* Where things stand in a stream *)

LEMMA Distinct ==
  /\ Boundary[1] \notin {Boundary[2], Boundary[3], CR, LF, EndMark, Preamble}
  /\ CR \notin {Boundary[2], Boundary[3], LF, EndMark, Preamble}
  /\ LF \notin {Boundary[2], Boundary[3], EndMark, Preamble}
  /\ EndMark \notin {Boundary[2], Boundary[3], Preamble}
  /\ \A p \in {Boundary[1], Boundary[2], Boundary[3], CR, LF, EndMark, Preamble} :
       /\ ~ IsLength(p)
       /\ \A n : p # <<"length", n>>
       /\ \A f, k : p # <<"jpeg", f, k>>
  /\ \A n : IsLength(<<"length", n>>)
  /\ \A f, k : ~ IsLength(<<"jpeg", f, k>>)
<1>1. /\ Boundary[1] = <<"b1">> /\ Boundary[2] = <<"b2">> /\ Boundary[3] = <<"b3">>
      /\ CR = <<"cr">> /\ LF = <<"lf">> /\ EndMark = <<"--">> /\ Preamble = <<"http">>
  BY DEF Boundary, CR, LF, EndMark, Preamble
<1>2. /\ Boundary[1][1] = "b1" /\ Boundary[2][1] = "b2" /\ Boundary[3][1] = "b3"
      /\ CR[1] = "cr" /\ LF[1] = "lf" /\ EndMark[1] = "--" /\ Preamble[1] = "http"
  BY <1>1
<1>3. \A n : <<"length", n>>[1] = "length"
  OBVIOUS
<1>4. \A f, k : <<"jpeg", f, k>>[1] = "jpeg"
  OBVIOUS
<1> QED
  BY <1>2, <1>3, <1>4 DEF IsLength

(* S is the stream of frames of the sizes s, with the response headers      *)
(* before it if h, and an end marker behind it if e; z[f] is where the part *)
(* of frame f ends.                                                         *)
Laid(S, z, s, h, e) ==
  /\ S \in Seq(Piece) /\ s \in Seq(Nat \ {0}) /\ h \in BOOLEAN /\ e \in BOOLEAN
  /\ z \in [0 .. Len(s) -> Nat]
  /\ z[0] = IF h THEN 8 ELSE 0
  /\ \A f \in 1 .. Len(s) : z[f] = z[f - 1] + s[f] + 12
  /\ Len(S) = z[Len(s)] + IF e THEN 4 ELSE 0
  /\ h => /\ S[1] = Preamble
          /\ S[2] = Boundary[1] /\ S[3] = Boundary[2] /\ S[4] = Boundary[3]
          /\ S[5] = CR /\ S[6] = LF /\ S[7] = CR /\ S[8] = LF
  /\ \A f \in 1 .. Len(s) : \A j \in 1 .. s[f] + 12 :
       S[z[f - 1] + j] = Part(f, s[f])[j]
  /\ LET t == z[Len(s)]
     IN  e => /\ S[t + 1] = Boundary[1] /\ S[t + 2] = Boundary[2]
              /\ S[t + 3] = Boundary[3] /\ S[t + 4] = EndMark

(* Where the part of frame f ends in the stream. *)
PartsEnd == [f \in 0 .. Len(sizes) |-> Len(ResponseHead) + PartEnd(sizes, f)]

LEMMA StreamLaid ==
  ASSUME sizes \in Seq(Nat \ {0}), headed \in BOOLEAN, endMarked \in BOOLEAN
  PROVE  Laid(Stream, PartsEnd, sizes, headed, endMarked)
<1> DEFINE n == Len(sizes)
           hs == IF headed THEN 8 ELSE 0
           ps == PartEnd(sizes, n)
           ts == IF endMarked THEN 4 ELSE 0
           r1 == <<Preamble>> \o Boundary
           r2 == r1 \o CRLF
           r3 == r2 \o CRLF
           m  == Boundary \o <<EndMark>>
           tail == IF endMarked THEN m ELSE <<>>
           front == ResponseHead \o Parts(sizes)
           whole == front \o tail
<1>0. n \in Nat /\ \A f \in 1 .. n : sizes[f] \in Nat /\ f - 1 \in 0 .. n
  OBVIOUS
<1>1. /\ r3 \in Seq(Piece) /\ Len(r3) = 8
      /\ r3[1] = Preamble
      /\ r3[2] = Boundary[1] /\ r3[3] = Boundary[2] /\ r3[4] = Boundary[3]
      /\ r3[5] = CR /\ r3[6] = LF /\ r3[7] = CR /\ r3[8] = LF
  <2>1. Joins(r1, <<Preamble>>, 1, Boundary, 3)
    BY Literals, Joined
  <2> HIDE DEF r1
  <2>2. /\ r1 \in Seq(Piece) /\ Len(r1) = 4 /\ r1[1] = Preamble
        /\ r1[2] = Boundary[1] /\ r1[3] = Boundary[2] /\ r1[4] = Boundary[3]
    BY <2>1, Literals DEF Joins
  <2>3. Joins(r2, r1, 4, CRLF, 2)
    BY <2>2, Literals, Joined
  <2> HIDE DEF r2
  <2>4. /\ r2 \in Seq(Piece) /\ Len(r2) = 6 /\ \A i \in 1 .. 4 : r2[i] = r1[i]
        /\ r2[5] = CR /\ r2[6] = LF
    BY <2>3, Literals DEF Joins
  <2>5. Joins(r3, r2, 6, CRLF, 2)
    BY <2>4, Literals, Joined
  <2> HIDE DEF r3
  <2>6. /\ r3 \in Seq(Piece) /\ Len(r3) = 8 /\ \A i \in 1 .. 6 : r3[i] = r2[i]
        /\ r3[7] = CR /\ r3[8] = LF
    BY <2>5, Literals DEF Joins
  <2> QED
    BY <2>2, <2>4, <2>6
<1>2. /\ m \in Seq(Piece) /\ Len(m) = 4
      /\ m[1] = Boundary[1] /\ m[2] = Boundary[2] /\ m[3] = Boundary[3]
      /\ m[4] = EndMark
  <2>1. Joins(m, Boundary, 3, <<EndMark>>, 1)
    BY Literals, Joined
  <2> HIDE DEF m
  <2> QED
    BY <2>1, Literals DEF Joins
<1>3. ResponseHead = IF headed THEN r3 ELSE <<>>
  BY DEF ResponseHead
<1> HIDE DEF r3, m
<1>4. ResponseHead \in Seq(Piece) /\ Len(ResponseHead) = hs
  <2>1. <<>> \in Seq(Piece) /\ Len(<<>>) = 0
    OBVIOUS
  <2>2. CASE headed
    BY <1>1, <1>3, <2>2
  <2>3. CASE ~ headed
    BY <1>3, <2>1, <2>3
  <2> QED
    BY <2>2, <2>3
<1>5. tail \in Seq(Piece) /\ Len(tail) = ts
  <2>1. <<>> \in Seq(Piece) /\ Len(<<>>) = 0
    OBVIOUS
  <2>2. CASE endMarked
    BY <1>2, <2>2
  <2>3. CASE ~ endMarked
    BY <2>1, <2>3
  <2> QED
    BY <2>2, <2>3
<1>6. Holds(Parts(sizes), sizes, n)
  BY PartsLayout
<1>7. Parts(sizes) \in Seq(Piece) /\ Len(Parts(sizes)) = ps /\ ps \in Nat
  BY <1>6, <1>0, PartEnds DEF Holds
<1> HIDE DEF tail
<1>8. Joins(front, ResponseHead, hs, Parts(sizes), ps)
  <2>1. Len(ResponseHead) = hs /\ Len(Parts(sizes)) = ps
    BY <1>4, <1>7
  <2> HIDE DEF hs, ps
  <2> QED
    BY <1>4, <1>7, <2>1, Joined
<1> HIDE DEF front
<1>9. front \in Seq(Piece) /\ Len(front) = hs + ps
  BY <1>8 DEF Joins
<1>10. Joins(whole, front, hs + ps, tail, ts)
  <2>1. Len(front) = hs + ps /\ Len(tail) = ts
    BY <1>5, <1>9
  <2> HIDE DEF hs, ps, ts
  <2> QED
    BY <1>5, <1>9, <2>1, Joined
<1>11. Stream = whole
  BY DEF Stream, whole, front, tail, m
<1> HIDE DEF whole, ps
<1>12. \A f \in 0 .. n : PartsEnd[f] = hs + PartEnd(sizes, f) /\ PartEnd(sizes, f) \in Nat
  BY <1>4, PartEnds DEF PartsEnd
<1>13. PartsEnd \in [0 .. n -> Nat]
  <2>1. \A f \in 0 .. n : Len(ResponseHead) + PartEnd(sizes, f) \in Nat
    BY <1>4, PartEnds
  <2> QED
    BY <2>1 DEF PartsEnd
<1>14. PartsEnd[0] = hs /\ PartsEnd[n] = hs + ps
  BY <1>0, <1>12, PartEnds DEF ps
<1>15. ASSUME NEW f \in 1 .. n
       PROVE  PartsEnd[f] = PartsEnd[f - 1] + sizes[f] + 12
  <2>1. f \in 0 .. n /\ f - 1 \in 0 .. n /\ sizes[f] \in Nat
    BY <1>0
  <2>2. PartEnd(sizes, f) = PartEnd(sizes, f - 1) + sizes[f] + 12
    BY PartEnds
  <2>3. hs \in Nat
    OBVIOUS
  <2>4. /\ PartsEnd[f] = hs + PartEnd(sizes, f) /\ PartsEnd[f - 1] = hs + PartEnd(sizes, f - 1)
        /\ PartEnd(sizes, f - 1) \in Nat
    BY <1>12, <2>1
  <2> HIDE DEF hs
  <2> QED
    BY <2>1, <2>2, <2>3, <2>4
<1>16. whole \in Seq(Piece) /\ Len(whole) = PartsEnd[n] + ts
  BY <1>10, <1>14 DEF Joins
<1>17. ASSUME headed, NEW i \in 1 .. 8
       PROVE  whole[i] = r3[i]
  <2>1. i \in 1 .. hs /\ i \in 1 .. hs + ps
    BY <1>7, <1>17
  <2> HIDE DEF hs, ps
  <2>2. whole[i] = front[i] /\ front[i] = ResponseHead[i]
    BY <1>8, <1>10, <2>1 DEF Joins
  <2> QED
    BY <1>3, <1>17, <2>2
<1>18. ASSUME endMarked, NEW i \in 1 .. 4
       PROVE  whole[PartsEnd[n] + i] = m[i]
  BY <1>10, <1>14, <1>18 DEF Joins, tail
<1>19. ASSUME NEW f \in 1 .. n, NEW j \in 1 .. sizes[f] + 12
       PROVE  whole[PartsEnd[f - 1] + j] = Part(f, sizes[f])[j]
  <2>1. f \in 0 .. n /\ f - 1 \in 0 .. n /\ sizes[f] \in Nat
    BY <1>0
  <2>2. PartsEnd[f] <= PartsEnd[n]
    <3>1. \A i \in 1 .. n : PartsEnd[i - 1] + 12 <= PartsEnd[i]
      <4> TAKE i \in 1 .. n
      <4>1. /\ PartsEnd[i] = PartsEnd[i - 1] + sizes[i] + 12 /\ sizes[i] \in Nat
            /\ PartsEnd[i - 1] \in Nat
        BY <1>0, <1>13, <1>15
      <4> QED
        BY <4>1
    <3>2. \A i, k \in 0 .. n : i < k => PartsEnd[i] + 12 <= PartsEnd[k]
      <4> HIDE DEF n
      <4> QED
        BY <1>0, <1>13, <3>1, Increasing
    <3>3. PartsEnd[f] \in Nat /\ PartsEnd[n] \in Nat /\ n \in 0 .. n /\ (f = n \/ f < n)
      BY <1>0, <1>13, <2>1
    <3> QED
      BY <3>2, <3>3, <2>1
  <2>3. PartEnd(sizes, f - 1) + j \in 1 .. ps /\ PartsEnd[f - 1] + j = hs + (PartEnd(sizes, f - 1) + j)
    <3>1. /\ PartsEnd[f - 1] = hs + PartEnd(sizes, f - 1) /\ PartEnd(sizes, f - 1) \in Nat
          /\ PartsEnd[f] = PartsEnd[f - 1] + sizes[f] + 12
      BY <2>1, <1>12, <1>15
    <3>2. hs \in Nat /\ j \in Nat /\ 1 <= j /\ j <= sizes[f] + 12
      BY <2>1
    <3> DEFINE p == PartEnd(sizes, f - 1)
               l == sizes[f]
               x == PartsEnd[f - 1]
               y == PartsEnd[f]
               w == PartsEnd[n]
    <3>3. /\ hs \in Nat /\ p \in Nat /\ l \in Nat /\ ps \in Nat
          /\ j \in Nat /\ 1 <= j /\ j <= l + 12
          /\ x = hs + p /\ y = x + l + 12 /\ y <= w /\ w = hs + ps
      BY <3>1, <3>2, <2>1, <2>2, <1>14, <1>7
    <3> HIDE DEF hs, p, l, x, y, w
    <3>4. p + j \in 1 .. ps /\ x + j = hs + (p + j)
      BY <3>3
    <3> QED
      BY <3>4 DEF p, x
  <2> DEFINE i == PartEnd(sizes, f - 1) + j
  <2>4. Parts(sizes)[i] = Part(f, sizes[f])[j]
    BY <1>6 DEF Holds
  <2>5. i \in 1 .. ps
    BY <2>3
  <2>6. hs + i \in 1 .. hs + ps
    BY <2>5, <1>7
  <2> HIDE DEF i, hs
  <2>7. whole[hs + i] = front[hs + i] /\ front[hs + i] = Parts(sizes)[i]
    BY <1>8, <1>10, <2>5, <2>6 DEF Joins
  <2> QED
    BY <2>3, <2>4, <2>7 DEF i
<1> HIDE DEF whole
<1>20. headed => /\ whole[1] = Preamble
          /\ whole[2] = Boundary[1] /\ whole[3] = Boundary[2] /\ whole[4] = Boundary[3]
          /\ whole[5] = CR /\ whole[6] = LF /\ whole[7] = CR /\ whole[8] = LF
  BY <1>1, <1>17
<1>21. LET t == PartsEnd[n]
       IN  endMarked => /\ whole[t + 1] = Boundary[1] /\ whole[t + 2] = Boundary[2]
              /\ whole[t + 3] = Boundary[3] /\ whole[t + 4] = EndMark
  BY <1>2, <1>18
<1> QED
  BY <1>11, <1>13, <1>14, <1>15, <1>16, <1>19, <1>20, <1>21 DEF Laid

(* Parts follow one another, each at least twelve pieces long. *)
LEMMA EndsIncrease ==
  ASSUME NEW S, NEW z, NEW s, NEW h, NEW e, Laid(S, z, s, h, e)
  PROVE  /\ Len(s) \in Nat /\ Len(S) \in Nat
         /\ \A f \in 1 .. Len(s) : /\ s[f] \in Nat /\ s[f] > 0
                                   /\ f - 1 \in 0 .. Len(s) /\ f \in 0 .. Len(s)
                                   /\ z[f - 1] \in Nat /\ z[f] \in Nat
                                   /\ z[f] = z[f - 1] + s[f] + 12
         /\ \A f, g \in 0 .. Len(s) : f < g => z[f] + 12 <= z[g]
         /\ \A f \in 0 .. Len(s) : /\ z[f] \in Nat /\ z[0] <= z[f]
                                   /\ z[f] <= z[Len(s)] /\ z[f] <= Len(S)
<1> DEFINE n == Len(s)
<1>1. /\ n \in Nat /\ Len(S) \in Nat
      /\ z \in [0 .. n -> Nat] /\ Len(S) = z[n] + IF e THEN 4 ELSE 0
  BY DEF Laid
<1>2. \A f \in 1 .. n : s[f] \in Nat /\ s[f] > 0
  BY DEF Laid
<1> HIDE DEF n
<1>3. ASSUME NEW f \in 1 .. n
      PROVE  /\ f - 1 \in 0 .. n /\ f \in 0 .. n /\ z[f - 1] \in Nat /\ z[f] \in Nat
             /\ z[f] = z[f - 1] + s[f] + 12
  <2>1. f - 1 \in 0 .. n /\ f \in 0 .. n
    BY <1>1
  <2>2. z[f] = z[f - 1] + s[f] + 12
    BY DEF Laid, n
  <2> QED
    BY <1>1, <2>1, <2>2
<1>4. \A f \in 1 .. n : z[f - 1] + 12 <= z[f]
  BY <1>2, <1>3
<1>5. \A f, g \in 0 .. n : f < g => z[f] + 12 <= z[g]
  BY <1>1, <1>4, Increasing
<1>6. ASSUME NEW f \in 0 .. n
      PROVE  z[f] \in Nat /\ z[0] <= z[f] /\ z[f] <= z[n] /\ z[f] <= Len(S)
  <2>1. 0 \in 0 .. n /\ n \in 0 .. n /\ (f = 0 \/ 0 < f) /\ (f = n \/ f < n)
    BY <1>1
  <2>2. z[f] \in Nat /\ z[0] \in Nat /\ z[n] \in Nat
    BY <1>1, <2>1
  <2>3. z[0] <= z[f] /\ z[f] <= z[n]
    BY <1>5, <2>1, <2>2
  <2>4. z[n] <= Len(S)
    BY <1>1, <2>2
  <2> QED
    BY <1>1, <2>2, <2>3, <2>4
<1> QED
  BY <1>1, <1>2, <1>3, <1>5, <1>6 DEF n

(* Behind position a comes the part of frame f, whose data is n pieces long. *)
PartAt(S, a, f, n) ==
  /\ S[a + 1] = Boundary[1] /\ S[a + 2] = Boundary[2] /\ S[a + 3] = Boundary[3]
  /\ S[a + 4] = CR /\ S[a + 5] = LF /\ S[a + 6] = <<"length", n>>
  /\ S[a + 7] = CR /\ S[a + 8] = LF /\ S[a + 9] = CR /\ S[a + 10] = LF
  /\ \A k \in 1 .. n : S[a + 10 + k] = <<"jpeg", f, k>>
  /\ S[a + n + 11] = CR /\ S[a + n + 12] = LF

LEMMA PieceOfPart ==
  ASSUME NEW S, NEW z, NEW s, NEW h, NEW e, Laid(S, z, s, h, e),
         NEW f \in 1 .. Len(s)
  PROVE  PartAt(S, z[f - 1], f, s[f])
<1> DEFINE a == z[f - 1]
           n == s[f]
           p == Part(f, n)
<1>1. f \in Nat /\ n \in Nat /\ a \in Nat
  BY EndsIncrease
<1>2. \A j \in 1 .. n + 12 : S[a + j] = p[j]
  BY DEF Laid
<1>3. /\ p[1] = Boundary[1] /\ p[2] = Boundary[2] /\ p[3] = Boundary[3]
      /\ p[4] = CR /\ p[5] = LF /\ p[6] = <<"length", n>>
      /\ p[7] = CR /\ p[8] = LF /\ p[9] = CR /\ p[10] = LF
      /\ \A k \in 1 .. n : p[10 + k] = <<"jpeg", f, k>>
      /\ p[n + 11] = CR /\ p[n + 12] = LF
  BY <1>1, PartLayout
<1> HIDE DEF p, n, a
<1>4. \A k \in 1 .. n : 10 + k \in 1 .. n + 12 /\ a + (10 + k) = a + 10 + k
  BY <1>1
<1>5. /\ n + 11 \in 1 .. n + 12 /\ a + (n + 11) = a + n + 11
      /\ n + 12 \in 1 .. n + 12 /\ a + (n + 12) = a + n + 12
  BY <1>1
<1>6. \A k \in 1 .. n : S[a + 10 + k] = <<"jpeg", f, k>>
  BY <1>2, <1>3, <1>4
<1>7. S[a + n + 11] = CR /\ S[a + n + 12] = LF
  BY <1>2, <1>3, <1>5
<1>8. 1 .. 10 \subseteq 1 .. n + 12
  BY <1>1
<1>9. PartAt(S, a, f, n)
  BY <1>2, <1>3, <1>6, <1>7, <1>8 DEF PartAt
<1> QED
  BY <1>9 DEF a, n

(* Every piece belongs to the head, to a part or to the tail. *)
LEMMA Places ==
  ASSUME NEW S, NEW z, NEW s, NEW h, NEW e, Laid(S, z, s, h, e),
         NEW p \in 1 .. Len(S)
  PROVE  \/ h /\ p \in 1 .. 8
         \/ \E f \in 1 .. Len(s) : \E j \in 1 .. s[f] + 12 : p = z[f - 1] + j
         \/ e /\ \E j \in 1 .. 4 : p = z[Len(s)] + j
<1> DEFINE n == Len(s)
<1>1. n \in Nat /\ Len(S) \in Nat /\ z[n] \in Nat /\ z[0] \in Nat
  <2>1. n \in Nat /\ Len(S) \in Nat /\ \A f \in 0 .. n : z[f] \in Nat
    BY EndsIncrease
  <2>2. 0 \in 0 .. n /\ n \in 0 .. n
    BY <2>1
  <2> QED
    BY <2>1, <2>2
<1>0. z[0] = (IF h THEN 8 ELSE 0) /\ Len(S) = z[n] + IF e THEN 4 ELSE 0
  BY DEF Laid
<1> HIDE DEF n
<1>2. CASE p <= z[0]
  <2>1. h
    BY <1>0, <1>2
  <2> QED
    BY <1>0, <1>2, <2>1
<1>3. CASE p > z[n]
  <2>1. e
    BY <1>0, <1>1, <1>3
  <2> DEFINE j == p - z[n]
  <2>2. j \in 1 .. 4 /\ p = z[n] + j
    BY <1>0, <1>1, <1>3, <2>1
  <2> QED
    BY <2>1, <2>2 DEF n
<1>4. CASE z[0] < p /\ p <= z[n]
  <2> DEFINE K == {f \in 0 .. n : p <= z[f]}
  <2>1. K \subseteq Nat /\ n \in K
    BY <1>1, <1>4
  <2>2. PICK f \in K : \A g \in K : f <= g
    <3> HIDE DEF K
    <3> QED
      BY <2>1, LeastElement
  <2>3. f # 0
    BY <1>1, <1>4, <2>2
  <2>4. f \in 1 .. n /\ f - 1 \in 0 .. n /\ ~ (f <= f - 1)
    BY <1>1, <2>2, <2>3
  <2>5. /\ s[f] \in Nat /\ z[f - 1] \in Nat /\ z[f] = z[f - 1] + s[f] + 12
        /\ p <= z[f]
    BY <2>2, <2>4, EndsIncrease DEF n
  <2>6. ~ (p <= z[f - 1])
    BY <2>2, <2>4
  <2> DEFINE j == p - z[f - 1]
  <2>7. j \in 1 .. s[f] + 12 /\ p = z[f - 1] + j
    BY <2>5, <2>6
  <2> QED
    BY <2>4, <2>7 DEF n
<1> QED
  BY <1>1, <1>2, <1>3, <1>4

(* What a piece of a part says about its place there. *)
LEMMA PlaceInPart ==
  ASSUME NEW S, NEW z, NEW s, NEW h, NEW e, Laid(S, z, s, h, e),
         NEW f \in 1 .. Len(s), NEW j \in 1 .. s[f] + 12, NEW p, p = z[f - 1] + j
  PROVE  /\ S[p] = Boundary[1] => j = 1
         /\ IsLength(S[p]) => j = 6
         /\ S[p] = CR => j \in {4, 7, 9, s[f] + 11}
<1> DEFINE a == z[f - 1]
<1>1. /\ s[f] \in Nat /\ s[f] > 0 /\ a \in Nat /\ z[f] = a + s[f] + 12
  BY EndsIncrease
<1>2. PartAt(S, a, f, s[f])
  BY PieceOfPart
<1> HIDE DEF a
<1>3. p = a + j
  BY DEF a
<1>4. CASE j \in 11 .. s[f] + 10
  <2>1. j - 10 \in 1 .. s[f] /\ p = a + 10 + (j - 10)
    BY <1>1, <1>3, <1>4
  <2>2. S[p] = <<"jpeg", f, j - 10>>
    BY <1>2, <2>1 DEF PartAt
  <2> QED
    BY <2>2, Distinct
<1>5. CASE j = s[f] + 11
  <2>1. p = a + s[f] + 11
    BY <1>1, <1>3, <1>5
  <2> QED
    BY <1>2, <1>5, <2>1, Distinct DEF PartAt
<1>6. CASE j = s[f] + 12
  <2>1. p = a + s[f] + 12
    BY <1>1, <1>3, <1>6
  <2>2. S[p] = LF
    BY <1>2, <2>1 DEF PartAt
  <2> QED
    BY <2>2, Distinct
<1>7. CASE j \in 1 .. 10
  <2>1. CASE j \in {2, 3, 5, 8, 10}
    <3>1. S[p] \in {Boundary[2], Boundary[3], LF}
      BY <1>2, <1>3, <2>1 DEF PartAt
    <3> QED
      BY <3>1, Distinct
  <2>2. CASE j \in {4, 7, 9}
    <3>1. S[p] = CR
      BY <1>2, <1>3, <2>2 DEF PartAt
    <3> QED
      BY <3>1, <2>2, Distinct
  <2>3. CASE j = 1
    <3>1. S[p] = Boundary[1]
      BY <1>2, <1>3, <2>3 DEF PartAt
    <3> QED
      BY <3>1, <2>3, Distinct
  <2>4. CASE j = 6
    <3>1. S[p] = <<"length", s[f]>>
      BY <1>2, <1>3, <2>4 DEF PartAt
    <3>2. S[p] # Boundary[1] /\ S[p] # CR
      BY <3>1, Distinct
    <3> QED
      BY <3>2, <2>4
  <2> QED
    BY <1>7, <2>1, <2>2, <2>3, <2>4
<1>8. \/ j \in 1 .. 10
      \/ j \in 11 .. s[f] + 10
      \/ j = s[f] + 11
      \/ j = s[f] + 12
  <2> DEFINE n == s[f]
  <2>1. n \in Nat /\ j \in 1 .. n + 12
    BY <1>1
  <2> HIDE DEF n
  <2>2. j \in 1 .. 10 \/ j \in 11 .. n + 10 \/ j = n + 11 \/ j = n + 12
    BY <2>1
  <2> QED
    BY <2>2 DEF n
<1> QED
  BY <1>4, <1>5, <1>6, <1>7, <1>8

(* What stands before the first part. *)
LEMMA PlaceInHead ==
  ASSUME NEW S, NEW z, NEW s, NEW h, NEW e, Laid(S, z, s, h, e), h,
         NEW p \in 1 .. 8
  PROVE  /\ S[p] = Boundary[1] => p = 2
         /\ S[p] = CR => p \in {5, 7}
         /\ ~ IsLength(S[p])
<1>1. /\ S[1] = Preamble
      /\ S[2] = Boundary[1] /\ S[3] = Boundary[2] /\ S[4] = Boundary[3]
      /\ S[5] = CR /\ S[6] = LF /\ S[7] = CR /\ S[8] = LF
  BY DEF Laid
<1>2. CASE p \in {1, 3, 4, 6, 8}
  <2>1. S[p] \in {Preamble, Boundary[2], Boundary[3], LF}
    BY <1>1, <1>2
  <2> QED
    BY <2>1, Distinct
<1>3. CASE p \in {5, 7}
  <2>1. S[p] = CR
    BY <1>1, <1>3
  <2> QED
    BY <2>1, <1>3, Distinct
<1>4. CASE p = 2
  <2>1. S[p] = Boundary[1]
    BY <1>1, <1>4
  <2> QED
    BY <2>1, <1>4, Distinct
<1> QED
  BY <1>2, <1>3, <1>4

(* What stands behind the last part. *)
TailPiece(x, j) ==
  /\ x = Boundary[1] => j = 1
  /\ x # CR
  /\ ~ IsLength(x)

LEMMA PlaceInTail ==
  ASSUME NEW S, NEW z, NEW s, NEW h, NEW e, Laid(S, z, s, h, e), e,
         NEW j \in 1 .. 4, NEW p, p = z[Len(s)] + j
  PROVE  TailPiece(S[p], j)
<1> DEFINE t == z[Len(s)]
<1>1. /\ S[t + 1] = Boundary[1] /\ S[t + 2] = Boundary[2]
      /\ S[t + 3] = Boundary[3] /\ S[t + 4] = EndMark
  BY DEF Laid
<1> HIDE DEF t
<1>2. CASE j = 1
  <2>1. S[t + j] = Boundary[1]
    BY <1>1, <1>2
  <2> QED
    BY <2>1, <1>2, Distinct DEF t, TailPiece
<1>3. CASE j \in {2, 3, 4}
  <2>1. S[t + j] \in {Boundary[2], Boundary[3], EndMark}
    BY <1>1, <1>3
  <2> QED
    BY <2>1, Distinct DEF t, TailPiece
<1> QED
  BY <1>2, <1>3

(* Behind a part, or where the first begins, comes a boundary or nothing. *)
LEMMA BehindPart ==
  ASSUME NEW S, NEW z, NEW s, NEW h, NEW e, Laid(S, z, s, h, e),
         NEW f \in 0 .. Len(s), z[f] + 1 <= Len(S)
  PROVE  S[z[f] + 1] = Boundary[1]
<1>1. Len(s) \in Nat /\ z[f] \in Nat
  BY EndsIncrease
<1>2. CASE f = Len(s)
  <2>1. e
    BY <1>1, <1>2 DEF Laid
  <2> QED
    BY <1>2, <2>1 DEF Laid
<1>3. CASE f # Len(s)
  <2>1. f + 1 \in 1 .. Len(s) /\ f + 1 - 1 = f
    BY <1>1, <1>3
  <2> QED
    BY <2>1, PieceOfPart DEF PartAt
<1> QED
  BY <1>2, <1>3

(* The places where boundaries are. *)
LEMMA BoundaryAt ==
  ASSUME NEW S, NEW z, NEW s, NEW h, NEW e, Laid(S, z, s, h, e),
         NEW p \in 1 .. Len(S)
  PROVE  S[p] = Boundary[1] =>
           \/ h /\ p = 2
           \/ \E f \in 1 .. Len(s) : p = z[f - 1] + 1
           \/ e /\ p = z[Len(s)] + 1
<1>1. CASE h /\ p \in 1 .. 8
  BY <1>1, PlaceInHead
<1>2. CASE \E f \in 1 .. Len(s) : \E j \in 1 .. s[f] + 12 : p = z[f - 1] + j
  <2>1. PICK f \in 1 .. Len(s) : \E j \in 1 .. s[f] + 12 : p = z[f - 1] + j
    BY <1>2
  <2>2. PICK j \in 1 .. s[f] + 12 : p = z[f - 1] + j
    BY <2>1
  <2>3. S[p] = Boundary[1] => j = 1
    BY <2>2, PlaceInPart
  <2> QED
    BY <2>2, <2>3
<1>3. CASE e /\ \E j \in 1 .. 4 : p = z[Len(s)] + j
  <2>1. PICK j \in 1 .. 4 : p = z[Len(s)] + j
    BY <1>3
  <2>2. TailPiece(S[p], j)
    BY <1>3, <2>1, PlaceInTail, Zenon
  <2> QED
    BY <1>3, <2>1, <2>2 DEF TailPiece
<1> QED
  BY <1>1, <1>2, <1>3, Places

(* The places where part headers end. *)
LEMMA HeadersEndAt ==
  ASSUME NEW S, NEW z, NEW s, NEW h, NEW e, Laid(S, z, s, h, e),
         NEW p \in 1 .. Len(S), p + 2 <= Len(S), S[p] = CR, S[p + 2] = CR
  PROVE  \/ h /\ p = 5
         \/ \E f \in 1 .. Len(s) : p = z[f - 1] + 7
<1>0. Len(S) \in Nat
  BY EndsIncrease
<1>1. ASSUME NEW f \in 0 .. Len(s)
      PROVE  p + 2 # z[f] + 1
  <2>1. z[f] + 1 <= Len(S) => S[z[f] + 1] = Boundary[1]
    BY BehindPart
  <2> QED
    BY <2>1, Distinct
<1>2. CASE h /\ p \in 1 .. 8
  <2>1. p \in {5, 7}
    BY <1>2, PlaceInHead
  <2>2. p = 7 => p + 2 = z[0] + 1
    BY <1>2 DEF Laid
  <2>3. 0 \in 0 .. Len(s)
    BY EndsIncrease
  <2> QED
    BY <1>1, <1>2, <2>1, <2>2, <2>3
<1>3. CASE \E f \in 1 .. Len(s) : \E j \in 1 .. s[f] + 12 : p = z[f - 1] + j
  <2>1. PICK f \in 1 .. Len(s) : \E j \in 1 .. s[f] + 12 : p = z[f - 1] + j
    BY <1>3
  <2>2. PICK j \in 1 .. s[f] + 12 : p = z[f - 1] + j
    BY <2>1
  <2>3. j \in {4, 7, 9, s[f] + 11}
    BY <2>2, PlaceInPart
  <2> DEFINE a == z[f - 1]
  <2>4. /\ s[f] \in Nat /\ s[f] > 0 /\ a \in Nat /\ z[f] = a + s[f] + 12
        /\ f \in 0 .. Len(s)
    BY EndsIncrease
  <2>5. PartAt(S, a, f, s[f])
    BY PieceOfPart
  <2>6. p = a + j
    BY <2>2
  <2> HIDE DEF a
  <2>7. j # 4
    <3>1. j = 4 => p + 2 = a + 6
      BY <2>4, <2>6
    <3> QED
      BY <3>1, <2>5, Distinct DEF PartAt
  <2>8. j # 9
    <3>1. j = 9 => p + 2 = a + 10 + 1
      BY <2>4, <2>6
    <3>2. 1 \in 1 .. s[f]
      BY <2>4
    <3>3. S[a + 10 + 1] = <<"jpeg", f, 1>>
      BY <3>2, <2>5, Zenon DEF PartAt
    <3>4. S[a + 10 + 1] # CR
      BY <3>3, Distinct
    <3> QED
      BY <3>1, <3>4
  <2>9. j # s[f] + 11
    <3>1. j = s[f] + 11 => p + 2 = z[f] + 1
      BY <2>4, <2>6
    <3> QED
      BY <3>1, <1>1, <2>4
  <2>10. p = z[f - 1] + 7
    BY <2>3, <2>6, <2>7, <2>8, <2>9 DEF a
  <2> QED
    BY <2>10
<1>4. CASE e /\ \E j \in 1 .. 4 : p = z[Len(s)] + j
  <2>1. PICK j \in 1 .. 4 : p = z[Len(s)] + j
    BY <1>4
  <2>2. TailPiece(S[p], j)
    BY <1>4, <2>1, PlaceInTail, Zenon
  <2> QED
    BY <2>2 DEF TailPiece
<1> QED
  BY <1>2, <1>3, <1>4, Places

------------------------------------------------------------------------------
(* What the readers find in a buffer that holds a stretch of the stream *)

(* Search returns the first place, or 0. *)
LEMMA SearchIs ==
  ASSUME NEW b, Len(b) \in Nat, NEW i \in Nat \ {0}, NEW pattern,
         NEW q, q = Search(b, i, pattern)
  PROVE  \/ q = 0 /\ \A j \in i .. Len(b) : ~ HoldsAt(b, j, pattern)
         \/ /\ q \in i .. Len(b) /\ HoldsAt(b, q, pattern)
            /\ \A j \in i .. Len(b) : HoldsAt(b, j, pattern) => q <= j
<1> DEFINE found == {k \in i .. Len(b) : HoldsAt(b, k, pattern)}
<1>1. q = IF found = {} THEN 0 ELSE Min(found)
  BY DEF Search
<1>2. CASE found = {}
  BY <1>1, <1>2
<1>3. CASE found # {}
  <2>1. found \subseteq Nat
    OBVIOUS
  <2>2. Min(found) \in found /\ \A k \in found : Min(found) <= k
    <3> HIDE DEF found
    <3> QED
      BY <1>3, <2>1, MinOf
  <2> QED
    BY <1>1, <1>3, <2>2
<1> QED
  BY <1>2, <1>3

(* b is what stands in S behind position k, up to position r. *)
Window(b, S, k, r) ==
  /\ S \in Seq(Piece) /\ k \in Nat /\ r \in Nat /\ k <= r /\ r <= Len(S)
  /\ b = SubSeq(S, k + 1, r)

LEMMA WindowIs ==
  ASSUME NEW b, NEW S, NEW k, NEW r, Window(b, S, k, r)
  PROVE  /\ b \in Seq(Piece) /\ Len(b) = r - k /\ Len(b) \in Nat
         /\ k \in Nat /\ r \in Nat /\ k <= r
         /\ \A i \in 1 .. r - k : b[i] = S[k + i]
<1>1. S \in Seq(Piece) /\ k \in Nat /\ r \in Nat /\ k <= r /\ r <= Len(S)
  BY DEF Window
<1>2. \A i \in k + 1 .. r : S[i] \in Piece
  BY <1>1
<1>3. /\ SubSeq(S, k + 1, r) \in Seq(Piece)
      /\ Len(SubSeq(S, k + 1, r)) = IF k + 1 <= r THEN r - (k + 1) + 1 ELSE 0
      /\ \A i \in 1 .. r - (k + 1) + 1 : SubSeq(S, k + 1, r)[i] = S[k + 1 + i - 1]
  BY <1>1, <1>2, SubSeqProperties
<1>4. b = SubSeq(S, k + 1, r)
  BY DEF Window
<1> HIDE DEF Window
<1>5. Len(b) = r - k
  BY <1>1, <1>3, <1>4
<1>6. \A i \in 1 .. r - k : b[i] = S[k + i]
  <2> TAKE i \in 1 .. r - k
  <2>1. i \in 1 .. r - (k + 1) + 1 /\ k + 1 + i - 1 = k + i
    BY <1>1
  <2> QED
    BY <1>3, <1>4, <2>1
<1> QED
  BY <1>1, <1>3, <1>4, <1>5, <1>6

(* The same of b, as one fact. *)
Shows(b, S, k, r) ==
  b \in Seq(Piece) /\ Len(b) = r - k /\ \A i \in 1 .. r - k : b[i] = S[k + i]

LEMMA WindowShows ==
  ASSUME NEW b, NEW S, NEW k, NEW r, Window(b, S, k, r)
  PROVE  Shows(b, S, k, r)
  BY WindowIs DEF Shows

(* A part of a window is a window. *)
LEMMA WindowOfWindow ==
  ASSUME NEW b, NEW S, NEW k, NEW r, Window(b, S, k, r),
         NEW m \in Nat, NEW n \in Nat, m <= n, n <= r - k
  PROVE  Window(SubSeq(b, m + 1, n), S, k + m, k + n)
<1>1. /\ b \in Seq(Piece) /\ Len(b) = r - k /\ k \in Nat /\ r \in Nat /\ k <= r
      /\ \A i \in 1 .. r - k : b[i] = S[k + i]
  BY WindowIs
<1>2. S \in Seq(Piece) /\ r <= Len(S) /\ Len(S) \in Nat
  BY DEF Window
<1>3. Window(SubSeq(S, k + m + 1, k + n), S, k + m, k + n)
  BY <1>1, <1>2 DEF Window
<1> DEFINE c == SubSeq(S, k + m + 1, k + n)
           d == SubSeq(b, m + 1, n)
<1>4. /\ c \in Seq(Piece) /\ Len(c) = n - m
      /\ \A i \in 1 .. n - m : c[i] = S[k + m + i]
  <2>0. Window(c, S, k + m, k + n)
    BY <1>3
  <2> HIDE DEF c
  <2>1. /\ c \in Seq(Piece) /\ Len(c) = k + n - (k + m)
        /\ \A i \in 1 .. k + n - (k + m) : c[i] = S[k + m + i]
    BY <2>0, WindowIs
  <2>2. k + n - (k + m) = n - m
    BY <1>1
  <2> QED
    BY <2>1, <2>2
<1>5. Window(d, b, m, n)
  <2>1. b \in Seq(Piece) /\ n <= Len(b)
    BY <1>1
  <2>2. d = SubSeq(b, m + 1, n)
    OBVIOUS
  <2> HIDE DEF d
  <2> QED
    BY <2>1, <2>2 DEF Window
<1>6. /\ d \in Seq(Piece) /\ Len(d) = n - m
      /\ \A i \in 1 .. n - m : d[i] = b[m + i]
  <2> HIDE DEF d
  <2>1. Shows(d, b, m, n)
    BY <1>5, WindowShows, Zenon
  <2> QED
    BY <2>1 DEF Shows
<1> HIDE DEF c, d
<1>7. \A i \in 1 .. n - m : d[i] = c[i]
  <2> TAKE i \in 1 .. n - m
  <2>1. m + i \in 1 .. r - k /\ k + (m + i) = k + m + i
    BY <1>1
  <2> QED
    BY <1>1, <1>4, <1>6, <2>1
<1>8. d = c
  BY <1>4, <1>6, <1>7, SeqEqual
<1> QED
  BY <1>3, <1>8 DEF c, d

(* Windows that meet make one. *)
LEMMA WindowGrows ==
  ASSUME NEW b, NEW S, NEW k, NEW r, Window(b, S, k, r),
         NEW n \in Nat, r + n <= Len(S)
  PROVE  Window(b \o SubSeq(S, r + 1, r + n), S, k, r + n)
<1>1. S \in Seq(Piece) /\ k \in Nat /\ r \in Nat /\ k <= r /\ Len(S) \in Nat
  BY DEF Window
<1>2. /\ k + 1 \in 1 .. Len(S) + 1 /\ r \in (k + 1) - 1 .. Len(S)
      /\ r + n \in r .. Len(S)
  BY <1>1
<1>3. SubSeq(S, k + 1, r) \o SubSeq(S, r + 1, r + n) = SubSeq(S, k + 1, r + n)
  BY <1>1, <1>2, ConcatAdjacentSubSeq
<1> QED
  BY <1>1, <1>3 DEF Window

(* The pattern, m pieces long, stands in S from p on, no further than r. *)
Reads(S, p, r, pattern, m) ==
  p + m - 1 <= r /\ \A j \in 1 .. m : S[p + j - 1] = pattern[j]

LEMMA HoldsIn ==
  ASSUME NEW b, NEW S, NEW k, NEW r, Window(b, S, k, r),
         NEW i \in Nat \ {0}, NEW pattern \in Seq(Piece), NEW m, m = Len(pattern)
  PROVE  HoldsAt(b, i, pattern) <=> Reads(S, k + i, r, pattern, m)
<1>0. m \in Nat
  OBVIOUS
<1>1. /\ b \in Seq(Piece) /\ Len(b) = r - k /\ k \in Nat /\ r \in Nat
      /\ \A n \in 1 .. r - k : b[n] = S[k + n]
  BY WindowIs
<1>2. i + m - 1 <= Len(b) <=> k + i + m - 1 <= r
  BY <1>0, <1>1
<1>3. CASE i + m - 1 <= Len(b)
  <2> DEFINE d == SubSeq(b, i, i + m - 1)
  <2>1. i \in Int /\ i + m - 1 \in Int /\ \A n \in i .. i + m - 1 : b[n] \in Piece
    BY <1>0, <1>1, <1>3
  <2>2. /\ d \in Seq(Piece)
        /\ Len(d) = IF i <= i + m - 1 THEN i + m - 1 - i + 1 ELSE 0
        /\ \A n \in 1 .. i + m - 1 - i + 1 : d[n] = b[i + n - 1]
    BY <2>1, SubSeqProperties
  <2>3. Len(d) = m /\ i + m - 1 - i + 1 = m
    BY <1>0, <2>2
  <2>4. \A n \in 1 .. m : d[n] = S[k + i + n - 1]
    <3> TAKE n \in 1 .. m
    <3>1. i + n - 1 \in 1 .. r - k /\ k + (i + n - 1) = k + i + n - 1
      BY <1>0, <1>1, <1>3
    <3> QED
      BY <1>1, <2>2, <2>3, <3>1
  <2>5. HoldsAt(b, i, pattern) <=> d = pattern
    BY <1>3 DEF HoldsAt
  <2> HIDE DEF d
  <2>6. d = pattern <=> \A n \in 1 .. m : d[n] = pattern[n]
    BY <2>2, <2>3, SeqEqual
  <2> QED
    BY <1>2, <1>3, <2>4, <2>5, <2>6 DEF Reads
<1>4. CASE ~ (i + m - 1 <= Len(b))
  BY <1>2, <1>4 DEF HoldsAt, Reads
<1> QED
  BY <1>3, <1>4

LEMMA HoldsBoundary ==
  ASSUME NEW b, NEW S, NEW k, NEW r, Window(b, S, k, r), NEW i \in Nat \ {0},
         NEW p, p = k + i
  PROVE  HoldsAt(b, i, Boundary) <=>
           /\ p + 2 <= r
           /\ S[p] = Boundary[1] /\ S[p + 1] = Boundary[2] /\ S[p + 2] = Boundary[3]
<1>1. k \in Nat /\ r \in Nat
  BY WindowIs
<1>2. HoldsAt(b, i, Boundary) <=> Reads(S, k + i, r, Boundary, 3)
  BY HoldsIn, Literals
<1>3. /\ k + i + 1 - 1 = p /\ k + i + 2 - 1 = p + 1 /\ k + i + 3 - 1 = p + 2
  BY <1>1
<1>4. (\A j \in 1 .. 3 : S[k + i + j - 1] = Boundary[j]) <=>
        /\ S[k + i + 1 - 1] = Boundary[1] /\ S[k + i + 2 - 1] = Boundary[2]
        /\ S[k + i + 3 - 1] = Boundary[3]
  OBVIOUS
<1> QED
  BY <1>2, <1>3, <1>4 DEF Reads

LEMMA HoldsLineEnd ==
  ASSUME NEW b, NEW S, NEW k, NEW r, Window(b, S, k, r), NEW i \in Nat \ {0},
         NEW p, p = k + i
  PROVE  HoldsAt(b, i, CRLF) <=> p + 1 <= r /\ S[p] = CR /\ S[p + 1] = LF
<1>1. k \in Nat /\ r \in Nat
  BY WindowIs
<1>2. HoldsAt(b, i, CRLF) <=> Reads(S, k + i, r, CRLF, 2)
  BY HoldsIn, Literals
<1>3. k + i + 1 - 1 = p /\ k + i + 2 - 1 = p + 1
  BY <1>1
<1>4. (\A j \in 1 .. 2 : S[k + i + j - 1] = CRLF[j]) <=>
        S[k + i + 1 - 1] = CRLF[1] /\ S[k + i + 2 - 1] = CRLF[2]
  OBVIOUS
<1> QED
  BY <1>2, <1>3, <1>4, Literals DEF Reads

LEMMA HoldsHeadersEnd ==
  ASSUME NEW b, NEW S, NEW k, NEW r, Window(b, S, k, r), NEW i \in Nat \ {0},
         NEW p, p = k + i
  PROVE  HoldsAt(b, i, CRLF \o CRLF) <=>
           /\ p + 3 <= r
           /\ S[p] = CR /\ S[p + 1] = LF /\ S[p + 2] = CR /\ S[p + 3] = LF
<1> DEFINE two == CRLF \o CRLF
<1>0. /\ two \in Seq(Piece) /\ Len(two) = 4
      /\ two[1] = CR /\ two[2] = LF /\ two[3] = CR /\ two[4] = LF
  BY TwoLineEnds
<1> HIDE DEF two
<1>1. k \in Nat /\ r \in Nat
  BY WindowIs
<1>2. HoldsAt(b, i, two) <=> Reads(S, k + i, r, two, 4)
  BY HoldsIn, <1>0
<1>3. /\ k + i + 1 - 1 = p /\ k + i + 2 - 1 = p + 1
      /\ k + i + 3 - 1 = p + 2 /\ k + i + 4 - 1 = p + 3
  BY <1>1
<1>4. (\A j \in 1 .. 4 : S[k + i + j - 1] = two[j]) <=>
        /\ S[k + i + 1 - 1] = two[1] /\ S[k + i + 2 - 1] = two[2]
        /\ S[k + i + 3 - 1] = two[3] /\ S[k + i + 4 - 1] = two[4]
  OBVIOUS
<1>5. HoldsAt(b, i, two) <=>
        /\ p + 3 <= r
        /\ S[p] = CR /\ S[p + 1] = LF /\ S[p + 2] = CR /\ S[p + 3] = LF
  BY <1>0, <1>2, <1>3, <1>4 DEF Reads
<1> QED
  BY <1>5 DEF two

LEMMA HoldsEndMark ==
  ASSUME NEW b, NEW S, NEW k, NEW r, Window(b, S, k, r), NEW i \in Nat \ {0},
         NEW p, p = k + i
  PROVE  HoldsAt(b, i, <<EndMark>>) <=> p <= r /\ S[p] = EndMark
<1>1. k \in Nat /\ r \in Nat
  BY WindowIs
<1>2. HoldsAt(b, i, <<EndMark>>) <=> Reads(S, k + i, r, <<EndMark>>, 1)
  BY HoldsIn, Literals
<1>3. k + i + 1 - 1 = p
  BY <1>1
<1>4. (\A j \in 1 .. 1 : S[k + i + j - 1] = <<EndMark>>[j]) <=>
        S[k + i + 1 - 1] = <<EndMark>>[1]
  OBVIOUS
<1> QED
  BY <1>2, <1>3, <1>4, Literals DEF Reads

(* Behind a part, or where the first begins, comes a whole boundary if      *)
(* there is room for one.                                                   *)
LEMMA BoundaryBehind ==
  ASSUME NEW S, NEW z, NEW s, NEW h, NEW e, Laid(S, z, s, h, e),
         NEW f \in 0 .. Len(s), z[f] + 1 <= Len(S)
  PROVE  /\ z[f] + 3 <= Len(S)
         /\ S[z[f] + 1] = Boundary[1] /\ S[z[f] + 2] = Boundary[2]
         /\ S[z[f] + 3] = Boundary[3]
<1>1. Len(s) \in Nat /\ z[f] \in Nat
  BY EndsIncrease
<1>2. CASE f = Len(s)
  <2>1. Len(S) = z[f] + IF e THEN 4 ELSE 0
    BY <1>2 DEF Laid
  <2>2. e
    BY <1>1, <2>1
  <2>3. z[f] + 3 <= Len(S)
    BY <1>1, <2>1, <2>2
  <2> QED
    BY <1>2, <2>2, <2>3 DEF Laid
<1>3. CASE f # Len(s)
  <2>1. f + 1 \in 1 .. Len(s) /\ f + 1 - 1 = f
    BY <1>1, <1>3
  <2>2. PartAt(S, z[f], f + 1, s[f + 1])
    BY <2>1, PieceOfPart
  <2>3. z[f + 1] = z[f] + s[f + 1] + 12 /\ s[f + 1] \in Nat /\ z[f + 1] <= Len(S)
    <3>1. f + 1 \in 0 .. Len(s)
      BY <2>1
    <3> QED
      BY <2>1, <3>1, EndsIncrease
  <2>4. Len(S) \in Nat
    BY EndsIncrease
  <2> QED
    BY <1>1, <2>2, <2>3, <2>4 DEF PartAt
<1> QED
  BY <1>2, <1>3

(* The places of the lengths. *)
LEMMA LengthAt ==
  ASSUME NEW S, NEW z, NEW s, NEW h, NEW e, Laid(S, z, s, h, e),
         NEW p \in 1 .. Len(S), IsLength(S[p])
  PROVE  \E f \in 1 .. Len(s) : p = z[f - 1] + 6
<1>1. CASE h /\ p \in 1 .. 8
  BY <1>1, PlaceInHead
<1>2. CASE \E f \in 1 .. Len(s) : \E j \in 1 .. s[f] + 12 : p = z[f - 1] + j
  <2>1. PICK f \in 1 .. Len(s) : \E j \in 1 .. s[f] + 12 : p = z[f - 1] + j
    BY <1>2
  <2>2. PICK j \in 1 .. s[f] + 12 : p = z[f - 1] + j
    BY <2>1
  <2>3. j = 6
    BY <2>2, PlaceInPart
  <2> QED
    BY <2>2, <2>3
<1>3. CASE e /\ \E j \in 1 .. 4 : p = z[Len(s)] + j
  <2>1. PICK j \in 1 .. 4 : p = z[Len(s)] + j
    BY <1>3
  <2>2. TailPiece(S[p], j)
    BY <1>3, <2>1, PlaceInTail, Zenon
  <2> QED
    BY <2>2 DEF TailPiece
<1> QED
  BY <1>1, <1>2, <1>3, Places

(* The boundary at p is the one of frame f, or that of the response headers *)
(* when f is the first.                                                     *)
Leads(p, f, z, h) == p = z[f - 1] + 1 \/ (h /\ f = 1 /\ p = 2)

(* Where a reader begins to look for the end of the part headers. *)
LEMMA HeadStartIs ==
  ASSUME NEW b, NEW S, NEW k, NEW r, Window(b, S, k, r), NEW i \in Nat \ {0}
  PROVE  /\ HeadStart(b, i) \in Nat \ {0}
         /\ HeadStart(b, i) \in {i + 3, i + 5}
         /\ (k + i + 4 <= r /\ S[k + i + 3] = CR /\ S[k + i + 4] = LF)
              => HeadStart(b, i) = i + 5
<1>1. k \in Nat /\ r \in Nat
  BY WindowIs
<1> DEFINE j == i + 3
<1>2. HeadStart(b, i) = IF HoldsAt(b, j, CRLF) THEN j + 2 ELSE j
  BY Literals DEF HeadStart, SkipCRLF
<1>3. HoldsAt(b, j, CRLF) <=>
        k + j + 1 <= r /\ S[k + j] = CR /\ S[k + j + 1] = LF
  <2>1. j \in Nat \ {0}
    OBVIOUS
  <2> HIDE DEF j
  <2> QED
    BY <2>1, HoldsLineEnd
<1>4. k + j = k + i + 3 /\ k + j + 1 = k + i + 4 /\ j + 2 = i + 5
  BY <1>1
<1> QED
  BY <1>2, <1>3, <1>4

(* Behind a boundary the headers end in the part of its frame, or further   *)
(* on.                                                                      *)
LEMMA HeadersEndBehind ==
  ASSUME NEW S, NEW z, NEW s, NEW h, NEW e, Laid(S, z, s, h, e),
         NEW b, NEW k, NEW r, Window(b, S, k, r), NEW i \in Nat \ {0},
         NEW q \in Nat, HeadStart(b, i) <= q, HoldsAt(b, q, CRLF \o CRLF),
         \/ h /\ k + i = 2
         \/ \E f \in 0 .. Len(s) : k + i = z[f] + 1
  PROVE  \E g \in 1 .. Len(s) : k + q = z[g - 1] + 7 /\ k + q >= k + i + 5
<1>1. k \in Nat /\ r \in Nat /\ k <= r /\ r <= Len(S) /\ Len(S) \in Nat
  BY WindowIs, EndsIncrease DEF Window
<1>2. HeadStart(b, i) \in Nat \ {0} /\ HeadStart(b, i) \in {i + 3, i + 5}
  BY HeadStartIs
<1> DEFINE p == k + q
<1>3. p + 3 <= r /\ S[p] = CR /\ S[p + 1] = LF /\ S[p + 2] = CR /\ S[p + 3] = LF
  <2>1. q \in Nat \ {0} /\ p = k + q
    BY <1>2
  <2> HIDE DEF p
  <2> QED
    BY <2>1, HoldsHeadersEnd
<1>4. p \in 1 .. Len(S) /\ p + 2 <= Len(S) /\ p >= k + i + 3
  BY <1>1, <1>2, <1>3
<1> HIDE DEF p
<1>5. \/ h /\ p = 5
      \/ \E g \in 1 .. Len(s) : p = z[g - 1] + 7
  BY <1>3, <1>4, HeadersEndAt
<1>6. ~ (h /\ p = 5)
  <2> SUFFICES ASSUME h, p = 5
               PROVE  FALSE
    OBVIOUS
  <2>1. ASSUME NEW f \in 0 .. Len(s), k + i = z[f] + 1
        PROVE  FALSE
    <3>1. z[0] = 8 /\ z[0] <= z[f] /\ z[f] \in Nat
      BY EndsIncrease DEF Laid
    <3> QED
      BY <3>1, <2>1, <1>4, <1>1
  <2>2. k + i = 2
    BY <2>1
  <2>3. k + i + 3 = 5 /\ k + i + 4 = 6 /\ 6 <= r
    BY <1>1, <1>3, <2>2
  <2>4. HeadStart(b, i) = i + 5
    <3>1. S[k + i + 3] = CR /\ S[k + i + 4] = LF /\ k + i + 4 <= r
      BY <1>3, <2>3
    <3> QED
      BY <3>1, HeadStartIs
  <2> QED
    BY <2>2, <2>4, <1>1 DEF p
<1>7. PICK g \in 1 .. Len(s) : p = z[g - 1] + 7
  BY <1>5, <1>6
<1>8. p >= k + i + 5
  <2>1. g - 1 \in 0 .. Len(s) /\ z[g - 1] \in Nat /\ z[0] <= z[g - 1]
    BY EndsIncrease
  <2>2. CASE h /\ k + i = 2
    BY <2>1, <2>2, <1>1, <1>7
  <2>3. ASSUME NEW f \in 0 .. Len(s), k + i = z[f] + 1
        PROVE  p >= k + i + 5
    <3>1. z[f] \in Nat /\ Len(s) \in Nat /\ (g - 1 < f => z[g - 1] + 12 <= z[f])
      BY <2>1, EndsIncrease
    <3>2. ~ (g - 1 < f)
      <4>1. p >= z[f] + 4
        BY <1>1, <1>4, <2>3, <3>1
      <4>2. z[g - 1] + 12 <= z[f] => z[g - 1] + 7 < z[f] + 4
        BY <2>1, <3>1
      <4> QED
        BY <1>4, <1>7, <2>1, <3>1, <4>1, <4>2
    <3>3. g - 1 = f \/ f < g - 1
      BY <3>1, <3>2
    <3>4. z[f] <= z[g - 1]
      <4>1. f < g - 1 => z[f] + 12 <= z[g - 1]
        BY <2>1, EndsIncrease
      <4> QED
        BY <3>1, <3>3, <4>1, <2>1
    <3> QED
      BY <1>1, <1>7, <2>1, <2>3, <3>1, <3>4
  <2> QED
    BY <2>2, <2>3
<1> QED
  BY <1>7, <1>8 DEF p

(* The part headers behind a boundary that leads to frame f: they are found *)
(* when they are there, and then they name the frame's length.              *)
HeadersAt(b, i, k, r, a, n) ==
  /\ HeadEnd(b, i) = IF a + 10 <= r THEN a + 7 - k ELSE 0
  /\ a + 10 <= r => ContentLength(b, i) = n
  /\ k <= a

LEMMA HeadersOf ==
  ASSUME NEW S, NEW z, NEW s, NEW h, NEW e, Laid(S, z, s, h, e),
         NEW b, NEW k, NEW r, Window(b, S, k, r), NEW i \in Nat \ {0},
         NEW f \in 1 .. Len(s), Leads(k + i, f, z, h)
  PROVE  HeadersAt(b, i, k, r, z[f - 1], s[f])
<1> DEFINE a == z[f - 1]
<1>0. /\ f - 1 \in 0 .. Len(s) /\ f \in 0 .. Len(s) /\ Len(s) \in Nat
      /\ a \in Nat /\ s[f] \in Nat /\ s[f] > 0
      /\ z[f] = a + s[f] + 12 /\ z[f] <= Len(S) /\ Len(S) \in Nat
  BY EndsIncrease
<1>1. k \in Nat /\ r \in Nat /\ k <= r /\ r <= Len(S)
  BY WindowIs DEF Window
<1>2. PartAt(S, a, f, s[f])
  BY PieceOfPart
<1> DEFINE H == HeadStart(b, i)
           two == CRLF \o CRLF
<1>3. H \in Nat \ {0} /\ H \in {i + 3, i + 5}
  BY HeadStartIs
<1>4. \/ k + i = a + 1
      \/ h /\ f = 1 /\ k + i = 2 /\ a = 8
  <2>1. h /\ f = 1 => a = 8
    BY DEF Laid
  <2> QED
    BY <2>1 DEF Leads
<1> HIDE DEF a
<1>5. /\ k + i + 3 <= k + H /\ k + H <= a + 6
      /\ k <= a /\ a + 7 - k \in Nat /\ a + 7 - k >= H
  <2>1. i \in Nat /\ i > 0 /\ H \in Nat /\ (H = i + 3 \/ H = i + 5)
    BY <1>3
  <2>2. k + i = a + 1 \/ (k + i = 2 /\ a = 8)
    BY <1>4, Zenon
  <2> HIDE DEF H
  <2>3. k \in Nat /\ a \in Nat
    BY <1>0, <1>1
  <2> QED
    BY <2>1, <2>2, <2>3
<1> HIDE DEF H
<1>6. \/ h /\ k + i = 2
      \/ \E g \in 0 .. Len(s) : k + i = z[g] + 1
  BY <1>0, <1>4 DEF a
<1>7. ASSUME NEW q \in Nat, H <= q, HoldsAt(b, q, two)
      PROVE  q >= a + 7 - k
  <2>1. \E g \in 1 .. Len(s) : k + q = z[g - 1] + 7 /\ k + q >= k + i + 5
    <3> HIDE DEF two
    <3> QED
      BY <1>6, <1>7, HeadersEndBehind DEF H, two
  <2>2. PICK g \in 1 .. Len(s) : k + q = z[g - 1] + 7 /\ k + q >= k + i + 5
    BY <2>1
  <2>3. g - 1 \in 0 .. Len(s) /\ z[g - 1] \in Nat /\ z[0] <= z[g - 1]
    BY EndsIncrease
  <2>4. a <= z[g - 1]
    <3>1. CASE k + i = a + 1
      <4>1. ~ (g - 1 < f - 1)
        <5>1. g - 1 < f - 1 => z[g - 1] + 12 <= a
          BY <1>0, <2>3, EndsIncrease DEF a
        <5>2. z[g - 1] + 7 >= a + 6
          BY <2>2, <3>1, <1>0, <1>1
        <5> QED
          BY <5>1, <5>2, <2>3, <1>0
      <4>2. g = f \/ f - 1 < g - 1
        BY <4>1
      <4>3. f - 1 < g - 1 => a + 12 <= z[g - 1]
        BY <1>0, <2>3, EndsIncrease DEF a
      <4> QED
        <5>1. g = f => a = z[g - 1]
          BY DEF a
        <5> QED
          BY <4>2, <4>3, <5>1, <1>0, <2>3
    <3>2. CASE f = 1
      BY <2>3, <3>2 DEF a
    <3> QED
      BY <1>4, <3>1, <3>2
  <2> QED
    BY <2>2, <2>3, <2>4, <1>0, <1>1
<1>8. ASSUME a + 10 <= r
      PROVE  HoldsAt(b, a + 7 - k, two)
  <2> DEFINE x == a + 7 - k
  <2>1. x \in Nat \ {0} /\ a + 7 = k + x
    BY <1>0, <1>1, <1>5
  <2>2. /\ a + 7 + 3 <= r
        /\ S[a + 7] = CR /\ S[a + 7 + 1] = LF /\ S[a + 7 + 2] = CR /\ S[a + 7 + 3] = LF
    <3>1. a + 7 + 1 = a + 8 /\ a + 7 + 2 = a + 9 /\ a + 7 + 3 = a + 10
      BY <1>0
    <3> QED
      BY <3>1, <1>2, <1>8 DEF PartAt
  <2> HIDE DEF x
  <2>3. HoldsAt(b, x, two)
    BY <2>1, <2>2, HoldsHeadersEnd
  <2> QED
    BY <2>3 DEF x
<1>9. ASSUME ~ (a + 10 <= r), NEW q \in Nat, H <= q
      PROVE  ~ HoldsAt(b, q, two)
  <2> SUFFICES ASSUME HoldsAt(b, q, two)
               PROVE  FALSE
    OBVIOUS
  <2>1. q >= a + 7 - k
    BY <1>7, <1>9
  <2>2. k + q + 3 <= r
    <3>1. q \in Nat \ {0}
      BY <1>3, <1>9
    <3>2. HoldsAt(b, q, CRLF \o CRLF) => k + q + 3 <= r
      BY <3>1, HoldsHeadersEnd
    <3> QED
      BY <3>2
  <2> QED
    BY <2>1, <2>2, <1>0, <1>1, <1>9
<1>10. b \in Seq(Piece) /\ Len(b) = r - k /\ Len(b) \in Nat
  BY WindowIs
<1> DEFINE E == HeadEnd(b, i)
<1>11. \/ E = 0 /\ \A j \in H .. Len(b) : ~ HoldsAt(b, j, two)
       \/ /\ E \in H .. Len(b) /\ HoldsAt(b, E, two)
          /\ \A j \in H .. Len(b) : HoldsAt(b, j, two) => E <= j
  <2>1. E = Search(b, H, two)
    BY DEF HeadEnd, H
  <2> HIDE DEF E, two
  <2> QED
    BY <2>1, <1>3, <1>10, SearchIs
<1> HIDE DEF E, two
<1>12. E = IF a + 10 <= r THEN a + 7 - k ELSE 0
  <2>1. CASE a + 10 <= r
    <3>1. a + 7 - k \in H .. Len(b)
      BY <2>1, <1>0, <1>1, <1>3, <1>5, <1>10
    <3>2. E \in H .. Len(b) /\ HoldsAt(b, E, two) /\ E <= a + 7 - k
      BY <3>1, <2>1, <1>8, <1>11
    <3>3. E >= a + 7 - k
      <4>1. E \in Nat /\ H <= E
        BY <3>2, <1>3, <1>10
      <4> QED
        BY <3>2, <4>1, <1>7
    <3> QED
      BY <3>2, <3>3, <2>1, <1>0, <1>1, <1>3
  <2>2. CASE ~ (a + 10 <= r)
    <3>1. E = 0 \/ (E \in Nat /\ H <= E /\ HoldsAt(b, E, two))
      BY <1>3, <1>10, <1>11
    <3> QED
      BY <3>1, <2>2, <1>9
  <2> QED
    BY <2>1, <2>2
<1>13. ASSUME a + 10 <= r
       PROVE  ContentLength(b, i) = s[f]
  <2> DEFINE x == a + 6 - k
             lengths == {y \in H .. E - 1 : IsLength(b[y])}
  <2>1. E = a + 7 - k
    BY <1>12, <1>13
  <2>2. x \in H .. E - 1 /\ x \in 1 .. r - k /\ k + x = a + 6
    BY <2>1, <1>0, <1>1, <1>3, <1>5, <1>13
  <2>3. b[x] = <<"length", s[f]>>
    <3>1. S[a + 6] = <<"length", s[f]>>
      BY <1>2 DEF PartAt
    <3>2. b[x] = S[k + x]
      <4> HIDE DEF x
      <4> QED
        BY <2>2, WindowIs
    <3> QED
      BY <2>2, <3>1, <3>2
  <2>4. ASSUME NEW y \in lengths
        PROVE  y = x
    <3>1. y \in H .. E - 1 /\ y \in 1 .. r - k /\ IsLength(b[y]) /\ y \in Nat
      BY <2>1, <1>0, <1>1, <1>3, <1>13
    <3>2. b[y] = S[k + y]
      BY <3>1, WindowIs
    <3>3. k + y \in 1 .. Len(S) /\ IsLength(S[k + y])
      BY <3>1, <3>2, <1>0, <1>1
    <3>4. PICK g \in 1 .. Len(s) : k + y = z[g - 1] + 6
      BY <3>3, LengthAt
    <3>5. g - 1 \in 0 .. Len(s) /\ z[g - 1] \in Nat
      BY EndsIncrease
    <3>6. k + i + 3 <= k + y /\ k + y <= a + 6
      BY <2>1, <3>1, <1>0, <1>1, <1>3, <1>5
    <3>7. ~ (f - 1 < g - 1)
      <4>1. f - 1 < g - 1 => a + 12 <= z[g - 1]
        BY <1>0, <3>5, EndsIncrease DEF a
      <4> QED
        BY <4>1, <3>4, <3>5, <3>6, <1>0
    <3>8. ~ (g - 1 < f - 1)
      <4>1. CASE f = 1
        BY <4>1
      <4>2. CASE k + i = a + 1
        <5>1. g - 1 < f - 1 => z[g - 1] + 12 <= a
          BY <1>0, <3>5, EndsIncrease DEF a
        <5>2. a + 4 <= z[g - 1] + 6
          BY <3>4, <3>6, <4>2, <1>0, <1>1
        <5> QED
          BY <5>1, <5>2, <3>5, <1>0
      <4> QED
        BY <1>4, <4>1, <4>2
    <3>9. g = f
      BY <3>7, <3>8
    <3>10. k + y = a + 6
      BY <3>4, <3>9 DEF a
    <3> QED
      BY <3>1, <3>10, <1>0, <1>1
  <2>5. x \in lengths
    BY <2>2, <2>3, Distinct
  <2>6. lengths = {x}
    <3> HIDE DEF lengths, x
    <3> QED
      BY <2>4, <2>5
  <2>7. Min(lengths) = x
    <3>1. lengths \subseteq Nat /\ lengths # {}
      BY <2>2, <2>6
    <3>2. Min(lengths) \in lengths
      <4> HIDE DEF lengths
      <4> QED
        BY <3>1, MinOf
    <3> QED
      BY <2>6, <3>2
  <2>8. ContentLength(b, i) = IF lengths = {} THEN 0 ELSE b[Min(lengths)][2]
    BY DEF ContentLength, H, E
  <2> HIDE DEF lengths, x
  <2>9. lengths # {}
    BY <2>6
  <2>10. <<"length", s[f]>>[2] = s[f]
    OBVIOUS
  <2> QED
    BY <2>3, <2>7, <2>8, <2>9, <2>10
<1> QED
  BY <1>5, <1>12, <1>13 DEF E, a, HeadersAt

(* The frame behind a boundary that leads to it: it is ready as soon as its *)
(* data is there, it is what was sent, and what stays in the buffer is what *)
(* was received behind it.                                                  *)
WholeAt(b, S, i, r, a, f, n) ==
  /\ FrameReady(b, i) <=> a + n + 10 <= r
  /\ a + n + 10 <= r =>
       /\ Frame(b, i) = Jpeg(f, n)
       /\ Window(After(b, i), S, IF a + n + 12 <= r THEN a + n + 12 ELSE a + n + 10, r)

LEMMA Whole ==
  ASSUME NEW S, NEW z, NEW s, NEW h, NEW e, Laid(S, z, s, h, e),
         NEW b, NEW k, NEW r, Window(b, S, k, r), NEW i \in Nat \ {0},
         NEW f \in 1 .. Len(s), Leads(k + i, f, z, h)
  PROVE  WholeAt(b, S, i, r, z[f - 1], f, s[f])
<1> DEFINE a == z[f - 1]
           n == s[f]
<1>0. a \in Nat /\ n \in Nat /\ n > 0 /\ Len(S) \in Nat
  BY EndsIncrease
<1>1. /\ k \in Nat /\ r \in Nat /\ k <= r /\ r <= Len(S) /\ S \in Seq(Piece)
      /\ Len(b) = r - k
  BY WindowIs DEF Window
<1>2. PartAt(S, a, f, n)
  BY PieceOfPart
<1>3. HeadersAt(b, i, k, r, a, n)
  BY HeadersOf
<1> HIDE DEF a, n
<1> DEFINE E == HeadEnd(b, i)
           C == ContentLength(b, i)
<1>4. /\ E = IF a + 10 <= r THEN a + 7 - k ELSE 0
      /\ a + 10 <= r => C = n
      /\ k <= a
  BY <1>3 DEF HeadersAt
<1>5. FrameReady(b, i) <=> E > 0 /\ C > 0 /\ E + 4 + C - 1 <= Len(b)
  BY DEF FrameReady, BodyStart
<1>6. Frame(b, i) = SubSeq(b, E + 4, E + 4 + C - 1)
  BY DEF Frame, BodyStart
<1>7. After(b, i) = SubSeq(b, SkipCRLF(b, E + 4 + C), Len(b))
  BY DEF After, BodyStart
<1> HIDE DEF E, C
<1>8. FrameReady(b, i) <=> a + n + 10 <= r
  <2>1. CASE a + 10 <= r
    <3>1. E = a + 7 - k /\ C = n
      BY <1>4, <2>1
    <3> QED
      BY <3>1, <1>0, <1>1, <1>4, <1>5
  <2>2. CASE ~ (a + 10 <= r)
    <3>1. E = 0
      BY <1>4, <2>2
    <3> QED
      BY <3>1, <2>2, <1>0, <1>1, <1>5
  <2> QED
    BY <2>1, <2>2
<1>9. ASSUME a + n + 10 <= r
      PROVE  Frame(b, i) = Jpeg(f, n)
  <2>1. a + 10 <= r
    BY <1>0, <1>1, <1>9
  <2>2. E = a + 7 - k /\ C = n
    BY <1>4, <2>1
  <2> DEFINE m == a + 10 - k
             c == SubSeq(b, m + 1, m + n)
  <2>3. m \in Nat /\ m + n \in Nat /\ m <= m + n /\ m + n <= r - k
    BY <1>0, <1>1, <1>4, <1>9
  <2>4. E + 4 = m + 1 /\ E + 4 + C - 1 = m + n /\ k + m = a + 10 /\ k + (m + n) = a + 10 + n
    BY <1>0, <1>1, <2>2
  <2>5. Frame(b, i) = c
    BY <1>6, <2>4
  <2> HIDE DEF m
  <2>6. Window(c, S, k + m, k + (m + n))
    BY <2>3, WindowOfWindow
  <2>7. Window(c, S, a + 10, a + 10 + n)
    <3> HIDE DEF c
    <3> QED
      BY <2>4, <2>6
  <2> HIDE DEF c
  <2> DEFINE lo == a + 10
             hi == a + 10 + n
  <2>8. /\ c \in Seq(Piece) /\ Len(c) = hi - lo
        /\ \A j \in 1 .. hi - lo : c[j] = S[lo + j]
    <3>1. Window(c, S, lo, hi)
      BY <2>7
    <3> HIDE DEF lo, hi
    <3> QED
      BY <3>1, WindowIs
  <2>9. hi - lo = n
    BY <1>0
  <2>10. \A j \in 1 .. n : c[j] = <<"jpeg", f, j>>
    BY <2>8, <2>9, <1>2 DEF PartAt
  <2>11. Len(c) = n /\ c \in Seq(Piece)
    BY <2>8, <2>9
  <2>12. c = [j \in 1 .. n |-> <<"jpeg", f, j>>]
    <3>1. c = [j \in 1 .. n |-> c[j]]
      BY <2>11
    <3> QED
      BY <3>1, <2>10
  <2> QED
    BY <2>5, <2>12 DEF Jpeg
<1>10. ASSUME a + n + 10 <= r
       PROVE  Window(After(b, i), S, IF a + n + 12 <= r THEN a + n + 12 ELSE a + n + 10, r)
  <2>1. a + 10 <= r
    BY <1>0, <1>1, <1>10
  <2>2. E = a + 7 - k /\ C = n
    BY <1>4, <2>1
  <2> DEFINE x == a + n + 11 - k
             y == a + n + 12 - k
             u == a + n + 10 - k
  <2>3. E + 4 + C = x /\ x \in Nat \ {0} /\ k + x = a + n + 11
    BY <1>0, <1>1, <1>4, <2>2
  <2>4. HoldsAt(b, x, CRLF) <=> a + n + 12 <= r
    <3>1. S[a + n + 11] = CR /\ S[a + n + 12] = LF
      BY <1>2 DEF PartAt
    <3>2. a + n + 11 + 1 = a + n + 12
      BY <1>0
    <3>3. x \in Nat \ {0} /\ a + n + 11 = k + x
      BY <2>3
    <3> HIDE DEF x
    <3>4. HoldsAt(b, x, CRLF) <=>
            a + n + 11 + 1 <= r /\ S[a + n + 11] = CR /\ S[a + n + 11 + 1] = LF
      BY <3>3, HoldsLineEnd
    <3> QED
      BY <3>1, <3>2, <3>4
  <2>5. After(b, i) = SubSeq(b, IF a + n + 12 <= r THEN x + 2 ELSE x, r - k)
    <3> HIDE DEF x
    <3>1. After(b, i) = SubSeq(b, SkipCRLF(b, x), r - k)
      BY <1>1, <1>7, <2>3
    <3>2. SkipCRLF(b, x) = IF a + n + 12 <= r THEN x + 2 ELSE x
      BY <2>4 DEF SkipCRLF
    <3> QED
      BY <3>1, <3>2
  <2>6. CASE a + n + 12 <= r
    <3>1. y \in Nat /\ r - k \in Nat /\ y <= r - k /\ r - k <= r - k
          /\ k + y = a + n + 12 /\ k + (r - k) = r /\ x + 2 = y + 1
      BY <1>0, <1>1, <1>4, <2>6
    <3>2. After(b, i) = SubSeq(b, y + 1, r - k)
      BY <2>5, <2>6, <3>1
    <3> HIDE DEF x, y
    <3>3. Window(SubSeq(b, y + 1, r - k), S, k + y, k + (r - k))
      BY <3>1, WindowOfWindow
    <3> QED
      BY <3>1, <3>2, <3>3, <2>6
  <2>7. CASE ~ (a + n + 12 <= r)
    <3>1. u \in Nat /\ r - k \in Nat /\ u <= r - k /\ r - k <= r - k
          /\ k + u = a + n + 10 /\ k + (r - k) = r /\ x = u + 1
      BY <1>0, <1>1, <1>4, <1>10
    <3>2. After(b, i) = SubSeq(b, u + 1, r - k)
      BY <2>5, <2>7, <3>1
    <3> HIDE DEF x, u
    <3>3. Window(SubSeq(b, u + 1, r - k), S, k + u, k + (r - k))
      BY <3>1, WindowOfWindow
    <3> QED
      BY <3>1, <3>2, <3>3, <2>7
  <2> QED
    BY <2>6, <2>7
<1>11. WholeAt(b, S, i, r, a, f, n)
  BY <1>8, <1>9, <1>10 DEF WholeAt
<1> QED
  BY <1>11 DEF a, n

(* The boundary of the end marker, and that of the response headers when no *)
(* frame follows, leads to no frame.                                        *)
LEMMA NoFrameBehind ==
  ASSUME NEW S, NEW z, NEW s, NEW h, NEW e, Laid(S, z, s, h, e),
         NEW b, NEW k, NEW r, Window(b, S, k, r), NEW i \in Nat \ {0},
         \/ k + i = z[Len(s)] + 1
         \/ h /\ k + i = 2 /\ Len(s) = 0
  PROVE  ~ FrameReady(b, i)
<1> DEFINE H == HeadStart(b, i)
           two == CRLF \o CRLF
           E == HeadEnd(b, i)
           t == z[Len(s)]
<1>1. Len(s) \in Nat /\ Len(s) \in 0 .. Len(s) /\ t \in Nat
  <2>1. Len(s) \in Nat
    BY EndsIncrease
  <2>2. Len(s) \in 0 .. Len(s)
    BY <2>1
  <2> QED
    BY <2>1, <2>2, EndsIncrease
<1>2. k \in Nat /\ Len(b) \in Nat
  BY WindowIs
<1>3. H \in Nat \ {0}
  BY HeadStartIs
<1>4. ASSUME NEW q \in Nat, H <= q, HoldsAt(b, q, two)
      PROVE  FALSE
  <2>1. \/ h /\ k + i = 2
        \/ \E f \in 0 .. Len(s) : k + i = z[f] + 1
    BY <1>1
  <2>2. \E g \in 1 .. Len(s) : k + q = z[g - 1] + 7 /\ k + q >= k + i + 5
    <3> HIDE DEF two
    <3> QED
      BY <2>1, <1>4, HeadersEndBehind DEF H, two
  <2>3. PICK g \in 1 .. Len(s) : k + q = z[g - 1] + 7 /\ k + q >= k + i + 5
    BY <2>2
  <2>4. Len(s) # 0
    BY <2>3
  <2>5. k + i = t + 1
    BY <2>4
  <2>6. g - 1 \in 0 .. Len(s) /\ z[g - 1] \in Nat
    BY EndsIncrease
  <2>7. z[g - 1] + 12 <= t
    <3>1. g - 1 < Len(s)
      BY <1>1
    <3> QED
      BY <3>1, <2>6, <1>1, EndsIncrease
  <2> HIDE DEF t
  <2>8. k + i = t + 1 /\ k + q >= k + i + 5 /\ k + q = z[g - 1] + 7
    BY <2>3, <2>5
  <2>9. z[g - 1] + 7 >= t + 1 + 5
    BY <2>8
  <2> DEFINE x == z[g - 1]
  <2>10. x \in Nat /\ t \in Nat /\ x + 12 <= t /\ x + 7 >= t + 1 + 5
    BY <2>6, <2>7, <2>9, <1>1
  <2> HIDE DEF x
  <2> QED
    BY <2>10
<1>5. E = 0 \/ (E \in H .. Len(b) /\ HoldsAt(b, E, two))
  <2>1. E = Search(b, H, two)
    BY DEF HeadEnd
  <2> HIDE DEF E, H, two
  <2> QED
    BY <2>1, <1>2, <1>3, SearchIs
<1> HIDE DEF E, H, two
<1>6. E = 0
  <2>1. E \in H .. Len(b) => E \in Nat /\ H <= E
    BY <1>2, <1>3
  <2> QED
    BY <1>4, <1>5, <2>1
<1> QED
  BY <1>6 DEF FrameReady, E

(* The marker of a buffer is its first boundary. *)
FirstBoundary(b, S, z, s, h, e, k, r, q) ==
  /\ q \in Nat \ {0} /\ k + q + 2 <= r
  /\ \/ h /\ k + q = 2
     \/ \E f \in 1 .. Len(s) : k + q = z[f - 1] + 1
     \/ e /\ k + q = z[Len(s)] + 1
  /\ \A f \in 0 .. Len(s) : k <= z[f] /\ z[f] + 3 <= r => k + q <= z[f] + 1

MarkerAt(b, S, z, s, h, e, k, r) ==
  IF Marker(b) = 0
  THEN \A f \in 0 .. Len(s) : k <= z[f] => r < z[f] + 3
  ELSE FirstBoundary(b, S, z, s, h, e, k, r, Marker(b))

LEMMA MarkerIs ==
  ASSUME NEW S, NEW z, NEW s, NEW h, NEW e, Laid(S, z, s, h, e),
         NEW b, NEW k, NEW r, Window(b, S, k, r)
  PROVE  MarkerAt(b, S, z, s, h, e, k, r)
<1> DEFINE q == Marker(b)
<1>1. /\ k \in Nat /\ r \in Nat /\ k <= r /\ r <= Len(S) /\ Len(S) \in Nat
      /\ Len(b) = r - k /\ Len(b) \in Nat
  BY WindowIs, EndsIncrease DEF Window
<1>2. \/ q = 0 /\ \A j \in 1 .. Len(b) : ~ HoldsAt(b, j, Boundary)
      \/ /\ q \in 1 .. Len(b) /\ HoldsAt(b, q, Boundary)
         /\ \A j \in 1 .. Len(b) : HoldsAt(b, j, Boundary) => q <= j
  <2>1. q = Search(b, 1, Boundary)
    BY DEF Marker
  <2>2. 1 \in Nat \ {0}
    OBVIOUS
  <2> HIDE DEF q
  <2> QED
    BY <2>1, <2>2, <1>1, SearchIs
<1> HIDE DEF q
<1>3. ASSUME NEW f \in 0 .. Len(s), k <= z[f], z[f] + 3 <= r
      PROVE  /\ z[f] + 1 - k \in 1 .. Len(b)
             /\ HoldsAt(b, z[f] + 1 - k, Boundary)
  <2>1. z[f] \in Nat
    BY EndsIncrease
  <2> DEFINE j == z[f] + 1 - k
  <2>2. j \in Nat \ {0} /\ j \in 1 .. Len(b) /\ z[f] + 1 = k + j
    <3> DEFINE x == z[f]
    <3>1. x \in Nat /\ k \in Nat /\ r \in Nat /\ k <= x /\ x + 3 <= r /\ Len(b) = r - k
      BY <2>1, <1>1, <1>3
    <3> HIDE DEF x
    <3>2. x + 1 - k \in Nat \ {0} /\ x + 1 - k \in 1 .. Len(b) /\ x + 1 = k + (x + 1 - k)
      BY <3>1
    <3> QED
      BY <3>2 DEF x
  <2>3. z[f] + 1 <= Len(S)
    BY <2>1, <1>1, <1>3
  <2>4. /\ S[z[f] + 1] = Boundary[1] /\ S[z[f] + 2] = Boundary[2]
        /\ S[z[f] + 3] = Boundary[3]
    BY <2>3, BoundaryBehind
  <2>5. z[f] + 1 + 1 = z[f] + 2 /\ z[f] + 1 + 2 = z[f] + 3
    BY <2>1
  <2> HIDE DEF j
  <2>6. HoldsAt(b, j, Boundary) <=>
           /\ z[f] + 1 + 2 <= r
           /\ S[z[f] + 1] = Boundary[1] /\ S[z[f] + 1 + 1] = Boundary[2]
           /\ S[z[f] + 1 + 2] = Boundary[3]
    BY <2>2, HoldsBoundary
  <2>7. HoldsAt(b, j, Boundary)
    BY <2>4, <2>5, <2>6, <1>3
  <2> QED
    BY <2>2, <2>7 DEF j
<1>4. CASE q = 0
  <2>1. \A j \in 1 .. Len(b) : ~ HoldsAt(b, j, Boundary)
    BY <1>2, <1>4
  <2>2. ASSUME NEW f \in 0 .. Len(s), k <= z[f]
        PROVE  r < z[f] + 3
    <3>1. ~ (z[f] + 3 <= r)
      BY <2>1, <2>2, <1>3
    <3>2. z[f] \in Nat
      BY EndsIncrease
    <3> QED
      BY <3>1, <3>2, <1>1
  <2> QED
    BY <2>2, <1>4 DEF q, MarkerAt
<1>5. CASE q # 0
  <2>1. /\ q \in 1 .. Len(b) /\ HoldsAt(b, q, Boundary)
        /\ \A j \in 1 .. Len(b) : HoldsAt(b, j, Boundary) => q <= j
    BY <1>2, <1>5
  <2> DEFINE p == k + q
  <2>2. q \in Nat \ {0} /\ p \in 1 .. Len(S)
    BY <2>1, <1>1
  <2>3. p + 2 <= r /\ S[p] = Boundary[1]
    <3>1. p = k + q
      OBVIOUS
    <3> HIDE DEF p
    <3> QED
      BY <3>1, <2>1, <2>2, HoldsBoundary
  <2>4. \/ h /\ p = 2
        \/ \E f \in 1 .. Len(s) : p = z[f - 1] + 1
        \/ e /\ p = z[Len(s)] + 1
    <3> HIDE DEF p
    <3> QED
      BY <2>2, <2>3, BoundaryAt
  <2>5. ASSUME NEW f \in 0 .. Len(s), k <= z[f], z[f] + 3 <= r
        PROVE  k + q <= z[f] + 1
    <3>1. q <= z[f] + 1 - k
      BY <2>1, <2>5, <1>3
    <3>2. z[f] \in Nat /\ q \in Nat /\ k \in Nat
      BY <2>2, <1>1, EndsIncrease
    <3> DEFINE x == z[f]
    <3>3. x \in Nat /\ q <= x + 1 - k
      BY <3>1, <3>2
    <3> HIDE DEF x
    <3>4. k + q <= x + 1
      BY <3>2, <3>3
    <3> QED
      BY <3>4 DEF x
  <2>6. FirstBoundary(b, S, z, s, h, e, k, r, q)
    BY <2>2, <2>3, <2>4, <2>5 DEF FirstBoundary
  <2> QED
    BY <2>6, <1>5 DEF q, MarkerAt
<1> QED
  BY <1>4, <1>5

(* What a reader takes out of a buffer in which a frame is ready: the first *)
(* frame that begins in it, as it was sent, and what stays is what was      *)
(* received behind it.                                                      *)
Takes(b, S, z, s, k, r, f) ==
  /\ k <= z[f - 1] /\ z[f] - 2 <= r
  /\ \A g \in 1 .. f - 1 : z[g - 1] < k
  /\ Frame(b, Marker(b)) = Jpeg(f, s[f])
  /\ \E m \in {z[f] - 2, z[f]} : Window(After(b, Marker(b)), S, m, r)

LEMMA FrameTaken ==
  ASSUME NEW S, NEW z, NEW s, NEW h, NEW e, Laid(S, z, s, h, e),
         NEW b, NEW k, NEW r, Window(b, S, k, r), Ready(b)
  PROVE  \E f \in 1 .. Len(s) : Takes(b, S, z, s, k, r, f)
<1> DEFINE q == Marker(b)
<1>1. q # 0 /\ FrameReady(b, q)
  BY DEF Ready
<1>2. FirstBoundary(b, S, z, s, h, e, k, r, q)
  BY <1>1, MarkerIs DEF MarkerAt
<1> HIDE DEF q
<1>3. /\ q \in Nat \ {0} /\ k + q + 2 <= r
      /\ \/ h /\ k + q = 2
         \/ \E f \in 1 .. Len(s) : k + q = z[f - 1] + 1
         \/ e /\ k + q = z[Len(s)] + 1
      /\ \A f \in 0 .. Len(s) : k <= z[f] /\ z[f] + 3 <= r => k + q <= z[f] + 1
  BY <1>2 DEF FirstBoundary
<1>4. k + q # z[Len(s)] + 1
  BY <1>1, <1>3, NoFrameBehind
<1>5. ~ (h /\ k + q = 2 /\ Len(s) = 0)
  BY <1>1, <1>3, NoFrameBehind
<1>6. \E f \in 1 .. Len(s) : Leads(k + q, f, z, h)
  <2>1. CASE h /\ k + q = 2
    <3>1. 1 \in 1 .. Len(s)
      BY <2>1, <1>5, EndsIncrease
    <3>2. Leads(k + q, 1, z, h)
      BY <2>1 DEF Leads
    <3> QED
      BY <3>1, <3>2
  <2>2. CASE \E f \in 1 .. Len(s) : k + q = z[f - 1] + 1
    BY <2>2 DEF Leads
  <2> QED
    BY <2>1, <2>2, <1>3, <1>4
<1>7. PICK f \in 1 .. Len(s) : Leads(k + q, f, z, h)
  BY <1>6
<1> DEFINE a == z[f - 1]
           n == s[f]
<1>8. /\ a \in Nat /\ n \in Nat /\ n > 0 /\ z[f] = a + n + 12
      /\ f - 1 \in 0 .. Len(s) /\ Len(s) \in Nat
  BY EndsIncrease
<1>9. k \in Nat /\ r \in Nat /\ k <= r
  BY WindowIs
<1>10. WholeAt(b, S, q, r, a, f, n)
  BY <1>3, <1>7, Whole
<1>11. k <= a
  <2>1. HeadersAt(b, q, k, r, a, n)
    BY <1>3, <1>7, HeadersOf
  <2> QED
    BY <2>1 DEF HeadersAt
<1> HIDE DEF a, n
<1>12. a + n + 10 <= r
  BY <1>1, <1>10 DEF WholeAt
<1>13. Frame(b, q) = Jpeg(f, n)
  BY <1>12, <1>10 DEF WholeAt
<1>14. z[f] - 2 = a + n + 10
  BY <1>8
<1>15. \E m \in {z[f] - 2, z[f]} : Window(After(b, q), S, m, r)
  <2>1. Window(After(b, q), S, IF a + n + 12 <= r THEN a + n + 12 ELSE a + n + 10, r)
    BY <1>12, <1>10 DEF WholeAt
  <2>2. CASE a + n + 12 <= r
    <3>1. Window(After(b, q), S, z[f], r)
      BY <2>1, <2>2, <1>8, Zenon
    <3> QED
      BY <3>1
  <2>3. CASE ~ (a + n + 12 <= r)
    <3>1. Window(After(b, q), S, z[f] - 2, r)
      BY <2>1, <2>3, <1>14, Zenon
    <3> QED
      BY <3>1
  <2> QED
    BY <2>2, <2>3
<1>16. ASSUME NEW g \in 1 .. f - 1
       PROVE  z[g - 1] < k
  <2>1. g \in 1 .. Len(s) /\ g - 1 < f - 1 /\ g - 1 \in 0 .. Len(s)
    BY <1>8
  <2> DEFINE x == z[g - 1]
  <2>2. x \in Nat /\ x + 12 <= a
    BY <2>1, <1>8, EndsIncrease DEF a
  <2>3. k + q = a + 1
    <3>1. f # 1
      OBVIOUS
    <3> QED
      BY <3>1, <1>7 DEF Leads, a
  <2>4. k <= x /\ x + 3 <= r => k + q <= x + 1
    BY <1>3, <2>1
  <2> HIDE DEF x
  <2>5. x + 3 <= r
    BY <2>2, <1>8, <1>9, <1>12
  <2>6. x < k
    BY <2>2, <2>3, <2>4, <2>5, <1>8, <1>9
  <2> QED
    BY <2>6 DEF x
<1>17. Takes(b, S, z, s, k, r, f)
  BY <1>11, <1>12, <1>13, <1>14, <1>15, <1>16 DEF Takes, q, a, n
<1> QED
  BY <1>17

(* A frame that was received as a whole behind the beginning of the buffer  *)
(* is found, or one before it is, unless the response headers are there.    *)
LEMMA NotMissed ==
  ASSUME NEW S, NEW z, NEW s, NEW h, NEW e, Laid(S, z, s, h, e), ~ h,
         NEW b, NEW k, NEW r, Window(b, S, k, r),
         NEW f \in 1 .. Len(s), k <= z[f - 1], z[f] - 2 <= r
  PROVE  Ready(b)
<1> DEFINE q == Marker(b)
           a == z[f - 1]
<1>1. /\ a \in Nat /\ s[f] \in Nat /\ s[f] > 0 /\ z[f] = a + s[f] + 12
      /\ f - 1 \in 0 .. Len(s) /\ f \in 0 .. Len(s) /\ Len(s) \in Nat
  BY EndsIncrease
<1>2. k \in Nat /\ r \in Nat /\ k <= r
  BY WindowIs
<1>3. k <= a /\ a + 3 <= r
  <2> DEFINE n == s[f]
             x == z[f]
  <2>1. /\ a \in Nat /\ n \in Nat /\ x = a + n + 12 /\ k <= a /\ x - 2 <= r
        /\ r \in Nat
    BY <1>1, <1>2
  <2> HIDE DEF a, n, x
  <2> QED
    BY <2>1
<1>4. MarkerAt(b, S, z, s, h, e, k, r)
  BY MarkerIs
<1> HIDE DEF q
<1>5. q # 0
  <2> SUFFICES ASSUME q = 0
               PROVE  FALSE
    OBVIOUS
  <2>1. k <= a => r < a + 3
    BY <1>1, <1>4 DEF MarkerAt, q
  <2> HIDE DEF a
  <2> QED
    BY <2>1, <1>1, <1>2, <1>3
<1>6. FirstBoundary(b, S, z, s, h, e, k, r, q)
  BY <1>4, <1>5 DEF MarkerAt, q
<1>7. /\ q \in Nat \ {0}
      /\ \/ \E g \in 1 .. Len(s) : k + q = z[g - 1] + 1
         \/ k + q = z[Len(s)] + 1
      /\ k + q <= a + 1
  BY <1>1, <1>3, <1>6 DEF FirstBoundary
<1>8. z[Len(s)] \in Nat /\ z[f] <= z[Len(s)]
  <2>1. Len(s) \in 0 .. Len(s)
    BY <1>1
  <2> QED
    BY <2>1, <1>1, EndsIncrease
<1> HIDE DEF a
<1>9. k + q # z[Len(s)] + 1
  <2> DEFINE t == z[Len(s)]
             x == z[f]
             n == s[f]
  <2>1. /\ t \in Nat /\ x <= t /\ x = a + n + 12 /\ k + q <= a + 1
        /\ q \in Nat /\ k \in Nat /\ a \in Nat /\ n \in Nat
    BY <1>1, <1>2, <1>7, <1>8
  <2> HIDE DEF t, x, n
  <2>2. k + q # t + 1
    BY <2>1
  <2> QED
    BY <2>2 DEF t
<1>10. PICK g \in 1 .. Len(s) : k + q = z[g - 1] + 1
  BY <1>7, <1>9
<1> DEFINE c == z[g - 1]
           n == s[g]
<1>11. /\ c \in Nat /\ n \in Nat /\ n > 0 /\ z[g] = c + n + 12 /\ z[g] \in Nat
       /\ g - 1 \in 0 .. Len(s) /\ g \in 0 .. Len(s)
  BY EndsIncrease
<1>12. Leads(k + q, g, z, h)
  BY <1>10 DEF Leads
<1>13. WholeAt(b, S, q, r, c, g, n)
  BY <1>7, <1>12, Whole
<1>14. PartAt(S, c, g, n)
  BY PieceOfPart
<1>15. k + q = c + 1
  BY <1>10
<1>16. ~ (f - 1 < g - 1)
  <2>1. f - 1 < g - 1 => a + 12 <= c
    BY <1>1, <1>11, EndsIncrease DEF a
  <2> HIDE DEF c
  <2>2. c <= a
    BY <1>1, <1>2, <1>7, <1>11, <1>15
  <2> QED
    BY <2>1, <2>2, <1>1, <1>11
<1>17. z[g] <= z[f]
  <2>1. g = f \/ g < f
    BY <1>16, <1>1
  <2>2. g < f => z[g] + 12 <= z[f]
    BY <1>1, <1>11, EndsIncrease
  <2>3. z[f] \in Nat
    BY <1>1, EndsIncrease
  <2> DEFINE x == z[f]
             y == z[g]
  <2>4. x \in Nat /\ y \in Nat /\ (y = x \/ y + 12 <= x)
    <3>1. g = f => y = x
      OBVIOUS
    <3>2. g < f => y + 12 <= x
      BY <2>2
    <3>3. x \in Nat /\ y \in Nat
      BY <2>3, <1>11
    <3> HIDE DEF x, y
    <3> QED
      BY <2>1, <3>1, <3>2, <3>3
  <2> HIDE DEF x, y
  <2>5. y <= x
    BY <2>4
  <2> QED
    BY <2>5 DEF x, y
<1> HIDE DEF c, n
<1>18. c + n + 10 <= r
  <2> DEFINE x == z[f]
  <2>1. x \in Nat /\ x - 2 <= r /\ c + n + 12 <= x
    <3>1. x \in Nat
      BY <1>1, EndsIncrease
    <3>2. x - 2 <= r
      OBVIOUS
    <3>3. c + n + 12 <= x
      <4>1. c + n + 12 = z[g] /\ z[g] <= x
        BY <1>11, <1>17
      <4> HIDE DEF x
      <4> QED
        BY <4>1, Zenon
    <3> QED
      BY <3>1, <3>2, <3>3, Zenon
  <2> HIDE DEF x
  <2> QED
    BY <2>1, <1>2, <1>11
<1>19. FrameReady(b, q)
  BY <1>13, <1>18 DEF WholeAt
<1>20. ~ EndsStream(b, q)
  <2> DEFINE j == q + 3
  <2>1. EndsStream(b, q) <=> HoldsAt(b, j, <<EndMark>>)
    BY Literals DEF EndsStream
  <2>2. j \in Nat \ {0} /\ c + 4 = k + j
    BY <1>2, <1>7, <1>11, <1>15
  <2> HIDE DEF j
  <2>3. HoldsAt(b, j, <<EndMark>>) <=> c + 4 <= r /\ S[c + 4] = EndMark
    BY <2>2, HoldsEndMark
  <2>4. S[c + 4] = CR
    BY <1>14 DEF PartAt
  <2> QED
    BY <2>1, <2>3, <2>4, Distinct
<1>21. q > 0
  BY <1>7
<1> QED
  BY <1>19, <1>20, <1>21 DEF Ready, q

(* How many bytes the pieces between two parts are. *)
LEMMA ByteValues ==
  /\ Bytes(CR) = 1 /\ Bytes(LF) = 1
  /\ Bytes(Boundary[1]) = 3 /\ Bytes(Boundary[2]) = 4 /\ Bytes(Boundary[3]) = 3
<1>1. /\ CR # EndMark /\ LF # EndMark
      /\ \A p \in {CR, LF} : p \notin {Boundary[1], Boundary[2], Boundary[3]}
  BY Distinct
<1>2. /\ \A p \in {Boundary[1], Boundary[2], Boundary[3]} : p \notin {CR, LF, EndMark}
      /\ Boundary[2] \notin {Boundary[1], Boundary[3]}
  <2>1. Boundary[2] # Boundary[3]
    <3>1. <<"b2">>[1] # <<"b3">>[1]
      OBVIOUS
    <3> QED
      BY <3>1 DEF Boundary
  <2> QED
    BY <2>1, Distinct
<1>3. \A p \in {CR, LF} : Bytes(p) = 1
  BY <1>1 DEF Bytes
<1>4. Bytes(Boundary[1]) = 3 /\ Bytes(Boundary[3]) = 3
  BY <1>2 DEF Bytes
<1>5. Bytes(Boundary[2]) = 4
  BY <1>2 DEF Bytes
<1> QED
  BY <1>3, <1>4, <1>5

LEMMA BoundaryBytes ==
  ByteLen(Boundary) = 10
<1> DEFINE w == [j \in DOMAIN Boundary |-> Bytes(Boundary[j])]
<1>1. w[1] = 3 /\ w[2] = 4 /\ w[3] = 3
  BY ByteValues, Literals
<1>2. ByteLen(Boundary) = Total(w, 3)
  BY Literals DEF ByteLen
<1> HIDE DEF w
<1>3. \A j \in 1 .. 3 : w[j] \in Nat
  BY <1>1
<1>4. /\ Total(w, 0) = 0
      /\ \A j \in 1 .. 3 : Total(w, j) = Total(w, j - 1) + w[j]
  BY <1>3, TotalIs
<1>5. /\ Total(w, 1) = Total(w, 1 - 1) + w[1]
      /\ Total(w, 2) = Total(w, 2 - 1) + w[2]
      /\ Total(w, 3) = Total(w, 3 - 1) + w[3]
  BY <1>4
<1>6. 1 - 1 = 0 /\ 2 - 1 = 1 /\ 3 - 1 = 2
  OBVIOUS
<1> QED
  BY <1>1, <1>2, <1>4, <1>5, <1>6

(* Four pieces are few bytes when none is more than four and, of four, the  *)
(* first is one.                                                            *)
LEMMA FewBytes ==
  ASSUME NEW b \in Seq(Piece), NEW n \in 0 .. 4, Len(b) = n,
         \A j \in 1 .. n : Bytes(b[j]) \in 0 .. 4,
         n = 4 => Bytes(b[1]) = 1
  PROVE  Short(b)
<1> DEFINE w == [j \in DOMAIN b |-> Bytes(b[j])]
<1>1. \A j \in 1 .. n : w[j] = Bytes(b[j])
  OBVIOUS
<1>2. ByteLen(b) = Total(w, n)
  BY DEF ByteLen
<1> HIDE DEF w
<1>3. /\ \A j \in 1 .. n : w[j] \in Nat /\ w[j] <= 4
      /\ n = 4 => w[1] = 1
  BY <1>1
<1>4. /\ Total(w, 0) = 0
      /\ \A j \in 1 .. n : Total(w, j) = Total(w, j - 1) + w[j]
      /\ \A j \in 0 .. n : Total(w, j) \in Nat
  BY <1>3, TotalIs
<1>5. Total(w, n) <= 14
  <2>1. ASSUME NEW j \in 1 .. n
        PROVE  /\ Total(w, j) = Total(w, j - 1) + w[j]
               /\ Total(w, j) \in Nat /\ Total(w, j - 1) \in Nat
               /\ w[j] \in Nat /\ w[j] <= 4
    BY <1>3, <1>4
  <2>2. 1 - 1 = 0 /\ 2 - 1 = 1 /\ 3 - 1 = 2 /\ 4 - 1 = 3
    OBVIOUS
  <2>3. CASE n = 0
    BY <2>3, <1>4
  <2>4. CASE n = 1
    <3>1. 1 \in 1 .. n
      BY <2>4
    <3> QED
      BY <3>1, <2>1, <2>2, <2>4, <1>4
  <2>5. CASE n = 2
    <3>1. 1 \in 1 .. n /\ 2 \in 1 .. n
      BY <2>5
    <3>2. Total(w, 1) = Total(w, 0) + w[1] /\ Total(w, 2) = Total(w, 1) + w[2]
      BY <3>1, <2>1, <2>2
    <3> QED
      BY <3>1, <3>2, <2>1, <2>5, <1>4
  <2>6. CASE n = 3
    <3>1. 1 \in 1 .. n /\ 2 \in 1 .. n /\ 3 \in 1 .. n
      BY <2>6
    <3>2. /\ Total(w, 1) = Total(w, 0) + w[1] /\ Total(w, 2) = Total(w, 1) + w[2]
          /\ Total(w, 3) = Total(w, 2) + w[3]
      BY <3>1, <2>1, <2>2
    <3> QED
      BY <3>1, <3>2, <2>1, <2>6, <1>4
  <2>7. CASE n = 4
    <3>1. 1 \in 1 .. n /\ 2 \in 1 .. n /\ 3 \in 1 .. n /\ 4 \in 1 .. n
      BY <2>7
    <3>2. /\ Total(w, 1) = Total(w, 0) + w[1] /\ Total(w, 2) = Total(w, 1) + w[2]
          /\ Total(w, 3) = Total(w, 2) + w[3] /\ Total(w, 4) = Total(w, 3) + w[4]
      BY <3>1, <2>1, <2>2
    <3>3. w[1] = 1
      BY <2>7, <1>3
    <3> QED
      BY <3>1, <3>2, <3>3, <2>1, <2>7, <1>4
  <2> QED
    BY <2>3, <2>4, <2>5, <2>6, <2>7
<1> QED
  BY <1>2, <1>5, BoundaryBytes DEF Short

(* What stands between the data of a frame and the end of a boundary behind *)
(* it is too short for the library to look for a boundary in.               *)
LEMMA ShortWait ==
  ASSUME NEW S, NEW z, NEW s, NEW h, NEW e, Laid(S, z, s, h, e),
         NEW b, NEW k, NEW r, Window(b, S, k, r), NEW m \in 0 .. Len(s),
         \/ k = z[m]
         \/ m # 0 /\ k = z[m] - 2,
         r < z[m] + 3
  PROVE  Short(b)
<1> DEFINE t == z[m]
           n == r - k
<1>1. t \in Nat /\ Len(S) \in Nat /\ Len(s) \in Nat
  BY EndsIncrease
<1>2. /\ b \in Seq(Piece) /\ Len(b) = n /\ k \in Nat /\ r \in Nat /\ k <= r
      /\ r <= Len(S)
      /\ \A j \in 1 .. n : b[j] = S[k + j]
  BY WindowIs DEF Window
<1>3. m # 0 => S[t - 1] = CR /\ S[t] = LF
  <2> SUFFICES ASSUME m # 0
               PROVE  S[t - 1] = CR /\ S[t] = LF
    OBVIOUS
  <2>1. m \in 1 .. Len(s)
    OBVIOUS
  <2> DEFINE a == z[m - 1]
             l == s[m]
  <2>2. t = a + l + 12 /\ a \in Nat /\ l \in Nat
    BY <2>1, EndsIncrease
  <2>3. PartAt(S, a, m, l)
    BY <2>1, PieceOfPart
  <2> HIDE DEF a, l, t
  <2>4. t - 1 = a + l + 11
    BY <2>2
  <2> QED
    BY <2>2, <2>3, <2>4 DEF PartAt
<1>4. t + 1 <= r => S[t + 1] = Boundary[1] /\ S[t + 2] = Boundary[2]
  <2>1. t + 1 <= r => t + 1 <= Len(S)
    BY <1>1, <1>2
  <2> QED
    BY <2>1, BoundaryBehind
<1>5. r < t + 3 /\ (k = t \/ (m # 0 /\ k = t - 2))
  OBVIOUS
<1> HIDE DEF t
<1>6. n \in 0 .. 4 /\ (n = 4 => k = t - 2 /\ m # 0)
  BY <1>1, <1>2, <1>5
<1>7. ASSUME NEW j \in 1 .. n
      PROVE  Bytes(b[j]) \in 0 .. 4
  <2>1. /\ \/ k + j = t + 1
           \/ k + j = t + 2
           \/ k + j \in {t - 1, t} /\ m # 0
        /\ k + j <= r
    BY <1>1, <1>2, <1>5
  <2>2. CASE k + j \in {t - 1, t} /\ m # 0
    <3>1. S[k + j] \in {CR, LF}
      BY <2>2, <1>3
    <3> QED
      BY <3>1, <1>2, ByteValues
  <2>3. CASE k + j = t + 1 \/ k + j = t + 2
    <3>1. t + 1 <= r
      BY <2>1, <2>3, <1>1, <1>2
    <3>2. S[k + j] \in {Boundary[1], Boundary[2]}
      BY <2>3, <3>1, <1>4
    <3> QED
      BY <3>2, <1>2, ByteValues
  <2> QED
    BY <2>1, <2>2, <2>3
<1>8. n = 4 => Bytes(b[1]) = 1
  <2> SUFFICES ASSUME n = 4
               PROVE  Bytes(b[1]) = 1
    OBVIOUS
  <2>1. k + 1 = t - 1 /\ m # 0 /\ 1 \in 1 .. n
    BY <1>1, <1>2, <1>6
  <2>2. b[1] = S[t - 1]
    BY <2>1, <1>2
  <2> QED
    BY <2>1, <2>2, <1>3, ByteValues
<1> HIDE DEF n
<1> QED
  BY <1>2, <1>6, <1>7, <1>8, FewBytes

------------------------------------------------------------------------------
(* The frames that were decoded *)

Sent(s) == {Jpeg(f, s[f]) : f \in DOMAIN s}

Decoded(fr) == {FrameNumber(fr[i]) : i \in DOMAIN fr}

(* fr with one more frame, number f. *)
OneMore(more, fr, s, f) ==
  /\ more \in Seq(Sent(s)) /\ Len(more) = Len(fr) + 1
  /\ \A i \in 1 .. Len(fr) : more[i] = fr[i]
  /\ more[Len(fr) + 1] = Jpeg(f, s[f])
  /\ FrameNumber(more[Len(fr) + 1]) = f
  /\ Decoded(more) = Decoded(fr) \union {f}

LEMMA FrameAppended ==
  ASSUME NEW s \in Seq(Nat \ {0}), NEW fr \in Seq(Sent(s)), NEW f \in 1 .. Len(s)
  PROVE  OneMore(Append(fr, Jpeg(f, s[f])), fr, s, f)
<1> DEFINE x == Jpeg(f, s[f])
           more == Append(fr, x)
           n == Len(fr)
<1>1. f \in DOMAIN s /\ s[f] \in Nat /\ s[f] > 0
  OBVIOUS
<1>2. x \in Sent(s)
  BY <1>1 DEF Sent
<1>3. FrameNumber(x) = f
  <2>1. 1 \in 1 .. s[f]
    BY <1>1
  <2>2. x[1] = <<"jpeg", f, 1>>
    BY <2>1 DEF Jpeg
  <2>3. <<"jpeg", f, 1>>[2] = f
    OBVIOUS
  <2> QED
    BY <2>2, <2>3 DEF FrameNumber
<1> HIDE DEF x
<1>4. /\ more \in Seq(Sent(s)) /\ Len(more) = n + 1 /\ n \in Nat
      /\ \A i \in 1 .. n : more[i] = fr[i]
      /\ more[n + 1] = x
  BY <1>2, AppendProperties
<1> HIDE DEF more
<1>5. DOMAIN fr = 1 .. n /\ DOMAIN more = 1 .. n + 1
  BY <1>4
<1>6. Decoded(more) = Decoded(fr) \union {f}
  <2>1. \A i \in 1 .. n + 1 : i \in 1 .. n \/ i = n + 1
    BY <1>4
  <2>2. 1 .. n \subseteq 1 .. n + 1 /\ n + 1 \in 1 .. n + 1
    BY <1>4
  <2>3. \A i \in 1 .. n : FrameNumber(more[i]) = FrameNumber(fr[i])
    BY <1>4
  <2>4. FrameNumber(more[n + 1]) = f
    BY <1>3, <1>4
  <2> QED
    BY <1>5, <2>1, <2>2, <2>3, <2>4 DEF Decoded
<1> HIDE DEF n
<1>7. OneMore(more, fr, s, f)
  BY <1>3, <1>4, <1>6 DEF OneMore, x, n
<1> QED
  BY <1>7 DEF more, x

(* FramesWholeInOrder, of the frames fr of a stream of the sizes s. *)
WholeInOrder(fr, s) ==
  /\ \A i \in DOMAIN fr : \E f \in DOMAIN s : fr[i] = Jpeg(f, s[f])
  /\ \A i \in 2 .. Len(fr) : FrameNumber(fr[i - 1]) < FrameNumber(fr[i])

LEMMA LaterFrameInOrder ==
  ASSUME NEW s \in Seq(Nat \ {0}), NEW fr \in Seq(Sent(s)), NEW f \in 1 .. Len(s),
         WholeInOrder(fr, s), \A g \in Decoded(fr) : g < f,
         NEW more, OneMore(more, fr, s, f)
  PROVE  WholeInOrder(more, s)
<1> DEFINE n == Len(fr)
<1>1. n \in Nat /\ DOMAIN fr = 1 .. n
  OBVIOUS
<1>2. /\ more \in Seq(Sent(s)) /\ Len(more) = n + 1
      /\ \A i \in 1 .. n : more[i] = fr[i]
      /\ FrameNumber(more[n + 1]) = f
  BY DEF OneMore
<1>3. DOMAIN more = 1 .. n + 1
  BY <1>2
<1>4. \A i \in 1 .. n + 1 : \E g \in DOMAIN s : more[i] = Jpeg(g, s[g])
  BY <1>2, <1>3 DEF Sent
<1> HIDE DEF n
<1>5. ASSUME NEW i \in 2 .. n + 1
      PROVE  FrameNumber(more[i - 1]) < FrameNumber(more[i])
  <2>1. i - 1 \in 1 .. n
    BY <1>1
  <2>2. more[i - 1] = fr[i - 1]
    BY <2>1, <1>2
  <2>3. CASE i = n + 1
    <3>1. FrameNumber(fr[i - 1]) \in Decoded(fr)
      BY <2>1, <1>1 DEF Decoded
    <3>2. FrameNumber(more[i]) = f
      BY <2>3, <1>2
    <3> QED
      BY <2>2, <3>1, <3>2
  <2>4. CASE i # n + 1
    <3>1. i \in 2 .. n /\ i \in 1 .. n
      BY <2>4, <1>1
    <3>2. FrameNumber(fr[i - 1]) < FrameNumber(fr[i])
      BY <3>1 DEF WholeInOrder, n
    <3> QED
      BY <2>2, <3>1, <3>2, <1>2
  <2> QED
    BY <2>3, <2>4
<1> QED
  BY <1>2, <1>3, <1>4, <1>5 DEF WholeInOrder

(* The bridge, whose buffer begins behind position k and was last emptied   *)
(* when d was received, has decoded what lies between.                      *)
KeepsUp(fr, s, z, k, d) ==
  \A f \in 1 .. Len(s) :
    /\ f \in Decoded(fr) => z[f] - 2 <= k
    /\ d <= z[f - 1] /\ z[f - 1] < k => f \in Decoded(fr)

LEMMA KeepsUpWithFrame ==
  ASSUME NEW S, NEW z, NEW s, NEW h, NEW e, Laid(S, z, s, h, e),
         NEW fr \in Seq(Sent(s)), NEW k \in Nat, NEW d \in Nat,
         KeepsUp(fr, s, z, k, d), Decoded(fr) \subseteq 1 .. Len(s),
         NEW f \in 1 .. Len(s), k <= z[f - 1],
         \A g \in 1 .. f - 1 : z[g - 1] < k,
         NEW m \in {z[f] - 2, z[f]},
         NEW more, OneMore(more, fr, s, f)
  PROVE  /\ KeepsUp(more, s, z, m, d)
         /\ \A g \in Decoded(fr) : g < f
<1> DEFINE a == z[f - 1]
           n == s[f]
<1>1. /\ a \in Nat /\ n \in Nat /\ n > 0 /\ z[f] \in Nat /\ z[f] = a + n + 12
      /\ f - 1 \in 0 .. Len(s) /\ f \in 0 .. Len(s) /\ Len(s) \in Nat
  BY EndsIncrease
<1>2. k <= a
  OBVIOUS
<1>3. m \in Nat /\ a <= m /\ m <= a + n + 12 /\ a + n + 10 <= m
  <2>1. m = z[f] - 2 \/ m = z[f]
    OBVIOUS
  <2> DEFINE x == z[f]
  <2>2. /\ m = x - 2 \/ m = x
        /\ x = a + n + 12 /\ a \in Nat /\ n \in Nat
    BY <2>1, <1>1
  <2> HIDE DEF x, a, n
  <2> QED
    BY <2>2
<1> HIDE DEF a, n
<1>4. Decoded(more) = Decoded(fr) \union {f}
  BY DEF OneMore
<1>5. ASSUME NEW g \in Decoded(fr)
      PROVE  g < f /\ z[g] - 2 <= m
  <2>1. g \in 1 .. Len(s)
    OBVIOUS
  <2>2. g - 1 \in 0 .. Len(s) /\ g \in 0 .. Len(s) /\ z[g] \in Nat
    BY <2>1, EndsIncrease
  <2>3. z[g] - 2 <= k
    BY <2>1 DEF KeepsUp
  <2>4. g = f \/ f < g => z[f] <= z[g]
    <3>1. f < g => z[f] + 12 <= z[g]
      BY <1>1, <2>2, EndsIncrease
    <3> DEFINE x == z[f]
               y == z[g]
    <3>2. x \in Nat /\ y \in Nat /\ (f < g => x + 12 <= y) /\ (g = f => x = y)
      BY <3>1, <1>1, <2>2
    <3> HIDE DEF x, y
    <3>3. g = f \/ f < g => x <= y
      BY <3>2
    <3> QED
      BY <3>3 DEF x, y
  <2> DEFINE y == z[g]
  <2>5. y \in Nat /\ y - 2 <= k /\ (g = f \/ f < g => a + n + 12 <= y)
    BY <1>1, <2>2, <2>3, <2>4
  <2> HIDE DEF y
  <2>6. y - 2 <= m
    BY <2>5, <1>1, <1>2, <1>3
  <2>7. ~ (g = f \/ f < g)
    BY <2>5, <1>1, <1>2
  <2>8. g < f
    BY <2>1, <2>7
  <2> QED
    BY <2>6, <2>8 DEF y
<1>6. ASSUME NEW g \in 1 .. Len(s), d <= z[g - 1], z[g - 1] < m
      PROVE  g \in Decoded(more)
  <2> DEFINE y == z[g - 1]
  <2>1. y \in Nat /\ g - 1 \in 0 .. Len(s) /\ g \in Nat
    BY EndsIncrease
  <2>2. CASE y < k
    BY <2>2, <1>4, <1>6 DEF KeepsUp
  <2>3. CASE ~ (y < k)
    <3>1. g \notin 1 .. f - 1
      BY <2>3
    <3>2. g = f \/ f < g
      BY <3>1, <1>1, <2>1
    <3>3. ~ (f < g)
      <4>1. f < g => f < g - 1 \/ f = g - 1
        BY <1>1, <2>1
      <4>2. f < g - 1 => a + n + 12 + 12 <= y
        BY <1>1, <2>1, EndsIncrease
      <4>3. f = g - 1 => a + n + 12 = y
        BY <1>1
      <4>4. y < m
        BY <1>6
      <4> HIDE DEF y
      <4> QED
        BY <4>1, <4>2, <4>3, <4>4, <1>1, <1>3, <2>1
    <3> QED
      BY <3>2, <3>3, <1>4
  <2> QED
    BY <2>2, <2>3
<1>7. z[f] - 2 <= m
  BY <1>1, <1>3
<1>8. KeepsUp(more, s, z, m, d)
  BY <1>4, <1>5, <1>6, <1>7 DEF KeepsUp
<1> QED
  BY <1>5, <1>8

(* The frames fr are consecutive, and unless p is "exit" the buffer begins  *)
(* behind the data of the last of them.                                     *)
Behind(k, z, m) == k \in {z[m] - 2, z[m]}

InStepAfter(skipped, fr, h, z, k, p) ==
  /\ ~ h => skipped = 0
  /\ \A i \in DOMAIN fr : FrameNumber(fr[i]) = skipped + i
  /\ p # "exit" => Behind(k, z, skipped + Len(fr))

InStep(fr, s, h, z, k, p) ==
  \E skipped \in 0 .. Len(s) - Len(fr) : InStepAfter(skipped, fr, h, z, k, p)

(* The frame that a buffer gives is the next one. *)
LEMMA NextFrame ==
  ASSUME NEW S, NEW z, NEW s, NEW h, NEW e, Laid(S, z, s, h, e),
         NEW k \in Nat, NEW m \in 0 .. Len(s), Behind(k, z, m),
         NEW f \in 1 .. Len(s), k <= z[f - 1],
         \A g \in 1 .. f - 1 : z[g - 1] < k
  PROVE  f = m + 1
<1> DEFINE t == z[m]
           a == z[f - 1]
<1>1. /\ t \in Nat /\ a \in Nat /\ f - 1 \in 0 .. Len(s) /\ m \in Nat /\ f \in Nat
      /\ Len(s) \in Nat
  BY EndsIncrease
<1>2. k = t - 2 \/ k = t
  BY DEF Behind
<1>3. k <= a
  OBVIOUS
<1>4. f - 1 < m => a + 12 <= t
  BY <1>1, EndsIncrease
<1>5. m < f - 1 => t < k
  <2> SUFFICES ASSUME m < f - 1
               PROVE  t < k
    OBVIOUS
  <2> DEFINE g == m + 1
  <2>1. g \in 1 .. f - 1 /\ g - 1 = m
    BY <1>1
  <2> HIDE DEF g, t
  <2>2. z[g - 1] < k
    BY <2>1
  <2> QED
    BY <2>1, <2>2 DEF t
<1> HIDE DEF t, a
<1>6. ~ (f - 1 < m) /\ ~ (m < f - 1)
  BY <1>1, <1>2, <1>3, <1>4, <1>5
<1> QED
  BY <1>1, <1>6

LEMMA InStepWithFrame ==
  ASSUME NEW S, NEW z, NEW s, NEW h, NEW e, Laid(S, z, s, h, e),
         NEW fr \in Seq(Sent(s)), NEW k \in Nat, NEW p, p # "exit",
         fr # <<>> \/ ~ h => InStep(fr, s, h, z, k, p),
         NEW f \in 1 .. Len(s), k <= z[f - 1],
         \A g \in 1 .. f - 1 : z[g - 1] < k,
         NEW m, Behind(m, z, f),
         NEW more, OneMore(more, fr, s, f)
  PROVE  InStep(more, s, h, z, m, p)
<1> DEFINE n == Len(fr)
<1>1. n \in Nat /\ DOMAIN fr = 1 .. n /\ Len(s) \in Nat /\ f \in Nat
  BY EndsIncrease
<1>2. /\ more \in Seq(Sent(s)) /\ Len(more) = n + 1
      /\ \A i \in 1 .. n : more[i] = fr[i]
      /\ FrameNumber(more[n + 1]) = f
  BY DEF OneMore
<1>3. DOMAIN more = 1 .. n + 1
  BY <1>1, <1>2
<1>4. CASE fr # <<>> \/ ~ h
  <2>1. PICK skipped \in 0 .. Len(s) - n : InStepAfter(skipped, fr, h, z, k, p)
    BY <1>4 DEF InStep
  <2>2. /\ ~ h => skipped = 0
        /\ \A i \in 1 .. n : FrameNumber(fr[i]) = skipped + i
        /\ Behind(k, z, skipped + n)
    BY <2>1, <1>1 DEF InStepAfter
  <2> HIDE DEF n
  <2>3. skipped \in Nat /\ skipped + n \in 0 .. Len(s)
    BY <1>1
  <2>4. f = skipped + n + 1
    BY <2>2, <2>3, NextFrame
  <2>5. skipped \in 0 .. Len(s) - Len(more) /\ skipped + Len(more) = f
    BY <2>3, <2>4, <1>1, <1>2
  <2>6. \A i \in 1 .. n + 1 : FrameNumber(more[i]) = skipped + i
    <3> TAKE i \in 1 .. n + 1
    <3>1. i \in 1 .. n \/ i = n + 1
      BY <1>1
    <3>2. skipped + (n + 1) = f
      BY <2>3, <2>4, <1>1
    <3> QED
      BY <3>1, <3>2, <2>2, <1>2
  <2>7. InStepAfter(skipped, more, h, z, m, p)
    BY <2>2, <2>5, <2>6, <1>3 DEF InStepAfter
  <2> QED
    BY <2>5, <2>7 DEF InStep
<1>5. CASE fr = <<>> /\ h
  <2>1. n = 0
    BY <1>5
  <2> DEFINE skipped == f - 1
  <2>2. skipped \in 0 .. Len(s) - Len(more) /\ skipped + Len(more) = f
    BY <2>1, <1>1, <1>2
  <2>3. \A i \in 1 .. n + 1 : FrameNumber(more[i]) = skipped + i
    BY <2>1, <1>1, <1>2
  <2> HIDE DEF skipped
  <2>4. InStepAfter(skipped, more, h, z, m, p)
    BY <2>2, <2>3, <1>3, <1>5 DEF InStepAfter
  <2> QED
    BY <2>2, <2>4 DEF InStep
<1> QED
  BY <1>4, <1>5

(* Consecutive frames are in order. *)
LEMMA ConsecutiveInOrder ==
  ASSUME NEW s \in Seq(Nat \ {0}), NEW fr \in Seq(Sent(s)), NEW h, NEW z, NEW k, NEW p,
         InStep(fr, s, h, z, k, p)
  PROVE  WholeInOrder(fr, s)
<1> DEFINE n == Len(fr)
<1>1. n \in Nat /\ DOMAIN fr = 1 .. n
  OBVIOUS
<1>2. PICK skipped \in 0 .. Len(s) - n : InStepAfter(skipped, fr, h, z, k, p)
  BY DEF InStep
<1>3. \A i \in 1 .. n : FrameNumber(fr[i]) = skipped + i
  BY <1>1, <1>2 DEF InStepAfter
<1>4. \A i \in 1 .. n : \E g \in DOMAIN s : fr[i] = Jpeg(g, s[g])
  BY <1>1 DEF Sent
<1> HIDE DEF n
<1>5. ASSUME NEW i \in 2 .. n
      PROVE  FrameNumber(fr[i - 1]) < FrameNumber(fr[i])
  <2>1. i - 1 \in 1 .. n /\ i \in 1 .. n /\ skipped \in Int
    BY <1>1
  <2>2. FrameNumber(fr[i - 1]) = skipped + (i - 1) /\ FrameNumber(fr[i]) = skipped + i
    BY <2>1, <1>3
  <2> QED
    BY <2>1, <2>2
<1> QED
  BY <1>1, <1>4, <1>5 DEF WholeInOrder, n

------------------------------------------------------------------------------
(* The inductive invariant *)

(* How much of the stream lies before the buffer. *)
Taken == read - Len(buf)

Basics ==
  /\ reader \in {"bridge", "library"} /\ sizes \in Sizes
  /\ headed \in BOOLEAN /\ endMarked \in BOOLEAN
  /\ reader = "bridge" => ~ headed
  /\ read \in 0 .. Len(Stream) /\ dropped \in 0 .. read
  /\ pc \in {"recv", "parse", "exit"}
  /\ pc = "parse" => reader = "bridge"
  /\ frames \in Seq(Sent(sizes))

Buffered == pc # "exit" => Window(buf, Stream, Taken, read)

BridgeKeepsUp ==
  reader = "bridge" /\ pc # "exit" =>
    KeepsUp(frames, sizes, PartsEnd, Taken, dropped)

BridgeWaits == reader = "bridge" /\ pc = "recv" => NeedMore(buf)

LibraryInStep ==
  reader = "library" /\ (frames # <<>> \/ ~ headed) =>
    InStep(frames, sizes, headed, PartsEnd, Taken, pc)

IInv ==
  /\ Basics /\ Buffered /\ WholeInOrder(frames, sizes)
  /\ BridgeKeepsUp /\ BridgeWaits /\ LibraryInStep

LEMMA TheStream ==
  ASSUME Basics
  PROVE  /\ Laid(Stream, PartsEnd, sizes, headed, endMarked)
         /\ sizes \in Seq(Nat \ {0})
         /\ read \in Nat /\ dropped \in Nat /\ dropped <= read
         /\ read <= Len(Stream) /\ Len(Stream) \in Nat
         /\ Stream \in Seq(Piece)
<1>1. sizes \in Seq(Nat \ {0}) /\ headed \in BOOLEAN /\ endMarked \in BOOLEAN
  BY SizesAssumption DEF Basics
<1>2. Laid(Stream, PartsEnd, sizes, headed, endMarked)
  BY <1>1, StreamLaid
<1>3. Len(Stream) \in Nat
  BY <1>2, EndsIncrease
<1>4. Stream \in Seq(Piece)
  BY <1>2 DEF Laid
<1>5. read \in 0 .. Len(Stream) /\ dropped \in 0 .. read
  BY DEF Basics
<1> HIDE DEF Basics
<1>6. read \in Nat /\ dropped \in Nat /\ dropped <= read /\ read <= Len(Stream)
  BY <1>3, <1>5
<1> QED
  BY <1>1, <1>2, <1>3, <1>4, <1>6

LEMMA SameStream ==
  ASSUME UNCHANGED streamVars
  PROVE  /\ reader' = reader /\ sizes' = sizes /\ headed' = headed
         /\ endMarked' = endMarked
         /\ Stream' = Stream /\ PartsEnd' = PartsEnd
         /\ Sent(sizes)' = Sent(sizes)
<1>1. reader' = reader /\ sizes' = sizes /\ headed' = headed /\ endMarked' = endMarked
  BY DEF streamVars
<1>2. ResponseHead' = ResponseHead
  BY <1>1 DEF ResponseHead
<1>3. Stream' = Stream
  BY <1>1, <1>2 DEF Stream
<1>4. PartsEnd' = PartsEnd
  BY <1>1, <1>2 DEF PartsEnd
<1>5. Sent(sizes)' = Sent(sizes)
  BY <1>1 DEF Sent
<1> QED
  BY <1>1, <1>3, <1>4, <1>5

(* Nothing of the stream is before an empty buffer but what was received. *)
LEMMA EmptyWindow ==
  ASSUME NEW S \in Seq(Piece), NEW r \in Nat, r <= Len(S)
  PROVE  Window(<<>>, S, r, r)
<1>1. SubSeq(S, r + 1, r) = <<>>
  BY SubSeqEmpty
<1> QED
  BY <1>1 DEF Window

LEMMA EmptyNeedsMore ==
  NeedMore(<<>>)
<1>1. Len(<<>>) = 0 /\ 1 .. 0 = {}
  OBVIOUS
<1>2. Marker(<<>>) = 0
  <2> DEFINE found == {k \in 1 .. Len(<<>>) : HoldsAt(<<>>, k, Boundary)}
  <2>1. found = {}
    BY <1>1
  <2>2. Marker(<<>>) = IF found = {} THEN 0 ELSE Min(found)
    BY DEF Marker, Search
  <2> HIDE DEF found
  <2> QED
    BY <2>1, <2>2
<1> QED
  BY <1>2 DEF NeedMore

LEMMA InitHolds ==
  ASSUME Init
  PROVE  IInv
<1>1. /\ reader \in {"bridge", "library"} /\ sizes \in Sizes
      /\ headed \in BOOLEAN /\ endMarked \in BOOLEAN
      /\ reader = "bridge" => ~ headed
      /\ read = 0 /\ dropped = 0 /\ pc = "recv" /\ buf = <<>> /\ frames = <<>>
  BY DEF Init
<1>2. Laid(Stream, PartsEnd, sizes, headed, endMarked) /\ sizes \in Seq(Nat \ {0})
  BY <1>1, SizesAssumption, StreamLaid
<1>3. Len(Stream) \in Nat /\ Stream \in Seq(Piece)
  BY <1>2, EndsIncrease DEF Laid
<1>4. Basics
  BY <1>1, <1>3 DEF Basics
<1>5. Taken = 0
  <2>1. Len(buf) = 0
    BY <1>1
  <2> QED
    BY <2>1, <1>1 DEF Taken
<1>6. Window(buf, Stream, Taken, read)
  <2>1. Window(<<>>, Stream, 0, 0)
    BY <1>3, EmptyWindow
  <2> QED
    BY <2>1, <1>1, <1>5
<1>7. DOMAIN frames = {} /\ Len(frames) = 0
  BY <1>1
<1>8. WholeInOrder(frames, sizes)
  BY <1>7 DEF WholeInOrder
<1>9. KeepsUp(frames, sizes, PartsEnd, Taken, dropped)
  <2>1. \A f \in 1 .. Len(sizes) : PartsEnd[f - 1] \in Nat
    BY <1>2, EndsIncrease
  <2>2. Decoded(frames) = {}
    BY <1>7 DEF Decoded
  <2> QED
    BY <2>1, <2>2, <1>5 DEF KeepsUp
<1>10. NeedMore(buf)
  BY <1>1, EmptyNeedsMore
<1>11. ~ headed => InStep(frames, sizes, headed, PartsEnd, Taken, pc)
  <2> SUFFICES ASSUME ~ headed
               PROVE  InStep(frames, sizes, headed, PartsEnd, Taken, pc)
    OBVIOUS
  <2>1. PartsEnd[0] = 0
    BY <1>2 DEF Laid
  <2>2. 0 \in 0 .. Len(sizes) - Len(frames) /\ 0 + Len(frames) = 0
    BY <1>2, <1>7
  <2>3. Behind(Taken, PartsEnd, 0)
    BY <2>1, <1>5 DEF Behind
  <2>4. InStepAfter(0, frames, headed, PartsEnd, Taken, pc)
    BY <2>2, <2>3, <1>7 DEF InStepAfter
  <2> QED
    BY <2>2, <2>4 DEF InStep
<1> QED
  BY <1>1, <1>4, <1>6, <1>8, <1>9, <1>10, <1>11
     DEF IInv, Buffered, BridgeKeepsUp, BridgeWaits, LibraryInStep

(* A chunk that is received lengthens the window. *)
LEMMA ChunkReceived ==
  ASSUME IInv, pc # "exit", NEW n \in Nat, n <= ToCome
  PROVE  /\ Window(buf \o Chunk(n), Stream, Taken, read + n)
         /\ read + n \in Nat /\ read + n <= Len(Stream)
         /\ Taken \in Nat /\ Taken <= read
<1>1. Basics /\ Window(buf, Stream, Taken, read)
  BY DEF IInv, Buffered
<1>2. read \in Nat /\ read <= Len(Stream) /\ Len(Stream) \in Nat
  BY <1>1, TheStream
<1>3. read + n <= Len(Stream)
  BY <1>2 DEF ToCome
<1>4. Window(buf \o SubSeq(Stream, read + 1, read + n), Stream, Taken, read + n)
  BY <1>1, <1>3, WindowGrows
<1>5. Taken \in Nat /\ Taken <= read
  BY <1>1, WindowIs
<1> QED
  BY <1>2, <1>3, <1>4, <1>5 DEF Chunk

LEMMA BasicsKept ==
  ASSUME Basics, UNCHANGED streamVars,
         read' \in 0 .. Len(Stream), dropped' \in 0 .. read',
         pc' \in {"recv", "parse", "exit"}, pc' = "parse" => reader = "bridge",
         frames' \in Seq(Sent(sizes))
  PROVE  Basics'
<1>1. /\ reader' = reader /\ sizes' = sizes /\ headed' = headed
      /\ endMarked' = endMarked /\ Stream' = Stream /\ Sent(sizes)' = Sent(sizes)
  BY SameStream
<1> QED
  BY <1>1 DEF Basics

LEMMA RecvKeeps ==
  ASSUME IInv, NEW n \in 1 .. Min({MaxChunk, ToCome}), Recv(n)
  PROVE  IInv'
<1>1. /\ reader = "bridge" /\ pc = "recv" /\ read' = read + n /\ pc' = "parse"
      /\ UNCHANGED streamVars /\ frames' = frames
  BY DEF Recv
<1>2. Basics /\ WholeInOrder(frames, sizes)
      /\ KeepsUp(frames, sizes, PartsEnd, Taken, dropped)
  BY <1>1 DEF IInv, BridgeKeepsUp
<1>3. /\ Laid(Stream, PartsEnd, sizes, headed, endMarked)
      /\ read \in Nat /\ dropped \in Nat /\ dropped <= read /\ read <= Len(Stream)
      /\ Len(Stream) \in Nat /\ Stream \in Seq(Piece)
  BY <1>2, TheStream
<1>4. n \in Nat /\ n <= ToCome
  <2>1. ToCome \in Nat /\ MaxChunk \in Nat
    BY <1>3, LimitAssumption DEF ToCome
  <2> DEFINE K == {MaxChunk, ToCome}
  <2>2. K \subseteq Nat /\ K # {} /\ ToCome \in K
    BY <2>1
  <2>3. n \in 1 .. Min(K)
    OBVIOUS
  <2> HIDE DEF K
  <2>4. Min(K) \in K /\ Min(K) <= ToCome
    BY <2>2, MinOf
  <2> DEFINE u == Min(K)
             v == ToCome
  <2>5. u \in Nat /\ v \in Nat /\ u <= v /\ n \in 1 .. u
    BY <2>1, <2>2, <2>3, <2>4
  <2> HIDE DEF u, v
  <2>6. n \in Nat /\ n <= v
    BY <2>5
  <2> QED
    BY <2>6 DEF v
<1> DEFINE more == buf \o Chunk(n)
           r == read + n
<1>5. /\ Window(more, Stream, Taken, r)
      /\ r \in Nat /\ r <= Len(Stream) /\ Taken \in Nat /\ Taken <= read
  BY <1>1, <1>4, ChunkReceived
<1>6. \/ buf' = <<>> /\ dropped' = r
      \/ buf' = more /\ dropped' = dropped
  BY DEF Recv
<1>7. /\ reader' = reader /\ sizes' = sizes /\ headed' = headed
      /\ Stream' = Stream /\ PartsEnd' = PartsEnd
  BY <1>1, SameStream
<1> HIDE DEF more
<1>8. read' = r /\ read <= r
  BY <1>1, <1>3, <1>4
<1> HIDE DEF r
<1>9. Basics'
  <2>1. dropped' \in 0 .. read'
    BY <1>3, <1>5, <1>6, <1>8
  <2>2. read' \in 0 .. Len(Stream)
    BY <1>3, <1>5, <1>8
  <2>3. frames' \in Seq(Sent(sizes))
    BY <1>1, <1>2 DEF Basics
  <2> QED
    BY <1>1, <1>2, <2>1, <2>2, <2>3, BasicsKept
<1>10. CASE buf' = <<>> /\ dropped' = r
  <2>1. Taken' = r
    <3>1. Len(buf') = 0
      BY <1>10
    <3> QED
      BY <3>1, <1>5, <1>8 DEF Taken
  <2>2. Window(buf', Stream', Taken', read')
    <3>1. Window(<<>>, Stream, r, r)
      BY <1>3, <1>5, EmptyWindow
    <3> QED
      BY <3>1, <2>1, <1>7, <1>8, <1>10
  <2>3. KeepsUp(frames', sizes', PartsEnd', Taken', dropped')
    <3>1. ASSUME NEW f \in 1 .. Len(sizes)
          PROVE  /\ f \in Decoded(frames) => PartsEnd[f] - 2 <= r
                 /\ ~ (r <= PartsEnd[f - 1] /\ PartsEnd[f - 1] < r)
      <4> DEFINE x == PartsEnd[f]
                 y == PartsEnd[f - 1]
      <4>1. x \in Nat /\ y \in Nat
        BY <1>3, EndsIncrease
      <4>2. f \in Decoded(frames) => x - 2 <= Taken
        BY <1>2 DEF KeepsUp
      <4> HIDE DEF x, y
      <4>3. (f \in Decoded(frames) => x - 2 <= r) /\ ~ (r <= y /\ y < r)
        BY <4>1, <4>2, <1>3, <1>5, <1>8
      <4> QED
        BY <4>3 DEF x, y
    <3>2. KeepsUp(frames, sizes, PartsEnd, r, r)
      BY <3>1 DEF KeepsUp
    <3> QED
      BY <3>2, <2>1, <1>1, <1>7, <1>10
  <2> QED
    BY <2>2, <2>3, <1>1, <1>2, <1>7, <1>9
       DEF IInv, Buffered, BridgeKeepsUp, BridgeWaits, LibraryInStep
<1>11. CASE buf' = more /\ dropped' = dropped
  <2>1. Taken' = Taken
    <3>1. Len(more) = r - Taken
      BY <1>5, WindowIs
    <3> DEFINE t == Taken
    <3>2. t \in Nat /\ Len(more) = r - t
      BY <3>1, <1>5
    <3>3. Taken' = read' - Len(buf')
      BY DEF Taken
    <3> HIDE DEF t
    <3>4. Taken' = t
      BY <3>2, <3>3, <1>5, <1>8, <1>11
    <3> QED
      BY <3>4 DEF t
  <2>2. Window(buf', Stream', Taken', read')
    BY <2>1, <1>5, <1>7, <1>8, <1>11
  <2>3. KeepsUp(frames', sizes', PartsEnd', Taken', dropped')
    BY <2>1, <1>1, <1>2, <1>7, <1>11
  <2> QED
    BY <2>2, <2>3, <1>1, <1>2, <1>7, <1>9
       DEF IInv, Buffered, BridgeKeepsUp, BridgeWaits, LibraryInStep
<1> QED
  BY <1>6, <1>10, <1>11

LEMMA RecvEndsKeeps ==
  ASSUME IInv, RecvEnds
  PROVE  IInv'
<1>1. /\ reader = "bridge" /\ pc' = "exit" /\ UNCHANGED streamVars
      /\ read' = read /\ dropped' = dropped /\ frames' = frames
  BY DEF RecvEnds
<1>2. Basics /\ WholeInOrder(frames, sizes)
  BY DEF IInv
<1>3. Basics'
  BY <1>1, <1>2, BasicsKept DEF Basics
<1>4. reader' = reader /\ sizes' = sizes
  BY <1>1, SameStream
<1> QED
  BY <1>1, <1>2, <1>3, <1>4
     DEF IInv, Buffered, BridgeKeepsUp, BridgeWaits, LibraryInStep

LEMMA ParseWaitKeeps ==
  ASSUME IInv, ParseWait
  PROVE  IInv'
<1>1. /\ pc = "parse" /\ NeedMore(buf) /\ pc' = "recv" /\ UNCHANGED streamVars
      /\ read' = read /\ dropped' = dropped /\ frames' = frames /\ buf' = buf
  BY DEF ParseWait
<1>2. /\ Basics /\ WholeInOrder(frames, sizes) /\ reader = "bridge"
      /\ Window(buf, Stream, Taken, read)
      /\ KeepsUp(frames, sizes, PartsEnd, Taken, dropped)
  BY <1>1 DEF IInv, Basics, Buffered, BridgeKeepsUp
<1>3. Basics'
  BY <1>1, <1>2, BasicsKept DEF Basics
<1>4. /\ reader' = reader /\ sizes' = sizes /\ Stream' = Stream
      /\ PartsEnd' = PartsEnd
  BY <1>1, SameStream
<1>5. Taken' = Taken /\ NeedMore(buf')
  BY <1>1 DEF Taken
<1> QED
  BY <1>1, <1>2, <1>3, <1>4, <1>5
     DEF IInv, Buffered, BridgeKeepsUp, BridgeWaits, LibraryInStep

LEMMA ParseEndKeeps ==
  ASSUME IInv, ParseEnd
  PROVE  IInv'
<1>1. /\ pc = "parse" /\ pc' = "exit" /\ UNCHANGED streamVars
      /\ read' = read /\ dropped' = dropped /\ frames' = frames
  BY DEF ParseEnd
<1>2. Basics /\ WholeInOrder(frames, sizes) /\ reader = "bridge"
  BY <1>1 DEF IInv, Basics
<1>3. Basics'
  BY <1>1, <1>2, BasicsKept DEF Basics
<1>4. reader' = reader /\ sizes' = sizes
  BY <1>1, SameStream
<1> QED
  BY <1>1, <1>2, <1>3, <1>4
     DEF IInv, Buffered, BridgeKeepsUp, BridgeWaits, LibraryInStep

(* Only frames of the stream were decoded. *)
LEMMA DecodedAreSent ==
  ASSUME NEW s \in Seq(Nat \ {0}), NEW fr \in Seq(Sent(s))
  PROVE  Decoded(fr) \subseteq 1 .. Len(s)
<1> SUFFICES ASSUME NEW i \in DOMAIN fr
             PROVE  FrameNumber(fr[i]) \in 1 .. Len(s)
  BY DEF Decoded
<1>1. fr[i] \in Sent(s)
  OBVIOUS
<1>2. PICK f \in DOMAIN s : fr[i] = Jpeg(f, s[f])
  BY <1>1 DEF Sent
<1>3. f \in 1 .. Len(s) /\ <<>> \in Seq(Sent(s))
  OBVIOUS
<1>4. OneMore(Append(<<>>, Jpeg(f, s[f])), <<>>, s, f)
  BY <1>3, FrameAppended
<1>5. FrameNumber(Jpeg(f, s[f])) = f
  <2>1. Len(<<>>) + 1 = 1
    OBVIOUS
  <2> QED
    BY <1>4, <2>1 DEF OneMore
<1> QED
  BY <1>2, <1>3, <1>5

LEMMA ParseFrameKeeps ==
  ASSUME IInv, ParseFrame
  PROVE  IInv'
<1>1. /\ pc = "parse" /\ Ready(buf) /\ UNCHANGED streamVars
      /\ read' = read /\ dropped' = dropped /\ pc' = pc
      /\ frames' = Append(frames, Frame(buf, Marker(buf)))
      /\ buf' = After(buf, Marker(buf))
  BY DEF ParseFrame
<1>2. /\ Basics /\ WholeInOrder(frames, sizes) /\ reader = "bridge"
      /\ Window(buf, Stream, Taken, read)
      /\ KeepsUp(frames, sizes, PartsEnd, Taken, dropped)
      /\ frames \in Seq(Sent(sizes))
  BY <1>1 DEF IInv, Basics, Buffered, BridgeKeepsUp
<1>3. /\ Laid(Stream, PartsEnd, sizes, headed, endMarked)
      /\ sizes \in Seq(Nat \ {0}) /\ read \in Nat /\ dropped \in Nat
  BY <1>2, TheStream
<1>4. PICK f \in 1 .. Len(sizes) : Takes(buf, Stream, PartsEnd, sizes, Taken, read, f)
  BY <1>1, <1>2, <1>3, FrameTaken
<1>5. /\ Taken <= PartsEnd[f - 1]
      /\ \A g \in 1 .. f - 1 : PartsEnd[g - 1] < Taken
      /\ Frame(buf, Marker(buf)) = Jpeg(f, sizes[f])
  BY <1>4 DEF Takes
<1>6. PICK m \in {PartsEnd[f] - 2, PartsEnd[f]} : Window(buf', Stream, m, read)
  BY <1>1, <1>4 DEF Takes
<1>7. OneMore(frames', frames, sizes, f)
  BY <1>1, <1>2, <1>3, <1>5, FrameAppended
<1>8. Taken \in Nat
  BY <1>2, WindowIs
<1>9. Decoded(frames) \subseteq 1 .. Len(sizes)
  BY <1>2, <1>3, DecodedAreSent
<1>10. /\ KeepsUp(frames', sizes, PartsEnd, m, dropped)
       /\ \A g \in Decoded(frames) : g < f
  <2> DEFINE t == Taken
  <2>1. /\ t \in Nat /\ KeepsUp(frames, sizes, PartsEnd, t, dropped)
        /\ t <= PartsEnd[f - 1] /\ \A g \in 1 .. f - 1 : PartsEnd[g - 1] < t
    BY <1>2, <1>5, <1>8
  <2> HIDE DEF t
  <2> QED
    BY <2>1, <1>2, <1>3, <1>7, <1>9, KeepsUpWithFrame
<1>11. WholeInOrder(frames', sizes)
  BY <1>2, <1>3, <1>7, <1>10, LaterFrameInOrder
<1>12. Taken' = m
  <2>1. Len(buf') = read - m /\ m \in Nat
    BY <1>6, WindowIs
  <2>2. Taken' = read' - Len(buf')
    BY DEF Taken
  <2> QED
    BY <2>1, <2>2, <1>1, <1>3
<1>13. Basics'
  <2>1. frames' \in Seq(Sent(sizes))
    BY <1>7 DEF OneMore
  <2> QED
    BY <2>1, <1>1, <1>2, BasicsKept DEF Basics
<1>14. /\ reader' = reader /\ sizes' = sizes /\ Stream' = Stream
       /\ PartsEnd' = PartsEnd
  BY <1>1, SameStream
<1> QED
  BY <1>1, <1>2, <1>6, <1>10, <1>11, <1>12, <1>13, <1>14
     DEF IInv, Buffered, BridgeKeepsUp, BridgeWaits, LibraryInStep

(* The outcomes of a call of the library: it gives up, *)
LEMMA LibraryExits ==
  ASSUME IInv, reader = "library", UNCHANGED streamVars,
         read' \in 0 .. Len(Stream), dropped' \in 0 .. read',
         pc' = "exit", frames' = frames
  PROVE  IInv'
<1>1. Basics /\ WholeInOrder(frames, sizes)
  BY DEF IInv
<1>2. frames' \in Seq(Sent(sizes))
  BY <1>1 DEF Basics
<1>3. Basics'
  BY <1>1, <1>2, BasicsKept
<1>4. /\ reader' = reader /\ sizes' = sizes /\ headed' = headed
      /\ PartsEnd' = PartsEnd
  BY SameStream
<1>5. ASSUME frames # <<>> \/ ~ headed
      PROVE  InStep(frames', sizes', headed', PartsEnd', Taken', pc')
  <2>1. InStep(frames, sizes, headed, PartsEnd, Taken, pc)
    BY <1>5 DEF IInv, LibraryInStep
  <2>2. PICK skipped \in 0 .. Len(sizes) - Len(frames) :
          InStepAfter(skipped, frames, headed, PartsEnd, Taken, pc)
    BY <2>1 DEF InStep
  <2>3. InStepAfter(skipped, frames, headed, PartsEnd, Taken', "exit")
    BY <2>2 DEF InStepAfter
  <2>4. InStep(frames, sizes, headed, PartsEnd, Taken', "exit")
    BY <2>3 DEF InStep
  <2> QED
    BY <2>4, <1>4
<1> QED
  BY <1>1, <1>3, <1>4, <1>5
     DEF IInv, Buffered, BridgeKeepsUp, BridgeWaits, LibraryInStep

(* it keeps what it has, *)
LEMMA LibraryKeeps ==
  ASSUME IInv, reader = "library", pc = "recv", UNCHANGED streamVars,
         NEW n \in 0 .. ToCome, read' = read + n, dropped' = dropped,
         buf' = buf \o Chunk(n), pc' = pc, frames' = frames
  PROVE  IInv'
<1>1. Basics /\ WholeInOrder(frames, sizes)
  BY DEF IInv
<1>2. /\ read \in Nat /\ dropped \in Nat /\ dropped <= read
      /\ Len(Stream) \in Nat
  BY <1>1, TheStream
<1>3. n \in Nat /\ n <= ToCome
  <2>1. ToCome \in Int
    BY <1>2 DEF ToCome
  <2> QED
    BY <2>1
<1> DEFINE r == read + n
<1>4. /\ Window(buf', Stream, Taken, r)
      /\ r \in Nat /\ r <= Len(Stream) /\ Taken \in Nat
  BY <1>3, ChunkReceived
<1>5. read' = r /\ dropped <= r
  BY <1>2, <1>3
<1> HIDE DEF r
<1>6. Taken' = Taken
  <2>1. Len(buf') = r - Taken
    BY <1>4, WindowIs
  <2> DEFINE t == Taken
  <2>2. t \in Nat /\ Len(buf') = r - t
    BY <2>1, <1>4
  <2>3. Taken' = read' - Len(buf')
    BY DEF Taken
  <2> HIDE DEF t
  <2>4. Taken' = t
    BY <2>2, <2>3, <1>4, <1>5
  <2> QED
    BY <2>4 DEF t
<1>7. Basics'
  <2>1. read' \in 0 .. Len(Stream) /\ dropped' \in 0 .. read'
    BY <1>2, <1>4, <1>5
  <2>2. pc' \in {"recv", "parse", "exit"} /\ pc' # "parse"
    OBVIOUS
  <2>3. frames' \in Seq(Sent(sizes))
    BY <1>1 DEF Basics
  <2> QED
    BY <1>1, <2>1, <2>2, <2>3, BasicsKept
<1>8. /\ reader' = reader /\ sizes' = sizes /\ headed' = headed
      /\ PartsEnd' = PartsEnd /\ Stream' = Stream
  BY SameStream
<1>9. Window(buf', Stream', Taken', read')
  BY <1>4, <1>5, <1>6, <1>8
<1>10. frames # <<>> \/ ~ headed =>
         InStep(frames', sizes', headed', PartsEnd', Taken', pc')
  <2>1. frames # <<>> \/ ~ headed =>
          InStep(frames, sizes, headed, PartsEnd, Taken, pc)
    BY DEF IInv, LibraryInStep
  <2> QED
    BY <2>1, <1>6, <1>8
<1> QED
  BY <1>1, <1>7, <1>8, <1>9, <1>10
     DEF IInv, Buffered, BridgeKeepsUp, BridgeWaits, LibraryInStep

(* it throws away what holds no boundary, which it does before the first    *)
(* frame only, and only when it is fed with the response headers,           *)
LEMMA LibraryDiscards ==
  ASSUME IInv, reader = "library", pc = "recv", UNCHANGED streamVars,
         NEW n \in 0 .. ToCome, read' = read + n, dropped' = dropped,
         Discard(buf \o Chunk(n))
  PROVE  IInv'
<1> DEFINE b == buf \o Chunk(n)
           r == read + n
<1>1. /\ ~ Short(b) /\ Marker(b) = 0
      /\ buf' = <<>> /\ pc' = pc /\ frames' = frames
  BY DEF Discard
<1>2. Basics /\ WholeInOrder(frames, sizes)
  BY DEF IInv
<1>3. /\ read \in Nat /\ dropped \in Nat /\ dropped <= read
      /\ Len(Stream) \in Nat /\ sizes \in Seq(Nat \ {0}) /\ Stream \in Seq(Piece)
      /\ Laid(Stream, PartsEnd, sizes, headed, endMarked)
  BY <1>2, TheStream
<1>4. n \in Nat /\ n <= ToCome
  <2>1. ToCome \in Int
    BY <1>3 DEF ToCome
  <2> QED
    BY <2>1
<1>5. /\ Window(b, Stream, Taken, r)
      /\ r \in Nat /\ r <= Len(Stream) /\ Taken \in Nat
  BY <1>4, ChunkReceived
<1>6. read' = r /\ dropped <= r
  BY <1>3, <1>4
<1> HIDE DEF b, r
<1>7. ~ (frames # <<>> \/ ~ headed)
  <2> SUFFICES ASSUME frames # <<>> \/ ~ headed
               PROVE  FALSE
    OBVIOUS
  <2>1. InStep(frames, sizes, headed, PartsEnd, Taken, pc)
    BY DEF IInv, LibraryInStep
  <2>2. PICK skipped \in 0 .. Len(sizes) - Len(frames) :
          InStepAfter(skipped, frames, headed, PartsEnd, Taken, pc)
    BY <2>1 DEF InStep
  <2> DEFINE m == skipped + Len(frames)
             k == Taken
  <2>3. Len(sizes) \in Nat /\ Len(frames) \in Nat
    BY <1>2, <1>3 DEF Basics
  <2>4. m \in 0 .. Len(sizes)
    BY <2>3
  <2>5. Behind(k, PartsEnd, m)
    BY <2>2 DEF InStepAfter
  <2>6. m = 0 => frames = <<>>
    <3>1. m = 0 => Len(frames) = 0
      BY <2>3
    <3> QED
      BY <3>1, <1>2 DEF Basics
  <2>7. k \in Nat
    BY <1>5
  <2>8. Window(b, Stream, k, r)
    BY <1>5
  <2> HIDE DEF m, k
  <2>9. k = PartsEnd[m] \/ (m # 0 /\ k = PartsEnd[m] - 2)
    <3>1. CASE m = 0
      <4>1. PartsEnd[0] = 0
        BY <3>1, <2>6, <1>3 DEF Laid
      <4> QED
        BY <3>1, <4>1, <2>5, <2>7 DEF Behind
    <3>2. CASE m # 0
      BY <3>2, <2>5 DEF Behind
    <3> QED
      BY <3>1, <3>2
  <2>10. MarkerAt(b, Stream, PartsEnd, sizes, headed, endMarked, k, r)
    BY <2>8, <1>3, MarkerIs
  <2>11. k <= PartsEnd[m]
    <3>1. PartsEnd[m] \in Nat
      BY <1>3, <2>4, EndsIncrease
    <3> DEFINE t == PartsEnd[m]
    <3>2. t \in Nat /\ (k = t \/ k = t - 2)
      BY <3>1, <2>9
    <3> HIDE DEF t
    <3>3. k <= t
      BY <3>2
    <3> QED
      BY <3>3 DEF t
  <2>12. r < PartsEnd[m] + 3
    BY <2>4, <2>10, <2>11, <1>1 DEF MarkerAt
  <2>13. Short(b)
    BY <2>4, <2>8, <2>9, <2>12, <1>3, ShortWait
  <2> QED
    BY <2>13, <1>1
<1>8. Basics'
  <2>1. read' \in 0 .. Len(Stream) /\ dropped' \in 0 .. read'
    BY <1>3, <1>5, <1>6
  <2>2. pc' \in {"recv", "parse", "exit"} /\ pc' # "parse"
    BY <1>1
  <2>3. frames' \in Seq(Sent(sizes))
    BY <1>1, <1>2 DEF Basics
  <2> QED
    BY <1>2, <2>1, <2>2, <2>3, BasicsKept
<1>9. /\ reader' = reader /\ sizes' = sizes /\ headed' = headed
      /\ PartsEnd' = PartsEnd /\ Stream' = Stream
  BY SameStream
<1>10. Window(buf', Stream', Taken', read')
  <2>1. Window(<<>>, Stream, r, r)
    BY <1>3, <1>5, EmptyWindow
  <2>2. Taken' = r
    <3>1. Len(buf') = 0
      BY <1>1
    <3> QED
      BY <3>1, <1>5, <1>6 DEF Taken
  <2> QED
    BY <2>1, <2>2, <1>1, <1>6, <1>9
<1> QED
  BY <1>1, <1>2, <1>7, <1>8, <1>9, <1>10
     DEF IInv, Buffered, BridgeKeepsUp, BridgeWaits, LibraryInStep

(* or it returns a frame. *)
LEMMA LibraryExtracts ==
  ASSUME IInv, reader = "library", pc = "recv", UNCHANGED streamVars,
         NEW n \in 0 .. ToCome, read' = read + n, dropped' = dropped,
         Extract(buf \o Chunk(n))
  PROVE  IInv'
<1> DEFINE b == buf \o Chunk(n)
           r == read + n
<1>1. /\ Ready(b) /\ buf' = After(b, Marker(b)) /\ pc' = pc
      /\ frames' = Append(frames, Frame(b, Marker(b)))
  BY DEF Extract
<1>2. Basics /\ frames \in Seq(Sent(sizes))
  BY DEF IInv, Basics
<1>3. /\ read \in Nat /\ dropped \in Nat /\ dropped <= read
      /\ Len(Stream) \in Nat /\ sizes \in Seq(Nat \ {0}) /\ Stream \in Seq(Piece)
      /\ Laid(Stream, PartsEnd, sizes, headed, endMarked)
  BY <1>2, TheStream
<1>4. n \in Nat /\ n <= ToCome
  <2>1. ToCome \in Int
    BY <1>3 DEF ToCome
  <2> QED
    BY <2>1
<1>5. /\ Window(b, Stream, Taken, r)
      /\ r \in Nat /\ r <= Len(Stream) /\ Taken \in Nat
  BY <1>4, ChunkReceived
<1>6. read' = r /\ dropped <= r
  BY <1>3, <1>4
<1> HIDE DEF b, r
<1>7. PICK f \in 1 .. Len(sizes) : Takes(b, Stream, PartsEnd, sizes, Taken, r, f)
  BY <1>1, <1>3, <1>5, FrameTaken
<1>8. /\ Taken <= PartsEnd[f - 1]
      /\ \A g \in 1 .. f - 1 : PartsEnd[g - 1] < Taken
      /\ Frame(b, Marker(b)) = Jpeg(f, sizes[f])
  BY <1>7 DEF Takes
<1>9. PICK m \in {PartsEnd[f] - 2, PartsEnd[f]} : Window(buf', Stream, m, r)
  BY <1>1, <1>7 DEF Takes
<1>10. OneMore(frames', frames, sizes, f)
  BY <1>1, <1>2, <1>3, <1>8, FrameAppended
<1>11. InStep(frames', sizes, headed, PartsEnd, m, pc)
  <2> DEFINE k == Taken
  <2>1. /\ k \in Nat /\ k <= PartsEnd[f - 1]
        /\ \A g \in 1 .. f - 1 : PartsEnd[g - 1] < k
        /\ frames # <<>> \/ ~ headed =>
             InStep(frames, sizes, headed, PartsEnd, k, pc)
    BY <1>5, <1>8 DEF IInv, LibraryInStep
  <2>2. Behind(m, PartsEnd, f) /\ pc # "exit"
    BY <1>9 DEF Behind
  <2> HIDE DEF k
  <2> QED
    BY <2>1, <2>2, <1>2, <1>3, <1>10, InStepWithFrame
<1>12. frames' \in Seq(Sent(sizes))
  BY <1>10 DEF OneMore
<1>13. WholeInOrder(frames', sizes)
  BY <1>3, <1>11, <1>12, ConsecutiveInOrder
<1>14. Taken' = m
  <2>1. Len(buf') = r - m /\ m \in Nat
    BY <1>9, WindowIs
  <2>2. Taken' = read' - Len(buf')
    BY DEF Taken
  <2> QED
    BY <2>1, <2>2, <1>5, <1>6
<1>15. Basics'
  <2>1. read' \in 0 .. Len(Stream) /\ dropped' \in 0 .. read'
    BY <1>3, <1>5, <1>6
  <2>2. pc' \in {"recv", "parse", "exit"} /\ pc' # "parse"
    BY <1>1
  <2> QED
    BY <1>2, <2>1, <2>2, <1>12, BasicsKept
<1>16. /\ reader' = reader /\ sizes' = sizes /\ headed' = headed
       /\ PartsEnd' = PartsEnd /\ Stream' = Stream
  BY SameStream
<1> QED
  BY <1>1, <1>6, <1>9, <1>11, <1>13, <1>14, <1>15, <1>16
     DEF IInv, Buffered, BridgeKeepsUp, BridgeWaits, LibraryInStep

LEMMA FeedKeeps ==
  ASSUME IInv, NEW n \in 0 .. ToCome, Feed(n)
  PROVE  IInv'
<1> DEFINE b == buf \o Chunk(n)
<1>1. /\ reader = "library" /\ pc = "recv" /\ read' = read + n
      /\ UNCHANGED streamVars /\ dropped' = dropped
  BY DEF Feed
<1>2. \/ KeepShort(b) \/ Discard(b) \/ End(b) \/ KeepPart(b)
      \/ Extract(b) \/ NoMemory(b)
  BY DEF Feed
<1>3. CASE KeepShort(b) \/ KeepPart(b)
  <2>1. buf' = b /\ pc' = pc /\ frames' = frames
    BY <1>3 DEF KeepShort, KeepPart
  <2> QED
    BY <2>1, <1>1, LibraryKeeps
<1>4. CASE Discard(b)
  BY <1>1, <1>4, LibraryDiscards
<1>5. CASE Extract(b)
  BY <1>1, <1>5, LibraryExtracts
<1>6. CASE End(b) \/ NoMemory(b)
  <2>1. pc' = "exit" /\ frames' = frames
    BY <1>6 DEF End, NoMemory
  <2>2. Basics
    BY DEF IInv
  <2>3. /\ read \in Nat /\ dropped \in Nat /\ dropped <= read
        /\ Len(Stream) \in Nat
    BY <2>2, TheStream
  <2>4. n \in Nat /\ read + n <= Len(Stream)
    BY <2>3 DEF ToCome
  <2>5. read' \in 0 .. Len(Stream) /\ dropped' \in 0 .. read'
    BY <1>1, <2>3, <2>4
  <2> QED
    BY <1>1, <2>1, <2>5, LibraryExits
<1> HIDE DEF b
<1> QED
  BY <1>2, <1>3, <1>4, <1>5, <1>6

------------------------------------------------------------------------------
(* The theorems *)

LEMMA Stutters ==
  ASSUME IInv, UNCHANGED vars
  PROVE  IInv'
<1>1. /\ UNCHANGED streamVars /\ read' = read /\ pc' = pc /\ buf' = buf
      /\ frames' = frames /\ dropped' = dropped
  BY DEF vars
<1>2. /\ reader' = reader /\ sizes' = sizes /\ headed' = headed
      /\ PartsEnd' = PartsEnd /\ Stream' = Stream
  BY <1>1, SameStream
<1>3. Basics'
  BY <1>1, BasicsKept DEF IInv, Basics
<1>4. Taken' = Taken
  BY <1>1 DEF Taken
<1> QED
  BY <1>1, <1>2, <1>3, <1>4
     DEF IInv, Buffered, BridgeKeepsUp, BridgeWaits, LibraryInStep

(* In every state of every run the buffer is a stretch of the stream that   *)
(* ends where receiving has got to, the bridge has decoded every frame that *)
(* it has room for before its buffer, and the library's buffer begins       *)
(* behind the last frame it returned.                                       *)
THEOREM ReadersInvariant == Spec => []IInv
<1>1. IInv /\ [Next]_vars => IInv'
  <2> SUFFICES ASSUME IInv, [Next]_vars
               PROVE  IInv'
    OBVIOUS
  <2>1. ASSUME NEW n \in 1 .. Min({MaxChunk, ToCome}), Recv(n)
        PROVE  IInv'
    BY <2>1, RecvKeeps
  <2>2. CASE RecvEnds
    BY <2>2, RecvEndsKeeps
  <2>3. CASE ParseWait
    BY <2>3, ParseWaitKeeps
  <2>4. CASE ParseEnd
    BY <2>4, ParseEndKeeps
  <2>5. CASE ParseFrame
    BY <2>5, ParseFrameKeeps
  <2>6. ASSUME NEW n \in 0 .. ToCome, Feed(n)
        PROVE  IInv'
    BY <2>6, FeedKeeps
  <2>7. CASE UNCHANGED vars
    BY <2>7, Stutters
  <2> QED
    BY <2>1, <2>2, <2>3, <2>4, <2>5, <2>6, <2>7 DEF Next
<1> QED
  BY InitHolds, <1>1, PTL DEF Spec

(* The buffers of both readers always hold a stretch of the stream that     *)
(* ends with the last byte received, and every frame they hand on is the    *)
(* data of a frame that was sent.                                           *)
THEOREM ReadersTypeOK == Spec => []TypeOK
<1>1. IInv => TypeOK
  <2> SUFFICES ASSUME IInv
               PROVE  TypeOK
    OBVIOUS
  <2>1. Basics /\ Buffered
    BY DEF IInv
  <2>2. pc # "exit" => \E k \in 0 .. read : buf = SubSeq(Stream, k + 1, read)
    <3> SUFFICES ASSUME pc # "exit"
                 PROVE  \E k \in 0 .. read : buf = SubSeq(Stream, k + 1, read)
      OBVIOUS
    <3> DEFINE t == Taken
    <3>1. Window(buf, Stream, t, read)
      BY <2>1 DEF Buffered
    <3> HIDE DEF t
    <3>2. t \in 0 .. read /\ buf = SubSeq(Stream, t + 1, read)
      BY <3>1 DEF Window
    <3> QED
      BY <3>2
  <2>3. frames \in Seq({Jpeg(f, sizes[f]) : f \in DOMAIN sizes})
    BY <2>1 DEF Basics, Sent
  <2> QED
    BY <2>1, <2>2, <2>3 DEF TypeOK, Basics
<1> QED
  BY ReadersInvariant, <1>1, PTL

(* Whatever the sizes of the frames, wherever recv() cuts the stream and    *)
(* wherever the bridge's buffer overflows: what the decoder and the caller  *)
(* get are frames that were sent, whole and in their order.                 *)
THEOREM ReadersWholeInOrder == Spec => []FramesWholeInOrder
<1>1. IInv => FramesWholeInOrder
  BY DEF IInv, WholeInOrder, FramesWholeInOrder
<1> QED
  BY ReadersInvariant, <1>1, PTL

(* When the bridge waits for data, no frame waits with it that was received *)
(* as a whole since the last overflow.                                      *)
THEOREM BridgeDecodesArrived == Spec => []ArrivedFramesDecoded
<1>1. IInv => ArrivedFramesDecoded
  <2> SUFFICES ASSUME IInv, reader = "bridge", pc = "recv", NEW f \in Arrived
               PROVE  \E i \in DOMAIN frames : FrameNumber(frames[i]) = f
    BY DEF ArrivedFramesDecoded
  <2>1. /\ Basics /\ Window(buf, Stream, Taken, read) /\ NeedMore(buf) /\ ~ headed
        /\ KeepsUp(frames, sizes, PartsEnd, Taken, dropped)
    BY DEF IInv, Basics, Buffered, BridgeKeepsUp, BridgeWaits
  <2>2. /\ Laid(Stream, PartsEnd, sizes, headed, endMarked)
        /\ sizes \in Seq(Nat \ {0}) /\ read \in Nat /\ dropped \in Nat
    BY <2>1, TheStream
  <2>3. /\ f \in 1 .. Len(sizes)
        /\ dropped < PartEnd(sizes, f - 1) + 1 /\ PartEnd(sizes, f) - 2 <= read
    BY <2>2 DEF Arrived, PartStart
  <2>4. \A g \in 0 .. Len(sizes) : PartsEnd[g] = PartEnd(sizes, g) /\ PartsEnd[g] \in Nat
    <3>1. ResponseHead = <<>> /\ Len(<<>>) = 0
      BY <2>1 DEF ResponseHead
    <3>2. \A g \in 0 .. Len(sizes) : PartEnd(sizes, g) \in Nat
      BY <2>2, PartEnds
    <3> QED
      BY <3>1, <3>2 DEF PartsEnd
  <2> DEFINE a == PartsEnd[f - 1]
             k == Taken
  <2>5. /\ a \in Nat /\ a = PartEnd(sizes, f - 1)
        /\ PartsEnd[f] = PartEnd(sizes, f)
    <3>1. f - 1 \in 0 .. Len(sizes) /\ f \in 0 .. Len(sizes)
      BY <2>2, <2>3
    <3> QED
      BY <3>1, <2>4
  <2>6. dropped <= a /\ PartsEnd[f] - 2 <= read
    <3> HIDE DEF a
    <3> QED
      BY <2>2, <2>3, <2>5
  <2>7. k \in Nat /\ Window(buf, Stream, k, read)
    BY <2>1, WindowIs
  <2>8. ~ (k <= a)
    <3> SUFFICES ASSUME k <= a
                 PROVE  FALSE
      OBVIOUS
    <3>1. Ready(buf)
      <4> HIDE DEF k
      <4> QED
        BY <2>1, <2>2, <2>3, <2>6, <2>7, NotMissed
    <3> QED
      BY <3>1, <2>1 DEF Ready, NeedMore
  <2>9. a < k
    <3> HIDE DEF a, k
    <3> QED
      BY <2>5, <2>7, <2>8
  <2>10. f \in Decoded(frames)
    BY <2>1, <2>3, <2>6, <2>9 DEF KeepsUp
  <2> QED
    BY <2>10 DEF Decoded
<1> QED
  BY ReadersInvariant, <1>1, PTL

(* From the first frame it returns, the library returns every frame of the  *)
(* stream; only response headers before them make it miss frames.           *)
THEOREM LibraryReturnsConsecutive == Spec => []InStepFromFirstFrame
<1>1. IInv => InStepFromFirstFrame
  <2> SUFFICES ASSUME IInv, reader = "library", frames # <<>>
               PROVE  \E skipped \in 0 .. Len(sizes) - Len(frames) :
                        /\ ~headed => skipped = 0
                        /\ \A i \in DOMAIN frames : FrameNumber(frames[i]) = skipped + i
    BY DEF InStepFromFirstFrame
  <2>1. InStep(frames, sizes, headed, PartsEnd, Taken, pc)
    BY DEF IInv, LibraryInStep
  <2>2. PICK skipped \in 0 .. Len(sizes) - Len(frames) :
          InStepAfter(skipped, frames, headed, PartsEnd, Taken, pc)
    BY <2>1 DEF InStep
  <2> QED
    BY <2>2 DEF InStepAfter
<1> QED
  BY ReadersInvariant, <1>1, PTL

(* Until the stream ends, the library's buffer reaches back to the boundary *)
(* of the next frame, or that is still to come.                             *)
THEOREM LibraryLosesNothing == Spec => []NothingLost
<1>1. IInv => NothingLost
  <2> SUFFICES ASSUME IInv, reader = "library", ~ headed, pc = "recv",
                      Len(frames) + 1 \in DOMAIN sizes
               PROVE  read - Len(buf) < PartStart(sizes, Len(frames) + 1)
    BY DEF NothingLost
  <2>1. Basics /\ InStep(frames, sizes, headed, PartsEnd, Taken, pc)
    BY DEF IInv, LibraryInStep
  <2>2. sizes \in Seq(Nat \ {0}) /\ Window(buf, Stream, Taken, read)
    BY <2>1, TheStream DEF IInv, Buffered
  <2>3. PICK skipped \in 0 .. Len(sizes) - Len(frames) :
          InStepAfter(skipped, frames, headed, PartsEnd, Taken, pc)
    BY <2>1 DEF InStep
  <2> DEFINE n == Len(frames)
             k == Taken
  <2>4. n \in Nat /\ n \in 0 .. Len(sizes) /\ n + 1 - 1 = n
    BY <2>1, <2>2 DEF Basics
  <2>5. Behind(k, PartsEnd, n)
    <3>1. skipped = 0 /\ Behind(k, PartsEnd, skipped + n)
      BY <2>3 DEF InStepAfter
    <3> HIDE DEF n, k
    <3>2. skipped + n = n
      BY <3>1, <2>4
    <3> QED
      BY <3>1, <3>2
  <2>6. PartsEnd[n] = PartEnd(sizes, n) /\ PartEnd(sizes, n) \in Nat
    <3>1. ResponseHead = <<>> /\ Len(<<>>) = 0
      BY DEF ResponseHead
    <3>2. PartEnd(sizes, n) \in Nat
      BY <2>2, <2>4, PartEnds
    <3> HIDE DEF n
    <3> QED
      BY <3>1, <3>2, <2>4 DEF PartsEnd
  <2>7. k \in Nat
    BY <2>2, WindowIs
  <2>8. PartStart(sizes, n + 1) = PartEnd(sizes, n) + 1
    <3> HIDE DEF n
    <3> QED
      BY <2>4 DEF PartStart
  <2> HIDE DEF k, n
  <2>9. k < PartStart(sizes, n + 1)
    <3> DEFINE t == PartEnd(sizes, n)
    <3>1. t \in Nat /\ (k = t - 2 \/ k = t)
      BY <2>5, <2>6 DEF Behind
    <3> HIDE DEF t
    <3>2. k < t + 1
      BY <3>1
    <3> QED
      BY <3>2, <2>8 DEF t
  <2> QED
    BY <2>9 DEF k, n, Taken
<1> QED
  BY ReadersInvariant, <1>1, PTL

------------------------------------------------------------------------------
(* The bridge's buffer and its limit *)

(* A frame that is taken off the buffer makes it shorter. *)
LEMMA FrameShortens ==
  ASSUME IInv, ParseFrame
  PROVE  /\ Len(buf) \in Nat /\ Len(buf') \in Nat /\ Len(buf') < Len(buf)
         /\ \E f \in 1 .. Len(sizes) : Taken' \in {PartsEnd[f] - 2, PartsEnd[f]}
         /\ Taken' \in Nat
<1>1. /\ pc = "parse" /\ Ready(buf) /\ read' = read
      /\ buf' = After(buf, Marker(buf))
  BY DEF ParseFrame
<1>2. Basics /\ Window(buf, Stream, Taken, read)
  BY <1>1 DEF IInv, Buffered
<1>3. Laid(Stream, PartsEnd, sizes, headed, endMarked) /\ read \in Nat
  BY <1>2, TheStream
<1>4. PICK f \in 1 .. Len(sizes) : Takes(buf, Stream, PartsEnd, sizes, Taken, read, f)
  BY <1>1, <1>2, <1>3, FrameTaken
<1>5. PICK m \in {PartsEnd[f] - 2, PartsEnd[f]} : Window(buf', Stream, m, read)
  BY <1>1, <1>4 DEF Takes
<1> DEFINE a == PartsEnd[f - 1]
           c == PartsEnd[f]
           n == sizes[f]
           k == Taken
<1>6. a \in Nat /\ c \in Nat /\ n \in Nat /\ n > 0 /\ c = a + n + 12 /\ k <= a
  BY <1>3, <1>4, EndsIncrease DEF Takes
<1>7. Len(buf) = read - k /\ Len(buf) \in Nat /\ k \in Nat
  BY <1>2, WindowIs
<1>8. Len(buf') = read - m /\ Len(buf') \in Nat /\ m \in Nat
  BY <1>5, WindowIs
<1>9. m \in {c - 2, c}
  BY <1>5
<1>10. Taken' = m
  <2>1. Taken' = read' - Len(buf')
    BY DEF Taken
  <2> QED
    BY <2>1, <1>1, <1>3, <1>8
<1>11. Len(buf') < Len(buf)
  <2> HIDE DEF a, c, n, k
  <2> QED
    BY <1>3, <1>6, <1>7, <1>8, <1>9
<1> QED
  BY <1>5, <1>7, <1>8, <1>10, <1>11

WithinLimit == reader = "bridge" => Len(buf) \in 0 .. Limit

(* The bridge's buffer never outgrows the limit, and its inner loop ends:   *)
(* each round that takes a frame leaves less to search, so no more rounds   *)
(* follow a recv() than there are bytes in the buffer.                      *)
THEOREM BridgeParsesToAnEnd ==
  Spec => [](WithinLimit) /\ [][pc = "parse" /\ pc' = "parse" => Len(buf') < Len(buf)]_vars
<1>0. Limit \in Nat
  BY LimitAssumption
<1>1. Init => WithinLimit
  <2>1. Len(<<>>) = 0
    OBVIOUS
  <2> QED
    BY <1>0, <2>1 DEF Init, WithinLimit
<1>2. IInv /\ WithinLimit /\ [Next]_vars => WithinLimit'
  <2> SUFFICES ASSUME IInv, WithinLimit, [Next]_vars, reader' = "bridge"
               PROVE  Len(buf') \in 0 .. Limit
    BY DEF WithinLimit
  <2>1. ASSUME UNCHANGED streamVars
        PROVE  Len(buf) \in 0 .. Limit
    BY <2>1 DEF streamVars, WithinLimit
  <2>2. ASSUME NEW n \in 1 .. Min({MaxChunk, ToCome}), Recv(n)
        PROVE  Len(buf') \in 0 .. Limit
    <3>1. pc = "recv" /\ read' = read + n
      BY <2>2 DEF Recv
    <3>2. IInv'
      BY <2>2, RecvKeeps
    <3>3. pc' # "exit"
      BY <2>2 DEF Recv
    <3>4. Len(buf') \in Nat
      BY <3>2, <3>3, WindowIs DEF IInv, Buffered
    <3>5. buf' = <<>> \/ ~ (Len(buf') > Limit)
      BY <2>2 DEF Recv
    <3>6. Len(<<>>) = 0
      OBVIOUS
    <3> QED
      BY <1>0, <3>4, <3>5, <3>6
  <2>3. CASE RecvEnds
    BY <2>1, <2>3 DEF RecvEnds
  <2>4. CASE ParseWait
    BY <2>1, <2>4 DEF ParseWait
  <2>5. CASE ParseEnd
    <3>1. Len(<<>>) = 0
      OBVIOUS
    <3> QED
      BY <1>0, <2>5, <3>1 DEF ParseEnd
  <2>6. CASE ParseFrame
    <3>1. Len(buf) \in 0 .. Limit
      BY <2>1, <2>6 DEF ParseFrame
    <3>2. Len(buf) \in Nat /\ Len(buf') \in Nat /\ Len(buf') < Len(buf)
      BY <2>6, FrameShortens
    <3> QED
      BY <1>0, <3>1, <3>2
  <2>7. ASSUME NEW n \in 0 .. ToCome, Feed(n)
        PROVE  FALSE
    BY <2>7 DEF Feed, streamVars
  <2>8. CASE UNCHANGED vars
    BY <2>1, <2>8 DEF vars
  <2> QED
    BY <2>2, <2>3, <2>4, <2>5, <2>6, <2>7, <2>8 DEF Next
<1>3. IInv /\ [Next]_vars => [pc = "parse" /\ pc' = "parse" => Len(buf') < Len(buf)]_vars
  <2> SUFFICES ASSUME IInv, Next, pc = "parse", pc' = "parse"
               PROVE  Len(buf') < Len(buf)
    OBVIOUS
  <2>1. ParseFrame
    <3>1. reader = "bridge"
      BY DEF IInv, Basics
    <3> QED
      BY <3>1 DEF Next, Recv, RecvEnds, ParseWait, ParseEnd, Feed
  <2> QED
    BY <2>1, FrameShortens
<1> QED
  BY ReadersInvariant, <1>1, <1>2, <1>3, PTL DEF Spec

(* The largest part, what of it may wait in the buffer, and one more chunk  *)
(* fit below the limit.                                                     *)
Roomy ==
  /\ MaxChunk + 6 <= Limit
  /\ \A s \in Sizes : \A f \in DOMAIN s : s[f] + 11 + MaxChunk <= Limit

(* The buffer begins where a part begins, or at the line end before it. *)
AtPart ==
  /\ Taken \in Nat
  /\ \E f \in 0 .. Len(sizes) : Taken \in {PartsEnd[f] - 2, PartsEnd[f]}

NoneDropped ==
  Roomy => dropped = 0 /\ (reader = "bridge" /\ pc # "exit" => AtPart)

(* A buffer that begins at a part and holds no whole frame has room for     *)
(* another chunk.                                                           *)
LEMMA RoomForChunk ==
  ASSUME IInv, Roomy, AtPart, reader = "bridge", pc = "recv"
  PROVE  Len(buf) \in Nat /\ Len(buf) + MaxChunk <= Limit
<1>1. /\ Basics /\ Window(buf, Stream, Taken, read) /\ NeedMore(buf) /\ ~ headed
  BY DEF IInv, Basics, Buffered, BridgeWaits
<1>2. /\ Laid(Stream, PartsEnd, sizes, headed, endMarked) /\ sizes \in Sizes
      /\ read \in Nat /\ read <= Len(Stream) /\ Len(Stream) \in Nat
      /\ sizes \in Seq(Nat \ {0})
  BY <1>1, TheStream DEF Basics
<1>3. MaxChunk \in Nat /\ Limit \in Nat
  BY LimitAssumption
<1>4. PICK g \in 0 .. Len(sizes) : Taken \in {PartsEnd[g] - 2, PartsEnd[g]}
  BY DEF AtPart
<1> DEFINE k == Taken
           c == PartsEnd[g]
<1>5. k \in Nat /\ Len(buf) = read - k /\ Len(buf) \in Nat
  BY <1>1, WindowIs
<1>6. c \in Nat /\ (k = c - 2 \/ k = c) /\ Len(sizes) \in Nat
  BY <1>2, <1>4, EndsIncrease
<1>7. CASE g = Len(sizes)
  <2>1. Len(Stream) <= c + 4
    <3>1. Len(Stream) = PartsEnd[Len(sizes)] + IF endMarked THEN 4 ELSE 0
      BY <1>2 DEF Laid
    <3>2. c = PartsEnd[Len(sizes)]
      BY <1>7
    <3> HIDE DEF c
    <3> QED
      BY <3>1, <3>2, <1>6
  <2>2. MaxChunk + 6 <= Limit
    BY DEF Roomy
  <2> HIDE DEF k, c
  <2> QED
    BY <2>1, <2>2, <1>2, <1>3, <1>5, <1>6
<1>8. CASE g # Len(sizes)
  <2> DEFINE n == sizes[g + 1]
             z == PartsEnd[g + 1]
  <2>1. g + 1 \in 1 .. Len(sizes) /\ g + 1 - 1 = g
    BY <1>6, <1>8
  <2>2. n \in Nat /\ z \in Nat /\ z = c + n + 12
    <3>1. z = PartsEnd[g + 1 - 1] + n + 12 /\ n \in Nat /\ z \in Nat
      BY <1>2, <2>1, EndsIncrease
    <3> HIDE DEF n, z
    <3> QED
      BY <3>1, <2>1
  <2>3. n + 11 + MaxChunk <= Limit
    BY <1>2, <2>1 DEF Roomy
  <2>4. read < z - 2
    <3> SUFFICES ASSUME ~ (read < z - 2)
                 PROVE  FALSE
      OBVIOUS
    <3>1. k <= PartsEnd[g + 1 - 1] /\ z - 2 <= read
      <4>1. PartsEnd[g + 1 - 1] = c
        BY <2>1
      <4>2. k <= c /\ z - 2 <= read
        <5> HIDE DEF k, c, z, n
        <5> QED
          BY <1>2, <1>6, <2>2
      <4> QED
        BY <4>1, <4>2
    <3>2. Ready(buf)
      <4>1. Window(buf, Stream, k, read)
        BY <1>1
      <4> HIDE DEF k
      <4> QED
        BY <4>1, <3>1, <1>1, <1>2, <2>1, NotMissed
    <3> QED
      BY <3>2, <1>1 DEF Ready, NeedMore
  <2> HIDE DEF k, c, n, z
  <2> QED
    BY <2>2, <2>3, <2>4, <1>2, <1>3, <1>5, <1>6
<1> QED
  BY <1>7, <1>8

LEMMA NoneDroppedAtFirst ==
  ASSUME Init
  PROVE  NoneDropped
<1>1. IInv /\ reader \in {"bridge", "library"} /\ dropped = 0
  BY InitHolds DEF Init
<1>2. ASSUME reader = "bridge"
      PROVE  AtPart
  <2>1. Basics /\ ~ headed /\ read = 0 /\ buf = <<>>
    BY <1>1, <1>2 DEF IInv, Basics, Init
  <2>2. Laid(Stream, PartsEnd, sizes, headed, endMarked)
    BY <2>1, TheStream
  <2>3. PartsEnd[0] = 0 /\ Len(sizes) \in Nat
    BY <2>1, <2>2, EndsIncrease DEF Laid
  <2>4. Taken = 0
    <3>1. Len(buf) = 0
      BY <2>1
    <3> QED
      BY <3>1, <2>1 DEF Taken
  <2>5. 0 \in 0 .. Len(sizes)
    BY <2>3
  <2> QED
    BY <2>3, <2>4, <2>5 DEF AtPart
<1> QED
  BY <1>1, <1>2 DEF NoneDropped

LEMMA NoneDroppedByRecv ==
  ASSUME IInv, NoneDropped, NEW n \in 1 .. Min({MaxChunk, ToCome}), Recv(n)
  PROVE  NoneDropped'
<1> SUFFICES ASSUME Roomy
             PROVE  dropped' = 0 /\ AtPart'
  BY DEF NoneDropped, Roomy
<1>1. /\ reader = "bridge" /\ pc = "recv" /\ UNCHANGED streamVars
      /\ read' = read + n
  BY DEF Recv
<1>2. dropped = 0 /\ AtPart
  BY <1>1 DEF NoneDropped
<1>3. Len(buf) \in Nat /\ Len(buf) + MaxChunk <= Limit
  BY <1>1, <1>2, RoomForChunk
<1>4. Basics /\ read \in Nat /\ Len(Stream) \in Nat /\ read <= Len(Stream)
  <2>1. Basics
    BY DEF IInv
  <2> QED
    BY <2>1, TheStream
<1>5. n \in Nat /\ n <= ToCome /\ n <= MaxChunk
  <2>1. ToCome \in Nat /\ MaxChunk \in Nat
    BY <1>4, LimitAssumption DEF ToCome
  <2> DEFINE K == {MaxChunk, ToCome}
             u == Min(K)
             v == ToCome
  <2>2. K \subseteq Nat /\ K # {} /\ v \in K /\ MaxChunk \in K
    BY <2>1
  <2>3. n \in 1 .. u
    OBVIOUS
  <2>4. u \in K /\ u <= v /\ u <= MaxChunk
    <3> HIDE DEF K, v
    <3> QED
      BY <2>2, MinOf DEF u
  <2>5. u \in Nat /\ v \in Nat
    BY <2>1, <2>2, <2>4
  <2> HIDE DEF u, v, K
  <2>6. n \in Nat /\ n <= v /\ n <= MaxChunk
    BY <2>1, <2>3, <2>4, <2>5
  <2> QED
    BY <2>6 DEF v
<1> DEFINE more == buf \o Chunk(n)
           r == read + n
           k == Taken
<1>6. Window(more, Stream, k, r) /\ k \in Nat
  BY <1>1, <1>5, ChunkReceived
<1>7. Len(more) = r - k /\ Len(buf) = read - k
  <2>1. Window(buf, Stream, k, read)
    BY <1>1 DEF IInv, Buffered
  <2> HIDE DEF more, r, k
  <2> QED
    BY <2>1, <1>6, WindowIs
<1>8. ~ (Len(more) > Limit)
  <2>1. Limit \in Nat /\ MaxChunk \in Nat /\ r = read + n
    BY LimitAssumption
  <2> HIDE DEF more, r, k
  <2> QED
    BY <2>1, <1>3, <1>4, <1>5, <1>6, <1>7
<1>9. buf' = more /\ dropped' = dropped
  BY <1>8 DEF Recv
<1>10. Taken' = k
  <2>1. Taken' = r - Len(more)
    BY <1>1, <1>9 DEF Taken
  <2>2. r \in Nat
    BY <1>4, <1>5
  <2> HIDE DEF more, r, k
  <2> QED
    BY <2>1, <2>2, <1>6, <1>7
<1>11. sizes' = sizes /\ PartsEnd' = PartsEnd
  BY <1>1, SameStream
<1>12. AtPart'
  BY <1>2, <1>10, <1>11 DEF AtPart
<1> QED
  BY <1>2, <1>9, <1>12

LEMMA NoneDroppedKept ==
  ASSUME IInv, NoneDropped, [Next]_vars
  PROVE  NoneDropped'
<1>1. ASSUME NEW n \in 1 .. Min({MaxChunk, ToCome}), Recv(n)
      PROVE  NoneDropped'
  BY <1>1, NoneDroppedByRecv
<1>2. ASSUME dropped' = dropped, pc' = "exit"
      PROVE  NoneDropped'
  BY <1>2 DEF NoneDropped, Roomy
<1>3. ASSUME dropped' = dropped, UNCHANGED streamVars, reader # "bridge"
      PROVE  NoneDropped'
  BY <1>3 DEF NoneDropped, Roomy, streamVars
<1>4. ASSUME UNCHANGED streamVars, read' = read, buf' = buf, dropped' = dropped,
             pc = "exit" => pc' = "exit"
      PROVE  NoneDropped'
  <2>1. Taken' = Taken
    BY <1>4 DEF Taken
  <2>2. reader' = reader /\ sizes' = sizes /\ PartsEnd' = PartsEnd
    BY <1>4, SameStream
  <2> QED
    BY <1>4, <2>1, <2>2 DEF NoneDropped, Roomy, AtPart
<1>5. CASE RecvEnds
  BY <1>5, <1>2 DEF RecvEnds
<1>6. CASE ParseWait
  BY <1>6, <1>4 DEF ParseWait
<1>7. CASE ParseEnd
  BY <1>7, <1>2 DEF ParseEnd
<1>8. CASE ParseFrame
  <2>1. UNCHANGED streamVars /\ dropped' = dropped
    BY <1>8 DEF ParseFrame
  <2>2. PICK f \in 1 .. Len(sizes) : Taken' \in {PartsEnd[f] - 2, PartsEnd[f]}
    BY <1>8, FrameShortens
  <2>3. Taken' \in Nat
    BY <1>8, FrameShortens
  <2>4. sizes' = sizes /\ PartsEnd' = PartsEnd
    BY <2>1, SameStream
  <2>5. f \in 0 .. Len(sizes)
    OBVIOUS
  <2>6. AtPart'
    BY <2>2, <2>3, <2>4, <2>5 DEF AtPart
  <2> QED
    BY <2>1, <2>6 DEF NoneDropped, Roomy
<1>9. ASSUME NEW n \in 0 .. ToCome, Feed(n)
      PROVE  NoneDropped'
  BY <1>9, <1>3 DEF Feed
<1>10. CASE UNCHANGED vars
  BY <1>10, <1>4 DEF vars
<1> QED
  BY <1>1, <1>5, <1>6, <1>7, <1>8, <1>9, <1>10 DEF Next

ReceivedAreDecoded ==
  reader = "bridge" /\ pc = "recv" =>
    \A f \in DOMAIN sizes :
      PartEnd(sizes, f) - 2 <= read => \E i \in DOMAIN frames : FrameNumber(frames[i]) = f

(* When the frames leave room for a chunk below the limit, the limit costs  *)
(* nothing: the buffer is never emptied, however recv() cuts the stream and *)
(* however many frames a chunk holds, and every frame that was received is  *)
(* decoded before the bridge waits again.                                   *)
THEOREM LimitCostsNothing ==
  Spec => [](Roomy => dropped = 0 /\ ReceivedAreDecoded)
<1>1. Init => NoneDropped
  BY NoneDroppedAtFirst
<1>2. IInv /\ NoneDropped /\ [Next]_vars => NoneDropped'
  BY NoneDroppedKept
<1>3. IInv /\ NoneDropped /\ ArrivedFramesDecoded => (Roomy => dropped = 0 /\ ReceivedAreDecoded)
  <2> SUFFICES ASSUME IInv, NoneDropped, ArrivedFramesDecoded, Roomy
               PROVE  dropped = 0 /\ ReceivedAreDecoded
    OBVIOUS
  <2>1. dropped = 0
    BY DEF NoneDropped
  <2>2. ASSUME reader = "bridge", pc = "recv", NEW f \in DOMAIN sizes,
               PartEnd(sizes, f) - 2 <= read
        PROVE  \E i \in DOMAIN frames : FrameNumber(frames[i]) = f
    <3>1. sizes \in Seq(Nat \ {0})
      BY TheStream DEF IInv
    <3>2. f - 1 \in 0 .. Len(sizes)
      BY <3>1
    <3>3. PartEnd(sizes, f - 1) \in Nat
      BY <3>1, <3>2, PartEnds
    <3>4. dropped < PartStart(sizes, f)
      BY <2>1, <3>3 DEF PartStart
    <3>5. f \in Arrived
      BY <2>2, <3>4 DEF Arrived
    <3> QED
      BY <2>2, <3>5 DEF ArrivedFramesDecoded
  <2> QED
    BY <2>1, <2>2 DEF ReceivedAreDecoded
<1> QED
  BY ReadersInvariant, BridgeDecodesArrived, <1>1, <1>2, <1>3, PTL DEF Spec
==============================================================================
