-------------------------- MODULE FrameBufferProofs --------------------------
(****************************************************************************)
(* Proofs about FrameBuffer for any number of streams, chunks, frames and   *)
(* host sessions.  Inv is inductive: each lemma ...Step shows that a step   *)
(* of the system re-establishes one of its parts, one case per action that  *)
(* disturbs the part and one for all the actions that leave it alone.       *)
(****************************************************************************)
EXTENDS FrameBuffer, TLAPS

USE ChunksAssumption, BoundsAssumption, ReadersAssumption

(* Every step is one of these. *)
LEMMA Steps ==
  ASSUME Next
  PROVE  \/ BridgeStart \/ BridgeOpen \/ BridgeGiveUp \/ BridgeWriteHeader
         \/ BridgeWriteChunk \/ BridgeExit \/ HostExit
         \/ \E r \in Readers :
              \/ Initialize(r) \/ InitializeFields(r) \/ InitializeFails(r)
              \/ RequestSample(r) \/ Lock(r) \/ LockTimeout(r) \/ Compare(r)
              \/ Take(r) \/ Mark(r) \/ CopyChunk(r) \/ Deliver(r)
              \/ DeliverFails(r) \/ ReaderExit(r)
  BY DEF Next, Bridge, Reader, Serve

------------------------------------------------------------------------------
(* Types *)

LEMMA EmptyType == Empty \in [Chunks -> Numbers]
  BY DEF Empty, Chunks, Numbers

(* The segment's variables keep their types. *)
LEMMA SegmentTypeStep ==
  ASSUME TypeOK, IndexInv, Next
  PROVE  SegmentTypeOK'
<1> USE DEF TypeOK, SegmentTypeOK, segment
<1>1. CASE BridgeWriteHeader
  BY <1>1 DEF BridgeWriteHeader, BridgeTypeOK
<1>2. CASE BridgeWriteChunk
  BY <1>2 DEF BridgeWriteChunk, BridgeTypeOK
<1>3. CASE BridgeExit
  BY <1>3, EmptyType DEF BridgeExit, Unmap, Numbers
<1>4. CASE HostExit
  BY <1>4, EmptyType DEF HostExit, Unmap, Numbers
<1>5. CASE \E r \in Readers : Initialize(r)
  <2>1. PICK r \in Readers : Initialize(r)
    BY <1>5
  <2>2. 0 \in Numbers
    BY DEF Numbers
  <2>3. data' \in [Chunks -> Numbers]
    BY <2>1, <2>2 DEF Initialize
  <2>4. QED
    BY <2>1, <2>2, <2>3 DEF Initialize
<1>6. CASE \E r \in Readers : InitializeFields(r)
  BY <1>6 DEF InitializeFields
<1>7. CASE \E r \in Readers : Lock(r)
  BY <1>7 DEF Lock
<1>8. CASE \E r \in Readers : Compare(r)
  BY <1>8 DEF Compare, Unlock
<1>9. CASE \E r \in Readers : Mark(r)
  BY <1>9 DEF Mark, Unlock
<1>10. CASE \E r \in Readers : ReaderExit(r)
  BY <1>10, EmptyType DEF ReaderExit, Unlock, Unmap, Numbers
<1>11. CASE UNCHANGED <<segment, mutex>>
  BY <1>11
<1>12. QED
  BY <1>1, <1>2, <1>3, <1>4, <1>5, <1>6, <1>7, <1>8, <1>9, <1>10, <1>11, Steps
  DEF BridgeStart, BridgeOpen, BridgeGiveUp, InitializeFails, RequestSample,
      LockTimeout, Take, CopyChunk, Deliver, DeliverFails

(* So do the bridge's: nextIndex, which counts one session, never passes    *)
(* written, which counts them all.                                          *)
LEMMA BridgeTypeStep ==
  ASSUME TypeOK, IndexInv, Next
  PROVE  BridgeTypeOK'
<1> USE DEF TypeOK, BridgeTypeOK, BridgePCs
<1>1. CASE BridgeStart
  BY <1>1 DEF BridgeStart
<1>2. CASE BridgeOpen
  BY <1>2 DEF BridgeOpen, Numbers
<1>3. CASE BridgeGiveUp
  BY <1>3 DEF BridgeGiveUp
<1>4. CASE BridgeWriteHeader
  BY <1>4 DEF BridgeWriteHeader, IndexInv, Numbers, Chunks
<1>5. CASE BridgeWriteChunk
  BY <1>5 DEF BridgeWriteChunk, Chunks
<1>6. CASE BridgeExit
  BY <1>6 DEF BridgeExit, Unmap, Numbers
<1>7. CASE HostExit
  BY <1>7 DEF HostExit, Unmap, Numbers
<1>8. CASE \E r \in Readers : ReaderExit(r)
  BY <1>8 DEF ReaderExit, Unmap, bridgeVars, Numbers
<1>9. CASE UNCHANGED <<bridgeVars, complete>>
  BY <1>9 DEF bridgeVars
<1>10. QED
  BY <1>1, <1>2, <1>3, <1>4, <1>5, <1>6, <1>7, <1>8, <1>9, Steps
  DEF Initialize, InitializeFields, InitializeFails, RequestSample, Lock,
      LockTimeout, Compare, Take, Mark, CopyChunk, Deliver, DeliverFails

(* So do the streams': no copy runs past the end of the segment, because a  *)
(* copy that was begun has the full length.                                 *)
LEMMA ReaderTypeStep ==
  ASSUME TypeOK, \A r \in Readers : PictureInv(r), Next
  PROVE  ReaderTypeOK'
<1> USE DEF TypeOK, ReaderTypeOK, ReaderPCs
<1>1. CASE \E r \in Readers : Initialize(r)
  BY <1>1 DEF Initialize
<1>2. CASE \E r \in Readers :
             \/ InitializeFields(r) \/ InitializeFails(r) \/ RequestSample(r)
             \/ Lock(r) \/ LockTimeout(r) \/ Compare(r) \/ DeliverFails(r)
  BY <1>2 DEF InitializeFields, InitializeFails, RequestSample, Lock,
              LockTimeout, Compare, DeliverFails
<1>3. CASE \E r \in Readers : Take(r)
  BY <1>3 DEF Take, SegmentTypeOK
<1>4. CASE \E r \in Readers : Mark(r)
  <2>1. PICK r \in Readers : Mark(r)
    BY <1>4
  <2>2. index \in Numbers /\ complete \in Numbers /\ 0 \in Chunks
    BY DEF SegmentTypeOK, BridgeTypeOK, Chunks
  <2>3. since' \in [Readers -> Numbers] /\ pos' \in [Readers -> Chunks]
    <3>1. CASE srcLength[r] > 0
      <4>1. /\ since' = [since EXCEPT ![r] = complete]
            /\ pos' = [pos EXCEPT ![r] = 0]
        BY <2>1, <3>1 DEF Mark
      <4>2. QED
        BY <2>2, <4>1
    <3>2. CASE ~(srcLength[r] > 0)
      BY <2>1, <3>2 DEF Mark
    <3>3. QED
      BY <3>1, <3>2
  <2>4. QED
    BY <2>1, <2>2, <2>3 DEF Mark
<1>5. CASE \E r \in Readers : CopyChunk(r)
  <2>1. PICK r \in Readers : CopyChunk(r)
    BY <1>5
  <2>2. data[pos[r]] \in Numbers
    BY DEF SegmentTypeOK
  <2>3. lastFrame' \in [Readers -> [Chunks -> Numbers]]
    BY <2>1, <2>2 DEF CopyChunk
  <2>4. pos' \in [Readers -> Chunks]
    <3>1. CASE pos[r] + 1 = srcLength[r]
      BY <2>1, <3>1 DEF CopyChunk
    <3>2. CASE pos[r] + 1 # srcLength[r]
      <4>1. srcLength[r] = LastChunk + 1
        BY <2>1 DEF CopyChunk, PictureInv, FullSize
      <4>2. pos[r] + 1 \in Chunks
        BY <3>2, <4>1 DEF Chunks
      <4>3. QED
        BY <2>1, <3>2, <4>2 DEF CopyChunk
    <3>3. QED
      BY <3>1, <3>2
  <2>5. QED
    BY <2>1, <2>3, <2>4 DEF CopyChunk
<1>6. CASE \E r \in Readers : Deliver(r)
  BY <1>6 DEF Deliver
<1>7. CASE \E r \in Readers : ReaderExit(r)
  <2>1. PICK r \in Readers : ReaderExit(r)
    BY <1>7
  <2>2. 0 \in Numbers /\ 0 \in Chunks
    BY DEF Numbers, Chunks
  <2>3. /\ lastFrame' \in [Readers -> [Chunks -> Numbers]]
        /\ sample' \in [Readers -> [Chunks -> Numbers]]
    BY <2>1, EmptyType DEF ReaderExit
  <2>4. QED
    BY <2>1, <2>2, <2>3 DEF ReaderExit
<1>8. CASE UNCHANGED readerVars
  BY <1>8 DEF readerVars
<1>9. QED
  BY <1>1, <1>2, <1>3, <1>4, <1>5, <1>6, <1>7, <1>8, Steps
  DEF BridgeStart, BridgeOpen, BridgeGiveUp, BridgeWriteHeader,
      BridgeWriteChunk, BridgeExit, HostExit

LEMMA TypeStep ==
  ASSUME Inv, Next
  PROVE  TypeOK'
  BY SegmentTypeStep, BridgeTypeStep, ReaderTypeStep DEF Inv, TypeOK

------------------------------------------------------------------------------
(* Safety *)

(* The mutex changes hands only inside GetLatestFrame. *)
LEMMA MutexStep ==
  ASSUME TypeOK, MutexHeldOnlyInside, Next
  PROVE  MutexHeldOnlyInside'
<1> USE DEF MutexHeldOnlyInside, TypeOK, ReaderTypeOK, SegmentTypeOK
<1>1. CASE UNCHANGED <<mutex, pc>>
  BY <1>1
<1>2. CASE \E r \in Readers :
             \/ Initialize(r) \/ InitializeFields(r) \/ InitializeFails(r)
             \/ RequestSample(r) \/ LockTimeout(r) \/ Take(r)
             \/ CopyChunk(r) \/ Deliver(r) \/ DeliverFails(r)
  BY <1>2 DEF Initialize, InitializeFields, InitializeFails, RequestSample,
              LockTimeout, Take, CopyChunk, Deliver, DeliverFails
<1>3. CASE \E r \in Readers : Lock(r)
  BY <1>3 DEF Lock
<1>4. CASE \E r \in Readers : Compare(r)
  BY <1>4 DEF Compare, Unlock
<1>5. CASE \E r \in Readers : Mark(r)
  BY <1>5 DEF Mark, Unlock
<1>6. CASE \E r \in Readers : ReaderExit(r)
  BY <1>6 DEF ReaderExit, Unlock
<1>7. QED
  BY <1>1, <1>2, <1>3, <1>4, <1>5, <1>6, Steps
  DEF BridgeStart, BridgeOpen, BridgeGiveUp, BridgeWriteHeader,
      BridgeWriteChunk, BridgeExit, HostExit, readerVars

(* A segment without handles is lost with all its pixels; while there is    *)
(* one, only the bridge touches them.                                       *)
LEMMA SegmentStep ==
  ASSUME Inv, Next
  PROVE  SegmentInv'
<1> USE DEF Inv, TypeOK, SegmentTypeOK, BridgeTypeOK, SegmentInv, Numbers
<1>a. Pixels \subseteq Chunks
  BY DEF Pixels, Chunks
<1>b. ASSUME index' = 0, data' = Empty, complete' = 0, written' = written,
             bridge' # "copying"
      PROVE  SegmentInv'
  BY <1>a, <1>b DEF Empty
<1>1. CASE \/ BridgeStart \/ BridgeOpen \/ BridgeGiveUp
  BY <1>1 DEF BridgeStart, BridgeOpen, BridgeGiveUp, segment
<1>2. CASE BridgeWriteHeader
  BY <1>2, <1>a DEF BridgeWriteHeader, Pixels
<1>3. CASE BridgeWriteChunk
  <2>1. CASE cursor = LastChunk
    BY <1>3, <1>a, <2>1 DEF BridgeWriteChunk, Chunks, Pixels
  <2>2. CASE cursor # LastChunk
    BY <1>3, <1>a, <2>2 DEF BridgeWriteChunk, Chunks, Pixels
  <2>3. QED
    BY <2>1, <2>2
<1>4. CASE BridgeExit
  BY <1>4, <1>b DEF BridgeExit, Unmap, segment
<1>5. CASE HostExit
  BY <1>5, <1>b DEF HostExit, Unmap, segment
<1>6. CASE \E r \in Readers : Initialize(r)
  BY <1>6, <1>a DEF Initialize, bridgeVars, Pixels
<1>7. CASE \E r \in Readers : ReaderExit(r)
  <2>1. PICK r \in Readers : ReaderExit(r)
    BY <1>7
  <2>2. CASE BridgeMapped \/ \E s \in Readers \ {r} : mapped[s]
    BY <2>1, <2>2 DEF ReaderExit, Unmap, segment, bridgeVars
  <2>3. CASE ~(BridgeMapped \/ \E s \in Readers \ {r} : mapped[s])
    BY <2>1, <2>3, <1>b DEF ReaderExit, Unmap, bridgeVars, BridgeMapped
  <2>4. QED
    BY <2>2, <2>3
<1>8. CASE UNCHANGED <<data, bridgeVars, complete>>
  BY <1>8 DEF bridgeVars
<1>9. QED
  BY <1>1, <1>2, <1>3, <1>4, <1>5, <1>6, <1>7, <1>8, Steps
  DEF InitializeFields, InitializeFails, RequestSample, Lock, LockTimeout,
      Compare, Take, Mark, CopyChunk, Deliver, DeliverFails, segment

(* The bridge numbers its frames from 0 and finishes each before the next.  *)
LEMMA IndexStep ==
  ASSUME Inv, Next
  PROVE  IndexInv'
<1> USE DEF Inv, TypeOK, SegmentTypeOK, BridgeTypeOK, SegmentInv, IndexInv,
            Numbers
<1>1. CASE BridgeStart \/ BridgeOpen \/ BridgeGiveUp
  BY <1>1 DEF BridgeStart, BridgeOpen, BridgeGiveUp, segment
<1>2. CASE BridgeWriteHeader
  BY <1>2 DEF BridgeWriteHeader
<1>3. CASE BridgeWriteChunk
  BY <1>3 DEF BridgeWriteChunk
<1>4. CASE BridgeExit
  BY <1>4 DEF BridgeExit, Unmap, segment
<1>5. CASE HostExit
  BY <1>5 DEF HostExit, Unmap, segment
<1>6. CASE \E r \in Readers : Initialize(r)
  BY <1>6 DEF Initialize, bridgeVars
<1>7. CASE \E r \in Readers : ReaderExit(r)
  BY <1>7 DEF ReaderExit, Unmap, segment, bridgeVars, BridgeMapped
<1>8. CASE UNCHANGED <<index, bridgeVars, complete>>
  BY <1>8 DEF bridgeVars
<1>9. QED
  BY <1>1, <1>2, <1>3, <1>4, <1>5, <1>6, <1>7, <1>8, Steps
  DEF InitializeFields, InitializeFails, RequestSample, Lock, LockTimeout,
      Compare, Take, Mark, CopyChunk, Deliver, DeliverFails, segment

(* A stream takes an index for new only when it differs from its last one;  *)
(* if both of them are not 0, there has been a complete frame since.        *)
LEMMA ReaderStep ==
  ASSUME Inv, Next, NEW q \in Readers
  PROVE  ReaderInv(q)'
<1> USE DEF TypeOK, SegmentTypeOK, BridgeTypeOK, ReaderTypeOK, ReaderInv,
            Numbers
<1>0. TypeOK /\ IndexInv /\ SegmentInv /\ ReaderInv(q) /\ PictureInv(q)
  BY DEF Inv
<1>1. CASE BridgeStart \/ BridgeOpen \/ BridgeGiveUp \/ BridgeWriteHeader
  BY <1>0, <1>1 DEF BridgeStart, BridgeOpen, BridgeGiveUp, BridgeWriteHeader,
                    readerVars
<1>2. CASE BridgeWriteChunk
  BY <1>0, <1>2 DEF BridgeWriteChunk, readerVars, SegmentInv
<1>3. CASE BridgeExit
  BY <1>0, <1>3 DEF BridgeExit, Unmap, readerVars
<1>4. CASE HostExit
  BY <1>0, <1>4 DEF HostExit, Unmap, readerVars
<1>5. CASE \E r \in Readers : Initialize(r)
  BY <1>0, <1>5 DEF Initialize
<1>6. CASE \E r \in Readers :
             \/ InitializeFields(r) \/ InitializeFails(r) \/ RequestSample(r)
             \/ Lock(r) \/ LockTimeout(r) \/ Take(r) \/ DeliverFails(r)
  BY <1>0, <1>6 DEF InitializeFields, InitializeFails, RequestSample, Lock,
                    LockTimeout, Take, DeliverFails
<1>7. CASE \E r \in Readers : Compare(r)
  BY <1>0, <1>7 DEF Compare, IndexInv
<1>8. CASE \E r \in Readers : Mark(r)
  BY <1>0, <1>8 DEF Mark, IndexInv
<1>9. CASE \E r \in Readers : CopyChunk(r)
  BY <1>0, <1>9 DEF CopyChunk
<1>10. CASE \E r \in Readers : Deliver(r)
  BY <1>0, <1>10 DEF Deliver
<1>11. CASE \E r \in Readers : ReaderExit(r)
  BY <1>0, <1>11 DEF ReaderExit, Unmap
<1>12. QED
  BY <1>1, <1>2, <1>3, <1>4, <1>5, <1>6, <1>7, <1>8, <1>9, <1>10, <1>11, Steps

(* The pixels under a stream only grow newer, so its copy is never older    *)
(* than what was complete when it began, nor than the copy before it.       *)
LEMMA PictureStep ==
  ASSUME Inv, Next, NEW q \in Readers
  PROVE  PictureInv(q)'
<1> USE DEF TypeOK, SegmentTypeOK, BridgeTypeOK, ReaderTypeOK, PictureInv,
            Numbers
<1>0. TypeOK /\ SegmentInv /\ ReaderInv(q) /\ PictureInv(q)
  BY DEF Inv
<1>a. Pixels \subseteq Chunks
  BY DEF Pixels, Chunks
<1>b. /\ since[q] \in Nat /\ complete \in Nat
      /\ \A x \in Pixels :
           data[x] \in Nat /\ sample[q][x] \in Nat /\ lastFrame[q][x] \in Nat
  BY <1>0, <1>a
<1>1. CASE BridgeStart \/ BridgeOpen \/ BridgeGiveUp \/ BridgeWriteHeader
  BY <1>0, <1>1 DEF BridgeStart, BridgeOpen, BridgeGiveUp, BridgeWriteHeader,
                    readerVars, segment
<1>2. CASE BridgeWriteChunk
  <2>1. complete <= complete'
    BY <1>0, <1>2 DEF BridgeWriteChunk, SegmentInv, Pixels
  <2>2. \A x \in Pixels : data[x] <= data'[x]
    BY <1>0, <1>2, <1>a DEF BridgeWriteChunk, SegmentInv
  <2>3. data' \in [Chunks -> Nat] /\ complete' \in Nat
    BY <1>0, <1>2 DEF BridgeWriteChunk
  <2>4. UNCHANGED readerVars
    BY <1>2 DEF BridgeWriteChunk
  <2>5. QED
    BY <1>0, <1>a, <1>b, <2>1, <2>2, <2>3, <2>4 DEF readerVars
<1>3. CASE BridgeExit \/ HostExit
  <2>1. UNCHANGED readerVars
    BY <1>3 DEF BridgeExit, HostExit
  <2>2. CASE mapped[q]
    BY <1>0, <1>3, <2>1, <2>2 DEF BridgeExit, HostExit, Unmap, readerVars, segment
  <2>3. CASE ~mapped[q]
    BY <1>0, <1>3, <1>a, <2>1, <2>3
    DEF BridgeExit, HostExit, Unmap, readerVars, segment, ReaderInv, Empty
  <2>4. QED
    BY <2>2, <2>3
<1>4. CASE \E r \in Readers : Initialize(r)
  <2>1. \A x \in Pixels : data'[x] = data[x]
    BY <1>0, <1>4, <1>a DEF Initialize, Pixels
  <2>2. QED
    BY <1>0, <1>4, <1>a, <2>1 DEF Initialize, ReaderInv, Empty, SegmentInv
<1>5. CASE \E r \in Readers :
             \/ InitializeFields(r) \/ InitializeFails(r) \/ RequestSample(r)
             \/ Lock(r) \/ LockTimeout(r) \/ Compare(r) \/ DeliverFails(r)
             \/ Take(r)
  BY <1>0, <1>5 DEF InitializeFields, InitializeFails, RequestSample, Lock,
                    LockTimeout, Compare, DeliverFails, Take, segment
<1>6. CASE \E r \in Readers : Mark(r)
  <2>1. PICK r \in Readers : Mark(r)
    BY <1>6
  <2>2. UNCHANGED <<data, complete, mapped, lastFrame, sample>>
    BY <2>1 DEF Mark, segment
  <2>3. CASE q = r /\ srcLength[r] > 0
    <3>1. since'[q] = complete /\ pc'[q] = "copy" /\ pos'[q] = 0
      BY <1>0, <2>1, <2>3 DEF Mark
    <3>2. complete > 0 /\ srcLength'[q] = FullSize
      BY <1>0, <2>1, <2>3 DEF Mark, ReaderInv
    <3>3. \A x \in Pixels : ~(x < 0)
      BY DEF Pixels
    <3>4. QED
      BY <1>0, <1>b, <2>2, <3>1, <3>2, <3>3
  <2>4. CASE ~(q = r /\ srcLength[r] > 0)
    <3>1. since'[q] = since[q] /\ pos'[q] = pos[q] /\ srcLength'[q] = srcLength[q]
      BY <1>0, <2>1, <2>4 DEF Mark
    <3>2. pc'[q] = pc[q] \/ (pc[q] = "mark" /\ pc'[q] = "deliver")
      BY <1>0, <2>1, <2>4 DEF Mark
    <3>3. QED
      BY <1>0, <2>2, <3>1, <3>2
  <2>5. QED
    BY <2>3, <2>4
<1>7. CASE \E r \in Readers : CopyChunk(r)
  <2>1. PICK r \in Readers : CopyChunk(r)
    BY <1>7
  <2>2. UNCHANGED <<data, complete, mapped, srcLength, sample, since>>
    BY <2>1 DEF CopyChunk, segment
  <2>3. CASE q # r
    <3>1. lastFrame'[q] = lastFrame[q] /\ pc'[q] = pc[q] /\ pos'[q] = pos[q]
      BY <1>0, <2>1, <2>3 DEF CopyChunk
    <3>2. QED
      BY <1>0, <2>2, <3>1
  <2>4. CASE q = r
    <3>1. lastFrame'[q] = [lastFrame[q] EXCEPT ![pos[q]] = data[pos[q]]]
      BY <1>0, <2>1, <2>4 DEF CopyChunk
    <3>2. mapped[q] /\ since[q] > 0 /\ srcLength[q] = LastChunk + 1
      BY <1>0, <2>1, <2>4 DEF CopyChunk, ReaderInv, FullSize
    <3>3. \A x \in Pixels :
            lastFrame'[q][x] = IF x = pos[q] THEN data[x] ELSE lastFrame[q][x]
      BY <1>0, <1>a, <3>1
    <3>4. \A x \in Pixels :
            /\ sample[q][x] <= lastFrame'[q][x] /\ lastFrame'[q][x] <= data[x]
            /\ x <= pos[q] => since[q] <= lastFrame'[q][x]
      <4>1. pos[q] \in Nat /\ pc[q] = "copy"
        BY <1>0, <2>1, <2>4 DEF CopyChunk, Chunks
      <4>2. TAKE x \in Pixels
      <4>3. CASE x = pos[q]
        BY <1>0, <1>b, <3>2, <3>3, <4>3 DEF SegmentInv
      <4>4. CASE x # pos[q]
        <5>1. x <= pos[q] => x < pos[q]
          BY <4>1, <4>4 DEF Pixels
        <5>2. lastFrame'[q][x] = lastFrame[q][x]
          BY <3>3, <4>4
        <5>3. QED
          BY <1>0, <3>2, <4>1, <5>1, <5>2
      <4>5. QED
        BY <4>3, <4>4
    <3>5. \/ pc'[q] = "deliver" /\ pos[q] = LastChunk
          \/ pc'[q] = "copy" /\ pos'[q] = pos[q] + 1
      BY <1>0, <2>1, <2>4, <3>2 DEF CopyChunk, Chunks
    <3>6. \A x \in Pixels : pc'[q] # "copy" \/ x < pos'[q] => x <= pos[q]
      <4>1. pos[q] \in Int
        BY <1>0 DEF Chunks
      <4>2. TAKE x \in Pixels
      <4>3. x \in Int /\ x <= LastChunk
        BY DEF Pixels
      <4>4. QED
        BY <3>5, <4>1, <4>3
    <3>7. QED
      BY <1>0, <2>2, <3>2, <3>4, <3>6 DEF FullSize
  <2>5. QED
    BY <2>3, <2>4
<1>8. CASE \E r \in Readers : Deliver(r)
  <2>1. PICK r \in Readers : Deliver(r)
    BY <1>8
  <2>2. UNCHANGED <<data, complete, mapped, srcLength, pos, lastFrame, since>>
    BY <2>1 DEF Deliver, segment
  <2>3. /\ sample'[q] = sample[q] \/ sample'[q] = lastFrame[q]
        /\ pc'[q] = pc[q] \/ (pc[q] = "deliver" /\ pc'[q] = "idle")
    BY <1>0, <2>1 DEF Deliver
  <2>4. QED
    BY <1>0, <1>b, <2>2, <2>3
<1>9. CASE \E r \in Readers : ReaderExit(r)
  <2>1. PICK r \in Readers : ReaderExit(r)
    BY <1>9
  <2>2. CASE q = r
    <3>1. /\ since'[q] = 0 /\ lastFrame'[q] = Empty /\ sample'[q] = Empty
          /\ ~mapped'[q] /\ pc'[q] = "closed"
      BY <1>0, <2>1, <2>2 DEF ReaderExit
    <3>2. complete' = 0 \/ complete' = complete
      BY <2>1 DEF ReaderExit, Unmap
    <3>3. QED
      BY <1>a, <1>b, <3>1, <3>2 DEF Empty
  <2>3. CASE q # r
    <3>1. /\ since'[q] = since[q] /\ lastFrame'[q] = lastFrame[q]
          /\ sample'[q] = sample[q] /\ mapped'[q] = mapped[q]
          /\ pc'[q] = pc[q] /\ srcLength'[q] = srcLength[q] /\ pos'[q] = pos[q]
      BY <1>0, <2>1, <2>3 DEF ReaderExit
    <3>2. mapped[q] => UNCHANGED <<data, complete>>
      BY <2>1, <2>3 DEF ReaderExit, Unmap, segment
    <3>3. CASE mapped[q]
      BY <1>0, <3>1, <3>2, <3>3
    <3>4. CASE ~mapped[q]
      <4>1. complete' \in Nat
        BY <1>b, <2>1 DEF ReaderExit, Unmap
      <4>2. QED
        BY <1>0, <1>a, <3>1, <3>4, <4>1 DEF ReaderInv, Empty
    <3>5. QED
      BY <3>3, <3>4
  <2>4. QED
    BY <2>2, <2>3
<1>10. QED
  BY <1>1, <1>2, <1>3, <1>4, <1>5, <1>6, <1>7, <1>8, <1>9, Steps

(* A sample is a whole copy, or blank. *)
LEMMA SampleStep ==
  ASSUME Inv, Next, NEW q \in Readers
  PROVE  SampleInv(q)'
<1> USE DEF TypeOK, ReaderTypeOK, SampleInv
<1>1. CASE UNCHANGED sample
  BY <1>1 DEF Inv
<1>2. CASE \E r \in Readers : Deliver(r)
  <2>1. PICK r \in Readers : Deliver(r)
    BY <1>2
  <2>2. CASE q # r
    BY <2>1, <2>2 DEF Deliver, Inv
  <2>3. CASE q = r
    <3>1. sample'[q] = lastFrame[q] /\ pc[q] = "deliver"
      BY <2>1, <2>3 DEF Deliver, Inv
    <3>2. \A x \in Pixels : lastFrame[q][x] \in Nat /\ since[q] \in Nat
      BY DEF Inv, Pixels, Chunks, Numbers
    <3>3. QED
      BY <3>1, <3>2 DEF Inv, PictureInv
  <2>4. QED
    BY <2>2, <2>3
<1>3. CASE \E r \in Readers : ReaderExit(r)
  BY <1>3 DEF ReaderExit, Inv
<1>4. QED
  BY <1>1, <1>2, <1>3, Steps
  DEF BridgeStart, BridgeOpen, BridgeGiveUp, BridgeWriteHeader,
      BridgeWriteChunk, BridgeExit, HostExit, readerVars, Initialize,
      InitializeFields, InitializeFails, RequestSample, Lock, LockTimeout,
      Compare, Take, Mark, CopyChunk, DeliverFails

------------------------------------------------------------------------------
(* The theorems *)

LEMMA InitInv ==
  ASSUME Init
  PROVE  Inv
<1> USE DEF Init
<1>1. TypeOK
  BY EmptyType DEF TypeOK, SegmentTypeOK, BridgeTypeOK, ReaderTypeOK, BridgePCs,
                   ReaderPCs, Numbers, Chunks
<1>2. MutexHeldOnlyInside
  BY DEF MutexHeldOnlyInside
<1>3. SegmentInv /\ IndexInv
  BY DEF SegmentInv, IndexInv, Empty, Pixels, Chunks
<1>4. ASSUME NEW r \in Readers
      PROVE  ReaderInv(r) /\ PictureInv(r) /\ SampleInv(r)
  BY DEF ReaderInv, PictureInv, SampleInv, Empty, Pixels, Chunks
<1>5. QED
  BY <1>1, <1>2, <1>3, <1>4 DEF Inv

LEMMA StepInv ==
  ASSUME Inv, [Next]_vars
  PROVE  Inv'
<1>1. CASE Next
  <2>1. TypeOK' /\ MutexHeldOnlyInside' /\ SegmentInv' /\ IndexInv'
    BY <1>1, TypeStep, MutexStep, SegmentStep, IndexStep DEF Inv
  <2>2. \A r \in Readers : ReaderInv(r)' /\ PictureInv(r)' /\ SampleInv(r)'
    BY <1>1, ReaderStep, PictureStep, SampleStep
  <2>3. QED
    BY <2>1, <2>2 DEF Inv
<1>2. CASE UNCHANGED vars
  BY <1>2 DEF vars, segment, bridgeVars, readerVars, Inv, TypeOK, SegmentTypeOK,
              BridgeTypeOK, ReaderTypeOK, MutexHeldOnlyInside, SegmentInv,
              IndexInv, ReaderInv, PictureInv, SampleInv
<1>3. QED
  BY <1>1, <1>2

(* Inv holds in every reachable state of FrameBuffer, whatever the number   *)
(* of streams, chunks, frames and host sessions.                            *)
THEOREM Invariant == Spec => []Inv
<1>1. QED
  BY InitInv, StepInv, PTL DEF Spec

(* No variable leaves its type; in particular neither memcpy nor assign     *)
(* (mjpeg_bridge.cpp, mediastream.cpp) leaves the segment.                  *)
THEOREM TypeCorrect == Spec => []TypeOK
<1>1. Inv => TypeOK
  BY DEF Inv
<1>2. QED
  BY Invariant, <1>1, PTL

(* The mutex is free whenever no stream is inside GetLatestFrame, although  *)
(* the result of the wait is ignored and the release is unconditional.      *)
THEOREM MutexFreed == Spec => []MutexHeldOnlyInside
<1>1. Inv => MutexHeldOnlyInside
  BY DEF Inv
<1>2. QED
  BY Invariant, <1>1, PTL

(* No stream ever shows memory nobody has written. *)
THEOREM Written == Spec => []SamplesAreWritten
<1>1. Inv => SamplesAreWritten
  <2>1. SUFFICES ASSUME Inv, NEW r \in Readers, NEW c \in Chunks, sample[r][c] > 0
                 PROVE  \A x \in Pixels : sample[r][x] > 0
    BY DEF SamplesAreWritten
  <2>2. sample[r] # Empty
    BY <2>1 DEF Empty
  <2>3. QED
    BY <2>1, <2>2 DEF Inv, SampleInv
<1>2. QED
  BY Invariant, <1>1, PTL

------------------------------------------------------------------------------
(* FrameBuffer implements FrameFeed *)

LEMMA FeedInit ==
  ASSUME Init
  PROVE  Feed!Init
  BY DEF Init, Feed!Init, Feed!Blank, Shown, Empty, Pixels, Chunks

(* What the applications see changes only where samples are queued or a     *)
(* stream goes away.                                                        *)
LEMMA ShownSame ==
  ASSUME sample' = sample
  PROVE  Shown' = Shown
  BY DEF Shown

(* A stream without a mapping is gone. *)
LEMMA UnmappedGone ==
  ASSUME Inv, NEW r \in Readers, ~mapped[r]
  PROVE  Feed!Gone(r)
  BY DEF Inv, ReaderInv, Feed!Gone, Feed!Blank, Shown, Empty, Pixels, Chunks

(* Each step is a step of FrameFeed or changes nothing FrameFeed sees. *)
LEMMA FeedStep ==
  ASSUME Inv, Next
  PROVE  Feed!Next \/ UNCHANGED Feed!feedVars
<1> USE DEF Feed!feedVars, Feed!Next
<1>1. CASE BridgeWriteHeader
  <2>1. Feed!Publish
    BY <1>1, ShownSame DEF BridgeWriteHeader, Feed!Publish, readerVars
  <2>2. QED
    BY <2>1
<1>2. CASE BridgeWriteChunk
  <2>1. Feed!Settle \/ UNCHANGED Feed!feedVars
    BY <1>2, ShownSame DEF BridgeWriteChunk, Feed!Settle, readerVars
  <2>2. QED
    BY <2>1
<1>3. CASE BridgeExit \/ HostExit
  <2>1. CASE \E r \in Readers : mapped[r]
    BY <1>3, <2>1, ShownSame DEF BridgeExit, HostExit, Unmap, readerVars
  <2>2. CASE ~ \E r \in Readers : mapped[r]
    <3>1. \A r \in Readers : Feed!Gone(r)
      BY <2>2, UnmappedGone
    <3>2. Feed!Lose
      BY <1>3, <2>2, <3>1, ShownSame
      DEF BridgeExit, HostExit, Unmap, readerVars, Feed!Lose
    <3>3. QED
      BY <3>2
  <2>3. QED
    BY <2>1, <2>2
<1>4. CASE \E r \in Readers : Mark(r)
  <2>1. PICK r \in Readers : Mark(r)
    BY <1>4
  <2>2. CASE srcLength[r] > 0
    <3>1. complete > 0
      BY <2>1 DEF Mark, Inv, ReaderInv
    <3>2. Feed!Look(r)
      BY <2>1, <2>2, <3>1, ShownSame DEF Mark, Feed!Look, bridgeVars
    <3>3. QED
      BY <3>2
  <2>3. CASE ~(srcLength[r] > 0)
    BY <2>1, <2>3, ShownSame DEF Mark, bridgeVars
  <2>4. QED
    BY <2>2, <2>3
<1>5. CASE \E r \in Readers : Deliver(r)
  <2>1. PICK r \in Readers : Deliver(r)
    BY <1>5
  <2>2. UNCHANGED <<written, complete, since>>
    BY <2>1 DEF Deliver, bridgeVars
  <2>3. /\ sample \in [Readers -> [Chunks -> Numbers]]
        /\ lastFrame \in [Readers -> [Chunks -> Numbers]]
        /\ since[r] \in Nat /\ written \in Nat /\ Pixels \subseteq Chunks
    <3>1. ReaderTypeOK /\ BridgeTypeOK
      BY DEF Inv, TypeOK
    <3>2. Numbers \subseteq Nat /\ Pixels \subseteq Chunks
      BY DEF Numbers, Pixels, Chunks
    <3>3. QED
      BY <3>1, <3>2 DEF ReaderTypeOK, BridgeTypeOK
  <2>4. sample' = [sample EXCEPT ![r] = lastFrame[r]]
    BY <2>1 DEF Deliver
  <2> DEFINE picture == [x \in Pixels |-> lastFrame[r][x]]
  <2>5. Shown' = [Shown EXCEPT ![r] = picture]
    BY <2>3, <2>4 DEF Shown
  <2>6. \A x \in Pixels : sample[r][x] <= lastFrame[r][x]
    BY DEF Inv, PictureInv
  <2>7. CASE since[r] > 0
    <3>1. mapped[r]
      BY <2>3, <2>7 DEF Inv, ReaderInv
    <3>2. \A x \in Pixels : lastFrame[r][x] \in since[r] .. written
      <4>1. TAKE x \in Pixels
      <4>2. lastFrame[r][x] \in Nat /\ data[x] \in Nat
        BY <2>3 DEF Inv, TypeOK, SegmentTypeOK, Numbers
      <4>3. since[r] <= lastFrame[r][x] /\ lastFrame[r][x] <= data[x]
        BY <2>1, <3>1 DEF Deliver, Inv, PictureInv
      <4>4. data[x] <= written
        BY DEF Inv, SegmentInv
      <4>5. QED
        BY <2>3, <4>2, <4>3, <4>4
    <3>3. picture \in [Pixels -> since[r] .. written]
      BY <3>2
    <3>4. \A x \in Pixels : Shown[r][x] <= picture[x]
      BY <2>6 DEF Shown
    <3>5. Feed!Show(r)
      BY <2>2, <2>5, <2>7, <3>3, <3>4 DEF Feed!Show
    <3>6. QED
      BY <3>5
  <2>8. CASE since[r] = 0
    <3>1. lastFrame[r] = Empty
      BY <2>8 DEF Inv, PictureInv
    <3>2. \A x \in Pixels : sample[r][x] = 0
      BY <2>3, <2>6, <3>1 DEF Empty, Numbers
    <3>3. picture = Shown[r]
      BY <2>3, <3>1, <3>2 DEF Shown, Empty
    <3>4. Shown' = Shown
      BY <2>5, <3>3 DEF Shown
    <3>5. QED
      BY <2>2, <3>4
  <2>9. QED
    BY <2>3, <2>7, <2>8
<1>6. CASE \E r \in Readers : ReaderExit(r)
  <2>1. PICK r \in Readers : ReaderExit(r)
    BY <1>6
  <2>2. sample \in [Readers -> [Chunks -> Numbers]]
    BY DEF Inv, TypeOK, ReaderTypeOK
  <2>3. sample' = [sample EXCEPT ![r] = Empty] /\ since' = [since EXCEPT ![r] = 0]
    BY <2>1 DEF ReaderExit
  <2>4. Shown' = [Shown EXCEPT ![r] = Feed!Blank]
    <3>1. [x \in Pixels |-> Empty[x]] = Feed!Blank
      BY DEF Feed!Blank, Empty, Pixels, Chunks
    <3>2. QED
      BY <2>2, <2>3, <3>1 DEF Shown
  <2>5. \/ complete' = complete
        \/ complete' = 0 /\ \A s \in Readers \ {r} : ~mapped[s]
    BY <2>1 DEF ReaderExit, Unmap
  <2>6. \/ complete' = complete
        \/ complete' = 0 /\ \A s \in Readers \ {r} : Feed!Gone(s)
    BY <2>5, UnmappedGone
  <2>7. written' = written
    BY <2>1 DEF ReaderExit, bridgeVars
  <2>8. Feed!Leave(r)
    BY <2>3, <2>4, <2>6, <2>7 DEF Feed!Leave
  <2>9. QED
    BY <2>8
<1>7. CASE UNCHANGED <<written, complete, since, sample>>
  BY <1>7, ShownSame
<1>8. QED
  BY <1>1, <1>2, <1>3, <1>4, <1>5, <1>6, <1>7, Steps
  DEF BridgeStart, BridgeOpen, BridgeGiveUp, Initialize, InitializeFields,
      InitializeFails, RequestSample, Lock, LockTimeout, Compare, Take,
      CopyChunk, DeliverFails, bridgeVars, readerVars

(* The streams keep the promises of FrameFeed: pixels never go back in time *)
(* and are no older than the frame that was complete when the stream began  *)
(* to copy.                                                                 *)
THEOREM Implements == Spec => FeedSpec
<1>1. Init => Feed!Init
  BY FeedInit
<1>2. Inv /\ [Next]_vars => [Feed!Next]_Feed!feedVars
  <2>1. CASE UNCHANGED vars
    BY <2>1, ShownSame DEF vars, bridgeVars, readerVars, Feed!feedVars
  <2>2. QED
    BY <2>1, FeedStep
<1>3. QED
  BY Invariant, <1>1, <1>2, PTL DEF Spec, FeedSpec, Feed!Spec

------------------------------------------------------------------------------
(* What a stream may keep: the safety part of NewestButOneServed.  It skips *)
(* a copy only because the index in the header is the one it noted, so the  *)
(* picture it has must be as new as that index says, up to the frame being  *)
(* written.                                                                 *)

(* The header's index, and the next one, count frames of one session, which *)
(* is never ahead of the newest complete frame.                             *)
IndexBehind ==
  /\ index <= complete
  /\ bridge = "parsing" => nextIndex <= complete
  /\ bridge = "copying" => nextIndex <= complete + 1

(* The index a stream noted was found with a length, so that a copy         *)
(* followed; or none was noted yet.                                         *)
Noted(r) == srcLength[r] > 0 \/ lastIndex[r] = 0

(* A copy that runs began when the frame before the noted index was         *)
(* complete; outside a copy the picture is as new.                          *)
CopyBehind(r) == pc[r] = "copy" => lastIndex[r] <= since[r]
PictureKept(r) ==
  pc[r] \notin {"mark", "copy"} /\ Noted(r) =>
    \A x \in Pixels : lastIndex[r] <= lastFrame[r][x]

KeepsUp == IndexBehind /\ \A r \in Readers : CopyBehind(r) /\ PictureKept(r)

LEMMA IndexBehindStep ==
  ASSUME Inv, IndexBehind, Next
  PROVE  IndexBehind'
<1> USE DEF Inv, TypeOK, SegmentTypeOK, BridgeTypeOK, IndexBehind, Numbers
<1>1. CASE BridgeStart \/ BridgeOpen \/ BridgeGiveUp
  BY <1>1 DEF BridgeStart, BridgeOpen, BridgeGiveUp, segment
<1>2. CASE BridgeWriteHeader
  BY <1>2 DEF BridgeWriteHeader
<1>3. CASE BridgeWriteChunk
  <2>1. complete <= written
    <3>1. 1 \in Pixels /\ Pixels \subseteq Chunks
      BY DEF Pixels, Chunks
    <3>2. complete <= data[1] /\ data[1] <= written /\ data[1] \in Numbers
      BY <3>1 DEF SegmentInv
    <3>3. QED
      BY <3>2
  <2>2. QED
    BY <1>3, <2>1 DEF BridgeWriteChunk, IndexInv
<1>4. CASE BridgeExit \/ HostExit
  BY <1>4 DEF BridgeExit, HostExit, Unmap, segment
<1>5. CASE \E r \in Readers : Initialize(r)
  BY <1>5 DEF Initialize, bridgeVars
<1>6. CASE \E r \in Readers : ReaderExit(r)
  BY <1>6 DEF ReaderExit, Unmap, segment, bridgeVars, BridgeMapped
<1>7. CASE UNCHANGED <<index, bridgeVars, complete>>
  BY <1>7 DEF bridgeVars
<1>8. QED
  BY <1>1, <1>2, <1>3, <1>4, <1>5, <1>6, <1>7, Steps
  DEF InitializeFields, InitializeFails, RequestSample, Lock, LockTimeout,
      Compare, Take, Mark, CopyChunk, Deliver, DeliverFails, segment

(* Noting an index and beginning the copy are one step, and a copy that     *)
(* ends has replaced every pixel.                                           *)
LEMMA KeptStep ==
  ASSUME Inv, IndexBehind, NEW q \in Readers, CopyBehind(q), PictureKept(q), Next
  PROVE  CopyBehind(q)' /\ PictureKept(q)'
<1> USE DEF CopyBehind, PictureKept, Noted
<1>0. /\ lastIndex \in [Readers -> Nat] /\ since \in [Readers -> Nat]
      /\ srcLength \in [Readers -> {0, FullSize}]
      /\ pc \in [Readers -> ReaderPCs] /\ pos \in [Readers -> Chunks]
      /\ lastFrame \in [Readers -> [Chunks -> Nat]]
      /\ index \in Nat /\ complete \in Nat
      /\ Pixels \subseteq Chunks /\ FullSize > 0
  <2>1. Numbers \subseteq Nat /\ Pixels \subseteq Chunks /\ FullSize > 0
    BY DEF Numbers, Pixels, Chunks, FullSize
  <2>2. SegmentTypeOK /\ BridgeTypeOK /\ ReaderTypeOK
    BY DEF Inv, TypeOK
  <2>3. [Chunks -> Numbers] \subseteq [Chunks -> Nat]
    BY <2>1
  <2>4. lastFrame \in [Readers -> [Chunks -> Nat]]
    BY <2>2, <2>3 DEF ReaderTypeOK
  <2>5. QED
    BY <2>1, <2>2, <2>4 DEF SegmentTypeOK, BridgeTypeOK, ReaderTypeOK
<1>1. CASE UNCHANGED readerVars
  BY <1>1 DEF readerVars
<1>2. CASE \E r \in Readers :
             \/ Initialize(r) \/ InitializeFields(r) \/ InitializeFails(r)
             \/ RequestSample(r) \/ Lock(r) \/ LockTimeout(r) \/ Compare(r)
             \/ Deliver(r) \/ DeliverFails(r)
  <2>1. PICK r \in Readers :
             \/ Initialize(r) \/ InitializeFields(r) \/ InitializeFails(r)
             \/ RequestSample(r) \/ Lock(r) \/ LockTimeout(r) \/ Compare(r)
             \/ Deliver(r) \/ DeliverFails(r)
    BY <1>2
  <2>2. /\ UNCHANGED <<lastIndex, srcLength, lastFrame, since>>
        /\ pc'[q] = pc[q] \/ (pc[q] \notin {"mark", "copy"} /\ pc'[q] \notin {"mark", "copy"})
    BY <1>0, <2>1
    DEF Initialize, InitializeFields, InitializeFails, RequestSample, Lock,
        LockTimeout, Compare, Deliver, DeliverFails
  <2>3. QED
    BY <2>2
<1>3. CASE \E r \in Readers : Take(r)
  BY <1>0, <1>3 DEF Take
<1>4. CASE \E r \in Readers : Mark(r)
  <2>1. PICK r \in Readers : Mark(r)
    BY <1>4
  <2>2. CASE q # r
    BY <1>0, <2>1, <2>2 DEF Mark
  <2>3. CASE q = r /\ srcLength[q] > 0
    <3>1. lastIndex'[q] = index /\ since'[q] = complete /\ pc'[q] = "copy"
      BY <1>0, <2>1, <2>3 DEF Mark
    <3>2. QED
      BY <3>1 DEF IndexBehind
  <2>4. CASE q = r /\ ~(srcLength[q] > 0)
    <3>1. /\ lastIndex'[q] = index /\ pc'[q] = "deliver"
          /\ srcLength' = srcLength /\ lastFrame' = lastFrame
      BY <1>0, <2>1, <2>4 DEF Mark
    <3>2. \A x \in Pixels : 0 <= lastFrame[q][x]
      BY <1>0
    <3>3. QED
      BY <2>4, <3>1, <3>2
  <2>5. QED
    BY <2>2, <2>3, <2>4
<1>5. CASE \E r \in Readers : CopyChunk(r)
  <2>1. PICK r \in Readers : CopyChunk(r)
    BY <1>5
  <2>2. CASE q # r
    BY <1>0, <2>1, <2>2 DEF CopyChunk
  <2>3. CASE q = r
    <3>1. /\ UNCHANGED <<lastIndex, srcLength, since>>
          /\ pc[q] = "copy" /\ pc'[q] \in {"copy", "deliver"}
      BY <1>0, <2>1, <2>3 DEF CopyChunk
    <3>2. pc'[q] = "deliver" => \A x \in Pixels : since'[q] <= lastFrame'[q][x]
      BY PictureStep DEF PictureInv
    <3>3. lastIndex[q] \in Nat /\ since[q] \in Nat
      BY <1>0
    <3>4. \A x \in Pixels : lastFrame'[q][x] \in Nat
      BY <1>0, TypeStep DEF TypeOK, ReaderTypeOK, Numbers
    <3>5. lastIndex[q] <= since[q]
      BY <3>1
    <3>6. pc'[q] = "deliver" => \A x \in Pixels : lastIndex'[q] <= lastFrame'[q][x]
      BY <3>1, <3>2, <3>3, <3>4, <3>5
    <3>7. QED
      BY <3>1, <3>5, <3>6
  <2>4. QED
    BY <2>2, <2>3
<1>6. CASE \E r \in Readers : ReaderExit(r)
  <2>1. PICK r \in Readers : ReaderExit(r)
    BY <1>6
  <2>2. CASE q # r
    BY <1>0, <2>1, <2>2 DEF ReaderExit
  <2>3. CASE q = r
    BY <1>0, <2>1, <2>3 DEF ReaderExit, Empty
  <2>4. QED
    BY <2>2, <2>3
<1>7. QED
  BY <1>1, <1>2, <1>3, <1>4, <1>5, <1>6, Steps
  DEF BridgeStart, BridgeOpen, BridgeGiveUp, BridgeWriteHeader,
      BridgeWriteChunk, BridgeExit, HostExit

(* A stream that goes on with the picture it has, because the index in the  *)
(* header is the one it noted (E_PENDING), overlooks no frame but the       *)
(* newest: no pixel of the picture is older than the frame before that      *)
(* index, for any number of streams and host sessions.  The exception is    *)
(* the stream that noted an index while another joined and had zeroed the   *)
(* length in the header (FrameServer::Initialize).                          *)
THEOREM OneBehindAtMost == Spec => []KeepsUp
<1>1. Init => KeepsUp
  BY DEF Init, KeepsUp, IndexBehind, CopyBehind, PictureKept, Empty, Pixels, Chunks
<1>2. ASSUME Inv, KeepsUp, [Next]_vars
      PROVE  KeepsUp'
  <2>1. CASE Next
    BY <1>2, <2>1, IndexBehindStep, KeptStep DEF KeepsUp
  <2>2. CASE UNCHANGED vars
    BY <1>2, <2>2 DEF vars, segment, bridgeVars, readerVars, KeepsUp,
      IndexBehind, CopyBehind, PictureKept, Noted
  <2>3. QED
    BY <1>2, <2>1, <2>2
<1>3. QED
  BY Invariant, <1>1, <1>2, PTL DEF Spec

------------------------------------------------------------------------------
(* RequestSample is bounded: the safety part of RequestReturns *)

(* The steps a call has left at most, LockTimeout for Lock. *)
Left(r) ==
  CASE pc[r] = "lock"    -> LastChunk + 6
    [] pc[r] = "compare" -> LastChunk + 5
    [] pc[r] = "take"    -> LastChunk + 4
    [] pc[r] = "mark"    -> LastChunk + 3
    [] pc[r] = "copy"    -> LastChunk + 2 - pos[r]
    [] pc[r] = "deliver" -> 1
    [] OTHER             -> 0

Bounded(r) ==
  /\ Left(r) \in 0 .. LastChunk + 6
  /\ Serve(r) => Left(r)' < Left(r)
  /\ Left(r)' > Left(r) => pc[r] = "idle"

(* A step of a stream disturbs no other stream's call. *)
LEMMA OthersLeft ==
  ASSUME Inv, NEW r \in Readers, NEW q \in Readers \ {r}, Reader(r)
  PROVE  pc'[q] = pc[q] /\ pos'[q] = pos[q]
<1> USE DEF Inv, TypeOK, ReaderTypeOK
<1>1. pc'[q] = pc[q]
  BY DEF Reader, Serve, Initialize, InitializeFields, InitializeFails, RequestSample,
         Lock, LockTimeout, Compare, Take, Mark, CopyChunk, Deliver, DeliverFails,
         ReaderExit
<1>2. pos'[q] = pos[q]
  BY DEF Reader, Serve, Initialize, InitializeFields, InitializeFails, RequestSample,
         Lock, LockTimeout, Compare, Take, Mark, CopyChunk, Deliver, DeliverFails,
         ReaderExit
<1>3. QED
  BY <1>1, <1>2

LEMMA ServeLowers ==
  ASSUME Inv, NEW r \in Readers, Serve(r)
  PROVE  Left(r)' < Left(r)
<1>0. /\ pc \in [Readers -> ReaderPCs] /\ pos \in [Readers -> Chunks]
      /\ pos[r] \in Int /\ pos[r] <= LastChunk
  BY DEF Inv, TypeOK, ReaderTypeOK, Chunks
<1>1. CASE Lock(r) \/ LockTimeout(r)
  BY <1>0, <1>1 DEF Lock, LockTimeout, Left
<1>2. CASE Compare(r)
  BY <1>0, <1>2 DEF Compare, Left
<1>3. CASE Take(r)
  BY <1>0, <1>3 DEF Take, Left
<1>4. CASE Mark(r)
  <2>1. pc[r] = "mark"
    BY <1>4 DEF Mark
  <2>2. CASE srcLength[r] > 0
    <3>1. pc'[r] = "copy" /\ pos'[r] = 0
      BY <1>0, <1>4, <2>2, 0 \in Chunks DEF Mark, Chunks
    <3>2. QED
      BY <2>1, <3>1 DEF Left
  <2>3. CASE ~(srcLength[r] > 0)
    BY <1>0, <1>4, <2>1, <2>3 DEF Mark, Left
  <2>4. QED
    BY <2>2, <2>3
<1>5. CASE CopyChunk(r)
  <2>1. pc[r] = "copy"
    BY <1>5 DEF CopyChunk
  <2>2. CASE pos[r] + 1 = srcLength[r]
    BY <1>0, <1>5, <2>1, <2>2 DEF CopyChunk, Left
  <2>3. CASE pos[r] + 1 # srcLength[r]
    <3>1. pc'[r] = "copy" /\ pos'[r] = pos[r] + 1
      BY <1>0, <1>5, <2>1, <2>3 DEF CopyChunk
    <3>2. QED
      BY <1>0, <2>1, <3>1 DEF Left
  <2>4. QED
    BY <2>2, <2>3
<1>6. CASE Deliver(r) \/ DeliverFails(r)
  BY <1>0, <1>6 DEF Deliver, DeliverFails, Left
<1>7. QED
  BY <1>1, <1>2, <1>3, <1>4, <1>5, <1>6 DEF Serve

(* A RequestSample call ends after at most LastChunk + 6 steps of its own,  *)
(* and no step of the bridge, of another stream or of another process adds  *)
(* to them: the wait for the mutex is one step, whoever hangs with it.      *)
THEOREM RequestBounded == Spec => [][\A r \in Readers : Bounded(r)]_vars
<1>1. ASSUME Inv, Next, NEW q \in Readers
      PROVE  Bounded(q)
  <2>0. /\ pc[q] \in ReaderPCs /\ pos[q] \in Int /\ 0 <= pos[q] /\ pos[q] <= LastChunk
        /\ pc \in [Readers -> ReaderPCs]
    BY <1>1 DEF Inv, TypeOK, ReaderTypeOK, Chunks
  <2>1. Left(q) \in 0 .. LastChunk + 6
    BY <2>0 DEF Left
  <2>2. Serve(q) => Left(q)' < Left(q)
    BY <1>1, ServeLowers
  <2>3. ASSUME Left(q)' > Left(q)
        PROVE  pc[q] = "idle"
    <3>1. CASE Bridge
      <4>1. UNCHANGED readerVars
        BY <3>1 DEF Bridge, BridgeStart, BridgeOpen, BridgeGiveUp, BridgeWriteHeader,
                    BridgeWriteChunk, BridgeExit, HostExit
      <4>2. Left(q)' = Left(q)
        BY <4>1 DEF readerVars, Left
      <4>3. QED
        BY <2>1, <2>3, <4>2
    <3>2. ASSUME NEW r \in Readers \ {q}, Reader(r)
          PROVE  FALSE
      <4>1. pc'[q] = pc[q] /\ pos'[q] = pos[q]
        BY <1>1, <3>2, OthersLeft
      <4>2. Left(q)' = Left(q)
        BY <4>1 DEF Left
      <4>3. QED
        BY <2>1, <2>3, <4>2
    <3>3. CASE Serve(q)
      <4>1. Left(q)' < Left(q)
        BY <2>2, <3>3
      <4>2. Left(q)' \in Int
        <5>1. Inv'
          BY <1>1, StepInv
        <5>2. pc'[q] \in ReaderPCs /\ pos'[q] \in Int
          BY <5>1 DEF Inv, TypeOK, ReaderTypeOK, Chunks
        <5>3. QED
          BY <5>2 DEF Left
      <4>3. QED
        BY <2>1, <2>3, <4>1, <4>2
    <3>4. CASE Initialize(q) \/ InitializeFields(q) \/ InitializeFails(q) \/ ReaderExit(q)
      <4>1. pc'[q] \in {"closed", "fields", "idle"}
        BY <2>0, <3>4 DEF Initialize, InitializeFields, InitializeFails, ReaderExit
      <4>2. Left(q)' = 0
        BY <4>1 DEF Left
      <4>3. QED
        BY <2>1, <2>3, <4>2
    <3>5. CASE RequestSample(q)
      BY <3>5 DEF RequestSample
    <3>6. QED
      BY <1>1, <3>1, <3>2, <3>3, <3>4, <3>5 DEF Next, Reader
  <2>4. QED
    BY <2>1, <2>2, <2>3 DEF Bounded
<1>2. Inv /\ [Next]_vars => [\A r \in Readers : Bounded(r)]_vars
  BY <1>1
<1>3. QED
  BY Invariant, <1>2, PTL DEF Spec
==============================================================================
