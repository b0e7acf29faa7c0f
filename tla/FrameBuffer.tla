----------------------------- MODULE FrameBuffer -----------------------------
(****************************************************************************)
(* The shared-memory segment Global\GVCam_FrameBuf, the one thread that     *)
(* writes it and the streams that read it:                                  *)
(*   - the bridge thread of GVCamHost.exe (mjpeg_bridge.cpp) opens the      *)
(*     segment, then for each decoded frame copies the header, frame index  *)
(*     included, and after it the pixels.  It takes no lock.                *)
(*   - each GVCamMediaStream (mediastream.cpp) owns a FrameServer           *)
(*     (frame_server.cpp) that creates or opens the segment, zeroes its     *)
(*     header, and on every RequestSample compares the header's index with  *)
(*     the last one it saw, under a mutex shared by the readers only, and   *)
(*     copies the pixels after the mutex is released.                       *)
(*                                                                          *)
(* A frame is the number of its publication, 1, 2, ...; 0 stands for memory *)
(* nobody has written.  Frame data is copied in LastChunk + 1 chunks, of    *)
(* which chunk 0 is the first byte, the one sizeof(GVCamSharedHeader)       *)
(* counts as part of the header.  One chunk, and one header, is copied      *)
(* atomically; chunks are copied in order.                                  *)
(****************************************************************************)
EXTENDS Integers

CONSTANTS
  Readers,    \* streams, each in a process of its own
  NoReader,   \* the mutex has no owner
  LastChunk,  \* the last chunk of the pixel data
  MaxFrames,  \* bound: frames published in all
  MaxHosts,   \* bound: times GVCamHost.exe is started
  Mortal,     \* the readers whose process may exit
  Live        \* the readers that keep running (only fairness depends on it)

ASSUME ChunksAssumption == LastChunk \in Nat \ {0}
ASSUME BoundsAssumption == MaxFrames \in Nat /\ MaxHosts \in Nat
ASSUME ReadersAssumption ==
  NoReader \notin Readers /\ Mortal \subseteq Readers /\ Live \subseteq Readers

VARIABLES
  \* the segment
  index,      \* _header->frameIndex
  frameSize,  \* _header->frameSize, in chunks
  data,       \* the frame each chunk of the pixel data comes from
  mutex,      \* the owner of Global\GVCam_FrameBuf_Mutex
  \* the bridge thread
  bridge,     \* where it is
  nextIndex,  \* its local frameIndex
  cursor,     \* the next chunk it writes
  hosts,      \* how many times the host was started
  written,    \* history: frames whose publication has begun
  complete,   \* history: the newest frame written whole into this segment
  \* the readers
  pc,         \* where each reader is
  mapped,     \* _header is not null
  lastIndex,  \* FrameServer::_lastIndex
  srcLength,  \* the length GetLatestFrame returned, in chunks
  pos,        \* the next chunk of _lastFrame it fills
  lastFrame,  \* GVCamMediaStream::_lastFrame; all 0 while it is empty
  sample,     \* the picture last queued as MEMediaSample; all 0 is blank
  since       \* history: the newest complete frame when it last began to copy

segment == <<index, frameSize, data>>
bridgeVars == <<bridge, nextIndex, cursor, hosts, written>>
readerVars == <<pc, mapped, lastIndex, srcLength, pos, lastFrame, sample, since>>
vars == <<segment, mutex, bridgeVars, complete, readerVars>>

Chunks == 0 .. LastChunk
Pixels == 1 .. LastChunk        \* what both sides agree is pixel data
FullSize == LastChunk + 1
Empty == [c \in Chunks |-> 0]

BridgePCs == {"off", "opening", "parsing", "copying"}
ReaderPCs == {"closed", "fields", "idle", "lock", "compare", "take", "mark",
              "copy", "deliver"}

Init ==
  /\ index = 0 /\ frameSize = 0 /\ data = Empty /\ mutex = NoReader
  /\ bridge = "off" /\ nextIndex = 0 /\ cursor = 0 /\ hosts = 0
  /\ written = 0 /\ complete = 0
  /\ pc = [r \in Readers |-> "closed"]
  /\ mapped = [r \in Readers |-> FALSE]
  /\ lastIndex = [r \in Readers |-> 0]
  /\ srcLength = [r \in Readers |-> 0]
  /\ pos = [r \in Readers |-> 0]
  /\ lastFrame = [r \in Readers |-> Empty]
  /\ sample = [r \in Readers |-> Empty]
  /\ since = [r \in Readers |-> 0]

BridgeMapped == bridge \in {"parsing", "copying"}
SegmentExists == BridgeMapped \/ \E r \in Readers : mapped[r]

(* A handle is closed: a named section without handles is destroyed, and    *)
(* the next CreateFileMapping gets zeroed pages.                            *)
Unmap(stillMapped) ==
  IF stillMapped
  THEN UNCHANGED <<segment, complete>>
  ELSE index' = 0 /\ frameSize' = 0 /\ data' = Empty /\ complete' = 0

------------------------------------------------------------------------------
(* The bridge thread *)

(* GVCamHost.exe starts and StartMjpegBridge creates the thread. *)
BridgeStart ==
  /\ bridge = "off"
  /\ hosts < MaxHosts
  /\ hosts' = hosts + 1
  /\ bridge' = "opening"
  /\ UNCHANGED <<segment, mutex, nextIndex, cursor, written, complete, readerVars>>

(* OpenSharedMemory finds the segment; frameIndex starts at 0. *)
BridgeOpen ==
  /\ bridge = "opening"
  /\ SegmentExists
  /\ bridge' = "parsing"
  /\ nextIndex' = 0
  /\ UNCHANGED <<segment, mutex, cursor, hosts, written, complete, readerVars>>

(* 60 tries did not find it, or it could not be mapped: the thread ends. *)
BridgeGiveUp ==
  /\ bridge = "opening"
  /\ bridge' = "off"
  /\ UNCHANGED <<segment, mutex, nextIndex, cursor, hosts, written, complete,
                 readerVars>>

(* A frame is decoded and its header copied, the new index with it.  A      *)
(* frame that does not decode changes nothing.                              *)
BridgeWriteHeader ==
  /\ bridge = "parsing"
  /\ written < MaxFrames
  /\ frameSize' = FullSize
  /\ index' = nextIndex
  /\ nextIndex' = nextIndex + 1
  /\ written' = written + 1
  /\ cursor' = 0
  /\ bridge' = "copying"
  /\ UNCHANGED <<data, mutex, hosts, complete, readerVars>>

(* Mutant: the pixels are copied without the last chunk. *)
BridgeWriteChunk_Short ==
  /\ bridge = "copying"
  /\ data' = [data EXCEPT ![cursor] = written]
  /\ IF cursor + 1 = LastChunk
     THEN bridge' = "parsing" /\ complete' = written /\ UNCHANGED cursor
     ELSE cursor' = cursor + 1 /\ UNCHANGED <<bridge, complete>>
  /\ UNCHANGED <<index, frameSize, mutex, nextIndex, hosts, written, readerVars>>

(* One chunk of memcpy(shm.view + HEADER_SZ, nv12.data(), frameSizeNV). *)
BridgeWriteChunk ==
  /\ bridge = "copying"
  /\ data' = [data EXCEPT ![cursor] = written]
  /\ IF cursor = LastChunk
     THEN bridge' = "parsing" /\ complete' = written /\ UNCHANGED cursor
     ELSE cursor' = cursor + 1 /\ UNCHANGED <<bridge, complete>>
  /\ UNCHANGED <<index, frameSize, mutex, nextIndex, hosts, written, readerVars>>

(* The stream ended or the connection was lost: the thread unmaps and ends. *)
BridgeExit ==
  /\ bridge = "parsing"
  /\ bridge' = "off"
  /\ Unmap(\E r \in Readers : mapped[r])
  /\ UNCHANGED <<mutex, nextIndex, cursor, hosts, written, readerVars>>

(* TerminateThread and the end of the host process, or its crash, wherever  *)
(* the thread is.                                                           *)
HostExit ==
  /\ bridge # "off"
  /\ bridge' = "off"
  /\ Unmap(\E r \in Readers : mapped[r])
  /\ UNCHANGED <<mutex, nextIndex, cursor, hosts, written, readerVars>>

------------------------------------------------------------------------------
(* The readers *)

(* Mutant: the joining stream zeroes the whole mapping. *)
Initialize_ZeroAll(r) ==
  /\ pc[r] = "closed"
  /\ mapped' = [mapped EXCEPT ![r] = TRUE]
  /\ index' = 0 /\ frameSize' = 0
  /\ data' = Empty
  /\ pc' = [pc EXCEPT ![r] = "fields"]
  /\ UNCHANGED <<mutex, bridgeVars, complete, lastIndex, srcLength, pos,
                 lastFrame, sample, since>>

(* FrameServer::Initialize up to ZeroMemory, whose sizeof(GVCamSharedHeader)*)
(* reaches the first byte of the pixel data.                                *)
Initialize(r) ==
  /\ pc[r] = "closed"
  /\ mapped' = [mapped EXCEPT ![r] = TRUE]
  /\ index' = 0 /\ frameSize' = 0
  /\ data' = [data EXCEPT ![0] = 0]
  /\ pc' = [pc EXCEPT ![r] = "fields"]
  /\ UNCHANGED <<mutex, bridgeVars, complete, lastIndex, srcLength, pos,
                 lastFrame, sample, since>>

(* The rest of Initialize: the header's constant fields. *)
InitializeFields(r) ==
  /\ pc[r] = "fields"
  /\ frameSize' = FullSize
  /\ pc' = [pc EXCEPT ![r] = "idle"]
  /\ UNCHANGED <<index, data, mutex, bridgeVars, complete, mapped, lastIndex,
                 srcLength, pos, lastFrame, sample, since>>

(* Initialize fails; RuntimeClassInitialize does not look at the result. *)
InitializeFails(r) ==
  /\ pc[r] = "closed"
  /\ pc' = [pc EXCEPT ![r] = "idle"]
  /\ UNCHANGED <<segment, mutex, bridgeVars, complete, mapped, lastIndex,
                 srcLength, pos, lastFrame, sample, since>>

(* RequestSample on an active stream (an inactive one returns at once).     *)
(* Without a mapping GetLatestFrame returns E_FAIL.                         *)
RequestSample(r) ==
  /\ pc[r] = "idle"
  /\ pc' = [pc EXCEPT ![r] = IF mapped[r] THEN "lock" ELSE "deliver"]
  /\ UNCHANGED <<segment, mutex, bridgeVars, complete, mapped, lastIndex,
                 srcLength, pos, lastFrame, sample, since>>

(* WaitForSingleObject(_hMutex, 5) gets the mutex, abandoned or not. *)
Lock(r) ==
  /\ pc[r] = "lock"
  /\ mutex = NoReader
  /\ mutex' = r
  /\ pc' = [pc EXCEPT ![r] = "compare"]
  /\ UNCHANGED <<segment, bridgeVars, complete, mapped, lastIndex, srcLength,
                 pos, lastFrame, sample, since>>

(* Mutant: the wait is INFINITE. *)
LockTimeout_Never(r) == FALSE /\ pc[r] = "lock" /\ UNCHANGED vars

(* The 5 ms pass, or there is no mutex: the reader goes on without it. *)
LockTimeout(r) ==
  /\ pc[r] = "lock"
  /\ pc' = [pc EXCEPT ![r] = "compare"]
  /\ UNCHANGED <<segment, mutex, bridgeVars, complete, mapped, lastIndex,
                 srcLength, pos, lastFrame, sample, since>>

(* ReleaseMutex; it fails, without effect, for a thread that is no owner. *)
Unlock(r) == mutex' = IF mutex = r THEN NoReader ELSE mutex

(* Mutant: E_PENDING is returned without ReleaseMutex. *)
Compare_KeepsMutex(r) ==
  /\ pc[r] = "compare"
  /\ pc' = [pc EXCEPT ![r] = IF index = lastIndex[r] THEN "deliver" ELSE "take"]
  /\ UNCHANGED <<segment, mutex, bridgeVars, complete, mapped, lastIndex,
                 srcLength, pos, lastFrame, sample, since>>

(* Mutant: whatever index the header has is taken for a new frame. *)
Compare_AnyIndex(r) ==
  /\ pc[r] = "compare"
  /\ pc' = [pc EXCEPT ![r] = "take"]
  /\ UNCHANGED <<segment, mutex, bridgeVars, complete, mapped, lastIndex,
                 srcLength, pos, lastFrame, sample, since>>

(* The header's index is the one last seen (E_PENDING), or it is not. *)
Compare(r) ==
  /\ pc[r] = "compare"
  /\ \/ /\ index = lastIndex[r]
        /\ Unlock(r)
        /\ pc' = [pc EXCEPT ![r] = "deliver"]
     \/ /\ index # lastIndex[r]
        /\ pc' = [pc EXCEPT ![r] = "take"]
        /\ UNCHANGED mutex
  /\ UNCHANGED <<segment, bridgeVars, complete, mapped, lastIndex, srcLength,
                 pos, lastFrame, sample, since>>

(* The length is read (and the index, into _lastFrameIndex, which nothing   *)
(* ever reads).                                                             *)
Take(r) ==
  /\ pc[r] = "take"
  /\ srcLength' = [srcLength EXCEPT ![r] = frameSize]
  /\ pc' = [pc EXCEPT ![r] = "mark"]
  /\ UNCHANGED <<segment, mutex, bridgeVars, complete, mapped, lastIndex, pos,
                 lastFrame, sample, since>>

(* The index is read once more, into _lastIndex, and GetLatestFrame         *)
(* returns S_OK; the copy is made only if the length is not 0.              *)
Mark(r) ==
  /\ pc[r] = "mark"
  /\ lastIndex' = [lastIndex EXCEPT ![r] = index]
  /\ Unlock(r)
  /\ IF srcLength[r] > 0
     THEN /\ pc' = [pc EXCEPT ![r] = "copy"]
          /\ pos' = [pos EXCEPT ![r] = 0]
          /\ since' = [since EXCEPT ![r] = complete]
     ELSE /\ pc' = [pc EXCEPT ![r] = "deliver"]
          /\ UNCHANGED <<pos, since>>
  /\ UNCHANGED <<segment, bridgeVars, complete, mapped, srcLength, lastFrame,
                 sample>>

(* Mutant: the last chunk is not copied. *)
CopyChunk_Short(r) ==
  /\ pc[r] = "copy"
  /\ lastFrame' = [lastFrame EXCEPT ![r][pos[r]] = data[pos[r]]]
  /\ IF pos[r] + 2 = srcLength[r]
     THEN pc' = [pc EXCEPT ![r] = "deliver"] /\ UNCHANGED pos
     ELSE pos' = [pos EXCEPT ![r] = pos[r] + 1] /\ UNCHANGED pc
  /\ UNCHANGED <<segment, mutex, bridgeVars, complete, mapped, lastIndex,
                 srcLength, sample, since>>

(* One chunk of _lastFrame.assign(srcData, srcData + srcLength). *)
CopyChunk(r) ==
  /\ pc[r] = "copy"
  /\ lastFrame' = [lastFrame EXCEPT ![r][pos[r]] = data[pos[r]]]
  /\ IF pos[r] + 1 = srcLength[r]
     THEN pc' = [pc EXCEPT ![r] = "deliver"] /\ UNCHANGED pos
     ELSE pos' = [pos EXCEPT ![r] = pos[r] + 1] /\ UNCHANGED pc
  /\ UNCHANGED <<segment, mutex, bridgeVars, complete, mapped, lastIndex,
                 srcLength, sample, since>>

(* A sample is queued: _lastFrame, or a blank one while that is empty. *)
Deliver(r) ==
  /\ pc[r] = "deliver"
  /\ sample' = [sample EXCEPT ![r] = lastFrame[r]]
  /\ pc' = [pc EXCEPT ![r] = "idle"]
  /\ UNCHANGED <<segment, mutex, bridgeVars, complete, mapped, lastIndex,
                 srcLength, pos, lastFrame, since>>

(* The sample or its buffer cannot be allocated: nothing is queued. *)
DeliverFails(r) ==
  /\ pc[r] = "deliver"
  /\ pc' = [pc EXCEPT ![r] = "idle"]
  /\ UNCHANGED <<segment, mutex, bridgeVars, complete, mapped, lastIndex,
                 srcLength, pos, lastFrame, sample, since>>

(* The process exits or crashes: its handles are closed, its mutex is       *)
(* abandoned, its stream is gone.  (A stream and its source reference each  *)
(* other, so the destructor of FrameServer runs at no other time.)          *)
ReaderExit(r) ==
  /\ r \in Mortal
  /\ pc[r] # "closed"
  /\ pc' = [pc EXCEPT ![r] = "closed"]
  /\ mapped' = [mapped EXCEPT ![r] = FALSE]
  /\ lastIndex' = [lastIndex EXCEPT ![r] = 0]
  /\ srcLength' = [srcLength EXCEPT ![r] = 0]
  /\ pos' = [pos EXCEPT ![r] = 0]
  /\ lastFrame' = [lastFrame EXCEPT ![r] = Empty]
  /\ sample' = [sample EXCEPT ![r] = Empty]
  /\ since' = [since EXCEPT ![r] = 0]
  /\ Unlock(r)
  /\ Unmap(BridgeMapped \/ \E s \in Readers \ {r} : mapped[s])
  /\ UNCHANGED bridgeVars

------------------------------------------------------------------------------
Bridge ==
  \/ BridgeStart \/ BridgeOpen \/ BridgeGiveUp
  \/ BridgeWriteHeader \/ BridgeWriteChunk \/ BridgeExit \/ HostExit

(* A RequestSample call from its first step to its return. *)
Serve(r) ==
  \/ Lock(r) \/ LockTimeout(r) \/ Compare(r) \/ Take(r) \/ Mark(r)
  \/ CopyChunk(r) \/ Deliver(r) \/ DeliverFails(r)

Reader(r) ==
  \/ Initialize(r) \/ InitializeFields(r) \/ InitializeFails(r)
  \/ RequestSample(r) \/ Serve(r) \/ ReaderExit(r)

Next == Bridge \/ \E r \in Readers : Reader(r)

Spec == Init /\ [][Next]_vars

------------------------------------------------------------------------------
(* Fairness *)

(* A RequestSample call that was begun by a live stream takes its steps: no *)
(* process promises anything to another, and the wait for the mutex is      *)
(* bounded by its timeout.                                                  *)
ServeFairness == \A r \in Live : WF_vars(Serve(r))

(* A live stream is moreover set up and asked for samples again and again,  *)
(* as a media pipeline does, and memory for a sample is not short for ever. *)
ViewFairness ==
  /\ ServeFairness
  /\ \A r \in Live : /\ WF_vars(InitializeFields(r))
                     /\ WF_vars(RequestSample(r))
                     /\ SF_vars(Deliver(r))

(* The bridge thread also finishes the memcpy of a frame it has begun. *)
CopySpec == Spec /\ ViewFairness /\ WF_vars(BridgeWriteChunk)

------------------------------------------------------------------------------
(* Invariants *)

Numbers == 0 .. MaxFrames

SegmentTypeOK ==
  /\ index \in Numbers /\ frameSize \in {0, FullSize}
  /\ data \in [Chunks -> Numbers]
  /\ mutex \in Readers \union {NoReader}

BridgeTypeOK ==
  /\ bridge \in BridgePCs
  /\ nextIndex \in Numbers /\ cursor \in Chunks /\ hosts \in 0 .. MaxHosts
  /\ written \in Numbers /\ complete \in Numbers

ReaderTypeOK ==
  /\ pc \in [Readers -> ReaderPCs]
  /\ mapped \in [Readers -> BOOLEAN]
  /\ lastIndex \in [Readers -> Numbers]
  /\ srcLength \in [Readers -> {0, FullSize}]
  /\ pos \in [Readers -> Chunks]
  /\ lastFrame \in [Readers -> [Chunks -> Numbers]]
  /\ sample \in [Readers -> [Chunks -> Numbers]]
  /\ since \in [Readers -> Numbers]

(* Every variable has its type: in particular the bridge never writes and   *)
(* no reader ever reads past the last chunk of the segment.                 *)
TypeOK == SegmentTypeOK /\ BridgeTypeOK /\ ReaderTypeOK

(* The named mutex is held only inside GetLatestFrame: neither the          *)
(* E_PENDING return, nor a wait that timed out followed by a ReleaseMutex,  *)
(* nor a process that died leaves it held.                                  *)
MutexHeldOnlyInside ==
  \A r \in Readers : mutex = r => pc[r] \in {"compare", "take", "mark"}

(* Memory nobody has written never reaches an application: although         *)
(* GetLatestFrame checks nothing but that the index changed, a sample that  *)
(* is not blank consists of pixels some frame was decoded into.             *)
SamplesAreWritten ==
  \A r \in Readers :
    (\E c \in Chunks : sample[r][c] > 0) => \A x \in Pixels : sample[r][x] > 0

(* The parts of the inductive invariant *)

(* The pixels in the segment lie between the newest complete frame and the  *)
(* one being written, whose first chunks are there already.                 *)
SegmentInv ==
  /\ \A x \in Pixels : complete <= data[x] /\ data[x] <= written
  /\ bridge = "copying" =>
       /\ written > 0
       /\ \A x \in Pixels : x < cursor => data[x] = written

(* An index other than 0, in the header or about to be written, is the      *)
(* index of a frame that follows a complete one.                            *)
IndexInv ==
  /\ nextIndex <= written
  /\ index > 0 => complete > 0
  /\ bridge = "parsing" /\ nextIndex > 0 => complete > 0
  /\ bridge = "copying" /\ nextIndex > 1 => complete > 0

(* A stream that saw an index other than 0, or is about to copy, has a      *)
(* complete frame under it; one without a mapping has nothing.              *)
ReaderInv(r) ==
  /\ mapped[r] /\ lastIndex[r] > 0 => complete > 0
  /\ pc[r] \in {"take", "mark"} => complete > 0
  /\ mapped[r] \/ pc[r] \in {"closed", "idle", "deliver"}
  /\ pc[r] = "closed" => ~mapped[r]
  /\ ~mapped[r] => /\ lastIndex[r] = 0 /\ since[r] = 0
                   /\ lastFrame[r] = Empty /\ sample[r] = Empty

(* A picture holds no pixel older than the frame that was complete when its *)
(* copy began, as far as the copy got, and only grows newer.                *)
PictureInv(r) ==
  /\ since[r] <= complete
  /\ since[r] = 0 => lastFrame[r] = Empty
  /\ pc[r] = "copy" => since[r] > 0 /\ srcLength[r] = FullSize
  /\ \A x \in Pixels :
       /\ sample[r][x] <= lastFrame[r][x]
       /\ mapped[r] => lastFrame[r][x] <= data[x]
       /\ pc[r] # "copy" \/ x < pos[r] => since[r] <= lastFrame[r][x]

(* A picture that is not blank, in its chunk 0 either, has all its pixels. *)
SampleInv(r) ==
  sample[r] # Empty => \A x \in Pixels : sample[r][x] > 0

(* The inductive invariant FrameBufferProofs proves. *)
Inv ==
  /\ TypeOK /\ MutexHeldOnlyInside
  /\ SegmentInv /\ IndexInv
  /\ \A r \in Readers : ReaderInv(r) /\ PictureInv(r) /\ SampleInv(r)

------------------------------------------------------------------------------
(* What the segment implements *)

Shown == [r \in Readers |-> [x \in Pixels |-> sample[r][x]]]

Feed == INSTANCE FrameFeed WITH
  Viewers <- Readers, published <- written, settled <- complete,
  floor <- since, shown <- Shown

(* The streams keep the promises of FrameFeed: no pixel an application sees *)
(* goes back in time, not even when another application joins and zeroes    *)
(* the header or the host restarts, and every pixel is at least as new as   *)
(* the frame that was complete when the copy began, torn as the picture may *)
(* be.                                                                      *)
FeedSpec == Feed!Spec

------------------------------------------------------------------------------
(* Liveness *)

(* RequestSample returns, also while another process hangs with the mutex.  *)
RequestReturns ==
  \A r \in Live : pc[r] = "lock" ~> pc[r] \in {"idle", "closed"}

(* While the index in the header, that of a frame after the first (its      *)
(* number less 1), is not the one a stream saw last, the stream will show   *)
(* no pixel older than the frame before it: in one host session no frame    *)
(* but the newest is overlooked for good.  The exception is a stream that   *)
(* joins and zeroes the header; between "compare" and "mark" that makes     *)
(* another stream note the index of a frame without copying it.             *)
NewestButOneServed ==
  \A r \in Live, n \in 2 .. MaxFrames :
    index >= n - 1 /\ index # lastIndex[r] /\ mapped[r]
      /\ pc[r] \notin {"take", "mark"} ~>
      index < n - 1 \/ \A x \in Pixels : sample[r][x] >= n - 1

(* What the bridge is for, "writes into Global\GVCam_FrameBuf so the        *)
(* virtual camera driver can serve it" (mjpeg_bridge.h:6-7): the last frame *)
(* that was written whole is shown whole.                                   *)
LastFrameServed ==
  \A n \in 2 .. MaxFrames :
    complete = n ~>
      complete # n \/ \A r \in Live, x \in Pixels : sample[r][x] >= n
==============================================================================
