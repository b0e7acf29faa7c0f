# G-VCam in TLA+

G-VCam turns a phone into a Windows camera.  The phone serves its camera's
pictures as an MJPEG stream; `GVCamHost.exe` on the PC receives the stream,
decodes each picture and copies it into a shared-memory segment; the driver
`GVCamSource.dll`, loaded into a process of its own for each use, hands the
pictures to Zoom, OBS and others.  This directory holds TLA+ models of these
parts, TLC configurations that check them on small instances, and proofs that
TLAPS checks.

    phone: camera -> MjpegServer ==TCP==> host: bridge thread -> segment
                                                                    |
    application <- GVCamMediaStream <- FrameServer <================+

## The system

| Part | State | Operations | Hard because of |
|---|---|---|---|
| Frame segment, `frame_server.cpp`, `mediastream.cpp` | header (index, size), pixels, a named mutex; per stream the last index and its copy of a picture | `Initialize`, `GetLatestFrame`, `RequestSample` | the writer takes no lock; pixels are read after the readers' mutex is released; streams join and die, hosts restart |
| Bridge thread, `mjpeg_bridge.cpp` | receive buffer, frame index, socket, mapping | wait for the segment, connect, receive, cut out frames, decode, write | partial `recv`s, overflow, lost connections, `TerminateThread` |
| Host, `host.cpp` | registration, COM, Media Foundation, the camera, the bridge's handle | set up, wait for ENTER, take down | a failure after each step; termination of a thread inside the heap |
| MJPEG server, `MjpegServer.kt` | `running`, the scope, the server socket, client list and map, the latest frame, a lock | `start`, `stop`, `sendFrame`; accept and send coroutines | coroutines of an earlier start that outlive `stop()` and share everything with those of the next |
| Library parser, `mjpeg_parser.c` | a buffer | `feed` | frames cut anywhere; at most one frame per call |
| IPC channel, `compat/windows/ipc.c` | descriptor, data, mutex, last index | `open`, `write`, `read`, `close` | copies of many steps, a wait for the mutex that gives up, a pointer into the segment that outlives the mutex |
| Colours, `color_convert.c`, `frame.c` | none | four conversions, the buffer's size | offsets of planes, odd sizes, cut values |
| View model, activity, camera source (Kotlin) | UI state, the statistics job, the camera binding | `start`, `stop`, `onCleared`, bind, analyze | callbacks after `shutdown`, recreation, a cancelled scope |
| Media source, activator, COM server | state, event queues, references | `Start`, `Stop`, `Pause`, `Shutdown`, `ActivateObject` | calls on work-queue threads without a lock; a reference cycle |
| JPEG decoders, logger, POSIX stub of the channel, iOS template, debugging scripts, build files | none of their own | | |

The parts meet in three places: the TCP stream (server, bridge parser, library
parser), the segment (bridge, streams) and the life of the host (main thread,
bridge thread).  The library's parser and channel are built and exported but
neither host nor driver uses them.

What makes each part correct: no reader sees pictures go back in time or memory
that nobody wrote, and the mutex stays free (segment); every frame that arrived
is decoded once, whole and in order (parsers); every client that stays gets the
header and then frames, none twice (server); ENTER ends the process and every
failure path gives back what was taken (host); a read returns one frame, not
pieces of two (channel); a conversion fills its buffer and nothing else
(colours).  `PROJECT.json` lists the hazards at their lines, with the properties
that would notice each; those of the phone's application and of the media source are
in the table's last rows: a started server has its camera and a stopped one takes no
pictures; a source's state, its stream and its events agree, and nobody calls what
was not made or is not loaded any more.

## Modules

| Module | Models | Kind |
|---|---|---|
| `FrameFeed` | what the camera promises an application | abstract specification |
| `FrameBuffer` | segment, bridge as its writer, streams as its readers | implements `FrameFeed` |
| `FrameBufferProofs` | theorems about `FrameBuffer` | proofs |
| `MjpegServer` | the phone's server across restarts | |
| `MjpegParts` | the stream cut into pieces, and what both parsers do with a buffer | operators |
| `MjpegParser` | the two parsers, the bridge's and the library's | |
| `HostSession` | one run of `GVCamHost.exe` | |
| `FrameRegister` | what a channel promises | abstract specification |
| `IpcChannel` | the library's channel | implements `FrameRegister` |
| `PhoneApp` | buttons, view model, activity and camera source around `MjpegServer` | |
| `MediaSource` | DLL, class factory, activator, states and events of a source | |
| `ColorConvert` | the conversions, pixel by pixel | |
| `MjpegServerProofs`, `MjpegParserProofs`, `HostSessionProofs`, `PhoneAppProofs`, `MediaSourceProofs`, `IpcChannelProofs`, `ColorConvertProofs` | theorems about the module they are named after | proofs |
| `MC...` | instances for TLC | |

Operators whose names continue the name of another after an underscore
(`Compare_KeepsMutex`) are variants with a plausible mistake.  Nothing uses them;
each property is shown to fail when the variant takes the original's place.

### FrameBuffer

A frame is the number of its publication; 0 is memory that nobody wrote.  The
pixel data is `LastChunk + 1` chunks; chunk 0 is the first byte, the one that
`sizeof(GVCamSharedHeader)` counts with the header, so both sides' idea of "the
pixels" is `Pixels`.  The variables `index`, `frameSize`, `data` and `mutex` are
the segment; `nextIndex` is the bridge's `frameIndex`; `lastIndex`, `lastFrame`
and `sample` belong to each stream.  `written`, `complete` and `since` are history.

One action is one access to shared memory: the bridge copies the header
(`BridgeWriteHeader`), then chunk after chunk (`BridgeWriteChunk`); a reader waits
for the mutex (`Lock`, or `LockTimeout` after 5 ms), compares the index
(`Compare`), reads size (`Take`), reads the index again (`Mark`), releases, copies
(`CopyChunk`) and queues a sample (`Deliver`).  Assumptions on granularity: a
header and a chunk are copied at once, and a `memcpy` copies chunks in order.
`LockTimeout` also stands for a mutex that could not be created.  A frame that does
not decode and a `RequestSample` on an inactive stream change nothing.  A stream
whose `Initialize` failed runs without a mapping, as in the code, which ignores the
result.  `_lastFrameIndex`, which nothing reads, is left out.  The segment goes away
with its last mapping, and comes back zeroed.  Two writers at a time are not
modelled.

### MjpegServer

A start, its two coroutines, and its `ServerSocket` share a number.  `main` is the
statement of `stop()` that comes next; `acceptor[s]` and `sender[s]` are the
statements of the coroutines.  Each access to a shared field is an action:
`serverSocket` is assigned and read in different ones, so that the coroutine of one
start can meet the socket of another.  Cancellation is noticed where the code
suspends: when a coroutine is dispatched, in `withContext`, in `lock.withLock` when
the lock is taken, and in `delay`.  The unsynchronised map may lose an entry
(`HandlePut`) when another thread changes it at that time.  A packet is one write;
to a peer that left it may succeed or fail.  `stop()` closes all clients at one
instant.  `frameCount` is left out.

### MjpegParts, MjpegParser

The stream is a sequence of pieces: boundary (three), CR, LF, a header with its
length, and the JPEG data of a frame (its size in pieces).  That is every place
where a cut makes a difference to the parsers.  `Recv(n)` takes the next `n` pieces
and applies the limit; `ParseWait`, `ParseEnd` and `ParseFrame` are the inner loop's
exits and its round.  `Feed` is a whole call of `gvcam_mjpeg_feed`; an allocation may
fail in it (`NoMemory`), and its caller feeds the library the same stream in cuts of its
own.  The boundary does not occur in JPEG data.

### HostSession

`main` and `bridge` are the statements of the two threads.  Each call with which `wmain`
takes something down (`Calls`) is an action; `Following` is their order, on the way out
of a failure (`failed`) as after ENTER, where the `ComPtr` gives back its reference to the
camera (`ref`) when `wmain` returns, after COM.  `Stop` may fail; `Shutdown` and
`MFShutdown` are taken to succeed.

The two threads share two locks, of the heap and of stdio.  `owned` is which of them the
bridge holds: that of stdio inside one of its `printf`s (`UseStdio`), that of the heap when it
allocates or frees (`UseHeap`), also inside `printf`.  `TerminateThread` releases neither
(`deserted`).  The main thread needs stdio for what it prints; which of its calls of COM
and Media Foundation need the heap is not in the source, so `HeapCalls` is a constant: any
of them.  Locks inside other DLLs that a terminated thread may hold are left out, and so is
what the C run-time does when `wmain` has returned.  A connection that is lost is either
`reset`, which `recv` reports, or `silent`, which nothing reports.  A `connect` that
fails closes its socket and changes nothing.  The segment exists while an application
has the camera open or the bridge has it mapped.

### PhoneApp

Clicks, life-cycle callbacks and listeners run on the phone's main thread, each as one
action: `Start`, `Stop`, `Recompose` (the screen learns of a change, so a second click
may come before), `Recreate`, `Finish`, `Reopen`, `Listener`.  A coroutine of
`viewModelScope` is dispatched at once on that thread and the controller's functions
never suspend, so it belongs to the action that launches it.  Images take three steps on
the source's two threads: `Analyze`, `Close` (after `toJpeg`), `Publish`.  CameraX is
external: it delivers the provider once, late, calls listeners in order, refuses a
destroyed activity and unbinds what it had, and analyzes the next image only when the
last one was closed.  The permission is only the `recreate()` that granting it calls.

### MediaSource

`call[t]` is the call each thread is in and the step that comes next; each access to
`_state`, `_active` or a queue is a step, and threads interleave between them.  A queue
that was shut refuses events: `Start` then returns early, `Stop` and `Pause` do not look.
The data of events is left out; `announced` is the state that the last one told of.  Calls of
the activator are assumed to come one after another (overlapping ones would race for
`_source`, a smart pointer without a lock);
`ShutdownObject` alone is cut into steps, because a source that others hold is being shut
in it.  Sources and streams refer to each other and are never freed, so a source stays
`ready` for ever.  A caller whose `QueryInterface` is refused gets no pointer, and the activator
keeps the source it made (`activator.h:45`).  `clean` and `quiet` are history: whether the last Start, Stop or Pause ran
alone, and which requests began after it had halted the source; `unstarted` and `halted`
follow the calls of Stop and Pause that no Start overlapped.

### IpcChannel, ColorConvert

The copy of a descriptor is two steps, of which the index, its last field, is the second,
of data one per chunk.  The consumer's caller copies the data through the pointer it got
(`Use`).  Either side may end at any step and open the channel again, which zeroes the
descriptor in two steps without the mutex when the producer does it.  `faults`
remembers, of the time a consumer has been there, a wait for the mutex that timed out, a
producer that died in a call and one that opened the channel again.  `New` is the comparison
that a read makes: other than the number read last, not larger.
`ColorConvert` follows what is stored at which offset, and for the pixel being
converted the values before they are cut to bytes.  A format that is none gets -1 and no
buffer.  A picture has at least one pixel: for
none the loops do nothing, and the model's action stands for a round of them.

## Checks

All runs use all interleavings of the instance given; `PROJECT.json` says in a
sentence what each shows.

| Run | Instance | Why it is enough |
|---|---|---|
| `frame_segment` | 2 streams, one of which comes, goes, hangs or dies; 3 frames, the third when that stream has gone (`MaxShared`); 2 host sessions, 3 chunks | torn pictures of two frames and the byte before the pixels; a join, an exit and a restart in the middle of a copy; the owner of the mutex is another process; a frame that the other stream overlooks, the next one and a newer one: with fewer than three there is none for `NewestButOneServed` to miss |
| `frame_last` | 1 stream, 3 frames | ends with a counterexample, see below |
| `server_restart` | 2 starts, 1 client, 2 frames | coroutines of two starts at once |
| `server_serve` | 1 start, 2 clients, 2 frames | one fails while the other is served |
| `server_listens` | 2 starts, no frames | ends with a counterexample, see below |
| `parsers` | streams of 2 or 3 frames, any cut, an overflow, a failed allocation; the library's parser also with response headers and an end mark | every place of a cut before, in and after a frame that has both neighbours |
| `host_session` | 2 tries, 2 sockets, any failure, every call needing the heap | first and last try; a retry, with a socket left open and without |
| `ipc_channel` | 2 openings of the producer with 2 frames each, 2 joins, 2 chunks | a write during a read, a new consumer, a crash in each step of either side and the return from it |
| `phone_app` | 3 activities, 3 sources, 4 starts, 3 images | two listeners waiting while a third source is current; both threads busy and an image more |
| `phone_off` | 1 activity, 2 starts | ends with a counterexample, see below |
| `media_source` | 3 threads, 1 source, one activator and a lock | two calls that overlap and a third that tells; a second source would meet the first only in the counts of the DLL |
| `colour_layout` | even sizes up to 6x4, corner colours | two chroma rows and columns and more; the extremes of each sum |

Properties that are not listed under Proofs are model-checked only: the liveness
properties themselves (what they rest on is proved, see "Under the liveness properties"),
and of `NoneLeftWaiting` the part with ENABLED.

### Where the code and its words disagree

Three runs end with a counterexample; they compare the code with what its documentation
or messages say.

- `frame_last`: the index is published before the pixels and without the mutex.  A
  stream that comes between takes the old pixels for the new frame and does not look
  again.  With the next frame the mistake is gone, so it shows when the phone stops:
  what stays on the screen is not the last frame.
- `server_listens`: after a quick stop and start, "ON" with nobody listening.
- `phone_off`: started and stopped before the camera provider arrived, the camera is bound
  afterwards, while the screen says "Camera not active".  It takes no pictures
  (`NoPictureWhileOff`), because its executor is shut; the next start takes it over.

Others are in the models, as what the code does, and shape the properties:

- The first frame of a session has index 0, which to a stream means "nothing new"
  (`frame_server.cpp:6`, `:62`): it is not shown before the second one comes.
  `NewestButOneServed` therefore begins with frame 2's index.
- `ZeroMemory` of the header clears 25 bytes, not 24 (`frame_server.cpp:43`): chunk 0.
- A stream that joins between another one's `Compare` and `Mark` can make that one note
  the index of a frame it does not copy, because the size it read was 0; and one that
  joins at any time sets the index back.  `NewestButOneServed` excepts both.
- Without a whole boundary in its buffer the library's parser discards everything, also
  the beginning of a boundary (`mjpeg_parser.c:59-63`).  Fed a connection from its
  first byte, it may lose the first frame; `NothingLost` is about streams that begin with
  the boundary.
- "Press ENTER to stop" (`host.cpp:145`): `TerminateThread` (`:152`) may stop the bridge with
  a lock (`deserted`).  With the heap's, ENTER leaves the process at the first call that needs
  the heap, the camera perhaps started still.  With that of stdio alone the camera is removed,
  and the process stays in front of the last `printf` (`:70`).
- The failing paths of `wmain` leave the DLL registered, those of `CoInitializeEx` and
  `MFStartup` return without taking anything down (`host.cpp:93`, `:96`), and where `Start` fails
  the reference to the camera is released after `CoUninitialize` (`:133-134`, the destructor).
- A `Stop` that overlaps a `Start` may return before the `Start` sets the stream active
  (`mediasource.cpp:99`): samples go on although the state says stopped.
  `HaltedGivesNoSample` is about calls of Stop and Pause that no Start overlaps.
- The library's parser returns -1 when memory is short, as it does at the end of the stream
  (`mjpeg_parser.c:46`, `:71`).
- A producer that opens the channel again sets the index to 0 under its consumer
  (`ipc.c:104`), who takes it for a new frame; and a frame it writes is not noticed by one who
  read an equally numbered frame of the session before and then nothing else.
  `LastFrameArrives` excepts just that frame.
- A recreated activity has no camera source while the view model says that the camera is
  active (`MainActivity.kt:20`, `:56`): "ON" without pictures until Stop and Start.  This is
  the exception of `OnHasCamera`.
- JPEGs may reach `sendFrame` in the other order: the image is closed, and the next one
  analyzed, before `onFrame` (`AndroidCameraSource.kt:61-62`).
- The coroutine that `onCleared` launches to stop the camera never starts
  (`GVCamViewModel.kt:73`), so the executor's two threads stay.
- `Start` after `Shutdown` leaves the source running and its stream active, with no event that
  says so (`mediasource.cpp:98-105`).
- `g_objCount` counts activators for ever and class factories never (`dllmain.cpp:49`,
  `:81`).  The first keeps the DLL loaded under sources that outlive their activator
  (`InUseIsLoaded`); a client that holds nothing but a class factory may lose it.
- The bridge waits 60 s for an application and then ends for good (`mjpeg_bridge.cpp:183`).
- "Non-fatal if creation fails - works lockless" (`ipc.c:97`): without the mutex a read
  may find the new index with old data, and later reads find nothing new, so the last frame
  may be lost, as after a timeout of the mutex.
- The comments of the conversion say "BT.601 full swing" and give its formula
  (`color_convert.c:8-11`, `:29`).  The weights are those of studio swing, without the offset
  16 of its luma: white becomes 219, and chroma stays between 16 and 240.  `StudioSwing`
  states what the code computes, the ranges and the scaled formula within 1.  The driver
  announces yet another pair to the application, `MFNominalRange_Normal` and the matrix of
  BT.709 (`mediastream.cpp:57-59`).
- Pictures of odd size are converted past the end of their buffer: `(w+1)/2` columns of
  chroma in a plane of `w/2` (`color_convert.c:33`).  `SizesAssumption` asks for even sizes.

### Fairness

- `ServeFairness`: a `RequestSample` call that began takes its steps.  Only streams in
  `Live` are assumed to run at all; every wait in the call has a timeout, so weak
  fairness is enough.  `ViewFairness` adds that the media pipeline asks again and again, and
  that memory for samples is not short for ever.  `MCFrameBuffer!SharedSpec`
  (`frame_segment`) assumes both; its bound `MaxShared` takes no step from the stream that
  stays.  `CopySpec` (`frame_last`) adds that a `memcpy` ends.
- `MjpegServer!FairSpec`: the dispatcher runs every coroutine, and a write ends with
  success or an exception.  A peer that never reads and never goes away would break
  the second part, and with it `ClientServed`: one blocked write holds up all clients.
- `HostSession!FairSpec`: threads run.  Strong fairness for both, because the bridge takes and
  leaves the locks again and again: its own steps come between, and the main thread, when it
  waits for a lock, finds it free again and again, though locks are not handed over in the
  order of asking.  Weak fairness of `Leave`: nobody stays in `malloc` or `printf`.
  Nothing is assumed of the user, the application and the phone.
- `IpcChannel!FairSpec`: the consumer's caller reads again and again, and a read that
  began goes on.  Nothing is assumed of the producer, which may hang anywhere.
- `PhoneApp!FairSpec`: the provider arrives, and the main thread calls its listeners.  Nothing is
  assumed of the user, the activity or the images.

### What the liveness results leave open

`StopEndsCoroutines` is checked for one start, and so is that clients are served.  For two, `NoneLeftWaiting` says the same as
an invariant: when `stop()` was called last and no coroutine can take a step, all have ended.
Its part `NoneLeft`, in which `Still` spells out that no coroutine can take a step, is proved
for any number of starts (`StopLeavesNone`), and so is that none does take one while `Still`
holds (`StillStays`); that one can whenever it does not hold is left to TLC.
Both have one exception, `Stranded`: a coroutine delayed over two calls of `stop()` may read
the `serverSocket` of a later start and wait in its `accept()` after that start's own
reference was lost.  It needs two starts and a long delay, but nothing in the code
excludes it.  `PhoneReached` and `OpenedAppServed` leave out
connections lost without a reset and the exhaustion of sockets, to which
`mjpeg_bridge.cpp:247` contributes one each time a request cannot be sent; `OpenedAppServed`
also an application that comes after the last try, and a bridge to which WinSock or the
mapping was refused (`refused`), but no other way to give up.

## Proofs

`FrameBufferProofs` proves of `FrameBuffer!Spec`, for every set of streams, number of
chunks, frames and sessions:

| Theorem | Statement |
|---|---|
| `Invariant` | `[]Inv` |
| `TypeCorrect` | `[]TypeOK`: nobody reads or writes past the segment |
| `MutexFreed` | `[]MutexHeldOnlyInside` |
| `Written` | `[]SamplesAreWritten` |
| `Implements` | `FeedSpec`: `FrameBuffer` implements `FrameFeed` |
| `OneBehindAtMost` | `[]KeepsUp`: a picture that a stream sends again, because the index is the one it noted, has no pixel older than the frame before that index |
| `RequestBounded` | a `RequestSample` call has at most `LastChunk + 6` steps, and nobody adds to them |

Assumptions: there is at least one chunk of pixels, the bounds are natural numbers,
and "no reader" is not a reader.

The argument.  `SamplesAreWritten` is not inductive: that a picture has no unwritten
pixels depends on what the index in the header means.  `IndexInv` says it: an index
other than 0 exists only after a complete frame of this segment, because the bridge
writes index 0 first and index 1 only after the pixels of frame 0.  A reader that is
about to copy saw an index that differs from its last one, hence one of the two is
not 0, hence `complete > 0` (`ReaderInv`), and with `SegmentInv` every pixel lies
between the newest complete frame and the one being written.  `PictureInv` carries
that to the copy as far as it got, also when several frames are written meanwhile.  The
same invariant gives the refinement: `written`, `complete` and `since` are
`FrameFeed`'s `published`, `settled` and `floor`, and `Deliver` is `Show`.  The
proof has one lemma per part of the invariant, with one step per action.

`OneBehindAtMost` says what publishing the index before the pixels costs: when the index in
the header is `n + 1`, frame `n` is complete (`IndexBehind`), so a copy that begins after the
index was noted shows nothing older than the frame before (`CopyBehind`, `PictureKept`).  The
exception, a stream that noted an index while another one joined and had zeroed the length,
is in `Noted`.  `frame_last` is the run that shows one frame behind to be possible.

The other proof modules hold, for every value of the constants that the modules allow
(bounds are natural numbers; `NoClient` is not a client; at least one try, one socket and
one frame in a session; a JPEG is not empty; one `recv` fits the limit of the bridge's buffer;
pictures have even sides and at least one pixel):

| Module | Theorems |
|---|---|
| `MjpegServerProofs` | `TypeCorrect`, `HeaderComesFirst`: `[]HeaderFirst`, `SentOnce`: `[]NoFrameTwice`, `BroadcastAlone`: `[]OneBroadcast`, `InOrder`: `[]OneStartInOrder`, `TakesNewest`, `StopLeavesNone`: `[]NoneLeft`, `StillStays`, `StopWindsDown` |
| `MjpegParserProofs` | `ReadersInvariant`: `[]IInv`, `ReadersTypeOK`: `[]TypeOK`, `ReadersWholeInOrder`: `[]FramesWholeInOrder`, `BridgeDecodesArrived`: `[]ArrivedFramesDecoded`, `LibraryReturnsConsecutive`: `[]InStepFromFirstFrame`, `LibraryLosesNothing`: `[]NothingLost`, `LimitCostsNothing`, `BridgeParsesToAnEnd` |
| `HostSessionProofs` | `TypeCorrect`, `TakenDown`: `[]TakenDownInOrder`, `BridgeClean`: `[]BridgeEndsClean`, `OnlyHeapStops` |
| `PhoneAppProofs` | `TypeCorrect`, `ConvertedAlone`: `[]ConvertsAlone`, `CameraOfServer`: `[]OnHasCamera`, `StatsEnded`: `[]StatsEnd`, `NoPictureTaken`: `NoPictureWhileOff`, `CameraComes` |
| `MediaSourceProofs` | `TypeCorrect`, `UsedIsLoaded`: `[]InUseIsLoaded`, `StateAgreed`: `[]StateAgrees`, `HaltedIsQuiet`: `[]HaltedGivesNoSample` |
| `IpcChannelProofs` | `TypeCorrect`, `Implements`: `RegisterSpec`, `IpcChannel` implements `FrameRegister` without faults, `NothingNewIsWhole`: `[]LatestCopied` |
| `ColorConvertProofs` | `Fits`: `[]StudioSwing`, for all 2^24 colours and any even size; `Fills`: `[]FillsBuffer`, for any even size |

In each of them `IInv` is inductive and `Invariant` (`ReadersInvariant`) is `[]IInv`.  Why it takes
more than the property:

- `MjpegServer`.  That the header is first depends on what is in the map: only clients that
  were greeted (`GreetInv`), each by one coroutine, because `accept()` takes a connection off
  the queue once.  Losing an entry in a race only makes the map smaller.  That no frame comes
  twice depends on where a frame is: in `latestFrame`, with one sender, or sent to clients
  whose turn is over (`FrameInv`).  With the lock, `LockInv`, the senders of any number of
  starts take turns.  What `stop()` leaves depends on who can have which socket: a scope is
  cancelled before the next is made (`StopInv`), so a coroutine of an earlier start makes no
  `ServerSocket` any more, those it meets are newer than its own, and while it waits on its
  own this is the one that `serverSocket` names and `stop()` closes (`SocketInv`).
  The order of frames: a frame is the newest of all when it is taken (`TakesNewest`), so it can
  lose its place only while its sender waits for the lock; with one start there is one sender
  (`InOrder`), with two TLC finds a client that receives frame 2 before frame 1.
- `MjpegParser`.  The buffer is always a stretch of the stream that ends where it was read to
  (`Buffered`), so what a parser finds in it is what stands there in the stream.  The first
  half of the module says what that is: where the parts begin (`Laid`), that a boundary, the
  end of a header and a length stand nowhere else (`BoundaryAt`, `HeadersEndAt`, `LengthAt`),
  and hence which frame a buffer gives, depending only on where it begins.  The second half is
  about where it begins.  The bridge has decoded every frame behind it that no overflow hit
  (`BridgeKeepsUp`), and when it waits there is none in it (`BridgeWaits`).  The library's
  buffer begins at the end of the last frame's part, or two pieces before it when the line
  end had not come (`LibraryInStep`); at such a place it is too short for `Discard` or holds
  a whole boundary, so that once in step it stays so, with the response headers before the first
  frame or without.
  `LimitCostsNothing` says when the 4 MB limit of the bridge never costs a frame: if the data
  of the largest frame, 11 pieces and one chunk fit below it (`Roomy`).  The buffer then always
  begins at a part (`AtPart`), so what waits in it for more data is less than one part.
  The bound is exact: in the instance of `parsers` with a limit of 33 nothing is dropped,
  with 32 TLC finds a frame lost.
- `ColorConvert`.  After any pixel the offsets written are the first ones of each plane, as
  many as there are samples of the pixels behind it (`Offsets`), and what they hold are these
  samples (`Values`).  So the next pixel's targets are new ones, inside their plane, and
  nothing is overwritten.
- `HostSession`.  What each thread holds at each of its places (`MainInv`, `BridgeInv`), which
  sockets are open there (`SocketInv`), which locks can be held or deserted when (`LockInv`);
  that the bridge thread exists only between `Launch` and `Terminate` (`LaunchInv`) links the two.
- `PhoneApp`.  The sources of the living activity are shut, all but the current one
  (`SourceInv`), and if its listener was not called yet it is the last in the queue
  (`PendingInv`): the listeners before it bind sources that it replaces.
- `MediaSource`.  Who uses something of the DLL is counted beside the locks (`CountInv`).  A
  Start, Stop or Pause that is alone sets the state, then the stream, then tells
  (`AgreeInv`).  While a Stop or Pause that no Start overlaps is past its `SetActive`, and
  after it, the stream is inactive whatever other Stops and Pauses do (`EndedInv`), hence at
  each check of a `quiet` request.
- `IpcChannel`.  What an `idle` producer left in the segment is one whole frame even after
  faults (`SegmentInv`), so a consumer that comes then starts afresh.  From there on the
  mutex is held where it is needed (`MutexInv`), hence what the consumer has in `cur` is
  still there when it compares (`ReaderInv`).  The number it compares is that of the frame it
  has, so a frame that looks new is new; that a descriptor of zeros is never taken for a frame
  needs `Value = 0 => lastIndex = 0`.
  `NothingNewIsWhole` is about the data that the consumer's caller copies after the mutex was
  released: a write that changes it meanwhile ends with a number the consumer has not read
  (`ReadKnown`, `SessionOfRead`), so when there is nothing new the copy is whole (`CopyInv`).
  It needs only that no wait timed out (`TimelyMutex`); a producer that died in a call does no
  harm, nor one that came back, when what was read last is of its new session.

What the parsers compute needs induction over the frames of a stream.  The library's induction
theorems, which take an operator, cannot be used; `MjpegParserProofs` takes the least number
for which a claim fails instead (`LeastElement`, from the well-foundedness of finite sets under
inclusion), and gets from it that sums and concatenations are what their equations say
(`UpTo`, `Steps`).

### Under the liveness properties

A liveness property needs fairness, which the provers do not reach.  What it needs besides is
safety: that the steps to the end are finitely many and nobody adds to them, and that at the
end stands what was promised.  That part is proved, for every value of the constants:

| Property | Proved |
|---|---|
| `RequestReturns` | `RequestBounded` |
| `NewestButOneServed` | `OneBehindAtMost`: the picture a stream goes on with is recent enough |
| `StopEndsCoroutines`, `NoneLeftWaiting` | `StopWindsDown`: after `stop()` each step of a coroutine brings it nearer to its end and no other step takes it further away; `StillStays`; `StopLeavesNone` |
| `EnterStopsOutsideHeap` | `OnlyHeapStops`: the main thread only goes forward, and after ENTER it waits for nothing but a deserted heap, whichever calls need it, or for a deserted stdio in front of its last line, with camera and COM taken down |
| `LastFrameArrives` | `NothingNewIsWhole` |
| `StartedCameraBinds` | `CameraComes`: the listeners before the current source's become fewer, its own binds or fails, and what it bound stays |

Beyond the prover's reach, and therefore only model-checked: the properties of this table
themselves, `ClientServed`, `PhoneReached`, `OpenedAppServed` and `ReadReturns`, and ENABLED.
The four counterexamples are TLC's alone.

## Not modelled, and the plan

Done: every part with state of its own, and proofs about all of them: each invariant and each
action property that a run checks is proved, but for ENABLED in `NoneLeftWaiting`.
What the liveness properties rest on is proved as well, where a safety property can say it.

Left: `FrameBuffer` with a second writer (two hosts, or the debugging companion).  The segment
was not made for it, nothing says what it should promise then, and the proofs are about one
writer.

Not in the models of parts that are modelled: overlapping calls of the activator, the
registration of the DLL, getters and attributes of the media source; `switchCamera`, which
nothing calls; the copying of camera planes into NV21, whose layout the phone decides; the
figures on the screen and `frameCount`.

Left out for good: the decoders (libjpeg-turbo, WIC), the logger, the POSIX stub, the
iOS template, build files: they keep no state of their own.
