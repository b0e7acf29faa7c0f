----------------------------- MODULE HostSession -----------------------------
(****************************************************************************)
(* One run of GVCamHost.exe: its main thread (host.cpp), which registers    *)
(* the camera, waits for ENTER and takes everything down again, and the     *)
(* bridge thread (mjpeg_bridge.cpp) on its way to the frames: it waits for  *)
(* the segment, which exists once an application has opened the camera,     *)
(* then connects to the phone, for ever, then receives until the first      *)
(* connection is lost.  What it does with the frames is in BridgeParser and *)
(* FrameBuffer.                                                             *)
(****************************************************************************)
EXTENDS Integers

CONSTANTS
  MaxTries,   \* how often OpenSharedMemory looks for the segment (60)
  MaxSockets, \* bound: sockets the bridge has open
  HeapCalls,  \* the calls of the main thread after ENTER that need the heap
  Failures    \* whether calls of Windows may fail

(* The calls with which wmain takes down what it set up. *)
Calls == {"stop", "shutdown", "release", "mfshutdown", "uninit"}

ASSUME TriesAssumption == MaxTries \in Nat \ {0} /\ MaxSockets \in Nat \ {0}
ASSUME CallsAssumption == HeapCalls \subseteq Calls \union {"unregistering"}
ASSUME FailuresAssumption == Failures \in BOOLEAN

VARIABLES
  main,       \* where wmain is
  registered, \* GVCamSource.dll is registered
  com, mf,    \* the main thread's CoInitializeEx and MFStartup are in force
  camera,     \* the virtual camera: "none", "made", "started", "stopped", "shut"
  ref,        \* wmain has a reference to it
  failed,     \* wmain is on its way out because there is no camera to start
  bridge,     \* where the bridge thread is; "none" before it is created
  owned,      \* the locks it holds, of the heap and of stdio
  tries,      \* its tries to open the segment
  bridgeCom, wsa, mapped, \* what it holds: COM, WinSock, the segment
  sockets,    \* its open sockets
  link,       \* its connection: "none", "up", "reset" or "silent"
  deserted,   \* the locks of a thread that was terminated
  app,        \* an application has the camera open
  phone,      \* the phone's server is reachable
  unsent,     \* history: sockets given up because the request could not be sent
  refused     \* history: WinSock or the mapping was refused to the bridge

mainVars == <<main, registered, com, mf, camera, ref, failed>>
held == <<bridgeCom, wsa, mapped, sockets>>
history == <<unsent, refused>>
bridgeVars == <<bridge, owned, tries, held, link, history>>
vars == <<mainVars, bridgeVars, deserted, app, phone>>

Init ==
  /\ main = "registering" /\ registered \in BOOLEAN
  /\ com = FALSE /\ mf = FALSE /\ camera = "none" /\ ref = FALSE /\ failed = FALSE
  /\ bridge = "none" /\ owned = {} /\ tries = 0
  /\ bridgeCom = FALSE /\ wsa = FALSE /\ mapped = FALSE /\ sockets = 0
  /\ link = "none" /\ deserted = {}
  /\ app = FALSE /\ phone \in BOOLEAN
  /\ unsent = 0 /\ refused = FALSE

------------------------------------------------------------------------------
(* The main thread.  Until it has made the bridge it is alone. *)

(* SelfRegister, whose result nobody looks at. *)
Register ==
  /\ main = "registering"
  /\ registered' \in {TRUE} \union (IF Failures THEN {registered} ELSE {})
  /\ main' = "com"
  /\ UNCHANGED <<com, mf, camera, ref, failed, bridgeVars, deserted, app, phone>>

InitCom ==
  /\ main = "com"
  /\ com' = TRUE /\ main' = "mf"
  /\ UNCHANGED <<registered, mf, camera, ref, failed, bridgeVars, deserted, app,
                 phone>>

StartMF ==
  /\ main = "mf"
  /\ mf' = TRUE /\ main' = "making"
  /\ UNCHANGED <<registered, com, camera, ref, failed, bridgeVars, deserted, app,
                 phone>>

(* CoInitializeEx or MFStartup fails: wmain returns. *)
InitFails ==
  /\ Failures
  /\ main \in {"com", "mf"}
  /\ main' = "ended"
  /\ UNCHANGED <<registered, com, mf, camera, ref, failed, bridgeVars, deserted,
                 app, phone>>

MakeCamera ==
  /\ main = "making"
  /\ camera' = "made" /\ ref' = TRUE /\ main' = "starting"
  /\ UNCHANGED <<registered, com, mf, failed, bridgeVars, deserted, app, phone>>

StartCamera ==
  /\ main = "starting"
  /\ camera' = "started" /\ main' = "launching"
  /\ UNCHANGED <<registered, com, mf, ref, failed, bridgeVars, deserted, app,
                 phone>>

(* Virtual cameras are not supported, or it cannot be made or started.      *)
(* Only one that was made is shut down.                                     *)
CameraFails ==
  /\ Failures
  /\ main \in {"making", "starting"}
  /\ failed' = TRUE
  /\ main' = IF main = "making" THEN "mfshutdown" ELSE "shutdown"
  /\ UNCHANGED <<registered, com, mf, camera, ref, bridgeVars, deserted, app,
                 phone>>

(* StartMjpegBridge; a NULL handle is accepted. *)
Launch ==
  /\ main = "launching"
  /\ bridge' \in {"init"} \union (IF Failures THEN {"none"} ELSE {})
  /\ main' = "banner"
  /\ UNCHANGED <<registered, com, mf, camera, ref, failed, owned, tries, held, link,
                 history, deserted, app, phone>>

(* From here on it shares the heap and stdio with the bridge. *)
Free(lock) == lock \notin owned /\ lock \notin deserted

PrintBanner ==
  /\ main = "banner" /\ Free("stdio")
  /\ main' = "live"
  /\ UNCHANGED <<registered, com, mf, camera, ref, failed, bridgeVars, deserted,
                 app, phone>>

(* getchar() returns: ENTER was pressed. *)
Enter ==
  /\ main = "live"
  /\ main' = "goodbye"
  /\ UNCHANGED <<registered, com, mf, camera, ref, failed, bridgeVars, deserted,
                 app, phone>>

PrintGoodbye ==
  /\ main = "goodbye" /\ Free("stdio")
  /\ main' = "stopping"
  /\ UNCHANGED <<registered, com, mf, camera, ref, failed, bridgeVars, deserted,
                 app, phone>>

Running == bridge \notin {"none", "ended", "terminated"}

(* Mutant: the main thread waits for the bridge thread to end. *)
Terminate_Waits ==
  /\ main = "stopping"
  /\ ~Running
  /\ main' = "stop"
  /\ UNCHANGED <<registered, com, mf, camera, ref, failed, bridgeVars, deserted,
                 app, phone>>

(* TerminateThread stops the bridge wherever it is, with a lock held too;   *)
(* what it holds stays open until the process ends.                         *)
Terminate ==
  /\ main = "stopping"
  /\ bridge' = IF Running THEN "terminated" ELSE bridge
  /\ deserted' = owned
  /\ owned' = {}
  /\ main' = "stop"
  /\ UNCHANGED <<registered, com, mf, camera, ref, failed, tries, held, link,
                 history, app, phone>>

(* Mutant: CoUninitialize before MFShutdown. *)
Following_ComFirst(call) ==
  CASE call = "stop"       -> "shutdown"
    [] call = "shutdown"   -> IF failed THEN "uninit" ELSE "release"
    [] call = "release"    -> IF failed THEN "ended" ELSE "uninit"
    [] call = "uninit"     -> "mfshutdown"
    [] call = "mfshutdown" -> IF failed THEN "release" ELSE "unregistering"

(* The order of the calls.  Where wmain fails, the reference to the camera  *)
(* is given back when it returns, by the destructor of the ComPtr.          *)
Following(call) ==
  CASE call = "stop"       -> "shutdown"
    [] call = "shutdown"   -> IF failed THEN "mfshutdown" ELSE "release"
    [] call = "release"    -> IF failed THEN "ended" ELSE "mfshutdown"
    [] call = "mfshutdown" -> "uninit"
    [] call = "uninit"     -> IF failed THEN "release" ELSE "unregistering"

(* It makes this call, and is not kept waiting for the heap. *)
Call(call) ==
  /\ main = call
  /\ call \in HeapCalls => Free("heap")
  /\ main' = Following(call)

(* Stop of the camera; whether it succeeds is not looked at. *)
StopCamera ==
  /\ Call("stop")
  /\ camera' \in {"stopped"} \union (IF Failures THEN {camera} ELSE {})
  /\ UNCHANGED <<registered, com, mf, ref, failed, bridgeVars, deserted, app,
                 phone>>

ShutdownCamera ==
  /\ Call("shutdown")
  /\ camera' = "shut"
  /\ UNCHANGED <<registered, com, mf, ref, failed, bridgeVars, deserted, app,
                 phone>>

ReleaseCamera ==
  /\ Call("release")
  /\ ref' = FALSE
  /\ UNCHANGED <<registered, com, mf, camera, failed, bridgeVars, deserted, app,
                 phone>>

ShutdownMF ==
  /\ Call("mfshutdown")
  /\ mf' = FALSE
  /\ UNCHANGED <<registered, com, camera, ref, failed, bridgeVars, deserted, app,
                 phone>>

Uninit ==
  /\ Call("uninit")
  /\ com' = FALSE
  /\ UNCHANGED <<registered, mf, camera, ref, failed, bridgeVars, deserted, app,
                 phone>>

(* SelfUnregister; without the DLL or its function there is nothing to say. *)
Unregister ==
  /\ main = "unregistering"
  /\ "unregistering" \in HeapCalls => Free("heap")
  /\ \/ main' = "reporting" /\ registered' = FALSE
     \/ Failures /\ main' \in {"reporting", "ended"} /\ UNCHANGED registered
  /\ UNCHANGED <<com, mf, camera, ref, failed, bridgeVars, deserted, app, phone>>

(* "Unregistered" is printed, and wmain returns. *)
Report ==
  /\ main = "reporting" /\ Free("stdio")
  /\ main' = "ended"
  /\ UNCHANGED <<registered, com, mf, camera, ref, failed, bridgeVars, deserted,
                 app, phone>>

MainSteps ==
  \/ Register \/ InitCom \/ StartMF \/ InitFails
  \/ MakeCamera \/ StartCamera \/ CameraFails \/ Launch
  \/ PrintBanner \/ PrintGoodbye \/ Terminate
  \/ StopCamera \/ ShutdownCamera \/ ReleaseCamera \/ ShutdownMF \/ Uninit
  \/ Unregister \/ Report

------------------------------------------------------------------------------
(* The bridge thread *)

BridgeAt(here) == bridge = here /\ owned = {}

(* It allocates or frees memory; printf may do so too. *)
UseHeap ==
  /\ Running /\ "heap" \notin owned
  /\ owned' = owned \union {"heap"}
  /\ UNCHANGED <<mainVars, bridge, tries, held, link, history, deserted, app,
                 phone>>

(* It is in one of its printf, of which the way to an answer has none. *)
UseStdio ==
  /\ bridge \in {"init", "opening", "connecting", "receiving"} /\ owned = {}
  /\ owned' = {"stdio"}
  /\ UNCHANGED <<mainVars, bridge, tries, held, link, history, deserted, app,
                 phone>>

(* And is done with that. *)
Leave ==
  /\ owned # {}
  /\ owned' = {}
  /\ UNCHANGED <<mainVars, bridge, tries, held, link, history, deserted, app,
                 phone>>

(* CoInitializeEx and WSAStartup. *)
BridgeInit ==
  /\ BridgeAt("init")
  /\ bridgeCom' = TRUE /\ wsa' = TRUE
  /\ bridge' = "opening"
  /\ UNCHANGED <<mainVars, owned, tries, mapped, sockets, link, history, deserted,
                 app, phone>>

(* WSAStartup fails: CoUninitialize, and the thread ends. *)
BridgeInitFails ==
  /\ Failures /\ BridgeAt("init")
  /\ bridge' = "ended" /\ refused' = TRUE
  /\ UNCHANGED <<mainVars, owned, tries, held, link, unsent, deserted, app, phone>>

SegmentExists == app \/ mapped

(* OpenFileMapping finds the segment, and it is mapped. *)
SegmentOpens ==
  /\ BridgeAt("opening") /\ SegmentExists /\ tries < MaxTries
  /\ mapped' = TRUE /\ bridge' = "connecting"
  /\ UNCHANGED <<mainVars, owned, tries, bridgeCom, wsa, sockets, link, history,
                 deserted, app, phone>>

(* Mutant: one try too many. *)
SegmentMissing_OneMore ==
  /\ BridgeAt("opening") /\ ~SegmentExists /\ tries <= MaxTries
  /\ tries' = tries + 1
  /\ UNCHANGED <<mainVars, bridge, owned, held, link, history, deserted, app, phone>>

(* It is not there; one second later it is looked for again. *)
SegmentMissing ==
  /\ BridgeAt("opening") /\ ~SegmentExists /\ tries < MaxTries
  /\ tries' = tries + 1
  /\ UNCHANGED <<mainVars, bridge, owned, held, link, history, deserted, app, phone>>

(* Mutant: the last try is left out. *)
SegmentFails_Early ==
  /\ BridgeAt("opening")
  /\ tries >= MaxTries - 1 \/ (Failures /\ SegmentExists)
  /\ bridgeCom' = FALSE /\ wsa' = FALSE /\ bridge' = "ended"
  /\ refused' = (tries < MaxTries - 1)
  /\ UNCHANGED <<mainVars, owned, tries, mapped, sockets, link, unsent, deserted,
                 app, phone>>

(* It never came, or cannot be mapped: WSACleanup, CoUninitialize, the end. *)
SegmentFails ==
  /\ BridgeAt("opening")
  /\ tries = MaxTries \/ (Failures /\ SegmentExists)
  /\ bridgeCom' = FALSE /\ wsa' = FALSE /\ bridge' = "ended"
  /\ refused' = (tries < MaxTries)
  /\ UNCHANGED <<mainVars, owned, tries, mapped, sockets, link, unsent, deserted,
                 app, phone>>

(* ConnectToAndroid.  If it fails it closes its socket, and two seconds     *)
(* later the loop begins again.                                             *)
Connect ==
  /\ BridgeAt("connecting") /\ phone /\ sockets < MaxSockets
  /\ sockets' = sockets + 1 /\ link' = "up"
  /\ bridge' = "requesting"
  /\ UNCHANGED <<mainVars, owned, tries, bridgeCom, wsa, mapped, history, deserted,
                 app, phone>>

(* SendHttpRequest; if it fails the loop begins again, the socket open. *)
Request ==
  /\ BridgeAt("requesting")
  /\ IF link = "reset"
       THEN bridge' = "connecting" /\ link' = "none" /\ unsent' = unsent + 1
       ELSE bridge' = "answered" /\ UNCHANGED <<link, unsent>>
  /\ UNCHANGED <<mainVars, owned, tries, held, refused, deserted, app, phone>>

(* SkipResponseHeaders reads "200" and the boundary. *)
Answer ==
  /\ BridgeAt("answered") /\ link = "up"
  /\ bridge' = "receiving"
  /\ UNCHANGED <<mainVars, owned, tries, held, link, history, deserted, app, phone>>

(* Mutant: the thread gives up when the first answer does not come. *)
NoAnswer_Ends ==
  /\ BridgeAt("answered") /\ link = "reset"
  /\ sockets' = sockets - 1 /\ link' = "none"
  /\ bridgeCom' = FALSE /\ wsa' = FALSE /\ mapped' = FALSE
  /\ bridge' = "ended"
  /\ UNCHANGED <<mainVars, owned, tries, history, deserted, app, phone>>

(* Mutant: closesocket is forgotten. *)
NoAnswer_KeepsSocket ==
  /\ BridgeAt("answered") /\ link = "reset"
  /\ link' = "none"
  /\ bridge' = "connecting"
  /\ UNCHANGED <<mainVars, owned, tries, held, history, deserted, app, phone>>

(* recv() fails instead: the socket is closed and the loop begins again.    *)
(* A connection that is lost without a reset is waited for, for ever.       *)
NoAnswer ==
  /\ BridgeAt("answered") /\ link = "reset"
  /\ sockets' = sockets - 1 /\ link' = "none"
  /\ bridge' = "connecting"
  /\ UNCHANGED <<mainVars, owned, tries, bridgeCom, wsa, mapped, history, deserted,
                 app, phone>>

(* The parse loop is left: the phone closed or reset the connection.        *)
ReceiveEnds ==
  /\ BridgeAt("receiving") /\ link = "reset"
  /\ sockets' = sockets - 1 /\ link' = "none"
  /\ bridgeCom' = FALSE /\ wsa' = FALSE /\ mapped' = FALSE
  /\ bridge' = "ended"
  /\ UNCHANGED <<mainVars, owned, tries, history, deserted, app, phone>>

BridgeSteps ==
  \/ BridgeInit \/ BridgeInitFails
  \/ SegmentOpens \/ SegmentMissing \/ SegmentFails
  \/ Connect \/ Request \/ Answer \/ NoAnswer \/ ReceiveEnds

------------------------------------------------------------------------------
(* The surroundings *)

AppOpens ==
  /\ ~app /\ camera = "started" /\ registered
  /\ app' = TRUE
  /\ UNCHANGED <<mainVars, bridgeVars, deserted, phone>>

AppCloses ==
  /\ app
  /\ app' = FALSE
  /\ UNCHANGED <<mainVars, bridgeVars, deserted, phone>>

PhoneStarts ==
  /\ ~phone
  /\ phone' = TRUE
  /\ UNCHANGED <<mainVars, bridgeVars, deserted, app>>

(* The server stops, or the network is gone: a connection is reset, or it   *)
(* is never heard of again.                                                 *)
PhoneStops ==
  /\ phone
  /\ phone' = FALSE
  /\ link' \in IF link = "up" THEN {"reset", "silent"} ELSE {link}
  /\ UNCHANGED <<mainVars, bridge, owned, tries, held, history, deserted, app>>

Next ==
  \/ MainSteps \/ Enter \/ BridgeSteps \/ UseHeap \/ UseStdio \/ Leave
  \/ AppOpens \/ AppCloses \/ PhoneStarts \/ PhoneStops

Spec == Init /\ [][Next]_vars

(* Threads run.  The bridge does not stay in the heap or in printf, each    *)
(* time goes on to its next statement, and prints at most every two         *)
(* seconds, so the main thread gets a lock it waits for although locks are  *)
(* not handed over in the order of asking (hence SF).                       *)
FairSpec ==
  Spec /\ SF_vars(MainSteps) /\ WF_vars(Leave) /\ SF_vars(BridgeSteps)

------------------------------------------------------------------------------
(* Properties *)

TypeOK ==
  /\ main \in {"registering", "com", "mf", "making", "starting", "launching",
               "banner", "live", "goodbye", "stopping", "unregistering",
               "reporting", "ended"} \union Calls
  /\ {registered, com, mf, ref, failed, bridgeCom, wsa, mapped, app, phone, refused}
       \subseteq BOOLEAN
  /\ camera \in {"none", "made", "started", "stopped", "shut"}
  /\ bridge \in {"none", "init", "opening", "connecting", "requesting",
                 "answered", "receiving", "ended", "terminated"}
  /\ owned \subseteq {"heap", "stdio"} /\ deserted \subseteq {"heap", "stdio"}
  /\ tries \in 0 .. MaxTries
  /\ sockets \in 0 .. MaxSockets /\ unsent \in 0 .. MaxSockets
  /\ link \in {"none", "up", "reset", "silent"}

(* Whichever call fails, wmain takes down what it had set up, and in order: *)
(* the bridge before the camera, the camera before Media Foundation, that   *)
(* before COM.  At the end neither camera nor Media Foundation is left, and *)
(* COM only if Media Foundation did not start.  The reference to the camera *)
(* outlives COM only on the way out of a failure.                           *)
TakenDownInOrder ==
  /\ mf => com
  /\ camera \in {"made", "started", "stopped"} => mf
  /\ camera \in {"stopped", "shut"} => ~Running
  /\ ref => com \/ failed
  /\ main = "ended" =>
       /\ camera \in {"none", "shut"} /\ ~ref /\ ~mf
       /\ com => camera = "none" /\ ~failed

(* A bridge thread that ends by itself, on whichever path, gives back COM,  *)
(* WinSock and the segment.  Until it is terminated it has no socket open   *)
(* but that of its connection and those on which the request could not be   *)
(* sent, and while it has a connection it has the rest too.                 *)
HoldsSocket == bridge \in {"requesting", "answered", "receiving"}
BridgeEndsClean ==
  /\ bridge = "ended" => ~bridgeCom /\ ~wsa /\ ~mapped /\ link = "none"
  /\ bridge # "terminated" => sockets = unsent + (IF HoldsSocket THEN 1 ELSE 0)
  /\ HoldsSocket => bridgeCom /\ wsa /\ mapped

(* Once it has the segment, the bridge reaches a phone that stays           *)
(* reachable, however often it was refused before, unless its connection    *)
(* was lost without a word or its sockets ran out.                          *)
PhoneReached ==
  <>[]phone =>
    (bridge = "connecting" ~>
       \/ bridge = "receiving" \/ main # "live"
       \/ link = "silent" \/ sockets = MaxSockets)

(* ENTER ends the process, whatever the bridge thread is doing and even if  *)
(* it waits for ever, unless it is terminated with the heap's lock.  If it  *)
(* is terminated with that of stdio alone, the process stays in front of    *)
(* its last line, with the camera and COM taken down.                       *)
EnterStopsOutsideHeap ==
  main = "goodbye" ~>
    \/ main = "ended"
    \/ "heap" \in deserted
    \/ "stdio" \in deserted /\ main = "reporting" /\ camera = "shut" /\ ~com

(* An application that has the camera open, while the phone is reachable,   *)
(* gets the phone's frames, whatever failed before, if the bridge still     *)
(* runs and has not looked for the segment for the last time: it gives up   *)
(* only when WinSock or the mapping is refused to it.                       *)
InTime == Running /\ (bridge = "opening" => tries < MaxTries)
OpenedAppServed ==
  main = "live" /\ app /\ phone /\ InTime ~>
    \/ bridge = "receiving" \/ refused
    \/ main # "live" \/ ~app \/ ~phone
    \/ link = "silent" \/ sockets = MaxSockets
==============================================================================
