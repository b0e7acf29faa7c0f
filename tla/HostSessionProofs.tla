-------------------------- MODULE HostSessionProofs --------------------------
(****************************************************************************)
(* Proofs about HostSession for any number of tries and sockets, whichever  *)
(* calls need the heap, whether calls of Windows may fail or not: what      *)
(* wmain set up is taken down in order, a bridge thread that ends leaves    *)
(* only the sockets open whose request could not be sent, and after ENTER   *)
(* the main thread waits for nothing but a lock.  MainInv and BridgeInv say *)
(* what each thread holds at each of its places.                            *)
(****************************************************************************)
EXTENDS HostSession, TLAPS

USE TriesAssumption, CallsAssumption, FailuresAssumption

(* What the main thread has, by its place. *)
MainInv ==
  /\ main \in {"registering", "com"} => ~com
  /\ main \in {"registering", "com", "mf"} => ~mf
  /\ main \in {"registering", "com", "mf", "making"} => camera = "none" /\ ~ref
  /\ main = "mf" => com
  /\ main \in {"making", "starting", "launching", "banner", "live", "goodbye",
               "stopping", "stop", "shutdown", "mfshutdown"} => com /\ mf
  /\ main = "starting" => camera = "made"
  /\ main \in {"launching", "banner", "live", "goodbye", "stopping", "stop"} =>
       camera = "started"
  /\ main = "release" =>
       IF failed THEN ~com /\ ~mf /\ camera \in {"none", "shut"}
                 ELSE com /\ mf /\ camera = "shut"
  /\ main \in {"mfshutdown", "uninit"} =>
       IF failed THEN camera \in {"none", "shut"} ELSE camera = "shut" /\ ~ref
  /\ main = "uninit" => com /\ ~mf
  /\ main \in {"unregistering", "reporting"} => ~com /\ ~mf /\ camera = "shut" /\ ~ref
  /\ main = "ended" => /\ ~mf /\ ~ref /\ camera \in {"none", "shut"}
                       /\ com => camera = "none" /\ ~failed
  /\ failed => main \in {"shutdown", "mfshutdown", "uninit", "release", "ended"}

(* The places before there is a bridge, and those after it was terminated. *)
Before == {"registering", "com", "mf", "making", "starting", "launching"}
After == Calls \union {"unregistering", "reporting", "ended"}

(* The bridge thread runs between Launch and Terminate only. *)
LaunchInv ==
  /\ main \in Before \/ failed => bridge = "none"
  /\ main \in After => ~Running

(* Only a running bridge owns locks, and only a terminated one leaves them. *)
LockInv ==
  /\ owned # {} => Running
  /\ deserted # {} => main \in After

(* COM, WinSock, segment and connection, by the place of the bridge thread. *)
BridgeInv ==
  /\ bridge \in {"none", "init", "ended"} => ~bridgeCom /\ ~wsa /\ ~mapped
  /\ bridge = "opening" => bridgeCom /\ wsa /\ ~mapped
  /\ bridge = "connecting" \/ HoldsSocket => bridgeCom /\ wsa /\ mapped
  /\ bridge \in {"none", "init", "ended", "opening", "connecting"} => link = "none"

SocketInv ==
  bridge # "terminated" => sockets = unsent + (IF HoldsSocket THEN 1 ELSE 0)

IInv == TypeOK /\ MainInv /\ LaunchInv /\ LockInv /\ BridgeInv /\ SocketInv

LEMMA InitInv == Init => IInv
<1> SUFFICES ASSUME Init PROVE IInv
  OBVIOUS
<1> USE DEF Init
<1>1. {registered, com, mf, ref, failed, bridgeCom, wsa, mapped, app, phone, refused}
        \subseteq BOOLEAN
  BY Zenon
<1>2. TypeOK
  BY <1>1 DEF TypeOK
<1>3. MainInv
  BY Zenon DEF MainInv
<1>4. LaunchInv /\ LockInv
  BY DEF LaunchInv, LockInv, Running, After, Calls
<1>5. BridgeInv
  BY Zenon DEF BridgeInv, HoldsSocket
<1>6. SocketInv
  BY DEF SocketInv, HoldsSocket
<1>7. QED
  BY <1>2, <1>3, <1>4, <1>5, <1>6 DEF IInv

(* Where each call leads. *)
LEMMA FollowingPlace ==
  /\ Following("stop") = "shutdown"
  /\ Following("shutdown") = IF failed THEN "mfshutdown" ELSE "release"
  /\ Following("release") = IF failed THEN "ended" ELSE "mfshutdown"
  /\ Following("mfshutdown") = "uninit"
  /\ Following("uninit") = IF failed THEN "release" ELSE "unregistering"
  BY DEF Following

LEMMA MainStep ==
  ASSUME MainInv, Next
  PROVE  MainInv'
<1> USE DEF MainInv
<1>1. CASE UNCHANGED <<main, com, mf, camera, ref, failed>>
  BY <1>1
<1>2. CASE Register
  BY <1>2 DEF Register
<1>3. CASE InitCom
  BY <1>3 DEF InitCom
<1>4. CASE StartMF
  BY <1>4 DEF StartMF
<1>5. CASE InitFails
  BY <1>5 DEF InitFails
<1>6. CASE MakeCamera
  BY <1>6 DEF MakeCamera
<1>7. CASE StartCamera
  BY <1>7 DEF StartCamera
<1>8. CASE CameraFails
  BY <1>8 DEF CameraFails
<1>9. CASE Launch
  BY <1>9 DEF Launch
<1>10. CASE PrintBanner
  BY <1>10 DEF PrintBanner
<1>11. CASE Enter
  BY <1>11 DEF Enter
<1>12. CASE PrintGoodbye
  BY <1>12 DEF PrintGoodbye
<1>13. CASE Terminate
  BY <1>13 DEF Terminate
<1>14. CASE StopCamera
  BY <1>14, FollowingPlace DEF StopCamera, Call
<1>15. CASE ShutdownCamera
  BY <1>15, FollowingPlace DEF ShutdownCamera, Call
<1>16. CASE ReleaseCamera
  BY <1>16, FollowingPlace DEF ReleaseCamera, Call
<1>17. CASE ShutdownMF
  BY <1>17, FollowingPlace DEF ShutdownMF, Call
<1>18. CASE Uninit
  BY <1>18, FollowingPlace DEF Uninit, Call
<1>19. CASE Unregister
  BY <1>19 DEF Unregister
<1>20. CASE Report
  BY <1>20 DEF Report
<1>21. QED
  BY <1>1, <1>2, <1>3, <1>4, <1>5, <1>6, <1>7, <1>8, <1>9, <1>10, <1>11, <1>12,
     <1>13, <1>14, <1>15, <1>16, <1>17, <1>18, <1>19, <1>20
  DEF Next, MainSteps, BridgeSteps, mainVars, UseHeap, UseStdio, Leave, BridgeInit,
      BridgeInitFails, SegmentOpens, SegmentMissing, SegmentFails, Connect,
      Request, Answer, NoAnswer, ReceiveEnds, AppOpens, AppCloses, PhoneStarts,
      PhoneStops

LEMMA LaunchStep ==
  ASSUME MainInv, LaunchInv, Next
  PROVE  LaunchInv'
<1> USE DEF LaunchInv, BridgeAt, Running, mainVars, bridgeVars, Before, After, Calls
<1>1. CASE Register
  BY <1>1 DEF Register
<1>2. CASE InitCom
  BY <1>2 DEF InitCom
<1>3. CASE StartMF
  BY <1>3 DEF StartMF
<1>4. CASE InitFails
  BY <1>4 DEF InitFails
<1>5. CASE MakeCamera
  BY <1>5 DEF MakeCamera
<1>6. CASE StartCamera
  BY <1>6 DEF StartCamera
<1>7. CASE CameraFails
  BY <1>7 DEF CameraFails, MainInv
<1>8. CASE Launch
  BY <1>8 DEF Launch, MainInv
<1>9. CASE PrintBanner
  BY <1>9 DEF PrintBanner
<1>10. CASE Enter
  BY <1>10 DEF Enter
<1>11. CASE PrintGoodbye
  BY <1>11 DEF PrintGoodbye
<1>12. CASE Terminate
  BY <1>12 DEF Terminate
<1>13. CASE StopCamera
  BY <1>13, FollowingPlace DEF StopCamera, Call
<1>14. CASE ShutdownCamera
  BY <1>14, FollowingPlace DEF ShutdownCamera, Call
<1>15. CASE ReleaseCamera
  BY <1>15, FollowingPlace DEF ReleaseCamera, Call
<1>16. CASE ShutdownMF
  BY <1>16, FollowingPlace DEF ShutdownMF, Call
<1>17. CASE Uninit
  BY <1>17, FollowingPlace DEF Uninit, Call
<1>18. CASE Unregister
  BY <1>18 DEF Unregister
<1>19. CASE Report
  BY <1>19 DEF Report
<1>20. CASE UseHeap
  BY <1>20 DEF UseHeap
<1>21. CASE UseStdio
  BY <1>21 DEF UseStdio
<1>22. CASE Leave
  BY <1>22 DEF Leave
<1>23. CASE BridgeInit
  BY <1>23 DEF BridgeInit
<1>24. CASE BridgeInitFails
  BY <1>24 DEF BridgeInitFails
<1>25. CASE SegmentOpens
  BY <1>25 DEF SegmentOpens
<1>26. CASE SegmentMissing
  BY <1>26 DEF SegmentMissing
<1>27. CASE SegmentFails
  BY <1>27 DEF SegmentFails
<1>28. CASE Connect
  BY <1>28 DEF Connect
<1>29. CASE Request
  BY <1>29 DEF Request
<1>30. CASE Answer
  BY <1>30 DEF Answer
<1>31. CASE NoAnswer
  BY <1>31 DEF NoAnswer
<1>32. CASE ReceiveEnds
  BY <1>32 DEF ReceiveEnds
<1>33. CASE AppOpens \/ AppCloses \/ PhoneStarts \/ PhoneStops
  BY <1>33 DEF AppOpens, AppCloses, PhoneStarts, PhoneStops
<1>34. QED
  BY <1>1, <1>2, <1>3, <1>4, <1>5, <1>6, <1>7, <1>8, <1>9, <1>10, <1>11, <1>12,
     <1>13, <1>14, <1>15, <1>16, <1>17, <1>18, <1>19, <1>20, <1>21, <1>22,
     <1>23, <1>24, <1>25, <1>26, <1>27, <1>28, <1>29, <1>30, <1>31, <1>32, <1>33
  DEF Next, MainSteps, BridgeSteps

LEMMA LockStep ==
  ASSUME LaunchInv, LockInv, Next
  PROVE  LockInv'
<1> USE DEF LaunchInv, LockInv, BridgeAt, Running, mainVars, bridgeVars, Before, After, Calls
<1>1. CASE Register
  BY <1>1 DEF Register
<1>2. CASE InitCom
  BY <1>2 DEF InitCom
<1>3. CASE StartMF
  BY <1>3 DEF StartMF
<1>4. CASE InitFails
  BY <1>4 DEF InitFails
<1>5. CASE MakeCamera
  BY <1>5 DEF MakeCamera
<1>6. CASE StartCamera
  BY <1>6 DEF StartCamera
<1>7. CASE CameraFails
  BY <1>7 DEF CameraFails
<1>8. CASE Launch
  BY <1>8 DEF Launch
<1>9. CASE PrintBanner
  BY <1>9 DEF PrintBanner
<1>10. CASE Enter
  BY <1>10 DEF Enter
<1>11. CASE PrintGoodbye
  BY <1>11 DEF PrintGoodbye
<1>12. CASE Terminate
  BY <1>12 DEF Terminate
<1>13. CASE StopCamera
  BY <1>13, FollowingPlace DEF StopCamera, Call
<1>14. CASE ShutdownCamera
  BY <1>14, FollowingPlace DEF ShutdownCamera, Call
<1>15. CASE ReleaseCamera
  BY <1>15, FollowingPlace DEF ReleaseCamera, Call
<1>16. CASE ShutdownMF
  BY <1>16, FollowingPlace DEF ShutdownMF, Call
<1>17. CASE Uninit
  BY <1>17, FollowingPlace DEF Uninit, Call
<1>18. CASE Unregister
  BY <1>18 DEF Unregister
<1>19. CASE Report
  BY <1>19 DEF Report
<1>20. CASE UseHeap
  BY <1>20 DEF UseHeap
<1>21. CASE UseStdio
  BY <1>21 DEF UseStdio
<1>22. CASE Leave
  BY <1>22 DEF Leave
<1>23. CASE BridgeInit
  BY <1>23 DEF BridgeInit
<1>24. CASE BridgeInitFails
  BY <1>24 DEF BridgeInitFails
<1>25. CASE SegmentOpens
  BY <1>25 DEF SegmentOpens
<1>26. CASE SegmentMissing
  BY <1>26 DEF SegmentMissing
<1>27. CASE SegmentFails
  BY <1>27 DEF SegmentFails
<1>28. CASE Connect
  BY <1>28 DEF Connect
<1>29. CASE Request
  BY <1>29 DEF Request
<1>30. CASE Answer
  BY <1>30 DEF Answer
<1>31. CASE NoAnswer
  BY <1>31 DEF NoAnswer
<1>32. CASE ReceiveEnds
  BY <1>32 DEF ReceiveEnds
<1>33. CASE AppOpens \/ AppCloses \/ PhoneStarts \/ PhoneStops
  BY <1>33 DEF AppOpens, AppCloses, PhoneStarts, PhoneStops
<1>34. QED
  BY <1>1, <1>2, <1>3, <1>4, <1>5, <1>6, <1>7, <1>8, <1>9, <1>10, <1>11, <1>12,
     <1>13, <1>14, <1>15, <1>16, <1>17, <1>18, <1>19, <1>20, <1>21, <1>22,
     <1>23, <1>24, <1>25, <1>26, <1>27, <1>28, <1>29, <1>30, <1>31, <1>32, <1>33
  DEF Next, MainSteps, BridgeSteps

LEMMA BridgeStep ==
  ASSUME LaunchInv, BridgeInv, Next
  PROVE  BridgeInv'
<1> USE DEF BridgeInv, HoldsSocket, BridgeAt, held, history, bridgeVars
<1>1. CASE UNCHANGED <<bridge, bridgeCom, wsa, mapped, link>>
  BY <1>1, Zenon
<1>2. CASE Launch
  BY <1>2, Zenon DEF Launch, LaunchInv, Before
<1>3. CASE Terminate
  BY <1>3, Zenon DEF Terminate
<1>4. CASE BridgeInit
  BY <1>4, Zenon DEF BridgeInit
<1>5. CASE BridgeInitFails
  BY <1>5, Zenon DEF BridgeInitFails
<1>6. CASE SegmentOpens
  BY <1>6, Zenon DEF SegmentOpens
<1>7. CASE SegmentFails
  BY <1>7, Zenon DEF SegmentFails
<1>8. CASE Connect
  BY <1>8, Zenon DEF Connect
<1>9. CASE Request
  BY <1>9, Zenon DEF Request
<1>10. CASE Answer
  BY <1>10, Zenon DEF Answer
<1>11. CASE NoAnswer
  BY <1>11, Zenon DEF NoAnswer
<1>12. CASE ReceiveEnds
  BY <1>12, Zenon DEF ReceiveEnds
<1>13. CASE PhoneStops
  BY <1>13, Zenon DEF PhoneStops
<1>14. QED
  BY <1>1, <1>2, <1>3, <1>4, <1>5, <1>6, <1>7, <1>8, <1>9, <1>10, <1>11, <1>12,
     <1>13
  DEF Next, MainSteps, BridgeSteps, Register, InitCom, StartMF, InitFails,
      MakeCamera, StartCamera, CameraFails, PrintBanner, Enter, PrintGoodbye,
      StopCamera, ShutdownCamera, ReleaseCamera, ShutdownMF, Uninit, Unregister,
      Report, UseHeap, UseStdio, Leave, SegmentMissing, AppOpens, AppCloses,
      PhoneStarts

(* Each BOOLEAN is left alone or set. *)
LEMMA BooleanStep ==
  ASSUME TypeOK, Next
  PROVE  {registered, com, mf, ref, failed, bridgeCom, wsa, mapped, app, phone, refused}'
           \subseteq BOOLEAN
<1> DEFINE Flags == {registered, com, mf, ref, failed, bridgeCom, wsa, mapped, app,
                     phone, refused}
<1> SUFFICES Flags' \subseteq BOOLEAN
  OBVIOUS
<1>0. Flags \subseteq BOOLEAN
  BY DEF TypeOK
<1> USE DEF BridgeAt, Running, Call, mainVars, bridgeVars, held, history
<1>1. CASE Register
  BY <1>0, <1>1, Zenon DEF Register
<1>2. CASE InitCom
  BY <1>0, <1>2, Zenon DEF InitCom
<1>3. CASE StartMF
  BY <1>0, <1>3, Zenon DEF StartMF
<1>4. CASE InitFails
  BY <1>0, <1>4, Zenon DEF InitFails
<1>5. CASE MakeCamera
  BY <1>0, <1>5, Zenon DEF MakeCamera
<1>6. CASE StartCamera
  BY <1>0, <1>6, Zenon DEF StartCamera
<1>7. CASE CameraFails
  BY <1>0, <1>7, Zenon DEF CameraFails
<1>8. CASE Launch
  BY <1>0, <1>8, Zenon DEF Launch
<1>9. CASE PrintBanner
  BY <1>0, <1>9, Zenon DEF PrintBanner
<1>10. CASE Enter
  BY <1>0, <1>10, Zenon DEF Enter
<1>11. CASE PrintGoodbye
  BY <1>0, <1>11, Zenon DEF PrintGoodbye
<1>12. CASE Terminate
  BY <1>0, <1>12, Zenon DEF Terminate
<1>13. CASE StopCamera
  BY <1>0, <1>13, Zenon DEF StopCamera
<1>14. CASE ShutdownCamera
  BY <1>0, <1>14, Zenon DEF ShutdownCamera
<1>15. CASE ReleaseCamera
  BY <1>0, <1>15, Zenon DEF ReleaseCamera
<1>16. CASE ShutdownMF
  BY <1>0, <1>16, Zenon DEF ShutdownMF
<1>17. CASE Uninit
  BY <1>0, <1>17, Zenon DEF Uninit
<1>18. CASE Unregister
  BY <1>0, <1>18, Zenon DEF Unregister
<1>19. CASE Report
  BY <1>0, <1>19, Zenon DEF Report
<1>20. CASE UseHeap
  BY <1>0, <1>20, Zenon DEF UseHeap
<1>21. CASE UseStdio
  BY <1>0, <1>21, Zenon DEF UseStdio
<1>22. CASE Leave
  BY <1>0, <1>22, Zenon DEF Leave
<1>23. CASE BridgeInit
  BY <1>0, <1>23, Zenon DEF BridgeInit
<1>24. CASE BridgeInitFails
  BY <1>0, <1>24, Zenon DEF BridgeInitFails
<1>25. CASE SegmentOpens
  BY <1>0, <1>25, Zenon DEF SegmentOpens
<1>26. CASE SegmentMissing
  BY <1>0, <1>26, Zenon DEF SegmentMissing
<1>27. CASE SegmentFails
  <2>1. (tries < MaxTries) \in BOOLEAN
    BY SMT DEF TypeOK
  <2>2. QED
    BY <1>0, <1>27, <2>1, Zenon DEF SegmentFails
<1>28. CASE Connect
  BY <1>0, <1>28, Zenon DEF Connect
<1>29. CASE Request
  BY <1>0, <1>29, Zenon DEF Request
<1>30. CASE Answer
  BY <1>0, <1>30, Zenon DEF Answer
<1>31. CASE NoAnswer
  BY <1>0, <1>31, Zenon DEF NoAnswer
<1>32. CASE ReceiveEnds
  BY <1>0, <1>32, Zenon DEF ReceiveEnds
<1>33. CASE AppOpens
  BY <1>0, <1>33, Zenon DEF AppOpens
<1>34. CASE AppCloses
  BY <1>0, <1>34, Zenon DEF AppCloses
<1>35. CASE PhoneStarts
  BY <1>0, <1>35, Zenon DEF PhoneStarts
<1>36. CASE PhoneStops
  BY <1>0, <1>36, Zenon DEF PhoneStops
<1>37. QED
  BY <1>1, <1>2, <1>3, <1>4, <1>5, <1>6, <1>7, <1>8, <1>9, <1>10, <1>11, <1>12,
     <1>13, <1>14, <1>15, <1>16, <1>17, <1>18, <1>19, <1>20, <1>21, <1>22,
     <1>23, <1>24, <1>25, <1>26, <1>27, <1>28, <1>29, <1>30, <1>31, <1>32,
     <1>33, <1>34, <1>35, <1>36
  DEF Next, MainSteps, BridgeSteps

LEMMA TypeStep ==
  ASSUME TypeOK, LaunchInv, SocketInv, Next
  PROVE  TypeOK' /\ SocketInv'
<1>0. {registered, com, mf, ref, failed, bridgeCom, wsa, mapped, app, phone, refused}'
        \subseteq BOOLEAN
  BY BooleanStep
<1> USE DEF TypeOK, SocketInv, HoldsSocket, BridgeAt, Running, Calls, mainVars,
            bridgeVars, held, history
<1>1. CASE Register
  BY <1>0, <1>1 DEF Register
<1>2. CASE InitCom
  BY <1>0, <1>2 DEF InitCom
<1>3. CASE StartMF
  BY <1>0, <1>3 DEF StartMF
<1>4. CASE InitFails
  BY <1>0, <1>4 DEF InitFails
<1>5. CASE MakeCamera
  BY <1>0, <1>5 DEF MakeCamera
<1>6. CASE StartCamera
  BY <1>0, <1>6 DEF StartCamera
<1>7. CASE CameraFails
  BY <1>0, <1>7 DEF CameraFails
<1>8. CASE Launch
  BY <1>0, <1>8 DEF Launch, LaunchInv, Before
<1>9. CASE PrintBanner
  BY <1>0, <1>9 DEF PrintBanner
<1>10. CASE Enter
  BY <1>0, <1>10 DEF Enter
<1>11. CASE PrintGoodbye
  BY <1>0, <1>11 DEF PrintGoodbye
<1>12. CASE Terminate
  BY <1>0, <1>12 DEF Terminate
<1>13. CASE StopCamera
  BY <1>0, <1>13, FollowingPlace DEF StopCamera, Call
<1>14. CASE ShutdownCamera
  BY <1>0, <1>14, FollowingPlace DEF ShutdownCamera, Call
<1>15. CASE ReleaseCamera
  BY <1>0, <1>15, FollowingPlace DEF ReleaseCamera, Call
<1>16. CASE ShutdownMF
  BY <1>0, <1>16, FollowingPlace DEF ShutdownMF, Call
<1>17. CASE Uninit
  BY <1>0, <1>17, FollowingPlace DEF Uninit, Call
<1>18. CASE Unregister
  BY <1>0, <1>18 DEF Unregister
<1>19. CASE Report
  BY <1>0, <1>19 DEF Report
<1>20. CASE UseHeap
  BY <1>0, <1>20 DEF UseHeap
<1>21. CASE UseStdio
  BY <1>0, <1>21 DEF UseStdio
<1>22. CASE Leave
  BY <1>0, <1>22 DEF Leave
<1>23. CASE BridgeInit
  BY <1>0, <1>23 DEF BridgeInit
<1>24. CASE BridgeInitFails
  BY <1>0, <1>24 DEF BridgeInitFails
<1>25. CASE SegmentOpens
  BY <1>0, <1>25 DEF SegmentOpens
<1>26. CASE SegmentMissing
  BY <1>0, <1>26 DEF SegmentMissing
<1>27. CASE SegmentFails
  BY <1>0, <1>27 DEF SegmentFails
<1>28. CASE Connect
  BY <1>0, <1>28 DEF Connect
<1>29. CASE Request
  BY <1>0, <1>29 DEF Request
<1>30. CASE Answer
  BY <1>0, <1>30 DEF Answer
<1>31. CASE NoAnswer
  BY <1>0, <1>31 DEF NoAnswer
<1>32. CASE ReceiveEnds
  BY <1>0, <1>32 DEF ReceiveEnds
<1>33. CASE AppOpens
  BY <1>0, <1>33 DEF AppOpens
<1>34. CASE AppCloses
  BY <1>0, <1>34 DEF AppCloses
<1>35. CASE PhoneStarts
  BY <1>0, <1>35 DEF PhoneStarts
<1>36. CASE PhoneStops
  BY <1>0, <1>36 DEF PhoneStops
<1>37. QED
  BY <1>1, <1>2, <1>3, <1>4, <1>5, <1>6, <1>7, <1>8, <1>9, <1>10, <1>11, <1>12,
     <1>13, <1>14, <1>15, <1>16, <1>17, <1>18, <1>19, <1>20, <1>21, <1>22,
     <1>23, <1>24, <1>25, <1>26, <1>27, <1>28, <1>29, <1>30, <1>31, <1>32,
     <1>33, <1>34, <1>35, <1>36
  DEF Next, MainSteps, BridgeSteps

LEMMA NextInv ==
  ASSUME IInv, [Next]_vars
  PROVE  IInv'
<1>1. CASE Next
  BY <1>1, TypeStep, MainStep, LaunchStep, LockStep, BridgeStep DEF IInv
<1>2. CASE UNCHANGED vars
  <2> USE <1>2 DEF vars, mainVars, bridgeVars, held, history
  <2>1. TypeOK'
    BY DEF IInv, TypeOK
  <2>2. MainInv' /\ LaunchInv' /\ LockInv'
    BY Zenon DEF IInv, MainInv, LaunchInv, LockInv, Running
  <2>3. BridgeInv' /\ SocketInv'
    BY Zenon DEF IInv, BridgeInv, SocketInv, HoldsSocket
  <2>4. QED
    BY <2>1, <2>2, <2>3 DEF IInv
<1>3. QED
  BY <1>1, <1>2

(* What each thread holds at each of its places. *)
THEOREM Invariant == Spec => []IInv
  BY InitInv, NextInv, PTL DEF Spec

(* Every variable has its type; the bridge never closes a socket it does    *)
(* not have.                                                                *)
THEOREM TypeCorrect == Spec => []TypeOK
<1>1. IInv => TypeOK
  BY DEF IInv
<1>2. QED
  BY <1>1, Invariant, PTL

(* On every path of wmain, each call of which is a step of its own, what    *)
(* was set up last goes first, the bridge before the camera; at the end     *)
(* neither the camera nor Media Foundation is left.                         *)
THEOREM TakenDown == Spec => []TakenDownInOrder
<1>1. ASSUME IInv PROVE TakenDownInOrder
  <2>1. main \in Before \union {"banner", "live", "goodbye", "stopping"} \union After
    BY <1>1 DEF IInv, TypeOK, Before, After
  <2>2. camera \in {"stopped", "shut"} => main \in After
    BY <1>1, <2>1 DEF IInv, MainInv, Before
  <2>3. (mf => com) /\ (camera \in {"made", "started", "stopped"} => mf)
    BY <1>1, <2>1 DEF IInv, MainInv, Before, After, Calls
  <2>4. ref => com \/ failed
    BY <1>1, <2>1 DEF IInv, MainInv, Before, After, Calls
  <2>5. QED
    BY <1>1, <2>2, <2>3, <2>4 DEF IInv, MainInv, LaunchInv, TakenDownInOrder
<1>2. QED
  BY <1>1, Invariant, PTL

(* On every path on which the bridge thread ends by itself it has given     *)
(* back COM, WinSock, the segment and every socket but those on which the   *)
(* request could not be sent.                                               *)
THEOREM BridgeClean == Spec => []BridgeEndsClean
<1>1. IInv => BridgeEndsClean
  BY Zenon DEF IInv, BridgeInv, SocketInv, BridgeEndsClean
<1>2. QED
  BY <1>1, Invariant, PTL

------------------------------------------------------------------------------
(* ENTER ends the process: the safety part of EnterStopsOutsideHeap.  After *)
(* TerminateThread no thread holds a lock the main thread needs but one     *)
(* that was terminated with it.                                             *)

(* The statements the main thread has left at most. *)
StepsLeft ==
  CASE main = "registering"   -> 17
    [] main = "com"           -> 16
    [] main = "mf"            -> 15
    [] main = "making"        -> 14
    [] main = "starting"      -> 13
    [] main = "launching"     -> 12
    [] main = "banner"        -> 11
    [] main = "live"          -> 10
    [] main = "goodbye"       -> 9
    [] main = "stopping"      -> 8
    [] main = "stop"          -> 7
    [] main = "shutdown"      -> 6
    [] main = "release"       -> IF failed THEN 1 ELSE 5
    [] main = "mfshutdown"    -> 4
    [] main = "uninit"        -> 3
    [] main = "unregistering" -> 2
    [] main = "reporting"     -> 1
    [] OTHER                  -> 0

(* The lock the main thread's next statement needs is free. *)
NotKept ==
  /\ main \in HeapCalls => Free("heap")
  /\ main \in {"banner", "goodbye", "reporting"} => Free("stdio")

(* While wmain takes things down, it is kept only by a lock of the          *)
(* terminated thread, and by that of stdio only at its last line.           *)
OnlyDesertedBlocks ==
  main \in Calls \union {"unregistering", "reporting"} =>
    \/ NotKept
    \/ "heap" \in deserted
    \/ "stdio" \in deserted /\ main = "reporting" /\ camera = "shut" /\ ~com

(* No statement of the main thread is taken twice. *)
LEMMA MainForward ==
  ASSUME Next, main' # main
  PROVE  StepsLeft' < StepsLeft
<1> USE DEF StepsLeft
<1>1. CASE UNCHANGED mainVars
  BY <1>1 DEF mainVars
<1>2. CASE Register
  BY <1>2 DEF Register
<1>3. CASE InitCom
  BY <1>3 DEF InitCom
<1>4. CASE StartMF
  BY <1>4 DEF StartMF
<1>5. CASE InitFails
  BY <1>5 DEF InitFails
<1>6. CASE MakeCamera
  BY <1>6 DEF MakeCamera
<1>7. CASE StartCamera
  BY <1>7 DEF StartCamera
<1>8. CASE CameraFails
  BY <1>8 DEF CameraFails
<1>9. CASE Launch
  BY <1>9 DEF Launch
<1>10. CASE PrintBanner
  BY <1>10 DEF PrintBanner
<1>11. CASE Enter
  BY <1>11 DEF Enter
<1>12. CASE PrintGoodbye
  BY <1>12 DEF PrintGoodbye
<1>13. CASE Terminate
  BY <1>13 DEF Terminate
<1>14. CASE StopCamera
  BY <1>14, FollowingPlace DEF StopCamera, Call
<1>15. CASE ShutdownCamera
  BY <1>15, FollowingPlace DEF ShutdownCamera, Call
<1>16. CASE ReleaseCamera
  BY <1>16, FollowingPlace DEF ReleaseCamera, Call
<1>17. CASE ShutdownMF
  BY <1>17, FollowingPlace DEF ShutdownMF, Call
<1>18. CASE Uninit
  BY <1>18, FollowingPlace DEF Uninit, Call
<1>19. CASE Unregister
  BY <1>19 DEF Unregister
<1>20. CASE Report
  BY <1>20 DEF Report
<1>21. QED
  BY <1>1, <1>2, <1>3, <1>4, <1>5, <1>6, <1>7, <1>8, <1>9, <1>10, <1>11, <1>12,
     <1>13, <1>14, <1>15, <1>16, <1>17, <1>18, <1>19, <1>20
  DEF Next, MainSteps, BridgeSteps, UseHeap, UseStdio, Leave, BridgeInit,
      BridgeInitFails, SegmentOpens, SegmentMissing, SegmentFails, Connect,
      Request, Answer, NoAnswer, ReceiveEnds, AppOpens, AppCloses, PhoneStarts,
      PhoneStops

(* After ENTER, wherever the bridge thread was terminated: the main thread  *)
(* has a bounded number of statements left, whichever of them need the      *)
(* heap, and is kept from the next only by the heap's lock of the           *)
(* terminated thread, or from printing its last line by that of stdio, with *)
(* the camera and COM already taken down.                                   *)
THEOREM OnlyHeapStops ==
  Spec => []OnlyDesertedBlocks /\ [][main' # main => StepsLeft' < StepsLeft]_vars
<1>1. ASSUME IInv PROVE OnlyDesertedBlocks
  <2> SUFFICES ASSUME main \in Calls \union {"unregistering", "reporting"}, ~NotKept,
                      "heap" \notin deserted
               PROVE  "stdio" \in deserted /\ main = "reporting" /\ camera = "shut" /\ ~com
    BY DEF OnlyDesertedBlocks
  <2>1. owned = {}
    BY <1>1 DEF IInv, LaunchInv, LockInv, After
  <2>2. main = "reporting" /\ "stdio" \in deserted
    BY <2>1 DEF NotKept, Free, Calls
  <2>3. QED
    BY <1>1, <2>2 DEF IInv, MainInv
<1>2. [Next]_vars => [main' # main => StepsLeft' < StepsLeft]_vars
  BY MainForward
<1>3. QED
  BY Invariant, <1>1, <1>2, PTL DEF Spec
=============================================================================
