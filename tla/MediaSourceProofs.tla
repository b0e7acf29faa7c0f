-------------------------- MODULE MediaSourceProofs --------------------------
(****************************************************************************)
(* Proofs about MediaSource for any number of threads, sources and counted  *)
(* objects.  CallInv says which steps a call has, CountInv who is counted,  *)
(* AgreeInv what the calls of one source have done so far, and EndedInv     *)
(* why a request of a halted source finds an inactive stream.               *)
(****************************************************************************)
EXTENDS MediaSource, TLAPS

USE BoundsAssumption

ControlSteps == {"state", "active", "new", "event", "streamStarted"}

(* Which steps belong to which call. *)
CallInv ==
  \A t \in Callers :
    /\ call[t].op \in Controls <=> call[t].at \in ControlSteps
    /\ call[t].at \in {"new", "streamStarted"} => call[t].op = "Start"
    /\ call[t].op = "RequestSample" <=> call[t].at \in {"check", "sample"}
    /\ call[t].op # "none" => call[t].source \in Sources

(* Whoever uses something of the DLL is counted, beside the locks. *)
CountInv ==
  /\ activator \/ (\E s \in Sources : held[s] # {}) => locks < objCount
  /\ objCount > 0 => loaded

InControlOf(t, s) == call[t].source = s /\ call[t].op \in Controls

(* What a Start, Stop or Pause that is alone has done so far. *)
Progress(t, s) ==
  /\ call[t].at # "state" => state[s] = Target(call[t].op)
  /\ call[t].at \notin {"state", "active"} => active[s] = (call[t].op = "Start")
  /\ call[t].at = "streamStarted" /\ shut[s] = {} => announced[s] = state[s]

AgreeAt(s) ==
  clean[s] =>
    /\ \A t, u \in Callers : InControlOf(t, s) /\ InControlOf(u, s) => t = u
    /\ \A t \in Callers : InControlOf(t, s) => Progress(t, s)
    /\ (\A t \in Callers : ~InControlOf(t, s)) =>
         /\ active[s] = (state[s] = "running")
         /\ shut[s] = {} => announced[s] = state[s]

AgreeInv == \A s \in Sources : AgreeAt(s)

NoStart(s) == \A u \in Callers : call[u].source = s => call[u].op # "Start"

(* A Stop or Pause that no Start overlapped has made the stream inactive    *)
(* before it tells so; nothing but a Start makes it active again.           *)
EndedInv ==
  /\ \A t \in unstarted :
       /\ call[t].op \in {"Stop", "Pause"} /\ NoStart(call[t].source)
       /\ call[t].at = "event" => ~active[call[t].source]
  /\ \A s \in halted : ~active[s] /\ NoStart(s)
  /\ \A t \in quiet : call[t].at = "check" /\ call[t].source \in halted

IInv == TypeOK /\ CallInv /\ CountInv /\ AgreeInv /\ EndedInv

(* Every step is one of these. *)
LEMMA StepCases ==
  ASSUME Next
  PROVE  \/ DllGetClassObject \/ CreateInstance \/ LockServer \/ DllCanUnloadNow
         \/ DetachObject \/ ReleaseActivator
         \/ \E t \in Callers :
              \/ ActivateObject(t) \/ ShutdownObject(t)
              \/ SetState(t) \/ SetActive(t) \/ QueueNewStream(t) \/ QueueState(t)
              \/ FireStreamStarted(t) \/ CheckActive(t) \/ QueueSample(t)
              \/ ShutQueue(t) \/ ShutStreamQueue(t)
              \/ \E s \in Sources :
                   \/ ReleaseSource(t, s) \/ RequestSample(t, s) \/ Shutdown(t, s)
                   \/ \E op \in Controls : Control(t, s, op)
  BY DEF Next, CallSteps

(* What GoOn and Return do to the calls. *)
LEMMA GoOnCall ==
  ASSUME TypeOK, NEW t \in Callers, NEW at \in Steps, GoOn(t, at)
  PROVE  /\ call' \in [Callers -> [op : Ops, source : {0} \union Made, at : Steps]]
         /\ call'[t].op = call[t].op /\ call'[t].source = call[t].source
         /\ call'[t].at = at
         /\ \A u \in Callers : u # t => call'[u] = call[u]
  BY DEF TypeOK, GoOn

LEMMA ReturnCall ==
  ASSUME TypeOK, NEW t \in Callers, Return(t)
  PROVE  /\ call' \in [Callers -> [op : Ops, source : {0} \union Made, at : Steps]]
         /\ call'[t].op = "none" /\ call'[t].source = 0 /\ call'[t].at = "none"
         /\ \A u \in Callers : u # t => call'[u] = call[u]
         /\ unstarted' = unstarted \ {t} /\ quiet' = quiet \ {t}
  BY DEF TypeOK, Return, Idle, Ops, Steps, Controls

(* The history of a call that returns keeps its type. *)
LEMMA ReturnEnded ==
  ASSUME TypeOK, CallInv, EndedInv, NEW t \in Callers, Return(t) \/ UNCHANGED endedVars
  PROVE  halted' \subseteq Sources /\ unstarted' \subseteq Callers /\ quiet' \subseteq Callers
  BY DEF TypeOK, CallInv, EndedInv, Return, endedVars

LEMMA BeginCall ==
  ASSUME TypeOK, NEW t \in Callers, NEW s \in Made, NEW op \in Ops, NEW at \in Steps,
         Begin(t, s, op, at)
  PROVE  /\ call' \in [Callers -> [op : Ops, source : {0} \union Made, at : Steps]]
         /\ call[t] = Idle
         /\ call'[t].op = op /\ call'[t].source = s /\ call'[t].at = at
         /\ \A u \in Callers : u # t => call'[u] = call[u]
         /\ UNCHANGED <<loaded, objCount, locks, activator, current, built, held,
                        state, active, shut, announced>>
  BY DEF TypeOK, Begin, dllVars, activatorVars, streamVars

(* Every call begins in this way, at a source that was made. *)
Beginning(t, s, op, at) ==
  /\ call' \in [Callers -> [op : Ops, source : {0} \union Made, at : Steps]]
  /\ call[t] = Idle
  /\ call'[t].op = op /\ call'[t].source = s /\ call'[t].at = at
  /\ \A u \in Callers : u # t => call'[u] = call[u]
  /\ UNCHANGED <<loaded, objCount, locks, activator, current, built, held, state,
                 active, shut, announced>>

LEMMA ShutdownObjectBegins ==
  ASSUME TypeOK, NEW t \in Callers, ShutdownObject(t)
  PROVE  current \in Made /\ Beginning(t, current, "ShutdownObject", "queue")
<1>1. current \in Made /\ Begin(t, current, "ShutdownObject", "queue")
  BY DEF TypeOK, ShutdownObject
<1>2. "ShutdownObject" \in Ops /\ "queue" \in Steps
  BY DEF Ops, Steps
<1>3. QED
  BY <1>1, <1>2, BeginCall DEF Beginning

LEMMA RequestSampleBegins ==
  ASSUME TypeOK, NEW t \in Callers, NEW s \in Sources, RequestSample(t, s)
  PROVE  s \in Made /\ Beginning(t, s, "RequestSample", "check")
<1>1. s \in Made /\ Begin(t, s, "RequestSample", "check")
  BY DEF TypeOK, RequestSample
<1>2. "RequestSample" \in Ops /\ "check" \in Steps
  BY DEF Ops, Steps
<1>3. QED
  BY <1>1, <1>2, BeginCall DEF Beginning

LEMMA ShutdownBegins ==
  ASSUME TypeOK, NEW t \in Callers, NEW s \in Sources, Shutdown(t, s)
  PROVE  s \in Made /\ Beginning(t, s, "Shutdown", "queue")
<1>1. s \in Made /\ Begin(t, s, "Shutdown", "queue")
  BY DEF TypeOK, Shutdown
<1>2. "Shutdown" \in Ops /\ "queue" \in Steps
  BY DEF Ops, Steps
<1>3. QED
  BY <1>1, <1>2, BeginCall DEF Beginning

LEMMA ControlBegins ==
  ASSUME TypeOK, NEW t \in Callers, NEW s \in Sources, NEW op \in Controls,
         Control(t, s, op)
  PROVE  s \in Made /\ Beginning(t, s, op, "state")
<1>1. s \in Made /\ Begin(t, s, op, "state")
  BY DEF TypeOK, Control
<1>2. op \in Ops /\ "state" \in Steps
  BY DEF Ops, Steps
<1>3. QED
  BY <1>1, <1>2, BeginCall DEF Beginning

------------------------------------------------------------------------------
(* Types *)

(* Every step keeps the types; a thread calls only sources that were made.  *)
LEMMA TypeStep ==
  ASSUME TypeOK, CallInv, CountInv, EndedInv, Next
  PROVE  TypeOK'
<1> USE DEF dllVars, activatorVars, streamVars, historyVars, endedVars
<1>1. CASE DllGetClassObject
  BY <1>1 DEF TypeOK, Made, DllGetClassObject, CountInv
<1>2. CASE CreateInstance
  BY <1>2 DEF TypeOK, Made, CreateInstance
<1>3. CASE LockServer
  BY <1>3 DEF TypeOK, Made, LockServer
<1>4. CASE DllCanUnloadNow
  BY <1>4 DEF TypeOK, Made, DllCanUnloadNow
<1>5. CASE DetachObject
  BY <1>5 DEF TypeOK, Made, DetachObject
<1>6. CASE ReleaseActivator
  BY <1>6 DEF TypeOK, Made, ReleaseActivator
<1>7. ASSUME NEW t \in Callers, ActivateObject(t)
      PROVE  TypeOK'
  BY <1>7 DEF TypeOK, Made, ActivateObject, NewSource
<1>8. ASSUME NEW t \in Callers, ShutdownObject(t)
      PROVE  TypeOK'
  <2>1. Beginning(t, current, "ShutdownObject", "queue") /\ UNCHANGED historyVars
    BY <1>8, ShutdownObjectBegins DEF ShutdownObject
  <2>2. QED
    BY <2>1 DEF TypeOK, Made, Beginning
<1>9. ASSUME NEW t \in Callers, SetState(t)
      PROVE  TypeOK'
  BY <1>9, GoOnCall DEF TypeOK, Made, SetState, Steps, States, Target
<1>10. ASSUME NEW t \in Callers, SetActive(t)
       PROVE  TypeOK'
  BY <1>10, GoOnCall DEF TypeOK, Made, SetActive, Steps
<1>11. ASSUME NEW t \in Callers, QueueNewStream(t)
       PROVE  TypeOK'
  BY <1>11, GoOnCall, ReturnCall, ReturnEnded DEF TypeOK, Made, QueueNewStream, Steps
<1>12. ASSUME NEW t \in Callers, QueueState(t)
       PROVE  TypeOK'
  BY <1>12, GoOnCall, ReturnCall, ReturnEnded DEF TypeOK, Made, QueueState, Steps, States, Target
<1>13. ASSUME NEW t \in Callers, FireStreamStarted(t) \/ QueueSample(t)
       PROVE  TypeOK'
  BY <1>13, ReturnCall, ReturnEnded DEF TypeOK, Made, FireStreamStarted, QueueSample
<1>14. ASSUME NEW t \in Callers, CheckActive(t)
       PROVE  TypeOK'
  BY <1>14, GoOnCall, ReturnCall, ReturnEnded DEF TypeOK, Made, CheckActive, Steps
<1>15. ASSUME NEW t \in Callers, ShutQueue(t)
       PROVE  TypeOK'
  BY <1>15, GoOnCall DEF TypeOK, Made, ShutQueue, Steps
<1>16. ASSUME NEW t \in Callers, ShutStreamQueue(t)
       PROVE  TypeOK'
  BY <1>16, ReturnCall, ReturnEnded DEF TypeOK, Made, ShutStreamQueue
<1>17. ASSUME NEW t \in Callers, NEW s \in Sources, ReleaseSource(t, s)
       PROVE  TypeOK'
  BY <1>17 DEF TypeOK, Made, ReleaseSource
<1>18. ASSUME NEW t \in Callers, NEW s \in Sources, RequestSample(t, s) \/ Shutdown(t, s)
       PROVE  TypeOK'
  BY <1>18, RequestSampleBegins, ShutdownBegins
  DEF TypeOK, Made, Beginning, RequestSample, Shutdown
<1>19. ASSUME NEW t \in Callers, NEW s \in Sources, NEW op \in Controls, Control(t, s, op)
       PROVE  TypeOK'
  <2>1. Beginning(t, s, op, "state")
    BY <1>19, ControlBegins
  <2>2. /\ clean' \in [Sources -> BOOLEAN] /\ quiet' \subseteq Callers
        /\ unstarted' \subseteq Callers /\ halted' \subseteq Sources
    BY <1>19 DEF TypeOK, Control, InControl
  <2>3. QED
    BY <2>1, <2>2 DEF TypeOK, Made, Beginning
<1>20. QED
  BY <1>1, <1>2, <1>3, <1>4, <1>5, <1>6, <1>7, <1>8, <1>9, <1>10, <1>11, <1>12,
     <1>13, <1>14, <1>15, <1>16, <1>17, <1>18, <1>19, StepCases

(* A call goes through the steps of its kind. *)
LEMMA CallStep ==
  ASSUME TypeOK, CallInv, Next
  PROVE  CallInv'
<1> USE DEF CallInv, Controls, ControlSteps
<1>1. ASSUME NEW t \in Callers, ShutdownObject(t)
      PROVE  CallInv'
  BY <1>1, ShutdownObjectBegins DEF Beginning, Made
<1>2. ASSUME NEW t \in Callers, SetState(t)
      PROVE  CallInv'
  <2>1. GoOn(t, "active") /\ "active" \in Steps /\ call[t].at = "state"
    BY <1>2 DEF SetState, Steps
  <2>2. QED
    BY <2>1, GoOnCall
<1>3. ASSUME NEW t \in Callers, SetActive(t)
      PROVE  CallInv'
  BY <1>3, GoOnCall DEF SetActive, Steps
<1>4. ASSUME NEW t \in Callers, QueueNewStream(t) \/ QueueState(t) \/ CheckActive(t)
      PROVE  CallInv'
  BY <1>4, GoOnCall, ReturnCall DEF QueueNewStream, QueueState, CheckActive, Steps
<1>5. ASSUME NEW t \in Callers, FireStreamStarted(t) \/ QueueSample(t) \/ ShutStreamQueue(t)
      PROVE  CallInv'
  BY <1>5, ReturnCall DEF FireStreamStarted, QueueSample, ShutStreamQueue
<1>6. ASSUME NEW t \in Callers, ShutQueue(t)
      PROVE  CallInv'
  BY <1>6, GoOnCall DEF ShutQueue, Steps
<1>7. ASSUME NEW t \in Callers, NEW s \in Sources, RequestSample(t, s) \/ Shutdown(t, s)
      PROVE  CallInv'
  BY <1>7, RequestSampleBegins, ShutdownBegins DEF Beginning
<1>8. ASSUME NEW t \in Callers, NEW s \in Sources, NEW op \in Controls, Control(t, s, op)
      PROVE  CallInv'
  BY <1>8, ControlBegins DEF Beginning
<1>9. CASE UNCHANGED call
  BY <1>9
<1>10. QED
  BY <1>1, <1>2, <1>3, <1>4, <1>5, <1>6, <1>7, <1>8, <1>9, StepCases
  DEF DllGetClassObject, CreateInstance, LockServer, DllCanUnloadNow, DetachObject,
      ReleaseActivator, ActivateObject, ReleaseSource

(* An activator is counted for ever, and so are the sources it made. *)
LEMMA CountStep ==
  ASSUME TypeOK, CountInv, Next
  PROVE  CountInv'
<1> USE DEF CountInv, TypeOK, dllVars, activatorVars
<1>1. CASE DllGetClassObject
  BY <1>1 DEF DllGetClassObject
<1>2. CASE CreateInstance
  BY <1>2 DEF CreateInstance
<1>3. CASE LockServer
  BY <1>3 DEF LockServer
<1>4. CASE DllCanUnloadNow
  BY <1>4 DEF DllCanUnloadNow
<1>5. CASE ReleaseActivator
  BY <1>5 DEF ReleaseActivator
<1>6. ASSUME NEW t \in Callers, ActivateObject(t)
      PROVE  CountInv'
  BY <1>6 DEF ActivateObject
<1>7. ASSUME NEW t \in Callers, NEW s \in Sources, ReleaseSource(t, s)
      PROVE  CountInv'
  BY <1>7 DEF ReleaseSource
<1>8. CASE UNCHANGED <<dllVars, activator, held>>
  BY <1>8
<1>9. QED
  BY <1>1, <1>2, <1>3, <1>4, <1>5, <1>6, <1>7, <1>8, StepCases
  DEF DetachObject, ShutdownObject, SetState, SetActive, QueueNewStream, QueueState,
      FireStreamStarted, CheckActive, QueueSample, ShutQueue, ShutStreamQueue,
      RequestSample, Shutdown, Control, Begin, streamVars

------------------------------------------------------------------------------
(* State, stream and events of a source *)

(* A source that no step of a Start, Stop or Pause changes. *)
LEMMA AgreeUntouched ==
  ASSUME NEW s \in Sources, AgreeAt(s), clean'[s] => clean[s],
         state'[s] = state[s], active'[s] = active[s], announced'[s] = announced[s],
         shut'[s] = {} => shut[s] = {},
         \A t \in Callers : InControlOf(t, s) <=> InControlOf(t, s)',
         \A t \in Callers : InControlOf(t, s)' =>
           call'[t].op = call[t].op /\ call'[t].at = call[t].at
  PROVE  AgreeAt(s)'
  BY DEF AgreeAt, Progress

(* A call that is alone sets the state, then the stream, then tells; one    *)
(* that is not alone clears clean.                                          *)
LEMMA AgreeStep ==
  ASSUME TypeOK, CallInv, AgreeInv, Next
  PROVE  AgreeInv'
<1> SUFFICES ASSUME NEW s \in Sources
             PROVE  AgreeAt(s)'
  BY DEF AgreeInv
<1>a. AgreeAt(s)
  BY DEF AgreeInv
<1> USE DEF dllVars, activatorVars, streamVars, historyVars, endedVars
<1>1. ASSUME NEW t \in Callers, ShutdownObject(t)
      PROVE  AgreeAt(s)'
  <2>1. Beginning(t, current, "ShutdownObject", "queue") /\ UNCHANGED clean
    BY <1>1, ShutdownObjectBegins DEF ShutdownObject
  <2>2. QED
    BY <1>a, <2>1, AgreeUntouched DEF Beginning, InControlOf, Controls, Idle
<1>2. ASSUME NEW t \in Callers, SetState(t)
      PROVE  AgreeAt(s)'
  <2>1. GoOn(t, "active") /\ "active" \in Steps /\ call[t].at = "state"
        /\ call[t].op \in Controls
    BY <1>2 DEF SetState, Steps, CallInv, ControlSteps
  <2>2. CASE call[t].source = s
    <3>1. state'[s] = Target(call[t].op)
      BY <1>2, <2>2 DEF SetState, TypeOK
    <3>2. QED
      BY <1>2, <1>a, <2>1, <2>2, <3>1, GoOnCall DEF AgreeAt, InControlOf, Progress, SetState
  <2>3. CASE call[t].source # s
    BY <1>2, <1>a, <2>1, <2>3, GoOnCall, AgreeUntouched DEF SetState, InControlOf, TypeOK
  <2>4. QED
    BY <2>2, <2>3
<1>3. ASSUME NEW t \in Callers, SetActive(t)
      PROVE  AgreeAt(s)'
  <2>1. /\ call[t].at = "active" /\ call[t].op \in Controls
        /\ \E at \in {"new", "event"} : GoOn(t, at) /\ at \in Steps
    BY <1>3 DEF SetActive, Steps, CallInv, ControlSteps
  <2>2. CASE call[t].source = s
    <3>1. active'[s] = (call[t].op = "Start")
      BY <1>3, <2>2 DEF SetActive, TypeOK
    <3>2. QED
      BY <1>3, <1>a, <2>1, <2>2, <3>1, GoOnCall DEF AgreeAt, InControlOf, Progress, SetActive
  <2>3. CASE call[t].source # s
    BY <1>3, <1>a, <2>1, <2>3, GoOnCall, AgreeUntouched DEF SetActive, InControlOf, TypeOK
  <2>4. QED
    BY <2>2, <2>3
<1>4. ASSUME NEW t \in Callers, QueueNewStream(t)
      PROVE  AgreeAt(s)'
  <2>1. call[t].at = "new" /\ call[t].op = "Start" /\ "event" \in Steps
    BY <1>4 DEF QueueNewStream, Steps, CallInv
  <2>2. UNCHANGED <<state, active, announced, shut, clean>>
    BY <1>4 DEF QueueNewStream
  <2>3. CASE Return(t) /\ "source" \in shut[call[t].source]
    BY <1>a, <2>1, <2>2, <2>3, ReturnCall DEF AgreeAt, InControlOf, Progress, Controls, Target
  <2>4. CASE GoOn(t, "event")
    BY <1>a, <2>1, <2>2, <2>4, GoOnCall DEF AgreeAt, InControlOf, Progress
  <2>5. QED
    BY <1>4, <2>3, <2>4 DEF QueueNewStream
<1>5. ASSUME NEW t \in Callers, QueueState(t)
      PROVE  AgreeAt(s)'
  <2>1. call[t].at = "event" /\ call[t].op \in Controls /\ "streamStarted" \in Steps
    BY <1>5 DEF QueueState, Steps, CallInv, ControlSteps
  <2>2. /\ UNCHANGED <<state, active, shut, clean>>
        /\ call[t].source # s => announced'[s] = announced[s]
    BY <1>5 DEF QueueState, TypeOK
  <2>3. call[t].source = s /\ shut[s] = {} => announced'[s] = Target(call[t].op)
    BY <1>5 DEF QueueState, TypeOK
  <2>4. CASE Return(t) /\ (call[t].op = "Start" => "source" \in shut[call[t].source])
    <3>1. (call[t].op = "Start") = (Target(call[t].op) = "running")
      BY <2>1 DEF Controls, Target
    <3>2. QED
      BY <1>a, <2>1, <2>2, <2>3, <2>4, <3>1, ReturnCall DEF AgreeAt, InControlOf, Progress, Controls
  <2>5. CASE GoOn(t, "streamStarted")
    BY <1>a, <2>1, <2>2, <2>3, <2>5, GoOnCall DEF AgreeAt, InControlOf, Progress
  <2>6. QED
    BY <1>5, <2>4, <2>5 DEF QueueState
<1>6. ASSUME NEW t \in Callers, FireStreamStarted(t)
      PROVE  AgreeAt(s)'
  <2>1. call[t].at = "streamStarted" /\ call[t].op = "Start" /\ Return(t)
    BY <1>6 DEF FireStreamStarted, CallInv
  <2>2. UNCHANGED <<state, active, announced, shut, clean>>
    BY <1>6 DEF FireStreamStarted
  <2>3. QED
    BY <1>a, <2>1, <2>2, ReturnCall DEF AgreeAt, InControlOf, Progress, Controls, Target
<1>7. ASSUME NEW t \in Callers, CheckActive(t) \/ QueueSample(t)
      PROVE  AgreeAt(s)'
  <2>1. call[t].op = "RequestSample" /\ (Return(t) \/ GoOn(t, "sample")) /\ "sample" \in Steps
    BY <1>7 DEF CheckActive, QueueSample, CallInv, Steps
  <2>2. UNCHANGED <<state, active, announced, shut, clean>>
    BY <1>7 DEF CheckActive, QueueSample
  <2>3. QED
    BY <1>a, <2>1, <2>2, ReturnCall, GoOnCall, AgreeUntouched DEF InControlOf, Controls
<1>8. ASSUME NEW t \in Callers, ShutQueue(t) \/ ShutStreamQueue(t)
      PROVE  AgreeAt(s)'
  <2>1. call[t].op \notin Controls /\ (Return(t) \/ GoOn(t, "streamQueue"))
        /\ "streamQueue" \in Steps
    BY <1>8 DEF ShutQueue, ShutStreamQueue, CallInv, Steps, ControlSteps
  <2>2. UNCHANGED <<state, active, announced, clean>> /\ (shut'[s] = {} => shut[s] = {})
    BY <1>8 DEF ShutQueue, ShutStreamQueue, TypeOK
  <2>3. QED
    BY <1>a, <2>1, <2>2, ReturnCall, GoOnCall, AgreeUntouched DEF InControlOf, Controls
<1>9. ASSUME NEW t \in Callers, NEW r \in Sources, RequestSample(t, r) \/ Shutdown(t, r)
      PROVE  AgreeAt(s)'
  <2>1. /\ \E op \in {"RequestSample", "Shutdown"}, at \in Steps : Beginning(t, r, op, at)
        /\ UNCHANGED clean
    BY <1>9, RequestSampleBegins, ShutdownBegins DEF RequestSample, Shutdown, Steps
  <2>2. QED
    BY <1>a, <2>1, AgreeUntouched DEF Beginning, InControlOf, Controls, Idle
<1>10. ASSUME NEW t \in Callers, NEW r \in Sources, NEW op \in Controls, Control(t, r, op)
       PROVE  AgreeAt(s)'
  <2>1. Beginning(t, r, op, "state")
    BY <1>10, ControlBegins
  <2>2. CASE r = s
    <3>1. clean'[s] = ~InControl(s)
      BY <1>10, <2>2 DEF Control, TypeOK
    <3>2. QED
      BY <2>1, <2>2, <3>1 DEF AgreeAt, InControlOf, InControl, On, Progress, Beginning
  <2>3. CASE r # s
    <3>1. clean'[s] = clean[s]
      BY <1>10, <2>3 DEF Control, TypeOK
    <3>2. QED
      BY <1>a, <2>1, <2>3, <3>1, AgreeUntouched DEF Beginning, InControlOf, Controls, Idle
  <2>4. QED
    BY <2>2, <2>3
<1>11. CASE UNCHANGED <<state, active, announced, shut, clean, call>>
  BY <1>11, <1>a DEF AgreeAt, InControlOf, Progress
<1>12. QED
  BY <1>1, <1>2, <1>3, <1>4, <1>5, <1>6, <1>7, <1>8, <1>9, <1>10, <1>11, StepCases
  DEF DllGetClassObject, CreateInstance, LockServer, DllCanUnloadNow, DetachObject,
      ReleaseActivator, ActivateObject, ReleaseSource

------------------------------------------------------------------------------
(* Requests of a halted source *)

(* A call that is not a Start begins: nobody starts who did not. *)
LEMMA NoStartBegins ==
  ASSUME NEW t \in Callers, NEW c, NEW op, NEW at, Beginning(t, c, op, at), op # "Start",
         NEW s, NoStart(s)
  PROVE  NoStart(s)'
  BY DEF NoStart, Beginning

(* A call goes on or returns. *)
LEMMA NoStartGoesOn ==
  ASSUME TypeOK, NEW t \in Callers, NEW s, NoStart(s),
         Return(t) \/ \E at \in Steps : GoOn(t, at)
  PROVE  NoStart(s)'
<1>1. CASE Return(t)
  BY <1>1, ReturnCall DEF NoStart
<1>2. CASE \E at \in Steps : GoOn(t, at)
  BY <1>2, GoOnCall DEF NoStart
<1>3. QED
  BY <1>1, <1>2

(* Only a Start makes the stream active, and its beginning ends what the    *)
(* Stops and Pauses before it have achieved.                                *)
LEMMA EndedStep ==
  ASSUME TypeOK, CallInv, EndedInv, Next
  PROVE  EndedInv'
<1> USE DEF dllVars, activatorVars, streamVars, historyVars, endedVars
<1>a. quiet \subseteq Callers /\ unstarted \subseteq Callers /\ halted \subseteq Sources
  BY DEF TypeOK
<1>b. \A t \in quiet : call[t].op = "RequestSample"
  BY <1>a DEF EndedInv, CallInv
<1>c. \A t \in unstarted : call[t].source \in Sources /\ call[t].at \in ControlSteps
  BY <1>a DEF EndedInv, CallInv, Controls
<1>1. ASSUME NEW t \in Callers, NEW c, NEW op, NEW at, Beginning(t, c, op, at),
             op # "Start", UNCHANGED endedVars
      PROVE  EndedInv'
  <2>1. t \notin unstarted /\ t \notin quiet
    BY <1>1 DEF EndedInv, Beginning, Idle
  <2>2. \A s : NoStart(s) => NoStart(s)'
    BY <1>1, NoStartBegins
  <2>3. QED
    BY <1>1, <1>a, <2>1, <2>2 DEF EndedInv, Beginning
<1>2. ASSUME NEW t \in Callers, NEW at \in Steps, GoOn(t, at), at # "event",
             t \notin quiet, UNCHANGED <<active, endedVars>>
      PROVE  EndedInv'
  <2>1. \A s : NoStart(s) => NoStart(s)'
    BY <1>2, NoStartGoesOn
  <2>2. QED
    BY <1>2, <1>a, <2>1, GoOnCall DEF EndedInv
<1>3. ASSUME NEW t \in Callers, NEW at \in Steps, GoOn(t, at), call[t].op = "Start",
             UNCHANGED <<active, endedVars>>
      PROVE  EndedInv'
  <2>1. \A s : NoStart(s) => NoStart(s)'
    BY <1>3, NoStartGoesOn
  <2>2. t \notin unstarted /\ t \notin quiet
    BY <1>3, <1>b DEF EndedInv
  <2>3. QED
    BY <1>3, <1>a, <2>1, <2>2, GoOnCall DEF EndedInv
<1>4. ASSUME NEW t \in Callers, Return(t), UNCHANGED active,
             t \in unstarted => call[t].at = "event"
      PROVE  EndedInv'
  <2>1. \A s : NoStart(s) => NoStart(s)'
    BY <1>4, NoStartGoesOn
  <2>2. /\ unstarted' = unstarted \ {t} /\ quiet' = quiet \ {t}
        /\ \A u \in Callers : u # t => call'[u] = call[u]
    BY <1>4, ReturnCall
  <2>3. /\ halted \subseteq halted'
        /\ \A s \in halted' \ halted : t \in unstarted /\ s = call[t].source
    BY <1>4 DEF Return
  <2>4. \A s \in halted' : ~active'[s] /\ NoStart(s)'
    BY <1>4, <2>1, <2>3 DEF EndedInv
  <2>5. QED
    BY <1>4, <1>a, <2>1, <2>2, <2>3, <2>4 DEF EndedInv
<1>5. ASSUME NEW t \in Callers, SetState(t)
      PROVE  EndedInv'
  <2>1. GoOn(t, "active") /\ "active" \in Steps /\ call[t].at = "state"
        /\ UNCHANGED <<active, endedVars>>
    BY <1>5 DEF SetState, Steps
  <2>2. t \notin quiet
    BY <2>1 DEF EndedInv
  <2>3. QED
    BY <1>2, <2>1, <2>2
<1>6. ASSUME NEW t \in Callers, SetActive(t)
      PROVE  EndedInv'
  <2>1. /\ call[t].at = "active"
        /\ \E at \in {"new", "event"} : GoOn(t, at) /\ at \in Steps
        /\ UNCHANGED endedVars
    BY <1>6 DEF SetActive, Steps
  <2>2. \A s \in Sources : ~active[s] /\ NoStart(s) => ~active'[s]
    BY <1>6 DEF SetActive, TypeOK, NoStart
  <2>3. t \in unstarted => ~active'[call[t].source]
    BY <1>6, <1>c DEF SetActive, TypeOK, EndedInv
  <2>4. \A s : NoStart(s) => NoStart(s)'
    BY <2>1, NoStartGoesOn
  <2>5. /\ call'[t].op = call[t].op /\ call'[t].source = call[t].source
        /\ \A u \in Callers : u # t => call'[u] = call[u]
    BY <2>1, GoOnCall
  <2>6. t \notin quiet
    BY <2>1 DEF EndedInv
  <2>7. QED
    BY <1>a, <1>c, <2>1, <2>2, <2>3, <2>4, <2>5, <2>6 DEF EndedInv
<1>7. ASSUME NEW t \in Callers, QueueNewStream(t)
      PROVE  EndedInv'
  <2>1. call[t].op = "Start" /\ "event" \in Steps /\ UNCHANGED active
    BY <1>7 DEF QueueNewStream, CallInv, Steps
  <2>2. t \notin unstarted
    BY <2>1 DEF EndedInv
  <2>3. Return(t) \/ (GoOn(t, "event") /\ UNCHANGED endedVars)
    BY <1>7 DEF QueueNewStream
  <2>4. QED
    BY <1>3, <1>4, <2>1, <2>2, <2>3
<1>8. ASSUME NEW t \in Callers, QueueState(t)
      PROVE  EndedInv'
  <2>1. call[t].at = "event" /\ "streamStarted" \in Steps /\ UNCHANGED active
    BY <1>8 DEF QueueState, Steps
  <2>2. \/ Return(t)
        \/ GoOn(t, "streamStarted") /\ call[t].op = "Start" /\ UNCHANGED endedVars
    BY <1>8 DEF QueueState
  <2>3. QED
    BY <1>3, <1>4, <2>1, <2>2
<1>9. ASSUME NEW t \in Callers, FireStreamStarted(t) \/ QueueSample(t) \/ ShutStreamQueue(t)
      PROVE  EndedInv'
  <2>1. Return(t) /\ UNCHANGED active /\ call[t].at \in {"streamStarted", "sample", "streamQueue"}
    BY <1>9 DEF FireStreamStarted, QueueSample, ShutStreamQueue
  <2>2. t \notin unstarted
    BY <1>c, <2>1 DEF EndedInv, CallInv, ControlSteps
  <2>3. QED
    BY <1>4, <2>1, <2>2
<1>10. ASSUME NEW t \in Callers, CheckActive(t)
       PROVE  EndedInv'
  <2>1. call[t].at = "check" /\ UNCHANGED active /\ "sample" \in Steps
    BY <1>10 DEF CheckActive, Steps
  <2>2. t \notin unstarted
    BY <1>c, <2>1 DEF ControlSteps
  <2>3. CASE active[call[t].source]
    <3>1. t \notin quiet
      BY <2>3 DEF EndedInv
    <3>2. QED
      BY <1>2, <1>10, <2>1, <2>3, <3>1 DEF CheckActive
  <2>4. CASE ~active[call[t].source]
    BY <1>4, <1>10, <2>1, <2>2, <2>4 DEF CheckActive
  <2>5. QED
    BY <2>3, <2>4
<1>11. ASSUME NEW t \in Callers, ShutQueue(t)
       PROVE  EndedInv'
  <2>1. GoOn(t, "streamQueue") /\ "streamQueue" \in Steps /\ call[t].at = "queue"
        /\ UNCHANGED <<active, endedVars>>
    BY <1>11 DEF ShutQueue, Steps
  <2>2. t \notin quiet
    BY <2>1 DEF EndedInv
  <2>3. QED
    BY <1>2, <2>1, <2>2
<1>12. ASSUME NEW t \in Callers, NEW s \in Sources, RequestSample(t, s)
       PROVE  EndedInv'
  <2>1. Beginning(t, s, "RequestSample", "check")
    BY <1>12, RequestSampleBegins
  <2>2. t \notin unstarted /\ t \notin quiet
    BY <2>1 DEF EndedInv, Beginning, Idle
  <2>3. \A c : NoStart(c) => NoStart(c)'
    BY <2>1, NoStartBegins
  <2>4. UNCHANGED <<unstarted, halted>> /\ quiet' \subseteq quiet \union {t}
        /\ (t \in quiet' => s \in halted)
    BY <1>12, <2>2 DEF RequestSample
  <2>5. QED
    BY <1>a, <2>1, <2>2, <2>3, <2>4 DEF EndedInv, Beginning
<1>13. ASSUME NEW t \in Callers, NEW s \in Sources, NEW op \in Controls, Control(t, s, op)
       PROVE  EndedInv'
  <2>1. Beginning(t, s, op, "state")
    BY <1>13, ControlBegins
  <2>2. t \notin unstarted /\ t \notin quiet
    BY <2>1 DEF EndedInv, Beginning, Idle
  <2>3. CASE op = "Start"
    <3>1. \A c : NoStart(c) /\ c # s => NoStart(c)'
      BY <2>1 DEF NoStart, Beginning
    <3>2. /\ unstarted' \subseteq unstarted /\ quiet' \subseteq quiet
          /\ \A u \in unstarted' \union quiet' : call[u].source # s
          /\ halted' = halted \ {s}
      BY <1>13, <1>a, <2>3 DEF Control, On
    <3>3. QED
      BY <1>a, <2>1, <2>2, <3>1, <3>2 DEF EndedInv, Beginning
  <2>4. CASE op # "Start"
    <3>1. \A c : NoStart(c) => NoStart(c)'
      BY <2>1, <2>4, NoStartBegins
    <3>2. UNCHANGED <<halted, quiet>> /\ unstarted' \subseteq unstarted \union {t}
          /\ (t \in unstarted' => NoStart(s))
      BY <1>13, <2>2, <2>4 DEF Control, Starting, On, NoStart
    <3>3. op \in {"Stop", "Pause"}
      BY <2>4 DEF Controls
    <3>4. QED
      BY <1>a, <2>1, <2>2, <3>1, <3>2, <3>3 DEF EndedInv, Beginning
  <2>5. QED
    BY <2>3, <2>4
<1>14. CASE UNCHANGED <<call, active, endedVars>>
  BY <1>14 DEF EndedInv, NoStart
<1>15. ASSUME NEW t \in Callers, ShutdownObject(t)
       PROVE  EndedInv'
  BY <1>1, <1>15, ShutdownObjectBegins DEF ShutdownObject
<1>16. ASSUME NEW t \in Callers, NEW s \in Sources, Shutdown(t, s)
       PROVE  EndedInv'
  BY <1>1, <1>16, ShutdownBegins DEF Shutdown
<1>17. QED
  BY <1>5, <1>6, <1>7, <1>8, <1>9, <1>10, <1>11, <1>12, <1>13, <1>14, <1>15, <1>16,
     StepCases
  DEF DllGetClassObject, CreateInstance, LockServer, DllCanUnloadNow, DetachObject,
      ReleaseActivator, ActivateObject, ReleaseSource

------------------------------------------------------------------------------
(* Theorems *)

LEMMA InitInv ==
  ASSUME Init
  PROVE  IInv
<1> USE DEF Init, Idle
<1>1. TypeOK
  <2>1. loaded \in BOOLEAN /\ activator \in BOOLEAN
    BY Zenon
  <2>2. active \in [Sources -> BOOLEAN] /\ clean \in [Sources -> BOOLEAN]
    BY Zenon
  <2>3. call \in [Callers -> [op : Ops, source : {0} \union Made, at : Steps]]
    BY DEF Ops, Steps
  <2>4. /\ built \in [Sources -> {"no", "ready", "broken"}]
        /\ held \in [Sources -> SUBSET Callers] /\ {s \in Sources : held[s] # {}} \subseteq Made
        /\ state \in [Sources -> States] /\ announced \in [Sources -> States]
        /\ shut \in [Sources -> SUBSET {"source", "stream"}]
    BY DEF States
  <2>5. QED
    BY <2>1, <2>2, <2>3, <2>4 DEF TypeOK
<1>2. CallInv /\ CountInv
  BY DEF CallInv, CountInv, Controls, ControlSteps
<1>3. AgreeInv /\ EndedInv
  BY DEF AgreeInv, AgreeAt, InControlOf, Controls, EndedInv
<1>4. QED
  BY <1>1, <1>2, <1>3 DEF IInv

LEMMA NextInv ==
  ASSUME IInv, [Next]_vars
  PROVE  IInv'
<1>1. CASE Next
  BY <1>1, TypeStep, CallStep, CountStep, AgreeStep, EndedStep DEF IInv
<1>2. CASE UNCHANGED vars
  <2> USE <1>2 DEF IInv, vars, dllVars, activatorVars, streamVars, historyVars, endedVars
  <2>1. TypeOK'
    BY DEF TypeOK, Made
  <2>2. CallInv' /\ CountInv' /\ EndedInv'
    BY DEF CallInv, CountInv, EndedInv, NoStart
  <2>3. AgreeInv'
    BY DEF AgreeInv, AgreeAt, InControlOf, Progress
  <2>4. QED
    BY <2>1, <2>2, <2>3
<1>3. QED
  BY <1>1, <1>2

(* The inductive invariant of the DLL, its sources and the calls they are   *)
(* in.                                                                      *)
THEOREM Invariant == Spec => []IInv
  BY InitInv, NextInv, PTL DEF Spec

(* Types; and nobody has a pointer to a source that was not made whole.     *)
THEOREM TypeCorrect == Spec => []TypeOK
<1>1. IInv => TypeOK
  BY DEF IInv
<1>2. QED
  BY <1>1, Invariant, PTL

(* DllCanUnloadNow never lets the DLL go while something of it is in use.   *)
THEOREM UsedIsLoaded == Spec => []InUseIsLoaded
<1>1. IInv => InUseIsLoaded
  BY DEF IInv, TypeOK, CountInv, InUseIsLoaded
<1>2. QED
  BY <1>1, Invariant, PTL

(* After a Start, Stop or Pause that ran alone, state, stream and the event *)
(* announced last agree, whatever calls overlapped before.                  *)
THEOREM StateAgreed == Spec => []StateAgrees
<1>1. IInv => StateAgrees
  BY DEF IInv, AgreeInv, AgreeAt, StateAgrees, InControl, On, InControlOf
<1>2. QED
  BY <1>1, Invariant, PTL

(* Once a Stop or Pause that no Start overlapped has returned, RequestSample *)
(* gives nothing until a Start begins, however many threads stop, pause and *)
(* request at once.                                                         *)
THEOREM HaltedIsQuiet == Spec => []HaltedGivesNoSample
<1>1. IInv => HaltedGivesNoSample
  BY DEF IInv, EndedInv, HaltedGivesNoSample
<1>2. QED
  BY <1>1, Invariant, PTL
==============================================================================
