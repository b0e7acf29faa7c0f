---------------------------- MODULE MediaSource ------------------------------
(****************************************************************************)
(* The virtual camera as Windows sees it (dllmain.cpp, activator.h,         *)
(* mediasource.cpp, mediastream.cpp): the DLL and its class factory, the    *)
(* activator that makes media sources, and the states and events of a       *)
(* source and its stream.  Where samples get their pictures from is         *)
(* FrameBuffer's.                                                           *)
(*                                                                          *)
(* Several threads call a source at once; nothing in it is locked, so a     *)
(* call is a sequence of steps.  The calls of the activator come one after  *)
(* another.  An event queue (external) takes events until its Shutdown and  *)
(* refuses them from then on.                                               *)
(****************************************************************************)
EXTENDS Naturals, FiniteSets

CONSTANTS
  Callers,     \* the threads that call
  MaxSources,  \* bound: sources made
  MaxCount     \* bound: instances created and locks taken

ASSUME BoundsAssumption == MaxSources \in Nat /\ MaxCount \in Nat

Sources == 1 .. MaxSources

VARIABLES
  loaded,     \* the DLL is loaded
  objCount,   \* g_objCount
  locks,      \* how often a client holds LockServer(TRUE)
  activator,  \* a client has an activator
  current,    \* its _source, or 0
  built,      \* each source: "no", "ready" or "broken"
  held,       \* the threads that have a pointer to it
  state,      \* its _state
  active,     \* its stream's _active
  shut,       \* which of its two event queues, "source" and "stream", are shut
  announced,  \* the state that the last event of its queue tells
  call,       \* the call each thread is in
  clean,      \* history: the last Start, Stop or Pause of a source ran alone
  unstarted,  \* history: threads in a Stop or Pause that no Start overlapped
  halted,     \* history: sources of which such a call returned, with no Start since
  quiet       \* history: requests begun at a halted source, with no Start since

dllVars == <<loaded, objCount, locks>>
activatorVars == <<activator, current>>
streamVars == <<state, active, shut, announced>>
endedVars == <<unstarted, halted, quiet>>
historyVars == <<clean, endedVars>>
vars == <<dllVars, activatorVars, built, held, streamVars, call, historyVars>>

Controls == {"Start", "Stop", "Pause"}
Idle == [op |-> "none", source |-> 0, at |-> "none"]
Target(op) ==
  CASE op = "Start" -> "running" [] op = "Stop" -> "stopped" [] OTHER -> "paused"

Init ==
  /\ loaded = FALSE /\ objCount = 0 /\ locks = 0
  /\ activator = FALSE /\ current = 0
  /\ built = [s \in Sources |-> "no"]
  /\ held = [s \in Sources |-> {}]
  /\ state = [s \in Sources |-> "stopped"]
  /\ active = [s \in Sources |-> FALSE]
  /\ shut = [s \in Sources |-> {}]
  /\ announced = [s \in Sources |-> "stopped"]
  /\ call = [t \in Callers |-> Idle]
  /\ clean = [s \in Sources |-> TRUE]
  /\ unstarted = {} /\ halted = {} /\ quiet = {}

------------------------------------------------------------------------------
(* The DLL and its class factory *)

(* COM loads the DLL for DllGetClassObject. *)
DllGetClassObject ==
  /\ ~loaded
  /\ loaded' = TRUE /\ objCount' = 0
  /\ UNCHANGED <<locks, activatorVars, built, held, streamVars, call, historyVars>>

(* Mutant: instances are not counted. *)
CreateInstance_Uncounted ==
  /\ loaded /\ ~activator
  /\ activator' = TRUE
  /\ UNCHANGED <<dllVars, current, built, held, streamVars, call, historyVars>>

(* An instance is counted, and counts for ever. *)
CreateInstance ==
  /\ loaded /\ ~activator /\ objCount < MaxCount
  /\ activator' = TRUE
  /\ objCount' = objCount + 1
  /\ UNCHANGED <<loaded, locks, current, built, held, streamVars, call, historyVars>>

(* Mutant: locking does not count. *)
LockServer_Uncounted ==
  /\ loaded
  /\ \/ locks < MaxCount /\ locks' = locks + 1 /\ UNCHANGED objCount
     \/ locks > 0 /\ locks' = locks - 1 /\ objCount' = objCount - 1
  /\ UNCHANGED <<loaded, activatorVars, built, held, streamVars, call, historyVars>>

LockServer ==
  /\ loaded
  /\ \/ objCount < MaxCount /\ locks' = locks + 1 /\ objCount' = objCount + 1
     \/ locks > 0 /\ locks' = locks - 1 /\ objCount' = objCount - 1
  /\ UNCHANGED <<loaded, activatorVars, built, held, streamVars, call, historyVars>>

(* COM unloads the DLL when DllCanUnloadNow lets it. *)
DllCanUnloadNow ==
  /\ loaded /\ objCount = 0
  /\ loaded' = FALSE
  /\ UNCHANGED <<objCount, locks, activatorVars, built, held, streamVars, call,
                 historyVars>>

------------------------------------------------------------------------------
(* The activator *)

ActivatorFree == \A t \in Callers : call[t].op # "ShutdownObject"

(* RuntimeClassInitialize of a new source and its stream, which may fail.   *)
(* The two refer to each other from then on, so neither is ever freed.  The *)
(* source is kept although QueryInterface refuses the caller.               *)
NewSource(t, s) ==
  /\ built[s] = "no"
  /\ \/ /\ built' = [built EXCEPT ![s] = "ready"]
        /\ current' = s
        /\ \/ held' = [held EXCEPT ![s] = @ \union {t}]
           \/ UNCHANGED held
     \/ /\ built' = [built EXCEPT ![s] = "broken"]
        /\ UNCHANGED <<current, held>>

ActivateObject(t) ==
  /\ activator /\ ActivatorFree /\ call[t] = Idle
  /\ \/ /\ current # 0
        /\ held' = [held EXCEPT ![current] = @ \union {t}]
        /\ UNCHANGED <<built, current>>
     \/ current = 0 /\ \E s \in Sources : NewSource(t, s)
  /\ UNCHANGED <<dllVars, activator, streamVars, call, historyVars>>

DetachObject ==
  /\ activator /\ ActivatorFree /\ current # 0
  /\ current' = 0
  /\ UNCHANGED <<dllVars, activator, built, held, streamVars, call, historyVars>>

(* The last client of the activator releases it. *)
ReleaseActivator ==
  /\ activator /\ ActivatorFree
  /\ activator' = FALSE /\ current' = 0
  /\ UNCHANGED <<dllVars, built, held, streamVars, call, historyVars>>

ReleaseSource(t, s) ==
  /\ call[t] = Idle /\ t \in held[s]
  /\ held' = [held EXCEPT ![s] = @ \ {t}]
  /\ UNCHANGED <<dllVars, activatorVars, built, streamVars, call, historyVars>>

------------------------------------------------------------------------------
(* The calls of a source and its stream *)

(* A thread's call goes on to another step, or returns. *)
GoOn(t, at) == call' = [call EXCEPT ![t].at = at]

(* The history of a call that returns: it may have halted its source.       *)
Return(t) ==
  /\ call' = [call EXCEPT ![t] = Idle]
  /\ halted' = IF t \in unstarted THEN halted \union {call[t].source} ELSE halted
  /\ unstarted' = unstarted \ {t} /\ quiet' = quiet \ {t}

On(s) == {t \in Callers : call[t].source = s}
InControl(s) == \E t \in On(s) : call[t].op \in Controls
Starting(s) == \E t \in On(s) : call[t].op = "Start"

Begin(t, s, op, at) ==
  /\ call[t] = Idle
  /\ call' = [call EXCEPT ![t] = [op |-> op, source |-> s, at |-> at]]
  /\ UNCHANGED <<dllVars, activatorVars, built, held, streamVars>>

Control(t, s, op) ==
  /\ t \in held[s] /\ op \in Controls
  /\ Begin(t, s, op, "state")
  /\ clean' = [clean EXCEPT ![s] = ~InControl(s)]
  /\ IF op = "Start"
     THEN /\ unstarted' = unstarted \ On(s) /\ quiet' = quiet \ On(s)
          /\ halted' = halted \ {s}
     ELSE /\ unstarted' = IF Starting(s) THEN unstarted ELSE unstarted \union {t}
          /\ UNCHANGED <<halted, quiet>>

RequestSample(t, s) ==
  /\ t \in held[s]
  /\ Begin(t, s, "RequestSample", "check")
  /\ quiet' = IF s \in halted THEN quiet \union {t} ELSE quiet
  /\ UNCHANGED <<clean, unstarted, halted>>

Shutdown(t, s) ==
  t \in held[s] /\ Begin(t, s, "Shutdown", "queue") /\ UNCHANGED historyVars

ShutdownObject(t) ==
  /\ activator /\ ActivatorFree /\ current # 0
  /\ Begin(t, current, "ShutdownObject", "queue") /\ UNCHANGED historyVars

SetState(t) ==
  LET c == call[t] IN
  /\ c.at = "state"
  /\ state' = [state EXCEPT ![c.source] = Target(c.op)]
  /\ GoOn(t, "active")
  /\ UNCHANGED <<dllVars, activatorVars, built, held, active, shut, announced,
                 historyVars>>

(* Mutant: Pause leaves the stream active. *)
SetActive_NotPaused(t) ==
  LET c == call[t] IN
  /\ c.at = "active"
  /\ active' = [active EXCEPT ![c.source] =
                  IF c.op = "Pause" THEN @ ELSE c.op = "Start"]
  /\ GoOn(t, IF c.op = "Start" THEN "new" ELSE "event")
  /\ UNCHANGED <<dllVars, activatorVars, built, held, state, shut, announced,
                 historyVars>>

SetActive(t) ==
  LET c == call[t] IN
  /\ c.at = "active"
  /\ active' = [active EXCEPT ![c.source] = c.op = "Start"]
  /\ GoOn(t, IF c.op = "Start" THEN "new" ELSE "event")
  /\ UNCHANGED <<dllVars, activatorVars, built, held, state, shut, announced,
                 historyVars>>

(* MENewStream: Start returns early if it cannot be queued. *)
QueueNewStream(t) ==
  LET c == call[t] IN
  /\ c.at = "new"
  /\ IF "source" \in shut[c.source]
     THEN Return(t) ELSE GoOn(t, "event") /\ UNCHANGED endedVars
  /\ UNCHANGED <<dllVars, activatorVars, built, held, streamVars, clean>>

(* MESourceStarted, MESourceStopped or MESourcePaused. *)
QueueState(t) ==
  LET c == call[t]  refused == "source" \in shut[c.source]
  IN
  /\ c.at = "event"
  /\ announced' = IF refused THEN announced
                  ELSE [announced EXCEPT ![c.source] = Target(c.op)]
  /\ IF c.op = "Start" /\ ~refused
     THEN GoOn(t, "streamStarted") /\ UNCHANGED endedVars ELSE Return(t)
  /\ UNCHANGED <<dllVars, activatorVars, built, held, state, active, shut, clean>>

(* MEStreamStarted, in the stream's queue. *)
FireStreamStarted(t) ==
  /\ call[t].at = "streamStarted"
  /\ Return(t)
  /\ UNCHANGED <<dllVars, activatorVars, built, held, streamVars, clean>>

(* A request of an inactive stream is refused; others go on to a sample.    *)
CheckActive(t) ==
  LET c == call[t] IN
  /\ c.at = "check"
  /\ IF active[c.source]
     THEN GoOn(t, "sample") /\ UNCHANGED endedVars ELSE Return(t)
  /\ UNCHANGED <<dllVars, activatorVars, built, held, streamVars, clean>>

(* The sample is queued, whatever has become of the stream, or lost if its  *)
(* queue is shut or memory is short.                                        *)
QueueSample(t) ==
  /\ call[t].at = "sample"
  /\ Return(t)
  /\ UNCHANGED <<dllVars, activatorVars, built, held, streamVars, clean>>

ShutQueue(t) ==
  LET c == call[t] IN
  /\ c.at = "queue"
  /\ shut' = [shut EXCEPT ![c.source] = @ \union {"source"}]
  /\ GoOn(t, "streamQueue")
  /\ UNCHANGED <<dllVars, activatorVars, built, held, state, active, announced,
                 historyVars>>

(* The stream's Shutdown; ShutdownObject forgets the source then. *)
ShutStreamQueue(t) ==
  LET c == call[t] IN
  /\ c.at = "streamQueue"
  /\ shut' = [shut EXCEPT ![c.source] = @ \union {"stream"}]
  /\ current' = IF c.op = "ShutdownObject" THEN 0 ELSE current
  /\ Return(t)
  /\ UNCHANGED <<dllVars, activator, built, held, state, active, announced, clean>>

CallSteps(t) ==
  \/ SetState(t) \/ SetActive(t) \/ QueueNewStream(t) \/ QueueState(t)
  \/ FireStreamStarted(t) \/ CheckActive(t) \/ QueueSample(t)
  \/ ShutQueue(t) \/ ShutStreamQueue(t)

Next ==
  \/ DllGetClassObject \/ CreateInstance \/ LockServer \/ DllCanUnloadNow
  \/ DetachObject \/ ReleaseActivator
  \/ \E t \in Callers :
       \/ ActivateObject(t) \/ ShutdownObject(t) \/ CallSteps(t)
       \/ \E s \in Sources :
            \/ ReleaseSource(t, s) \/ RequestSample(t, s) \/ Shutdown(t, s)
            \/ \E op \in Controls : Control(t, s, op)

Spec == Init /\ [][Next]_vars

------------------------------------------------------------------------------
(* Properties *)

Steps == {"none", "state", "active", "new", "event", "streamStarted", "check",
          "sample", "queue", "streamQueue"}
Ops == Controls \union {"none", "RequestSample", "Shutdown", "ShutdownObject"}
States == {"stopped", "running", "paused"}

(* Nobody has a pointer to a source whose initialisation has failed. *)
Made == {s \in Sources : built[s] = "ready"}

TypeOK ==
  /\ loaded \in BOOLEAN /\ objCount \in 0 .. MaxCount /\ locks \in 0 .. objCount
  /\ activator \in BOOLEAN /\ current \in {0} \union Made
  /\ built \in [Sources -> {"no", "ready", "broken"}]
  /\ held \in [Sources -> SUBSET Callers] /\ {s \in Sources : held[s] # {}} \subseteq Made
  /\ state \in [Sources -> States] /\ announced \in [Sources -> States]
  /\ active \in [Sources -> BOOLEAN]
  /\ shut \in [Sources -> SUBSET {"source", "stream"}]
  /\ call \in [Callers -> [op : Ops, source : {0} \union Made, at : Steps]]
  /\ clean \in [Sources -> BOOLEAN] /\ halted \subseteq Sources
  /\ unstarted \subseteq Callers /\ quiet \subseteq Callers

(* The DLL stays loaded while a client has an activator or a source of it   *)
(* or has locked it.                                                        *)
InUseIsLoaded ==
  activator \/ locks > 0 \/ (\E s \in Sources : held[s] # {}) => loaded

(* Calls that overlap may leave the state, the stream and the events at     *)
(* odds.  It does not last: after a Start, Stop or Pause that no other      *)
(* overlapped, _state, _active and the event announced last agree, until    *)
(* the queue is shut.                                                       *)
StateAgrees ==
  \A s \in Sources :
    ~InControl(s) /\ clean[s] /\ shut[s] = {} =>
      announced[s] = state[s] /\ active[s] = (state[s] = "running")

(* Once a Stop or Pause that no Start overlapped has returned, however many *)
(* other Stops and Pauses overlapped it, a request that begins is given no  *)
(* sample, unless a Start begins before the request does or before it       *)
(* returns.                                                                 *)
HaltedGivesNoSample == \A t \in quiet : call[t].at # "sample"
==============================================================================
