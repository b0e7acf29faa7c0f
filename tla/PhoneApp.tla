------------------------------ MODULE PhoneApp -------------------------------
(****************************************************************************)
(* The phone's application around MjpegServer: the activity and its camera  *)
(* controller (MainActivity.kt), the view model (GVCamViewModel.kt), the    *)
(* two buttons (App.kt) and the camera source (AndroidCameraSource.kt).     *)
(*                                                                          *)
(* Clicks, callbacks of the activity's life and listeners run on the main   *)
(* thread, each as one step: viewModelScope dispatches at once there, and   *)
(* the controller's functions never suspend.  Images are handled by two     *)
(* threads per camera source.  CameraX (external): the provider arrives     *)
(* later and calls the listeners in the order they were added, a destroyed  *)
(* activity loses its camera and cannot bind one, and the next image is not *)
(* analyzed before the last one was closed.                                 *)
(****************************************************************************)
EXTENDS Integers, Sequences, FiniteSets

CONSTANTS
  MaxActivities,  \* bound: activities created
  MaxSources,     \* bound: camera sources created
  MaxJobs,        \* bound: statistics jobs launched
  MaxImages       \* bound: images taken

ASSUME BoundsAssumption ==
  /\ MaxActivities \in Nat \ {0} /\ MaxSources \in Nat
  /\ MaxJobs \in Nat /\ MaxImages \in Nat

Sources == 1 .. MaxSources
Jobs == 1 .. MaxJobs

VARIABLES
  activity,    \* the living activity, or 0
  activities,  \* how many there have been
  on,          \* isServerRunning and isCameraActive
  shown,       \* what the buttons on the screen know of it
  statsJob,    \* statsJob, or 0
  jobs,        \* the statistics jobs that run
  launched,    \* how many were launched
  source,      \* cameraSource of the living activity, or 0
  owner,       \* the activity that created each source, or 0
  shut,        \* the sources whose executor was shut down
  provided,    \* the sources whose cameraProvider is set
  failed,      \* history: the sources whose use cases could not be bound
  orphaned,    \* history: the activity was recreated while the server was on
  ready,       \* the provider has arrived
  pending,     \* the listeners that wait for it or for the main thread
  bound,       \* the sources whose use cases are bound
  images,      \* how many images were taken
  open,        \* the sources whose last image is not closed
  tasks        \* the analyzer calls going on: source, image and step

uiVars == <<on, shown, statsJob, jobs, launched>>
sourceVars == <<owner, shut, provided, failed>>
cameraVars == <<ready, pending, bound>>
imageVars == <<images, open, tasks>>
vars == <<activity, activities, uiVars, source, sourceVars, orphaned,
          cameraVars, imageVars>>

Init ==
  /\ activity = 1 /\ activities = 1
  /\ on = FALSE /\ shown = FALSE
  /\ statsJob = 0 /\ jobs = {} /\ launched = 0
  /\ source = 0 /\ owner = [s \in Sources |-> 0]
  /\ shut = {} /\ provided = {} /\ failed = {} /\ orphaned = FALSE
  /\ ready = FALSE /\ pending = <<>> /\ bound = {}
  /\ images = 0 /\ open = {} /\ tasks = {}

------------------------------------------------------------------------------
(* The buttons *)

(* A source that was not used before is created. *)
NewSource(s) ==
  /\ owner[s] = 0 /\ \A t \in 1 .. s - 1 : owner[t] # 0
  /\ source' = s /\ owner' = [owner EXCEPT ![s] = activity]

(* Mutant: the source is created and not started. *)
OpenCamera_NotStarted ==
  \/ source # 0 /\ UNCHANGED <<source, owner, pending>>
  \/ source = 0 /\ UNCHANGED pending /\ \E s \in Sources : NewSource(s)

(* Mutant: a source is created whether there is one or not. *)
OpenCamera_Always ==
  \E s \in Sources : NewSource(s) /\ pending' = Append(pending, s)

(* The controller's start: a source, if there is none, whose listener is    *)
(* added to the provider's future.                                          *)
OpenCamera ==
  \/ source # 0 /\ UNCHANGED <<source, owner, pending>>
  \/ /\ source = 0
     /\ \E s \in Sources : NewSource(s) /\ pending' = Append(pending, s)

(* "Start Server", enabled until the screen shows that the server runs. *)
Start ==
  /\ activity # 0 /\ ~shown /\ launched < MaxJobs
  /\ OpenCamera
  /\ on' = TRUE
  /\ launched' = launched + 1
  /\ statsJob' = launched' /\ jobs' = jobs \union {launched'}
  /\ orphaned' = IF source = 0 THEN FALSE ELSE orphaned
  /\ UNCHANGED <<activity, activities, shown, shut, provided, failed, ready,
                 bound, imageVars>>

(* AndroidCameraSource.shutdown: everything is unbound, if this source has  *)
(* the provider.                                                            *)
Shutdown ==
  /\ shut' = IF source = 0 THEN shut ELSE shut \union {source}
  /\ bound' = IF source \in provided THEN {} ELSE bound

(* Mutant: the statistics job is forgotten, not cancelled. *)
EndServer_ForgetsJob ==
  /\ statsJob' = 0 /\ UNCHANGED jobs
  /\ on' = FALSE /\ orphaned' = FALSE

(* stop() of the view model, up to its last coroutine. *)
EndServer ==
  /\ statsJob' = 0 /\ jobs' = jobs \ {statsJob}
  /\ on' = FALSE /\ orphaned' = FALSE

(* "Stop", enabled until the screen shows that the server is off: its last  *)
(* coroutine is the controller's stop.                                      *)
Stop ==
  /\ activity # 0 /\ shown
  /\ EndServer
  /\ Shutdown /\ source' = 0
  /\ UNCHANGED <<activity, activities, shown, launched, owner, provided,
                 failed, ready, pending, imageVars>>

Recompose ==
  /\ activity # 0 /\ shown # on
  /\ shown' = on
  /\ UNCHANGED <<activity, activities, on, statsJob, jobs, launched, source,
                 sourceVars, orphaned, cameraVars, imageVars>>

------------------------------------------------------------------------------
(* The life of the activity *)

(* What is bound once the activity is destroyed. *)
StillBound == {s \in bound : owner[s] # activity}

(* The activity is recreated: a rotation, or the permission was granted.    *)
(* The view model stays; the new activity has no camera source, and its     *)
(* controller takes the place of the old one before a button can be used.   *)
Recreate ==
  /\ activity # 0 /\ activities < MaxActivities
  /\ activities' = activities + 1 /\ activity' = activities'
  /\ source' = 0 /\ orphaned' = (orphaned \/ on)
  /\ bound' = StillBound
  /\ shown' = on
  /\ UNCHANGED <<on, statsJob, jobs, launched, sourceVars, ready, pending,
                 imageVars>>

(* The activity is closed: onCleared() calls stop() when its scope is       *)
(* cancelled, with all jobs in it, so the controller is not told.           *)
Finish ==
  /\ activity # 0
  /\ activity' = 0
  /\ on' = FALSE /\ shown' = FALSE /\ orphaned' = FALSE
  /\ statsJob' = 0 /\ jobs' = {}
  /\ source' = 0 /\ bound' = StillBound
  /\ UNCHANGED <<activities, launched, sourceVars, ready, pending, imageVars>>

(* The application is opened again, with a new view model. *)
Reopen ==
  /\ activity = 0 /\ activities < MaxActivities
  /\ activities' = activities + 1 /\ activity' = activities'
  /\ UNCHANGED <<uiVars, source, sourceVars, orphaned, cameraVars, imageVars>>
------------------------------------------------------------------------------
(* The camera *)

(* The provider arrives (external). *)
Ready ==
  /\ ~ready
  /\ ready' = TRUE
  /\ UNCHANGED <<activity, activities, uiVars, source, sourceVars, orphaned,
                 pending, bound, imageVars>>

(* Mutant: what is bound stays bound. *)
BindUseCases_KeepsOthers(s) ==
  \/ /\ owner[s] = activity
     /\ bound' = bound \union {s} /\ UNCHANGED failed
  \/ failed' = failed \union {s} /\ UNCHANGED bound

(* bindUseCases: everything is unbound, then binding may fail, and does for *)
(* a destroyed activity.                                                    *)
BindUseCases(s) ==
  \/ /\ owner[s] = activity
     /\ bound' = {s} /\ UNCHANGED failed
  \/ bound' = {} /\ failed' = failed \union {s}

(* Mutant: the provider is used and not kept. *)
Listener_Forgets ==
  /\ ready /\ pending # <<>>
  /\ pending' = Tail(pending)
  /\ BindUseCases(Head(pending))
  /\ UNCHANGED <<activity, activities, uiVars, source, owner, shut, provided,
                 orphaned, ready, imageVars>>

(* The first listener is called. *)
Listener ==
  /\ ready /\ pending # <<>>
  /\ pending' = Tail(pending)
  /\ provided' = provided \union {Head(pending)}
  /\ BindUseCases(Head(pending))
  /\ UNCHANGED <<activity, activities, uiVars, source, owner, shut, orphaned,
                 ready, imageVars>>

TasksOf(s) == {t \in tasks : t.source = s}

(* The analyzer is called with a new image on a free thread of the pool. *)
Analyze(s) ==
  /\ s \in bound \ shut /\ s \notin open
  /\ Cardinality(TasksOf(s)) < 2 /\ images < MaxImages
  /\ images' = images + 1
  /\ open' = open \union {s}
  /\ tasks' = tasks \union {[source |-> s, image |-> images', step |-> "convert"]}
  /\ UNCHANGED <<activity, activities, uiVars, source, sourceVars, orphaned,
                 cameraVars>>

(* Mutant: image.close() precedes image.toJpeg(). *)
Close_First(t) ==
  /\ t \in tasks /\ t.step = "convert" /\ t.source \in open
  /\ open' = open \ {t.source}
  /\ UNCHANGED tasks
  /\ UNCHANGED <<activity, activities, uiVars, source, sourceVars, orphaned,
                 cameraVars, images>>

(* What toJpeg leaves of a call: a JPEG to publish, or nothing. *)
ToJpeg(t) == {{[t EXCEPT !.step = "publish"]}, {}}

(* toJpeg has returned, and the image is closed. *)
Close(t) ==
  /\ t \in tasks /\ t.step = "convert"
  /\ open' = open \ {t.source}
  /\ \E rest \in ToJpeg(t) : tasks' = (tasks \ {t}) \union rest
  /\ UNCHANGED <<activity, activities, uiVars, source, sourceVars, orphaned,
                 cameraVars, images>>

(* onFrame: the server takes the frame, whether it is newer than the last   *)
(* or not, and whether it runs or not.                                      *)
Publish(t) ==
  /\ t \in tasks /\ t.step = "publish"
  /\ tasks' = tasks \ {t}
  /\ UNCHANGED <<activity, activities, uiVars, source, sourceVars, orphaned,
                 cameraVars, images, open>>

Next ==
  \/ Start \/ Stop \/ Recompose \/ Recreate \/ Finish \/ Reopen
  \/ Ready \/ Listener
  \/ \E s \in Sources : Analyze(s)
  \/ \E t \in tasks : Close(t) \/ Publish(t)

Spec == Init /\ [][Next]_vars

(* The provider arrives some time, and the main thread calls the listeners. *)
FairSpec == Spec /\ WF_vars(Ready) /\ WF_vars(Listener)

------------------------------------------------------------------------------
(* Properties *)

TypeOK ==
  /\ activity \in 0 .. activities /\ activities \in 1 .. MaxActivities
  /\ on \in BOOLEAN /\ shown \in BOOLEAN /\ orphaned \in BOOLEAN
  /\ launched \in 0 .. MaxJobs /\ statsJob \in 0 .. launched
  /\ jobs \subseteq 1 .. launched
  /\ source \in 0 .. MaxSources
  /\ owner \in [Sources -> 0 .. activities]
  /\ shut \subseteq Sources /\ provided \subseteq Sources
  /\ failed \subseteq provided /\ bound \subseteq provided
  /\ ready \in BOOLEAN /\ pending \in Seq(Sources)
  /\ images \in 0 .. MaxImages /\ open \subseteq Sources
  /\ tasks \subseteq
       [source : Sources, image : 1 .. images, step : {"convert", "publish"}]

(* The two threads of a source share nv21Buffer: they never convert images  *)
(* at the same time.                                                        *)
ConvertsAlone ==
  \A t, u \in tasks :
    t.source = u.source /\ t.step = "convert" /\ u.step = "convert" => t = u

(* A server that is on has a camera source in the living activity, and once *)
(* the listener of this source was called, it and no other has the camera:  *)
(* no listener of an earlier source, stopped before it was called, comes    *)
(* between.  Two exceptions: the activity was recreated in the meantime, or *)
(* the camera could not be bound.                                           *)
OnHasCamera ==
  on /\ ~orphaned =>
    source # 0 /\ (source \in provided \ failed => bound = {source})

(* While the server is off no picture is taken, although a camera may be    *)
(* bound (see CameraOffWhenInactive): its executor takes no more images.    *)
NoPictureWhileOff == [][~on => images' = images]_vars

(* After stop() no statistics job runs that was launched by the last        *)
(* start(): what is left are jobs that a second start() replaced, before    *)
(* the screen knew of the first.                                            *)
StatsEnd == ~on => statsJob = 0 /\ launched \notin jobs

(* A server that was started gets its camera, however often it was stopped  *)
(* and started before, unless it is stopped, the activity recreated or      *)
(* closed, or the camera cannot be bound.                                   *)
StartedCameraBinds ==
  \A s \in Sources :
    on /\ source = s ~> source # s \/ s \in failed \/ bound = {s}

(* "Camera not active" (App.kt:39) is shown while no camera is bound, as    *)
(* soon as no listener waits any more.                                      *)
CameraOffWhenInactive == ~on /\ pending = <<>> => bound = {}
==============================================================================
