--------------------------- MODULE PhoneAppProofs ----------------------------
(****************************************************************************)
(* Proofs about PhoneApp for any number of activities, sources, jobs and    *)
(* images.  The invariants of PhoneApp's properties follow from SourceInv,  *)
(* which says which sources may be bound, PendingInv, which says where the  *)
(* current source stands in the queue of listeners, ImageInv and StatsInv.  *)
(****************************************************************************)
EXTENDS PhoneApp, TLAPS

USE BoundsAssumption

(* The living activity's sources are shut, but for the current one; nothing *)
(* else is bound; and the server is on as long as there is a current one.   *)
SourceInv ==
  /\ source # 0 => on /\ activity # 0 /\ owner[source] = activity
  /\ \A s \in Sources : owner[s] = activity /\ owner[s] # 0 /\ s # source => s \in shut
  /\ \A s \in bound : owner[s] = activity /\ owner[s] # 0
  /\ \A s \in provided : owner[s] # 0
  /\ on /\ source = 0 => orphaned

(* A source waits once at most, and the current one, if it does, is last:   *)
(* after its listener no other is called.                                   *)
PendingInv ==
  /\ \A i \in 1 .. Len(pending) : owner[pending[i]] # 0
  /\ \A i, j \in 1 .. Len(pending) : pending[i] = pending[j] => i = j
  /\ source # 0 /\ source \notin provided =>
       pending # <<>> /\ pending[Len(pending)] = source
  /\ source \in provided => pending = <<>>
  /\ source \in provided \ failed => bound = {source}

(* An image that is converted is not closed. *)
ImageInv ==
  /\ \A t \in tasks : t.step = "convert" => t.source \in open
  /\ ConvertsAlone

(* A job that runs and was launched last is the one that stop() knows. *)
StatsInv ==
  /\ launched \in jobs => statsJob = launched
  /\ StatsEnd

IInv == TypeOK /\ SourceInv /\ PendingInv /\ ImageInv /\ StatsInv

(* Every step is one of these. *)
LEMMA Steps ==
  ASSUME Next
  PROVE  \/ Start \/ Stop \/ Recompose \/ Recreate \/ Finish \/ Reopen
         \/ Ready \/ Listener
         \/ \E s \in Sources : Analyze(s)
         \/ \E t \in tasks : Close(t) \/ Publish(t)
  BY DEF Next

------------------------------------------------------------------------------
(* Types *)

(* The head of a queue is a source, and what is behind it is a queue. *)
LEMMA HeadAndTail ==
  ASSUME pending \in Seq(Sources), pending # <<>>
  PROVE  Head(pending) \in Sources /\ Tail(pending) \in Seq(Sources)
  OBVIOUS

(* Every step keeps the types; a job or an image gets the next number only  *)
(* below its bound.                                                         *)
LEMMA TypeStep ==
  ASSUME TypeOK, Next
  PROVE  TypeOK'
<1> USE DEF TypeOK, uiVars, sourceVars, cameraVars, imageVars
<1>1. CASE Start
  <2>1. launched' \in 0 .. MaxJobs /\ statsJob' \in 0 .. launched'
        /\ jobs' \subseteq 1 .. launched'
    BY <1>1 DEF Start
  <2>2. /\ source' \in 0 .. MaxSources
        /\ owner' \in [Sources -> 0 .. activities]
        /\ pending' \in Seq(Sources)
    <3>1. CASE UNCHANGED <<source, owner, pending>>
      BY <3>1
    <3>2. CASE \E s \in Sources : NewSource(s) /\ pending' = Append(pending, s)
      BY <3>2 DEF NewSource, Sources
    <3>3. QED
      BY <1>1, <3>1, <3>2 DEF Start, OpenCamera
  <2>3. QED
    BY <1>1, <2>1, <2>2 DEF Start
<1>2. CASE Stop
  <2>1. shut' \subseteq Sources /\ bound' \subseteq provided'
    <3>1. provided \subseteq Sources /\ bound \subseteq provided
      OBVIOUS
    <3>2. source \in Sources \/ source = 0
      BY DEF Sources
    <3>3. /\ shut' = IF source = 0 THEN shut ELSE shut \union {source}
          /\ bound' = IF source \in provided THEN {} ELSE bound
          /\ provided' = provided
      BY <1>2 DEF Stop, Shutdown
    <3>4. QED
      BY <3>1, <3>2, <3>3
  <2>2. /\ statsJob' \in 0 .. launched' /\ jobs' \subseteq 1 .. launched'
        /\ launched' \in 0 .. MaxJobs
    BY <1>2 DEF Stop, EndServer
  <2>3. on' \in BOOLEAN /\ orphaned' \in BOOLEAN /\ shown' \in BOOLEAN
    BY <1>2, Zenon DEF Stop, EndServer
  <2>4. source' \in 0 .. MaxSources
    BY <1>2 DEF Stop
  <2>5. /\ UNCHANGED <<activity, activities, owner, provided, failed, ready, pending>>
        /\ UNCHANGED <<images, open, tasks>>
    BY <1>2 DEF Stop
  <2>6. QED
    BY <2>1, <2>2, <2>3, <2>4, <2>5
<1>3. CASE Recompose
  BY <1>3 DEF Recompose
<1>4. CASE Recreate
  BY <1>4 DEF Recreate, StillBound
<1>5. CASE Finish
  <2>1. bound' \subseteq provided' /\ activity' \in 0 .. activities'
    BY <1>5 DEF Finish, StillBound
  <2>2. /\ statsJob' \in 0 .. launched' /\ jobs' \subseteq 1 .. launched'
        /\ launched' \in 0 .. MaxJobs
    BY <1>5 DEF Finish
  <2>3. on' \in BOOLEAN /\ orphaned' \in BOOLEAN /\ shown' \in BOOLEAN
    BY <1>5, Zenon DEF Finish
  <2>4. source' \in 0 .. MaxSources
    BY <1>5 DEF Finish
  <2>5. /\ UNCHANGED <<activities, owner, shut, provided, failed, ready, pending>>
        /\ UNCHANGED <<images, open, tasks>>
    BY <1>5 DEF Finish
  <2>6. QED
    BY <2>1, <2>2, <2>3, <2>4, <2>5
<1>6. CASE Reopen
  BY <1>6 DEF Reopen
<1>7. CASE Ready
  BY <1>7 DEF Ready
<1>8. CASE Listener
  BY <1>8, HeadAndTail DEF Listener, BindUseCases
<1>9. CASE \E s \in Sources : Analyze(s)
  BY <1>9 DEF Analyze
<1>10. CASE \E t \in tasks : Close(t) \/ Publish(t)
  BY <1>10 DEF Close, Publish, ToJpeg
<1>11. QED
  BY <1>1, <1>2, <1>3, <1>4, <1>5, <1>6, <1>7, <1>8, <1>9, <1>10, Steps

------------------------------------------------------------------------------
(* Sources and their listeners *)

(* Start makes the one source that is not shut, Stop shuts it, and a new    *)
(* activity owns none.                                                      *)
LEMMA SourceStep ==
  ASSUME TypeOK, SourceInv, PendingInv, Next
  PROVE  SourceInv'
<1> USE DEF SourceInv, TypeOK, Sources, uiVars, sourceVars, cameraVars, imageVars
<1>1. CASE Start
  <2>1. CASE UNCHANGED <<source, owner, pending>> /\ source # 0
    BY <1>1, <2>1 DEF Start
  <2>2. CASE \E s \in Sources : source = 0 /\ NewSource(s)
    BY <1>1, <2>2 DEF Start, NewSource
  <2>3. QED
    BY <1>1, <2>1, <2>2 DEF Start, OpenCamera
<1>2. CASE Stop
  BY <1>2 DEF Stop, EndServer, Shutdown
<1>3. CASE Recreate
  BY <1>3 DEF Recreate, StillBound
<1>4. CASE Finish
  BY <1>4 DEF Finish, StillBound
<1>5. CASE Reopen
  BY <1>5 DEF Reopen
<1>6. CASE Listener
  <2>1. owner[Head(pending)] # 0
    BY <1>6 DEF Listener, PendingInv
  <2>2. QED
    BY <1>6, <2>1 DEF Listener, BindUseCases
<1>7. CASE UNCHANGED <<activity, on, source, owner, shut, provided, bound, orphaned>>
  BY <1>7
<1>8. QED
  BY <1>1, <1>2, <1>3, <1>4, <1>5, <1>6, <1>7, Steps
  DEF Recompose, Ready, Analyze, Close, Publish

(* The source that Start makes goes to the end of the queue; a listener is  *)
(* the current source's only if it is the last.                             *)
LEMMA PendingStep ==
  ASSUME TypeOK, SourceInv, PendingInv, Next
  PROVE  PendingInv'
<1> USE DEF PendingInv, TypeOK, uiVars, sourceVars, cameraVars, imageVars
<1>1. CASE Start
  <2>1. CASE UNCHANGED <<source, owner, pending>>
    BY <1>1, <2>1 DEF Start
  <2>2. CASE \E s \in Sources : NewSource(s) /\ pending' = Append(pending, s)
    <3>1. PICK s \in Sources : NewSource(s) /\ pending' = Append(pending, s)
      BY <2>2
    <3>2. s # 0 /\ s \notin provided /\ owner[s] = 0 /\ source' = s
      BY <3>1 DEF NewSource, SourceInv, Sources
    <3>3. owner'[s] # 0 /\ \A t \in Sources : t # s => owner'[t] = owner[t]
      BY <1>1, <3>1 DEF NewSource, Start
    <3>4. /\ Len(pending') = Len(pending) + 1 /\ pending'[Len(pending')] = s
          /\ \A i \in 1 .. Len(pending) :
               pending'[i] = pending[i] /\ pending[i] \in Sources /\ pending[i] # s
      BY <3>1, <3>2
    <3>5. /\ \A i \in 1 .. Len(pending') : owner'[pending'[i]] # 0
          /\ \A i, j \in 1 .. Len(pending') : pending'[i] = pending'[j] => i = j
      <4>1. Len(pending) \in Nat
        OBVIOUS
      <4>2. \A i \in 1 .. Len(pending') :
              i = Len(pending') \/ i \in 1 .. Len(pending)
        BY <3>4, <4>1
      <4>3. \A i \in 1 .. Len(pending') : owner'[pending'[i]] # 0
        BY <3>3, <3>4, <4>2
      <4>4. QED
        BY <3>4, <4>2, <4>3
    <3>6. QED
      BY <1>1, <3>1, <3>2, <3>4, <3>5 DEF Start
  <2>3. QED
    BY <1>1, <2>1, <2>2 DEF Start, OpenCamera
<1>2. CASE Stop
  BY <1>2 DEF Stop, Shutdown, Sources
<1>3. CASE Recreate
  BY <1>3 DEF Recreate, Sources
<1>4. CASE Finish
  BY <1>4 DEF Finish, Sources
<1>5. CASE Listener
  <2>1. /\ Len(pending') = Len(pending) - 1 /\ Len(pending) > 0
        /\ \A i \in 1 .. Len(pending') : pending'[i] = pending[i + 1]
        /\ Head(pending) = pending[1]
    BY <1>5 DEF Listener
  <2>2. /\ \A i \in 1 .. Len(pending') : owner'[pending'[i]] # 0
        /\ \A i, j \in 1 .. Len(pending') : pending'[i] = pending'[j] => i = j
    BY <1>5, <2>1 DEF Listener
  <2>3. source \notin provided /\ source' = source
    BY <1>5 DEF Listener
  <2>4. CASE source = Head(pending)
    <3>1. Len(pending) = 1
      BY <2>1, <2>3, <2>4 DEF Sources
    <3>2. pending' = <<>>
      BY <1>5, <3>1 DEF Listener
    <3>3. source \in provided' /\ (source \notin failed' => bound' = {source})
      BY <1>5, <2>4 DEF Listener, BindUseCases
    <3>4. QED
      BY <2>2, <2>3, <3>2, <3>3
  <2>5. CASE source # Head(pending)
    <3>1. source \notin provided'
      BY <1>5, <2>3, <2>5 DEF Listener
    <3>2. source # 0 => pending' # <<>> /\ pending'[Len(pending')] = source
      BY <2>1, <2>3, <2>5
    <3>3. QED
      BY <2>2, <2>3, <3>1, <3>2
  <2>6. QED
    BY <2>4, <2>5
<1>6. CASE UNCHANGED <<pending, owner, source, provided, failed, bound>>
  BY <1>6
<1>7. QED
  BY <1>1, <1>2, <1>3, <1>4, <1>5, <1>6, Steps
  DEF Recompose, Reopen, Ready, Analyze, Close, Publish

------------------------------------------------------------------------------
(* Images and jobs *)

(* An image is analyzed only when no other is open, and closed only after   *)
(* its conversion.                                                          *)
LEMMA ImageStep ==
  ASSUME TypeOK, ImageInv, Next
  PROVE  ImageInv'
<1> USE DEF ImageInv, ConvertsAlone, TypeOK, uiVars, sourceVars, cameraVars, imageVars
<1>1. CASE \E s \in Sources : Analyze(s)
  BY <1>1 DEF Analyze
<1>2. CASE \E t \in tasks : Close(t)
  BY <1>2 DEF Close, ToJpeg
<1>3. CASE \E t \in tasks : Publish(t)
  BY <1>3 DEF Publish
<1>4. CASE UNCHANGED <<open, tasks>>
  BY <1>4
<1>5. QED
  BY <1>1, <1>2, <1>3, <1>4, Steps
  DEF Start, Stop, Recompose, Recreate, Finish, Reopen, Ready, Listener

(* stop() cancels the job it knows; onCleared() cancels them all.           *)
LEMMA StatsStep ==
  ASSUME TypeOK, StatsInv, Next
  PROVE  StatsInv'
<1> USE DEF StatsInv, StatsEnd, TypeOK, uiVars, sourceVars, cameraVars, imageVars
<1>1. CASE Start
  BY <1>1 DEF Start
<1>2. CASE Stop
  BY <1>2 DEF Stop, EndServer
<1>3. CASE Finish
  BY <1>3 DEF Finish
<1>4. CASE UNCHANGED <<on, statsJob, jobs, launched>>
  BY <1>4
<1>5. QED
  BY <1>1, <1>2, <1>3, <1>4, Steps
  DEF Recompose, Recreate, Reopen, Ready, Listener, Analyze, Close, Publish

------------------------------------------------------------------------------
(* Theorems *)

LEMMA InitInv ==
  ASSUME Init
  PROVE  IInv
<1> USE DEF Init
<1>1. TypeOK
  <2>1. owner \in [Sources -> 0 .. activities] /\ pending \in Seq(Sources)
    OBVIOUS
  <2>2. source \in 0 .. MaxSources /\ images \in 0 .. MaxImages /\ launched \in 0 .. MaxJobs
    OBVIOUS
  <2>3. on \in BOOLEAN /\ shown \in BOOLEAN /\ orphaned \in BOOLEAN /\ ready \in BOOLEAN
    BY Zenon
  <2>4. QED
    BY <2>1, <2>2, <2>3 DEF TypeOK
<1>2. SourceInv /\ PendingInv
  BY DEF SourceInv, PendingInv, Sources
<1>3. ImageInv /\ StatsInv
  BY DEF ImageInv, ConvertsAlone, StatsInv, StatsEnd
<1>4. QED
  BY <1>1, <1>2, <1>3 DEF IInv

LEMMA NextInv ==
  ASSUME IInv, [Next]_vars
  PROVE  IInv'
<1>1. CASE Next
  BY <1>1, TypeStep, SourceStep, PendingStep, ImageStep, StatsStep DEF IInv
<1>2. CASE UNCHANGED vars
  <2> USE <1>2 DEF IInv, vars, uiVars, sourceVars, cameraVars, imageVars
  <2>1. TypeOK'
    BY DEF TypeOK
  <2>2. SourceInv' /\ PendingInv'
    BY DEF SourceInv, PendingInv
  <2>3. ImageInv' /\ StatsInv'
    BY DEF ImageInv, ConvertsAlone, StatsInv, StatsEnd
  <2>4. QED
    BY <2>1, <2>2, <2>3
<1>3. QED
  BY <1>1, <1>2

(* The inductive invariant of sources, listeners, images and jobs.          *)
THEOREM Invariant == Spec => []IInv
  BY InitInv, NextInv, PTL DEF Spec

(* Every variable has its type; only sources whose listener was called are  *)
(* bound.                                                                   *)
THEOREM TypeCorrect == Spec => []TypeOK
<1>1. IInv => TypeOK
  BY DEF IInv
<1>2. QED
  BY <1>1, Invariant, PTL

(* The two analyzer threads of a source never convert images at once. *)
THEOREM ConvertedAlone == Spec => []ConvertsAlone
<1>1. IInv => ConvertsAlone
  BY DEF IInv, ImageInv
<1>2. QED
  BY <1>1, Invariant, PTL

(* Whichever listeners are still to be called, a server that is on has the  *)
(* camera as soon as its own listener was called, but for the exceptions    *)
(* that OnHasCamera names.                                                  *)
THEOREM CameraOfServer == Spec => []OnHasCamera
<1>1. IInv => OnHasCamera
  BY DEF IInv, SourceInv, PendingInv, OnHasCamera
<1>2. QED
  BY <1>1, Invariant, PTL

(* stop() leaves no job that the last start() launched. *)
THEOREM StatsEnded == Spec => []StatsEnd
<1>1. IInv => StatsEnd
  BY DEF IInv, StatsInv
<1>2. QED
  BY <1>1, Invariant, PTL

(* No picture is taken while the server is off: whatever is bound then      *)
(* belongs to the living activity, which has no current source, so it is    *)
(* shut.                                                                    *)
LEMMA OffTakesNoPicture ==
  ASSUME IInv, [Next]_vars, ~on
  PROVE  images' = images
<1>1. bound \subseteq shut
  BY DEF IInv, SourceInv, TypeOK
<1>2. CASE \E s \in Sources : Analyze(s)
  BY <1>1, <1>2 DEF Analyze
<1>3. CASE UNCHANGED images
  BY <1>3
<1>4. QED
  BY <1>2, <1>3, Steps
  DEF Start, Stop, Recompose, Recreate, Finish, Reopen, Ready, Listener, Close,
      Publish, vars, imageVars

THEOREM NoPictureTaken == Spec => NoPictureWhileOff
<1>1. IInv /\ [Next]_vars => [~on => images' = images]_vars
  BY OffTakesNoPicture
<1>2. QED
  BY <1>1, Invariant, PTL DEF Spec, NoPictureWhileOff

------------------------------------------------------------------------------
(* The camera of a server that was started *)

CameraTurn ==
  source # 0 /\ source' = source =>
    /\ ready => ready'
    /\ Len(pending') <= Len(pending)
    /\ Listener => Len(pending') < Len(pending)
    /\ Listener /\ Len(pending) = 1 => bound' = {source} \/ source \in failed'
    /\ bound = {source} => bound' = {source}

LEMMA ListenerTurn ==
  ASSUME IInv, Listener, source # 0
  PROVE  /\ Len(pending) \in Nat /\ Len(pending') < Len(pending)
         /\ Len(pending) = 1 => bound' = {source} \/ source \in failed'
         /\ bound # {source}
<1>1. pending \in Seq(Sources) /\ pending # <<>> /\ pending' = Tail(pending)
  BY DEF Listener, IInv, TypeOK
<1>2. Len(pending) \in Nat /\ Len(pending') < Len(pending) /\ Head(pending) = pending[1]
  BY <1>1
<1>3. source \notin provided /\ pending[Len(pending)] = source
  BY <1>1 DEF IInv, PendingInv
<1>4. Len(pending) = 1 => Head(pending) = source
  BY <1>2, <1>3
<1>5. bound' = {Head(pending)} \/ Head(pending) \in failed'
  <2>1. BindUseCases(Head(pending))
    BY DEF Listener
  <2>2. QED
    BY <2>1 DEF BindUseCases
<1>6. bound \subseteq provided
  BY DEF IInv, TypeOK
<1>7. QED
  BY <1>2, <1>3, <1>4, <1>5, <1>6

(* The camera of a server that is on does come, once the provider has       *)
(* arrived: the listeners called before its own become fewer, no other is   *)
(* put before them, its own binds the camera or fails, and what it has      *)
(* bound stays as long as the source is the current one.                    *)
THEOREM CameraComes == Spec => [][CameraTurn]_vars
<1>1. IInv /\ [Next]_vars => [CameraTurn]_vars
  <2> SUFFICES ASSUME IInv, Next, source # 0, source' = source
               PROVE  CameraTurn
    BY DEF CameraTurn
  <2>1. Len(pending) \in Nat
    BY DEF IInv, TypeOK
  <2>2. CASE Listener
    <3>1. ready' = ready
      BY <2>2 DEF Listener
    <3>2. QED
      BY <2>1, <2>2, <3>1, ListenerTurn DEF CameraTurn
  <2>3. ASSUME ~ Listener, UNCHANGED <<pending, bound>>, ready => ready'
        PROVE  CameraTurn
    BY <2>1, <2>3 DEF CameraTurn
  <2>4. ~ Stop /\ ~ Recreate /\ ~ Finish
    BY DEF Stop, Recreate, Finish
  <2>5. CASE Start
    <3>1. UNCHANGED <<pending, bound, ready>>
      BY <2>5 DEF Start, OpenCamera
    <3>2. ~ Listener
      BY <2>1, <3>1, ListenerTurn
    <3>3. QED
      BY <2>3, <3>1, <3>2
  <2>6. CASE ~ Listener /\ ~ Start
    <3>1. UNCHANGED <<pending, bound>> /\ (ready => ready')
      <4>1. CASE Recompose \/ Reopen \/ Ready
        BY <4>1 DEF Recompose, Reopen, Ready, cameraVars
      <4>2. ASSUME NEW s \in Sources, Analyze(s)
            PROVE  UNCHANGED cameraVars
        BY <4>2 DEF Analyze
      <4>3. ASSUME NEW t \in tasks, Close(t) \/ Publish(t)
            PROVE  UNCHANGED cameraVars
        BY <4>3 DEF Close, Publish
      <4>4. UNCHANGED cameraVars => UNCHANGED <<pending, bound, ready>>
        BY DEF cameraVars
      <4>5. QED
        BY <2>4, <2>6, <4>1, <4>2, <4>3, <4>4, Steps
    <3>2. QED
      BY <2>3, <2>6, <3>1
  <2>7. QED
    BY <2>2, <2>5, <2>6
<1>2. QED
  BY Invariant, <1>1, PTL DEF Spec
==============================================================================
