-------------------------- MODULE MjpegServerProofs --------------------------
(****************************************************************************)
(* Proofs about MjpegServer for any number of starts, clients and frames:   *)
(* what a client receives, and that broadcasts exclude each other.  LockInv *)
(* says who holds the lock, GreetInv that a connection is handled by one    *)
(* coroutine and reaches the map only when it was greeted, FrameInv that a  *)
(* frame is in one place and that the client whose turn comes lacks it.     *)
(****************************************************************************)
EXTENDS MjpegServer, SequenceTheorems, FiniteSetTheorems, TLAPS

USE ClientsAssumption, BoundsAssumption

(* The lock belongs to the sender that is in a round. *)
LockInv == \A s \in Starts : sender[s] = "writing" <=> lock = s

Received(c) == {inbox[c][i] : i \in DOMAIN inbox[c]}
Greeting(s) == acceptor[s] \in {"handling", "greeting"}

GreetInv ==
  /\ \A c \in clientStreams : inbox[c] # <<>>
  /\ \A s \in Starts : acceptor[s] \in {"adding", "putting"} =>
       peer[s] \in Clients /\ inbox[peer[s]] # <<>>
  /\ \A s \in Starts : Greeting(s) =>
       /\ peer[s] \in Clients /\ inbox[peer[s]] = <<>>
       /\ conn[peer[s]] \notin {"new", "queued"}
  /\ \A s, t \in Starts : Greeting(s) /\ Greeting(t) /\ peer[s] = peer[t] => s = t
  /\ \A c \in Clients : conn[c] \in {"new", "queued"} => inbox[c] = <<>>

(* A sender that took a frame has it until its round is over. *)
Holding(s) == sender[s] \in {"took", "locking", "writing"}

(* The clients that the frame a sender holds must not have reached yet. *)
Ahead(s) == IF sender[s] = "writing" THEN todo[s] ELSE Clients

FrameInv ==
  /\ latestFrame <= captured
  /\ \A c \in Clients : \A f \in Received(c) : f <= captured
  /\ latestFrame # 0 => \A c \in Clients : latestFrame \notin Received(c)
  /\ \A s \in Starts : Holding(s) =>
       /\ item[s] # 0 /\ item[s] <= captured /\ item[s] # latestFrame
       /\ \A c \in Ahead(s) : item[s] \notin Received(c)
  /\ \A s, t \in Starts :
       Holding(s) /\ Holding(t) /\ item[s] = item[t] => s = t

(* stop() is only under way when there was a start, and a sender runs only  *)
(* when its start was called.                                               *)
StartInv ==
  /\ main # "idle" => starts # 0
  /\ \A s \in Starts : s > starts => sender[s] = "none"

IInv ==
  /\ TypeOK /\ StartInv /\ LockInv /\ GreetInv /\ FrameInv
  /\ HeaderFirst /\ NoFrameTwice

(* Every step is one of these. *)
LEMMA StepCases ==
  ASSUME Next
  PROVE  \/ Start \/ Stop \/ StopCloseClients \/ StopClearClients
         \/ StopClearStreams \/ StopCloseSocket \/ StopForgetSocket \/ StopCancel
         \/ SendFrame \/ (\E c \in Clients : Connect(c) \/ Disconnect(c))
         \/ \E s \in Starts :
              \/ AcceptorBind(s) \/ AcceptorAssign(s) \/ AcceptorLoop(s)
              \/ AcceptorCall(s) \/ AcceptorClosed(s) \/ HandleEnter(s)
              \/ HandleGreet(s) \/ HandleAdd(s) \/ HandlePut(s) \/ HandleLeave(s)
              \/ SenderBegin(s) \/ SenderLoop(s) \/ SenderTake(s)
              \/ SenderDecide(s) \/ SenderLock(s) \/ SenderCancelled(s)
              \/ SenderUnlock(s) \/ SenderDelay(s)
              \/ \E c \in Clients : AcceptorAccept(s, c) \/ SenderWrite(s, c)
  BY DEF Next, StopSteps, AcceptorSteps, SenderSteps

(* The steps that write to a client; the others leave every inbox alone.    *)
Delivery(s, c) ==
  /\ sender[s] = "writing" /\ c \in todo[s] /\ c \in clientStreams
  /\ inbox' = [inbox EXCEPT ![c] = Append(@, item[s])]
Writes(s) ==
  \/ acceptor[s] = "greeting" /\ inbox' = [inbox EXCEPT ![peer[s]] = Append(@, Header)]
  \/ \E c \in Clients : Delivery(s, c)

LEMMA InboxSteps ==
  ASSUME [Next]_vars
  PROVE  inbox' = inbox \/ \E s \in Starts : Writes(s)
<1>1. CASE UNCHANGED vars
  BY <1>1 DEF vars, clientVars
<1>2. ASSUME NEW s \in Starts, HandleGreet(s)
      PROVE  inbox' = inbox \/ Writes(s)
  BY <1>2 DEF HandleGreet, Accepting, Writes
<1>3. ASSUME NEW s \in Starts, NEW c \in Clients, SenderWrite(s, c)
      PROVE  inbox' = inbox \/ Writes(s)
  BY <1>3 DEF SenderWrite, WritePacket, Drop, Delivery, Writes
<1>4. CASE Next
  BY <1>2, <1>3, <1>4, StepCases
  DEF Start, Stop, Stopping, StopCloseClients, StopClearClients, StopClearStreams,
      StopCloseSocket, StopForgetSocket, StopCancel, SendFrame, Connect, Disconnect,
      Accepting, AcceptorBind, AcceptorAssign, AcceptorLoop, AcceptorCall,
      AcceptorClosed, AcceptorAccept, HandleEnter, HandleAdd, HandlePut,
      HandleLeave, Sending, SenderBegin, SenderLoop, SenderTake, SenderDecide,
      SenderLock, SenderCancelled, SenderUnlock, SenderDelay, clientVars
<1>5. QED
  BY <1>1, <1>4

(* What one packet more does to an inbox. *)
LEMMA Packet ==
  ASSUME TypeOK, NEW c \in Clients, NEW x \in 0 .. MaxFrames,
         inbox' = [inbox EXCEPT ![c] = Append(@, x)]
  PROVE  /\ inbox' \in [Clients -> Seq(0 .. MaxFrames)]
         /\ inbox'[c] # <<>>
         /\ \A d \in Clients : d # c => inbox'[d] = inbox[d]
         /\ DOMAIN inbox[c] = 1 .. Len(inbox[c])
         /\ DOMAIN inbox'[c] = 1 .. Len(inbox[c]) + 1
         /\ \A i \in DOMAIN inbox[c] : inbox'[c][i] = inbox[c][i]
         /\ inbox'[c][Len(inbox[c]) + 1] = x
         /\ Len(inbox[c]) \in Nat
         /\ inbox[c] # <<>> => Len(inbox[c]) # 0
         /\ inbox[c] = <<>> => Len(inbox[c]) = 0
         /\ Received(c)' = Received(c) \union {x}
         /\ \A d \in Clients : d # c => Received(d)' = Received(d)
<1> DEFINE q == inbox[c]
<1>1. q \in Seq(0 .. MaxFrames) /\ inbox'[c] = Append(q, x)
  BY DEF TypeOK
<1>2. /\ Append(q, x) \in Seq(0 .. MaxFrames)
      /\ Len(q) \in Nat /\ DOMAIN q = 1 .. Len(q)
      /\ Len(Append(q, x)) = Len(q) + 1
      /\ DOMAIN Append(q, x) = 1 .. Len(q) + 1
      /\ \A i \in 1 .. Len(q) : Append(q, x)[i] = q[i]
      /\ Append(q, x)[Len(q) + 1] = x
  BY <1>1
<1>3. /\ inbox' \in [Clients -> Seq(0 .. MaxFrames)]
      /\ \A d \in Clients : d # c => inbox'[d] = inbox[d]
  BY <1>1, <1>2 DEF TypeOK
<1>4. /\ inbox'[c] # <<>>
      /\ q # <<>> => Len(q) # 0
      /\ q = <<>> => Len(q) = 0
  BY <1>1, AppendProperties, EmptySeq
<1>5. Received(c)' = Received(c) \union {x}
  BY <1>1, <1>2 DEF Received
<1>6. \A d \in Clients : d # c => Received(d)' = Received(d)
  BY <1>3 DEF Received
<1>7. QED
  BY <1>1, <1>2, <1>3, <1>4, <1>5, <1>6

LEMMA InitInv == Init => IInv
<1> SUFFICES ASSUME Init PROVE IInv
  OBVIOUS
<1>1. \A c \in Clients : inbox[c] = <<>>
  BY DEF Init
<1>2. \A c \in Clients : Received(c) = {}
  <2>1. DOMAIN <<>> = {}
    OBVIOUS
  <2>2. QED
    BY <1>1, <2>1 DEF Received
<1>3. inbox \in [Clients -> Seq(0 .. MaxFrames)]
  <2>1. <<>> \in Seq(0 .. MaxFrames)
    BY EmptySeq
  <2>2. QED
    BY <2>1 DEF Init
<1>4. TypeOK
  <2>1. running \in BOOLEAN
    BY Zenon DEF Init
  <2>2. QED
    BY <1>3, <2>1 DEF Init, TypeOK, MainPCs, AcceptorPCs, SenderPCs, ConnStates, Starts
<1>5. LockInv /\ FrameInv /\ StartInv
  BY <1>2 DEF Init, LockInv, FrameInv, Holding, Starts, StartInv
<1>6. GreetInv
  BY <1>1 DEF Init, GreetInv, Greeting, Starts
<1>7. HeaderFirst /\ NoFrameTwice
  <2>1. DOMAIN <<>> = {}
    OBVIOUS
  <2>2. QED
    BY <1>1, <2>1 DEF HeaderFirst, NoFrameTwice
<1>8. QED
  BY <1>4, <1>5, <1>6, <1>7 DEF IInv

(* The values a client was sent stay what they are.                         *)
LEMMA InboxType ==
  ASSUME IInv, [Next]_vars
  PROVE  inbox' \in [Clients -> Seq(0 .. MaxFrames)]
<1>1. ASSUME NEW s \in Starts, Writes(s)
      PROVE  inbox' \in [Clients -> Seq(0 .. MaxFrames)]
  <2>1. CASE \E c \in Clients : Delivery(s, c)
    <3>1. PICK c \in Clients : Delivery(s, c)
      BY <2>1
    <3>2. item[s] \in 0 .. MaxFrames
      BY DEF IInv, TypeOK
    <3>3. QED
      BY <3>1, <3>2, Packet DEF IInv, Delivery
  <2>2. CASE acceptor[s] = "greeting" /\ inbox' = [inbox EXCEPT ![peer[s]] = Append(@, Header)]
    <3>1. peer[s] \in Clients /\ Header \in 0 .. MaxFrames
      BY <2>2 DEF IInv, GreetInv, Greeting, Header
    <3>2. QED
      BY <2>2, <3>1, Packet DEF IInv
  <2>3. QED
    BY <1>1, <2>1, <2>2 DEF Writes
<1>2. CASE inbox' = inbox
  BY <1>2 DEF IInv, TypeOK
<1>3. QED
  BY <1>1, <1>2, InboxSteps

LEMMA RunningType ==
  ASSUME TypeOK, Next
  PROVE  running' \in BOOLEAN
<1>1. CASE UNCHANGED running
  BY <1>1, Zenon DEF TypeOK
<1>2. CASE Start \/ Stop
  BY <1>2, Zenon DEF Start, Stop
<1>3. QED
  BY <1>1, <1>2, StepCases
  DEF Stopping, StopCloseClients, StopClearClients, StopClearStreams,
      StopCloseSocket, StopForgetSocket, StopCancel, SendFrame, Connect, Disconnect,
      Accepting, AcceptorBind, AcceptorAssign, AcceptorLoop, AcceptorCall,
      AcceptorClosed, AcceptorAccept, HandleEnter, HandleGreet, HandleAdd, HandlePut,
      HandleLeave, Sending, SenderBegin, SenderLoop, SenderTake, SenderDecide,
      SenderLock, SenderCancelled, SenderUnlock, SenderDelay, SenderWrite, mainVars

LEMMA NextType ==
  ASSUME IInv, Next
  PROVE  TypeOK' /\ StartInv'
<1> USE DEF IInv, TypeOK, StartInv
<1>1. inbox' \in [Clients -> Seq(0 .. MaxFrames)] /\ running' \in BOOLEAN
  BY InboxType, RunningType
<1> USE <1>1 DEF mainVars, acceptorVars, senderVars, socketVars, listVars, clientVars,
            frameVars, Starts, Stopping, Accepting, Sending, UnlessCancelled,
            MainPCs, AcceptorPCs, SenderPCs, ConnStates
<1>2. CASE Start
  BY <1>2 DEF Start
<1>3. CASE Stop
  BY <1>3 DEF Stop
<1>4. CASE StopCloseClients
  BY <1>4 DEF StopCloseClients
<1>5. CASE StopClearClients
  BY <1>5 DEF StopClearClients
<1>6. CASE StopClearStreams
  BY <1>6 DEF StopClearStreams
<1>7. CASE StopCloseSocket
  BY <1>7 DEF StopCloseSocket
<1>8. CASE StopForgetSocket
  BY <1>8 DEF StopForgetSocket
<1>9. CASE StopCancel
  BY <1>9 DEF StopCancel
<1>10. CASE SendFrame
  BY <1>10 DEF SendFrame
<1>11. CASE \E c \in Clients : Connect(c)
  BY <1>11 DEF Connect
<1>12. CASE \E c \in Clients : Disconnect(c)
  BY <1>12 DEF Disconnect
<1>13. CASE \E s \in Starts : AcceptorBind(s)
  <2>1. PICK s \in Starts : AcceptorBind(s)
    BY <1>13
  <2>2. CASE Accepting(s, "launched", "done") /\ UNCHANGED bound
    BY <2>1, <2>2 DEF AcceptorBind
  <2>3. CASE Accepting(s, "launched", "bound") /\ bound' = s
    BY <2>1, <2>3 DEF AcceptorBind
  <2>4. QED
    BY <2>1, <2>2, <2>3 DEF AcceptorBind
<1>14. CASE \E s \in Starts : AcceptorAssign(s)
  BY <1>14 DEF AcceptorAssign
<1>15. CASE \E s \in Starts : AcceptorLoop(s)
  BY <1>15 DEF AcceptorLoop
<1>16. CASE \E s \in Starts : AcceptorCall(s)
  BY <1>16 DEF AcceptorCall
<1>17. CASE \E s \in Starts, c \in Clients : AcceptorAccept(s, c)
  BY <1>17 DEF AcceptorAccept
<1>18. CASE \E s \in Starts : AcceptorClosed(s)
  BY <1>18 DEF AcceptorClosed
<1>19. CASE \E s \in Starts : HandleEnter(s)
  BY <1>19 DEF HandleEnter
<1>20. CASE \E s \in Starts : HandleGreet(s)
  <2>1. PICK s \in Starts : HandleGreet(s)
    BY <1>20
  <2>2. CASE Accepting(s, "greeting", "adding") /\ UNCHANGED conn
    BY <2>1, <2>2 DEF HandleGreet
  <2>3. CASE Accepting(s, "greeting", "leaving") /\ conn' = [conn EXCEPT ![peer[s]] = "closed"]
    BY <2>1, <2>3 DEF HandleGreet
  <2>4. QED
    BY <2>1, <2>2, <2>3 DEF HandleGreet
<1>21. CASE \E s \in Starts : HandleAdd(s)
  <2>1. PICK s \in Starts : HandleAdd(s)
    BY <1>21
  <2>2. peer[s] \in Clients
    BY <2>1 DEF HandleAdd, GreetInv
  <2>3. QED
    BY <2>1, <2>2 DEF HandleAdd
<1>22. CASE \E s \in Starts : HandlePut(s)
  <2>1. PICK s \in Starts : HandlePut(s)
    BY <1>22
  <2>2. peer[s] \in Clients
    BY <2>1 DEF HandlePut, GreetInv
  <2>3. QED
    BY <2>1, <2>2 DEF HandlePut
<1>23. CASE \E s \in Starts : HandleLeave(s)
  BY <1>23 DEF HandleLeave
<1>24. CASE \E s \in Starts : SenderBegin(s)
  BY <1>24 DEF SenderBegin
<1>25. CASE \E s \in Starts : SenderLoop(s)
  BY <1>25 DEF SenderLoop
<1>26. CASE \E s \in Starts : SenderTake(s)
  BY <1>26 DEF SenderTake
<1>27. CASE \E s \in Starts : SenderDecide(s)
  BY <1>27 DEF SenderDecide
<1>28. CASE \E s \in Starts : SenderLock(s)
  BY <1>28 DEF SenderLock
<1>29. CASE \E s \in Starts : SenderCancelled(s)
  BY <1>29 DEF SenderCancelled
<1>30. CASE \E s \in Starts : SenderUnlock(s)
  BY <1>30 DEF SenderUnlock
<1>31. CASE \E s \in Starts : SenderDelay(s)
  BY <1>31 DEF SenderDelay
<1>32. CASE \E s \in Starts, c \in Clients : SenderWrite(s, c)
  <2>1. PICK s \in Starts, c \in Clients : SenderWrite(s, c)
    BY <1>32
  <2>2. todo' \in [Starts -> SUBSET Clients]
    BY <2>1 DEF SenderWrite
  <2>3. CASE WritePacket(s, c)
    BY <2>1, <2>2, <2>3 DEF SenderWrite, WritePacket
  <2>4. CASE Drop(c)
    BY <2>1, <2>2, <2>4 DEF SenderWrite, Drop
  <2>5. QED
    BY <2>1, <2>3, <2>4 DEF SenderWrite
<1>33. QED
  BY <1>2, <1>3, <1>4, <1>5, <1>6, <1>7, <1>8, <1>9, <1>10, <1>11, <1>12,
     <1>13, <1>14, <1>15, <1>16, <1>17, <1>18, <1>19, <1>20, <1>21, <1>22,
     <1>23, <1>24, <1>25, <1>26, <1>27, <1>28, <1>29, <1>30, <1>31, <1>32,
     StepCases

(* The lock changes hands only between rounds. *)
LEMMA NextLock ==
  ASSUME IInv, Next
  PROVE  LockInv'
<1> USE DEF IInv, TypeOK, StartInv, LockInv, mainVars, acceptorVars, senderVars, socketVars,
            listVars, clientVars, frameVars, Starts
<1>1. CASE UNCHANGED <<sender, lock>>
  BY <1>1
<1>2. CASE Start
  BY <1>2 DEF Start
<1>3. ASSUME NEW s \in Starts,
             \/ SenderBegin(s) \/ SenderLoop(s) \/ SenderTake(s) \/ SenderDecide(s)
             \/ SenderCancelled(s) \/ SenderDelay(s)
      PROVE  LockInv'
  BY <1>3 DEF SenderBegin, SenderLoop, SenderTake, SenderDecide, SenderCancelled,
              SenderDelay, UnlessCancelled, Sending
<1>4. ASSUME NEW s \in Starts, SenderLock(s) \/ SenderUnlock(s)
      PROVE  LockInv'
  BY <1>4 DEF SenderLock, SenderUnlock, Sending
<1>5. QED
  BY <1>1, <1>2, <1>3, <1>4, StepCases
  DEF Stop, Stopping, StopCloseClients, StopClearClients, StopClearStreams,
      StopCloseSocket, StopForgetSocket, StopCancel, SendFrame, Connect, Disconnect,
      Accepting, AcceptorBind, AcceptorAssign, AcceptorLoop, AcceptorCall,
      AcceptorClosed, AcceptorAccept, HandleEnter, HandleGreet, HandleAdd, HandlePut,
      HandleLeave, SenderWrite
(* A client is greeted by the one coroutine that accepted it, then listed.  *)
LEMMA NextGreet ==
  ASSUME IInv, Next
  PROVE  GreetInv'
<1> USE DEF IInv, TypeOK, GreetInv, Greeting, mainVars, acceptorVars, senderVars,
            socketVars, listVars, clientVars, frameVars, Starts
<1>1. CASE UNCHANGED <<acceptor, peer, conn, inbox>> /\ clientStreams' \subseteq clientStreams
  BY <1>1
<1>2. CASE Start
  BY <1>2 DEF Start
<1>3. CASE StopCloseClients \/ StopCloseSocket
  BY <1>3 DEF StopCloseClients, StopCloseSocket, Stopping
<1>4. CASE \E c \in Clients : Connect(c) \/ Disconnect(c)
  <2>1. PICK c \in Clients : Connect(c) \/ Disconnect(c)
    BY <1>4
  <2>2. CASE Connect(c)
    BY <2>2 DEF Connect
  <2>3. CASE Disconnect(c)
    BY <2>3 DEF Disconnect
  <2>4. QED
    BY <2>1, <2>2, <2>3
<1>5. ASSUME NEW s \in Starts,
             \/ AcceptorBind(s) \/ AcceptorAssign(s) \/ AcceptorLoop(s)
             \/ AcceptorCall(s) \/ AcceptorClosed(s)
      PROVE  GreetInv'
  <2>1. /\ UNCHANGED <<peer, conn, inbox, clientStreams>>
        /\ \A t \in Starts \ {s} : acceptor'[t] = acceptor[t]
    BY <1>5 DEF AcceptorBind, AcceptorAssign, AcceptorLoop, AcceptorCall,
                AcceptorClosed, Accepting
  <2>2. acceptor'[s] \notin {"handling", "greeting", "adding", "putting"}
    BY <1>5 DEF AcceptorBind, AcceptorAssign, AcceptorLoop, AcceptorCall,
                AcceptorClosed, Accepting
  <2>3. QED
    BY <2>1, <2>2
<1>6. ASSUME NEW s \in Starts, NEW c \in Clients, AcceptorAccept(s, c)
      PROVE  GreetInv'
  BY <1>6 DEF AcceptorAccept, Accepting
<1>7. ASSUME NEW s \in Starts, HandleEnter(s) \/ HandleAdd(s) \/ HandleLeave(s)
      PROVE  GreetInv'
  <2>1. /\ UNCHANGED <<peer, conn, inbox, clientStreams>>
        /\ \A t \in Starts \ {s} : acceptor'[t] = acceptor[t]
    BY <1>7 DEF HandleEnter, HandleAdd, HandleLeave, Accepting
  <2>2. \/ acceptor[s] = "handling" /\ acceptor'[s] \in {"greeting", "done"}
        \/ acceptor[s] = "adding" /\ acceptor'[s] = "putting"
        \/ acceptor'[s] \in {"loop", "done"}
    BY <1>7 DEF HandleEnter, HandleAdd, HandleLeave, UnlessCancelled, Accepting
  <2>3. QED
    BY <2>1, <2>2
<1>8. ASSUME NEW s \in Starts, HandleGreet(s)
      PROVE  GreetInv'
  <2> DEFINE c == peer[s]
  <2>1. acceptor[s] = "greeting" /\ c \in Clients
    BY <1>8 DEF HandleGreet, Accepting
  <2>2. CASE inbox' = [inbox EXCEPT ![c] = Append(@, Header)]
             /\ Accepting(s, "greeting", "adding")
    <3>0. Header \in 0 .. MaxFrames
      BY DEF Header
    <3>1. /\ inbox'[c] # <<>>
          /\ \A d \in Clients : d # c => inbox'[d] = inbox[d]
      BY <2>1, <2>2, <3>0, Packet
    <3>2. /\ acceptor' = [acceptor EXCEPT ![s] = "adding"]
          /\ UNCHANGED <<peer, conn, clientStreams>>
      BY <1>8, <2>2 DEF HandleGreet, Accepting
    <3>3. QED
      BY <2>1, <3>1, <3>2
  <2>3. CASE UNCHANGED inbox /\ Accepting(s, "greeting", "leaving")
             /\ conn' = [conn EXCEPT ![c] = "closed"]
    <3>1. /\ acceptor' = [acceptor EXCEPT ![s] = "leaving"]
          /\ conn' = [conn EXCEPT ![c] = "closed"]
          /\ UNCHANGED <<peer, clientStreams>>
      BY <1>8, <2>1, <2>3 DEF HandleGreet, Accepting
    <3>2. QED
      BY <2>1, <2>3, <3>1
  <2>4. QED
    BY <1>8, <2>2, <2>3 DEF HandleGreet
<1>9. ASSUME NEW s \in Starts, HandlePut(s)
      PROVE  GreetInv'
  BY <1>9 DEF HandlePut, Accepting
<1>10. ASSUME NEW s \in Starts, NEW c \in Clients, SenderWrite(s, c)
       PROVE  GreetInv'
  <2>1. CASE Drop(c)
    BY <1>10, <2>1 DEF SenderWrite, Drop
  <2>2. CASE WritePacket(s, c) /\ c \in clientStreams
    <3>1. inbox' = [inbox EXCEPT ![c] = Append(@, item[s])] /\ item[s] \in 0 .. MaxFrames
      BY <2>2 DEF WritePacket
    <3>2. /\ inbox'[c] # <<>>
          /\ \A d \in Clients : d # c => inbox'[d] = inbox[d]
      BY <3>1, Packet
    <3>3. inbox[c] # <<>> /\ UNCHANGED <<acceptor, peer, conn, clientStreams>>
      BY <1>10, <2>2 DEF SenderWrite, WritePacket
    <3>4. QED
      BY <3>2, <3>3
  <2>3. CASE WritePacket(s, c) /\ c \notin clientStreams
    BY <1>10, <2>3 DEF SenderWrite, WritePacket
  <2>4. QED
    BY <1>10, <2>1, <2>2, <2>3 DEF SenderWrite
<1>11. QED
  BY <1>1, <1>2, <1>3, <1>4, <1>5, <1>6, <1>7, <1>8, <1>9, <1>10, StepCases
  DEF Stop, Stopping, StopClearClients, StopClearStreams, StopForgetSocket, StopCancel,
      SendFrame, Sending, SenderBegin, SenderLoop, SenderTake, SenderDecide,
      SenderLock, SenderCancelled, SenderUnlock, SenderDelay
LEMMA NextHeader ==
  ASSUME IInv, Next
  PROVE  HeaderFirst'
<1>1. CASE inbox' = inbox
  BY <1>1 DEF IInv, HeaderFirst
<1>2. ASSUME NEW s \in Starts, NEW c \in Clients, Delivery(s, c)
      PROVE  HeaderFirst'
  <2>1. item[s] \in 0 .. MaxFrames /\ item[s] # Header /\ inbox[c] # <<>>
    BY <1>2 DEF IInv, TypeOK, GreetInv, FrameInv, Holding, Delivery, Header
  <2>2. QED
    BY <1>2, <2>1, Packet DEF IInv, HeaderFirst, Delivery
<1>3. ASSUME NEW s \in Starts, acceptor[s] = "greeting",
             inbox' = [inbox EXCEPT ![peer[s]] = Append(@, Header)]
      PROVE  HeaderFirst'
  <2>1. peer[s] \in Clients /\ inbox[peer[s]] = <<>>
    BY <1>3 DEF IInv, GreetInv, Greeting
  <2>2. Header \in 0 .. MaxFrames
    BY DEF Header
  <2>3. QED
    BY <1>3, <2>1, <2>2, Packet DEF IInv, HeaderFirst
<1>4. QED
  BY <1>1, <1>2, <1>3, InboxSteps DEF Writes

LEMMA NextTwice ==
  ASSUME IInv, Next
  PROVE  NoFrameTwice'
<1>1. CASE inbox' = inbox
  BY <1>1 DEF IInv, NoFrameTwice
<1>2. ASSUME NEW s \in Starts, NEW c \in Clients, Delivery(s, c)
      PROVE  NoFrameTwice'
  <2>1. item[s] \in 0 .. MaxFrames /\ item[s] \notin Received(c)
    BY <1>2 DEF IInv, TypeOK, FrameInv, Holding, Ahead, Delivery
  <2>2. \A i \in DOMAIN inbox[c] : inbox[c][i] # item[s]
    BY <2>1 DEF Received
  <2>3. QED
    BY <1>2, <2>1, <2>2, Packet DEF IInv, NoFrameTwice, Delivery
<1>3. ASSUME NEW s \in Starts, acceptor[s] = "greeting",
             inbox' = [inbox EXCEPT ![peer[s]] = Append(@, Header)]
      PROVE  NoFrameTwice'
  <2>1. peer[s] \in Clients /\ inbox[peer[s]] = <<>>
    BY <1>3 DEF IInv, GreetInv, Greeting
  <2>2. Header \in 0 .. MaxFrames
    BY DEF Header
  <2>3. QED
    BY <1>3, <2>1, <2>2, Packet DEF IInv, NoFrameTwice
<1>4. QED
  BY <1>1, <1>2, <1>3, InboxSteps DEF Writes

(* A frame leaves latestFrame for one sender and each client once. *)
LEMMA NextFrame ==
  ASSUME IInv, Next
  PROVE  FrameInv'
<1> USE DEF IInv, TypeOK, FrameInv, Holding, Ahead, mainVars, acceptorVars,
            senderVars, socketVars, listVars, clientVars, frameVars, Starts
<1>1. CASE inbox' = inbox /\ UNCHANGED <<sender, item, todo, latestFrame, captured>>
  BY <1>1 DEF Received
<1>2. CASE Start
  <2>1. \A s \in Starts : Holding(s)' <=> Holding(s) /\ s # starts + 1
    BY <1>2 DEF Start
  <2>2. \A s \in Starts : Holding(s)' => Holding(s) /\ Ahead(s)' = Ahead(s)
    BY <1>2, <2>1 DEF Start
  <2>3. \A c \in Clients : Received(c)' = Received(c)
    BY <1>2 DEF Start, Received
  <2>4. UNCHANGED <<item, latestFrame, captured>>
    BY <1>2 DEF Start
  <2>5. QED
    BY <2>1, <2>2, <2>3, <2>4
<1>3. CASE SendFrame
  <2>1. \A c \in Clients : Received(c)' = Received(c)
    BY <1>3 DEF SendFrame, Received
  <2>2. \A c \in Clients : \A f \in Received(c) : f \in 0 .. MaxFrames
    BY DEF Received
  <2>3. UNCHANGED <<sender, item, todo>> /\ captured' = captured + 1
        /\ latestFrame' = captured + 1
    BY <1>3 DEF SendFrame
  <2>4. QED
    BY <2>1, <2>2, <2>3
<1>4. ASSUME NEW s \in Starts, HandleGreet(s)
      PROVE  FrameInv'
  <2>1. UNCHANGED <<sender, item, todo, latestFrame, captured>>
    BY <1>4 DEF HandleGreet, Accepting
  <2>2. ASSUME NEW c \in Clients
        PROVE  Received(c)' \subseteq Received(c) \union {Header}
    <3>1. CASE inbox' = inbox
      BY <3>1 DEF Received
    <3>2. CASE inbox' = [inbox EXCEPT ![peer[s]] = Append(@, Header)] /\ peer[s] \in Clients
      <4>1. Header \in 0 .. MaxFrames
        BY DEF Header
      <4>2. PICK p \in Clients : p = peer[s]
        BY <3>2
      <4>3. inbox' = [inbox EXCEPT ![p] = Append(@, Header)]
        BY <3>2, <4>2
      <4>4. /\ Received(p)' = Received(p) \union {Header}
            /\ c # p => Received(c)' = Received(c)
        BY <4>1, <4>3, Packet
      <4>5. QED
        BY <4>4
    <3>3. QED
      BY <1>4, <3>1, <3>2 DEF HandleGreet, Accepting, GreetInv, Greeting
  <2>3. QED
    BY <2>1, <2>2 DEF Header
<1>5. ASSUME NEW s \in Starts,
             \/ SenderBegin(s) \/ SenderLoop(s) \/ SenderDecide(s) \/ SenderLock(s)
             \/ SenderCancelled(s) \/ SenderUnlock(s) \/ SenderDelay(s)
      PROVE  FrameInv'
  <2>1. UNCHANGED <<item, latestFrame, captured, inbox>>
    BY <1>5 DEF SenderBegin, SenderLoop, SenderDecide, SenderLock, SenderCancelled,
                SenderUnlock, SenderDelay, Sending
  <2>2. \A c \in Clients : Received(c)' = Received(c)
    BY <2>1 DEF Received
  <2>3. /\ \A t \in Starts \ {s} : sender'[t] = sender[t] /\ todo'[t] = todo[t]
        /\ Holding(s)' => Holding(s) /\ Ahead(s) = Clients
    BY <1>5 DEF SenderBegin, SenderLoop, SenderDecide, SenderLock, SenderCancelled,
                SenderUnlock, SenderDelay, UnlessCancelled, Sending
  <2>4. \A t \in Starts : Holding(t)' => Holding(t) /\ Ahead(t)' \subseteq Ahead(t)
    <3>1. Ahead(s)' \subseteq Clients
      BY NextType
    <3>2. QED
      BY <2>3, <3>1
  <2>5. QED
    BY <2>1, <2>2, <2>4
<1>6. ASSUME NEW s \in Starts, SenderTake(s)
      PROVE  FrameInv'
  <2>1. \A c \in Clients : Received(c)' = Received(c)
    BY <1>6 DEF SenderTake, Sending, Received
  <2>2. /\ \A t \in Starts \ {s} : sender'[t] = sender[t] /\ item'[t] = item[t]
        /\ item'[s] = latestFrame
        /\ latestFrame' = 0 /\ UNCHANGED <<captured, todo>>
    BY <1>6 DEF SenderTake, Sending
  <2>3. \A t \in Starts \ {s} :
          (Holding(t)' <=> Holding(t)) /\ Ahead(t)' = Ahead(t) /\ Ahead(t) \subseteq Clients
    BY <2>2
  <2>4. Holding(s)' => latestFrame # 0 /\ Ahead(s)' = Clients
    BY <1>6 DEF SenderTake, Sending
  <2> HIDE DEF Holding, Ahead
  <2>5. \A t \in Starts : Holding(t)' =>
          /\ item'[t] # 0 /\ item'[t] <= captured' /\ item'[t] # latestFrame'
          /\ \A c \in Ahead(t)' : item'[t] \notin Received(c)'
    <3>1. CASE latestFrame = 0
      BY <2>1, <2>2, <2>3, <2>4, <3>1
    <3>2. CASE latestFrame # 0
      BY <2>1, <2>2, <2>3, <2>4, <3>2
    <3>3. QED
      BY <3>1, <3>2
  <2>6. \A t, u \in Starts :
          Holding(t)' /\ Holding(u)' /\ item'[t] = item'[u] => t = u
    BY <2>2, <2>3, <2>4
  <2>7. QED
    BY <2>1, <2>2, <2>5, <2>6
<1>7. ASSUME NEW s \in Starts, NEW c \in Clients, SenderWrite(s, c)
      PROVE  FrameInv'
  <2>1. /\ sender[s] = "writing" /\ c \in todo[s]
        /\ \A t \in Starts \ {s} : todo'[t] = todo[t]
        /\ todo'[s] = todo[s] \ {c}
        /\ UNCHANGED <<sender, item, latestFrame, captured>>
    BY <1>7 DEF SenderWrite
  <2>2. ASSUME NEW d \in Clients
        PROVE  /\ Received(d)' \subseteq Received(d) \union {item[s]}
               /\ d # c => Received(d)' = Received(d)
    <3>1. CASE inbox' = inbox
      BY <3>1 DEF Received
    <3>2. CASE inbox' = [inbox EXCEPT ![c] = Append(@, item[s])]
      <4>1. item[s] \in 0 .. MaxFrames
        OBVIOUS
      <4>2. /\ Received(c)' = Received(c) \union {item[s]}
            /\ d # c => Received(d)' = Received(d)
        BY <3>2, <4>1, Packet
      <4>3. QED
        BY <4>2
    <3>3. QED
      BY <1>7, <3>1, <3>2 DEF SenderWrite, WritePacket, Drop
  <2>3. \A t \in Starts :
          /\ Holding(t)' <=> Holding(t)
          /\ t # s => Ahead(t)' = Ahead(t)
          /\ Ahead(t) \subseteq Clients
    BY <2>1
  <2>4. Holding(s) /\ Ahead(s) = todo[s] /\ Ahead(s)' = todo[s] \ {c}
    BY <2>1
  <2> HIDE DEF Holding, Ahead
  <2>5. \A t \in Starts : Holding(t) => \A d \in Ahead(t)' :
          item[t] \notin Received(d)'
    BY <2>2, <2>3, <2>4
  <2>6. \A d \in Clients : \A f \in Received(d)' :
          f <= captured /\ (latestFrame # 0 => f # latestFrame)
    BY <2>2, <2>4
  <2>7. QED
    BY <2>1, <2>3, <2>5, <2>6
<1>8. QED
  BY <1>1, <1>2, <1>3, <1>4, <1>5, <1>6, <1>7, StepCases
  DEF Stop, Stopping, StopCloseClients, StopClearClients, StopClearStreams,
      StopCloseSocket, StopForgetSocket, StopCancel, Connect, Disconnect, Accepting,
      AcceptorBind, AcceptorAssign, AcceptorLoop, AcceptorCall, AcceptorClosed,
      AcceptorAccept, HandleEnter, HandleAdd, HandlePut, HandleLeave

LEMMA NextInv ==
  ASSUME IInv, [Next]_vars
  PROVE  IInv'
<1>1. CASE Next
  BY <1>1, NextType, NextLock, NextGreet, NextFrame, NextHeader, NextTwice DEF IInv
<1>2. CASE UNCHANGED vars
  <2> USE <1>2 DEF vars, mainVars, acceptorVars, senderVars, socketVars, listVars,
                   clientVars, frameVars, IInv
  <2>1. TypeOK'
    BY DEF TypeOK
  <2>2. StartInv' /\ LockInv' /\ GreetInv'
    BY DEF StartInv, LockInv, GreetInv, Greeting
  <2>3. FrameInv'
    BY DEF FrameInv, Holding, Ahead, Received
  <2>4. HeaderFirst' /\ NoFrameTwice'
    BY DEF HeaderFirst, NoFrameTwice
  <2>5. QED
    BY <2>1, <2>2, <2>3, <2>4
<1>3. QED
  BY <1>1, <1>2

(* The inductive invariant of the coroutines of all starts.                 *)
THEOREM Invariant == Spec => []IInv
  BY InitInv, NextInv, PTL DEF Spec

(* Every variable has its type; accept() gave whoever is listed.            *)
THEOREM TypeCorrect == Spec => []TypeOK
<1>1. IInv => TypeOK
  BY DEF IInv
<1>2. QED
  BY <1>1, Invariant, PTL

(* Every client gets the response header once and first, however many       *)
(* starts have coroutines left and however racing puts of the map end.      *)
THEOREM HeaderComesFirst == Spec => []HeaderFirst
<1>1. IInv => HeaderFirst
  BY DEF IInv
<1>2. QED
  BY <1>1, Invariant, PTL

(* getAndSet gives a frame to one sender, which sends it to a client once.  *)
THEOREM SentOnce == Spec => []NoFrameTwice
<1>1. IInv => NoFrameTwice
  BY DEF IInv
<1>2. QED
  BY <1>1, Invariant, PTL

(* The mutex keeps the broadcasts of any number of starts apart.            *)
THEOREM BroadcastAlone == Spec => []OneBroadcast
<1>1. IInv => OneBroadcast
  BY DEF IInv, LockInv, OneBroadcast
<1>2. QED
  BY <1>1, Invariant, PTL

------------------------------------------------------------------------------
(* What stop() leaves behind.  A scope is cancelled before the next is made *)
(* (StopInv), so a coroutine of an earlier start makes no ServerSocket any  *)
(* more and those there are can only be newer than itself; one that waits   *)
(* for its own found it in serverSocket, where stop() closes it             *)
(* (SocketInv).                                                             *)

StopInv ==
  /\ main # "idle" => ~ running
  /\ ~ running /\ main = "idle" => starts = 0 \/ starts \in cancelled
  /\ \A s \in Starts : s < starts => s \in cancelled
  /\ \A s \in Starts : acceptor[s] = "none" <=> s > starts
  /\ \A s \in Starts : sender[s] = "none" <=> s > starts

BeforeClose == {"closing", "clearing", "clearingStreams", "closingSocket"}

(* Where a coroutine is that has its ServerSocket, and that found running   *)
(* set since then.                                                          *)
Assigned(s) == acceptor[s] \notin {"none", "launched", "bound", "done"}
Entered(s) == Assigned(s) /\ acceptor[s] # "loop"

SocketInv ==
  /\ \A s \in Starts : acceptor[s] = "bound" => bound = s
  /\ \A s \in Starts :
       acceptor[s] \in {"none", "launched", "bound"} => serverSocket # s
  /\ \A s \in Starts : Assigned(s) =>
       (bound = 0 \/ bound >= s) /\ (serverSocket = 0 \/ serverSocket >= s)
  /\ \A s \in Starts : acceptor[s] = "accepting" =>
       /\ listener[s] >= s
       /\ listener[s] = s /\ bound = s => serverSocket = s
  /\ \A s \in Starts : Entered(s) /\ bound = s /\ serverSocket = s =>
       running \/ main \in BeforeClose

LEMMA NextStop ==
  ASSUME TypeOK, StopInv, Next
  PROVE  StopInv'
<1> USE DEF TypeOK, StopInv, Starts, mainVars, acceptorVars, senderVars
<1>1. CASE Start
  BY <1>1 DEF Start
<1>2. CASE Stop
  BY <1>2 DEF Stop
<1>3. CASE StopCloseClients \/ StopClearClients \/ StopClearStreams
           \/ StopCloseSocket \/ StopForgetSocket
  BY <1>3 DEF StopCloseClients, StopClearClients, StopClearStreams,
              StopCloseSocket, StopForgetSocket, Stopping
<1>4. CASE StopCancel
  BY <1>4 DEF StopCancel, Stopping
<1>5. ASSUME NEW s \in Starts, NEW from \in AcceptorPCs, NEW to \in AcceptorPCs,
             Accepting(s, from, to), from # "none", to # "none"
      PROVE  StopInv'
  BY <1>5 DEF Accepting
<1>6. ASSUME NEW s \in Starts, NEW from \in SenderPCs, NEW to \in SenderPCs,
             Sending(s, from, to), from # "none", to # "none"
      PROVE  StopInv'
  BY <1>6 DEF Sending
<1>7. CASE UNCHANGED <<main, running, starts, cancelled, acceptor, sender>>
  BY <1>7
<1>8. ASSUME NEW s \in Starts,
             \/ AcceptorBind(s) \/ AcceptorAssign(s) \/ AcceptorLoop(s)
             \/ AcceptorCall(s) \/ AcceptorClosed(s) \/ HandleEnter(s)
             \/ HandleGreet(s) \/ HandleAdd(s) \/ HandlePut(s) \/ HandleLeave(s)
             \/ \E c \in Clients : AcceptorAccept(s, c)
      PROVE  \E from, to \in AcceptorPCs :
               Accepting(s, from, to) /\ from # "none" /\ to # "none"
  BY <1>8, Zenon DEF AcceptorBind, AcceptorAssign, AcceptorLoop, AcceptorCall,
    AcceptorClosed, AcceptorAccept, HandleEnter, HandleGreet, HandleAdd, HandlePut,
    HandleLeave, UnlessCancelled, AcceptorPCs
<1>9. ASSUME NEW s \in Starts,
             \/ SenderBegin(s) \/ SenderLoop(s) \/ SenderTake(s) \/ SenderDecide(s)
             \/ SenderLock(s) \/ SenderCancelled(s) \/ SenderUnlock(s) \/ SenderDelay(s)
      PROVE  \E from, to \in SenderPCs :
               Sending(s, from, to) /\ from # "none" /\ to # "none"
  BY <1>9, Zenon DEF SenderBegin, SenderLoop, SenderTake, SenderDecide, SenderLock,
    SenderCancelled, SenderUnlock, SenderDelay, UnlessCancelled, SenderPCs
<1>10. ASSUME NEW s \in Starts, NEW c \in Clients, SenderWrite(s, c)
       PROVE  StopInv'
  BY <1>7, <1>10 DEF SenderWrite
<1>11. CASE SendFrame \/ \E c \in Clients : Connect(c) \/ Disconnect(c)
  BY <1>7, <1>11 DEF SendFrame, Connect, Disconnect
<1> QED
  BY <1>1, <1>2, <1>3, <1>4, <1>5, <1>6, <1>8, <1>9, <1>10, <1>11, StepCases

LEMMA NextSocket ==
  ASSUME TypeOK, StopInv, SocketInv, Next
  PROVE  SocketInv'
<1> USE DEF TypeOK, SocketInv, Assigned, Entered, BeforeClose, Starts, mainVars,
            acceptorVars, senderVars, socketVars
<1>1. CASE UNCHANGED <<main, running, acceptor, listener, serverSocket, bound>>
  BY <1>1
<1>2. CASE Start
  BY <1>2 DEF Start, StopInv
<1>3. CASE Stop
  BY <1>3 DEF Stop
<1>4. CASE StopCloseClients \/ StopClearClients \/ StopClearStreams \/ StopCancel
  BY <1>4 DEF StopCloseClients, StopClearClients, StopClearStreams, StopCancel, Stopping
<1>5. CASE StopCloseSocket
  BY <1>5 DEF StopCloseSocket, Stopping
<1>6. CASE StopForgetSocket
  <2>1. main = "forgetting" /\ ~ running
    BY <1>6 DEF StopForgetSocket, Stopping, StopInv
  <2>2. \A s \in Starts : ~ (acceptor[s] = "accepting" /\ listener[s] = s /\ bound = s)
    BY <2>1
  <2>3. /\ serverSocket' = 0 /\ UNCHANGED <<running, acceptor, listener, bound>>
    BY <1>6 DEF StopForgetSocket, Stopping
  <2> QED
    BY <2>2, <2>3
<1>7. ASSUME NEW s \in Starts, AcceptorBind(s)
      PROVE  SocketInv'
  <2>1. CASE acceptor' = [acceptor EXCEPT ![s] = "done"] /\ UNCHANGED bound
    BY <1>7, <2>1 DEF AcceptorBind, Accepting
  <2>2. CASE /\ acceptor[s] = "launched" /\ acceptor' = [acceptor EXCEPT ![s] = "bound"]
             /\ s \notin cancelled /\ bound = 0 /\ bound' = s
    <3>1. s = starts
      BY <2>2 DEF StopInv
    <3>2. \A t \in Starts : acceptor[t] # "none" => t <= s
      BY <3>1 DEF StopInv
    <3>3. UNCHANGED <<main, running, listener, serverSocket>>
      BY <1>7 DEF AcceptorBind, Accepting
    <3>4. \A t \in Starts : acceptor'[t] = IF t = s THEN "bound" ELSE acceptor[t]
      BY <2>2
    <3>5. \A t \in Starts : acceptor[t] # "bound"
      BY <2>2
    <3> QED
      BY <2>2, <3>2, <3>3, <3>4, <3>5
  <2> QED
    BY <1>7, <2>1, <2>2 DEF AcceptorBind, Accepting
<1>8. ASSUME NEW s \in Starts, AcceptorAssign(s)
      PROVE  SocketInv'
  BY <1>8 DEF AcceptorAssign, Accepting
<1>9. ASSUME NEW s \in Starts, AcceptorLoop(s)
      PROVE  SocketInv'
  <2>1. CASE running
    BY <1>9, <2>1 DEF AcceptorLoop, Accepting
  <2>2. CASE ~ running
    BY <1>9, <2>2 DEF AcceptorLoop, Accepting
  <2> QED
    BY <2>1, <2>2
<1>10. ASSUME NEW s \in Starts, AcceptorCall(s)
       PROVE  SocketInv'
  BY <1>10 DEF AcceptorCall, Accepting
<1>11. ASSUME NEW s \in Starts, NEW from \in AcceptorPCs, NEW to \in AcceptorPCs,
              Accepting(s, from, to), UNCHANGED <<socketVars, listener>>,
              from \notin {"none", "launched", "bound", "loop", "done"},
              to \notin {"none", "launched", "bound", "accepting"}
       PROVE  SocketInv'
  BY <1>11 DEF Accepting
<1>12. ASSUME NEW s \in Starts,
              \/ AcceptorClosed(s) \/ HandleEnter(s) \/ HandleGreet(s) \/ HandleAdd(s)
              \/ HandlePut(s) \/ HandleLeave(s) \/ \E c \in Clients : AcceptorAccept(s, c)
       PROVE  /\ UNCHANGED <<socketVars, listener>>
              /\ \E from, to \in AcceptorPCs :
                   /\ Accepting(s, from, to)
                   /\ from \notin {"none", "launched", "bound", "loop", "done"}
                   /\ to \notin {"none", "launched", "bound", "accepting"}
  BY <1>12, Zenon DEF AcceptorClosed, AcceptorAccept, HandleEnter, HandleGreet,
    HandleAdd, HandlePut, HandleLeave, UnlessCancelled, AcceptorPCs
<1>13. ASSUME NEW s \in Starts,
              \/ SenderBegin(s) \/ SenderLoop(s) \/ SenderTake(s) \/ SenderDecide(s)
              \/ SenderLock(s) \/ SenderCancelled(s) \/ SenderUnlock(s) \/ SenderDelay(s)
              \/ \E c \in Clients : SenderWrite(s, c)
       PROVE  SocketInv'
  BY <1>1, <1>13 DEF SenderBegin, SenderLoop, SenderTake, SenderDecide, SenderLock,
    SenderCancelled, SenderUnlock, SenderDelay, SenderWrite, Sending
<1>14. CASE SendFrame \/ \E c \in Clients : Connect(c) \/ Disconnect(c)
  BY <1>1, <1>14 DEF SendFrame, Connect, Disconnect
<1> QED
  BY <1>2, <1>3, <1>4, <1>5, <1>6, <1>7, <1>8, <1>9, <1>10, <1>11, <1>12, <1>13, <1>14,
    StepCases

(* When stop() came last and no coroutine can take a step, all have ended,  *)
(* but for one that was delayed over two calls of stop() and waits in an    *)
(* accept() on the ServerSocket of a later start: for any number of starts. *)
THEOREM StopLeavesNone == Spec => []NoneLeft
<1>1. Init => StopInv /\ SocketInv
  BY DEF Init, StopInv, SocketInv, Assigned, Entered, Starts
<1>2. ASSUME IInv, StopInv /\ SocketInv, [Next]_vars
      PROVE  StopInv' /\ SocketInv'
  <2>1. CASE Next
    BY <1>2, <2>1, NextStop, NextSocket DEF IInv
  <2>2. CASE UNCHANGED vars
    BY <1>2, <2>2 DEF vars, mainVars, acceptorVars, senderVars, socketVars, StopInv,
      SocketInv, Assigned, Entered
  <2> QED
    BY <1>2, <2>1, <2>2
<1>3. IInv /\ StopInv /\ SocketInv => NoneLeft
  <2> SUFFICES ASSUME IInv, StopInv, SocketInv, ~ running, main = "idle", Still,
                      NEW s \in Starts
               PROVE  Ended(s) \/ Stranded(s)
    BY DEF NoneLeft
  <2>1. \A t \in Starts : sender[t] \in {"none", "done"}
    <3>1. \A t \in Starts : sender[t] # "writing"
      BY DEF Still
    <3>2. lock \in 0 .. MaxStarts
      BY DEF IInv, TypeOK
    <3>3. lock = 0
      BY <3>1, <3>2 DEF IInv, LockInv, Starts
    <3> QED
      BY <3>3 DEF Still
  <2>2. CASE acceptor[s] \in {"none", "done"}
    BY <2>1, <2>2 DEF Ended
  <2>3. CASE acceptor[s] = "accepting" /\ bound = listener[s]
    <3>1. listener[s] \in 0 .. MaxStarts /\ serverSocket \in 0 .. MaxStarts
      BY DEF IInv, TypeOK
    <3>2. listener[s] >= s
      BY <2>3 DEF SocketInv
    <3>3. listener[s] # s
      BY <2>3 DEF SocketInv, Entered, Assigned, BeforeClose
    <3>4. sender[s] = "done"
      BY <2>1, <2>3 DEF StopInv
    <3> QED
      BY <2>3, <3>1, <3>2, <3>3, <3>4 DEF Stranded, Starts
  <2> QED
    BY <2>2, <2>3 DEF Still
<1>4. Spec => [](StopInv /\ SocketInv)
  BY <1>1, <1>2, Invariant, PTL DEF Spec
<1> QED
  BY <1>3, <1>4, Invariant, PTL

------------------------------------------------------------------------------
(* The order of the frames.  What is taken from latestFrame is the newest   *)
(* frame there is, newer than whatever a sender ever took (FreshInv), so    *)
(* the frames of one sender reach every client in order.                    *)

FreshInv ==
  /\ latestFrame \in {0, captured}
  /\ \A s \in Starts : item[s] <= captured
  /\ latestFrame # 0 => /\ \A s \in Starts : item[s] < latestFrame
                        /\ \A c \in Clients : \A f \in Received(c) : f < latestFrame

(* The frame the only sender holds is the newest any client was sent. *)
HeldNewest ==
  starts <= 1 => \A s \in Starts : Holding(s) =>
                   \A c \in Clients : \A f \in Received(c) : f <= item[s]

(* A client's header and frames come in order. *)
Ordered(c) == \A i, j \in DOMAIN inbox[c] : i < j => inbox[c][i] < inbox[c][j]
OneStartInOrder == starts <= 1 => \A c \in Clients : Ordered(c)

(* Only sendFrame and the senders' takes touch the frames, and neither      *)
(* touches a client.                                                        *)
LEMMA FrameSteps ==
  ASSUME [Next]_vars
  PROVE  \/ UNCHANGED <<latestFrame, captured, item>>
         \/ /\ UNCHANGED inbox
            /\ SendFrame \/ \E s \in Starts : SenderTake(s)
<1> USE DEF acceptorVars, senderVars, clientVars, frameVars
<1>1. CASE UNCHANGED vars
  BY <1>1 DEF vars
<1>2. CASE SendFrame
  BY <1>2 DEF SendFrame
<1>3. CASE \E s \in Starts : SenderTake(s)
  BY <1>3 DEF SenderTake, Sending
<1>4. ASSUME NEW s \in Starts,
             \/ AcceptorBind(s) \/ AcceptorAssign(s) \/ AcceptorLoop(s)
             \/ AcceptorCall(s) \/ AcceptorClosed(s) \/ HandleEnter(s)
             \/ HandleGreet(s) \/ HandleAdd(s) \/ HandlePut(s) \/ HandleLeave(s)
             \/ \E c \in Clients : AcceptorAccept(s, c)
      PROVE  UNCHANGED <<latestFrame, captured, item>>
  BY <1>4 DEF Accepting, AcceptorBind, AcceptorAssign, AcceptorLoop, AcceptorCall,
      AcceptorClosed, AcceptorAccept, HandleEnter, HandleGreet, HandleAdd, HandlePut,
      HandleLeave
<1>5. ASSUME NEW s \in Starts,
             \/ SenderBegin(s) \/ SenderLoop(s) \/ SenderDecide(s) \/ SenderLock(s)
             \/ SenderCancelled(s) \/ SenderUnlock(s) \/ SenderDelay(s)
             \/ \E c \in Clients : SenderWrite(s, c)
      PROVE  UNCHANGED <<latestFrame, captured, item>>
  BY <1>5 DEF Sending, SenderBegin, SenderLoop, SenderDecide, SenderLock,
      SenderCancelled, SenderUnlock, SenderDelay, SenderWrite
<1>6. CASE \/ Start \/ Stop \/ StopCloseClients \/ StopClearClients
           \/ StopClearStreams \/ StopCloseSocket \/ StopForgetSocket \/ StopCancel
           \/ \E c \in Clients : Connect(c) \/ Disconnect(c)
  BY <1>6 DEF Start, Stop, Stopping, StopCloseClients, StopClearClients,
      StopClearStreams, StopCloseSocket, StopForgetSocket, StopCancel, Connect,
      Disconnect
<1>7. QED
  BY <1>1, <1>2, <1>3, <1>4, <1>5, <1>6, StepCases

(* A sender comes to hold a frame only by taking it. *)
LEMMA HoldSteps ==
  ASSUME TypeOK, [Next]_vars, NEW s \in Starts, Holding(s)'
  PROVE  Holding(s) \/ SenderTake(s)
<1> USE DEF Holding, TypeOK, mainVars, acceptorVars, senderVars, clientVars, frameVars
<1>1. CASE UNCHANGED sender
  BY <1>1
<1>2. CASE Start
  BY <1>2 DEF Start
<1>3. ASSUME NEW t \in Starts,
             \/ SenderBegin(t) \/ SenderLoop(t) \/ SenderTake(t) \/ SenderDecide(t)
             \/ SenderLock(t) \/ SenderCancelled(t) \/ SenderUnlock(t) \/ SenderDelay(t)
      PROVE  Holding(s) \/ SenderTake(s)
  <2>1. CASE t # s
    BY <1>3, <2>1 DEF SenderBegin, SenderLoop, SenderTake, SenderDecide, SenderLock,
      SenderCancelled, SenderUnlock, SenderDelay, Sending
  <2>2. CASE t = s
    BY <1>3, <2>2 DEF SenderBegin, SenderLoop, SenderDecide, SenderLock,
      SenderCancelled, SenderUnlock, SenderDelay, Sending, UnlessCancelled
  <2>3. QED
    BY <2>1, <2>2
<1>4. CASE UNCHANGED vars
  BY <1>1, <1>4 DEF vars
<1>5. QED
  BY <1>1, <1>2, <1>3, <1>4, StepCases
  DEF Stop, Stopping, StopCloseClients, StopClearClients, StopClearStreams,
      StopCloseSocket, StopForgetSocket, StopCancel, SendFrame, Connect, Disconnect,
      Accepting, AcceptorBind, AcceptorAssign, AcceptorLoop, AcceptorCall,
      AcceptorClosed, AcceptorAccept, HandleEnter, HandleGreet, HandleAdd, HandlePut,
      HandleLeave, SenderWrite

(* What a client receives in a step is the header or the frame of a round.  *)
LEMMA ReceivedSteps ==
  ASSUME IInv, [Next]_vars, NEW c \in Clients, NEW f \in Received(c)'
  PROVE  \/ f \in Received(c)
         \/ f = 0
         \/ \E s \in Starts : sender[s] = "writing" /\ f = item[s]
<1>1. CASE inbox' = inbox
  BY <1>1 DEF Received
<1>2. ASSUME NEW s \in Starts, NEW d \in Clients, Delivery(s, d)
      PROVE  f \in Received(c) \/ (sender[s] = "writing" /\ f = item[s])
  <2>1. item[s] \in 0 .. MaxFrames
    BY DEF IInv, TypeOK
  <2>2. /\ Received(d)' = Received(d) \union {item[s]}
        /\ c # d => Received(c)' = Received(c)
    BY <1>2, <2>1, Packet DEF IInv, Delivery
  <2>3. QED
    BY <1>2, <2>2 DEF Delivery
<1>3. ASSUME NEW s \in Starts, acceptor[s] = "greeting",
             inbox' = [inbox EXCEPT ![peer[s]] = Append(@, Header)]
      PROVE  f \in Received(c) \/ f = 0
  <2>1. peer[s] \in Clients /\ Header \in 0 .. MaxFrames /\ Header = 0
    BY <1>3 DEF IInv, GreetInv, Greeting, Header
  <2>2. PICK d \in Clients : d = peer[s]
    BY <2>1
  <2>3. inbox' = [inbox EXCEPT ![d] = Append(@, Header)]
    BY <1>3, <2>2
  <2>4. /\ Received(d)' = Received(d) \union {Header}
        /\ c # d => Received(c)' = Received(c)
    BY <2>1, <2>3, Packet DEF IInv
  <2>5. QED
    BY <2>1, <2>4
<1>4. QED
  BY <1>1, <1>2, <1>3, InboxSteps DEF Writes

LEMMA NextFresh ==
  ASSUME IInv, FreshInv, [Next]_vars
  PROVE  FreshInv'
<1>0. /\ item \in [Starts -> 0 .. MaxFrames] /\ captured \in Nat /\ latestFrame \in Nat
      /\ \A c \in Clients : Received(c) \subseteq Nat
      /\ \A c \in Clients : \A f \in Received(c) : f <= captured
  BY DEF IInv, TypeOK, FrameInv, Received
<1>1. CASE UNCHANGED <<latestFrame, captured, item>>
  <2>1. ASSUME latestFrame # 0, NEW c \in Clients, NEW f \in Received(c)'
        PROVE  f < latestFrame
    BY <1>0, <2>1, ReceivedSteps DEF FreshInv
  <2>2. QED
    BY <1>1, <2>1 DEF FreshInv
<1>2. CASE UNCHANGED inbox /\ SendFrame
  <2>1. /\ captured' = captured + 1 /\ latestFrame' = captured + 1 /\ item' = item
        /\ \A c \in Clients : Received(c)' = Received(c)
    BY <1>2 DEF SendFrame, senderVars, Received
  <2>2. QED
    BY <1>0, <2>1 DEF FreshInv
<1>3. ASSUME UNCHANGED inbox, NEW s \in Starts, SenderTake(s)
      PROVE  FreshInv'
  <2>1. /\ item' = [item EXCEPT ![s] = latestFrame] /\ latestFrame' = 0
        /\ captured' = captured
    BY <1>3 DEF SenderTake, Sending
  <2>2. latestFrame <= captured
    BY <1>0 DEF FreshInv
  <2>3. QED
    BY <1>0, <2>1, <2>2 DEF FreshInv
<1>4. QED
  BY <1>1, <1>2, <1>3, FrameSteps

(* Starts are only ever added. *)
LEMMA StartsGrow ==
  ASSUME [Next]_vars
  PROVE  starts' = starts \/ starts' = starts + 1
  BY StepCases
  DEF Start, Stop, Stopping, StopCloseClients, StopClearClients, StopClearStreams,
      StopCloseSocket, StopForgetSocket, StopCancel, SendFrame, Connect, Disconnect,
      Accepting, AcceptorBind, AcceptorAssign, AcceptorLoop, AcceptorCall,
      AcceptorClosed, AcceptorAccept, HandleEnter, HandleGreet, HandleAdd, HandlePut,
      HandleLeave, Sending, SenderBegin, SenderLoop, SenderTake, SenderDecide,
      SenderLock, SenderCancelled, SenderUnlock, SenderDelay, SenderWrite, mainVars, vars

LEMMA NextHeld ==
  ASSUME IInv, FreshInv, HeldNewest, [Next]_vars
  PROVE  HeldNewest'
<1> SUFFICES ASSUME starts' <= 1, NEW s \in Starts, Holding(s)',
                    NEW c \in Clients, NEW f \in Received(c)'
             PROVE  f <= item'[s]
  BY DEF HeldNewest
<1>0. /\ item \in [Starts -> 0 .. MaxFrames] /\ starts \in Nat
      /\ \A d \in Clients : Received(d) \subseteq Nat
  BY DEF IInv, TypeOK, Received
<1>1. starts <= 1
  BY <1>0, StartsGrow
<1>2. CASE SenderTake(s)
  <2>1. item'[s] = latestFrame /\ latestFrame # 0 /\ UNCHANGED inbox
    BY <1>0, <1>2 DEF SenderTake, Sending, clientVars, Holding, IInv, TypeOK
  <2>2. f \in Received(c) /\ latestFrame \in Nat
    BY <2>1 DEF Received, IInv, TypeOK
  <2>3. QED
    BY <1>0, <2>1, <2>2 DEF FreshInv
<1>3. CASE Holding(s) /\ ~SenderTake(s)
  <2>1. item'[s] = item[s]
    <3>1. ASSUME NEW t \in Starts, SenderTake(t)
          PROVE  item'[s] = item[s]
      BY <1>0, <1>3, <3>1 DEF SenderTake
    <3>2. QED
      BY <3>1, FrameSteps DEF SendFrame, senderVars
  <2>2. ASSUME NEW t \in Starts, Holding(t)
        PROVE  t = s
    BY <1>0, <1>1, <1>3, <2>2 DEF IInv, StartInv, Holding, Starts
  <2>3. CASE f \in Received(c)
    BY <1>1, <1>3, <2>1, <2>3 DEF HeldNewest
  <2>4. CASE f = 0
    BY <1>0, <2>1, <2>4
  <2>5. ASSUME NEW t \in Starts, sender[t] = "writing", f = item[t]
        PROVE  f <= item'[s]
    BY <1>0, <2>1, <2>2, <2>5 DEF Holding
  <2>6. QED
    BY <2>3, <2>4, <2>5, ReceivedSteps
<1>4. QED
  BY <1>2, <1>3, HoldSteps DEF IInv

LEMMA NextOrdered ==
  ASSUME IInv, HeldNewest, OneStartInOrder, [Next]_vars
  PROVE  OneStartInOrder'
<1> SUFFICES ASSUME starts' <= 1, NEW c \in Clients
             PROVE  Ordered(c)'
  BY DEF OneStartInOrder
<1>0. starts <= 1
  BY StartsGrow DEF IInv, TypeOK
<1>1. Ordered(c)
  BY <1>0 DEF OneStartInOrder
<1>2. CASE inbox' = inbox
  BY <1>1, <1>2 DEF Ordered
<1>3. ASSUME NEW s \in Starts, NEW d \in Clients, Delivery(s, d)
      PROVE  Ordered(c)'
  <2>1. /\ item[s] \in 0 .. MaxFrames /\ item[s] \notin Received(d)
        /\ \A f \in Received(d) : f \in Nat /\ f <= item[s]
    BY <1>0, <1>3 DEF IInv, TypeOK, FrameInv, Holding, Ahead, Delivery, HeldNewest, Received
  <2>2. \A i \in DOMAIN inbox[d] : inbox[d][i] < item[s]
    BY <2>1 DEF Received
  <2>3. QED
    BY <1>1, <1>3, <2>1, <2>2, Packet DEF IInv, Ordered, Delivery
<1>4. ASSUME NEW s \in Starts, acceptor[s] = "greeting",
             inbox' = [inbox EXCEPT ![peer[s]] = Append(@, Header)]
      PROVE  Ordered(c)'
  <2>1. peer[s] \in Clients /\ inbox[peer[s]] = <<>> /\ Header \in 0 .. MaxFrames
    BY <1>4 DEF IInv, GreetInv, Greeting, Header
  <2>2. QED
    BY <1>1, <1>4, <2>1, Packet DEF IInv, Ordered
<1>5. QED
  BY <1>2, <1>3, <1>4, InboxSteps DEF Writes

LEMMA FreshInvariant == Spec => [](FreshInv /\ HeldNewest /\ OneStartInOrder)
<1>1. ASSUME Init
      PROVE  FreshInv /\ HeldNewest /\ OneStartInOrder
  <2>1. \A c \in Clients : DOMAIN inbox[c] = {} /\ Received(c) = {}
    <3>1. DOMAIN <<>> = {}
      OBVIOUS
    <3>2. \A c \in Clients : inbox[c] = <<>>
      BY <1>1 DEF Init
    <3>3. QED
      BY <3>1, <3>2 DEF Received
  <2>2. QED
    BY <1>1, <2>1 DEF Init, FreshInv, HeldNewest, Holding, OneStartInOrder, Ordered
<1>2. IInv /\ FreshInv /\ HeldNewest /\ OneStartInOrder /\ [Next]_vars
        => (FreshInv /\ HeldNewest /\ OneStartInOrder)'
  BY NextFresh, NextHeld, NextOrdered
<1>3. QED
  BY Invariant, <1>1, <1>2, PTL DEF Spec

(* Until the server is started a second time, every client receives the     *)
(* header and the frames in the order the camera made them, gaps allowed.   *)
(* With two starts it need not: the senders may take frames in one order    *)
(* and get the lock in the other.                                           *)
THEOREM InOrder == Spec => []OneStartInOrder
  BY FreshInvariant, PTL

(* getAndSet gives the newest frame of the camera, newer than all a sender  *)
(* took or a client received before, whichever start the senders are of:    *)
(* frames can only change places between there and the lock.                *)
Taking(s) == sender[s] = "taking" /\ sender'[s] = "took"
NewestTaken ==
  \A s \in Starts : Taking(s) =>
    /\ item'[s] = captured
    /\ \A t \in Starts : item[t] < item'[s]
    /\ \A c \in Clients : \A f \in Received(c) : f < item'[s]

THEOREM TakesNewest == Spec => [][NewestTaken]_vars
<1>1. ASSUME IInv, FreshInv, Next, NEW s \in Starts, Taking(s)
      PROVE  SenderTake(s)
  <2>1. Holding(s)' /\ ~Holding(s)
    BY <1>1 DEF Taking, Holding
  <2>2. QED
    BY <1>1, <2>1, HoldSteps DEF IInv
<1>2. ASSUME IInv, FreshInv, NEW s \in Starts, Taking(s), SenderTake(s)
      PROVE  /\ item'[s] = captured
             /\ \A t \in Starts : item[t] < item'[s]
             /\ \A c \in Clients : \A f \in Received(c) : f < item'[s]
  <2>1. item'[s] = latestFrame /\ latestFrame # 0
    BY <1>2 DEF IInv, TypeOK, Taking, SenderTake, Sending
  <2>2. QED
    BY <2>1, <1>2 DEF FreshInv
<1>3. IInv /\ FreshInv /\ [Next]_vars => [NewestTaken]_vars
  BY <1>1, <1>2 DEF NewestTaken
<1>4. QED
  BY Invariant, FreshInvariant, <1>3, PTL DEF Spec

------------------------------------------------------------------------------
(* How stop() winds down: the rest of StopEndsCoroutines and                *)
(* NoneLeftWaiting that does without fairness and ENABLED.                  *)

(* In a still state no coroutine takes a step: Still implies that           *)
(* CoroutineSteps is not enabled.                                           *)
THEOREM StillStays == Spec => [][CoroutineSteps => ~Still]_vars
<1>1. ASSUME Still, NEW s \in Starts, AcceptorSteps(s)
      PROVE  FALSE
  <2>1. CASE acceptor[s] \in {"none", "done"}
    BY <1>1, <2>1
    DEF AcceptorSteps, Accepting, AcceptorBind, AcceptorAssign, AcceptorLoop,
        AcceptorCall, AcceptorClosed, AcceptorAccept, HandleEnter, HandleGreet,
        HandleAdd, HandlePut, HandleLeave
  <2>2. CASE /\ acceptor[s] = "accepting" /\ bound = listener[s]
             /\ \A c \in Clients : conn[c] = "queued" => backlog[c] # listener[s]
    BY <1>1, <2>2
    DEF AcceptorSteps, Accepting, AcceptorBind, AcceptorAssign, AcceptorLoop,
        AcceptorCall, AcceptorClosed, AcceptorAccept, HandleEnter, HandleGreet,
        HandleAdd, HandlePut, HandleLeave
  <2>3. QED
    BY <1>1, <2>1, <2>2 DEF Still
<1>2. ASSUME Still, NEW s \in Starts, SenderSteps(s)
      PROVE  FALSE
  <2>1. CASE sender[s] \in {"none", "done"}
    BY <1>2, <2>1
    DEF SenderSteps, Sending, SenderBegin, SenderLoop, SenderTake, SenderDecide,
        SenderLock, SenderCancelled, SenderWrite, SenderUnlock, SenderDelay
  <2>2. CASE sender[s] = "locking" /\ lock # 0 /\ s \notin cancelled
    BY <1>2, <2>2
    DEF SenderSteps, Sending, SenderBegin, SenderLoop, SenderTake, SenderDecide,
        SenderLock, SenderCancelled, SenderWrite, SenderUnlock, SenderDelay
  <2>3. QED
    BY <1>2, <2>1, <2>2 DEF Still
<1>3. [Next]_vars => [CoroutineSteps => ~Still]_vars
  BY <1>1, <1>2 DEF CoroutineSteps
<1>4. QED
  BY <1>3, PTL DEF Spec

(* How far a coroutine is from its end once running is not set: no loop is  *)
(* entered again, and a round of broadcast shrinks its list.                *)
AcceptorLeft(s) ==
  CASE acceptor[s] = "launched"  -> 10
    [] acceptor[s] = "bound"     -> 9
    [] acceptor[s] = "calling"   -> 8
    [] acceptor[s] = "accepting" -> 7
    [] acceptor[s] = "handling"  -> 6
    [] acceptor[s] = "greeting"  -> 5
    [] acceptor[s] = "adding"    -> 4
    [] acceptor[s] = "putting"   -> 3
    [] acceptor[s] = "leaving"   -> 2
    [] acceptor[s] = "loop"      -> 1
    [] OTHER                     -> 0

SenderLeft(s) ==
  CASE sender[s] = "launched" -> 7
    [] sender[s] = "taking"   -> 6
    [] sender[s] = "took"     -> 5
    [] sender[s] = "locking"  -> 4
    [] sender[s] = "writing"  -> 3
    [] sender[s] = "waiting"  -> 2
    [] sender[s] = "loop"     -> 1
    [] OTHER                  -> 0

SenderLower(s) ==
  \/ SenderLeft(s)' < SenderLeft(s)
  \/ /\ SenderLeft(s)' = SenderLeft(s)
     /\ Cardinality(todo'[s]) < Cardinality(todo[s])

WindsDown(s) ==
  /\ AcceptorSteps(s) => AcceptorLeft(s)' < AcceptorLeft(s)
  /\ SenderSteps(s) => SenderLower(s)
  /\ ~running' => /\ AcceptorLeft(s)' <= AcceptorLeft(s)
                  /\ SenderLower(s) \/ UNCHANGED <<sender[s], todo[s]>>

FiniteInv == IsFiniteSet(clients) /\ \A s \in Starts : IsFiniteSet(todo[s])

LEMMA NextFinite ==
  ASSUME TypeOK, FiniteInv, [Next]_vars
  PROVE  FiniteInv'
<1> USE DEF TypeOK, FiniteInv, acceptorVars, senderVars, listVars
<1>1. \A S, T : S \subseteq T /\ IsFiniteSet(T) => IsFiniteSet(S)
  BY FS_Subset
<1>2. CASE clients' \subseteq clients /\ UNCHANGED todo
  BY <1>1, <1>2
<1>3. CASE \E s \in Starts : HandleAdd(s)
  <2>1. PICK s \in Starts : HandleAdd(s)
    BY <1>3
  <2>2. clients' = clients \union {peer[s]} /\ UNCHANGED todo
    BY <2>1 DEF HandleAdd, Accepting
  <2>3. IsFiniteSet(clients \union {peer[s]})
    BY FS_AddElement
  <2>4. QED
    BY <2>2, <2>3
<1>4. CASE \E s \in Starts : SenderLock(s)
  BY <1>4 DEF SenderLock, Sending
<1>5. CASE \E s \in Starts, c \in Clients : SenderWrite(s, c)
  <2>1. PICK s \in Starts, c \in Clients : SenderWrite(s, c)
    BY <1>5
  <2>2. clients' \subseteq clients /\ \A t \in Starts : todo'[t] \subseteq todo[t]
    BY <2>1 DEF SenderWrite, WritePacket, Drop
  <2>3. QED
    BY <1>1, <2>2
<1>6. ASSUME NEW s \in Starts,
             \/ AcceptorBind(s) \/ AcceptorAssign(s) \/ AcceptorLoop(s)
             \/ AcceptorCall(s) \/ AcceptorClosed(s) \/ HandleEnter(s)
             \/ HandleGreet(s) \/ HandlePut(s) \/ HandleLeave(s)
             \/ \E c \in Clients : AcceptorAccept(s, c)
      PROVE  FiniteInv'
  BY <1>2, <1>6 DEF Accepting, AcceptorBind, AcceptorAssign, AcceptorLoop,
      AcceptorCall, AcceptorClosed, AcceptorAccept, HandleEnter, HandleGreet,
      HandlePut, HandleLeave
<1>7. ASSUME NEW s \in Starts,
             \/ SenderBegin(s) \/ SenderLoop(s) \/ SenderTake(s) \/ SenderDecide(s)
             \/ SenderCancelled(s) \/ SenderUnlock(s) \/ SenderDelay(s)
      PROVE  FiniteInv'
  BY <1>2, <1>7 DEF Sending, SenderBegin, SenderLoop, SenderTake, SenderDecide,
      SenderCancelled, SenderUnlock, SenderDelay
<1>8. CASE \/ Start \/ Stop \/ StopCloseClients \/ StopClearClients
           \/ StopClearStreams \/ StopCloseSocket \/ StopForgetSocket \/ StopCancel
           \/ SendFrame \/ \E c \in Clients : Connect(c) \/ Disconnect(c)
  BY <1>2, <1>8 DEF Start, Stop, Stopping, StopCloseClients, StopClearClients,
      StopClearStreams, StopCloseSocket, StopForgetSocket, StopCancel, SendFrame,
      Connect, Disconnect
<1>9. CASE UNCHANGED vars
  BY <1>2, <1>9 DEF vars
<1>10. QED
  BY <1>3, <1>4, <1>5, <1>6, <1>7, <1>8, <1>9, StepCases

LEMMA AcceptorDown ==
  ASSUME TypeOK, ~running, NEW s \in Starts, AcceptorSteps(s)
  PROVE  AcceptorLeft(s)' < AcceptorLeft(s)
<1> USE DEF TypeOK, Accepting, UnlessCancelled, AcceptorLeft
<1>1. CASE AcceptorBind(s) \/ AcceptorAssign(s) \/ AcceptorLoop(s) \/ AcceptorCall(s)
  BY <1>1 DEF AcceptorBind, AcceptorAssign, AcceptorLoop, AcceptorCall
<1>2. CASE AcceptorClosed(s) \/ \E c \in Clients : AcceptorAccept(s, c)
  BY <1>2 DEF AcceptorClosed, AcceptorAccept
<1>3. CASE HandleEnter(s) \/ HandleGreet(s) \/ HandleAdd(s)
  BY <1>3 DEF HandleEnter, HandleGreet, HandleAdd
<1>4. CASE HandlePut(s) \/ HandleLeave(s)
  BY <1>4 DEF HandlePut, HandleLeave
<1>5. QED
  BY <1>1, <1>2, <1>3, <1>4 DEF AcceptorSteps

LEMMA SenderDown ==
  ASSUME TypeOK, FiniteInv, ~running, NEW s \in Starts, SenderSteps(s)
  PROVE  SenderLower(s)
<1> USE DEF TypeOK, Sending, UnlessCancelled, SenderLeft, SenderLower
<1>1. CASE SenderBegin(s) \/ SenderLoop(s) \/ SenderTake(s) \/ SenderDecide(s)
  BY <1>1 DEF SenderBegin, SenderLoop, SenderTake, SenderDecide
<1>2. CASE SenderLock(s) \/ SenderCancelled(s) \/ SenderUnlock(s) \/ SenderDelay(s)
  BY <1>2 DEF SenderLock, SenderCancelled, SenderUnlock, SenderDelay
<1>3. CASE \E c \in Clients : SenderWrite(s, c)
  <2>1. PICK c \in Clients : SenderWrite(s, c)
    BY <1>3
  <2>2. c \in todo[s] /\ todo'[s] = todo[s] \ {c} /\ sender' = sender
    BY <2>1 DEF SenderWrite
  <2>3. Cardinality(todo[s] \ {c}) = Cardinality(todo[s]) - 1
    BY <2>2, FS_RemoveElement DEF FiniteInv
  <2>4. Cardinality(todo[s]) \in Nat
    BY FS_CardinalityType DEF FiniteInv
  <2>5. QED
    BY <2>2, <2>3, <2>4
<1>4. QED
  BY <1>1, <1>2, <1>3 DEF SenderSteps

(* Once running is not set, each step of a coroutine brings it nearer to    *)
(* its end, and no step of stop(), of a peer, of the camera or of another   *)
(* coroutine takes it further away: there are only finitely many steps      *)
(* before all is still, and StopLeavesNone says what is left then.          *)
THEOREM StopWindsDown ==
  Spec => [][~running => \A s \in Starts : WindsDown(s)]_vars
<1>1. ASSUME IInv, FiniteInv, Next, ~running, NEW s \in Starts
      PROVE  WindsDown(s)
  <2>0. TypeOK
    BY <1>1 DEF IInv
  <2>1. AcceptorSteps(s) => AcceptorLeft(s)' < AcceptorLeft(s)
    BY <1>1, <2>0, AcceptorDown
  <2>2. SenderSteps(s) => SenderLower(s)
    BY <1>1, <2>0, SenderDown
  <2>3. AcceptorLeft(s) \in Int /\ AcceptorLeft(s)' \in Int
    BY DEF AcceptorLeft
  <2>4. ASSUME ~running'
        PROVE  \/ AcceptorSteps(s) \/ SenderSteps(s)
               \/ UNCHANGED <<acceptor[s], sender[s], todo[s]>>
    <3> USE DEF TypeOK, mainVars, acceptorVars, senderVars
    <3>1. ASSUME NEW t \in Starts \ {s}, AcceptorSteps(t)
          PROVE  UNCHANGED <<acceptor[s], sender[s], todo[s]>>
      BY <2>0, <3>1
      DEF AcceptorSteps, Accepting, AcceptorBind, AcceptorAssign, AcceptorLoop,
          AcceptorCall, AcceptorClosed, AcceptorAccept, HandleEnter, HandleGreet,
          HandleAdd, HandlePut, HandleLeave
    <3>2. ASSUME NEW t \in Starts \ {s}, SenderSteps(t)
          PROVE  UNCHANGED <<acceptor[s], sender[s], todo[s]>>
      BY <2>0, <3>2
      DEF SenderSteps, Sending, SenderBegin, SenderLoop, SenderTake, SenderDecide,
          SenderLock, SenderCancelled, SenderWrite, SenderUnlock, SenderDelay
    <3>3. CASE \/ Stop \/ StopSteps \/ SendFrame
               \/ \E c \in Clients : Connect(c) \/ Disconnect(c)
      BY <3>3
      DEF Stop, StopSteps, Stopping, StopCloseClients, StopClearClients,
          StopClearStreams, StopCloseSocket, StopForgetSocket, StopCancel, SendFrame,
          Connect, Disconnect
    <3>4. ~Start
      BY <2>4 DEF Start
    <3>5. QED
      BY <1>1, <3>1, <3>2, <3>3, <3>4 DEF Next
  <2>5. AcceptorSteps(s) => UNCHANGED <<sender[s], todo[s]>>
    BY DEF AcceptorSteps, Accepting, AcceptorBind, AcceptorAssign, AcceptorLoop,
          AcceptorCall, AcceptorClosed, AcceptorAccept, HandleEnter, HandleGreet,
          HandleAdd, HandlePut, HandleLeave, senderVars
  <2>6. SenderSteps(s) => UNCHANGED acceptor[s]
    BY DEF SenderSteps, Sending, SenderBegin, SenderLoop, SenderTake, SenderDecide,
          SenderLock, SenderCancelled, SenderWrite, SenderUnlock, SenderDelay,
          acceptorVars
  <2>7. acceptor'[s] = acceptor[s] => AcceptorLeft(s)' = AcceptorLeft(s)
    BY DEF AcceptorLeft
  <2>8. QED
    BY <2>1, <2>2, <2>3, <2>4, <2>5, <2>6, <2>7 DEF WindsDown
<1>2. Init => FiniteInv
  BY FS_EmptySet DEF Init, FiniteInv
<1>3. IInv /\ FiniteInv /\ [Next]_vars => FiniteInv'
  BY NextFinite DEF IInv
<1>4. IInv /\ FiniteInv /\ [Next]_vars
        => [~running => \A s \in Starts : WindsDown(s)]_vars
  BY <1>1
<1>5. QED
  BY Invariant, <1>2, <1>3, <1>4, PTL DEF Spec
=============================================================================
