----------------------------- MODULE MjpegServer -----------------------------
(****************************************************************************)
(* The phone's MJPEG server (MjpegServer.kt).  start() and stop() run on    *)
(* the main thread.  Each start launches two coroutines on Dispatchers.IO,  *)
(* one that accepts connections and one that sends frames; stop() cancels   *)
(* them, but a coroutine notices only where it suspends, so the coroutines  *)
(* of one start may still run when the next one's do.  They all share       *)
(* running, serverSocket, clients, clientStreams, latestFrame and lock.     *)
(*                                                                          *)
(* A start, its coroutines and its ServerSocket are named by a number from  *)
(* 1; 0 is null.  Frames are numbered as the camera makes them.             *)
(****************************************************************************)
EXTENDS Integers, Sequences

CONSTANTS
  Clients,    \* connections to the phone, each made once
  NoClient,   \* no connection
  MaxStarts,  \* bound: calls of start() that start the server
  MaxFrames   \* bound: frames the camera makes

ASSUME ClientsAssumption == NoClient \notin Clients
ASSUME BoundsAssumption == MaxStarts \in Nat /\ MaxFrames \in Nat

VARIABLES
  main,          \* where stop() is on the main thread, or "idle"
  running,       \* as in the code
  starts,        \* how many scopes were made; the last is the current scope
  cancelled,     \* the scopes that are cancelled
  serverSocket,  \* as in the code: 0 or the start whose ServerSocket it is
  bound,         \* the start whose ServerSocket holds the port, or 0
  acceptor,      \* per start: where its accepting coroutine is
  listener,      \* per start: the ServerSocket its accept() was called on
  peer,          \* per start: the client it handles
  sender,        \* per start: where its sending coroutine is
  item,          \* per start: the frame it took
  todo,          \* per start: the clients its iterator has not reached
  lock,          \* the start whose sender holds the lock, or 0
  clients,       \* as in the code
  clientStreams, \* as in the code: the clients with an entry
  latestFrame,   \* as in the code: 0 or a frame
  captured,      \* the frames made so far
  conn,          \* per client: its connection as the phone sees it
  backlog,       \* per client: the ServerSocket that queues its connection
  inbox          \* per client: the header and the frames written to it

mainVars == <<main, running, starts, cancelled>>
acceptorVars == <<acceptor, listener, peer>>
senderVars == <<sender, item, todo, lock>>
socketVars == <<serverSocket, bound>>
listVars == <<clients, clientStreams>>
clientVars == <<conn, backlog, inbox>>
frameVars == <<latestFrame, captured>>
vars == <<mainVars, acceptorVars, senderVars, socketVars, listVars, clientVars,
          frameVars>>

Starts == 1 .. MaxStarts
Frames == 1 .. MaxFrames
Header == 0                   \* the HTTP response header, in an inbox

Init ==
  /\ main = "idle" /\ running = FALSE /\ starts = 0 /\ cancelled = {}
  /\ serverSocket = 0 /\ bound = 0
  /\ acceptor = [s \in Starts |-> "none"]
  /\ listener = [s \in Starts |-> 0]
  /\ peer = [s \in Starts |-> NoClient]
  /\ sender = [s \in Starts |-> "none"]
  /\ item = [s \in Starts |-> 0]
  /\ todo = [s \in Starts |-> {}]
  /\ lock = 0
  /\ clients = {} /\ clientStreams = {}
  /\ latestFrame = 0 /\ captured = 0
  /\ conn = [c \in Clients |-> "new"]
  /\ backlog = [c \in Clients |-> 0]
  /\ inbox = [c \in Clients |-> <<>>]

------------------------------------------------------------------------------
(* The main thread *)

(* start(); while running it returns at once. *)
Start ==
  /\ main = "idle"
  /\ ~running /\ starts < MaxStarts
  /\ running' = TRUE
  /\ starts' = starts + 1
  /\ acceptor' = [acceptor EXCEPT ![starts + 1] = "launched"]
  /\ sender' = [sender EXCEPT ![starts + 1] = "launched"]
  /\ UNCHANGED <<main, cancelled, listener, peer, item, todo, lock, socketVars,
                 listVars, clientVars, frameVars>>

(* stop() begins. *)
Stop ==
  /\ main = "idle" /\ starts > 0
  /\ running' = FALSE
  /\ main' = "closing"
  /\ UNCHANGED <<starts, cancelled, acceptorVars, senderVars, socketVars,
                 listVars, clientVars, frameVars>>

(* One statement of stop(). *)
Stopping(from, to) ==
  /\ main = from
  /\ main' = to
  /\ UNCHANGED <<running, starts, acceptorVars, senderVars, frameVars, backlog,
                 inbox>>

(* The clients in the list now are closed. *)
StopCloseClients ==
  /\ Stopping("closing", "clearing")
  /\ conn' = [c \in Clients |-> IF c \in clients THEN "closed" ELSE conn[c]]
  /\ UNCHANGED <<cancelled, socketVars, listVars>>

StopClearClients ==
  /\ Stopping("clearing", "clearingStreams")
  /\ clients' = {}
  /\ UNCHANGED <<cancelled, socketVars, clientStreams, conn>>

StopClearStreams ==
  /\ Stopping("clearingStreams", "closingSocket")
  /\ clientStreams' = {}
  /\ UNCHANGED <<cancelled, socketVars, clients, conn>>

(* Mutant: the socket is not closed. *)
StopCloseSocket_Nothing ==
  /\ Stopping("closingSocket", "forgetting")
  /\ UNCHANGED <<cancelled, socketVars, listVars, conn>>

(* serverSocket?.close(): the port is free again and the connections the    *)
(* socket had queued are reset.                                             *)
StopCloseSocket ==
  /\ Stopping("closingSocket", "forgetting")
  /\ bound' = IF bound = serverSocket THEN 0 ELSE bound
  /\ conn' = [c \in Clients |->
                IF conn[c] = "queued" /\ backlog[c] = serverSocket
                THEN "closed" ELSE conn[c]]
  /\ UNCHANGED <<cancelled, serverSocket, listVars>>

StopForgetSocket ==
  /\ Stopping("forgetting", "cancelling")
  /\ serverSocket' = 0
  /\ UNCHANGED <<cancelled, bound, listVars, conn>>

StopCancel ==
  /\ Stopping("cancelling", "idle")
  /\ cancelled' = cancelled \union {starts}
  /\ UNCHANGED <<socketVars, listVars, conn>>

StopSteps ==
  \/ StopCloseClients \/ StopClearClients \/ StopClearStreams
  \/ StopCloseSocket \/ StopForgetSocket \/ StopCancel

------------------------------------------------------------------------------
(* The accepting coroutine of start s *)

Accepting(s, from, to) ==
  /\ acceptor[s] = from
  /\ acceptor' = [acceptor EXCEPT ![s] = to]
  /\ UNCHANGED <<mainVars, senderVars, frameVars, backlog>>

UnlessCancelled(s, to) == IF s \in cancelled THEN "done" ELSE to

(* It is dispatched and makes its ServerSocket, unless it was cancelled     *)
(* first or the port is taken (a BindException, which is ignored).          *)
AcceptorBind(s) ==
  /\ \/ /\ s \in cancelled \/ bound # 0
        /\ Accepting(s, "launched", "done")
        /\ UNCHANGED bound
     \/ /\ s \notin cancelled /\ bound = 0
        /\ Accepting(s, "launched", "bound")
        /\ bound' = s
  /\ UNCHANGED <<serverSocket, listener, peer, listVars, conn, inbox>>

AcceptorAssign(s) ==
  /\ Accepting(s, "bound", "loop")
  /\ serverSocket' = s
  /\ UNCHANGED <<bound, listener, peer, listVars, conn, inbox>>

(* while (running) *)
AcceptorLoop(s) ==
  /\ Accepting(s, "loop", IF running THEN "calling" ELSE "done")
  /\ UNCHANGED <<socketVars, listener, peer, listVars, conn, inbox>>

(* serverSocket?.accept() ?: break *)
AcceptorCall(s) ==
  /\ Accepting(s, "calling", IF serverSocket = 0 THEN "done" ELSE "accepting")
  /\ listener' = [listener EXCEPT ![s] = serverSocket]
  /\ UNCHANGED <<socketVars, peer, listVars, conn, inbox>>

(* accept() returns a connection. *)
AcceptorAccept(s, c) ==
  /\ Accepting(s, "accepting", "handling")
  /\ bound = listener[s]
  /\ conn[c] = "queued" /\ backlog[c] = listener[s]
  /\ conn' = [conn EXCEPT ![c] = "open"]
  /\ peer' = [peer EXCEPT ![s] = c]
  /\ UNCHANGED <<socketVars, listener, listVars, inbox>>

(* accept() throws: its socket is closed. *)
AcceptorClosed(s) ==
  /\ Accepting(s, "accepting", "done")
  /\ bound # listener[s]
  /\ UNCHANGED <<socketVars, listener, peer, listVars, conn, inbox>>

(* Mutant: the client is listed before it is greeted. *)
HandleEnter_ListsFirst(s) ==
  /\ Accepting(s, "handling", UnlessCancelled(s, "greeting"))
  /\ clients' = clients \union {peer[s]}
  /\ clientStreams' = clientStreams \union {peer[s]}
  /\ UNCHANGED <<socketVars, listener, peer, conn, inbox>>

(* handleClient: withContext throws in a cancelled scope, which ends the    *)
(* coroutine and forgets the connection.                                    *)
HandleEnter(s) ==
  /\ Accepting(s, "handling", UnlessCancelled(s, "greeting"))
  /\ UNCHANGED <<socketVars, listener, peer, listVars, conn, inbox>>

(* The response header is written; or that fails, and the client is closed. *)
HandleGreet(s) ==
  LET c == peer[s] IN
  /\ \/ /\ Accepting(s, "greeting", "adding")
        /\ conn[c] # "closed"
        /\ inbox' = [inbox EXCEPT ![c] = Append(@, Header)]
        /\ UNCHANGED conn
     \/ /\ Accepting(s, "greeting", "leaving")
        /\ conn[c] # "open"
        /\ conn' = [conn EXCEPT ![c] = "closed"]
        /\ UNCHANGED inbox
  /\ UNCHANGED <<socketVars, listener, peer, listVars>>

(* Mutant: an accept() that returned nothing is listed as well. *)
HandleAdd_Unset(s) ==
  /\ Accepting(s, "adding", "putting")
  /\ clients' = clients \union {peer[s], NoClient}
  /\ UNCHANGED <<socketVars, listener, peer, clientStreams, conn, inbox>>

(* clients.add(socket) *)
HandleAdd(s) ==
  /\ Accepting(s, "adding", "putting")
  /\ clients' = clients \union {peer[s]}
  /\ UNCHANGED <<socketVars, listener, peer, clientStreams, conn, inbox>>

(* Another thread may be changing clientStreams, an unsynchronised map. *)
MapBusy(s) ==
  \/ main = "clearingStreams"
  \/ \E t \in Starts : sender[t] = "writing"
  \/ \E t \in Starts \ {s} : acceptor[t] = "putting"

(* clientStreams[socket] = out; racing with another change it may be lost. *)
HandlePut(s) ==
  /\ Accepting(s, "putting", "leaving")
  /\ \/ clientStreams' = clientStreams \union {peer[s]}
     \/ MapBusy(s) /\ UNCHANGED clientStreams
  /\ UNCHANGED <<socketVars, listener, peer, clients, conn, inbox>>

(* withContext returns, or throws because its scope was cancelled. *)
HandleLeave(s) ==
  /\ Accepting(s, "leaving", UnlessCancelled(s, "loop"))
  /\ UNCHANGED <<socketVars, listener, peer, listVars, conn, inbox>>

AcceptorSteps(s) ==
  \/ AcceptorBind(s) \/ AcceptorAssign(s) \/ AcceptorLoop(s) \/ AcceptorCall(s)
  \/ \E c \in Clients : AcceptorAccept(s, c)
  \/ AcceptorClosed(s) \/ HandleEnter(s) \/ HandleGreet(s) \/ HandleAdd(s)
  \/ HandlePut(s) \/ HandleLeave(s)

------------------------------------------------------------------------------
(* The sending coroutine of start s *)

Sending(s, from, to) ==
  /\ sender[s] = from
  /\ sender' = [sender EXCEPT ![s] = to]
  /\ UNCHANGED <<mainVars, acceptorVars, socketVars, listVars, clientVars,
                 captured>>

(* It is dispatched, unless it was cancelled first. *)
SenderBegin(s) ==
  /\ Sending(s, "launched", UnlessCancelled(s, "loop"))
  /\ UNCHANGED <<item, todo, lock, latestFrame>>

(* while (running) *)
SenderLoop(s) ==
  /\ Sending(s, "loop", IF running THEN "taking" ELSE "done")
  /\ UNCHANGED <<item, todo, lock, latestFrame>>

(* Mutant: the frame is read and left in place. *)
SenderTake_Get(s) ==
  /\ Sending(s, "taking", IF latestFrame = 0 THEN "waiting" ELSE "took")
  /\ item' = [item EXCEPT ![s] = latestFrame]
  /\ UNCHANGED <<todo, lock, latestFrame>>

(* latestFrame.getAndSet(null) *)
SenderTake(s) ==
  /\ Sending(s, "taking", IF latestFrame = 0 THEN "waiting" ELSE "took")
  /\ item' = [item EXCEPT ![s] = latestFrame]
  /\ latestFrame' = 0
  /\ UNCHANGED <<todo, lock>>

(* A frame nobody is there for is dropped; the others are broadcast. *)
SenderDecide(s) ==
  /\ Sending(s, "took", IF clients = {} THEN "waiting" ELSE "locking")
  /\ UNCHANGED <<item, todo, lock, latestFrame>>

(* Mutant: broadcast does not take the lock. *)
SenderLock_Always(s) ==
  /\ Sending(s, "locking", "writing")
  /\ lock' = s
  /\ todo' = [todo EXCEPT ![s] = clients]
  /\ UNCHANGED <<item, latestFrame>>

(* lock.withLock, and the iterator's snapshot of clients. *)
SenderLock(s) ==
  /\ Sending(s, "locking", "writing")
  /\ lock = 0
  /\ lock' = s
  /\ todo' = [todo EXCEPT ![s] = clients]
  /\ UNCHANGED <<item, latestFrame>>

(* A cancelled coroutine that waits for the lock ends, and its frame is     *)
(* dropped.                                                                 *)
SenderCancelled(s) ==
  /\ Sending(s, "locking", "done")
  /\ lock # 0 /\ s \in cancelled
  /\ UNCHANGED <<item, todo, lock, latestFrame>>

(* An IOException closes the client and takes it off both lists. *)
Drop(c) ==
  /\ conn[c] # "open"
  /\ conn' = [conn EXCEPT ![c] = "closed"]
  /\ clientStreams' = clientStreams \ {c}
  /\ clients' = clients \ {c}
  /\ UNCHANGED inbox

(* A packet is written by one call; a peer that left may still take it      *)
(* unnoticed.  A client without a stream is passed over.                    *)
WritePacket(s, c) ==
  /\ c \in clientStreams => conn[c] # "closed"
  /\ inbox' = IF c \in clientStreams
              THEN [inbox EXCEPT ![c] = Append(@, item[s])] ELSE inbox
  /\ UNCHANGED <<conn, listVars>>

(* Mutant: an IOException of one client ends the round. *)
SenderWrite_Abort(s, c) ==
  /\ sender[s] = "writing" /\ c \in todo[s]
  /\ \/ WritePacket(s, c) /\ todo' = [todo EXCEPT ![s] = @ \ {c}]
     \/ c \in clientStreams /\ Drop(c) /\ todo' = [todo EXCEPT ![s] = {}]
  /\ UNCHANGED <<mainVars, acceptorVars, sender, item, lock, socketVars, backlog,
                 frameVars>>

(* One client's turn. *)
SenderWrite(s, c) ==
  /\ sender[s] = "writing" /\ c \in todo[s]
  /\ todo' = [todo EXCEPT ![s] = @ \ {c}]
  /\ WritePacket(s, c) \/ (c \in clientStreams /\ Drop(c))
  /\ UNCHANGED <<mainVars, acceptorVars, sender, item, lock, socketVars, backlog,
                 frameVars>>

(* The round is over. *)
SenderUnlock(s) ==
  /\ Sending(s, "writing", "waiting")
  /\ todo[s] = {}
  /\ lock' = 0
  /\ UNCHANGED <<item, todo, latestFrame>>

(* delay(1), which throws in a cancelled scope. *)
SenderDelay(s) ==
  /\ Sending(s, "waiting", UnlessCancelled(s, "loop"))
  /\ UNCHANGED <<item, todo, lock, latestFrame>>

SenderSteps(s) ==
  \/ SenderBegin(s) \/ SenderLoop(s) \/ SenderTake(s) \/ SenderDecide(s)
  \/ SenderLock(s) \/ SenderCancelled(s)
  \/ \E c \in Clients : SenderWrite(s, c)
  \/ SenderUnlock(s) \/ SenderDelay(s)

------------------------------------------------------------------------------
(* The camera and the peers *)

(* sendFrame, called by the camera whether the server runs or not. *)
SendFrame ==
  /\ captured < MaxFrames
  /\ captured' = captured + 1
  /\ latestFrame' = captured + 1
  /\ UNCHANGED <<mainVars, acceptorVars, senderVars, socketVars, listVars,
                 clientVars>>

(* A peer connects: the port queues it until accept() takes it. *)
Connect(c) ==
  /\ conn[c] = "new" /\ bound # 0
  /\ conn' = [conn EXCEPT ![c] = "queued"]
  /\ backlog' = [backlog EXCEPT ![c] = bound]
  /\ UNCHANGED <<mainVars, acceptorVars, senderVars, socketVars, listVars,
                 inbox, frameVars>>

(* A peer goes away. *)
Disconnect(c) ==
  /\ conn[c] = "open"
  /\ conn' = [conn EXCEPT ![c] = "gone"]
  /\ UNCHANGED <<mainVars, acceptorVars, senderVars, socketVars, listVars,
                 backlog, inbox, frameVars>>

------------------------------------------------------------------------------
Next ==
  \/ Start \/ Stop \/ StopSteps
  \/ \E s \in Starts : AcceptorSteps(s) \/ SenderSteps(s)
  \/ SendFrame
  \/ \E c \in Clients : Connect(c) \/ Disconnect(c)

Spec == Init /\ [][Next]_vars

(* Threads run; a write to a peer ends, with success or with an exception.  *)
FairSpec ==
  /\ Spec
  /\ WF_vars(StopSteps)
  /\ \A s \in Starts : WF_vars(AcceptorSteps(s)) /\ WF_vars(SenderSteps(s))

------------------------------------------------------------------------------
(* Properties *)

MainPCs == {"idle", "closing", "clearing", "clearingStreams", "closingSocket",
            "forgetting", "cancelling"}
AcceptorPCs == {"none", "launched", "bound", "loop", "calling", "accepting",
                "handling", "greeting", "adding", "putting", "leaving", "done"}
SenderPCs == {"none", "launched", "loop", "taking", "took", "locking",
              "writing", "waiting", "done"}
ConnStates == {"new", "queued", "open", "gone", "closed"}

TypeOK ==
  /\ main \in MainPCs /\ running \in BOOLEAN /\ starts \in 0 .. MaxStarts
  /\ cancelled \subseteq Starts
  /\ serverSocket \in 0 .. MaxStarts /\ bound \in 0 .. MaxStarts
  /\ acceptor \in [Starts -> AcceptorPCs]
  /\ listener \in [Starts -> 0 .. MaxStarts]
  /\ peer \in [Starts -> Clients \union {NoClient}]
  /\ sender \in [Starts -> SenderPCs]
  /\ item \in [Starts -> 0 .. MaxFrames]
  /\ todo \in [Starts -> SUBSET Clients]
  /\ lock \in 0 .. MaxStarts
  /\ clients \subseteq Clients /\ clientStreams \subseteq Clients
  /\ latestFrame \in 0 .. MaxFrames /\ captured \in 0 .. MaxFrames
  /\ conn \in [Clients -> ConnStates]
  /\ backlog \in [Clients -> 0 .. MaxStarts]
  /\ inbox \in [Clients -> Seq(0 .. MaxFrames)]

(* The response header comes before every frame and never again, although   *)
(* the accepting and the sending coroutines of several starts write to one  *)
(* client.                                                                  *)
HeaderFirst ==
  \A c \in Clients : \A i \in DOMAIN inbox[c] : inbox[c][i] = Header <=> i = 1

(* No frame reaches a client twice, whichever senders are still alive. *)
NoFrameTwice ==
  \A c \in Clients : \A i, j \in DOMAIN inbox[c] :
    inbox[c][i] = inbox[c][j] => i = j

(* Two rounds of broadcast, of two starts, never overlap. *)
OneBroadcast ==
  \A s, t \in Starts : sender[s] = "writing" /\ sender[t] = "writing" => s = t

(* Unless start() is called again, stop() ends every coroutine there is,    *)
(* however its steps fall between theirs, but for one: the coroutine of an  *)
(* earlier start that, delayed over two calls of stop(), calls accept() on  *)
(* the ServerSocket of a later start behind the back of the second.         *)
Ended(s) == acceptor[s] \in {"none", "done"} /\ sender[s] \in {"none", "done"}
Stranded(s) ==
  /\ acceptor[s] = "accepting" /\ bound = listener[s] /\ listener[s] > s
  /\ sender[s] = "done"
StopEndsCoroutines ==
  <>[]~running => <>[](\A s \in Starts : Ended(s) \/ Stranded(s))

(* No coroutine can take a step: each has ended, is in an accept() to which *)
(* nobody connects, or waits for a lock that is held.                       *)
Still ==
  \A s \in Starts :
    /\ \/ acceptor[s] \in {"none", "done"}
       \/ /\ acceptor[s] = "accepting" /\ bound = listener[s]
          /\ \A c \in Clients : conn[c] = "queued" => backlog[c] # listener[s]
    /\ \/ sender[s] \in {"none", "done"}
       \/ sender[s] = "locking" /\ lock # 0 /\ s \notin cancelled

(* The same without the fairness: when stop() was called last and nothing   *)
(* in the server can move, nothing is left of it.  No coroutine of any      *)
(* start waits for a lock, for a socket or for another one.                 *)
CoroutineSteps == \E s \in Starts : AcceptorSteps(s) \/ SenderSteps(s)
NoneLeft ==
  ~running /\ main = "idle" /\ Still => \A s \in Starts : Ended(s) \/ Stranded(s)
NoneLeftWaiting ==
  NoneLeft /\ (~running /\ main = "idle" => (Still <=> ~ENABLED CoroutineSteps))

(* A frame offered while a client is on both lists, or a later one, reaches *)
(* the client, whatever happens to the other clients.                       *)
ClientServed ==
  \A c \in Clients, f \in Frames :
    latestFrame = f /\ running /\ c \in clients \intersect clientStreams ~>
      \/ ~running \/ conn[c] # "open"
      \/ \E i \in DOMAIN inbox[c] : inbox[c][i] >= f

(* "MJPEG TCP server (port 8080)" (README.md:13), "ON" (App.kt:54): a       *)
(* server that was started listens on the port, until it is stopped.        *)
Listening == bound # 0 /\ \E s \in Starts : acceptor[s] = "accepting"
StartedServerListens ==
  running /\ main = "idle" ~> ~running \/ Listening
==============================================================================
