----------------------------- MODULE IpcChannel ------------------------------
(****************************************************************************)
(* The shared library's channel on Windows (compat/windows/ipc.c): a        *)
(* producer and a consumer, in two processes, each with a gvcam_ipc_t of    *)
(* its own, on one segment [gvcam_frame_desc_t][pixel data] with one mutex. *)
(* Either may leave or die at any step and open the channel again.  The     *)
(* producer's caller numbers the frames of a session 1, 2, ...; a frame is  *)
(* known by its session and number together, 0 stands for zeroed memory.    *)
(* The consumer's caller reads again and again, and copies the data of each *)
(* new frame through the pointer that gvcam_ipc_read returned.              *)
(*                                                                          *)
(* A memcpy of the descriptor is two steps, one for frame_index, its last   *)
(* field, and before that one for the others; a memcpy of pixel data is one *)
(* step per chunk.                                                          *)
(****************************************************************************)
EXTENDS Integers

CONSTANTS
  LastChunk,  \* the last chunk of the pixel data
  MaxFrames,  \* bound: frames written in a session
  MaxOpens,   \* bound: times the producer opens the channel
  MaxJoins    \* bound: times the consumer opens it

ASSUME ChunksAssumption == LastChunk \in Nat
ASSUME BoundsAssumption == MaxFrames \in Nat \ {0} /\ MaxOpens \in Nat /\ MaxJoins \in Nat

VARIABLES
  index, rest, \* the descriptor: the frame its two parts come from
  data,        \* the frame each chunk of the pixel data comes from
  owner,       \* who holds the mutex: "producer", "consumer" or "nobody"
  faults,      \* history: what disturbed the consumer since it came
  producer,    \* where the producer is
  session,     \* how often it opened the channel
  frame,       \* the number of the last frame it began to write
  cursor,      \* the next chunk it writes
  consumer,    \* where the consumer is
  joins,       \* how often it opened the channel
  cur,         \* its copy of the descriptor
  lastIndex,   \* ch->last_frame_index
  result,      \* what the last successful read returned
  pos,         \* the next chunk its caller copies
  picture      \* what the caller copied

segment == <<index, rest, data>>
producerVars == <<producer, session, frame, cursor>>
readVars == <<cur, lastIndex, result>>
useVars == <<pos, picture>>
consumerVars == <<consumer, joins, readVars, useVars>>
mutexVars == <<owner, faults>>
vars == <<segment, mutexVars, producerVars, consumerVars>>

Chunks == 0 .. LastChunk
Zeros == [c \in Chunks |-> 0]
Nothing == [index |-> 0, rest |-> 0, data |-> Zeros]

(* Frame n of this session, and the number desc->frame_index that it has.   *)
Id(n) == IF n = 0 THEN 0 ELSE (session - 1) * MaxFrames + n
Number(id) == IF id = 0 THEN 0 ELSE ((id - 1) % MaxFrames) + 1

Init ==
  /\ index = 0 /\ rest = 0 /\ data = Zeros
  /\ owner = "nobody" /\ faults = {}
  /\ producer = "closed" /\ session = 0 /\ frame = 0 /\ cursor = 0
  /\ consumer = "closed" /\ joins = 0
  /\ cur = [index |-> 0, rest |-> 0] /\ lastIndex = 0
  /\ result = Nothing
  /\ pos = 0 /\ picture = Zeros

------------------------------------------------------------------------------
(* The mutex *)

(* Mutant: neither side waits for the mutex. *)
Lock_Never(who) == who # owner /\ UNCHANGED mutexVars

(* Mutant: the wait is INFINITE. *)
Lock_Patient(who) == owner = "nobody" /\ owner' = who /\ UNCHANGED faults

(* WaitForSingleObject(ch->hMutex, 5), whose result is ignored: if the      *)
(* other side holds the mutex for longer, this one goes on without it.      *)
Lock(who) ==
  \/ owner = "nobody" /\ owner' = who /\ UNCHANGED faults
  \/ owner # "nobody" /\ faults' = faults \union {"late"} /\ UNCHANGED owner

(* ReleaseMutex, without effect for a process that does not own it; a       *)
(* process that dies abandons the mutex.                                    *)
Released(who) == owner' = IF owner = who THEN "nobody" ELSE owner
Unlock(who) == Released(who) /\ UNCHANGED faults

------------------------------------------------------------------------------
(* The producer *)

(* gvcam_ipc_open creates the segment, or finds the one that a consumer of  *)
(* an earlier session keeps alive, and then zeroes the descriptor without   *)
(* the mutex.                                                               *)
ProducerOpen ==
  /\ producer = "closed" /\ session < MaxOpens
  /\ producer' = "zeroRest" /\ session' = session + 1 /\ frame' = 0
  /\ IF consumer = "closed"
     THEN index' = 0 /\ rest' = 0 /\ data' = Zeros /\ UNCHANGED faults
     ELSE faults' = faults \union {"reopen"} /\ UNCHANGED segment
  /\ UNCHANGED <<owner, cursor, consumerVars>>

ZeroRest ==
  /\ producer = "zeroRest"
  /\ rest' = 0 /\ producer' = "zeroIndex"
  /\ UNCHANGED <<index, data, mutexVars, session, frame, cursor, consumerVars>>

ZeroIndex ==
  /\ producer = "zeroIndex"
  /\ index' = 0 /\ producer' = "idle"
  /\ UNCHANGED <<rest, data, mutexVars, session, frame, cursor, consumerVars>>

(* gvcam_ipc_write is called with the next frame. *)
Write ==
  /\ producer = "idle" /\ frame < MaxFrames
  /\ frame' = frame + 1
  /\ producer' = "lock"
  /\ UNCHANGED <<segment, mutexVars, session, cursor, consumerVars>>

WriteLock ==
  /\ producer = "lock"
  /\ Lock("producer")
  /\ producer' = "rest"
  /\ UNCHANGED <<segment, session, frame, cursor, consumerVars>>

WriteRest ==
  /\ producer = "rest"
  /\ rest' = Id(frame)
  /\ producer' = "index"
  /\ UNCHANGED <<index, data, mutexVars, session, frame, cursor, consumerVars>>

WriteIndex ==
  /\ producer = "index"
  /\ index' = Id(frame)
  /\ cursor' = 0
  /\ producer' = "data"
  /\ UNCHANGED <<rest, data, mutexVars, session, frame, consumerVars>>

(* Mutant: the copy runs past the end. *)
WriteData_Long ==
  /\ producer = "data"
  /\ data' = [data EXCEPT ![cursor] = Id(frame)]
  /\ cursor' = cursor + 1
  /\ producer' = IF cursor > LastChunk THEN "unlock" ELSE "data"
  /\ UNCHANGED <<index, rest, mutexVars, session, frame, consumerVars>>

WriteData ==
  /\ producer = "data"
  /\ data' = [data EXCEPT ![cursor] = Id(frame)]
  /\ IF cursor = LastChunk
     THEN producer' = "unlock" /\ UNCHANGED cursor
     ELSE cursor' = cursor + 1 /\ UNCHANGED producer
  /\ UNCHANGED <<index, rest, mutexVars, session, frame, consumerVars>>

WriteReturn ==
  /\ producer = "unlock"
  /\ Unlock("producer")
  /\ producer' = "idle"
  /\ UNCHANGED <<segment, session, frame, cursor, consumerVars>>

(* gvcam_ipc_close, or the end of the process at any other step. *)
ProducerExit ==
  /\ producer # "closed"
  /\ producer' = "closed"
  /\ Released("producer")
  /\ faults' = IF producer = "idle" THEN faults ELSE faults \union {"crash"}
  /\ UNCHANGED <<segment, session, frame, cursor, consumerVars>>

------------------------------------------------------------------------------
(* The consumer *)

(* gvcam_ipc_open finds the segment.  What happened before is of no concern *)
(* to the consumer, if the producer is not at work.                         *)
ConsumerOpen ==
  /\ consumer = "closed" /\ joins < MaxJoins
  /\ producer # "closed"
  /\ joins' = joins + 1
  /\ consumer' = "idle"
  /\ faults' = IF producer = "idle" THEN {} ELSE faults
  /\ UNCHANGED <<segment, owner, producerVars, readVars, useVars>>

(* gvcam_ipc_read is called. *)
Read ==
  /\ consumer = "idle"
  /\ consumer' = "lock"
  /\ UNCHANGED <<segment, mutexVars, producerVars, joins, readVars, useVars>>

ReadLock ==
  /\ consumer = "lock"
  /\ Lock("consumer")
  /\ consumer' = "rest"
  /\ UNCHANGED <<segment, producerVars, joins, readVars, useVars>>

ReadRest ==
  /\ consumer = "rest"
  /\ cur' = [cur EXCEPT !.rest = rest]
  /\ consumer' = "index"
  /\ UNCHANGED <<segment, mutexVars, producerVars, joins, lastIndex, result, useVars>>

ReadIndex ==
  /\ consumer = "index"
  /\ cur' = [cur EXCEPT !.index = index]
  /\ consumer' = "check"
  /\ UNCHANGED <<segment, mutexVars, producerVars, joins, lastIndex, result, useVars>>

(* Mutant: only a larger number is a new frame. *)
New_Larger == Number(cur.index) > lastIndex

(* cur.frame_index is not that of the frame read last. *)
New == Number(cur.index) # lastIndex

(* No new frame: 1 is returned. *)
ReadNothing ==
  /\ consumer = "check" /\ ~ New
  /\ Unlock("consumer")
  /\ consumer' = "idle"
  /\ UNCHANGED <<segment, producerVars, joins, readVars, useVars>>

(* A new frame: its descriptor is returned, and a pointer into the segment, *)
(* where result records what is there now.                                  *)
ReadFrame ==
  /\ consumer = "check" /\ New
  /\ lastIndex' = Number(cur.index)
  /\ result' = [index |-> cur.index, rest |-> cur.rest, data |-> data]
  /\ Unlock("consumer")
  /\ pos' = 0 /\ consumer' = "use"
  /\ UNCHANGED <<segment, producerVars, joins, cur, picture>>

(* The caller copies a chunk through the pointer it was given. *)
Use ==
  /\ consumer = "use"
  /\ picture' = [picture EXCEPT ![pos] = data[pos]]
  /\ IF pos = LastChunk
     THEN consumer' = "idle" /\ UNCHANGED pos
     ELSE pos' = pos + 1 /\ UNCHANGED consumer
  /\ UNCHANGED <<segment, mutexVars, producerVars, joins, readVars>>

(* gvcam_ipc_close, or the end of the process.  The zeros that the next     *)
(* gvcam_ipc_open fills the channel with are put there at once.             *)
ConsumerExit ==
  /\ consumer # "closed"
  /\ consumer' = "closed"
  /\ Unlock("consumer")
  /\ cur' = [index |-> 0, rest |-> 0] /\ lastIndex' = 0 /\ result' = Nothing
  /\ pos' = 0 /\ picture' = Zeros
  /\ UNCHANGED <<segment, producerVars, joins>>

ProducerWrites == WriteLock \/ WriteIndex \/ WriteRest \/ WriteData \/ WriteReturn

ConsumerReads ==
  \/ ReadLock \/ ReadIndex \/ ReadRest \/ ReadNothing \/ ReadFrame \/ Use

Next ==
  \/ ProducerOpen \/ ZeroIndex \/ ZeroRest
  \/ Write \/ ProducerWrites \/ ProducerExit
  \/ ConsumerOpen \/ Read \/ ConsumerReads \/ ConsumerExit

Spec == Init /\ [][Next]_vars

(* The consumer's caller reads again and again, and a read that was begun   *)
(* goes on, whatever becomes of the producer.                               *)
FairSpec == Spec /\ WF_vars(ConsumerReads) /\ WF_vars(Read)

------------------------------------------------------------------------------
(* Properties *)

TypeOK ==
  LET Frames == 0 .. MaxFrames  Ids == 0 .. MaxOpens * MaxFrames
  IN
  /\ index \in Ids /\ rest \in Ids /\ data \in [Chunks -> Ids]
  /\ owner \in {"nobody", "producer", "consumer"}
  /\ faults \subseteq {"late", "crash", "reopen"}
  /\ producer \in {"closed", "zeroIndex", "zeroRest", "idle", "lock", "index",
                   "rest", "data", "unlock"}
  /\ session \in 0 .. MaxOpens /\ frame \in Frames /\ cursor \in Chunks
  /\ consumer \in {"closed", "idle", "lock", "index", "rest", "check", "use"}
  /\ joins \in 0 .. MaxJoins
  /\ cur \in [index : Ids, rest : Ids] /\ lastIndex \in Frames
  /\ result \in [index : Ids, rest : Ids, data : [Chunks -> Ids]]
  /\ pos \in Chunks /\ picture \in [Chunks -> Ids]

Writing == producer \in {"lock", "index", "rest", "data", "unlock"}
Whole(r) == r.index = r.rest /\ \A c \in Chunks : r.data[c] = r.index

Value == Id(IF Writing THEN frame - 1 ELSE frame)
Got == IF Whole(result) THEN result.index ELSE -1
Register == INSTANCE FrameRegister WITH value <- Value, got <- Got

(* Until one side has held the mutex for longer than 5 ms, the producer has *)
(* died in the middle of a call or has opened the channel again under the   *)
(* consumer, the channel is a register for it: each read that succeeds      *)
(* finds one whole frame, descriptor and data, the newest that was written, *)
(* although both memcpys take several steps, and although the segment may   *)
(* be one that saw faults before the consumer came.                         *)
RegisterSpec ==
  Register!Init /\ [][faults' # {} \/ Register!Next]_<<Value, Got>>

(* gvcam_ipc_read returns, even if the producer hangs with the mutex. *)
ReadReturns == consumer = "lock" ~> consumer \in {"idle", "use", "closed"}

(* The last frame written arrives whole at a consumer that stays, although  *)
(* its caller copies the data after the mutex is released, while the next   *)
(* write may run; so it does after the producer died, and after it came     *)
(* back and its numbers began again.  It does not if a wait for the mutex   *)
(* times out; nor if the frame that was read last is one of an earlier      *)
(* session that had the same number.                                        *)
LastFrameArrives ==
  \A s \in 1 .. MaxOpens, n \in 1 .. MaxFrames :
    /\ session = s /\ frame = n /\ producer = "idle" /\ consumer # "closed"
    /\ lastIndex = n => result.index = (s - 1) * MaxFrames + n
    ~>
      \/ "late" \in faults \/ session # s \/ frame # n \/ consumer = "closed"
      \/ \A c \in Chunks : picture[c] = (s - 1) * MaxFrames + n
==============================================================================
