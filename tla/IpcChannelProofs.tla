-------------------------- MODULE IpcChannelProofs ---------------------------
(****************************************************************************)
(* Proofs about IpcChannel for any number of chunks, frames, openings and   *)
(* joins: types, and that the channel implements FrameRegister until a      *)
(* fault disturbs it.  SegmentInv says what a producer at each of its steps *)
(* has put into the segment, MutexInv that without a fault the mutex is     *)
(* held where it is needed, ReaderInv what the consumer knows then.         *)
(****************************************************************************)
EXTENDS IpcChannel, TLAPS

USE ChunksAssumption, BoundsAssumption

Ids == 0 .. MaxOpens * MaxFrames

(* Descriptor and data are those of frame v; those of frame 0 are never     *)
(* looked at.                                                               *)
Settled(v) ==
  /\ index = v /\ rest = v
  /\ v # 0 => \A c \in Chunks : data[c] = v

SegmentInv ==
  /\ producer \in {"idle", "lock", "rest"} => Settled(Value)
  /\ faults = {} /\ producer \in {"closed", "zeroRest", "zeroIndex"} => Settled(Value)
  /\ producer = "zeroIndex" => rest = 0
  /\ producer = "index" => rest = Id(frame)
  /\ producer = "data" =>
       /\ index = Id(frame) /\ rest = Id(frame)
       /\ \A c \in Chunks : c < cursor => data[c] = Id(frame)
  /\ producer = "unlock" => Settled(Id(frame))

SessionInv ==
  /\ producer \in {"zeroIndex", "zeroRest"} => frame = 0
  /\ Writing => frame > 0
  /\ session = 0 => producer = "closed" /\ frame = 0

MutexInv ==
  faults = {} =>
    /\ producer \in {"index", "rest", "data", "unlock"} => owner = "producer"
    /\ consumer \in {"index", "rest", "check"} => owner = "consumer"

ReaderInv ==
  /\ lastIndex = Number(result.index)
  /\ consumer = "closed" => lastIndex = 0
  /\ faults = {} =>
       /\ consumer = "index" => cur.rest = Value
       /\ consumer = "check" => cur.index = Value /\ cur.rest = Value
       /\ Value = 0 => lastIndex = 0

IInv == TypeOK /\ SessionInv /\ SegmentInv /\ MutexInv /\ ReaderInv

------------------------------------------------------------------------------
(* The numbers of frames *)

(* Frames are known by different ids, and later ones by larger ones.        *)
LEMMA IdFacts ==
  ASSUME session \in 0 .. MaxOpens, NEW n \in 0 .. MaxFrames, n > 0 => session > 0
  PROVE  /\ Id(n) \in Ids
         /\ n = 0 <=> Id(n) = 0
         /\ n > 0 => Id(n) > Id(n - 1)
<1> DEFINE base == (session - 1) * MaxFrames
<1>1. CASE n = 0
  <2>1. MaxOpens * MaxFrames \in Nat
    OBVIOUS
  <2>2. QED
    BY <1>1, <2>1 DEF Id, Ids
<1>2. CASE n > 0
  <2>1. session \in Nat /\ session >= 1 /\ session <= MaxOpens
    BY <1>2
  <2>2. base \in Nat
    BY <2>1
  <2>3. base + MaxFrames = session * MaxFrames
    BY <2>1
  <2>4. session * MaxFrames <= MaxOpens * MaxFrames
    BY <2>1
  <2>5. MaxOpens * MaxFrames \in Nat
    OBVIOUS
  <2>6. Id(n) = base + n /\ (n > 1 => Id(n - 1) = base + (n - 1)) /\ Id(0) = 0
    BY <1>2 DEF Id
  <2> HIDE DEF base
  <2>7. QED
    BY <1>2, <2>2, <2>3, <2>4, <2>5, <2>6 DEF Ids
<1>3. QED
  BY <1>1, <1>2

LEMMA NumberFacts ==
  ASSUME NEW id \in Ids
  PROVE  Number(id) \in 0 .. MaxFrames /\ Number(0) = 0
<1>1. MaxOpens * MaxFrames \in Nat
  OBVIOUS
<1>2. id \in Int
  BY <1>1 DEF Ids
<1>3. (id - 1) % MaxFrames \in 0 .. MaxFrames - 1
  BY <1>2
<1>4. QED
  BY <1>3 DEF Number

(* The value is known, and belongs to a frame unless it is 0. *)
LEMMA ValueFacts ==
  ASSUME TypeOK, SessionInv
  PROVE  /\ Value \in Ids /\ Id(frame) \in Ids /\ Ids \subseteq Nat
         /\ Id(0) = 0
         /\ Writing => Id(frame) # 0 /\ Id(frame) > Value
<1>1. session \in 0 .. MaxOpens /\ frame \in 0 .. MaxFrames
  BY DEF TypeOK
<1>2. frame > 0 => session > 0
  BY <1>1 DEF SessionInv
<1>3. Id(frame) \in Ids /\ (frame = 0 <=> Id(frame) = 0) /\ (frame > 0 => Id(frame) > Id(frame - 1))
  BY <1>1, <1>2, IdFacts
<1>4. frame > 0 => Id(frame - 1) \in Ids
  BY <1>1, <1>2, IdFacts
<1>5. MaxOpens * MaxFrames \in Nat
  OBVIOUS
<1>6. Ids \subseteq Nat
  BY <1>5 DEF Ids
<1>7. Writing => frame > 0
  BY DEF SessionInv
<1>8. Id(0) = 0
  BY DEF Id
<1>9. QED
  BY <1>3, <1>4, <1>6, <1>7, <1>8 DEF Value

------------------------------------------------------------------------------
(* The invariant *)

LEMMA InitInv == Init => IInv
<1> SUFFICES ASSUME Init PROVE IInv
  OBVIOUS
<1> USE DEF Init
<1>1. MaxOpens * MaxFrames \in Nat
  OBVIOUS
<1>2. Zeros \in [Chunks -> Ids] /\ 0 \in Ids /\ 0 \in Chunks
  BY <1>1 DEF Zeros, Ids, Chunks
<1>3. TypeOK
  BY <1>2 DEF TypeOK, Nothing, Ids
<1>4. SessionInv /\ MutexInv
  BY DEF SessionInv, MutexInv, Writing
<1>5. Value = 0 /\ Number(0) = 0
  BY DEF Value, Id, Number, Writing
<1>6. SegmentInv
  BY <1>5 DEF SegmentInv, Settled
<1>7. ReaderInv
  BY <1>5 DEF ReaderInv, Nothing
<1>8. QED
  BY <1>3, <1>4, <1>6, <1>7 DEF IInv

(* The steps, and the variables that each side's leave alone. *)
LEMMA StepCases ==
  ASSUME Next
  PROVE  \/ ProducerOpen \/ ZeroIndex \/ ZeroRest \/ Write \/ WriteLock
         \/ WriteIndex \/ WriteRest \/ WriteData \/ WriteReturn \/ ProducerExit
         \/ ConsumerOpen \/ Read \/ ReadLock \/ ReadIndex \/ ReadRest
         \/ ReadNothing \/ ReadFrame \/ Use \/ ConsumerExit
  BY DEF Next, ProducerWrites, ConsumerReads

LEMMA FaultsType ==
  ASSUME TypeOK, Next
  PROVE  faults' \subseteq {"late", "crash", "reopen"}
<1>1. faults' \in {faults, {}} \/ \E f \in {"late", "crash", "reopen"} : faults' = faults \union {f}
  BY StepCases
  DEF ProducerOpen, ZeroIndex, ZeroRest, Write, WriteLock, WriteIndex, WriteRest,
      WriteData, WriteReturn, ProducerExit, ConsumerOpen, Read, ReadLock, ReadIndex,
      ReadRest, ReadNothing, ReadFrame, Use, ConsumerExit, Lock, Unlock, mutexVars
<1>2. QED
  BY <1>1 DEF TypeOK

LEMMA TypeStep ==
  ASSUME IInv, Next
  PROVE  TypeOK' /\ SessionInv'
<1>1. /\ Value \in Ids /\ Id(frame) \in Ids /\ 0 \in Ids
      /\ Zeros \in [Chunks -> Ids] /\ 0 \in Chunks
  BY ValueFacts DEF IInv, Ids, Zeros, Chunks
<1>2. Number(cur.index) \in 0 .. MaxFrames
  BY NumberFacts DEF IInv, TypeOK, Ids
<1> HIDE DEF Ids
<1>3. Ids = 0 .. MaxOpens * MaxFrames /\ faults' \subseteq {"late", "crash", "reopen"}
  BY FaultsType DEF Ids, IInv
<1> USE <1>1 DEF IInv, TypeOK, SessionInv, Writing, segment, mutexVars, producerVars,
            readVars, useVars, consumerVars, Lock, Released, Unlock
<1>4. CASE ProducerOpen
  <2>1. index' \in Ids /\ rest' \in Ids /\ data' \in [Chunks -> Ids]
    BY <1>3, <1>4 DEF ProducerOpen
  <2>2. /\ producer' = "zeroRest" /\ frame' = 0
        /\ session' \in 1 .. MaxOpens
    BY <1>4 DEF ProducerOpen
  <2>3. SessionInv'
    BY <2>2
  <2>4. UNCHANGED <<owner, cursor, consumer, joins, cur, lastIndex, result, pos, picture>>
    BY <1>4 DEF ProducerOpen
  <2>5. session' \in 0 .. MaxOpens /\ frame' \in 0 .. MaxFrames
    BY <2>2
  <2> HIDE DEF SessionInv
  <2>6. TypeOK'
    BY <1>3, <2>1, <2>2, <2>4, <2>5
  <2>7. QED
    BY <2>3, <2>6
<1>5. CASE ZeroIndex
  BY <1>3, <1>5 DEF ZeroIndex
<1>6. CASE ZeroRest
  BY <1>3, <1>6 DEF ZeroRest
<1>7. CASE Write
  BY <1>3, <1>7 DEF Write
<1>8. CASE WriteLock
  BY <1>3, <1>8 DEF WriteLock
<1>9. CASE WriteIndex
  BY <1>3, <1>9 DEF WriteIndex
<1>10. CASE WriteRest
  BY <1>3, <1>10 DEF WriteRest
<1>11. CASE WriteData
  <2>1. cursor' \in Chunks
    BY <1>11 DEF WriteData, Chunks
  <2>2. data' \in [Chunks -> Ids]
    BY <1>3, <1>11 DEF WriteData
  <2>3. producer' \in {"unlock", "data"} /\ producer = "data"
    BY <1>11 DEF WriteData
  <2>4. QED
    BY <1>3, <1>11, <2>1, <2>2, <2>3 DEF WriteData
<1>12. CASE WriteReturn
  BY <1>3, <1>12 DEF WriteReturn
<1>13. CASE ProducerExit
  BY <1>3, <1>13 DEF ProducerExit
<1>14. CASE ConsumerOpen
  <2>1. joins' \in 0 .. MaxJoins
    BY <1>14 DEF ConsumerOpen
  <2>2. QED
    BY <1>3, <1>14, <2>1 DEF ConsumerOpen
<1>15. CASE Read
  BY <1>3, <1>15 DEF Read
<1>16. CASE ReadLock
  BY <1>3, <1>16 DEF ReadLock
<1>17. CASE ReadIndex
  BY <1>3, <1>17 DEF ReadIndex
<1>18. CASE ReadRest
  BY <1>3, <1>18 DEF ReadRest
<1>19. CASE ReadNothing
  BY <1>3, <1>19 DEF ReadNothing
<1>20. CASE ReadFrame
  BY <1>3, <1>20, <1>2 DEF ReadFrame
<1>21. CASE Use
  <2>1. pos' \in Chunks
    BY <1>21 DEF Use, Chunks
  <2>2. picture' \in [Chunks -> Ids]
    BY <1>3, <1>21 DEF Use
  <2>3. consumer' \in {"idle", "use"}
    BY <1>21 DEF Use
  <2>4. QED
    BY <1>3, <1>21, <2>1, <2>2, <2>3 DEF Use
<1>22. CASE ConsumerExit
  BY <1>3, <1>22 DEF ConsumerExit, Nothing
<1>23. QED
  BY <1>4, <1>5, <1>6, <1>7, <1>8, <1>9, <1>10, <1>11, <1>12, <1>13, <1>14,
     <1>15, <1>16, <1>17, <1>18, <1>19, <1>20, <1>21, <1>22, StepCases
(* Where the value of the register changes. *)
LEMMA ValueStep ==
  ASSUME IInv, Next
  PROVE  \/ UNCHANGED Value
         \/ producer = "unlock" /\ Value' = Id(frame) /\ Value' > Value
         \/ producer = "closed" /\ producer' = "zeroRest" /\ Value' = 0
         \/ producer # "idle" /\ producer' = "closed" /\ faults' # {}
<1>1. CASE UNCHANGED <<session, frame>> /\ (Writing' <=> Writing)
  BY <1>1 DEF Value, Id
<1>2. CASE ProducerOpen
  <2>1. frame' = 0 /\ ~Writing' /\ producer = "closed" /\ producer' = "zeroRest"
    BY <1>2 DEF ProducerOpen, Writing
  <2>2. QED
    BY <1>2, <2>1 DEF Value, Id
<1>3. CASE ZeroIndex \/ ZeroRest
  <2>1. UNCHANGED <<session, frame>> /\ ~Writing /\ ~Writing'
    BY <1>3 DEF ZeroIndex, ZeroRest, Writing
  <2>2. QED
    BY <1>1, <2>1
<1>4. CASE Write
  <2>1. /\ ~Writing /\ Writing' /\ UNCHANGED session
        /\ frame' = frame + 1 /\ frame \in Nat
    BY <1>4 DEF Write, Writing, IInv, TypeOK
  <2>2. frame' - 1 = frame
    BY <2>1
  <2>3. QED
    BY <2>1, <2>2 DEF Value, Id
<1>5. CASE WriteReturn
  <2>1. producer = "unlock" /\ Writing /\ ~Writing' /\ UNCHANGED <<session, frame>>
    BY <1>5 DEF WriteReturn, Writing
  <2>2. Value' = Id(frame)
    BY <2>1 DEF Value, Id
  <2>3. QED
    BY <1>5, <2>1, <2>2, ValueFacts DEF IInv
<1>6. CASE ProducerExit
  <2>1. CASE producer = "idle"
    <3>1. UNCHANGED <<session, frame>> /\ ~Writing /\ ~Writing'
      BY <1>6, <2>1 DEF ProducerExit, Writing
    <3>2. QED
      BY <1>1, <3>1
  <2>2. QED
    BY <1>6, <2>1 DEF ProducerExit
<1>7. CASE WriteLock \/ WriteIndex \/ WriteRest \/ WriteData
  <2>1. UNCHANGED <<session, frame>> /\ Writing /\ Writing'
    BY <1>7 DEF WriteLock, WriteIndex, WriteRest, WriteData, Writing
  <2>2. QED
    BY <1>1, <2>1
<1>8. CASE UNCHANGED producerVars
  BY <1>1, <1>8 DEF producerVars, Writing
<1>9. QED
  BY <1>2, <1>3, <1>4, <1>5, <1>6, <1>7, <1>8, StepCases
  DEF ConsumerOpen, Read, ReadLock, ReadIndex, ReadRest, ReadNothing, ReadFrame, Use,
      ConsumerExit

(* Without a fault after the step there was none before, or the consumer    *)
(* came while the producer was idle.                                        *)
LEMMA FaultStep ==
  ASSUME Next, faults' = {}
  PROVE  \/ faults = {}
         \/ ConsumerOpen /\ producer = "idle"
<1>1. CASE UNCHANGED faults
  BY <1>1
<1>2. CASE ProducerOpen \/ ProducerExit \/ WriteLock \/ ReadLock
  BY <1>2 DEF ProducerOpen, ProducerExit, WriteLock, ReadLock, Lock
<1>3. CASE ConsumerOpen
  BY <1>3 DEF ConsumerOpen
<1>4. QED
  BY <1>1, <1>2, <1>3, StepCases
  DEF ZeroIndex, ZeroRest, Write, WriteIndex, WriteRest, WriteData, WriteReturn, Read,
      ReadIndex, ReadRest, ReadNothing, ReadFrame, Use, ConsumerExit, Unlock, mutexVars

(* Without a fault the mutex excludes. *)
LEMMA MutexStep ==
  ASSUME IInv, Next
  PROVE  MutexInv'
<1> SUFFICES ASSUME faults' = {}
             PROVE  MutexInv'
  BY DEF MutexInv
<1> USE DEF IInv, MutexInv, mutexVars, producerVars, consumerVars, Lock, Released, Unlock
<1>1. CASE ConsumerOpen
  BY <1>1, FaultStep DEF ConsumerOpen
<1>2. CASE ProducerOpen
  BY <1>2, FaultStep DEF ProducerOpen, ConsumerOpen
<1>3. CASE ZeroIndex
  BY <1>3, FaultStep DEF ZeroIndex, ConsumerOpen
<1>4. CASE ZeroRest
  BY <1>4, FaultStep DEF ZeroRest, ConsumerOpen
<1>5. CASE Write
  BY <1>5, FaultStep DEF Write, ConsumerOpen
<1>6. CASE WriteLock
  BY <1>6, FaultStep DEF WriteLock, ConsumerOpen
<1>7. CASE WriteIndex
  BY <1>7, FaultStep DEF WriteIndex, ConsumerOpen
<1>8. CASE WriteRest
  BY <1>8, FaultStep DEF WriteRest, ConsumerOpen
<1>9. CASE WriteData
  BY <1>9, FaultStep DEF WriteData, ConsumerOpen
<1>10. CASE WriteReturn
  BY <1>10, FaultStep DEF WriteReturn, ConsumerOpen
<1>11. CASE ProducerExit
  BY <1>11, FaultStep DEF ProducerExit, ConsumerOpen
<1>12. CASE Read
  BY <1>12, FaultStep DEF Read, ConsumerOpen
<1>13. CASE ReadLock
  BY <1>13, FaultStep DEF ReadLock, ConsumerOpen
<1>14. CASE ReadIndex
  BY <1>14, FaultStep DEF ReadIndex, ConsumerOpen
<1>15. CASE ReadRest
  BY <1>15, FaultStep DEF ReadRest, ConsumerOpen
<1>16. CASE ReadNothing
  BY <1>16, FaultStep DEF ReadNothing, ConsumerOpen
<1>17. CASE ReadFrame
  BY <1>17, FaultStep DEF ReadFrame, ConsumerOpen
<1>18. CASE Use
  BY <1>18, FaultStep DEF Use, ConsumerOpen
<1>19. CASE ConsumerExit
  BY <1>19, FaultStep DEF ConsumerExit, ConsumerOpen
<1>20. QED
  BY <1>1, <1>2, <1>3, <1>4, <1>5, <1>6, <1>7, <1>8, <1>9, <1>10, <1>11,
     <1>12, <1>13, <1>14, <1>15, <1>16, <1>17, <1>18, <1>19, StepCases

(* What the segment holds follows the producer, whatever the consumer does. *)
LEMMA SegmentStep ==
  ASSUME IInv, Next
  PROVE  SegmentInv'
<1>1. CASE UNCHANGED <<segment, producerVars>>
  <2>1. UNCHANGED <<index, rest, data, producer, session, frame, cursor, Value>>
    BY <1>1 DEF segment, producerVars, Value, Id, Writing
  <2>2. Id(frame)' = Id(frame)
    BY <2>1 DEF Id
  <2>3. faults' = {} => faults = {} \/ producer = "idle"
    BY FaultStep
  <2>4. QED
    BY <2>1, <2>2, <2>3 DEF IInv, SegmentInv, Settled
<1> USE DEF IInv, SegmentInv, Settled, mutexVars
<1>2. CASE ProducerOpen
  <2>1. producer = "closed" /\ producer' = "zeroRest" /\ Value' = 0
    <3>1. frame' = 0 /\ ~Writing'
      BY <1>2 DEF ProducerOpen, Writing
    <3>2. QED
      BY <1>2, <3>1 DEF ProducerOpen, Value, Id
  <2>2. faults' = {} => index' = 0 /\ rest' = 0
    BY <1>2 DEF ProducerOpen
  <2>3. QED
    BY <2>1, <2>2
<1>3. CASE ZeroRest
  <2>1. /\ producer = "zeroRest" /\ producer' = "zeroIndex"
        /\ rest' = 0 /\ UNCHANGED <<index, data, faults>> /\ Value = 0
    BY <1>3 DEF ZeroRest, SessionInv, Value, Id, Writing
  <2>2. UNCHANGED Value
    BY <2>1, ValueStep
  <2>3. QED
    BY <2>1, <2>2
<1>4. CASE ZeroIndex
  <2>1. /\ producer = "zeroIndex" /\ producer' = "idle"
        /\ index' = 0 /\ UNCHANGED rest /\ Value = 0
    BY <1>4 DEF ZeroIndex, SessionInv, Value, Id, Writing
  <2>2. UNCHANGED Value
    BY <2>1, ValueStep
  <2>3. QED
    BY <2>1, <2>2
<1>5. CASE Write \/ WriteLock
  <2>1. /\ producer \in {"idle", "lock"} /\ producer' \in {"lock", "rest"}
        /\ UNCHANGED <<index, rest, data>>
    BY <1>5 DEF Write, WriteLock, segment
  <2>2. UNCHANGED Value
    BY <2>1, ValueStep
  <2>3. QED
    BY <2>1, <2>2
<1>6. CASE WriteRest
  <2>1. producer' = "index" /\ rest' = Id(frame) /\ Id(frame)' = Id(frame)
    BY <1>6 DEF WriteRest, Id
  <2>2. QED
    BY <2>1
<1>7. CASE WriteIndex
  <2>1. /\ producer = "index" /\ producer' = "data" /\ UNCHANGED rest
        /\ index' = Id(frame) /\ Id(frame)' = Id(frame) /\ cursor' = 0
    BY <1>7 DEF WriteIndex, Id
  <2>2. \A c \in Chunks : ~(c < cursor')
    BY <2>1 DEF Chunks
  <2>3. QED
    BY <2>1, <2>2
<1>8. CASE WriteData
  <2>1. /\ producer = "data" /\ UNCHANGED <<index, rest>> /\ Id(frame)' = Id(frame)
        /\ cursor \in Chunks
        /\ data' = [data EXCEPT ![cursor] = Id(frame)] /\ data \in [Chunks -> Ids]
    BY <1>8 DEF WriteData, Id, TypeOK, Ids
  <2>2. CASE cursor = LastChunk
    <3>1. producer' = "unlock" /\ \A c \in Chunks : c # cursor => c < cursor
      BY <1>8, <2>1, <2>2 DEF WriteData, Chunks
    <3>2. QED
      BY <2>1, <3>1
  <2>3. CASE cursor # LastChunk
    <3>1. /\ producer' = "data"
          /\ \A c \in Chunks : c < cursor' /\ c # cursor => c < cursor
      BY <1>8, <2>1, <2>3 DEF WriteData, Chunks
    <3>2. QED
      BY <2>1, <3>1
  <2>4. QED
    BY <2>2, <2>3
<1>9. CASE WriteReturn
  <2>1. /\ producer = "unlock" /\ producer' = "idle"
        /\ UNCHANGED <<index, rest, data>> /\ Value' = Id(frame)
    BY <1>9 DEF WriteReturn, segment, Value, Id, Writing
  <2>2. QED
    BY <2>1
<1>10. CASE ProducerExit
  <2>1. producer' = "closed" /\ UNCHANGED <<index, rest, data>>
    BY <1>10 DEF ProducerExit, segment
  <2>2. faults' = {} => producer = "idle"
    BY <1>10 DEF ProducerExit
  <2>3. producer = "idle" => UNCHANGED Value
    BY <2>1, ValueStep
  <2>4. QED
    BY <2>1, <2>2, <2>3
<1>11. QED
  BY <1>1, <1>2, <1>3, <1>4, <1>5, <1>6, <1>7, <1>8, <1>9, <1>10, StepCases
  DEF ConsumerOpen, Read, ReadLock, ReadIndex, ReadRest, ReadNothing,
      ReadFrame, Use, ConsumerExit, consumerVars

(* What the consumer read under the mutex is still there. *)
LEMMA ReaderStep ==
  ASSUME IInv, Next
  PROVE  ReaderInv'
<1> USE DEF IInv, ReaderInv
<1>1. Value \in Nat /\ Number(0) = 0
  BY ValueFacts DEF Number
<1>2. CASE UNCHANGED <<consumer, readVars>>
  <2>1. UNCHANGED <<consumer, cur, lastIndex, result>>
    BY <1>2 DEF readVars
  <2>2. ASSUME faults' = {}
        PROVE  /\ faults = {}
               /\ \/ UNCHANGED Value
                  \/ producer = "unlock" /\ Value' # 0
                  \/ consumer = "closed" /\ Value' = 0
    <3>1. faults = {}
      BY <2>1, <2>2, FaultStep DEF ConsumerOpen
    <3>2. producer = "closed" /\ producer' = "zeroRest" => consumer = "closed"
      BY <2>1, <2>2, StepCases
      DEF ProducerOpen, ZeroIndex, ZeroRest, Write, WriteLock, WriteIndex, WriteRest,
          WriteData, WriteReturn, ProducerExit, ConsumerOpen, Read, ReadLock,
          ReadIndex, ReadRest, ReadNothing, ReadFrame, Use, ConsumerExit,
          producerVars
    <3>3. Value' > Value => Value' # 0
      BY <1>1, ValueFacts, ValueStep DEF Ids
    <3>4. QED
      BY <2>2, <3>1, <3>2, <3>3, ValueStep
  <2>3. faults = {} /\ producer = "unlock" => consumer \notin {"index", "check"}
    BY DEF MutexInv
  <2>4. QED
    BY <2>1, <2>2, <2>3
<1>3. CASE ConsumerOpen
  <2>1. /\ consumer = "closed" /\ consumer' = "idle" /\ UNCHANGED <<lastIndex, result>>
    BY <1>3 DEF ConsumerOpen, readVars
  <2>2. QED
    BY <2>1
<1> USE DEF producerVars, segment, mutexVars, readVars, useVars
<1>4. ASSUME UNCHANGED producerVars PROVE UNCHANGED Value
  BY <1>4 DEF Value, Id, Writing
<1>5. CASE Read \/ ReadLock \/ ReadNothing \/ Use
  <2>1. /\ consumer' \in {"lock", "rest", "idle", "use"}
        /\ UNCHANGED <<lastIndex, result, Value>>
    BY <1>4, <1>5 DEF Read, ReadLock, ReadNothing, Use
  <2>2. faults' = {} => faults = {}
    BY <1>5 DEF Read, ReadLock, ReadNothing, Use, Lock, Unlock
  <2>3. QED
    BY <2>1, <2>2
<1>6. faults = {} /\ consumer \in {"index", "rest"} => index = Value /\ rest = Value
  BY DEF MutexInv, TypeOK, SegmentInv, Settled
<1>7. CASE ReadRest
  <2>1. /\ consumer = "rest" /\ consumer' = "index" /\ UNCHANGED <<lastIndex, result>>
        /\ cur'.rest = rest /\ UNCHANGED <<faults, Value>>
    BY <1>4, <1>7 DEF ReadRest, TypeOK
  <2>2. QED
    BY <1>6, <2>1
<1>8. CASE ReadIndex
  <2>1. /\ consumer = "index" /\ consumer' = "check" /\ UNCHANGED <<lastIndex, result>>
        /\ cur'.rest = cur.rest /\ cur'.index = index /\ UNCHANGED <<faults, Value>>
    BY <1>4, <1>8 DEF ReadIndex, TypeOK
  <2>2. QED
    BY <1>6, <2>1
<1>9. CASE ReadFrame
  <2>1. /\ consumer = "check" /\ consumer' = "use"
        /\ lastIndex' = Number(cur.index) /\ result'.index = cur.index
        /\ UNCHANGED <<faults, Value>>
    BY <1>4, <1>9 DEF ReadFrame, Unlock
  <2>2. QED
    BY <1>1, <2>1 DEF Number
<1>10. CASE ConsumerExit
  <2>1. consumer' = "closed" /\ lastIndex' = 0 /\ result'.index = 0
    BY <1>10 DEF ConsumerExit, Nothing
  <2>2. QED
    BY <1>1, <2>1 DEF Number
<1>11. QED
  BY <1>2, <1>3, <1>5, <1>7, <1>8, <1>9, <1>10, StepCases
  DEF ProducerOpen, ZeroIndex, ZeroRest, Write, WriteLock, WriteIndex, WriteRest,
      WriteData, WriteReturn, ProducerExit, consumerVars

LEMMA NextInv ==
  ASSUME IInv, [Next]_vars
  PROVE  IInv'
<1>1. CASE Next
  BY <1>1, TypeStep, SegmentStep, MutexStep, ReaderStep DEF IInv
<1>2. CASE UNCHANGED vars
  <2> USE <1>2 DEF vars, segment, mutexVars, producerVars, consumerVars, readVars, useVars
  <2>1. UNCHANGED Value /\ Id(frame)' = Id(frame) /\ (Writing' <=> Writing)
    BY DEF Value, Id, Writing
  <2>2. TypeOK'
    BY DEF IInv, TypeOK
  <2>3. SessionInv' /\ MutexInv'
    BY <2>1 DEF IInv, SessionInv, MutexInv
  <2>4. SegmentInv'
    BY <2>1 DEF IInv, SegmentInv, Settled
  <2>5. ReaderInv'
    BY <2>1 DEF IInv, ReaderInv, Number
  <2>6. QED
    BY <2>2, <2>3, <2>4, <2>5 DEF IInv
<1>3. QED
  BY <1>1, <1>2

(* The inductive invariant of segment, mutex and reader. *)
THEOREM Invariant == Spec => []IInv
  BY InitInv, NextInv, PTL DEF Spec

(* Every variable has its type; no copy of pixel data leaves its buffer.    *)
THEOREM TypeCorrect == Spec => []TypeOK
<1>1. IInv => TypeOK
  BY DEF IInv
<1>2. QED
  BY <1>1, Invariant, PTL

------------------------------------------------------------------------------
(* The channel implements the register *)

(* A read that succeeds without a fault finds one whole frame, the newest,  *)
(* and not the one that was read before.                                    *)
LEMMA ReadsValue ==
  ASSUME IInv, ReadFrame, faults = {}
  PROVE  Register!Read
<1>1. /\ cur.index = Value /\ cur.rest = Value /\ consumer = "check"
      /\ Number(cur.index) # lastIndex
  BY DEF ReadFrame, New, IInv, ReaderInv
<1>2. UNCHANGED Value
  BY DEF ReadFrame, producerVars, Value, Id, Writing
<1>3. Value # 0
  BY <1>1 DEF IInv, ReaderInv, Number
<1>4. \A c \in Chunks : data[c] = Value
  <2>1. producer \notin {"index", "rest", "data", "unlock"}
    BY <1>1 DEF IInv, MutexInv
  <2>2. Settled(Value)
    BY <2>1 DEF IInv, TypeOK, SegmentInv
  <2>3. QED
    BY <1>3, <2>2 DEF Settled
<1>5. Got' = Value
  <2>1. result' = [index |-> Value, rest |-> Value, data |-> data]
    BY <1>1 DEF ReadFrame
  <2>2. Whole(result')
    BY <1>4, <2>1 DEF Whole
  <2>3. QED
    BY <2>1, <2>2 DEF Got, Whole
<1>6. Value # Got
  <2>1. Value \in Nat
    BY ValueFacts DEF IInv
  <2>2. result.index # Value
    BY <1>1 DEF IInv, ReaderInv
  <2>3. QED
    BY <2>1, <2>2 DEF Got
<1>7. QED
  BY <1>2, <1>5, <1>6 DEF Register!Read

LEMMA Refinement ==
  ASSUME IInv, [Next]_vars
  PROVE  [faults' # {} \/ Register!Next]_<<Value, Got>>
<1> SUFFICES ASSUME faults' = {}
             PROVE  Register!Next \/ UNCHANGED <<Value, Got>>
  OBVIOUS
<1>1. ASSUME UNCHANGED result
      PROVE  UNCHANGED Got
  BY <1>1 DEF Got, Whole
<1>2. CASE UNCHANGED result /\ Next
  <2>1. producer = "closed" /\ Value' = 0 => Register!Reset \/ UNCHANGED <<Value, Got>>
    BY <1>1, <1>2 DEF Register!Reset
  <2>2. Value' > Value => Register!Write
    BY <1>1, <1>2 DEF Register!Write
  <2>3. QED
    BY <1>1, <1>2, <2>1, <2>2, ValueStep DEF Register!Next
<1>3. CASE ReadFrame
  BY <1>3, ReadsValue DEF Register!Next, ReadFrame, Unlock
<1>4. CASE ConsumerExit
  <2>1. UNCHANGED Value
    BY <1>4 DEF ConsumerExit, producerVars, Value, Id, Writing
  <2>2. Got' = 0
    BY <1>4 DEF ConsumerExit, Got, Whole, Nothing, Zeros
  <2>3. QED
    BY <2>1, <2>2 DEF Register!Next, Register!Rejoin
<1>5. CASE UNCHANGED vars
  BY <1>1, <1>5
  DEF vars, producerVars, consumerVars, readVars, Value, Id, Writing
<1>6. CASE Next
  BY <1>2, <1>3, <1>4, <1>6, StepCases
  DEF ProducerOpen, ZeroIndex, ZeroRest, Write, WriteLock, WriteIndex, WriteRest,
      WriteData, WriteReturn, ProducerExit, ConsumerOpen, Read, ReadLock, ReadIndex,
      ReadRest, ReadNothing, Use, consumerVars, readVars
<1>7. QED
  BY <1>5, <1>6

(* Until a wait times out, the producer dies in a call or comes back under  *)
(* the consumer, gvcam_ipc_write and gvcam_ipc_read are a register's.       *)
THEOREM Implements == Spec => RegisterSpec
<1>1. Init => Register!Init
  BY DEF Init, Register!Init, Value, Id, Writing, Got, Whole, Nothing, Zeros
<1>2. QED
  BY <1>1, Invariant, Refinement, PTL DEF Spec, RegisterSpec

------------------------------------------------------------------------------
(* What the consumer's caller copies after the mutex was released.  Neither *)
(* a producer that died nor one that came back spoils it: only waits that   *)
(* time out do.                                                             *)

(* The id before the first one of this session, and the id of the last      *)
(* frame of it that was written as a whole or given up.                     *)
Base == IF session = 0 THEN 0 ELSE (session - 1) * MaxFrames
Top == Base + (IF Writing THEN frame - 1 ELSE frame)

Timely == "late" \notin faults

IndexKnown ==
  /\ index <= Top + 1
  /\ producer \notin {"data", "unlock"} => index <= Top

TimelyMutex ==
  Timely =>
    /\ producer \in {"index", "rest", "data", "unlock"} => owner = "producer"
    /\ consumer \in {"index", "rest", "check"} => owner = "consumer"

ReadKnown ==
  /\ consumer = "closed" => cur.index = 0 /\ result.index = 0
  /\ Timely => cur.index <= Top /\ result.index <= Top

SessionOfRead ==
  "reopen" \notin faults =>
    /\ index = 0 \/ index > Base
    /\ cur.index = 0 \/ cur.index > Base
    /\ result.index = 0 \/ result.index > Base

CopyInv ==
  Timely /\ producer \in {"idle", "lock", "rest"} /\ Value # 0 /\ result.index = Value =>
    /\ consumer = "use" => \A c \in Chunks : c < pos => picture[c] = Value
    /\ consumer # "use" => \A c \in Chunks : picture[c] = Value

CopyIInv == IndexKnown /\ TimelyMutex /\ ReadKnown /\ SessionOfRead /\ CopyInv

(* What is between two multiples of m leaves its distance as a remainder. *)
LEMMA Remainder ==
  ASSUME NEW q \in Nat, NEW m \in Nat \ {0}, NEW r \in 0 .. m - 1
  PROVE  (q * m + r) % m = r
<1> DEFINE x == q * m + r
<1>1. x \in Int
  OBVIOUS
<1> HIDE DEF x
<1> DEFINE k == x \div m
           d == x % m
<1>2. k \in Int /\ d \in 0 .. m - 1 /\ x = m * k + d
  BY <1>1
<1> HIDE DEF k, d
<1>3. m * (k - q) = r - d
  BY <1>2 DEF x
<1>4. k - q = 0
  <2>1. ASSUME k - q >= 1 PROVE FALSE
    <3>1. m * (k - q) >= m
      BY <2>1, <1>2
    <3>2. QED
      BY <3>1, <1>2, <1>3
  <2>2. ASSUME k - q <= -1 PROVE FALSE
    <3>1. m * (k - q) <= -m
      BY <2>2, <1>2
    <3>2. QED
      BY <3>1, <1>2, <1>3
  <2>3. QED
    BY <2>1, <2>2, <1>2
<1>5. r - d = 0
  BY <1>2, <1>3, <1>4
<1>6. QED
  BY <1>2, <1>5 DEF x, d

LEMMA TopFacts ==
  ASSUME TypeOK, SessionInv
  PROVE  /\ Base \in Nat /\ Top \in Nat /\ Base <= Top /\ frame \in Nat
         /\ frame > 0 => Id(frame) = Base + frame
         /\ Writing => Id(frame) = Top + 1
         /\ ~Writing /\ frame > 0 => Id(frame) = Top
         /\ Value = 0 \/ (Value = Top /\ Top > Base)
<1>1. session \in Nat /\ frame \in 0 .. MaxFrames
  BY DEF TypeOK
<1>2. Base \in Nat
  <2>1. CASE session = 0
    BY <2>1 DEF Base
  <2>2. CASE session # 0
    <3>1. session - 1 \in Nat
      BY <1>1, <2>2
    <3>2. (session - 1) * MaxFrames \in Nat
      BY <3>1
    <3>3. QED
      BY <2>2, <3>2 DEF Base
  <2>3. QED
    BY <2>1, <2>2
<1>3. (Writing => frame > 0) /\ (frame > 0 => session # 0)
  BY <1>1 DEF SessionInv
<1>4. session # 0 => Base = (session - 1) * MaxFrames
  BY DEF Base
<1> DEFINE b == Base
<1>5. \A n \in 1 .. MaxFrames : session # 0 => Id(n) = b + n
  BY <1>4 DEF Id
<1>6. Id(0) = 0
  BY DEF Id
<1> HIDE DEF b
<1>7. b \in Nat /\ Top = b + (IF Writing THEN frame - 1 ELSE frame)
  BY <1>2 DEF Top, b
<1>8. Top \in Nat /\ b <= Top /\ (frame > 0 => Id(frame) = b + frame)
  BY <1>1, <1>3, <1>5, <1>7
<1>9. Value = 0 \/ (Value = Top /\ Top > b)
  <2>1. \E n \in 0 .. MaxFrames : Value = Id(n) /\ Top = b + n /\ (n > 0 => session # 0)
    <3>1. CASE Writing
      <4>1. frame - 1 \in 0 .. MaxFrames /\ Value = Id(frame - 1) /\ Top = b + (frame - 1)
        BY <1>1, <1>3, <1>7, <3>1 DEF Value
      <4>2. QED
        BY <1>3, <3>1, <4>1
    <3>2. CASE ~ Writing
      <4>1. Value = Id(frame) /\ Top = b + frame
        BY <1>7, <3>2 DEF Value
      <4>2. QED
        BY <1>1, <1>3, <4>1
    <3>3. QED
      BY <3>1, <3>2
  <2>2. PICK n \in 0 .. MaxFrames : Value = Id(n) /\ Top = b + n /\ (n > 0 => session # 0)
    BY <2>1
  <2>3. CASE n = 0
    BY <2>2, <2>3, <1>6
  <2>4. CASE n # 0
    <3>1. n \in 1 .. MaxFrames /\ n > 0
      BY <2>4
    <3>2. Value = b + n
      BY <1>5, <2>2, <3>1
    <3>3. QED
      BY <1>7, <2>2, <3>1, <3>2
  <2>5. QED
    BY <2>3, <2>4
<1>10. QED
  BY <1>1, <1>3, <1>7, <1>8, <1>9 DEF b

LEMMA TopFactsNext ==
  ASSUME TypeOK', SessionInv'
  PROVE  (Base \in Nat /\ Top \in Nat /\ Base <= Top /\ (Value = 0 \/ Value = Top))'
  BY TopFacts, PTL

(* How the largest id grows. *)
LEMMA TopStep ==
  ASSUME IInv, Next
  PROVE  /\ Base' \in Nat /\ Top' \in Nat /\ Top <= Top'
         /\ \/ UNCHANGED Base
            \/ ProducerOpen
         /\ producer \in {"data", "unlock"} /\ producer' \notin {"data", "unlock"} =>
              Top' = Top + 1
<1>1. /\ Base \in Nat /\ Top \in Nat /\ Base <= Top /\ frame \in Nat
      /\ Base' \in Nat /\ Top' \in Nat /\ Base' <= Top'
  <2>1. TypeOK' /\ SessionInv'
    BY TypeStep
  <2>2. Base' \in Nat /\ Top' \in Nat /\ Base' <= Top'
    BY <2>1, TopFactsNext
  <2>3. QED
    BY <2>2, TopFacts DEF IInv
<1>2. UNCHANGED session => UNCHANGED Base
  BY DEF Base
<1>3. CASE /\ UNCHANGED <<session, frame>> /\ (Writing' <=> Writing)
           /\ producer' # "closed" /\ ~ WriteReturn
  <2>1. UNCHANGED Top /\ UNCHANGED Base
    BY <1>2, <1>3 DEF Top
  <2>2. ~ (producer \in {"data", "unlock"} /\ producer' \notin {"data", "unlock"})
    BY <1>3, StepCases
    DEF ProducerOpen, ZeroIndex, ZeroRest, Write, WriteLock, WriteIndex, WriteRest,
      WriteData, WriteReturn, ProducerExit,
      ConsumerOpen, Read, ReadLock, ReadIndex, ReadRest, ReadNothing,
      ReadFrame, Use, ConsumerExit, producerVars
  <2>3. QED
    BY <1>1, <2>1, <2>2
<1>4. CASE ProducerOpen
  <2>1. producer = "closed" /\ frame' = 0 /\ session' = session + 1
    BY <1>4 DEF ProducerOpen
  <2>2. /\ ~Writing /\ session \in Nat /\ frame \in 0 .. MaxFrames
        /\ session = 0 => frame = 0
    BY <2>1 DEF Writing, IInv, TypeOK, SessionInv
  <2>3. Base' = session * MaxFrames
    <3>1. session' # 0 /\ session' - 1 = session
      BY <2>1, <2>2
    <3>2. QED
      BY <3>1 DEF Base
  <2>4. Base + MaxFrames <= Base' \/ session = 0
    <3>1. ASSUME session # 0
          PROVE  Base + MaxFrames = session * MaxFrames
      <4>1. Base = (session - 1) * MaxFrames
        BY <3>1 DEF Base
      <4>2. QED
        BY <4>1, <2>2
    <3>2. QED
      BY <3>1, <2>3, <1>1
  <2>5. Top = Base + frame /\ (session = 0 => Base = 0)
    BY <2>2 DEF Top, Base
  <2>6. Top <= Base'
    BY <1>1, <2>2, <2>4, <2>5
  <2>7. QED
    BY <1>1, <1>4, <2>1, <2>6
<1>5. CASE Write
  <2>1. /\ producer = "idle" /\ producer' = "lock" /\ frame' = frame + 1
        /\ UNCHANGED session
    BY <1>5 DEF Write
  <2>2. ~Writing /\ Writing' /\ frame' - 1 = frame
    BY <2>1, <1>1 DEF Writing
  <2>3. UNCHANGED Base /\ UNCHANGED Top
    BY <1>2, <2>1, <2>2 DEF Top
  <2>4. QED
    BY <1>1, <2>1, <2>3
<1>6. CASE WriteReturn \/ ProducerExit
  <2>1. UNCHANGED <<session, frame>> /\ ~Writing'
    BY <1>6 DEF WriteReturn, ProducerExit, Writing
  <2>2. UNCHANGED Base
    BY <1>2, <2>1
  <2>3. Top' = Base + frame
    BY <2>1, <2>2 DEF Top
  <2>4. (Writing => Top = Base + (frame - 1)) /\ (~Writing => Top = Base + frame)
    BY DEF Top
  <2>5. producer \in {"data", "unlock"} => Writing
    BY DEF Writing
  <2>6. QED
    BY <1>1, <2>2, <2>3, <2>4, <2>5
<1>7. CASE ZeroIndex \/ ZeroRest \/ WriteLock \/ WriteIndex \/ WriteRest \/ WriteData
  BY <1>3, <1>7, StepCases
  DEF ZeroIndex, ZeroRest, WriteLock, WriteIndex, WriteRest, WriteData, WriteReturn, Writing
<1>8. CASE UNCHANGED producerVars
  <2>1. UNCHANGED <<producer, session, frame>> /\ (Writing' <=> Writing)
    BY <1>8 DEF producerVars, Writing
  <2>2. UNCHANGED Base /\ UNCHANGED Top
    BY <1>2, <2>1 DEF Top
  <2>3. QED
    BY <1>1, <2>1, <2>2
<1>9. QED
  BY <1>4, <1>5, <1>6, <1>7, <1>8, StepCases
  DEF ConsumerOpen, Read, ReadLock, ReadIndex, ReadRest, ReadNothing,
      ReadFrame, Use, ConsumerExit

(* A fault that is not there after a step was not there before, or the      *)
(* consumer came while the producer was idle.                               *)
LEMMA LateStep ==
  ASSUME Next, NEW f \in {"late", "reopen"}, f \notin faults'
  PROVE  \/ f \notin faults
         \/ ConsumerOpen /\ producer = "idle"
<1>1. CASE UNCHANGED faults
  BY <1>1
<1>2. CASE ProducerOpen \/ ProducerExit \/ WriteLock \/ ReadLock
  BY <1>2 DEF ProducerOpen, ProducerExit, WriteLock, ReadLock, Lock
<1>3. CASE ConsumerOpen
  BY <1>3 DEF ConsumerOpen
<1>4. QED
  BY <1>1, <1>2, <1>3, StepCases
  DEF ZeroIndex, ZeroRest, Write, WriteIndex, WriteRest, WriteData, WriteReturn, Read,
      ReadIndex, ReadRest, ReadNothing, ReadFrame, Use, ConsumerExit, Unlock, mutexVars

LEMMA IndexKnownStep ==
  ASSUME IInv, IndexKnown, Next
  PROVE  IndexKnown'
<1> DEFINE t == Top
           u == Top'
<1>1. /\ t \in Nat /\ u \in Nat /\ t <= u
      /\ producer \in {"data", "unlock"} /\ producer' \notin {"data", "unlock"}
           => u = t + 1
  BY TopStep, TopFacts DEF IInv
<1>2. index \in Nat
  BY ValueFacts DEF IInv, TypeOK, Ids
<1>3. /\ index <= t + 1
      /\ producer \notin {"data", "unlock"} => index <= t
  BY DEF IndexKnown
<1>4. SUFFICES /\ index' <= u + 1
               /\ producer' \notin {"data", "unlock"} => index' <= u
  BY DEF IndexKnown
<1> HIDE DEF t, u
<1>5. CASE index' = 0
  BY <1>1, <1>5
<1>6. CASE UNCHANGED index
  BY <1>1, <1>2, <1>3, <1>6
<1>7. CASE WriteIndex
  <2>1. producer = "index" /\ producer' = "data" /\ index' = Id(frame)
    BY <1>7 DEF WriteIndex
  <2>2. Id(frame) = t + 1
    BY <2>1, TopFacts DEF IInv, Writing, t
  <2>3. QED
    BY <1>1, <2>1, <2>2
<1>8. QED
  BY <1>5, <1>6, <1>7, StepCases
  DEF ProducerOpen, ZeroIndex, ZeroRest, Write, WriteLock, WriteRest,
      WriteData, WriteReturn, ProducerExit,
      ConsumerOpen, Read, ReadLock, ReadIndex, ReadRest, ReadNothing,
      ReadFrame, Use, ConsumerExit, segment

LEMMA TimelyMutexStep ==
  ASSUME IInv, TimelyMutex, Next
  PROVE  TimelyMutex'
<1> SUFFICES ASSUME "late" \notin faults'
             PROVE  TimelyMutex'
  BY DEF TimelyMutex, Timely
<1> USE DEF IInv, TimelyMutex, Timely, MutexInv, mutexVars, producerVars, consumerVars, Lock,
            Released, Unlock
<1>1. CASE ProducerOpen
  BY <1>1, LateStep DEF ProducerOpen, ConsumerOpen
<1>2. CASE ZeroIndex
  BY <1>2, LateStep DEF ZeroIndex, ConsumerOpen
<1>3. CASE ZeroRest
  BY <1>3, LateStep DEF ZeroRest, ConsumerOpen
<1>4. CASE Write
  BY <1>4, LateStep DEF Write, ConsumerOpen
<1>5. CASE WriteLock
  BY <1>5, LateStep DEF WriteLock, ConsumerOpen
<1>6. CASE WriteIndex
  BY <1>6, LateStep DEF WriteIndex, ConsumerOpen
<1>7. CASE WriteRest
  BY <1>7, LateStep DEF WriteRest, ConsumerOpen
<1>8. CASE WriteData
  BY <1>8, LateStep DEF WriteData, ConsumerOpen
<1>9. CASE WriteReturn
  BY <1>9, LateStep DEF WriteReturn, ConsumerOpen
<1>10. CASE ProducerExit
  BY <1>10, LateStep DEF ProducerExit, ConsumerOpen
<1>11. CASE ConsumerOpen
  BY <1>11, LateStep DEF ConsumerOpen, ConsumerOpen
<1>12. CASE Read
  BY <1>12, LateStep DEF Read, ConsumerOpen
<1>13. CASE ReadLock
  BY <1>13, LateStep DEF ReadLock, ConsumerOpen
<1>14. CASE ReadIndex
  BY <1>14, LateStep DEF ReadIndex, ConsumerOpen
<1>15. CASE ReadRest
  BY <1>15, LateStep DEF ReadRest, ConsumerOpen
<1>16. CASE ReadNothing
  BY <1>16, LateStep DEF ReadNothing, ConsumerOpen
<1>17. CASE ReadFrame
  BY <1>17, LateStep DEF ReadFrame, ConsumerOpen
<1>18. CASE Use
  BY <1>18, LateStep DEF Use, ConsumerOpen
<1>19. CASE ConsumerExit
  BY <1>19, LateStep DEF ConsumerExit, ConsumerOpen
<1>20. QED
  BY <1>1, <1>2, <1>3, <1>4, <1>5, <1>6, <1>7, <1>8, <1>9, <1>10, <1>11,
     <1>12, <1>13, <1>14, <1>15, <1>16, <1>17, <1>18, <1>19, StepCases

LEMMA ReadKnownStep ==
  ASSUME IInv, CopyIInv, Next
  PROVE  ReadKnown'
<1> DEFINE t == Top
<1>1. t \in Nat /\ Top' \in Nat /\ t <= Top'
  BY TopStep, TopFacts DEF IInv
<1>2. index \in Nat /\ cur.index \in Nat /\ result.index \in Nat
  BY ValueFacts DEF IInv, TypeOK, Ids
<1>3. ReadKnown
  BY DEF CopyIInv
<1>4. CASE ConsumerOpen
  <2>1. consumer = "closed" /\ consumer' = "idle" /\ UNCHANGED <<cur, result>>
    BY <1>4 DEF ConsumerOpen, readVars
  <2>2. QED
    BY <1>1, <1>3, <2>1 DEF ReadKnown
<1>5. ASSUME ~ ConsumerOpen, Timely'
      PROVE  cur.index <= t /\ result.index <= t /\ Timely
  BY <1>3, <1>5, LateStep DEF Timely, ReadKnown
<1>6. CASE /\ UNCHANGED <<cur, result>> /\ ~ ConsumerOpen
           /\ consumer' = "closed" => consumer = "closed"
  <2>1. Timely' => cur.index <= Top' /\ result.index <= Top'
    <3> HIDE DEF t
    <3>1. QED
      BY <1>1, <1>2, <1>5, <1>6
  <2>2. QED
    BY <1>3, <1>6, <2>1 DEF ReadKnown
<1>7. CASE ReadIndex
  <2>1. /\ consumer = "index" /\ consumer' = "check" /\ UNCHANGED <<result, faults>>
        /\ cur'.index = index
    BY <1>7 DEF ReadIndex, mutexVars, IInv, TypeOK
  <2>2. ~ ConsumerOpen
    BY <2>1 DEF ConsumerOpen
  <2>3. Timely => index <= t
    <3>1. Timely => producer \notin {"data", "unlock"}
      BY <2>1 DEF CopyIInv, TimelyMutex
    <3>2. QED
      BY <3>1 DEF CopyIInv, IndexKnown
  <2>4. Timely' => cur'.index <= Top' /\ result'.index <= Top'
    <3>1. Timely' => index <= t /\ result.index <= t
      BY <1>5, <2>2, <2>3
    <3> HIDE DEF t
    <3>2. QED
      BY <1>1, <1>2, <2>1, <3>1
  <2>5. QED
    BY <2>1, <2>4 DEF ReadKnown
<1>8. CASE ReadRest
  <2>1. /\ consumer = "rest" /\ consumer' = "index" /\ UNCHANGED result
        /\ cur'.index = cur.index
    BY <1>8 DEF ReadRest, IInv, TypeOK
  <2>2. ~ ConsumerOpen
    BY <2>1 DEF ConsumerOpen
  <2>3. Timely' => cur'.index <= Top' /\ result'.index <= Top'
    <3> HIDE DEF t
    <3>1. QED
      BY <1>1, <1>2, <1>5, <2>1, <2>2
  <2>4. QED
    BY <2>1, <2>3 DEF ReadKnown
<1>9. CASE ReadFrame
  <2>1. /\ consumer = "check" /\ consumer' = "use" /\ UNCHANGED cur
        /\ result'.index = cur.index
    BY <1>9 DEF ReadFrame
  <2>2. ~ ConsumerOpen
    BY <2>1 DEF ConsumerOpen
  <2>3. Timely' => cur'.index <= Top' /\ result'.index <= Top'
    <3> HIDE DEF t
    <3>1. QED
      BY <1>1, <1>2, <1>5, <2>1, <2>2
  <2>4. QED
    BY <2>1, <2>3 DEF ReadKnown
<1>10. CASE ConsumerExit
  <2>1. cur'.index = 0 /\ result'.index = 0
    BY <1>10 DEF ConsumerExit, Nothing
  <2>2. QED
    BY <1>1, <2>1 DEF ReadKnown
<1>11. QED
  BY <1>4, <1>6, <1>7, <1>8, <1>9, <1>10, StepCases
  DEF ProducerOpen, ZeroIndex, ZeroRest, Write, WriteLock, WriteIndex, WriteRest,
      WriteData, WriteReturn, ProducerExit,
      Read, ReadLock, ReadNothing, Use, consumerVars, readVars

LEMMA SessionOfReadStep ==
  ASSUME IInv, CopyIInv, Next
  PROVE  SessionOfRead'
<1> SUFFICES ASSUME "reopen" \notin faults'
             PROVE  SessionOfRead'
  BY DEF SessionOfRead
<1>1. Base \in Nat /\ Base' \in Nat /\ Top \in Nat /\ Base <= Top
  BY TopStep, TopFacts DEF IInv
<1>2. ReadKnown
  BY DEF CopyIInv
<1>3. CASE ProducerOpen
  <2>1. consumer = "closed" /\ index' = 0 /\ UNCHANGED <<cur, result>>
    BY <1>3 DEF ProducerOpen, consumerVars, readVars
  <2>2. QED
    BY <1>2, <2>1 DEF ReadKnown, SessionOfRead
<1>4. CASE ConsumerOpen
  <2>1. /\ consumer = "closed" /\ UNCHANGED <<index, cur, result, session>>
    BY <1>4 DEF ConsumerOpen, segment, readVars, producerVars
  <2>2. cur.index = 0 /\ result.index = 0
    BY <1>2, <2>1 DEF ReadKnown
  <2>3. index = 0 \/ index > Base
    <3>1. CASE producer = "idle"
      <4>1. index = Value
        BY <3>1 DEF IInv, SegmentInv, Settled
      <4>2. QED
        BY <4>1, TopFacts DEF IInv
    <3>2. CASE producer # "idle"
      <4>1. "reopen" \notin faults
        BY <1>4, <3>2 DEF ConsumerOpen
      <4>2. QED
        BY <4>1 DEF CopyIInv, SessionOfRead
    <3>3. QED
      BY <3>1, <3>2
  <2>4. UNCHANGED Base
    BY <2>1 DEF Base
  <2>5. QED
    BY <2>1, <2>2, <2>3, <2>4 DEF SessionOfRead
<1>5. ASSUME ~ ProducerOpen, ~ ConsumerOpen
      PROVE  /\ UNCHANGED Base
             /\ index = 0 \/ index > Base
             /\ cur.index = 0 \/ cur.index > Base
             /\ result.index = 0 \/ result.index > Base
  <2>1. "reopen" \notin faults
    BY <1>5, LateStep
  <2>2. QED
    BY <1>5, <2>1, TopStep DEF CopyIInv, SessionOfRead
<1>6. CASE WriteIndex
  <2>1. producer = "index" /\ index' = Id(frame) /\ UNCHANGED <<cur, result>>
    BY <1>6 DEF WriteIndex, consumerVars, readVars
  <2>2. Id(frame) > Base
    <3>1. Id(frame) = Top + 1
      BY <2>1, TopFacts DEF IInv, Writing
    <3>2. QED
      BY <1>1, <3>1
  <2>3. ~ ProducerOpen /\ ~ ConsumerOpen
    BY <1>6 DEF WriteIndex, ProducerOpen, ConsumerOpen, consumerVars
  <2>4. QED
    BY <1>5, <2>1, <2>2, <2>3 DEF SessionOfRead
<1>7. CASE ZeroIndex
  <2>1. producer = "zeroIndex" /\ index' = 0 /\ UNCHANGED <<cur, result, consumer>>
    BY <1>7 DEF ZeroIndex, consumerVars, readVars
  <2>2. ~ ProducerOpen /\ ~ ConsumerOpen
    BY <1>7, <2>1 DEF ProducerOpen, ConsumerOpen
  <2>3. QED
    BY <1>5, <2>1, <2>2 DEF SessionOfRead
<1>8. CASE UNCHANGED <<index, cur, result>> /\ ~ ProducerOpen /\ ~ ConsumerOpen
  BY <1>5, <1>8 DEF SessionOfRead
<1>9. CASE ReadIndex \/ ReadRest \/ ReadFrame \/ ConsumerExit
  <2>1. ~ ProducerOpen /\ ~ ConsumerOpen
    BY <1>9 DEF ReadIndex, ReadRest, ReadFrame, ConsumerExit, ProducerOpen, ConsumerOpen,
                producerVars
  <2>2. UNCHANGED index
    BY <1>9 DEF ReadIndex, ReadRest, ReadFrame, ConsumerExit, segment
  <2>3. cur'.index \in {index, cur.index, 0} /\ result'.index \in {cur.index, result.index, 0}
    BY <1>9 DEF ReadIndex, ReadRest, ReadFrame, ConsumerExit, Nothing, IInv, TypeOK
  <2>4. QED
    BY <1>5, <2>1, <2>2, <2>3 DEF SessionOfRead
<1>10. QED
  BY <1>3, <1>4, <1>6, <1>7, <1>8, <1>9, StepCases
  DEF ZeroRest, Write, WriteLock, WriteRest, WriteData, WriteReturn, ProducerExit, Read,
      ReadLock, ReadNothing, Use, segment, consumerVars, readVars

LEMMA CopyStep ==
  ASSUME IInv, CopyIInv, Next
  PROVE  CopyInv'
<1> SUFFICES ASSUME Timely', producer' \in {"idle", "lock", "rest"}, Value' # 0,
                    result'.index = Value'
             PROVE  /\ consumer' = "use" => \A c \in Chunks : c < pos' => picture'[c] = Value'
                    /\ consumer' # "use" => \A c \in Chunks : picture'[c] = Value'
  BY DEF CopyInv
<1>1. ConsumerOpen \/ Timely
  BY LateStep DEF Timely
<1>2. ASSUME Timely, producer \in {"idle", "lock", "rest"}, UNCHANGED <<Value, result>>
      PROVE  /\ consumer = "use" => \A c \in Chunks : c < pos => picture[c] = Value
             /\ consumer # "use" => \A c \in Chunks : picture[c] = Value
  BY <1>2 DEF CopyIInv, CopyInv
<1>3. ASSUME UNCHANGED producerVars
      PROVE  UNCHANGED Value /\ UNCHANGED producer
  BY <1>3 DEF producerVars, Value, Id, Writing
<1>4. CASE ConsumerOpen
  <2>1. result'.index = 0
    BY <1>4 DEF ConsumerOpen, readVars, CopyIInv, ReadKnown
  <2>2. QED
    BY <2>1
<1>5. CASE ConsumerExit
  <2>1. result'.index = 0
    BY <1>5 DEF ConsumerExit, Nothing
  <2>2. QED
    BY <2>1
<1>6. CASE ReadFrame
  <2>1. consumer' = "use" /\ pos' = 0 /\ \A c \in Chunks : ~ (c < 0)
    BY <1>6 DEF ReadFrame, Chunks
  <2>2. QED
    BY <2>1
<1>7. CASE Use
  <2>1. /\ consumer = "use" /\ picture' = [picture EXCEPT ![pos] = data[pos]]
        /\ UNCHANGED <<producerVars, result, faults>> /\ pos \in Chunks
        /\ picture \in [Chunks -> Ids]
    BY <1>7 DEF Use, readVars, mutexVars, IInv, TypeOK, Ids
  <2>2. UNCHANGED Value /\ UNCHANGED producer
    BY <1>3, <2>1
  <2>3. Settled(Value)
    BY <2>2 DEF IInv, SegmentInv
  <2>4. data[pos] = Value
    BY <2>1, <2>2, <2>3 DEF Settled
  <2>5. Timely
    BY <2>1 DEF Timely
  <2>6. \A c \in Chunks : c < pos => picture[c] = Value
    BY <1>2, <2>1, <2>2, <2>5
  <2>7. \A c \in Chunks : c < pos \/ c = pos => picture'[c] = Value
    BY <2>1, <2>4, <2>6
  <2>8. CASE pos = LastChunk
    <3>1. consumer' = "idle" /\ \A c \in Chunks : c < pos \/ c = pos
      BY <1>7, <2>8 DEF Use, Chunks
    <3>2. QED
      BY <2>2, <2>7, <3>1
  <2>9. CASE pos # LastChunk
    <3>1. consumer' = "use" /\ pos' = pos + 1
      BY <1>7, <2>1, <2>9 DEF Use
    <3>2. \A c \in Chunks : c < pos + 1 => c < pos \/ c = pos
      BY <2>1 DEF Chunks
    <3>3. QED
      BY <2>2, <2>7, <3>1, <3>2
  <2>10. QED
    BY <2>8, <2>9
<1>8. CASE Read \/ ReadLock \/ ReadIndex \/ ReadRest \/ ReadNothing
  <2>1. /\ UNCHANGED <<producerVars, result, picture>>
        /\ consumer # "use" /\ consumer' # "use"
    BY <1>8 DEF Read, ReadLock, ReadIndex, ReadRest, ReadNothing, readVars, useVars
  <2>2. UNCHANGED Value /\ UNCHANGED producer
    BY <1>3, <2>1
  <2>3. Timely
    BY <1>1, <1>8, <2>1 DEF ConsumerOpen, Read, ReadLock, ReadIndex, ReadRest, ReadNothing
  <2>4. QED
    BY <1>2, <2>1, <2>2, <2>3
<1>9. ASSUME UNCHANGED consumerVars
      PROVE  UNCHANGED <<consumer, result, pos, picture>> /\ ~ ConsumerOpen /\ Timely
  <2>1. UNCHANGED <<consumer, result, pos, picture>>
    BY <1>9 DEF consumerVars, readVars, useVars
  <2>2. ~ ConsumerOpen
    BY <2>1 DEF ConsumerOpen
  <2>3. QED
    BY <1>1, <2>1, <2>2
<1>10. CASE Write \/ WriteLock
  <2>1. producer \in {"idle", "lock"} /\ producer' \in {"lock", "rest"} /\ UNCHANGED consumerVars
    BY <1>10 DEF Write, WriteLock
  <2>2. UNCHANGED Value
    BY <2>1, ValueStep
  <2>3. QED
    BY <1>2, <1>9, <2>1, <2>2
<1>11. CASE WriteReturn
  <2>1. producer = "unlock" /\ producer' = "idle" /\ UNCHANGED consumerVars
    BY <1>11 DEF WriteReturn
  <2>2. result.index <= Top
    BY <1>9, <2>1 DEF CopyIInv, ReadKnown
  <2>3. Top' = Top + 1 /\ Top \in Nat
    BY <2>1, TopStep, TopFacts DEF IInv
  <2>4. Value' = Top'
    <3>1. TypeOK' /\ SessionInv'
      BY TypeStep
    <3>2. Value' = 0 \/ Value' = Top'
      BY <3>1, TopFactsNext
    <3>3. QED
      BY <3>2
  <2>5. result.index \in Nat /\ UNCHANGED result
    BY <1>9, <2>1, ValueFacts DEF IInv, TypeOK, Ids
  <2>6. QED
    BY <2>2, <2>3, <2>4, <2>5
<1>12. CASE ZeroIndex
  <2>1. producer = "zeroIndex" /\ UNCHANGED <<session, frame>> /\ producer' = "idle"
    BY <1>12 DEF ZeroIndex
  <2>2. frame = 0
    BY <2>1 DEF IInv, SessionInv
  <2>3. Value' = 0
    BY <2>1, <2>2 DEF Value, Id, Writing
  <2>4. QED
    BY <2>3
<1>13. CASE ProducerOpen \/ ZeroRest \/ WriteIndex \/ WriteRest \/ WriteData \/ ProducerExit
  <2>1. producer' \notin {"idle", "lock", "rest"}
    BY <1>13 DEF ProducerOpen, ZeroRest, WriteIndex, WriteRest, WriteData, ProducerExit
  <2>2. QED
    BY <2>1
<1>14. QED
  BY <1>4, <1>5, <1>6, <1>7, <1>8, <1>10, <1>11, <1>12, <1>13, StepCases

LEMMA CopyInvariant == Spec => [](IInv /\ CopyIInv)
<1>1. Init => CopyIInv
  <2> SUFFICES ASSUME Init
               PROVE  CopyIInv
    OBVIOUS
  <2> USE DEF Init
  <2>1. TypeOK /\ SessionInv
    BY InitInv DEF IInv
  <2>2. Top \in Nat /\ Value = 0
    BY <2>1, TopFacts DEF Value, Id, Writing
  <2>3. IndexKnown /\ ReadKnown
    BY <2>2 DEF IndexKnown, ReadKnown, Nothing
  <2>4. QED
    BY <2>2, <2>3 DEF CopyIInv, TimelyMutex, SessionOfRead, CopyInv, Nothing
<1>2. IInv /\ CopyIInv /\ [Next]_vars => CopyIInv'
  <2> SUFFICES ASSUME IInv, CopyIInv, [Next]_vars
               PROVE  CopyIInv'
    OBVIOUS
  <2>1. CASE Next
    BY <2>1, IndexKnownStep, TimelyMutexStep, ReadKnownStep, SessionOfReadStep, CopyStep
       DEF CopyIInv
  <2>2. CASE UNCHANGED vars
    <3> USE <2>2 DEF vars, segment, mutexVars, producerVars, consumerVars, readVars, useVars
    <3>1. UNCHANGED Base /\ UNCHANGED Value /\ UNCHANGED Top /\ (Timely' <=> Timely)
      BY DEF Base, Top, Value, Id, Writing, Timely
    <3>2. IndexKnown' /\ TimelyMutex'
      BY <3>1 DEF CopyIInv, IndexKnown, TimelyMutex
    <3>3. ReadKnown' /\ SessionOfRead' /\ CopyInv'
      BY <3>1 DEF CopyIInv, ReadKnown, SessionOfRead, CopyInv
    <3>4. QED
      BY <3>2, <3>3 DEF CopyIInv
  <2>3. QED
    BY <2>1, <2>2
<1>3. QED
  BY Invariant, <1>1, <1>2, PTL DEF Spec

LatestCopied ==
  /\ "late" \notin faults /\ producer = "idle" /\ frame > 0
  /\ consumer \notin {"closed", "use"}
  /\ lastIndex = frame
  /\ "reopen" \in faults => result.index > Base
  => \A c \in Chunks : picture[c] = Id(frame)

(* Where the last frame may be lost: after the mutex was released, while    *)
(* the caller copies it.  A caller that copied data which a write was       *)
(* changing finds a new number at its next read; so when it finds none, and *)
(* the producer is between two writes, it has the whole of the last frame.  *)
(* A producer that died in a call does not matter, nor one that came back,  *)
(* as soon as what was read last is a frame of its new session.             *)
THEOREM NothingNewIsWhole == Spec => []LatestCopied
<1>1. IInv /\ CopyIInv => LatestCopied
  <2> SUFFICES ASSUME IInv, CopyIInv, "late" \notin faults, producer = "idle",
                      frame > 0, consumer \notin {"closed", "use"}, lastIndex = frame,
                      "reopen" \in faults => result.index > Base
               PROVE  \A c \in Chunks : picture[c] = Id(frame)
    BY DEF LatestCopied
  <2> DEFINE r == result.index
             b == Base
  <2>1. ~ Writing /\ Timely /\ (result.index = 0 \/ result.index > Base)
    BY DEF Writing, Timely, CopyIInv, SessionOfRead
  <2>2. Top = b + frame /\ b \in Nat /\ frame \in 1 .. MaxFrames /\ Id(frame) = b + frame
    BY <2>1, TopFacts DEF Top, IInv, TypeOK
  <2>3. r \in Nat /\ r <= Top /\ (r = 0 \/ r > b) /\ Number(r) = frame
    BY <2>1, ValueFacts DEF IInv, TypeOK, Ids, CopyIInv, ReadKnown, ReaderInv
  <2>4. r # 0
    BY <2>2, <2>3 DEF Number
  <2> DEFINE k == r - b
  <2>5. k \in 1 .. frame /\ r = b + k
    <3> HIDE DEF r, b
    <3>1. QED
      BY <2>2, <2>3, <2>4
  <2>6. \E q \in Nat : b = q * MaxFrames
    <3>1. session \in Nat
      BY DEF IInv, TypeOK
    <3>2. CASE session = 0
      <4>1. b = 0 * MaxFrames /\ 0 \in Nat
        BY <3>2 DEF Base
      <4>2. QED
        BY <4>1
    <3>3. CASE session # 0
      <4>1. b = (session - 1) * MaxFrames /\ session - 1 \in Nat
        BY <3>1, <3>3 DEF Base
      <4>2. QED
        BY <4>1
    <3>4. QED
      BY <3>2, <3>3
  <2> HIDE DEF k, b
  <2>7. PICK q \in Nat : b = q * MaxFrames
    BY <2>6
  <2>8. (r - 1) % MaxFrames = k - 1
    <3>1. k - 1 \in 0 .. MaxFrames - 1 /\ MaxFrames \in Nat \ {0}
      BY <2>2, <2>5
    <3>2. (q * MaxFrames + (k - 1)) % MaxFrames = k - 1
      BY <3>1, Remainder
    <3> HIDE DEF r
    <3>3. r - 1 = b + (k - 1)
      BY <2>2, <2>5
    <3>4. QED
      BY <3>2, <3>3, <2>7
  <2>9. k = frame
    BY <2>2, <2>3, <2>4, <2>5, <2>8 DEF Number
  <2>10. r = Id(frame) /\ Value = Id(frame) /\ Id(frame) # 0
    BY <2>1, <2>2, <2>5, <2>9 DEF Value
  <2>11. QED
    BY <2>1, <2>10 DEF CopyIInv, CopyInv
<1>2. QED
  BY CopyInvariant, <1>1, PTL
=============================================================================
