-------------------------- MODULE AudioDevice_proofs --------------------------
(***************************************************************************)
(* Proofs about AudioDevice for every buffer size that is at least four    *)
(* times the most samples ever left unplayed (FillAssumption), any slice   *)
(* length, any number of sessions and samples.  The stream is claimed to   *)
(* be whole until a stop() gives up waiting (timedOut); that the main      *)
(* thread stays inside of the buffer is claimed beyond that.               *)
(***************************************************************************)
EXTENDS AudioDevice, TLAPS

Places == {"none", "test", "take", "silence", "write", "advance", "grant", "done"}

Types ==
    /\ rdIndex \in Nat /\ wrIndex \in Nat
    /\ written \in Nat /\ session \in Nat
    /\ out \in [upto : Nat, samples : Seq(Nat)]
    /\ buffer \in [Cells -> Nat]
    /\ pc \in [Threads -> Places]
    /\ slice \in [Threads -> [at : Nat, len : Nat]]
    /\ dropped = FALSE

Nobody == \A t \in Threads : ~Alive(t)

(* Only the newest thread is alive, from its creation until stop() goes on *)
(* to release the device; it answers an order only when there is one.      *)
Alone ==
    /\ \A t \in Threads : Alive(t) => /\ t = session
                                      /\ main \in {"playing", "stop", "wait"}
    /\ \A t \in Threads : pc[t] = "grant" => main = "wait"
    /\ main = "playing" => stopRequest = "Started"
    /\ main = "stop" => stopRequest = "Started" \/ Nobody
    /\ main = "wait" => stopRequest = "StopReq" \/ Nobody

Room ==
    /\ rdIndex <= wrIndex /\ wrIndex <= Size
    /\ wrIndex - rdIndex <= MaxFill
    /\ main = "open" \/ (main = "playing" /\ first) => rdIndex = 0 /\ wrIndex = 0

(* A slice being sent starts at rdIndex or, once the buffer was compacted  *)
(* under it, beyond everything that can be stored before rdIndex moves.    *)
SliceSafe ==
    \A t \in Threads :
        pc[t] \in {"write", "advance"} =>
            /\ slice[t].len <= wrIndex - rdIndex
            /\ slice[t].at + slice[t].len <= Size
            /\ slice[t].at = rdIndex \/ (rdIndex = 0 /\ slice[t].at >= MaxFill)

Core == Types /\ Alone /\ Room /\ SliceSafe

-----------------------------------------------------------------------------
LEMMA FillFacts ==
    /\ Size \in Nat /\ MaxFill \in Nat /\ 4 * MaxFill <= Size
    /\ InitialFill \in Nat /\ InitialFill <= MaxFill
<1>1. (Preload - 1) * Ten \in Int
  BY SizeAssumption
<1>2. MaxFill \in Int
  BY <1>1, SizeAssumption DEF MaxFill
<1> HIDE DEF MaxFill
<1> QED BY <1>2, SizeAssumption, FillAssumption

LEMMA Quarter == MaxFill <= Size \div 4
BY FillFacts, SMT

LEMMA IndexFacts ==
    /\ \A n \in Nat : n % IndexModulus \in 0 .. IndexModulus - 1
    /\ \A n \in 0 .. Size : n % IndexModulus = n
<1>1. IndexModulus \in Nat /\ IndexModulus > Size /\ Size \in Nat
  BY SizeAssumption
<1> QED
  BY <1>1

(* audioPump() adds a fill only to less than Preload - 1 slices.           *)
LEMMA PumpFill ==
    ASSUME Avail \in Nat, getBufferFullness < Preload
    PROVE  Avail + Chunk <= MaxFill
<1> DEFINE a == Avail
           q == a \div Ten
<1>1. a \in Nat
  OBVIOUS
<1>2. Ten \in Nat /\ Ten > 0 /\ Preload \in Nat /\ Chunk \in Nat
  BY SizeAssumption
<1>3. q \in Nat /\ a < Ten * (q + 1)
  <2> HIDE DEF a
  <2> QED BY <1>1, <1>2, SMT
<1>4. q + 1 <= Preload - 1
  <2>1. 1 + q < Preload
    BY DEF getBufferFullness
  <2> HIDE DEF q
  <2> QED BY <1>2, <1>3, <2>1, SMT
<1>5. Ten * (q + 1) <= (Preload - 1) * Ten
  <2> HIDE DEF q
  <2>1. PICK d \in Nat : Preload - 1 = q + 1 + d
    <3>1. Preload - 1 - (q + 1) \in Nat
      BY <1>2, <1>3, <1>4, SMT
    <3> QED BY <3>1, <1>2, <1>3, SMT
  <2>2. (Preload - 1) * Ten = Ten * (q + 1) + Ten * d
    BY <1>2, <1>3, <2>1, SMT
  <2>3. Ten * d \in Nat /\ Ten * (q + 1) \in Nat
    BY <1>2, <1>3, SMT
  <2> QED BY <2>2, <2>3, SMT
<1>6. (Preload - 1) * Ten \in Int /\ Ten * (q + 1) \in Int
  <2> HIDE DEF q
  <2> QED BY <1>2, <1>3, SMT
<1> DEFINE p == (Preload - 1) * Ten
           r == Ten * (q + 1)
<1>7. MaxFill = p - 1 + Chunk
  BY DEF MaxFill
<1> HIDE DEF a, p, r
<1>8. a < r /\ r <= p /\ p \in Int /\ r \in Int
  BY <1>3, <1>5, <1>6 DEF p, r
<1>9. a + Chunk <= MaxFill
  BY <1>1, <1>2, <1>7, <1>8, SMT
<1> QED BY <1>9 DEF a

LEMMA PumpRoom ==
    ASSUME rdIndex \in Nat, wrIndex \in Nat, rdIndex <= wrIndex,
           getBufferFullness < Preload, NEW len \in 1 .. Chunk
    PROVE  wrIndex - rdIndex + len <= MaxFill
<1>1. Avail = wrIndex - rdIndex /\ Avail \in Nat
  BY SMT DEF Avail
<1>2. Avail + Chunk <= MaxFill
  BY <1>1, PumpFill
<1> QED BY <1>1, <1>2, SizeAssumption, FillFacts

(* writeData() on a buffer with room: nothing is refused, the samples not  *)
(* played yet keep their order before the new ones, and a slice that is    *)
(* being sent is left alone.                                               *)
LEMMA WriteData ==
    ASSUME Types, Room, NEW len \in Nat, wrIndex - rdIndex + len <= MaxFill,
           writeData(len)
    PROVE  /\ rdIndex' \in Nat /\ wrIndex' \in Nat /\ written' = written + len
           /\ rdIndex' <= wrIndex' /\ wrIndex' <= Size
           /\ wrIndex' - rdIndex' = wrIndex - rdIndex + len
           /\ dropped' = FALSE /\ buffer' \in [Cells -> Nat]
           /\ rdIndex' = rdIndex \/ (rdIndex' = 0 /\ rdIndex >= MaxFill)
           /\ \A k \in 0 .. wrIndex - rdIndex - 1 :
                  buffer'[rdIndex' + k] = buffer[rdIndex + k]
           /\ \A k \in wrIndex - rdIndex .. wrIndex' - rdIndex' - 1 :
                  buffer'[rdIndex' + k] = written + 1 + k - (wrIndex - rdIndex)
           /\ rdIndex' = rdIndex => \A i \in Cells : i < wrIndex => buffer'[i] = buffer[i]
           /\ rdIndex' = 0 => \A i \in Cells : i >= MaxFill => buffer'[i] = buffer[i]
<1> USE FillFacts, Quarter
<1>0. /\ rdIndex \in Nat /\ wrIndex \in Nat /\ written \in Nat /\ dropped = FALSE
      /\ buffer \in [Cells -> Nat]
      /\ rdIndex <= wrIndex /\ wrIndex <= Size
  BY DEF Types, Room
<1>1. CASE CompactionDue
  <2>1. rdIndex > Size \div 4 /\ rdIndex >= MaxFill
    BY <1>0, <1>1 DEF CompactionDue
  <2>2. wrIndex - rdIndex + len <= Size
    BY <1>0
  <2>3. rdIndex' = 0 /\ wrIndex' = wrIndex - rdIndex + len /\ written' = written + len
        /\ dropped' = FALSE
    BY <1>0, <1>1, <2>2 DEF writeData
  <2>4. buffer' = [i \in Cells |->
                      IF i \in wrIndex - rdIndex .. wrIndex - rdIndex + len - 1
                      THEN written + 1 + i - (wrIndex - rdIndex)
                      ELSE IF i < wrIndex - rdIndex THEN buffer[i + rdIndex] ELSE buffer[i]]
    BY <1>0, <1>1, <2>2 DEF writeData
  <2>5. \A i \in Cells : i < wrIndex - rdIndex => i + rdIndex \in Cells
    BY <1>0 DEF Cells
  <2>6. buffer' \in [Cells -> Nat]
    BY <1>0, <2>4, <2>5 DEF Cells
  <2>7. \A k \in 0 .. wrIndex - rdIndex - 1 : buffer'[rdIndex' + k] = buffer[rdIndex + k]
    BY <1>0, <2>3, <2>4 DEF Cells
  <2>8. \A k \in wrIndex - rdIndex .. wrIndex' - rdIndex' - 1 :
            buffer'[rdIndex' + k] = written + 1 + k - (wrIndex - rdIndex)
    BY <1>0, <2>2, <2>3, <2>4 DEF Cells
  <2>9. \A i \in Cells : i >= MaxFill => buffer'[i] = buffer[i]
    BY <1>0, <2>4 DEF Cells
  <2>10. rdIndex' = rdIndex => \A i \in Cells : i < wrIndex => buffer'[i] = buffer[i]
    <3>1. rdIndex' = rdIndex => wrIndex <= Size \div 4
      BY <1>0, <2>1, <2>3
    <3> QED BY <1>0, <1>1, <2>1, <2>3, <3>1 DEF CompactionDue
  <2> QED BY <1>0, <2>1, <2>2, <2>3, <2>6, <2>7, <2>8, <2>9, <2>10
<1>2. CASE ~CompactionDue
  <2>1. wrIndex + len <= Size
    BY <1>0, <1>2 DEF CompactionDue
  <2>3. rdIndex' = rdIndex /\ wrIndex' = wrIndex + len /\ written' = written + len
        /\ dropped' = FALSE
    BY <1>0, <1>2, <2>1 DEF writeData
  <2>4. buffer' = [i \in Cells |-> IF i \in wrIndex .. wrIndex + len - 1
                                   THEN written + 1 + i - wrIndex ELSE buffer[i]]
    BY <1>0, <1>2, <2>1 DEF writeData
  <2>6. buffer' \in [Cells -> Nat]
    BY <1>0, <2>4 DEF Cells
  <2>7. \A k \in 0 .. wrIndex - rdIndex - 1 : buffer'[rdIndex' + k] = buffer[rdIndex + k]
    BY <1>0, <2>3, <2>4 DEF Cells
  <2>8. \A k \in wrIndex - rdIndex .. wrIndex' - rdIndex' - 1 :
            buffer'[rdIndex' + k] = written + 1 + k - (wrIndex - rdIndex)
    BY <1>0, <2>1, <2>3, <2>4 DEF Cells
  <2>9. \A i \in Cells : i < wrIndex => buffer'[i] = buffer[i]
    BY <1>0, <2>4 DEF Cells
  <2>10. rdIndex' = 0 => \A i \in Cells : i >= MaxFill => buffer'[i] = buffer[i]
    BY <1>0, <2>3, <2>4 DEF Cells
  <2> QED BY <1>0, <2>1, <2>3, <2>6, <2>7, <2>8, <2>9, <2>10
<1> QED BY <1>1, <1>2

-----------------------------------------------------------------------------
LEMMA InitCore == Init => Core
<1> SUFFICES ASSUME Init PROVE Core
  OBVIOUS
<1>1. Types
  BY SizeAssumption DEF Init, Types, Places, NoSlice, Cells
<1>2. Alone
  BY DEF Init, Alone, Nobody, Alive
<1>3. Room
  BY FillFacts DEF Init, Room
<1>4. SliceSafe
  BY DEF Init, SliceSafe
<1> QED BY <1>1, <1>2, <1>3, <1>4 DEF Core

(* The main thread outside of writeData().                                 *)
LEMMA StepMain ==
    ASSUME Core,
           InitBuffer \/ OpenDevice \/ OpenFails \/ cleanupAudio \/ RequestStop
               \/ StopGranted \/ localStop \/ FreeBuffer
    PROVE  Core'
<1> USE DEF Core, mainVars, threadVars
<1>1. CASE InitBuffer
  <2>1. Nobody /\ session' = session + 1
    BY <1>1 DEF InitBuffer, Alone, Nobody
  <2>2. Types'
    BY <1>1, <2>1 DEF InitBuffer, Types
  <2>3. Alone'
    BY <1>1, <2>1 DEF InitBuffer, Alone, Nobody, Alive
  <2>4. Room' /\ SliceSafe'
    BY <1>1, <2>1, FillFacts DEF InitBuffer, Room, SliceSafe, Nobody, Alive
  <2> QED BY <2>2, <2>3, <2>4
<1>2. CASE OpenDevice
  <2>1. Nobody
    BY <1>2 DEF OpenDevice, Alone, Nobody
  <2>2. Types'
    BY <1>2 DEF OpenDevice, Types, Places
  <2>3. Alone'
    BY <1>2, <2>1 DEF OpenDevice, Alone, Nobody, Alive, Types
  <2>4. Room' /\ SliceSafe'
    BY <1>2, <2>1 DEF OpenDevice, Room, SliceSafe, Nobody, Alive, Types
  <2> QED BY <2>2, <2>3, <2>4
<1>3. CASE OpenFails
  <2>1. Nobody
    BY <1>3 DEF OpenFails, Alone, Nobody
  <2> QED BY <1>3, <2>1 DEF OpenFails, Types, Alone, Room, SliceSafe, Nobody, Alive
<1>4. CASE cleanupAudio
  <2>1. main = "idle" => Nobody
    BY DEF Alone, Nobody
  <2> QED BY <1>4, <2>1 DEF cleanupAudio, Types, Alone, Room, SliceSafe, Nobody, Alive
<1>5. CASE RequestStop
  BY <1>5 DEF RequestStop, Types, Alone, Room, SliceSafe, Nobody, Alive
<1>6. CASE StopGranted
  BY <1>6 DEF StopGranted, Types, Alone, Room, SliceSafe, Nobody, Alive
<1>7. CASE localStop
  BY <1>7 DEF localStop, Types, Alone, Room, SliceSafe, Nobody, Alive
<1>8. CASE FreeBuffer
  BY <1>8 DEF FreeBuffer, Types, Alone, Room, SliceSafe, Nobody, Alive
<1> QED BY <1>1, <1>2, <1>3, <1>4, <1>5, <1>6, <1>7, <1>8

(* The main thread in writeData().                                         *)
LEMMA PlayFits ==
    ASSUME Core, NEW len \in Nat, writeData(len),
           \/ main = "playing" /\ first /\ len \in 0 .. InitialFill
           \/ getBufferFullness < Preload /\ len \in 1 .. Chunk
    PROVE  wrIndex - rdIndex + len <= MaxFill
<1>1. CASE main = "playing" /\ first /\ len \in 0 .. InitialFill
  BY <1>1, FillFacts DEF Core, Room
<1>2. CASE getBufferFullness < Preload /\ len \in 1 .. Chunk
  BY <1>2, PumpRoom DEF Core, Room, Types
<1> QED BY <1>1, <1>2

LEMMA StepPlay ==
    ASSUME Core, PlayInitialFill \/ audioPump
    PROVE  Core'
<1> USE DEF Core, mainVars, threadVars
<1>1. PICK len \in Nat :
         /\ writeData(len)
         /\ \/ main = "playing" /\ first /\ len \in 0 .. InitialFill
            \/ getBufferFullness < Preload /\ len \in 1 .. Chunk
  BY SizeAssumption DEF PlayInitialFill, audioPump
<1>2. wrIndex - rdIndex + len <= MaxFill
  BY <1>1, PlayFits
<1>3. /\ main = "playing" /\ ~first' /\ UNCHANGED <<stopRequest, main, session, pc, slice, out>>
  BY DEF PlayInitialFill, audioPump
<1>4. /\ rdIndex' \in Nat /\ wrIndex' \in Nat
      /\ rdIndex' <= wrIndex' /\ wrIndex' <= Size
      /\ wrIndex' - rdIndex' = wrIndex - rdIndex + len
      /\ rdIndex' = rdIndex \/ (rdIndex' = 0 /\ rdIndex >= MaxFill)
  BY <1>1, <1>2, WriteData
<1>5. Types'
  <2>1. written' = written + len /\ dropped' = FALSE /\ buffer' \in [Cells -> Nat]
    BY <1>1, <1>2, WriteData
  <2> QED BY <1>3, <1>4, <2>1 DEF Types
<1>6. Alone'
  BY <1>3 DEF Alone, Nobody, Alive
<1>7. Room'
  <2>1. rdIndex' <= wrIndex' /\ wrIndex' - rdIndex' <= MaxFill
    <3>1. rdIndex \in Nat /\ wrIndex \in Nat /\ rdIndex <= wrIndex
      BY DEF Room, Types
    <3> QED BY <1>2, <1>4, <3>1
  <2> QED BY <1>3, <1>4, <2>1 DEF Room
<1>8. SliceSafe'
  <2> SUFFICES ASSUME NEW t \in Threads, pc[t] \in {"write", "advance"}
               PROVE  /\ slice[t].len <= wrIndex' - rdIndex'
                      /\ slice[t].at + slice[t].len <= Size
                      /\ slice[t].at = rdIndex' \/ (rdIndex' = 0 /\ slice[t].at >= MaxFill)
    BY <1>3 DEF SliceSafe
  <2>1. /\ slice[t].len <= wrIndex - rdIndex
        /\ slice[t].at + slice[t].len <= Size
        /\ slice[t].at = rdIndex \/ (rdIndex = 0 /\ slice[t].at >= MaxFill)
    BY DEF SliceSafe
  <2>2. slice[t].len \in Nat /\ slice[t].at \in Nat /\ rdIndex \in Nat /\ wrIndex \in Nat
    BY DEF Types
  <2>3. slice[t].len <= wrIndex' - rdIndex'
    BY <1>4, <2>1, <2>2
  <2>4. slice[t].at = rdIndex' \/ (rdIndex' = 0 /\ slice[t].at >= MaxFill)
    BY <1>4, <2>1, <2>2, FillFacts
  <2> QED BY <2>1, <2>3, <2>4
<1> QED BY <1>5, <1>6, <1>7, <1>8

(* The device thread.                                                      *)
LEMMA StepThread ==
    ASSUME Core, NEW t \in Threads, Thread(t)
    PROVE  Core'
<1> USE DEF Core, mainVars, threadVars
<1>0. /\ pc[t] \in Places /\ slice[t] \in [at : Nat, len : Nat]
      /\ rdIndex \in Nat /\ wrIndex \in Nat
  BY DEF Types
<1>1. CASE LoopTest(t)
  <2>1. pc' = [pc EXCEPT ![t] = "take"] \/ (pc' = [pc EXCEPT ![t] = "grant"] /\ main = "wait")
    BY <1>1 DEF LoopTest, Alone, Alive, Nobody
  <2> QED BY <1>1, <2>1 DEF LoopTest, Types, Places, Alone, Room, SliceSafe, Nobody, Alive
<1>2. CASE GrantStop(t)
  <2>1. main = "wait" /\ (\A u \in Threads : u # t => ~Alive(u))
    BY <1>2 DEF GrantStop, Alone, Alive
  <2>2. Nobody'
    BY <1>2, <2>1 DEF GrantStop, Nobody, Alive, Types
  <2> QED BY <1>2, <2>1, <2>2 DEF GrantStop, Types, Places, Alone, Room, SliceSafe, Nobody, Alive
<1>3. CASE SendNothing(t)
  BY <1>3 DEF SendNothing, Types, Places, Alone, Room, SliceSafe, Nobody, Alive
<1>4. CASE TakeSlice(t)
  <2>1. Avail = wrIndex - rdIndex
    BY DEF Avail, Room
  <2>2. SliceLength \in Nat /\ SliceLength <= wrIndex - rdIndex
    BY <1>0, <2>1, SizeAssumption DEF SliceLength, Room
  <2>3. Types'
    BY <1>0, <1>4, <2>2 DEF TakeSlice, Types, Places, NoSlice
  <2>4. Alone' /\ Room'
    BY <1>4 DEF TakeSlice, Types, Alone, Room, Nobody, Alive
  <2>5. wrIndex <= Size
    BY DEF Room
  <2>6. SliceLength # 0 => rdIndex + SliceLength <= Size
    BY <1>0, <2>2, <2>5, FillFacts
  <2>7. /\ slice' = [slice EXCEPT ![t] = IF SliceLength = 0 THEN NoSlice
                                         ELSE [at |-> rdIndex, len |-> SliceLength]]
        /\ pc' = [pc EXCEPT ![t] = IF SliceLength = 0 THEN "silence" ELSE "write"]
        /\ UNCHANGED <<rdIndex, wrIndex>>
    BY <1>4 DEF TakeSlice
  <2>8. SliceSafe'
    <3> SUFFICES ASSUME NEW u \in Threads, pc'[u] \in {"write", "advance"}
                 PROVE  /\ slice'[u].len <= wrIndex - rdIndex
                        /\ slice'[u].at + slice'[u].len <= Size
                        /\ slice'[u].at = rdIndex \/ (rdIndex = 0 /\ slice'[u].at >= MaxFill)
      BY <2>7 DEF SliceSafe
    <3>1. CASE u = t
      <4>1. SliceLength # 0 /\ slice'[u] = [at |-> rdIndex, len |-> SliceLength]
        BY <2>7, <3>1 DEF Types
      <4> QED BY <2>2, <2>6, <4>1
    <3>2. CASE u # t
      BY <2>7, <3>2 DEF Types, SliceSafe
    <3> QED BY <3>1, <3>2
  <2> QED BY <2>3, <2>4, <2>8
<1>5. CASE SendSilence(t)
  BY <1>5 DEF SendSilence, Types, Places, Alone, Room, SliceSafe, Nobody, Alive
<1>6. CASE SendSlice(t)
  <2>1. Slice(slice[t].at, slice[t].len) \in Seq(Nat)
    <3>1. \A i \in Nat : CellAt(i) \in Nat
      BY DEF CellAt, Types
    <3>2. \A i \in 1 .. slice[t].len : CellAt(slice[t].at + i - 1) \in Nat
      <4> SUFFICES ASSUME NEW i \in 1 .. slice[t].len
                   PROVE  slice[t].at + i - 1 \in Nat
        BY <3>1
      <4> QED BY <1>0
    <3>3. slice[t].len \in Nat
      BY <1>0
    <3> QED BY <3>2, <3>3 DEF Slice
  <2>2. Types'
    BY <1>0, <1>6, <2>1 DEF SendSlice, Types, Places
  <2>3. Alone' /\ Room' /\ SliceSafe'
    BY <1>6 DEF SendSlice, Types, Alone, Room, SliceSafe, Nobody, Alive
  <2> QED BY <2>2, <2>3
<1>7. CASE Advance(t)
  <2>1. slice[t].len <= wrIndex - rdIndex /\ \A u \in Threads : u # t => ~Alive(u)
    BY <1>7 DEF Advance, Alone, Alive, SliceSafe
  <2>2. rdIndex' = rdIndex + slice[t].len /\ rdIndex' \in Nat /\ rdIndex' <= wrIndex
    <3> DEFINE n == rdIndex + slice[t].len
    <3>1. n \in 0 .. Size /\ n <= wrIndex
      BY <1>0, <2>1, FillFacts DEF Room
    <3>2. rdIndex' = n % IndexModulus
      BY <1>7 DEF Advance
    <3> HIDE DEF n
    <3>3. rdIndex' = n
      BY <3>1, <3>2, IndexFacts
    <3> QED BY <3>1, <3>3 DEF n
  <2>3. Types'
    BY <1>0, <1>7, <2>2 DEF Advance, Types, Places, NoSlice
  <2>4. Alone'
    BY <1>7 DEF Advance, Types, Alone, Nobody, Alive
  <2>5. Room'
    BY <1>0, <1>7, <2>1, <2>2, FillFacts DEF Advance, Room
  <2>6. SliceSafe'
    BY <1>7, <2>1 DEF Advance, Types, SliceSafe, Alive
  <2> QED BY <2>3, <2>4, <2>5, <2>6
<1> QED BY <1>1, <1>2, <1>3, <1>4, <1>5, <1>6, <1>7 DEF Thread

IInv == ~timedOut => Core

LEMMA TimedOutStays == Next => (timedOut => timedOut')
BY DEF Next, Main, Stop, Thread, InitBuffer, OpenDevice, OpenFails, PlayInitialFill,
       audioPump, cleanupAudio, RequestStop, StopGranted, StopTimesOut, localStop,
       FreeBuffer, LoopTest, GrantStop, SendNothing, TakeSlice, SendSilence, SendSlice,
       Advance, mainVars

LEMMA StepCore ==
    ASSUME IInv, [Next]_vars
    PROVE  IInv'
<1> SUFFICES ASSUME ~timedOut' PROVE Core'
  BY DEF IInv
<1>1. ~timedOut /\ Core
  BY TimedOutStays DEF IInv, vars, mainVars
<1>2. CASE Next
  <2>1. CASE StopTimesOut
    BY <2>1 DEF StopTimesOut
  <2>2. CASE PlayInitialFill \/ audioPump
    BY <1>1, <2>2, StepPlay
  <2>3. CASE \E t \in Threads : Thread(t)
    BY <1>1, <2>3, StepThread
  <2>4. CASE InitBuffer \/ OpenDevice \/ OpenFails \/ cleanupAudio \/ RequestStop
                \/ StopGranted \/ localStop \/ FreeBuffer
    BY <1>1, <2>4, StepMain
  <2> QED BY <1>2, <2>1, <2>2, <2>3, <2>4 DEF Next, Main, Stop
<1>3. CASE UNCHANGED vars
  BY <1>1, <1>3 DEF vars, mainVars, threadVars, Core, Types, Alone, Room, SliceSafe,
                    Nobody, Alive
<1> QED BY <1>2, <1>3

LEMMA CoreHolds == Spec => []IInv
<1>1. Init => IInv
  BY InitCore DEF IInv
<1>2. IInv /\ [Next]_vars => IInv'
  BY StepCore
<1> QED BY <1>1, <1>2, PTL DEF Spec

-----------------------------------------------------------------------------
(* writeData() never refuses samples, as long as no stop() has given up.   *)
THEOREM NothingLost == Spec => []NothingDropped
<1>1. IInv => NothingDropped
  BY DEF IInv, Core, Types, NothingDropped
<1> QED BY <1>1, CoreHolds, PTL

(* Device and buffers are released under a thread only after a timeout.    *)
THEOREM ThreadGone == Spec => []ReleasedAfterThread
<1>1. IInv => ReleasedAfterThread
  BY DEF IInv, Core, Alone, Alive, Sending, ReleasedAfterThread
<1> QED BY <1>1, CoreHolds, PTL

(* No two threads play at once, unless a stop() has given up.              *)
THEOREM PlaysAlone == Spec => []OneThread
<1>1. IInv => OneThread
  BY DEF IInv, Core, Alone, Alive, OneThread
<1> QED BY <1>1, CoreHolds, PTL

(* The cells a thread is sending: what writeData() leaves alone.           *)
LEMMA PlayKeepsSlice ==
    ASSUME Core, PlayInitialFill \/ audioPump, NEW t \in Threads, pc[t] = "write",
           NEW i \in slice[t].at .. slice[t].at + slice[t].len - 1
    PROVE  i \in Cells /\ buffer'[i] = buffer[i]
<1> USE DEF Core
<1>1. PICK len \in Nat :
         /\ writeData(len)
         /\ \/ main = "playing" /\ first /\ len \in 0 .. InitialFill
            \/ getBufferFullness < Preload /\ len \in 1 .. Chunk
  BY SizeAssumption DEF PlayInitialFill, audioPump
<1>2. wrIndex - rdIndex + len <= MaxFill
  BY <1>1, PlayFits
<1>3. /\ rdIndex' = rdIndex \/ (rdIndex' = 0 /\ rdIndex >= MaxFill)
      /\ rdIndex' = rdIndex => \A j \in Cells : j < wrIndex => buffer'[j] = buffer[j]
      /\ rdIndex' = 0 => \A j \in Cells : j >= MaxFill => buffer'[j] = buffer[j]
  BY <1>1, <1>2, WriteData
<1>4. /\ slice[t].len <= wrIndex - rdIndex
      /\ slice[t].at + slice[t].len <= Size
      /\ slice[t].at = rdIndex \/ (rdIndex = 0 /\ slice[t].at >= MaxFill)
  BY DEF SliceSafe
<1>5. slice[t].len \in Nat /\ slice[t].at \in Nat /\ rdIndex \in Nat /\ wrIndex \in Nat
  BY DEF Types
<1>6. i \in Cells
  BY <1>4, <1>5, FillFacts DEF Cells
<1>7. CASE slice[t].at = rdIndex
  <2>1. i < wrIndex /\ i >= rdIndex /\ i \in Int
    BY <1>4, <1>5, <1>7
  <2>2. rdIndex >= MaxFill => i >= MaxFill
    BY <1>5, <2>1, FillFacts
  <2> QED BY <1>3, <1>6, <2>1, <2>2
<1>8. CASE rdIndex = 0 /\ slice[t].at >= MaxFill
  <2>1. i >= MaxFill /\ rdIndex' = 0
    BY <1>3, <1>5, <1>8, FillFacts
  <2> QED BY <1>3, <1>6, <2>1
<1> QED BY <1>4, <1>6, <1>7, <1>8

(* A write in progress is not disturbed, although it takes no mutex.       *)
THEOREM SliceStable == Spec => SliceIsStable
<1> DEFINE Stable ==
        \A t \in Threads :
          ~timedOut /\ pc[t] = "write" /\ pc'[t] = "write"
              => \A i \in slice[t].at .. slice[t].at + slice[t].len - 1 :
                     buffer'[i] = buffer[i]
<1>1. ASSUME IInv, [Next]_vars PROVE Stable
  <2> SUFFICES ASSUME NEW t \in Threads, ~timedOut, pc[t] = "write",
                      NEW i \in slice[t].at .. slice[t].at + slice[t].len - 1
               PROVE  buffer'[i] = buffer[i]
    OBVIOUS
  <2>1. Core
    BY <1>1 DEF IInv
  <2>2. CASE PlayInitialFill \/ audioPump
    BY <2>1, <2>2, PlayKeepsSlice
  <2>3. CASE FreeBuffer
    BY <2>1, <2>3 DEF FreeBuffer, Core, Alone, Alive
  <2>4. CASE UNCHANGED buffer
    BY <2>4
  <2>5. PlayInitialFill \/ audioPump \/ FreeBuffer \/ UNCHANGED buffer
    BY <1>1 DEF Next, Main, Stop, Thread, vars, InitBuffer, OpenDevice, OpenFails,
                cleanupAudio, RequestStop, StopGranted, StopTimesOut, localStop,
                LoopTest, GrantStop, SendNothing, TakeSlice, SendSilence, SendSlice,
                Advance
  <2> QED BY <2>2, <2>3, <2>4, <2>5
<1>2. Spec => [][Stable]_vars
  BY <1>1, CoreHolds, PTL DEF Spec
<1> QED BY <1>2, PTL DEF SliceIsStable

-----------------------------------------------------------------------------
(* The order of the stream.  Played samples are those whose write is over  *)
(* and which rdIndex has left behind; the buffer holds the ones after      *)
(* them, and a slice that is being sent the next ones.                     *)
Playing == main \in {"open", "playing"} \/ \E t \in Threads : Alive(t)

Played == IF session \in Threads /\ pc[session] = "advance"
          THEN out.upto - slice[session].len ELSE out.upto

Stored ==
    Playing =>
        /\ written = Played + (wrIndex - rdIndex)
        /\ \A k \in 0 .. wrIndex - rdIndex - 1 : buffer[rdIndex + k] = Played + 1 + k

SliceHeld ==
    \A t \in Threads :
        pc[t] = "write" =>
            \A k \in 0 .. slice[t].len - 1 : buffer[slice[t].at + k] = out.upto + 1 + k

InOrder ==
    \A i \in DOMAIN out.samples : out.samples[i] = out.upto - Len(out.samples) + i

Content == Stored /\ SliceHeld /\ InOrder

LEMMA InitContent == Init => Content
<1> SUFFICES ASSUME Init PROVE Content
  OBVIOUS
<1>1. ~Playing
  BY DEF Init, Playing, Alive
<1>2. SliceHeld
  BY DEF Init, SliceHeld
<1>3. InOrder
  BY DEF Init, InOrder
<1> QED BY <1>1, <1>2, <1>3 DEF Content, Stored

LEMMA PlayedInt == Types => Played \in Int
BY DEF Types, Played

(* The main thread outside of writeData().                                 *)
LEMMA ContentMain ==
    ASSUME Core, Content,
           InitBuffer \/ OpenDevice \/ OpenFails \/ cleanupAudio \/ RequestStop
               \/ StopGranted \/ localStop \/ FreeBuffer
    PROVE  Content'
<1> USE DEF Core, Content, mainVars, threadVars
<1>1. CASE InitBuffer
  <2>1. Nobody
    BY <1>1 DEF InitBuffer, Alone, Nobody
  <2>2. Played' = 0 /\ written' = 0 /\ rdIndex' = 0 /\ wrIndex' = 0
    BY <1>1, <2>1 DEF InitBuffer, Played, Nobody, Alive
  <2>3. Stored'
    BY <2>2 DEF Stored
  <2>4. SliceHeld' /\ InOrder'
    BY <1>1, <2>1 DEF InitBuffer, SliceHeld, InOrder, Nobody, Alive
  <2> QED BY <2>3, <2>4
<1>2. CASE OpenDevice
  <2>1. Nobody /\ Playing
    BY <1>2 DEF OpenDevice, Alone, Nobody, Playing
  <2>2. Played' = Played
    BY <1>2, <2>1 DEF OpenDevice, Played, Nobody, Alive, Types
  <2>3. Stored'
    BY <1>2, <2>1, <2>2 DEF OpenDevice, Stored
  <2>4. SliceHeld' /\ InOrder'
    BY <1>2 DEF OpenDevice, SliceHeld, InOrder, Types
  <2> QED BY <2>3, <2>4
<1>3. CASE FreeBuffer
  <2>1. Nobody
    BY <1>3 DEF FreeBuffer, Alone, Nobody
  <2>2. ~Playing'
    BY <1>3, <2>1 DEF FreeBuffer, Playing, Nobody, Alive
  <2>3. SliceHeld' /\ InOrder'
    BY <1>3, <2>1 DEF FreeBuffer, SliceHeld, InOrder, Nobody, Alive
  <2> QED BY <2>2, <2>3 DEF Stored
<1>4. CASE OpenFails \/ cleanupAudio \/ RequestStop \/ StopGranted \/ localStop
  <2>1. /\ UNCHANGED <<rdIndex, wrIndex, buffer, session, written, pc, slice, out>>
        /\ main' \notin {"open", "playing"}
    BY <1>4 DEF OpenFails, cleanupAudio, RequestStop, StopGranted, localStop
  <2>2. (Playing' => Playing) /\ Played' = Played
    BY <2>1 DEF Playing, Played, Alive
  <2> QED BY <2>1, <2>2 DEF Stored, SliceHeld, InOrder
<1> QED BY <1>1, <1>2, <1>3, <1>4

(* The main thread in writeData().                                         *)
LEMMA ContentPlay ==
    ASSUME Core, Content, PlayInitialFill \/ audioPump
    PROVE  Content'
<1> USE DEF Core, Content
<1>1. PICK len \in Nat :
         /\ writeData(len)
         /\ \/ main = "playing" /\ first /\ len \in 0 .. InitialFill
            \/ getBufferFullness < Preload /\ len \in 1 .. Chunk
  BY SizeAssumption DEF PlayInitialFill, audioPump
<1>2. wrIndex - rdIndex + len <= MaxFill
  BY <1>1, PlayFits
<1>3. main = "playing" /\ UNCHANGED <<main, session, pc, slice, out>>
  BY DEF PlayInitialFill, audioPump, threadVars
<1>4. /\ written' = written + len /\ wrIndex' - rdIndex' = wrIndex - rdIndex + len
      /\ \A k \in 0 .. wrIndex - rdIndex - 1 :
             buffer'[rdIndex' + k] = buffer[rdIndex + k]
      /\ \A k \in wrIndex - rdIndex .. wrIndex' - rdIndex' - 1 :
             buffer'[rdIndex' + k] = written + 1 + k - (wrIndex - rdIndex)
  BY <1>1, <1>2, WriteData
<1>5. Played' = Played /\ Played \in Int
  BY <1>3, PlayedInt DEF Played
<1>6. /\ written = Played + (wrIndex - rdIndex)
      /\ \A k \in 0 .. wrIndex - rdIndex - 1 : buffer[rdIndex + k] = Played + 1 + k
  BY <1>3 DEF Stored, Playing
<1>7. rdIndex \in Nat /\ wrIndex \in Nat
  BY DEF Types
<1>8. Stored'
  <2>1. written' = Played + (wrIndex' - rdIndex')
    BY <1>4, <1>5, <1>6, <1>7
  <2>2. ASSUME NEW k \in 0 .. wrIndex' - rdIndex' - 1
        PROVE  buffer'[rdIndex' + k] = Played + 1 + k
    <3>1. CASE k < wrIndex - rdIndex
      BY <1>4, <1>6, <1>7, <3>1
    <3>2. CASE ~(k < wrIndex - rdIndex)
      <4>1. buffer'[rdIndex' + k] = written + 1 + k - (wrIndex - rdIndex)
        BY <1>4, <1>7, <3>2
      <4> QED BY <1>5, <1>6, <1>7, <4>1
    <3> QED BY <3>1, <3>2
  <2> QED BY <1>5, <2>1, <2>2 DEF Stored
<1>9. SliceHeld'
  <2> SUFFICES ASSUME NEW t \in Threads, pc[t] = "write", NEW k \in 0 .. slice[t].len - 1
               PROVE  buffer'[slice[t].at + k] = out.upto + 1 + k
    BY <1>3 DEF SliceHeld
  <2>1. slice[t].len \in Nat /\ slice[t].at \in Nat
    BY DEF Types
  <2>2. slice[t].at + k \in slice[t].at .. slice[t].at + slice[t].len - 1
    BY <2>1
  <2>3. buffer'[slice[t].at + k] = buffer[slice[t].at + k]
    BY <2>2, PlayKeepsSlice
  <2> QED BY <2>3 DEF SliceHeld
<1>10. InOrder'
  BY <1>3 DEF InOrder
<1> QED BY <1>8, <1>9, <1>10

(* A sequence numbered from u + 1 on ends with the number u + n.           *)
LEMMA NumberedFrom ==
    ASSUME NEW u \in Nat, NEW n \in Nat, NEW last, NEW s,
           last = u + n, DOMAIN s = 1 .. n, Len(s) = n,
           \A i \in 1 .. n : s[i] = u + i
    PROVE  \A i \in DOMAIN s : s[i] = last - Len(s) + i
<1> SUFFICES ASSUME NEW i \in DOMAIN s PROVE s[i] = last - Len(s) + i
  OBVIOUS
<1>1. i \in 1 .. n /\ s[i] = u + i
  OBVIOUS
<1>2. u + i = (u + n) - n + i
  BY <1>1
<1> QED BY <1>1, <1>2

(* The device thread.                                                      *)
LEMMA ContentThread ==
    ASSUME Core, Content, NEW t \in Threads, Thread(t)
    PROVE  Content'
<1> USE DEF Core, Content, mainVars, threadVars
<1>0. /\ slice[t] \in [at : Nat, len : Nat] /\ out.upto \in Nat
      /\ rdIndex \in Nat /\ wrIndex \in Nat
  BY DEF Types
<1>1. Alive(t) /\ t = session /\ \A u \in Threads : u # t => ~Alive(u)
  BY DEF Thread, LoopTest, GrantStop, SendNothing, TakeSlice, SendSilence, SendSlice,
         Advance, Alone, Alive
<1>2. /\ written = Played + (wrIndex - rdIndex)
      /\ \A k \in 0 .. wrIndex - rdIndex - 1 : buffer[rdIndex + k] = Played + 1 + k
  BY <1>1 DEF Stored, Playing
<1>3. CASE LoopTest(t) \/ GrantStop(t) \/ SendNothing(t) \/ SendSilence(t)
  <2>1. /\ UNCHANGED <<rdIndex, wrIndex, buffer, session, written, slice, out>>
        /\ pc[t] # "advance" /\ \E p \in Places \ {"write", "advance"} : pc' = [pc EXCEPT ![t] = p]
    BY <1>3 DEF LoopTest, GrantStop, SendNothing, SendSilence, Places
  <2>2. Played' = Played
    BY <1>1, <2>1 DEF Played, Types
  <2>3. Stored'
    BY <1>2, <2>1, <2>2 DEF Stored
  <2>4. SliceHeld' /\ InOrder'
    BY <2>1 DEF SliceHeld, InOrder, Types
  <2> QED BY <2>3, <2>4
<1>4. CASE TakeSlice(t)
  <2>1. /\ UNCHANGED <<rdIndex, wrIndex, buffer, session, written, out>>
        /\ pc[t] = "take"
        /\ slice' = [slice EXCEPT ![t] = IF SliceLength = 0 THEN NoSlice
                                         ELSE [at |-> rdIndex, len |-> SliceLength]]
        /\ pc' = [pc EXCEPT ![t] = IF SliceLength = 0 THEN "silence" ELSE "write"]
    BY <1>4 DEF TakeSlice
  <2>2. Played = out.upto /\ Played' = Played
    BY <1>1, <2>1 DEF Played, Types
  <2>3. Stored'
    BY <1>2, <2>1, <2>2 DEF Stored
  <2>4. Avail = wrIndex - rdIndex
    BY DEF Avail, Room
  <2>5. SliceLength \in Nat /\ SliceLength <= wrIndex - rdIndex
    BY <1>0, <2>4, SizeAssumption DEF SliceLength, Room
  <2>6. SliceHeld'
    <3> SUFFICES ASSUME NEW u \in Threads, pc'[u] = "write",
                        NEW k \in 0 .. slice'[u].len - 1
                 PROVE  buffer[slice'[u].at + k] = out.upto + 1 + k
      BY <2>1 DEF SliceHeld
    <3>1. u = t
      BY <1>1, <2>1 DEF Types, Alive
    <3>2. slice'[u] = [at |-> rdIndex, len |-> SliceLength]
      BY <2>1, <3>1 DEF Types
    <3>3. k \in 0 .. wrIndex - rdIndex - 1
      BY <1>0, <2>5, <3>2
    <3> QED BY <1>2, <2>2, <3>2, <3>3
  <2>7. InOrder'
    BY <2>1 DEF InOrder
  <2> QED BY <2>3, <2>6, <2>7
<1>5. CASE SendSlice(t)
  <2> DEFINE at == slice[t].at
             len == slice[t].len
  <2>1. /\ UNCHANGED <<rdIndex, wrIndex, buffer, session, written, slice>>
        /\ pc[t] = "write" /\ pc' = [pc EXCEPT ![t] = "advance"]
        /\ out' = [upto |-> out.upto + len, samples |-> Slice(at, len)]
    BY <1>5 DEF SendSlice
  <2>2. at \in Nat /\ len \in Nat /\ at + len <= Size
    BY <1>0, <2>1 DEF SliceSafe
  <2>3. Played = out.upto /\ Played' = out.upto + len - len
    BY <1>1, <2>1 DEF Played, Types
  <2>4. Stored'
    <3>1. Played' = Played
      BY <1>0, <2>2, <2>3
    <3> QED BY <1>2, <2>1, <3>1 DEF Stored
  <2>5. SliceHeld'
    BY <1>1, <2>1 DEF SliceHeld, Types, Alive
  <2>6. InOrder'
    <3>1. Len(Slice(at, len)) = len /\ DOMAIN Slice(at, len) = 1 .. len
      BY <2>2 DEF Slice
    <3>2. ASSUME NEW i \in 1 .. len PROVE Slice(at, len)[i] = out.upto + i
      <4>1. at + i - 1 \in Cells
        BY <2>2, FillFacts DEF Cells
      <4>2. i - 1 \in 0 .. len - 1 /\ at + i - 1 = at + (i - 1)
        BY <2>2
      <4>3. buffer[at + (i - 1)] = out.upto + 1 + (i - 1)
        BY <2>1, <4>2 DEF SliceHeld
      <4>4. Slice(at, len)[i] = buffer[at + (i - 1)]
        BY <4>1, <4>2 DEF Slice, CellAt
      <4> QED BY <1>0, <2>2, <4>3, <4>4
    <3>3. out'.upto = out.upto + len /\ out'.samples = Slice(at, len)
      BY <2>1
    <3> HIDE DEF at, len
    <3>4. DOMAIN out'.samples = 1 .. len /\ Len(out'.samples) = len
      BY <3>1, <3>3
    <3>5. \A i \in 1 .. len : out'.samples[i] = out.upto + i
      BY <3>2, <3>3
    <3>6. \A i \in DOMAIN out'.samples :
              out'.samples[i] = out'.upto - Len(out'.samples) + i
      BY <1>0, <2>2, <3>3, <3>4, <3>5, NumberedFrom
    <3> QED BY <3>6 DEF InOrder
  <2> QED BY <2>4, <2>5, <2>6
<1>6. CASE Advance(t)
  <2> DEFINE len == slice[t].len
  <2>1. /\ UNCHANGED <<wrIndex, buffer, session, written, out>>
        /\ pc[t] = "advance" /\ pc' = [pc EXCEPT ![t] = "test"]
    BY <1>6 DEF Advance
  <2>2. len \in Nat /\ len <= wrIndex - rdIndex
    BY <1>0, <2>1 DEF SliceSafe
  <2>3. rdIndex' = rdIndex + len
    <3> DEFINE n == rdIndex + len
    <3>1. n \in 0 .. Size
      BY <1>0, <2>2, FillFacts DEF Room
    <3>2. rdIndex' = n % IndexModulus
      BY <1>6 DEF Advance
    <3> HIDE DEF n
    <3> QED BY <3>1, <3>2, IndexFacts DEF n
  <2>4. Played = out.upto - len /\ Played' = out.upto
    BY <1>1, <2>1 DEF Played, Types
  <2>5. Stored'
    <3> HIDE DEF len
    <3>1. written' = Played' + (wrIndex' - rdIndex')
      BY <1>0, <1>2, <2>1, <2>2, <2>3, <2>4
    <3>2. ASSUME NEW k \in 0 .. wrIndex' - rdIndex' - 1
          PROVE  buffer'[rdIndex' + k] = Played' + 1 + k
      <4>1. len + k \in 0 .. wrIndex - rdIndex - 1
        BY <1>0, <2>1, <2>2, <2>3
      <4>2. buffer[rdIndex + (len + k)] = Played + 1 + (len + k)
        BY <1>2, <4>1
      <4>3. rdIndex + (len + k) = rdIndex' + k
        BY <1>0, <2>1, <2>2, <2>3
      <4>4. Played + 1 + (len + k) = Played' + 1 + k
        BY <1>0, <2>2, <2>4
      <4> QED BY <2>1, <4>2, <4>3, <4>4
    <3> QED BY <3>1, <3>2 DEF Stored
  <2>6. SliceHeld'
    BY <1>1, <2>1 DEF SliceHeld, Types, Alive
  <2>7. InOrder'
    BY <2>1 DEF InOrder
  <2> QED BY <2>5, <2>6, <2>7
<1> QED BY <1>3, <1>4, <1>5, <1>6 DEF Thread

(* The sound server gets every sample once and in order.                   *)
THEOREM StreamOrder == Spec => []StreamInOrder
<1> DEFINE CInv == ~timedOut => Content
<1>1. Init => CInv
  BY InitContent
<1>2. ASSUME IInv, CInv, [Next]_vars PROVE CInv'
  <2> SUFFICES ASSUME ~timedOut' PROVE Content'
    OBVIOUS
  <2>1. Core /\ Content
    BY <1>2, TimedOutStays DEF IInv, vars, mainVars
  <2>2. CASE PlayInitialFill \/ audioPump
    BY <2>1, <2>2, ContentPlay
  <2>3. CASE \E t \in Threads : Thread(t)
    BY <2>1, <2>3, ContentThread
  <2>4. CASE InitBuffer \/ OpenDevice \/ OpenFails \/ cleanupAudio \/ RequestStop
                \/ StopGranted \/ localStop \/ FreeBuffer
    BY <2>1, <2>4, ContentMain
  <2>5. CASE StopTimesOut
    BY <2>5 DEF StopTimesOut
  <2>6. CASE UNCHANGED vars
    BY <2>1, <2>6 DEF vars, mainVars, threadVars, Content, Stored, SliceHeld, InOrder,
                      Playing, Played, Alive
  <2> QED BY <1>2, <2>2, <2>3, <2>4, <2>5, <2>6 DEF Next, Main, Stop
<1>3. CInv => StreamInOrder
  BY DEF Content, InOrder, StreamInOrder
<1> QED BY <1>1, <1>2, <1>3, CoreHolds, PTL DEF Spec

-----------------------------------------------------------------------------
(* What holds after a stop() has given up, too, when the thread that it    *)
(* left behind moves rdIndex of the next session.                          *)
Bounds ==
    /\ TypeOK
    /\ main = "open" \/ (main = "playing" /\ first) => wrIndex = 0

Unsent == CompactionDue => rdIndex <= wrIndex

LEMMA AvailNat == ASSUME TypeOK PROVE Avail \in Nat
<1>1. rdIndex \in 0 .. IndexModulus - 1 /\ wrIndex \in 0 .. Size /\ Size \in Nat /\ IndexModulus \in Nat
  BY SizeAssumption DEF TypeOK
<1> QED BY <1>1 DEF Avail

(* writeData() stays in the buffer if rdIndex is not past wrIndex when the *)
(* buffer is compacted.                                                    *)
LEMMA WriteInside ==
    ASSUME TypeOK, Unsent, NEW len \in Nat, writeData(len)
    PROVE  /\ rdIndex' \in 0 .. IndexModulus - 1 /\ wrIndex' \in 0 .. Size
           /\ buffer' \in [Cells -> Nat] /\ written' \in Nat /\ dropped' \in BOOLEAN
<1> DEFINE base  == IF CompactionDue THEN rdIndex ELSE 0
           moved == [i \in Cells |-> IF CompactionDue /\ i < wrIndex - rdIndex
                                     THEN buffer[i + rdIndex] ELSE buffer[i]]
           wr    == wrIndex - base
<1>1. /\ rdIndex \in 0 .. IndexModulus - 1 /\ wrIndex \in 0 .. Size /\ written \in Nat
      /\ buffer \in [Cells -> Nat] /\ dropped \in BOOLEAN
      /\ Size \in Nat /\ IndexModulus \in Nat
  BY SizeAssumption DEF TypeOK
<1>2. /\ rdIndex' = rdIndex - base /\ written' = written + len
      /\ \/ wr + len > Size /\ wrIndex' = wr /\ buffer' = moved /\ dropped' = TRUE
         \/ /\ ~(wr + len > Size) /\ wrIndex' = wr + len /\ dropped' = dropped
            /\ buffer' = [i \in Cells |-> IF i \in wr .. wr + len - 1
                                           THEN written + 1 + i - wr ELSE moved[i]]
  BY Zenon DEF writeData
<1>3. base \in Nat /\ rdIndex - base \in 0 .. IndexModulus - 1 /\ wr \in 0 .. Size
  BY <1>1 DEF Unsent
<1>4. moved \in [Cells -> Nat]
  <2>1. \A i \in Cells : i < wrIndex - rdIndex => i + rdIndex \in Cells
    BY <1>1 DEF Cells
  <2>2. \A i \in Cells : moved[i] \in Nat
    BY <1>1, <2>1
  <2> QED BY <2>2
<1> HIDE DEF base, moved, wr
<1>5. \A i \in wr .. wr + len - 1 : written + 1 + i - wr \in Nat
  BY <1>1, <1>3
<1>6. buffer' \in [Cells -> Nat]
  BY <1>2, <1>4, <1>5 DEF Cells
<1>7. wrIndex' \in 0 .. Size /\ written' \in Nat
  BY <1>1, <1>2, <1>3
<1> QED BY <1>1, <1>2, <1>3, <1>6, <1>7

(* The main thread finds that, although it asks for less: the first fill   *)
(* goes to the front, and audioPump() adds one only to little unplayed     *)
(* data, which an rdIndex past wrIndex makes look like much.               *)
LEMMA PlayUnsent ==
    ASSUME Bounds, PlayInitialFill \/ audioPump
    PROVE  Unsent
<1>1. /\ rdIndex \in 0 .. IndexModulus - 1 /\ wrIndex \in 0 .. Size
      /\ Size \in Nat /\ IndexModulus \in Nat /\ Chunk \in Nat
  BY SizeAssumption DEF Bounds, TypeOK
<1>2. CASE PlayInitialFill
  <2>1. wrIndex = 0
    BY <1>2 DEF PlayInitialFill, Bounds
  <2> QED BY <1>1, <2>1 DEF Unsent, CompactionDue
<1>3. CASE audioPump
  <2>1. Avail \in Nat
    BY AvailNat DEF Bounds
  <2>2. Avail + Chunk <= MaxFill
    BY <1>3, <2>1, PumpFill DEF audioPump
  <2>3. ASSUME rdIndex > wrIndex PROVE ~CompactionDue
    <3>1. Avail = wrIndex + IndexModulus - rdIndex
      BY <1>1, <2>3 DEF Avail
    <3>2. wrIndex <= MaxFill
      BY <1>1, <2>1, <2>2, <3>1, FillFacts
    <3> QED BY <1>1, <3>2, FillFacts DEF CompactionDue
  <2> QED BY <1>1, <2>3 DEF Unsent
<1> QED BY <1>2, <1>3

LEMMA BoundsBegin == Init => Bounds
<1>1. IndexModulus \in Nat /\ IndexModulus > 0 /\ Ten \in Nat /\ MaxSessions \in Nat /\ Size \in Nat
  BY SizeAssumption
<1> SUFFICES ASSUME Init PROVE Bounds
  OBVIOUS
<1>2. rdIndex \in 0 .. IndexModulus - 1 /\ wrIndex \in 0 .. Size /\ session \in 0 .. MaxSessions
  BY <1>1 DEF Init
<1>3. NoSlice \in [at : Nat, len : 0 .. Ten]
  BY <1>1 DEF NoSlice
<1>4. slice \in [Threads -> [at : Nat, len : 0 .. Ten]]
  BY <1>3 DEF Init
<1>5. /\ pc \in [Threads -> {"none", "test", "take", "silence", "write", "advance", "grant", "done"}]
      /\ buffer \in [Cells -> Nat] /\ out.upto \in Nat
  BY DEF Init
<1> QED BY <1>2, <1>4, <1>5 DEF Init, Bounds, TypeOK, States

LEMMA BoundsPlay ==
    ASSUME Bounds, PlayInitialFill \/ audioPump
    PROVE  Bounds'
<1>1. PICK len \in Nat : writeData(len)
  <2>1. InitialFill \in Nat /\ Chunk \in Nat
    BY SizeAssumption
  <2> QED BY <2>1 DEF PlayInitialFill, audioPump
<1>2. /\ rdIndex' \in 0 .. IndexModulus - 1 /\ wrIndex' \in 0 .. Size
      /\ buffer' \in [Cells -> Nat] /\ written' \in Nat /\ dropped' \in BOOLEAN
  BY <1>1, PlayUnsent, WriteInside DEF Bounds
<1>3. /\ UNCHANGED <<stopRequest, opened, main, session, timedOut, pc, slice, out>>
      /\ main = "playing" /\ first' = FALSE
  BY DEF PlayInitialFill, audioPump, threadVars, Bounds, TypeOK
<1>4. TypeOK'
  BY <1>2, <1>3 DEF Bounds, TypeOK
<1> QED BY <1>3, <1>4 DEF Bounds

LEMMA BoundsMain ==
    ASSUME Bounds,
           InitBuffer \/ OpenDevice \/ OpenFails \/ cleanupAudio \/ RequestStop
               \/ StopGranted \/ StopTimesOut \/ localStop \/ FreeBuffer
    PROVE  Bounds'
<1> USE DEF Bounds, TypeOK, States, threadVars
<1>1. CASE InitBuffer
  <2>1. IndexModulus \in Nat /\ IndexModulus > 0 /\ Size \in Nat /\ MaxSessions \in Nat
    BY SizeAssumption
  <2> QED BY <1>1, <2>1 DEF InitBuffer
<1>2. CASE OpenDevice
  BY <1>2 DEF OpenDevice
<1>3. CASE OpenFails
  BY <1>3 DEF OpenFails
<1>4. CASE cleanupAudio
  BY <1>4 DEF cleanupAudio
<1>5. CASE RequestStop
  BY <1>5 DEF RequestStop
<1>6. CASE StopGranted \/ StopTimesOut
  BY <1>6 DEF StopGranted, StopTimesOut
<1>7. CASE localStop
  BY <1>7 DEF localStop
<1>8. CASE FreeBuffer
  BY <1>8 DEF FreeBuffer
<1> QED BY <1>1, <1>2, <1>3, <1>4, <1>5, <1>6, <1>7, <1>8

LEMMA BoundsThread ==
    ASSUME Bounds, NEW t \in Threads, Thread(t)
    PROVE  Bounds'
<1> USE DEF Bounds, TypeOK, mainVars
<1>1. CASE LoopTest(t) \/ SendNothing(t) \/ SendSilence(t)
  BY <1>1 DEF LoopTest, SendNothing, SendSilence
<1>2. CASE GrantStop(t)
  BY <1>2 DEF GrantStop, States
<1>3. CASE TakeSlice(t)
  <2>1. SliceLength \in 0 .. Ten
    <3>1. Avail \in Nat /\ Ten \in Nat
      BY AvailNat, SizeAssumption
    <3> QED BY <3>1 DEF SliceLength
  <2>2. rdIndex \in Nat /\ 0 \in 0 .. Ten
    BY SizeAssumption
  <2> QED BY <1>3, <2>1, <2>2 DEF TakeSlice, NoSlice
<1>4. CASE SendSlice(t)
  <2>1. slice[t].len \in Nat
    BY SizeAssumption
  <2>2. out'.upto \in Nat
    BY <1>4, <2>1 DEF SendSlice
  <2> QED BY <1>4, <2>2 DEF SendSlice
<1>5. CASE Advance(t)
  <2>1. slice[t].len \in Nat /\ 0 \in 0 .. Ten
    BY SizeAssumption
  <2>2. rdIndex' \in 0 .. IndexModulus - 1
    BY <1>5, <2>1, IndexFacts DEF Advance
  <2> QED BY <1>5, <2>1, <2>2 DEF Advance, NoSlice
<1> QED BY <1>1, <1>2, <1>3, <1>4, <1>5 DEF Thread

LEMMA BoundsStep == Bounds /\ [Next]_vars => Bounds'
<1> SUFFICES ASSUME Bounds, [Next]_vars PROVE Bounds'
  OBVIOUS
<1>1. CASE PlayInitialFill \/ audioPump
  BY <1>1, BoundsPlay
<1>2. CASE \E t \in Threads : Thread(t)
  BY <1>2, BoundsThread
<1>3. CASE InitBuffer \/ OpenDevice \/ OpenFails \/ cleanupAudio \/ RequestStop
             \/ StopGranted \/ StopTimesOut \/ localStop \/ FreeBuffer
  BY <1>3, BoundsMain
<1>4. CASE UNCHANGED vars
  BY <1>4 DEF Bounds, TypeOK, vars, mainVars, threadVars
<1> QED BY <1>1, <1>2, <1>3, <1>4 DEF Next, Main, Stop

(* The indices stay in the buffer and in their type, whatever threads are  *)
(* left behind by a stop() that gave up.  (writeData, sendData, stop)      *)
THEOREM IndicesInside == Spec => []TypeOK
<1>1. Bounds => TypeOK
  BY DEF Bounds
<1> QED BY <1>1, BoundsBegin, BoundsStep, PTL DEF Spec

(* The memmove() of writeData() never gets a length below zero, which for  *)
(* an uint32_t would be one of four billion.                               *)
CopiesInside == [][PlayInitialFill \/ audioPump => Unsent]_vars

(* Not even when a thread that outlived its stop() has moved rdIndex past  *)
(* the wrIndex of the session that runs now.                               *)
THEOREM MovesInside == Spec => CopiesInside
<1>1. Bounds => (PlayInitialFill \/ audioPump => Unsent)
  BY PlayUnsent
<1>2. Spec => []Bounds
  BY BoundsBegin, BoundsStep, PTL DEF Spec
<1> QED BY <1>1, <1>2, PTL DEF CopiesInside
=============================================================================
