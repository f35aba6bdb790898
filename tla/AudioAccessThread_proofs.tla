----------------------- MODULE AudioAccessThread_proofs -----------------------
(***************************************************************************)
(* Proofs about AudioAccessThread, for every number of buffers and packets *)
(* and every length of the wait in stopThread().                           *)
(*                                                                         *)
(* The queue gives up two things that VideoFilterQueue has: the buffer is  *)
(* copied with the mutex released, and the last append to freeList takes   *)
(* no mutex at all.  So the invariant speaks of what main and the worker   *)
(* hold between their critical sections, and of what the worker may have   *)
(* read of freeList before main appended to it.                            *)
(***************************************************************************)
EXTENDS AudioAccessThread, BasicFacts

USE DEF ownerVars, workerVars

-----------------------------------------------------------------------------
(* The worker holds a buffer from TakeBuffer to the action that queues it  *)
(* or gives it back, main a packet from PopPacket to GiveBack.             *)
HandHeld ==
    /\ worker \in {"source", "push", "putBack", "store"} <=> hand # NoBuffer
    /\ worker = "push" => pos \in 1 .. NumItems /\ chunk[hand] = pos
    /\ main \in {"copy", "giveBack"} <=> taken # NoPacket

(* The owner is inside the destructor and stopThread() has had its say.    *)
PastStop == {"poll", "emptyLists", "killSon", "baseDtor", "join", "gone"}

(* How threadState, started and the two threads go together.               *)
ThreadLife ==
    /\ ~started /\ main # "starting" => worker = "none"
    /\ worker = "begin" => main = "starting"
    /\ worker \in {"none", "begin"} <=> threadState = "Idle"
    /\ threadState = "Stopped" => worker = "exited"
    /\ worker = "exited" => threadState \in {"Stopped", "StopOrder"}
    /\ threadState = "StopOrder" => main \in PastStop
    /\ main \in PastStop => worker \in {"none", "exited"} \/ threadState = "StopOrder"
    /\ main = "stopSet" => threadState # "Idle"
    /\ main = "gone" => worker \in {"none", "exited"}

(* Past the wait in stopThread() the thread is over, unless the clock has  *)
(* run down.                                                               *)
TimedOut ==
    /\ main \in PastStop \ {"poll"} /\ worker \notin {"none", "exited"} => started /\ clock = 0
    /\ ~sonAlive => main \in {"baseDtor", "join", "gone"}

(* The part of TypeOK that the base class owns.                            *)
QueueTypeOK ==
    /\ main \in MainPlace
    /\ worker \in WorkerPlace
    /\ threadState \in RunStates
    /\ started \in BOOLEAN
    /\ clock \in 0 .. ClockDown
    /\ sonAlive \in BOOLEAN

Life == QueueTypeOK /\ ThreadLife /\ TimedOut

LEMMA LifeStep == Life /\ [Next]_vars => Life'
<1> USE ClockDownAssumption
    DEF Life, QueueTypeOK, ThreadLife, TimedOut, PastStop, MainPlace, WorkerPlace, MainPlaces,
        WorkerPlaces, RunStates
<1> SUFFICES ASSUME Life, [Next]_vars PROVE Life'
  OBVIOUS
<1>1. CASE (RunEnter \/ RunExit) /\ UNCHANGED clientVars
  BY <1>1 DEF RunEnter, RunExit, clientVars
<1>2. CASE (CheckStop \/ WaitReturns) /\ UNCHANGED clientVars
  BY <1>2 DEF CheckStop, WaitReturns, clientVars
<1>3. CASE WaitForBuffer \/ TakeBuffer
  BY <1>3 DEF WaitForBuffer, TakeBuffer, clientVars
<1>4. CASE SourcePacket \/ SourceEnd \/ PushPacket \/ PutBackLoad \/ PutBackStore
  BY <1>4 DEF SourcePacket, SourceEnd, PushPacket, PutBackLoad, PutBackStore, clientVars
<1>5. CASE (StartDone \/ StopTest("emptyLists")) /\ UNCHANGED clientVars
  BY <1>5 DEF StartDone, StopTest, clientVars
<1>6. CASE StopSet /\ UNCHANGED clientVars
  BY <1>6 DEF StopSet, Signalled, IsWaiting, clientVars
<1>7. CASE (StopPoll \/ StopReturns("emptyLists")) /\ UNCHANGED clientVars
  BY <1>7 DEF StopPoll, StopReturns, clientVars
<1>8. CASE (BaseDtor \/ Join) /\ UNCHANGED clientVars
  BY <1>8 DEF BaseDtor, Join, Signalled, IsWaiting, clientVars
<1>9. CASE GiveBack
  BY <1>9 DEF GiveBack, Signalled, IsWaiting
<1>10. CASE PopPacket \/ CopyPacket \/ NoMoreData
  BY <1>10 DEF PopPacket, CopyPacket, NoMoreData
<1>11. CASE EmptyLists \/ KillSon
  BY <1>11 DEF EmptyLists, KillSon
<1>12. CASE (SpuriousWakeup \/ CallGet \/ BeginDestroy) /\ UNCHANGED clientVars
  BY <1>12 DEF SpuriousWakeup, CallGet, BeginDestroy, clientVars
<1>13. CASE UNCHANGED vars
  BY <1>13 DEF vars, queueVars, clientVars
<1> QED
  BY <1>1, <1>2, <1>3, <1>4, <1>5, <1>6, <1>7, <1>8, <1>9, <1>10, <1>11, <1>12, <1>13
     DEF Next, WorkerStep, MainStep, WorkerBaseStep, MainBaseStep

(* The part of TypeOK that the derived class owns.                         *)
ClientTypeOK ==
    /\ list \in Seq(Packet)
    /\ freeList \in Seq(Buffers)
    /\ hand \in Buffers \cup {NoBuffer}
    /\ taken \in Packet \cup {NoPacket}
    /\ chunk \in [Buffers -> 1 .. Torn]
    /\ pos \in 0 .. NumItems
    /\ out \in [dts : 0 .. NumItems, data : 0 .. Torn]
    /\ ended \in BOOLEAN
    /\ loaded \in Seq(Buffers)

LEMMA PacketParts ==
    /\ NoPacket.buf = 0
    /\ \A p \in Packet : p.buf \in Buffers /\ p.buf # 0 /\ p.dts \in 1 .. NumItems
BY DEF NoPacket, NoBuffer, Packet, Buffers

(* What a slot holds is written, and read, within bounds.                  *)
LEMMA SlotWritten == \A f \in [Buffers -> 1 .. Torn], b \in Buffers :
    /\ [f EXCEPT ![b] = Torn] \in [Buffers -> 1 .. Torn]
    /\ f[b] \in 0 .. Torn
<1>1. Torn \in Nat /\ Torn \in 1 .. Torn
  BY NumItemsAssumption DEF Torn
<1>2. \A v \in 1 .. Torn : v \in 0 .. Torn
  BY <1>1
<1> HIDE DEF Buffers, Torn
<1> QED
  BY <1>1, <1>2

LEMMA ClientTypeStep ==
    ClientTypeOK /\ HandHeld /\ ThreadLife /\ [Next]_vars => ClientTypeOK' /\ HandHeld'
<1> USE NumBuffersAssumption, NumItemsAssumption
    DEF Buffers, NoBuffer, Torn
<1> SUFFICES ASSUME ClientTypeOK, HandHeld, ThreadLife, [Next]_vars
             PROVE  ClientTypeOK' /\ HandHeld'
  OBVIOUS
<1> USE DEF ClientTypeOK, HandHeld
<1>1. CASE WorkerBaseStep /\ UNCHANGED clientVars
  BY <1>1 DEF WorkerBaseStep, RunEnter, RunExit, CheckStop, WaitReturns, clientVars
<1>2. CASE WaitForBuffer
  BY <1>2 DEF WaitForBuffer, clientVars
<1>3. CASE TakeBuffer
  <2>1. Head(freeList) \in Buffers /\ Tail(freeList) \in Seq(Buffers)
    BY <1>3, Popped DEF TakeBuffer
  <2>2. [chunk EXCEPT ![Head(freeList)] = Torn] \in [Buffers -> 1 .. Torn]
    BY <2>1, SlotWritten, Zenon
  <2>3. /\ hand' \in Buffers /\ hand' # NoBuffer /\ freeList' \in Seq(Buffers)
        /\ chunk' \in [Buffers -> 1 .. Torn]
    <3>1. /\ hand' = Head(freeList) /\ freeList' = Tail(freeList)
          /\ chunk' = [chunk EXCEPT ![Head(freeList)] = Torn]
      BY <1>3, Zenon DEF TakeBuffer
    <3>2. Head(freeList) # NoBuffer
      BY <2>1
    <3> QED
      BY <2>1, <2>2, <3>1, <3>2, Zenon
  <2>4. worker' = "source" /\ UNCHANGED <<main, list, taken, pos, out, ended, loaded>>
    BY <1>3 DEF TakeBuffer
  <2> QED
    BY <2>3, <2>4
<1>4. CASE SourcePacket
  BY <1>4 DEF SourcePacket
<1>5. CASE SourceEnd
  BY <1>5 DEF SourceEnd, clientVars
<1>6. CASE PushPacket
  <2>1. [buf |-> hand, dts |-> pos] \in Packet
    BY <1>6 DEF PushPacket, Packet
  <2>2. list' \in Seq(Packet)
    BY <1>6, <2>1, OneAppended DEF PushPacket
  <2> QED
    BY <1>6, <2>2 DEF PushPacket
<1>7. CASE PutBackLoad
  BY <1>7 DEF PutBackLoad
<1>8. CASE PutBackStore
  <2>1. hand \in Buffers
    BY <1>8 DEF PutBackStore
  <2>2. Append(freeList, hand) \in Seq(Buffers) /\ Append(loaded, hand) \in Seq(Buffers)
    BY <2>1, OneAppended
  <2>3. freeList' \in Seq(Buffers)
    BY <1>8, <2>2 DEF PutBackStore
  <2>4. loaded' \in Seq(Buffers)
    BY <1>8, EmptySeq DEF PutBackStore
  <2> QED
    BY <1>8, <2>3, <2>4 DEF PutBackStore
<1>9. CASE MainBaseStep("emptyLists") /\ UNCHANGED clientVars
  BY <1>9 DEF MainBaseStep, StartDone, StopTest, StopSet, StopPoll, StopReturns,
              BaseDtor, Join, Signalled, IsWaiting, clientVars
<1>10. CASE PopPacket
  <2>1. Head(list) \in Packet /\ Tail(list) \in Seq(Packet)
    BY <1>10, Popped DEF PopPacket
  <2>2. Head(list) # NoPacket
    BY <2>1, PacketParts
  <2> QED
    BY <1>10, <2>1, <2>2 DEF PopPacket
<1>11. CASE CopyPacket
  <2>1. taken \in Packet
    BY <1>11 DEF CopyPacket
  <2>2. taken.dts \in 0 .. NumItems /\ chunk[taken.buf] \in 0 .. Torn
    <3>1. taken.buf \in Buffers /\ taken.dts \in 1 .. NumItems
      BY <2>1, PacketParts, Zenon
    <3>2. chunk[taken.buf] \in 0 .. Torn
      BY <3>1, SlotWritten, Zenon
    <3>3. taken.dts \in 0 .. NumItems
      BY <3>1
    <3> QED
      BY <3>2, <3>3
  <2>3. out' = [dts |-> taken.dts, data |-> chunk[taken.buf]]
    BY <1>11 DEF CopyPacket
  <2>4. out' \in [dts : 0 .. NumItems, data : 0 .. Torn]
    BY <2>2, <2>3
  <2> QED
    BY <1>11, <2>4 DEF CopyPacket
<1>12. CASE GiveBack
  <2>1. taken \in Packet
    BY <1>12 DEF GiveBack
  <2>2. freeList' \in Seq(Buffers)
    BY <1>12, <2>1, PacketParts, OneAppended DEF GiveBack
  <2>3. /\ worker' \in {"source", "push", "putBack", "store"}
               <=> worker \in {"source", "push", "putBack", "store"}
        /\ worker' = "push" <=> worker = "push"
    BY <1>12 DEF GiveBack, Signalled, IsWaiting
  <2> QED
    BY <1>12, <2>2, <2>3 DEF GiveBack
<1>13. CASE NoMoreData \/ KillSon
  BY <1>13 DEF NoMoreData, KillSon
<1>14. CASE EmptyLists
  BY <1>14, EmptySeq DEF EmptyLists
<1>15. CASE (SpuriousWakeup \/ CallGet \/ BeginDestroy) /\ UNCHANGED clientVars
  BY <1>15 DEF SpuriousWakeup, CallGet, BeginDestroy, ThreadLife, clientVars
<1>16. CASE UNCHANGED vars
  BY <1>16 DEF vars, queueVars, clientVars
<1> QED
  BY <1>1, <1>2, <1>3, <1>4, <1>5, <1>6, <1>7, <1>8, <1>9, <1>10, <1>11, <1>12,
     <1>13, <1>14, <1>15, <1>16 DEF Next, WorkerStep, MainStep

Typed == TypeOK /\ HandHeld /\ Life

LEMMA TypeParts == TypeOK <=> QueueTypeOK /\ ClientTypeOK
BY DEF TypeOK, QueueTypeOK, ClientTypeOK

LEMMA TypeStep == Typed /\ [Next]_vars => Typed'
<1>1. TypeOK' <=> QueueTypeOK' /\ ClientTypeOK'
  BY DEF TypeOK, QueueTypeOK, ClientTypeOK
<1> QED
  BY <1>1, TypeParts, LifeStep, ClientTypeStep DEF Typed, Life

LEMMA InitType == Init => Typed
<1> USE NumBuffersAssumption, NumItemsAssumption, ClockDownAssumption
<1> SUFFICES ASSUME Init PROVE TypeOK /\ HandHeld /\ Life
  BY DEF Typed
<1>1. freeList \in Seq(Buffers)
  BY IsASeq DEF Init, Buffers
<1>2. list \in Seq(Packet) /\ loaded \in Seq(Buffers)
  BY EmptySeq DEF Init
<1>3. chunk \in [Buffers -> 1 .. Torn] /\ pos \in 0 .. NumItems
  BY DEF Init, Torn
<1>4. out \in [dts : 0 .. NumItems, data : 0 .. Torn]
  BY DEF Init, Torn
<1>5. QueueTypeOK /\ ThreadLife /\ TimedOut
  <2>1. clock \in 0 .. ClockDown
    BY DEF Init, QueueInit
  <2>2. main = "idle" /\ worker = "none" /\ threadState = "Idle" /\ started = FALSE /\ sonAlive = TRUE
    BY DEF Init, QueueInit
  <2>3. QueueTypeOK
    BY <2>1, <2>2 DEF QueueTypeOK, MainPlace, WorkerPlace, MainPlaces, WorkerPlaces, RunStates
  <2>4. ThreadLife /\ TimedOut
    BY <2>2 DEF ThreadLife, TimedOut, PastStop
  <2> QED
    BY <2>3, <2>4
<1>6. hand = NoBuffer /\ taken = NoPacket /\ ended = FALSE /\ main = "idle" /\ worker = "none"
  BY DEF Init, QueueInit
<1>7. ClientTypeOK
  BY <1>1, <1>2, <1>3, <1>4, <1>6 DEF ClientTypeOK
<1>8. HandHeld
  BY <1>6 DEF HandHeld
<1> QED
  BY <1>5, <1>7, <1>8, TypeParts DEF Life

LEMMA TypeInvariant == Spec => []Typed
BY InitType, TypeStep, PTL DEF Spec

(* Every variable of the queue keeps its type.                             *)
THEOREM TypeCorrect == Spec => []TypeOK
<1>1. Typed => TypeOK
  BY DEF Typed
<1> QED
  BY <1>1, TypeInvariant, PTL

(* The son is deleted under a worker that still uses it only when the wait *)
(* of stopThread() has run out.                                            *)
THEOREM SonKilledEarly == Spec => []SonKilledEarlyOnlyAfterTimeout
<1>1. Typed => SonKilledEarlyOnlyAfterTimeout
  BY DEF Typed, Life, TimedOut, PastStop, SonKilledEarlyOnlyAfterTimeout
<1> QED
  BY <1>1, TypeInvariant, PTL

-----------------------------------------------------------------------------
(* The steps that move no packet and no buffer.                            *)
Data == <<list, freeList, hand, taken, chunk, pos, out, loaded>>

Quiet ==
    /\ UNCHANGED Data
    /\ Intact' = Intact
    /\ Filling' => Filling
    /\ main' = "copy" <=> main = "copy"
    /\ worker' = "push" <=> worker = "push"
    /\ worker' = "store" <=> worker = "store"
    /\ worker' = "source" => worker = "source"

LEMMA QuietSteps ==
    ASSUME Life, [Next]_vars
    PROVE  \/ TakeBuffer \/ SourcePacket \/ PushPacket \/ PutBackLoad \/ PutBackStore
           \/ PopPacket \/ CopyPacket \/ GiveBack \/ EmptyLists \/ Quiet
<1> USE DEF Quiet, Data, Intact, Filling
<1>1. CASE WorkerBaseStep /\ UNCHANGED clientVars
  BY <1>1 DEF WorkerBaseStep, RunEnter, RunExit, CheckStop, WaitReturns, clientVars
<1>2. CASE WaitForBuffer \/ SourceEnd
  BY <1>2 DEF WaitForBuffer, SourceEnd, clientVars
<1>3. CASE MainBaseStep("emptyLists") /\ UNCHANGED clientVars
  <2>1. CASE StartDone \/ StopTest("emptyLists") \/ StopPoll \/ StopReturns("emptyLists") \/ Join
    BY <1>3, <2>1 DEF StartDone, StopTest, StopPoll, StopReturns, Join, clientVars
  <2>2. CASE StopSet \/ BaseDtor
    BY <1>3, <2>2 DEF StopSet, BaseDtor, Signalled, IsWaiting, clientVars
  <2> QED
    BY <1>3, <2>1, <2>2 DEF MainBaseStep
<1>4. CASE NoMoreData \/ KillSon
  BY <1>4 DEF NoMoreData, KillSon
<1>5. CASE (SpuriousWakeup \/ BeginDestroy) /\ UNCHANGED clientVars
  BY <1>5 DEF SpuriousWakeup, BeginDestroy, clientVars
<1>6. CASE CallGet /\ UNCHANGED clientVars
  BY <1>6 DEF CallGet, Life, ThreadLife, clientVars
<1>7. CASE UNCHANGED vars
  BY <1>7 DEF vars, queueVars, clientVars
<1> QED
  BY <1>1, <1>2, <1>3, <1>4, <1>5, <1>6, <1>7 DEF Next, WorkerStep, MainStep

-----------------------------------------------------------------------------
(* The elements of the lists, and what is in the two hands.                *)
LEMMA ListElements ==
    ASSUME Typed
    PROVE  /\ Len(freeList) \in Nat /\ DOMAIN freeList = 1 .. Len(freeList)
           /\ Len(list) \in Nat /\ DOMAIN list = 1 .. Len(list)
           /\ Len(loaded) \in Nat /\ DOMAIN loaded = 1 .. Len(loaded)
           /\ \A i \in 1 .. Len(freeList) : freeList[i] \in Buffers /\ freeList[i] # 0
           /\ \A i \in 1 .. Len(list) : list[i] \in Packet /\ list[i].buf \in Buffers /\ list[i].buf # 0
<1>1. freeList \in Seq(Buffers) /\ list \in Seq(Packet) /\ loaded \in Seq(Buffers)
  BY DEF Typed, TypeOK
<1>2. \A i \in 1 .. Len(list) : list[i] \in Packet
  BY <1>1, ElementOfSeq
<1>3. \A i \in 1 .. Len(freeList) : freeList[i] \in Buffers
  BY <1>1, ElementOfSeq
<1>4. \A b \in Buffers : b # 0
  BY DEF Buffers
<1>5. \A p \in Packet : p.buf \in Buffers
  BY DEF Packet
<1> QED
  BY <1>1, <1>2, <1>3, <1>4, <1>5, LenProperties

LEMMA HandParts ==
    ASSUME Typed
    PROVE  /\ hand = 0 <=> worker \notin {"source", "push", "putBack", "store"}
           /\ hand # 0 => hand \in Buffers
           /\ taken = NoPacket <=> main \notin {"copy", "giveBack"}
           /\ taken = NoPacket => taken.buf = 0
           /\ taken # NoPacket => taken \in Packet /\ taken.buf \in Buffers /\ taken.buf # 0
<1>1. NoPacket.buf = 0
  BY PacketParts
<1>2. \A p \in Packet : p.buf \in Buffers /\ p.buf # 0
  BY PacketParts
<1>3. (hand \in Buffers \/ hand = 0) /\ (taken \in Packet \/ taken = NoPacket)
  BY DEF Typed, TypeOK, NoBuffer
<1>4. /\ worker \in {"source", "push", "putBack", "store"} <=> hand # 0
      /\ main \in {"copy", "giveBack"} <=> taken # NoPacket
  BY DEF Typed, HandHeld, NoBuffer
<1> QED
  BY <1>1, <1>2, <1>3, <1>4

-----------------------------------------------------------------------------
(* BuffersConserved in two parts.  LoadedFits is what it needs: while the  *)
(* worker is between the load and the store of its append, freeList is     *)
(* what it has loaded with, at most, more behind it.  Emptied: a worker    *)
(* that fills finds nothing on the list that the destructor has cleared.   *)
Apart ==
    /\ \A i, j \in DOMAIN freeList : freeList[i] = freeList[j] => i = j
    /\ \A i, j \in DOMAIN list : list[i].buf = list[j].buf => i = j
    /\ \A i \in DOMAIN freeList, j \in DOMAIN list : freeList[i] # list[j].buf
    /\ \A i \in DOMAIN freeList : freeList[i] # hand /\ freeList[i] # taken.buf
    /\ \A j \in DOMAIN list : list[j].buf # hand /\ list[j].buf # taken.buf
    /\ taken # NoPacket => taken.buf # hand

Counted == Len(freeList) + Len(list) + HandCount = NumBuffers

LoadedFits ==
    worker = "store" =>
        /\ Len(loaded) <= Len(freeList)
        /\ \A i \in DOMAIN loaded : loaded[i] = freeList[i]

Emptied == ~Intact /\ Filling => freeList = <<>>

Conserved ==
    /\ Intact => Apart /\ LoadedFits
    /\ Intact /\ Filling => Counted
    /\ Emptied

LEMMA ConservedMeans == (Intact => Apart) /\ (Intact /\ Filling => Counted) <=> BuffersConserved
BY DEF Apart, Counted, BuffersConserved

LEMMA InitConserved == Init => Conserved
<1> SUFFICES ASSUME Init PROVE Conserved
  OBVIOUS
<1>1. Len(freeList) = NumBuffers /\ DOMAIN freeList = 1 .. NumBuffers
  BY NumBuffersAssumption, LenProperties, IsASeq DEF Init, Buffers
<1>2. Len(list) = 0 /\ DOMAIN list = {}
  BY EmptySeq DEF Init
<1>3. \A i \in DOMAIN freeList : freeList[i] = i /\ i # 0
  BY <1>1 DEF Init, Buffers
<1>4. hand = 0 /\ taken = NoPacket /\ taken.buf = 0 /\ Intact /\ worker # "store"
  BY DEF Init, QueueInit, NoBuffer, NoPacket, Intact
<1>5. Apart
  BY <1>2, <1>3, <1>4 DEF Apart
<1>6. HandCount = 0
  BY <1>4 DEF HandCount, NoBuffer
<1>7. Counted
  BY <1>1, <1>2, <1>6, NumBuffersAssumption DEF Counted
<1> QED
  BY <1>4, <1>5, <1>7 DEF Conserved, LoadedFits, Emptied

(* The free list with its last elements lost and one buffer put back: what *)
(* an append may leave, whether or not another one gets between.           *)
LEMMA PutBackApart ==
    ASSUME Typed, Apart, NEW k \in 0 .. Len(freeList), NEW b \in Buffers,
           freeList' \in Seq(Buffers), Len(freeList') = k + 1, list' = list,
           \A i \in 1 .. k : freeList'[i] = freeList[i],
           freeList'[k + 1] = b, b \in {hand, taken.buf},
           \/ b = hand /\ hand' = 0 /\ taken' = taken
           \/ b = taken.buf /\ hand' = hand /\ taken' = NoPacket /\ taken # NoPacket
    PROVE  Apart'
<1>1. DOMAIN freeList' = 1 .. (k + 1) /\ DOMAIN freeList = 1 .. Len(freeList) /\ k \in Nat
      /\ Len(freeList) \in Nat /\ DOMAIN list' = DOMAIN list
  BY LenProperties, ListElements
<1>2. \A i \in DOMAIN freeList' : i = k + 1 \/ (i \in 1 .. k /\ i \in DOMAIN freeList)
  BY <1>1
<1>3. \A i \in DOMAIN freeList : freeList[i] # b /\ freeList[i] # 0
  BY ListElements DEF Apart
<1>4. \A j \in DOMAIN list : list[j].buf # b /\ list[j].buf # 0
  BY ListElements DEF Apart
<1>5. b # 0 /\ NoPacket.buf = 0
  BY DEF Buffers, NoPacket, NoBuffer
<1>6. \A i \in DOMAIN freeList' : freeList'[i] = b \/ (i \in DOMAIN freeList /\ freeList'[i] = freeList[i])
  BY <1>2
<1>7. \A i, j \in DOMAIN freeList' : freeList'[i] = freeList'[j] => i = j
  BY <1>2, <1>3 DEF Apart
<1>8. \A i, j \in DOMAIN list' : list'[i].buf = list'[j].buf => i = j
  BY DEF Apart
<1>9. \A i \in DOMAIN freeList', j \in DOMAIN list' : freeList'[i] # list'[j].buf
  BY <1>1, <1>4, <1>6 DEF Apart
<1>10. /\ hand' = 0 \/ (hand' = hand /\ b # hand)
       /\ taken'.buf = 0 \/ (taken'.buf = taken.buf /\ b # taken.buf)
       /\ taken' # NoPacket => taken'.buf # hand'
  <2>1. CASE b = hand /\ hand' = 0 /\ taken' = taken
    <3>1. taken # NoPacket => taken.buf # b /\ taken.buf # 0
      BY <2>1, HandParts DEF Apart
    <3>2. taken = NoPacket => taken.buf = 0
      BY HandParts
    <3>3. taken.buf # b
      BY <1>5, <3>1, <3>2
    <3>4. taken'.buf = taken.buf /\ (taken' # NoPacket => taken # NoPacket)
      BY <2>1
    <3> QED
      BY <2>1, <3>1, <3>3, <3>4
  <2>2. CASE b = taken.buf /\ hand' = hand /\ taken' = NoPacket /\ taken # NoPacket
    <3>1. b # hand
      BY <2>2 DEF Apart
    <3>2. taken'.buf = 0
      BY <1>5, <2>2
    <3> QED
      BY <1>5, <2>2, <3>1, <3>2
  <2> QED
    BY <2>1, <2>2
<1>11. \A i \in DOMAIN freeList' : freeList'[i] # hand' /\ freeList'[i] # taken'.buf
  BY <1>3, <1>5, <1>6, <1>10 DEF Apart
<1>12. \A j \in DOMAIN list' : list'[j].buf # hand' /\ list'[j].buf # taken'.buf
  BY <1>1, <1>4, <1>10 DEF Apart
<1> QED
  BY <1>7, <1>8, <1>9, <1>10, <1>11, <1>12 DEF Apart

LEMMA ConservedStep == ASSUME Typed, Conserved, [Next]_vars PROVE Conserved'
<1>0. /\ Len(freeList) \in Nat /\ DOMAIN freeList = 1 .. Len(freeList)
      /\ Len(list) \in Nat /\ DOMAIN list = 1 .. Len(list)
      /\ Len(loaded) \in Nat /\ DOMAIN loaded = 1 .. Len(loaded)
      /\ \A i \in 1 .. Len(freeList) : freeList[i] \in Buffers /\ freeList[i] # 0
      /\ \A i \in 1 .. Len(list) : list[i] \in Packet /\ list[i].buf \in Buffers /\ list[i].buf # 0
  BY ListElements
<1>00. Len(freeList) \in Nat /\ Len(list) \in Nat /\ NumBuffers \in Nat
  BY <1>0, NumBuffersAssumption
<1>1. CASE TakeBuffer
  <2>0. freeList \in Seq(Buffers) /\ freeList # <<>> /\ worker = "take" /\ Filling
    BY <1>1 DEF TakeBuffer, Typed, TypeOK, Filling
  <2>1. /\ hand' = freeList[1] /\ hand' \in Buffers /\ hand' # 0
        /\ Len(freeList') = Len(freeList) - 1 /\ DOMAIN freeList' = 1 .. (Len(freeList) - 1)
        /\ \A i \in 1 .. (Len(freeList) - 1) : freeList'[i] = freeList[i + 1] /\ i + 1 \in 1 .. Len(freeList)
        /\ Len(freeList) > 0 /\ 1 \in 1 .. Len(freeList)
    BY <1>0, <1>1, <2>0, Popped DEF TakeBuffer
  <2>2. Intact /\ Apart /\ Counted
    BY <2>0 DEF Conserved, Emptied
  <2>3. list' = list /\ taken' = taken /\ Intact' /\ worker' = "source"
    BY <1>1, <2>2 DEF TakeBuffer, Intact
  <2>4. hand = 0
    BY <2>0, HandParts
  <2>5. Apart'
    <3>0. /\ 1 \in DOMAIN freeList
          /\ \A i \in DOMAIN freeList' :
                i \in Nat /\ i + 1 \in DOMAIN freeList /\ i + 1 # 1 /\ freeList'[i] = freeList[i + 1]
      BY <1>0, <2>1
    <3>1. \A i, j \in DOMAIN freeList' : freeList'[i] = freeList'[j] => i = j
      <4> SUFFICES ASSUME NEW i \in DOMAIN freeList', NEW j \in DOMAIN freeList',
                          freeList'[i] = freeList'[j]
                   PROVE  i = j
        OBVIOUS
      <4>1. i + 1 = j + 1
        BY <2>2, <3>0 DEF Apart
      <4> QED
        BY <3>0, <4>1
    <3>2. \A i \in DOMAIN freeList' : freeList'[i] # hand'
      BY <2>1, <2>2, <3>0 DEF Apart
    <3>3. \A j \in DOMAIN list' : list'[j].buf # hand'
      BY <2>1, <2>2, <2>3, <3>0 DEF Apart
    <3>4. \A i \in DOMAIN freeList', j \in DOMAIN list' : freeList'[i] # list'[j].buf
      BY <2>2, <2>3, <3>0 DEF Apart
    <3>5. /\ \A i \in DOMAIN freeList' : freeList'[i] # taken'.buf
          /\ taken'.buf # hand'
      BY <2>1, <2>2, <2>3, <3>0 DEF Apart
    <3>6. /\ \A j \in DOMAIN list' : list'[j].buf # taken'.buf
          /\ \A i, j \in DOMAIN list' : list'[i].buf = list'[j].buf => i = j
      BY <2>2, <2>3 DEF Apart
    <3> QED
      BY <3>1, <3>2, <3>3, <3>4, <3>5, <3>6 DEF Apart
  <2>6. HandCount \in Nat /\ HandCount' = HandCount + 1
    BY <2>1, <2>3, <2>4 DEF HandCount, NoBuffer
  <2>61. Len(freeList') = Len(freeList) - 1 /\ Len(list') = Len(list)
    BY <2>1, <2>3
  <2>7. Counted'
    BY <1>00, <2>2, <2>6, <2>61 DEF Counted
  <2> QED
    BY <2>3, <2>5, <2>7 DEF Conserved, LoadedFits, Emptied
<1>2. CASE SourcePacket
  <2>1. /\ UNCHANGED <<list, freeList, hand, taken, loaded>> /\ Intact' = Intact
        /\ Filling' = Filling /\ worker' # "store"
    BY <1>2 DEF SourcePacket, Intact, Filling
  <2>2. Apart' = Apart /\ Counted' = Counted /\ LoadedFits'
    BY <2>1 DEF Apart, Counted, HandCount, LoadedFits
  <2> QED
    BY <2>1, <2>2 DEF Conserved, Emptied
<1>3. CASE PushPacket
  <2>0. hand \in Buffers /\ pos \in 1 .. NumItems /\ hand # 0 /\ Filling /\ Filling'
    BY <1>3, HandParts DEF PushPacket, Typed, HandHeld, Filling
  <2>1. [buf |-> hand, dts |-> pos] \in Packet
    BY <2>0 DEF Packet
  <2>2. /\ Len(list') = Len(list) + 1 /\ DOMAIN list' = 1 .. (Len(list) + 1)
        /\ \A i \in 1 .. Len(list) : list'[i] = list[i]
        /\ list'[Len(list) + 1].buf = hand
    BY <1>3, <2>1, OneAppended DEF PushPacket, Typed, TypeOK
  <2>3. /\ freeList' = freeList /\ taken' = taken /\ Intact' = Intact /\ hand' = 0
        /\ worker' # "store"
    BY <1>3 DEF PushPacket, Intact, NoBuffer
  <2>4. ASSUME Intact PROVE Apart' /\ Counted'
    <3>0. Apart /\ Counted
      BY <2>0, <2>4 DEF Conserved
    <3>1. \A j \in DOMAIN list' : (j \in 1 .. Len(list) /\ list'[j] = list[j]) \/ (j = Len(list) + 1 /\ list'[j].buf = hand)
      BY <1>0, <2>2
    <3>2. \A j \in DOMAIN list' : list'[j].buf # 0 /\ \A i \in DOMAIN freeList' : freeList'[i] # list'[j].buf
      BY <1>0, <2>0, <2>3, <3>0, <3>1 DEF Apart
    <3>3. \A i, j \in DOMAIN list' : list'[i].buf = list'[j].buf => i = j
      BY <1>0, <3>0, <3>1 DEF Apart
    <3>4. taken = NoPacket => taken.buf = 0
      BY HandParts
    <3>5. \A j \in DOMAIN list' : list'[j].buf # taken'.buf
      BY <1>0, <2>0, <2>3, <3>0, <3>1, <3>4 DEF Apart
    <3>6. \A i \in DOMAIN freeList' : freeList'[i] # hand' /\ freeList'[i] # taken'.buf
      BY <1>0, <2>3, <3>0 DEF Apart
    <3>7. taken' # NoPacket => taken'.buf # hand'
      BY <2>3, HandParts
    <3>8. \A i, j \in DOMAIN freeList' : freeList'[i] = freeList'[j] => i = j
      BY <2>3, <3>0 DEF Apart
    <3>9. Apart'
      BY <2>3, <3>2, <3>3, <3>5, <3>6, <3>7, <3>8 DEF Apart
    <3>10. HandCount' \in Nat /\ HandCount = HandCount' + 1
      BY <2>0, <2>3 DEF HandCount, NoBuffer
    <3>11. Counted'
      BY <1>00, <2>2, <2>3, <3>0, <3>10 DEF Counted
    <3> QED
      BY <3>9, <3>11
  <2> QED
    BY <2>0, <2>3, <2>4 DEF Conserved, LoadedFits, Emptied
<1>4. CASE PutBackLoad
  <2>1. /\ UNCHANGED <<list, freeList, hand, taken>> /\ loaded' = freeList /\ Intact' = Intact
        /\ Filling' = Filling
    BY <1>4 DEF PutBackLoad, Intact, Filling
  <2>2. Apart' = Apart /\ Counted' = Counted
    BY <2>1 DEF Apart, Counted, HandCount
  <2>3. LoadedFits'
    BY <1>0, <2>1 DEF LoadedFits
  <2> QED
    BY <2>1, <2>2, <2>3 DEF Conserved, Emptied
<1>5. CASE PutBackStore
  <2>0. hand \in Buffers /\ hand # 0 /\ ~Filling' /\ worker' # "store"
    BY <1>5, HandParts DEF PutBackStore, Filling
  <2>1. /\ list' = list /\ taken' = taken /\ Intact' = Intact /\ hand' = 0
        /\ freeList' \in {freeList, Append(freeList, hand), Append(loaded, hand)}
    BY <1>5 DEF PutBackStore, Intact, NoBuffer
  <2>2. freeList \in Seq(Buffers) /\ loaded \in Seq(Buffers)
    BY DEF Typed, TypeOK
  <2>3. ASSUME Intact PROVE Apart'
    <3>0. Apart /\ LoadedFits
      BY <2>3 DEF Conserved
    <3>1. CASE freeList' = freeList
      <4>1. /\ \A i, j \in DOMAIN freeList' : freeList'[i] = freeList'[j] => i = j
            /\ \A i, j \in DOMAIN list' : list'[i].buf = list'[j].buf => i = j
            /\ \A i \in DOMAIN freeList', j \in DOMAIN list' : freeList'[i] # list'[j].buf
            /\ \A i \in DOMAIN freeList' : freeList'[i] # taken'.buf
            /\ \A j \in DOMAIN list' : list'[j].buf # taken'.buf
        BY <2>1, <3>0, <3>1 DEF Apart
      <4>2. /\ \A i \in DOMAIN freeList' : freeList'[i] # hand'
            /\ \A j \in DOMAIN list' : list'[j].buf # hand'
        BY <1>0, <2>1, <3>1
      <4>3. taken' # NoPacket => taken'.buf # hand'
        BY <2>1, HandParts
      <4> QED
        BY <4>1, <4>2, <4>3 DEF Apart
    <3>2. CASE freeList' = Append(freeList, hand)
      <4>1. Len(freeList) \in 0 .. Len(freeList)
        BY <1>00
      <4> QED
        BY <2>0, <2>1, <2>2, <3>0, <3>2, <4>1, OneAppended, PutBackApart
    <3>3. CASE freeList' = Append(loaded, hand)
      <4>1. /\ Len(loaded) \in 0 .. Len(freeList)
            /\ \A i \in 1 .. Len(loaded) : loaded[i] = freeList[i]
        BY <1>0, <1>5, <3>0 DEF LoadedFits, PutBackStore
      <4>2. /\ freeList' \in Seq(Buffers) /\ Len(freeList') = Len(loaded) + 1
            /\ \A i \in 1 .. Len(loaded) : freeList'[i] = loaded[i]
            /\ freeList'[Len(loaded) + 1] = hand
        BY <2>0, <2>2, <3>3, OneAppended
      <4> QED
        BY <2>0, <2>1, <3>0, <4>1, <4>2, PutBackApart
    <3> QED
      BY <2>1, <3>1, <3>2, <3>3
  <2> QED
    BY <2>0, <2>1, <2>3 DEF Conserved, LoadedFits, Emptied
<1>6. CASE PopPacket
  <2>0. list \in Seq(Packet) /\ list # <<>> /\ main = "get" /\ Intact /\ Intact'
    BY <1>6 DEF PopPacket, Typed, TypeOK, Intact
  <2>1. /\ taken' = list[1] /\ taken'.buf \in Buffers /\ taken'.buf # 0 /\ taken' \in Packet
        /\ Len(list') = Len(list) - 1 /\ DOMAIN list' = 1 .. (Len(list) - 1)
        /\ \A i \in 1 .. (Len(list) - 1) : list'[i] = list[i + 1] /\ i + 1 \in 1 .. Len(list) /\ i + 1 # 1
        /\ Len(list) > 0 /\ 1 \in 1 .. Len(list)
    BY <1>0, <1>6, <2>0, Popped DEF PopPacket
  <2>2. /\ UNCHANGED <<freeList, hand, loaded>> /\ Filling' = Filling
        /\ worker' = worker
    BY <1>6 DEF PopPacket, Filling
  <2>3. Apart /\ LoadedFits /\ (Filling => Counted)
    BY <2>0 DEF Conserved
  <2>4. taken = NoPacket /\ taken' # NoPacket
    BY <2>0, <2>1, HandParts DEF NoPacket, NoBuffer
  <2>5. Apart'
    <3>0. /\ 1 \in DOMAIN list
          /\ \A i \in DOMAIN list' :
                i \in Nat /\ i + 1 \in DOMAIN list /\ i + 1 # 1 /\ list'[i] = list[i + 1]
      BY <1>0, <2>1
    <3>1. \A i, j \in DOMAIN list' : list'[i].buf = list'[j].buf => i = j
      <4> SUFFICES ASSUME NEW i \in DOMAIN list', NEW j \in DOMAIN list',
                          list'[i].buf = list'[j].buf
                   PROVE  i = j
        OBVIOUS
      <4>1. i + 1 = j + 1
        BY <2>3, <3>0 DEF Apart
      <4> QED
        BY <3>0, <4>1
    <3>2. \A j \in DOMAIN list' : list'[j].buf # taken'.buf /\ list'[j].buf # hand'
      BY <2>1, <2>2, <2>3, <3>0 DEF Apart
    <3>3. \A i \in DOMAIN freeList', j \in DOMAIN list' : freeList'[i] # list'[j].buf
      BY <2>2, <2>3, <3>0 DEF Apart
    <3>4. /\ \A i \in DOMAIN freeList' : freeList'[i] # hand' /\ freeList'[i] # taken'.buf
          /\ taken'.buf # hand'
      BY <2>1, <2>2, <2>3, <3>0 DEF Apart
    <3>5. \A i, j \in DOMAIN freeList' : freeList'[i] = freeList'[j] => i = j
      BY <2>2, <2>3 DEF Apart
    <3> QED
      BY <3>1, <3>2, <3>3, <3>4, <3>5 DEF Apart
  <2>6. HandCount \in Nat /\ HandCount' = HandCount + 1
    BY <2>2, <2>4 DEF HandCount
  <2>61. Len(freeList') = Len(freeList) /\ Len(list') = Len(list) - 1
    BY <2>1, <2>2
  <2>7. Filling => Counted'
    BY <1>00, <2>3, <2>6, <2>61 DEF Counted
  <2>8. LoadedFits'
    BY <2>2, <2>3 DEF LoadedFits
  <2> QED
    BY <2>0, <2>2, <2>5, <2>7, <2>8 DEF Conserved, Emptied
<1>7. CASE CopyPacket
  <2>1. UNCHANGED <<list, freeList, hand, taken, loaded, worker>> /\ Intact /\ Intact'
    BY <1>7 DEF CopyPacket, Intact
  <2>2. Apart' = Apart /\ Counted' = Counted /\ LoadedFits' = LoadedFits /\ Filling' = Filling
    BY <2>1 DEF Apart, Counted, HandCount, LoadedFits, Filling
  <2> QED
    BY <2>1, <2>2 DEF Conserved, Emptied
<1>8. CASE GiveBack
  <2>0. /\ main = "giveBack" /\ Intact /\ Intact' /\ freeList \in Seq(Buffers)
        /\ taken # NoPacket /\ taken.buf \in Buffers
    BY <1>8, HandParts DEF GiveBack, Typed, TypeOK, Intact
  <2>1. /\ freeList' \in Seq(Buffers) /\ Len(freeList') = Len(freeList) + 1
        /\ \A i \in 1 .. Len(freeList) : freeList'[i] = freeList[i]
        /\ freeList'[Len(freeList) + 1] = taken.buf
    BY <1>8, <2>0, OneAppended DEF GiveBack
  <2>2. UNCHANGED <<list, hand, loaded>> /\ taken' = NoPacket
    BY <1>8 DEF GiveBack
  <2>3. (worker' = "store" => worker = "store") /\ Filling' = Filling
    BY <1>8 DEF GiveBack, Signalled, IsWaiting, Filling
  <2>4. Apart /\ LoadedFits /\ (Filling => Counted)
    BY <2>0 DEF Conserved
  <2>5. Apart'
    <3>1. Len(freeList) \in 0 .. Len(freeList)
      BY <1>00
    <3> QED
      BY <2>0, <2>1, <2>2, <2>4, <3>1, PutBackApart
  <2>6. HandCount' \in Nat /\ HandCount = HandCount' + 1
    BY <2>0, <2>2 DEF HandCount
  <2>7. Filling => Counted'
    BY <1>00, <2>1, <2>2, <2>4, <2>6 DEF Counted
  <2>8. LoadedFits'
    BY <1>0, <2>1, <2>2, <2>3, <2>4 DEF LoadedFits
  <2> QED
    BY <2>0, <2>3, <2>5, <2>7, <2>8 DEF Conserved, Emptied
<1>9. CASE EmptyLists
  BY <1>9 DEF EmptyLists, Intact, Conserved, Emptied
<1>10. CASE Quiet
  <2>1. Apart' = Apart /\ Counted' = Counted /\ LoadedFits' = LoadedFits
    BY <1>10 DEF Quiet, Data, Apart, Counted, HandCount, LoadedFits
  <2> QED
    BY <1>10, <2>1 DEF Quiet, Data, Conserved, Emptied
<1> QED
  BY <1>1, <1>2, <1>3, <1>4, <1>5, <1>6, <1>7, <1>8, <1>9, <1>10, QuietSteps DEF Typed

LEMMA ConservedInvariant == Spec => [](Typed /\ Conserved)
BY InitConserved, ConservedStep, TypeInvariant, PTL DEF Spec

(* No buffer is in two places; none is lost while the worker fills.        *)
THEOREM Conservation == Spec => []BuffersConserved
<1>1. Conserved => BuffersConserved
  BY ConservedMeans DEF Conserved
<1> QED
  BY <1>1, ConservedInvariant, PTL

-----------------------------------------------------------------------------
(* The packets produced and not delivered are, in order: the one that main *)
(* copies, list, and the one the worker is about to queue; each is in the  *)
(* buffer its packet names.                                                *)
Copying == IF main = "copy" THEN 1 ELSE 0
Pushing == IF worker = "push" THEN 1 ELSE 0
Asking  == IF worker = "source" THEN 1 ELSE 0

QueueInOrder ==
    Intact =>
        /\ pos = out.dts + Copying + Len(list) + Pushing
        /\ \A i \in DOMAIN list :
              list[i].dts = out.dts + Copying + i /\ chunk[list[i].buf] = list[i].dts
        /\ main = "copy" => chunk[taken.buf] = taken.dts /\ taken.dts = out.dts + 1

(* The worker is never more than NumBuffers packets ahead of the consumer, *)
(* the one it is about to ask for included.                                *)
AheadBound ==
    /\ out.dts = out.data
    /\ out.data <= pos
    /\ pos - out.data + Asking <= NumBuffers

LEMMA Ones == Copying \in {0, 1} /\ Pushing \in {0, 1} /\ Asking \in {0, 1}
BY DEF Copying, Pushing, Asking

LEMMA OrderStep ==
    ASSUME Typed, Conserved, QueueInOrder, AheadBound, [Next]_vars
    PROVE  QueueInOrder' /\ AheadBound'
<1>0. /\ Len(freeList) \in Nat /\ DOMAIN freeList = 1 .. Len(freeList)
      /\ Len(list) \in Nat /\ DOMAIN list = 1 .. Len(list)
      /\ \A i \in 1 .. Len(freeList) : freeList[i] \in Buffers /\ freeList[i] # 0
      /\ \A i \in 1 .. Len(list) : list[i] \in Packet /\ list[i].buf \in Buffers /\ list[i].buf # 0
  BY ListElements
<1>00. /\ Len(list) \in Nat /\ pos \in Nat /\ out.dts \in Nat /\ out.data \in Nat /\ NumBuffers \in Nat
       /\ Copying \in Nat /\ Pushing \in Nat /\ Asking \in Nat
  BY <1>0, NumBuffersAssumption, NumItemsAssumption, Ones DEF Typed, TypeOK, Torn
<1>01. chunk \in [Buffers -> 1 .. Torn]
  BY DEF Typed, TypeOK
<1>1. CASE TakeBuffer
  <2>0. worker = "take" /\ worker' = "source" /\ Filling /\ freeList # <<>> /\ main' = main
        /\ list' = list /\ pos' = pos /\ out' = out /\ taken' = taken /\ Intact' = Intact
        /\ chunk' = [chunk EXCEPT ![Head(freeList)] = Torn]
    BY <1>1 DEF TakeBuffer, Filling, Intact
  <2>1. Intact /\ Apart /\ Counted
    BY <2>0 DEF Conserved, Emptied
  <2>2. 1 \in 1 .. Len(freeList) /\ Head(freeList) = freeList[1] /\ Len(freeList) > 0
    BY <1>0, <2>0, Popped DEF Typed, TypeOK
  <2>3. \A b \in Buffers : b # freeList[1] => chunk'[b] = chunk[b]
    BY <1>01, <2>0, <2>2
  <2>4. \A i \in DOMAIN list : chunk'[list[i].buf] = chunk[list[i].buf]
    BY <1>0, <2>1, <2>2, <2>3 DEF Apart
  <2>5. main = "copy" => chunk'[taken.buf] = chunk[taken.buf]
    BY <1>0, <2>1, <2>2, <2>3, HandParts DEF Apart
  <2>6. Copying' = Copying /\ Pushing = 0 /\ Pushing' = 0 /\ Asking' = 1
    BY <2>0 DEF Copying, Pushing, Asking
  <2>7. QueueInOrder'
    BY <2>0, <2>1, <2>4, <2>5, <2>6 DEF QueueInOrder
  <2>8. Copying <= HandCount /\ HandCount \in Nat
    BY HandParts DEF Copying, HandCount
  <2>9. Len(list) + Copying < NumBuffers
    <3>1. Len(freeList) + Len(list) + HandCount = NumBuffers
      BY <2>1 DEF Counted
    <3>2. Len(freeList) \in Nat
      BY <1>0
    <3> QED
      BY <1>00, <2>2, <2>8, <3>1, <3>2
  <2>10. pos = out.dts + Copying + Len(list)
    BY <1>00, <2>1, <2>6 DEF QueueInOrder
  <2>11. pos - out.data + 1 <= NumBuffers
    BY <1>00, <2>9, <2>10 DEF AheadBound
  <2> QED
    BY <2>0, <2>6, <2>7, <2>11 DEF AheadBound
<1>2. CASE SourcePacket
  <2>0. /\ worker = "source" /\ worker' = "push" /\ pos' = pos + 1 /\ main' = main
        /\ UNCHANGED <<list, out, taken>> /\ Intact' = Intact
        /\ chunk' = [chunk EXCEPT ![hand] = pos + 1]
    BY <1>2 DEF SourcePacket, Intact
  <2>1. \A b \in Buffers : b # hand => chunk'[b] = chunk[b]
    BY <1>01, <2>0
  <2>2. Copying' = Copying /\ Pushing = 0 /\ Pushing' = 1 /\ Asking = 1 /\ Asking' = 0
    BY <2>0 DEF Copying, Pushing, Asking
  <2>3. ASSUME Intact PROVE QueueInOrder'
    <3>0. Apart
      BY <2>3 DEF Conserved
    <3>1. \A i \in DOMAIN list : chunk'[list[i].buf] = chunk[list[i].buf]
      BY <1>0, <2>1, <3>0 DEF Apart
    <3>2. main = "copy" => chunk'[taken.buf] = chunk[taken.buf]
      BY <2>1, <3>0, HandParts DEF Apart
    <3>3. pos' = out.dts + Copying + Len(list) + 1
      BY <1>00, <2>0, <2>2, <2>3 DEF QueueInOrder
    <3> QED
      BY <2>0, <2>2, <2>3, <3>1, <3>2, <3>3 DEF QueueInOrder
  <2>4. AheadBound'
    BY <1>00, <2>0, <2>2 DEF AheadBound
  <2> QED
    BY <2>0, <2>3, <2>4 DEF QueueInOrder
<1>3. CASE PushPacket
  <2>0. hand \in Buffers /\ pos \in 1 .. NumItems /\ chunk[hand] = pos
    BY <1>3, HandParts DEF PushPacket, Typed, HandHeld
  <2>1. [buf |-> hand, dts |-> pos] \in Packet
    BY <2>0 DEF Packet
  <2>2. /\ Len(list') = Len(list) + 1 /\ DOMAIN list' = 1 .. (Len(list) + 1)
        /\ \A i \in 1 .. Len(list) : list'[i] = list[i]
        /\ list'[Len(list) + 1].buf = hand /\ list'[Len(list) + 1].dts = pos
    BY <1>3, <2>1, OneAppended DEF PushPacket, Typed, TypeOK
  <2>3. /\ UNCHANGED <<chunk, pos, out, taken, main>> /\ worker = "push" /\ worker' = "check"
        /\ Intact' = Intact
    BY <1>3 DEF PushPacket, Intact
  <2>4. Copying' = Copying /\ Pushing = 1 /\ Pushing' = 0 /\ Asking = 0 /\ Asking' = 0
    BY <2>3 DEF Copying, Pushing, Asking
  <2>5. ASSUME Intact PROVE QueueInOrder'
    <3>1. pos = out.dts + Copying + (Len(list) + 1)
      BY <1>00, <2>4, <2>5 DEF QueueInOrder
    <3>2. \A i \in DOMAIN list' : list'[i].dts = out.dts + Copying + i /\ chunk[list'[i].buf] = list'[i].dts
      <4> SUFFICES ASSUME NEW i \in 1 .. (Len(list) + 1)
                   PROVE  list'[i].dts = out.dts + Copying + i /\ chunk[list'[i].buf] = list'[i].dts
        BY <2>2
      <4>1. CASE i \in 1 .. Len(list)
        BY <1>0, <2>2, <2>5, <4>1 DEF QueueInOrder
      <4>2. CASE i = Len(list) + 1
        BY <2>0, <2>2, <3>1, <4>2
      <4> QED
        BY <1>00, <4>1, <4>2
    <3>3. main = "copy" => chunk[taken.buf] = taken.dts /\ taken.dts = out.dts + 1
      BY <2>5 DEF QueueInOrder
    <3>4. pos' = out'.dts + Copying' + Len(list') + Pushing'
      BY <1>00, <2>2, <2>3, <2>4, <3>1
    <3> QED
      BY <2>3, <2>4, <3>2, <3>3, <3>4 DEF QueueInOrder
  <2>6. AheadBound'
    BY <2>3, <2>4 DEF AheadBound
  <2> QED
    BY <2>3, <2>5, <2>6 DEF QueueInOrder
<1>4. CASE PutBackLoad \/ PutBackStore
  <2>1. /\ UNCHANGED <<list, chunk, pos, out, taken, main>> /\ Intact' = Intact
        /\ worker \in {"putBack", "store"} /\ worker' \in {"store", "finish"}
    BY <1>4 DEF PutBackLoad, PutBackStore, Intact
  <2>2. Copying' = Copying /\ Pushing' = Pushing /\ Asking' = Asking
    BY <2>1 DEF Copying, Pushing, Asking
  <2> QED
    BY <2>1, <2>2 DEF QueueInOrder, AheadBound
<1>5. CASE PopPacket
  <2>0. list \in Seq(Packet) /\ list # <<>> /\ main = "get" /\ main' = "copy" /\ Intact
    BY <1>5 DEF PopPacket, Typed, TypeOK, Intact
  <2>1. /\ taken' = list[1]
        /\ Len(list') = Len(list) - 1 /\ DOMAIN list' = 1 .. (Len(list) - 1)
        /\ \A i \in 1 .. (Len(list) - 1) : list'[i] = list[i + 1] /\ i + 1 \in 1 .. Len(list)
        /\ Len(list) > 0 /\ 1 \in 1 .. Len(list)
    BY <1>0, <1>5, <2>0, Popped DEF PopPacket
  <2>2. UNCHANGED <<chunk, pos, out, worker>>
    BY <1>5 DEF PopPacket
  <2>3. Copying = 0 /\ Copying' = 1 /\ Pushing' = Pushing /\ Asking' = Asking
    BY <2>0, <2>2 DEF Copying, Pushing, Asking
  <2>4. \A i \in 1 .. Len(list) : list[i].dts = out.dts + i /\ chunk[list[i].buf] = list[i].dts
    <3>1. \A i \in 1 .. Len(list) : list[i].dts = out.dts + 0 + i /\ chunk[list[i].buf] = list[i].dts
      BY <1>0, <2>0, <2>3 DEF QueueInOrder
    <3>2. out.dts + 0 = out.dts
      BY <1>00
    <3> QED
      BY <3>1, <3>2
  <2>5. chunk[taken'.buf] = taken'.dts /\ taken'.dts = out.dts + 1
    BY <2>1, <2>4
  <2>6. \A i \in DOMAIN list' : list'[i].dts = out.dts + 1 + i /\ chunk[list'[i].buf] = list'[i].dts
    <3> SUFFICES ASSUME NEW i \in 1 .. (Len(list) - 1)
                 PROVE  list'[i].dts = out.dts + 1 + i /\ chunk[list'[i].buf] = list'[i].dts
      BY <2>1
    <3>1. list'[i].dts = out.dts + (i + 1) /\ chunk[list'[i].buf] = list'[i].dts
      BY <2>1, <2>4
    <3>2. out.dts + (i + 1) = out.dts + 1 + i
      BY <1>00
    <3> QED
      BY <3>1, <3>2
  <2>7. pos = out.dts + Len(list) + Pushing
    <3>1. pos = out.dts + Copying + Len(list) + Pushing
      BY <2>0 DEF QueueInOrder
    <3> QED
      BY <1>00, <2>3, <3>1
  <2>8. pos' = out'.dts + Copying' + Len(list') + Pushing'
    BY <1>00, <2>1, <2>2, <2>3, <2>7
  <2>9. QueueInOrder'
    BY <2>2, <2>3, <2>5, <2>6, <2>8 DEF QueueInOrder
  <2> QED
    BY <2>2, <2>3, <2>9 DEF AheadBound
<1>6. CASE CopyPacket
  <2>0. /\ main = "copy" /\ main' = "giveBack" /\ Intact /\ UNCHANGED <<list, chunk, pos, worker>>
        /\ out'.dts = taken.dts /\ out'.data = chunk[taken.buf]
    BY <1>6 DEF CopyPacket, Intact
  <2>1. Copying = 1 /\ Copying' = 0 /\ Pushing' = Pushing /\ Asking' = Asking
    BY <2>0 DEF Copying, Pushing, Asking
  <2>2. /\ pos = out.dts + 1 + Len(list) + Pushing
        /\ \A i \in DOMAIN list : list[i].dts = out.dts + 1 + i /\ chunk[list[i].buf] = list[i].dts
        /\ chunk[taken.buf] = taken.dts /\ taken.dts = out.dts + 1
    BY <2>0, <2>1 DEF QueueInOrder
  <2>3. out'.dts = out.dts + 1 /\ out'.data = out.dts + 1
    BY <2>0, <2>2
  <2>4. out'.dts + 0 = out.dts + 1
    BY <1>00, <2>3
  <2>5. QueueInOrder'
    BY <2>0, <2>1, <2>2, <2>4 DEF QueueInOrder
  <2>6. AheadBound'
    <3>1. out.dts + 1 <= pos
      BY <1>00, <2>2
    <3>2. pos - (out.dts + 1) + Asking <= NumBuffers
      BY <1>00 DEF AheadBound
    <3> QED
      BY <2>0, <2>1, <2>3, <3>1, <3>2 DEF AheadBound
  <2> QED
    BY <2>5, <2>6
<1>7. CASE GiveBack
  <2>1. /\ UNCHANGED <<list, chunk, pos, out>> /\ Intact /\ main = "giveBack" /\ main' = "idle"
        /\ worker' = "push" <=> worker = "push"
        /\ worker' = "source" <=> worker = "source"
    BY <1>7 DEF GiveBack, Intact, Signalled, IsWaiting
  <2>2. Copying' = Copying /\ Pushing' = Pushing /\ Asking' = Asking
    BY <2>1 DEF Copying, Pushing, Asking
  <2> QED
    BY <2>1, <2>2 DEF QueueInOrder, AheadBound
<1>8. CASE EmptyLists
  <2>1. UNCHANGED <<pos, out, worker>> /\ ~Intact'
    BY <1>8 DEF EmptyLists, Intact
  <2>2. Asking' = Asking
    BY <2>1 DEF Asking
  <2> QED
    BY <2>1, <2>2 DEF QueueInOrder, AheadBound
<1>9. CASE Quiet
  <2>1. /\ UNCHANGED <<list, chunk, pos, out, taken>> /\ Intact' = Intact
        /\ main' = "copy" <=> main = "copy"
        /\ worker' = "push" <=> worker = "push"
        /\ worker' = "source" => worker = "source"
    BY <1>9 DEF Quiet, Data
  <2>2. Copying' = Copying /\ Pushing' = Pushing /\ Asking' <= Asking /\ Asking' \in Nat
    BY <2>1 DEF Copying, Pushing, Asking
  <2>3. QueueInOrder'
    BY <2>1, <2>2 DEF QueueInOrder
  <2>4. AheadBound'
    BY <1>00, <2>1, <2>2 DEF AheadBound
  <2> QED
    BY <2>3, <2>4
<1> QED
  BY <1>1, <1>2, <1>3, <1>4, <1>5, <1>6, <1>7, <1>8, <1>9, QuietSteps DEF Typed

LEMMA InitOrder == Init => QueueInOrder /\ AheadBound
<1> SUFFICES ASSUME Init PROVE QueueInOrder /\ AheadBound
  OBVIOUS
<1>1. Len(list) = 0 /\ DOMAIN list = {}
  BY EmptySeq DEF Init
<1>2. Copying = 0 /\ Pushing = 0 /\ Asking = 0 /\ main # "copy" /\ pos = 0 /\ out.dts = 0 /\ out.data = 0
  BY DEF Init, QueueInit, Copying, Pushing, Asking
<1>3. QueueInOrder
  BY <1>1, <1>2 DEF QueueInOrder
<1> QED
  BY <1>2, <1>3, NumBuffersAssumption DEF AheadBound

LEMMA OrderInvariant == Spec => [](Typed /\ Conserved /\ QueueInOrder /\ AheadBound)
BY InitOrder, OrderStep, ConservedInvariant, PTL DEF Spec

(* The packet main copies without the mutex is the next one of the son's   *)
(* stream, and nobody writes its buffer meanwhile.                         *)
THEOREM StableCopy == Spec => []CopyIsStable
<1>1. Typed /\ Conserved /\ QueueInOrder => CopyIsStable
  <2> SUFFICES ASSUME Typed, Conserved, QueueInOrder, main = "copy"
               PROVE  /\ taken.buf # hand
                      /\ chunk[taken.buf] = taken.dts
                      /\ taken.dts = out.dts + 1
    BY DEF CopyIsStable
  <2>1. Intact
    BY DEF Intact
  <2>2. taken.buf # hand
    BY <2>1, HandParts DEF Conserved, Apart
  <2> QED
    BY <2>1, <2>2 DEF QueueInOrder
<1> QED
  BY <1>1, OrderInvariant, PTL

-----------------------------------------------------------------------------
(* The answer "no more data" is given once the worker is over and list is  *)
(* empty, and both stay so.                                                *)
EndedLast == ended => list = <<>> /\ worker = "exited" /\ main # "copy"

LEMMA EndStep ==
    ASSUME Typed, EndedLast, [Next]_vars
    PROVE  EndedLast'
<1> USE DEF EndedLast
<1>1. CASE WorkerStep
  BY <1>1 DEF WorkerStep, WorkerBaseStep, RunEnter, RunExit, CheckStop, WaitReturns,
              WaitForBuffer, TakeBuffer, SourcePacket, SourceEnd, PushPacket,
              PutBackLoad, PutBackStore, clientVars
<1>2. CASE MainBaseStep("emptyLists") /\ UNCHANGED clientVars
  BY <1>2 DEF MainBaseStep, StartDone, StopTest, StopSet, StopPoll, StopReturns, BaseDtor,
              Join, Signalled, clientVars
<1>3. CASE PopPacket \/ CopyPacket
  BY <1>3 DEF PopPacket, CopyPacket
<1>4. CASE GiveBack
  BY <1>4 DEF GiveBack, Signalled
<1>5. CASE NoMoreData
  BY <1>5 DEF NoMoreData, Typed, Life, ThreadLife
<1>6. CASE EmptyLists \/ KillSon
  BY <1>6 DEF EmptyLists, KillSon
<1>7. CASE (SpuriousWakeup \/ BeginDestroy) /\ UNCHANGED clientVars
  BY <1>7 DEF SpuriousWakeup, BeginDestroy, clientVars
<1>8. CASE CallGet /\ UNCHANGED clientVars
  BY <1>8 DEF CallGet, Typed, Life, ThreadLife, clientVars
<1>9. CASE UNCHANGED vars
  BY <1>9 DEF vars, queueVars, clientVars
<1> QED
  BY <1>1, <1>2, <1>3, <1>4, <1>5, <1>6, <1>7, <1>8, <1>9 DEF Next, MainStep

(* Every step of the queue is a step of the bounded stream, or none.       *)
LEMMA StreamStep ==
    ASSUME Typed, Conserved, QueueInOrder, AheadBound, EndedLast, [Next]_vars
    PROVE  [Stream!Next]_(Stream!vars)
<1> DEFINE over == worker \in {"putBack", "store", "finish", "exited"}
<1>0. /\ pos \in Nat /\ out.dts \in Nat /\ out.data \in Nat /\ Len(list) \in Nat /\ NumBuffers \in Nat
      /\ Copying \in Nat /\ Pushing \in Nat /\ Asking \in Nat
  BY ListElements, NumItemsAssumption, NumBuffersAssumption, Ones DEF Typed, TypeOK, Torn
<1>1. CASE SourcePacket
  <2>1. /\ worker = "source" /\ worker' = "push" /\ pos < NumItems /\ pos' = pos + 1
        /\ out' = out /\ ended' = ended
    BY <1>1 DEF SourcePacket
  <2>2. pos - out.data < NumBuffers
    BY <1>0, <2>1 DEF AheadBound, Asking
  <2> QED
    BY <2>1, <2>2 DEF Stream!Next, Stream!Produce
<1>2. CASE SourceEnd
  <2>1. worker' = "putBack" /\ pos' = pos /\ out' = out /\ ended' = ended
    BY <1>2 DEF SourceEnd, clientVars
  <2> QED
    BY <2>1 DEF Stream!Next, Stream!Finish
<1>3. CASE CheckStop /\ UNCHANGED clientVars
  <2>1. worker' \in {"finish", "take"} /\ worker = "check" /\ pos' = pos /\ out' = out
        /\ ended' = ended
    BY <1>3 DEF CheckStop, clientVars
  <2>2. CASE worker' = "finish"
    BY <2>1, <2>2 DEF Stream!Next, Stream!Finish
  <2>3. CASE worker' = "take"
    BY <2>1, <2>3 DEF Stream!vars
  <2> QED
    BY <2>1, <2>2, <2>3
<1>4. CASE CopyPacket
  <2>1. /\ Intact /\ main = "copy" /\ pos' = pos /\ ended' = ended /\ worker' = worker
        /\ out'.data = chunk[taken.buf]
    BY <1>4 DEF CopyPacket, Intact
  <2>2. /\ chunk[taken.buf] = taken.dts /\ taken.dts = out.dts + 1
        /\ pos = out.dts + 1 + Len(list) + Pushing
    BY <2>1 DEF QueueInOrder, Copying
  <2>3. out'.data = out.data + 1
    BY <2>1, <2>2 DEF AheadBound
  <2>4. out.data < pos
    <3>1. /\ pos \in Nat /\ out.dts \in Nat /\ out.data \in Nat /\ Len(list) \in Nat
          /\ Pushing \in Nat
      BY <1>0, Zenon
    <3>2. out.data <= out.dts
      BY <3>1 DEF AheadBound
    <3> QED
      BY <2>2, <3>1, <3>2
  <2>5. ended = FALSE
    BY <2>1 DEF EndedLast, Typed, TypeOK
  <2>6. over' = over
    BY <2>1
  <2> QED
    BY <2>1, <2>3, <2>4, <2>5, <2>6 DEF Stream!Next, Stream!Deliver
<1>5. CASE NoMoreData
  <2>1. Intact /\ main = "get" /\ list = <<>> /\ worker = "exited" /\ worker' = worker /\ pos' = pos
        /\ out' = out /\ ended' = TRUE
    BY <1>5 DEF NoMoreData, Intact, Typed, Life, ThreadLife
  <2>2. Len(list) = 0 /\ Copying = 0 /\ Pushing = 0
    BY <2>1, EmptySeq DEF Copying, Pushing
  <2>3. out.data = pos
    BY <1>0, <2>1, <2>2 DEF QueueInOrder, AheadBound
  <2> QED
    BY <2>1, <2>3 DEF Stream!Next, Stream!EndOfData
<1>6. CASE GiveBack
  <2>1. worker' \in {worker, "woken"} /\ (worker' # worker => worker = "blocked")
        /\ pos' = pos /\ out' = out /\ ended' = ended
    BY <1>6 DEF GiveBack, Signalled, IsWaiting
  <2> QED
    BY <2>1 DEF Stream!vars
<1>7. CASE \/ RunEnter /\ UNCHANGED clientVars
           \/ RunExit /\ UNCHANGED clientVars
           \/ WaitReturns /\ UNCHANGED clientVars
           \/ WaitForBuffer \/ TakeBuffer \/ PushPacket \/ PutBackLoad \/ PutBackStore
  BY <1>7 DEF RunEnter, RunExit, WaitReturns, WaitForBuffer, TakeBuffer, PushPacket,
              PutBackLoad, PutBackStore, clientVars, Stream!vars
<1>8. CASE MainBaseStep("emptyLists") /\ UNCHANGED clientVars
  BY <1>8 DEF MainBaseStep, StartDone, StopTest, StopSet, StopPoll, StopReturns, BaseDtor,
              Join, Signalled, IsWaiting, clientVars, Stream!vars
<1>9. CASE PopPacket \/ EmptyLists \/ KillSon
  BY <1>9 DEF PopPacket, EmptyLists, KillSon, Stream!vars
<1>10. CASE (SpuriousWakeup \/ BeginDestroy) /\ UNCHANGED clientVars
  BY <1>10 DEF SpuriousWakeup, BeginDestroy, clientVars, Stream!vars
<1>11. CASE CallGet /\ UNCHANGED clientVars
  <2>1. worker' = worker \/ (worker = "none" /\ worker' = "begin")
    BY <1>11 DEF CallGet, Typed, Life, ThreadLife
  <2>2. pos' = pos /\ out' = out /\ ended' = ended
    BY <1>11 DEF clientVars
  <2> QED
    BY <2>1, <2>2 DEF Stream!vars
<1>12. CASE UNCHANGED vars
  BY <1>12 DEF vars, queueVars, clientVars, Stream!vars
<1> QED
  BY <1>1, <1>2, <1>3, <1>4, <1>5, <1>6, <1>7, <1>8, <1>9, <1>10, <1>11, <1>12
     DEF Next, WorkerStep, WorkerBaseStep, MainStep

(* The threaded access implements the bounded in-order stream.             *)
THEOREM Refinement == Spec => StreamRefined
<1>1. Init => Stream!Init
  BY DEF Init, QueueInit, Stream!Init
<1>2. Init => EndedLast
  BY DEF Init, EndedLast
<1>3. Spec => [](Typed /\ Conserved /\ QueueInOrder /\ AheadBound /\ EndedLast)
  BY <1>2, EndStep, OrderInvariant, PTL DEF Spec
<1> QED
  BY <1>1, <1>3, StreamStep, PTL DEF Spec, StreamRefined, Stream!Spec
=============================================================================
