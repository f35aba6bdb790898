------------------------ MODULE VideoFilterQueue_proofs ------------------------
(***************************************************************************)
(* Proofs about VideoFilterQueue, for every number of images and frames    *)
(* and every length of the wait in stopThread().                           *)
(***************************************************************************)
EXTENDS VideoFilterQueue, BasicFacts

USE DEF ownerVars, workerVars

-----------------------------------------------------------------------------
(* The worker holds an image exactly between TakeImage and the action that *)
(* queues it or gives it back; a frame about to be queued has a number.    *)
HandHeld ==
    /\ worker \in {"source", "push", "putBack"} <=> hand # NoBuffer
    /\ worker = "push" => pos \in Frames /\ image[hand] = pos

(* The owner is inside the destructor and stopThread() has had its say.    *)
PastStop == {"poll", "deleteFree", "clearFree", "deleteList", "clearList",
             "baseDtor", "join", "gone"}

(* How threadState, started and the two threads go together.               *)
ThreadLife ==
    /\ ~started /\ main # "starting" => worker = "none"
    /\ worker = "begin" => main = "starting"
    /\ worker \in {"none", "begin"} <=> threadState = "Idle"
    /\ threadState = "Stopped" => worker = "exited"
    /\ worker = "exited" => threadState \in {"Stopped", "StopOrder"}
    /\ main \in PastStop => worker \in {"none", "exited"} \/ threadState = "StopOrder"
    /\ main = "stopSet" => threadState # "Idle"
    /\ main = "gone" => worker \in {"none", "exited"}

(* The part of TypeOK that the base class owns.                            *)
QueueTypeOK ==
    /\ main \in MainPlace
    /\ worker \in WorkerPlace
    /\ threadState \in RunStates
    /\ started \in BOOLEAN
    /\ clock \in 0 .. ClockDown

LEMMA LifeStep == QueueTypeOK /\ ThreadLife /\ [Next]_vars => QueueTypeOK' /\ ThreadLife'
<1> USE ClockDownAssumption
    DEF QueueTypeOK, ThreadLife, PastStop, MainPlace, WorkerPlace, MainPlaces,
        WorkerPlaces, RunStates
<1> SUFFICES ASSUME QueueTypeOK, ThreadLife, [Next]_vars PROVE QueueTypeOK' /\ ThreadLife'
  OBVIOUS
<1>1. CASE RunEnter \/ RunExit
  BY <1>1 DEF RunEnter, RunExit
<1>2. CASE CheckStop \/ WaitReturns
  BY <1>2 DEF CheckStop, WaitReturns
<1>3. CASE WaitForImage \/ SeeStopOrder \/ TakeImage
  BY <1>3 DEF WaitForImage, SeeStopOrder, TakeImage
<1>4. CASE SourceFrame \/ SourceEnd \/ PushFrame \/ PutBack
  BY <1>4 DEF SourceFrame, SourceEnd, PushFrame, PutBack
<1>5. CASE StartDone \/ StopTest("deleteFree")
  BY <1>5 DEF StartDone, StopTest
<1>6. CASE StopSet
  BY <1>6 DEF StopSet, Signalled, IsWaiting
<1>7. CASE StopPoll \/ StopReturns("deleteFree")
  BY <1>7 DEF StopPoll, StopReturns
<1>8. CASE BaseDtor \/ Join
  BY <1>8 DEF BaseDtor, Join, Signalled, IsWaiting
<1>9. CASE GetFrame
  BY <1>9 DEF GetFrame, Signalled, IsWaiting
<1>10. CASE NoMoreData \/ Dtor
  BY <1>10 DEF NoMoreData, Dtor, DeleteFree, ClearFree, DeleteList, ClearList
<1>11. CASE SpuriousWakeup \/ CallGet \/ BeginDestroy
  BY <1>11 DEF SpuriousWakeup, CallGet, BeginDestroy
<1>12. CASE UNCHANGED vars
  BY <1>12 DEF vars, queueVars
<1> QED
  BY <1>1, <1>2, <1>3, <1>4, <1>5, <1>6, <1>7, <1>8, <1>9, <1>10, <1>11, <1>12
     DEF Next, WorkerStep, MainStep, WorkerBaseStep, MainBaseStep

(* The part of TypeOK that the derived class owns.                         *)
ClientTypeOK ==
    /\ list \in Seq(Packet)
    /\ freeList \in Seq(Buffers)
    /\ hand \in Buffers \cup {NoBuffer}
    /\ image \in [Buffers -> 1 .. Torn]
    /\ pos \in 0 .. NumItems
    /\ out \in [pts : 0 .. NumItems, picture : 0 .. Torn]
    /\ ended \in BOOLEAN
    /\ freed \in SUBSET Buffers

(* What a slot holds is written, and read, within bounds.                  *)
LEMMA SlotWritten == \A f \in [Buffers -> 1 .. Torn], b \in Buffers :
    /\ [f EXCEPT ![b] = Torn] \in [Buffers -> 1 .. Torn]
    /\ f[b] \in 0 .. Torn
<1>1. Torn \in Nat /\ Torn \in 1 .. Torn
  BY NumItemsAssumption DEF Torn
<1>2. \A v \in 1 .. Torn : v \in 0 .. Torn
  BY <1>1
<1> HIDE DEF Buffers, Torn
<1> QED
  BY <1>1, <1>2

LEMMA ClientTypeStep ==
    ClientTypeOK /\ HandHeld /\ ThreadLife /\ [Next]_vars => ClientTypeOK' /\ HandHeld'
<1> USE NumBuffersAssumption, NumItemsAssumption, ClockDownAssumption
    DEF Buffers, NoBuffer, Torn, Frames, Packet
<1> SUFFICES ASSUME ClientTypeOK, HandHeld, ThreadLife, [Next]_vars
             PROVE  ClientTypeOK' /\ HandHeld'
  OBVIOUS
<1> USE DEF ClientTypeOK, HandHeld
<1>1. CASE WorkerBaseStep /\ UNCHANGED clientVars
  BY <1>1 DEF WorkerBaseStep, RunEnter, RunExit, CheckStop, WaitReturns, clientVars
<1>2. CASE WaitForImage \/ SeeStopOrder
  BY <1>2 DEF WaitForImage, SeeStopOrder, clientVars
<1>3. CASE TakeImage
  <2>1. Head(freeList) \in Buffers /\ Tail(freeList) \in Seq(Buffers)
    BY <1>3, Popped DEF TakeImage
  <2>2. [image EXCEPT ![Head(freeList)] = Torn] \in [Buffers -> 1 .. Torn]
    BY <2>1, SlotWritten, Zenon
  <2>3. /\ hand' \in Buffers /\ hand' # NoBuffer /\ freeList' \in Seq(Buffers)
        /\ image' \in [Buffers -> 1 .. Torn]
    <3>1. /\ hand' = Head(freeList) /\ freeList' = Tail(freeList)
          /\ image' = [image EXCEPT ![Head(freeList)] = Torn]
      BY <1>3, Zenon DEF TakeImage
    <3>2. Head(freeList) # NoBuffer
      BY <2>1
    <3> QED
      BY <2>1, <2>2, <3>1, <3>2, Zenon
  <2>4. worker' = "source" /\ UNCHANGED <<list, pos, out, ended, freed>>
    BY <1>3 DEF TakeImage
  <2> QED
    BY <2>3, <2>4
<1>4. CASE SourceFrame
  BY <1>4 DEF SourceFrame
<1>5. CASE SourceEnd
  BY <1>5 DEF SourceEnd, clientVars
<1>6. CASE PushFrame
  <2>1. [buf |-> hand, pts |-> pos] \in Packet
    BY <1>6 DEF PushFrame
  <2>2. list' \in Seq(Packet)
    BY <1>6, <2>1, OneAppended DEF PushFrame
  <2> QED
    BY <1>6, <2>2 DEF PushFrame
<1>7. CASE PutBack
  BY <1>7, OneAppended DEF PutBack
<1>8. CASE MainBaseStep("deleteFree") /\ UNCHANGED clientVars
  BY <1>8 DEF MainBaseStep, StartDone, StopTest, StopSet, StopPoll, StopReturns,
              BaseDtor, Join, Signalled, IsWaiting, clientVars
<1>9. CASE GetFrame
  <2>1. Head(list) \in Packet /\ Tail(list) \in Seq(Packet)
    BY <1>9, Popped DEF GetFrame
  <2>2. Head(list).buf \in Buffers /\ Head(list).pts \in Frames
    BY <2>1
  <2>3. Append(freeList, Head(list).buf) \in Seq(Buffers)
    BY <2>2, OneAppended
  <2>4. out' \in [pts : 0 .. NumItems, picture : 0 .. Torn]
    <3>1. image[Head(list).buf] \in 0 .. Torn
      BY <2>2, SlotWritten, Zenon
    <3>2. Head(list).pts \in 0 .. NumItems
      BY <2>2
    <3>3. out' = [pts |-> Head(list).pts, picture |-> image[Head(list).buf]]
      BY <1>9 DEF GetFrame
    <3> QED
      BY <3>1, <3>2, <3>3
  <2>5. worker' \in {"source", "push", "putBack"} <=> worker \in {"source", "push", "putBack"}
    BY <1>9 DEF GetFrame, Signalled, IsWaiting
  <2>6. worker' = "push" <=> worker = "push"
    BY <1>9 DEF GetFrame, Signalled, IsWaiting
  <2> QED
    BY <1>9, <2>1, <2>3, <2>4, <2>5, <2>6 DEF GetFrame
<1>10. CASE NoMoreData
  BY <1>10 DEF NoMoreData
<1>11. CASE DeleteFree
  <2>1. \A i \in DOMAIN freeList : freeList[i] \in Buffers
    BY ElementOfSeq, LenProperties
  <2> QED
    BY <1>11, <2>1 DEF DeleteFree
<1>12. CASE ClearFree
  BY <1>12 DEF ClearFree
<1>13. CASE DeleteList
  <2>1. \A i \in DOMAIN list : list[i] \in Packet
    BY ElementOfSeq, LenProperties
  <2>2. Images(list) \subseteq Buffers
    BY <2>1 DEF Images
  <2> QED
    BY <1>13, <2>2 DEF DeleteList
<1>14. CASE ClearList
  BY <1>14 DEF ClearList
<1>15. CASE (SpuriousWakeup \/ CallGet \/ BeginDestroy) /\ UNCHANGED clientVars
  BY <1>15 DEF SpuriousWakeup, CallGet, BeginDestroy, ThreadLife, clientVars
<1>16. CASE UNCHANGED vars
  BY <1>16 DEF vars, queueVars, clientVars
<1> QED
  BY <1>1, <1>2, <1>3, <1>4, <1>5, <1>6, <1>7, <1>8, <1>9, <1>10, <1>11, <1>12,
     <1>13, <1>14, <1>15, <1>16 DEF Next, WorkerStep, MainStep, Dtor

LEMMA TypeStep ==
    TypeOK /\ HandHeld /\ ThreadLife /\ [Next]_vars => TypeOK' /\ HandHeld' /\ ThreadLife'
<1>1. TypeOK <=> QueueTypeOK /\ ClientTypeOK
  BY DEF TypeOK, QueueTypeOK, ClientTypeOK
<1>2. TypeOK' <=> QueueTypeOK' /\ ClientTypeOK'
  BY DEF TypeOK, QueueTypeOK, ClientTypeOK
<1> QED
  BY <1>1, <1>2, LifeStep, ClientTypeStep

LEMMA InitType == Init => TypeOK /\ HandHeld /\ ThreadLife
<1> USE NumBuffersAssumption, NumItemsAssumption, ClockDownAssumption
<1> SUFFICES ASSUME Init PROVE TypeOK /\ HandHeld /\ ThreadLife
  OBVIOUS
<1>1. freeList \in Seq(Buffers)
  BY IsASeq DEF Init, Buffers
<1>2. list \in Seq(Packet)
  BY EmptySeq DEF Init
<1>3. image \in [Buffers -> 1 .. Torn] /\ pos \in 0 .. NumItems
  BY DEF Init, Torn
<1>4. out \in [pts : 0 .. NumItems, picture : 0 .. Torn]
  BY DEF Init, Torn
<1>5. clock \in 0 .. ClockDown
  BY DEF Init, QueueInit
<1> QED
  BY <1>1, <1>2, <1>3, <1>4, <1>5
     DEF Init, QueueInit, TypeOK, HandHeld, ThreadLife, PastStop, MainPlace, WorkerPlace,
         MainPlaces, WorkerPlaces, RunStates

LEMMA TypeInvariant == Spec => [](TypeOK /\ HandHeld /\ ThreadLife)
BY InitType, TypeStep, PTL DEF Spec

(* Every variable of the queue keeps its type.                             *)
THEOREM TypeCorrect == Spec => []TypeOK
BY TypeInvariant, PTL

(* ~ADM_threadQueue() never finds a thread that is still Running.          *)
THEOREM NeverPolls == Spec => []BaseDtorNeverPolls
<1>1. ThreadLife => BaseDtorNeverPolls
  BY DEF ThreadLife, PastStop, BaseDtorNeverPolls
<1> QED
  BY <1>1, TypeInvariant, PTL

(* The object is gone only after its thread.                               *)
THEOREM ThreadGone == Spec => []ThreadGoneFirst
<1>1. ThreadLife => ThreadGoneFirst
  BY DEF ThreadLife, ThreadGoneFirst
<1> QED
  BY <1>1, TypeInvariant, PTL

-----------------------------------------------------------------------------
(* The data of the queue: the lists, the images and what was delivered.    *)
Data == <<list, freeList, hand, image, pos, out>>

(* The steps that move no data.  None of them makes the lists Intact again *)
(* or changes whether a frame waits to be queued.                          *)
Quiet ==
    /\ UNCHANGED Data
    /\ Intact' => Intact
    /\ worker' \in {"push", "source"} \/ worker \in {"push", "source"} =>
          worker' = worker \/ (worker = "source" /\ worker' = "putBack")

LEMMA QuietSteps ==
    ASSUME ThreadLife, [Next]_vars
    PROVE  \/ TakeImage \/ SourceFrame \/ PushFrame \/ PutBack \/ GetFrame
           \/ ClearFree \/ ClearList \/ Quiet
<1> USE DEF Quiet, Data, Intact
<1>1. CASE WorkerBaseStep /\ UNCHANGED clientVars
  BY <1>1 DEF WorkerBaseStep, RunEnter, RunExit, CheckStop, WaitReturns, clientVars
<1>2. CASE WaitForImage \/ SeeStopOrder \/ SourceEnd
  BY <1>2 DEF WaitForImage, SeeStopOrder, SourceEnd, clientVars
<1>3. CASE MainBaseStep("deleteFree") /\ UNCHANGED clientVars
  <2>1. CASE StartDone \/ StopTest("deleteFree") \/ StopPoll \/ StopReturns("deleteFree") \/ Join
    BY <1>3, <2>1 DEF StartDone, StopTest, StopPoll, StopReturns, Join, clientVars
  <2>2. CASE StopSet \/ BaseDtor
    BY <1>3, <2>2 DEF StopSet, BaseDtor, Signalled, IsWaiting, clientVars
  <2> QED
    BY <1>3, <2>1, <2>2 DEF MainBaseStep
<1>4. CASE NoMoreData \/ DeleteFree \/ DeleteList
  BY <1>4 DEF NoMoreData, DeleteFree, DeleteList
<1>5. CASE (SpuriousWakeup \/ CallGet \/ BeginDestroy) /\ UNCHANGED clientVars
  <2>1. CASE SpuriousWakeup \/ BeginDestroy
    BY <1>5, <2>1 DEF SpuriousWakeup, BeginDestroy, clientVars
  <2>2. CASE CallGet
    BY <1>5, <2>2 DEF CallGet, ThreadLife, clientVars
  <2> QED
    BY <1>5, <2>1, <2>2
<1>6. CASE UNCHANGED vars
  BY <1>6 DEF vars, queueVars, clientVars
<1> QED
  BY <1>1, <1>2, <1>3, <1>4, <1>5, <1>6 DEF Next, WorkerStep, MainStep, Dtor

-----------------------------------------------------------------------------
(* The elements of the two lists are images and packets of images.         *)
LEMMA ListElements ==
    ASSUME TypeOK
    PROVE  /\ Len(freeList) \in Nat /\ DOMAIN freeList = 1 .. Len(freeList)
           /\ Len(list) \in Nat /\ DOMAIN list = 1 .. Len(list)
           /\ \A i \in 1 .. Len(freeList) : freeList[i] \in Buffers
           /\ \A i \in 1 .. Len(list) : list[i] \in Packet /\ list[i].buf \in Buffers
<1>1. freeList \in Seq(Buffers) /\ list \in Seq(Packet)
  BY DEF TypeOK
<1>2. \A i \in 1 .. Len(list) : list[i] \in Packet
  BY <1>1, ElementOfSeq
<1> QED
  BY <1>1, <1>2, LenProperties, ElementOfSeq DEF Packet

LEMMA InitConserved == Init => ImagesConserved
<1> SUFFICES ASSUME Init PROVE ImagesConserved
  OBVIOUS
<1>1. Len(freeList) = NumBuffers /\ DOMAIN freeList = 1 .. NumBuffers
  BY NumBuffersAssumption, LenProperties, IsASeq DEF Init, Buffers
<1>2. Len(list) = 0 /\ DOMAIN list = {}
  BY EmptySeq DEF Init
<1>3. \A i \in DOMAIN freeList : freeList[i] = i
  BY <1>1 DEF Init, Buffers
<1> QED
  BY <1>1, <1>2, <1>3, NumBuffersAssumption DEF Init, ImagesConserved, HandCount, NoBuffer

LEMMA ConservedStep ==
    ASSUME TypeOK, HandHeld, ThreadLife, ImagesConserved, [Next]_vars
    PROVE  ImagesConserved'
<1> USE NumBuffersAssumption DEF HandCount, NoBuffer
<1>0. /\ Len(freeList) \in Nat /\ DOMAIN freeList = 1 .. Len(freeList)
      /\ Len(list) \in Nat /\ DOMAIN list = 1 .. Len(list)
      /\ \A i \in 1 .. Len(freeList) : freeList[i] \in Buffers /\ freeList[i] # 0
      /\ \A i \in 1 .. Len(list) : list[i].buf \in Buffers /\ list[i].buf # 0
  BY ListElements DEF Buffers
<1>1. CASE TakeImage
  <2>1. /\ hand' = freeList[1] /\ hand' \in Buffers
        /\ Len(freeList') = Len(freeList) - 1 /\ DOMAIN freeList' = 1 .. (Len(freeList) - 1)
        /\ \A i \in 1 .. (Len(freeList) - 1) : freeList'[i] = freeList[i + 1]
        /\ Len(freeList) > 0
    BY <1>1, Popped DEF TakeImage, TypeOK
  <2>2. list' = list /\ Intact' = Intact /\ hand = 0
    BY <1>1 DEF TakeImage, Intact, HandHeld
  <2>3. /\ 1 \in DOMAIN freeList
        /\ \A i \in DOMAIN freeList' :
              i \in Nat /\ i + 1 \in DOMAIN freeList /\ i + 1 # 1 /\ freeList'[i] = freeList[i + 1]
    BY <1>0, <2>1
  <2>5. \A i, j \in DOMAIN freeList' : freeList'[i] = freeList'[j] => i = j
    <3> SUFFICES ASSUME NEW i \in DOMAIN freeList', NEW j \in DOMAIN freeList',
                        freeList'[i] = freeList'[j]
                 PROVE  i = j
      OBVIOUS
    <3>1. i + 1 = j + 1
      BY <2>3 DEF ImagesConserved
    <3> QED
      BY <2>3, <3>1
  <2>6. \A i, j \in DOMAIN list' : list'[i].buf = list'[j].buf => i = j
    BY <2>2 DEF ImagesConserved
  <2>7. \A i \in DOMAIN freeList', j \in DOMAIN list' : freeList'[i] # list'[j].buf
    BY <2>2, <2>3 DEF ImagesConserved
  <2>8. \A i \in DOMAIN freeList' : freeList'[i] # hand'
    BY <2>1, <2>3 DEF ImagesConserved
  <2>9. \A j \in DOMAIN list' : list'[j].buf # hand'
    BY <2>1, <2>2, <2>3 DEF ImagesConserved
  <2>10. Intact' => Len(freeList') + Len(list') + HandCount' = NumBuffers
    <3>1. HandCount = 0 /\ HandCount' = 1
      BY <2>1, <2>2 DEF Buffers
    <3>2. Len(freeList') = Len(freeList) - 1 /\ Len(list') = Len(list) /\ Intact' = Intact
      BY <2>1, <2>2
    <3>3. Len(freeList) \in Nat /\ Len(list) \in Nat
      BY <1>0
    <3>4. Intact => Len(freeList) + Len(list) + HandCount = NumBuffers
      BY DEF ImagesConserved
    <3> HIDE DEF HandCount
    <3> QED
      BY <3>1, <3>2, <3>3, <3>4
  <2> QED
    BY <2>5, <2>6, <2>7, <2>8, <2>9, <2>10 DEF ImagesConserved
<1>2. CASE SourceFrame
  BY <1>2 DEF SourceFrame, Intact, ImagesConserved
<1>3. CASE PushFrame
  <2>0. hand \in Buffers /\ pos \in Frames /\ hand # 0
    BY <1>3 DEF PushFrame, HandHeld, TypeOK
  <2>1. [buf |-> hand, pts |-> pos] \in Packet
    BY <2>0 DEF Packet
  <2>2. /\ Len(list') = Len(list) + 1 /\ DOMAIN list' = 1 .. (Len(list) + 1)
        /\ \A i \in 1 .. Len(list) : list'[i] = list[i]
        /\ list'[Len(list) + 1].buf = hand
    BY <1>3, <2>1, OneAppended DEF PushFrame, TypeOK
  <2>3. freeList' = freeList /\ Intact' = Intact /\ hand' = 0
    BY <1>3 DEF PushFrame, Intact
  <2>5. \A i, j \in DOMAIN freeList' : freeList'[i] = freeList'[j] => i = j
    BY <1>0, <2>0, <2>2, <2>3 DEF ImagesConserved
  <2>6. \A i, j \in DOMAIN list' : list'[i].buf = list'[j].buf => i = j
    BY <1>0, <2>0, <2>2, <2>3 DEF ImagesConserved
  <2>7. \A i \in DOMAIN freeList', j \in DOMAIN list' : freeList'[i] # list'[j].buf
    BY <1>0, <2>0, <2>2, <2>3 DEF ImagesConserved
  <2>8. \A i \in DOMAIN freeList' : freeList'[i] # hand'
    BY <1>0, <2>0, <2>2, <2>3 DEF ImagesConserved
  <2>9. \A j \in DOMAIN list' : list'[j].buf # hand'
    BY <1>0, <2>0, <2>2, <2>3 DEF ImagesConserved
  <2>10. Intact' => Len(freeList') + Len(list') + HandCount' = NumBuffers
    BY <1>0, <2>0, <2>2, <2>3 DEF ImagesConserved
  <2> QED
    BY <2>5, <2>6, <2>7, <2>8, <2>9, <2>10 DEF ImagesConserved
<1>4. CASE PutBack
  <2>0. hand \in Buffers /\ hand # 0
    BY <1>4 DEF PutBack, HandHeld, TypeOK
  <2>1. /\ Len(freeList') = Len(freeList) + 1 /\ DOMAIN freeList' = 1 .. (Len(freeList) + 1)
        /\ \A i \in 1 .. Len(freeList) : freeList'[i] = freeList[i]
        /\ freeList'[Len(freeList) + 1] = hand
    BY <1>4, <2>0, OneAppended DEF PutBack, TypeOK
  <2>2. list' = list /\ Intact' = Intact /\ hand' = 0
    BY <1>4 DEF PutBack, Intact
  <2>5. \A i, j \in DOMAIN freeList' : freeList'[i] = freeList'[j] => i = j
    BY <1>0, <2>0, <2>1, <2>2 DEF ImagesConserved
  <2>6. \A i, j \in DOMAIN list' : list'[i].buf = list'[j].buf => i = j
    BY <1>0, <2>0, <2>1, <2>2 DEF ImagesConserved
  <2>7. \A i \in DOMAIN freeList', j \in DOMAIN list' : freeList'[i] # list'[j].buf
    BY <1>0, <2>0, <2>1, <2>2 DEF ImagesConserved
  <2>8. \A i \in DOMAIN freeList' : freeList'[i] # hand'
    BY <1>0, <2>0, <2>1, <2>2 DEF ImagesConserved
  <2>9. \A j \in DOMAIN list' : list'[j].buf # hand'
    BY <1>0, <2>0, <2>1, <2>2 DEF ImagesConserved
  <2>10. Intact' => Len(freeList') + Len(list') + HandCount' = NumBuffers
    BY <1>0, <2>0, <2>1, <2>2 DEF ImagesConserved
  <2> QED
    BY <2>5, <2>6, <2>7, <2>8, <2>9, <2>10 DEF ImagesConserved
<1>5. CASE GetFrame
  <2>1. /\ list \in Seq(Packet) /\ list # <<>> /\ Head(list) = list[1] /\ Head(list) \in Packet
        /\ Len(list') = Len(list) - 1 /\ DOMAIN list' = 1 .. (Len(list) - 1)
        /\ \A i \in 1 .. (Len(list) - 1) : list'[i] = list[i + 1]
        /\ Len(list) > 0
    BY <1>5, Popped DEF GetFrame, TypeOK
  <2>2. Head(list).buf \in Buffers
    BY <2>1 DEF Packet
  <2>3. /\ Len(freeList') = Len(freeList) + 1 /\ DOMAIN freeList' = 1 .. (Len(freeList) + 1)
        /\ \A i \in 1 .. Len(freeList) : freeList'[i] = freeList[i]
        /\ freeList'[Len(freeList) + 1] = list[1].buf
    BY <1>5, <2>1, <2>2, OneAppended DEF GetFrame, TypeOK
  <2>4. hand' = hand /\ Intact' = Intact
    BY <1>5 DEF GetFrame, Intact
  <2>41. /\ DOMAIN list' = 1 .. (Len(list) - 1)
         /\ \A i \in 1 .. (Len(list) - 1) : i + 1 \in 1 .. Len(list) /\ list'[i].buf = list[i + 1].buf
    BY <2>1, <1>0
  <2>5. \A i, j \in DOMAIN freeList' : freeList'[i] = freeList'[j] => i = j
    BY <1>0, <2>1, <2>2, <2>3, <2>4 DEF ImagesConserved
  <2>6. \A i, j \in DOMAIN list' : list'[i].buf = list'[j].buf => i = j
    <3> SUFFICES ASSUME NEW i \in 1 .. (Len(list) - 1), NEW j \in 1 .. (Len(list) - 1),
                        list[i + 1].buf = list[j + 1].buf
                 PROVE  i = j
      BY <2>41
    <3>1. i + 1 \in 1 .. Len(list) /\ j + 1 \in 1 .. Len(list)
      BY <2>41
    <3>2. i + 1 = j + 1
      BY <1>0, <3>1 DEF ImagesConserved
    <3> QED
      BY <1>0, <3>2
  <2>7. \A i \in DOMAIN freeList', j \in DOMAIN list' : freeList'[i] # list'[j].buf
    <3> SUFFICES ASSUME NEW i \in 1 .. (Len(freeList) + 1), NEW j \in 1 .. (Len(list) - 1)
                 PROVE  freeList'[i] # list[j + 1].buf
      BY <2>3, <2>41
    <3>1. j + 1 \in 1 .. Len(list) /\ 1 \in 1 .. Len(list) /\ j + 1 # 1
      BY <1>0, <2>1
    <3>2. CASE i \in 1 .. Len(freeList)
      BY <1>0, <2>3, <3>1, <3>2 DEF ImagesConserved
    <3>3. CASE i = Len(freeList) + 1
      BY <1>0, <2>3, <3>1, <3>3 DEF ImagesConserved
    <3> QED
      BY <1>0, <3>2, <3>3
  <2>8. \A i \in DOMAIN freeList' : freeList'[i] # hand'
    BY <1>0, <2>1, <2>2, <2>3, <2>4 DEF ImagesConserved
  <2>9. \A j \in DOMAIN list' : list'[j].buf # hand'
    BY <1>0, <2>1, <2>2, <2>3, <2>4 DEF ImagesConserved
  <2>10. Intact' => Len(freeList') + Len(list') + HandCount' = NumBuffers
    <3>1. Len(freeList') = Len(freeList) + 1 /\ Len(list') = Len(list) - 1
      BY <2>1, <2>3
    <3>2. HandCount' = HandCount /\ HandCount \in {0, 1} /\ Intact' = Intact
      BY <2>4
    <3>3. Len(freeList) \in Nat /\ Len(list) \in Nat
      BY <1>0
    <3>4. Intact => Len(freeList) + Len(list) + HandCount = NumBuffers
      BY DEF ImagesConserved
    <3> HIDE DEF HandCount
    <3> QED
      BY <3>1, <3>2, <3>3, <3>4
  <2> QED
    BY <2>5, <2>6, <2>7, <2>8, <2>9, <2>10 DEF ImagesConserved
<1>6. CASE ClearFree
  <2>1. freeList' = <<>> /\ DOMAIN freeList' = {} /\ list' = list /\ hand' = hand /\ ~Intact'
    BY <1>6 DEF ClearFree, Intact
  <2> QED
    BY <2>1 DEF ImagesConserved
<1>7. CASE ClearList
  <2>1. list' = <<>> /\ DOMAIN list' = {} /\ freeList' = freeList /\ hand' = hand /\ ~Intact'
    BY <1>7 DEF ClearList, Intact
  <2> QED
    BY <2>1 DEF ImagesConserved
<1>8. CASE Quiet
  BY <1>8 DEF Quiet, Data, ImagesConserved
<1> QED
  BY <1>1, <1>2, <1>3, <1>4, <1>5, <1>6, <1>7, <1>8, QuietSteps

(* No image is lost, and none is in two places.                            *)
THEOREM Conservation == Spec => []ImagesConserved
BY InitConserved, ConservedStep, TypeInvariant, PTL DEF Spec

-----------------------------------------------------------------------------
(* The worker is never more than NumBuffers frames ahead of the consumer,  *)
(* the one it is about to ask for included.                                *)
AheadBound ==
    /\ out.pts = out.picture
    /\ out.picture <= pos
    /\ pos - out.picture + (IF worker = "source" THEN 1 ELSE 0) <= NumBuffers

(* An image is taken only before the stop order, so from intact lists.     *)
LEMMA TakenIntact ==
    ASSUME TypeOK, ThreadLife, TakeImage
    PROVE  Intact /\ main \notin PastStop
BY DEF TypeOK, ThreadLife, TakeImage, Intact, PastStop

LEMMA OrderStep ==
    ASSUME TypeOK, HandHeld, ThreadLife, ImagesConserved, QueueInOrder, AheadBound, [Next]_vars
    PROVE  QueueInOrder' /\ AheadBound'
<1> USE NumBuffersAssumption, NumItemsAssumption
<1>0. /\ Len(freeList) \in Nat /\ DOMAIN freeList = 1 .. Len(freeList)
      /\ Len(list) \in Nat /\ DOMAIN list = 1 .. Len(list)
      /\ \A i \in 1 .. Len(freeList) : freeList[i] \in Buffers /\ freeList[i] # 0
      /\ \A i \in 1 .. Len(list) : list[i].buf \in Buffers /\ list[i].buf # 0
      /\ pos \in Nat /\ out.pts \in Nat /\ out.picture \in Nat
      /\ image \in [Buffers -> 1 .. Torn]
  <2>1. \A b \in Buffers : b # 0
    BY DEF Buffers
  <2>2. pos \in Nat /\ out.pts \in Nat /\ out.picture \in Nat /\ image \in [Buffers -> 1 .. Torn]
    BY DEF TypeOK, Torn
  <2> QED
    BY <2>1, <2>2, ListElements
<1>00. Len(list) \in Nat /\ pos \in Nat /\ out.pts \in Nat /\ out.picture \in Nat
  BY <1>0
<1>1. CASE TakeImage
  <2>1. Intact
    BY <1>1, TakenIntact
  <2>2. Len(freeList) > 0 /\ Head(freeList) = freeList[1]
    BY <1>1, Popped DEF TakeImage, TypeOK
  <2>3. \A i \in 1 .. Len(list) : image'[list[i].buf] = image[list[i].buf]
    BY <1>0, <1>1, <2>2 DEF TakeImage, ImagesConserved
  <2>4. Len(list) < NumBuffers
    BY <1>0, <2>1, <2>2 DEF ImagesConserved, HandCount
  <2>5. list' = list /\ pos' = pos /\ out' = out /\ worker = "take" /\ worker' = "source"
    BY <1>1 DEF TakeImage
  <2>6. QueueInOrder'
    BY <1>0, <2>1, <2>3, <2>5 DEF QueueInOrder
  <2>7. pos = out.pts + Len(list)
    BY <2>1, <2>5, <1>0 DEF QueueInOrder
  <2> QED
    BY <1>0, <2>4, <2>5, <2>6, <2>7 DEF AheadBound
<1>2. CASE SourceFrame
  <2>1. \A i \in 1 .. Len(list) : image'[list[i].buf] = image[list[i].buf]
    BY <1>0, <1>2 DEF SourceFrame, ImagesConserved
  <2>2. /\ list' = list /\ pos' = pos + 1 /\ out' = out /\ worker = "source" /\ worker' = "push"
        /\ Intact' = Intact
    BY <1>2 DEF SourceFrame, Intact
  <2>3. QueueInOrder'
    BY <1>0, <2>1, <2>2 DEF QueueInOrder
  <2> QED
    BY <1>0, <2>2, <2>3 DEF AheadBound
<1>3. CASE PushFrame
  <2>0. hand \in Buffers /\ pos \in Frames /\ image[hand] = pos
    BY <1>3 DEF PushFrame, HandHeld, TypeOK, NoBuffer
  <2>1. [buf |-> hand, pts |-> pos] \in Packet
    BY <2>0 DEF Packet
  <2>2. /\ Len(list') = Len(list) + 1 /\ DOMAIN list' = 1 .. (Len(list) + 1)
        /\ \A i \in 1 .. Len(list) : list'[i] = list[i]
        /\ list'[Len(list) + 1] = [buf |-> hand, pts |-> pos]
    BY <1>3, <2>1, OneAppended DEF PushFrame, TypeOK
  <2>3. /\ image' = image /\ pos' = pos /\ out' = out /\ worker = "push" /\ worker' = "check"
        /\ Intact' = Intact
    BY <1>3 DEF PushFrame, Intact
  <2>4. ASSUME Intact PROVE QueueInOrder'
    <3>1. pos = out.pts + Len(list) + 1
      BY <2>3, <2>4 DEF QueueInOrder
    <3>2. \A i \in 1 .. (Len(list) + 1) :
             list'[i].pts = out.pts + i /\ image[list'[i].buf] = list'[i].pts
      <4> SUFFICES ASSUME NEW i \in 1 .. (Len(list) + 1)
                   PROVE  list'[i].pts = out.pts + i /\ image[list'[i].buf] = list'[i].pts
        OBVIOUS
      <4>1. CASE i \in 1 .. Len(list)
        BY <1>0, <2>2, <2>4, <4>1 DEF QueueInOrder
      <4>2. CASE i = Len(list) + 1
        <5>1. list'[i].pts = pos /\ list'[i].buf = hand
          BY <2>2, <4>2
        <5>2. out.pts + i = pos
          BY <1>00, <3>1, <4>2
        <5> QED
          BY <2>0, <5>1, <5>2
      <4> QED
        BY <1>0, <4>1, <4>2
    <3>3. out.pts = out.picture
      BY <2>4 DEF QueueInOrder
    <3>4. pos = out.pts + (Len(list) + 1)
      BY <1>00, <3>1
    <3>5. Len(list') = Len(list) + 1 /\ worker' # "push" /\ DOMAIN list' = 1 .. (Len(list) + 1)
      BY <2>2, <2>3
    <3>6. pos' = out'.pts + Len(list') + (IF worker' = "push" THEN 1 ELSE 0)
      BY <1>00, <2>3, <3>4, <3>5
    <3> QED
      BY <2>3, <3>2, <3>3, <3>5, <3>6 DEF QueueInOrder
  <2> QED
    BY <1>0, <2>3, <2>4 DEF AheadBound, QueueInOrder
<1>4. CASE PutBack
  <2>1. /\ list' = list /\ image' = image /\ pos' = pos /\ out' = out
        /\ worker = "putBack" /\ worker' = "finish" /\ Intact' = Intact
    BY <1>4 DEF PutBack, Intact
  <2> QED
    BY <1>0, <2>1 DEF QueueInOrder, AheadBound
<1>5. CASE GetFrame
  <2>1. Intact
    BY <1>5 DEF GetFrame, Intact
  <2>2. /\ Head(list) = list[1] /\ Len(list) > 0
        /\ Len(list') = Len(list) - 1 /\ DOMAIN list' = 1 .. (Len(list) - 1)
        /\ \A i \in 1 .. (Len(list) - 1) : list'[i] = list[i + 1] /\ i + 1 \in 1 .. Len(list)
    BY <1>0, <1>5, Popped DEF GetFrame, TypeOK
  <2>3. /\ out'.pts = list[1].pts /\ out'.picture = image[list[1].buf]
        /\ image' = image /\ pos' = pos
        /\ worker' = "push" <=> worker = "push"
        /\ worker' = "source" <=> worker = "source"
    BY <1>5, <2>2 DEF GetFrame, Signalled, IsWaiting
  <2> DEFINE pushing == IF worker = "push" THEN 1 ELSE 0
  <2>31. \A i \in 1 .. Len(list) : list[i].pts = out.pts + i /\ image[list[i].buf] = list[i].pts
    BY <1>0, <2>1 DEF QueueInOrder
  <2>4. list[1].pts = out.pts + 1 /\ image[list[1].buf] = out.pts + 1
    <3>1. 1 \in 1 .. Len(list)
      BY <1>0, <2>2
    <3> QED
      BY <2>31, <3>1
  <2>5. \A i \in 1 .. (Len(list) - 1) :
           list'[i].pts = out.pts + 1 + i /\ image[list'[i].buf] = list'[i].pts
    <3> SUFFICES ASSUME NEW i \in 1 .. (Len(list) - 1)
                 PROVE  list'[i].pts = out.pts + 1 + i /\ image[list'[i].buf] = list'[i].pts
      OBVIOUS
    <3>1. list'[i] = list[i + 1] /\ i + 1 \in 1 .. Len(list)
      BY <2>2
    <3>2. list[i + 1].pts = out.pts + (i + 1) /\ image[list[i + 1].buf] = list[i + 1].pts
      BY <2>31, <3>1
    <3>3. out.pts + (i + 1) = out.pts + 1 + i
      BY <1>00
    <3> QED
      BY <3>1, <3>2, <3>3
  <2>6. pos = out.pts + Len(list) + pushing
    BY <2>1 DEF QueueInOrder
  <2>61. pushing \in {0, 1} /\ pushing' = pushing
    BY <2>3
  <2>62. pos' = out'.pts + Len(list') + pushing'
    <3> HIDE DEF pushing
    <3> QED
      BY <1>0, <2>2, <2>3, <2>4, <2>6, <2>61
  <2>7. QueueInOrder'
    <3>1. out'.pts = out'.picture /\ out'.pts = out.pts + 1
      BY <2>3, <2>4
    <3>2. \A i \in DOMAIN list' : list'[i].pts = out'.pts + i /\ image'[list'[i].buf] = list'[i].pts
      BY <2>2, <2>3, <2>5, <3>1
    <3> QED
      BY <2>62, <3>1, <3>2 DEF QueueInOrder
  <2>8. AheadBound'
    <3>01. out'.pts = out'.picture /\ out'.picture = out.pts + 1
      BY <2>3, <2>4, Zenon
    <3>02. out.pts = out.picture
      BY <1>0, Zenon DEF AheadBound
    <3>03. out.pts + 1 <= pos
      <4> DEFINE n == Len(list)
                 m == out.pts
      <4>1. n > 0 /\ pos = m + n + pushing
        BY <2>2, <2>6, Zenon
      <4>2. n \in Nat /\ m \in Int
        BY <1>00
      <4> HIDE DEF n, m, pushing
      <4>3. m + 1 <= pos
        BY <4>1, <4>2, <2>61
      <4> QED
        BY <4>3, Zenon DEF m
    <3>1. out'.pts = out'.picture /\ out'.picture = out.picture + 1 /\ out.picture + 1 <= pos
      BY <3>01, <3>02, <3>03, Zenon
    <3> QED
      BY <1>0, <2>3, <3>1 DEF AheadBound
  <2> QED
    BY <2>7, <2>8
<1>6. CASE ClearFree \/ ClearList
  BY <1>6 DEF ClearFree, ClearList, Intact, QueueInOrder, AheadBound
<1>7. CASE Quiet
  <2>1. /\ list' = list /\ image' = image /\ pos' = pos /\ out' = out
        /\ Intact' => Intact
        /\ worker' = "push" <=> worker = "push"
        /\ worker' = "source" => worker = "source"
    BY <1>7 DEF Quiet, Data
  <2>2. QueueInOrder'
    BY <2>1 DEF QueueInOrder
  <2>3. AheadBound'
    BY <1>00, <2>1 DEF AheadBound
  <2> QED
    BY <2>2, <2>3
<1> QED
  BY <1>1, <1>2, <1>3, <1>4, <1>5, <1>6, <1>7, QuietSteps

LEMMA InitOrder == Init => QueueInOrder /\ AheadBound
<1> SUFFICES ASSUME Init PROVE QueueInOrder /\ AheadBound
  OBVIOUS
<1>1. Len(list) = 0 /\ DOMAIN list = {}
  BY EmptySeq DEF Init
<1> QED
  BY <1>1, NumBuffersAssumption DEF Init, QueueInit, QueueInOrder, AheadBound

(* The queue holds the frames produced and not delivered, in order, each   *)
(* in the image its packet names.                                          *)
THEOREM InOrder == Spec => []QueueInOrder
<1>1. Spec => [](ImagesConserved /\ QueueInOrder /\ AheadBound)
  BY InitOrder, OrderStep, InitConserved, ConservedStep, TypeInvariant, PTL DEF Spec
<1> QED
  BY <1>1, PTL

-----------------------------------------------------------------------------
(* The answer "no more data" is given once the worker is over and list is  *)
(* empty, and both stay so.                                                *)
EndedLast == ended => list = <<>> /\ worker = "exited"

(* Images are deleted in the destructor only, and never the worker's.      *)
DeleteSafe ==
    /\ freed # {} => main \in PastStop
    /\ NoUseAfterDelete

LEMMA EndStep ==
    ASSUME TypeOK, ThreadLife, EndedLast, [Next]_vars
    PROVE  EndedLast'
<1> USE DEF EndedLast
<1>1. CASE WorkerStep
  BY <1>1 DEF WorkerStep, WorkerBaseStep, RunEnter, RunExit, CheckStop, WaitReturns,
              WaitForImage, SeeStopOrder, TakeImage, SourceFrame, SourceEnd, PushFrame,
              PutBack, clientVars
<1>2. CASE MainBaseStep("deleteFree") /\ UNCHANGED clientVars
  BY <1>2 DEF MainBaseStep, StartDone, StopTest, StopSet, StopPoll, StopReturns, BaseDtor,
              Join, Signalled, clientVars
<1>3. CASE GetFrame \/ Dtor
  BY <1>3 DEF GetFrame, Dtor, DeleteFree, ClearFree, DeleteList, ClearList
<1>4. CASE NoMoreData
  BY <1>4 DEF NoMoreData, ThreadLife
<1>5. CASE (SpuriousWakeup \/ CallGet \/ BeginDestroy) /\ UNCHANGED clientVars
  BY <1>5 DEF SpuriousWakeup, CallGet, BeginDestroy, ThreadLife, clientVars
<1>6. CASE UNCHANGED vars
  BY <1>6 DEF vars, queueVars, clientVars
<1> QED
  BY <1>1, <1>2, <1>3, <1>4, <1>5, <1>6 DEF Next, MainStep

LEMMA DeleteStep ==
    ASSUME TypeOK, ThreadLife, ImagesConserved, DeleteSafe, [Next]_vars
    PROVE  DeleteSafe'
<1> USE DEF DeleteSafe, NoUseAfterDelete
<1>1. CASE TakeImage
  BY <1>1, TakenIntact DEF TakeImage
<1>2. CASE WorkerStep /\ ~TakeImage
  <2>1. freed' = freed /\ main' = main /\ (hand' = hand \/ hand' = NoBuffer)
    BY <1>2 DEF WorkerStep, WorkerBaseStep, RunEnter, RunExit, CheckStop, WaitReturns,
                WaitForImage, SeeStopOrder, SourceFrame, SourceEnd, PushFrame,
                PutBack, clientVars
  <2>2. NoBuffer \notin freed
    BY DEF TypeOK, Buffers, NoBuffer
  <2> QED
    BY <2>1, <2>2
<1>3. CASE MainBaseStep("deleteFree") /\ UNCHANGED clientVars
  BY <1>3 DEF MainBaseStep, StartDone, StopTest, StopSet, StopPoll, StopReturns, BaseDtor,
              Join, PastStop, clientVars
<1>4. CASE GetFrame \/ NoMoreData \/ ClearFree \/ ClearList
  BY <1>4 DEF GetFrame, NoMoreData, ClearFree, ClearList, PastStop
<1>5. CASE DeleteFree
  BY <1>5 DEF DeleteFree, ImagesConserved, PastStop
<1>6. CASE DeleteList
  BY <1>6 DEF DeleteList, ImagesConserved, Images, PastStop
<1>7. CASE (SpuriousWakeup \/ CallGet \/ BeginDestroy) /\ UNCHANGED clientVars
  BY <1>7 DEF SpuriousWakeup, CallGet, BeginDestroy, PastStop, clientVars
<1>8. CASE UNCHANGED vars
  BY <1>8 DEF vars, queueVars, clientVars
<1> QED
  BY <1>1, <1>2, <1>3, <1>4, <1>5, <1>6, <1>7, <1>8 DEF Next, MainStep, Dtor

(* The worker never fills an image the destructor has deleted, however     *)
(* short the wait in stopThread() is.                                      *)
THEOREM DeleteIsSafe == Spec => []NoUseAfterDelete
<1>1. Init => DeleteSafe
  BY DEF Init, DeleteSafe, NoUseAfterDelete
<1>2. Spec => []DeleteSafe
  BY <1>1, DeleteStep, Conservation, TypeInvariant, PTL DEF Spec
<1> QED
  BY <1>2, PTL DEF DeleteSafe

-----------------------------------------------------------------------------
(* Every step of the queue is a step of the bounded stream, or none.       *)
LEMMA StreamStep ==
    ASSUME TypeOK, HandHeld, ThreadLife, ImagesConserved, QueueInOrder, AheadBound,
           EndedLast, [Next]_vars
    PROVE  [Stream!Next]_(Stream!vars)
<1> DEFINE over == worker \in {"putBack", "finish", "exited"}
<1>0. pos \in Nat /\ pos <= NumItems /\ out.pts \in Nat /\ out.picture \in Nat
      /\ Len(list) \in Nat /\ NumBuffers \in Nat
  BY ListElements, NumItemsAssumption, NumBuffersAssumption DEF TypeOK
<1>1. CASE SourceFrame
  <2>1. /\ worker = "source" /\ worker' = "push" /\ pos < NumItems /\ pos' = pos + 1
        /\ out' = out /\ ended' = ended
    BY <1>1 DEF SourceFrame
  <2>2. pos - out.picture < NumBuffers
    BY <1>0, <2>1 DEF AheadBound
  <2> QED
    BY <2>1, <2>2 DEF Stream!Next, Stream!Produce
<1>2. CASE SourceEnd \/ SeeStopOrder
  <2>1. worker' \in {"putBack", "finish"} /\ pos' = pos /\ out' = out /\ ended' = ended
    BY <1>2 DEF SourceEnd, SeeStopOrder, clientVars
  <2> QED
    BY <2>1 DEF Stream!Next, Stream!Finish
<1>3. CASE CheckStop /\ UNCHANGED clientVars
  <2>1. worker' \in {"finish", "take"} /\ worker = "check" /\ pos' = pos /\ out' = out
        /\ ended' = ended
    BY <1>3 DEF CheckStop, clientVars
  <2>2. CASE worker' = "finish"
    BY <2>1, <2>2 DEF Stream!Next, Stream!Finish
  <2>3. CASE worker' = "take"
    BY <2>1, <2>3 DEF Stream!vars
  <2> QED
    BY <2>1, <2>2, <2>3
<1>4. CASE GetFrame
  <2>1. Intact /\ list # <<>> /\ pos' = pos /\ ended' = ended
        /\ out'.picture = image[list[1].buf] /\ worker' \in {worker, "woken"}
        /\ (worker' # worker => worker = "blocked")
    BY <1>4, Popped DEF GetFrame, Intact, Signalled, IsWaiting, TypeOK
  <2>2. Len(list) > 0 /\ 1 \in DOMAIN list
    BY <2>1, <1>0, ListElements, Popped DEF TypeOK
  <2>3. image[list[1].buf] = out.picture + 1
    BY <2>1, <2>2 DEF QueueInOrder
  <2>4. out.picture < pos
    BY <1>0, <2>1, <2>2 DEF QueueInOrder
  <2>5. ~ended
    BY <2>1 DEF EndedLast
  <2>6. over' = over
    BY <2>1
  <2> QED
    BY <2>1, <2>3, <2>4, <2>5, <2>6 DEF Stream!Next, Stream!Deliver, TypeOK
<1>5. CASE NoMoreData
  <2>1. Intact /\ list = <<>> /\ worker = "exited" /\ worker' = worker /\ pos' = pos
        /\ out' = out /\ ended' = TRUE
    BY <1>5 DEF NoMoreData, Intact, ThreadLife
  <2>2. Len(list) = 0
    BY <2>1, EmptySeq
  <2>3. out.picture = pos
    BY <1>0, <2>1, <2>2 DEF QueueInOrder
  <2> QED
    BY <2>1, <2>3 DEF Stream!Next, Stream!EndOfData
<1>6. CASE \/ RunEnter /\ UNCHANGED clientVars
           \/ RunExit /\ UNCHANGED clientVars
           \/ WaitReturns /\ UNCHANGED clientVars
           \/ WaitForImage \/ TakeImage \/ PushFrame \/ PutBack
  BY <1>6 DEF RunEnter, RunExit, WaitReturns, WaitForImage, TakeImage, PushFrame, PutBack,
              clientVars, Stream!vars
<1>7. CASE MainBaseStep("deleteFree") /\ UNCHANGED clientVars
  BY <1>7 DEF MainBaseStep, StartDone, StopTest, StopSet, StopPoll, StopReturns, BaseDtor,
              Join, Signalled, IsWaiting, clientVars, Stream!vars
<1>8. CASE Dtor
  BY <1>8 DEF Dtor, DeleteFree, ClearFree, DeleteList, ClearList, Stream!vars
<1>9. CASE (SpuriousWakeup \/ CallGet \/ BeginDestroy) /\ UNCHANGED clientVars
  BY <1>9 DEF SpuriousWakeup, CallGet, BeginDestroy, ThreadLife, clientVars, Stream!vars
<1>10. CASE UNCHANGED vars
  BY <1>10 DEF vars, queueVars, clientVars, Stream!vars
<1> QED
  BY <1>1, <1>2, <1>3, <1>4, <1>5, <1>6, <1>7, <1>8, <1>9, <1>10
     DEF Next, WorkerStep, WorkerBaseStep, MainStep

(* The threaded queue implements the bounded in-order stream.              *)
THEOREM Refinement == Spec => StreamRefined
<1>1. Init => Stream!Init
  BY DEF Init, QueueInit, Stream!Init
<1>2. Init => EndedLast
  BY DEF Init, EndedLast
<1>3. Spec => [](TypeOK /\ HandHeld /\ ThreadLife /\ ImagesConserved /\ QueueInOrder
                 /\ AheadBound /\ EndedLast)
  BY <1>2, InitOrder, OrderStep, InitConserved, ConservedStep, EndStep, TypeInvariant, PTL
     DEF Spec
<1> QED
  BY <1>1, <1>3, StreamStep, PTL DEF Spec, StreamRefined, Stream!Spec
=============================================================================
