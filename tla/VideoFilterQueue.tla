--------------------------- MODULE VideoFilterQueue ---------------------------
(***************************************************************************)
(* ADM_videoFilterQueue: the threaded queue put at the end of the video    *)
(* filter chain, just before the encoder.  The worker decodes and filters  *)
(* into a free image and queues it; getNextFrameAs() copies the first      *)
(* queued image to the caller and gives the image back, under the mutex.   *)
(*                                                                         *)
(* A frame is its number in the source.  image[b] is the frame in image b  *)
(* and a queued packet has, besides its image, the pts field the worker    *)
(* set: a delivery is right when both are the next frame.                  *)
(***************************************************************************)
EXTENDS ThreadQueue, FiniteSets

VARIABLES
    list,      \* ADM_queuePackets ready for the consumer
    freeList,  \* images the worker may fill
    hand,      \* the image the worker has taken off freeList
    image,     \* the frame each image holds, Torn while it is written
    pos,       \* frames the previous filter has delivered
    out,       \* last answer of getNextFrameAs: frame number and picture
    ended,     \* getNextFrameAs has answered "no more data"
    freed      \* images the destructor has deleted

clientVars == <<list, freeList, hand, image, pos, out, ended, freed>>
vars == <<queueVars, clientVars>>

Frames == 1 .. NumItems
Torn   == NumItems + 1
Packet == [buf : Buffers, pts : Frames]

(* The images of a list of packets.                                        *)
Images(packets) == {packets[i].buf : i \in DOMAIN packets}

Init ==
    /\ QueueInit
    /\ list = <<>>
    /\ freeList = [i \in Buffers |-> i]
    /\ hand = NoBuffer
    /\ image = [b \in Buffers |-> Torn]
    /\ pos = 0
    /\ out = [pts |-> 0, picture |-> 0]
    /\ ended = FALSE
    /\ freed = {}

-----------------------------------------------------------------------------
(* The worker, in runAction() after the unlocked test of the stop order.   *)
WaitForImage ==
    /\ worker = "take" /\ MutexFree
    /\ freeList = <<>>
    /\ worker' = "blocked"
    /\ UNCHANGED <<ownerVars, clientVars>>

SeeStopOrder ==
    /\ worker = "take" /\ MutexFree
    /\ freeList # <<>>
    /\ threadState = "StopOrder"
    /\ worker' = "finish"
    /\ UNCHANGED <<ownerVars, clientVars>>

(* Mutant: the stop order is not looked at again under the mutex.          *)
TakeImageUnchecked ==
    /\ worker = "take" /\ MutexFree
    /\ freeList # <<>>
    /\ hand' = Head(freeList)
    /\ freeList' = Tail(freeList)
    /\ image' = [image EXCEPT ![Head(freeList)] = Torn]
    /\ worker' = "source"
    /\ UNCHANGED <<ownerVars, list, pos, out, ended, freed>>

TakeImage ==
    /\ worker = "take" /\ MutexFree
    /\ freeList # <<>>
    /\ threadState # "StopOrder"
    /\ hand' = Head(freeList)
    /\ freeList' = Tail(freeList)
    /\ image' = [image EXCEPT ![Head(freeList)] = Torn]
    /\ worker' = "source"
    /\ UNCHANGED <<ownerVars, list, pos, out, ended, freed>>

(* previousFilter->getNextFrameAs(): a frame, or none (end or error).      *)
SourceFrame ==
    /\ worker = "source"
    /\ pos < NumItems
    /\ pos' = pos + 1
    /\ image' = [image EXCEPT ![hand] = pos + 1]
    /\ worker' = "push"
    /\ UNCHANGED <<ownerVars, list, freeList, hand, out, ended, freed>>

SourceEnd ==
    /\ worker = "source"
    /\ worker' = "putBack"
    /\ UNCHANGED <<ownerVars, clientVars>>

(* Mutant: the frame is queued in front.                                   *)
PushFrameFront ==
    /\ worker = "push" /\ MutexFree
    /\ list' = <<[buf |-> hand, pts |-> pos]>> \o list
    /\ hand' = NoBuffer
    /\ worker' = "check"
    /\ UNCHANGED <<ownerVars, freeList, image, pos, out, ended, freed>>

PushFrame ==
    /\ worker = "push" /\ MutexFree
    /\ list' = Append(list, [buf |-> hand, pts |-> pos])
    /\ hand' = NoBuffer
    /\ worker' = "check"
    /\ UNCHANGED <<ownerVars, freeList, image, pos, out, ended, freed>>

(* Mutant: at the end of the source the image is not given back.           *)
PutBackForgotten ==
    /\ worker = "putBack" /\ MutexFree
    /\ hand' = NoBuffer
    /\ worker' = "finish"
    /\ UNCHANGED <<ownerVars, list, freeList, image, pos, out, ended, freed>>

PutBack ==
    /\ worker = "putBack" /\ MutexFree
    /\ freeList' = Append(freeList, hand)
    /\ hand' = NoBuffer
    /\ worker' = "finish"
    /\ UNCHANGED <<ownerVars, list, image, pos, out, ended, freed>>

-----------------------------------------------------------------------------
(* getNextFrameAs(): one turn of its loop, under the mutex.  A turn that   *)
(* finds the list empty and the thread alive sleeps and tries again: a     *)
(* stuttering step.                                                        *)
GetFrame ==
    /\ main = "get"
    /\ list # <<>>
    /\ out' = [pts |-> Head(list).pts, picture |-> image[Head(list).buf]]
    /\ list' = Tail(list)
    /\ freeList' = Append(freeList, Head(list).buf)
    /\ worker' = Signalled
    /\ main' = "idle"
    /\ UNCHANGED <<threadState, started, clock, hand, image, pos, ended, freed>>

(* Mutant: the state of the thread is looked at before the list.           *)
NoMoreDataEarly ==
    /\ main = "get"
    /\ threadState = "Stopped"
    /\ ended' = TRUE
    /\ main' = "idle"
    /\ UNCHANGED <<workerVars, list, freeList, hand, image, pos, out, freed>>

NoMoreData ==
    /\ main = "get"
    /\ list = <<>>
    /\ threadState = "Stopped"
    /\ ended' = TRUE
    /\ main' = "idle"
    /\ UNCHANGED <<workerVars, list, freeList, hand, image, pos, out, freed>>

-----------------------------------------------------------------------------
(* ~ADM_videoFilterQueue() after stopThread(): delete the images of        *)
(* freeList, clear it, then the same for list; no mutex is taken, so the   *)
(* worker may still append in between.                                     *)
DeleteFree ==
    /\ main = "deleteFree"
    /\ freed' = freed \cup {freeList[i] : i \in DOMAIN freeList}
    /\ main' = "clearFree"
    /\ UNCHANGED <<workerVars, list, freeList, hand, image, pos, out, ended>>

ClearFree ==
    /\ main = "clearFree"
    /\ freeList' = <<>>
    /\ main' = "deleteList"
    /\ UNCHANGED <<workerVars, list, hand, image, pos, out, ended, freed>>

DeleteList ==
    /\ main = "deleteList"
    /\ freed' = freed \cup Images(list)
    /\ main' = "clearList"
    /\ UNCHANGED <<workerVars, list, freeList, hand, image, pos, out, ended>>

ClearList ==
    /\ main = "clearList"
    /\ list' = <<>>
    /\ main' = "baseDtor"
    /\ UNCHANGED <<workerVars, freeList, hand, image, pos, out, ended, freed>>

-----------------------------------------------------------------------------
WorkerStep ==
    \/ WorkerBaseStep /\ UNCHANGED clientVars
    \/ WaitForImage \/ SeeStopOrder \/ TakeImage
    \/ SourceFrame \/ SourceEnd
    \/ PushFrame \/ PutBack

Dtor == DeleteFree \/ ClearFree \/ DeleteList \/ ClearList

MainStep ==
    \/ MainBaseStep("deleteFree") /\ UNCHANGED clientVars
    \/ GetFrame \/ NoMoreData
    \/ Dtor

Next ==
    \/ WorkerStep
    \/ MainStep
    \/ (SpuriousWakeup \/ CallGet \/ BeginDestroy) /\ UNCHANGED clientVars

Spec == Init /\ [][Next]_vars

(* Both threads are scheduled, and a call into the previous filter         *)
(* returns.  Nothing obliges the owner to call, nor pthread to wake        *)
(* anybody spuriously.                                                     *)
FairSpec == Spec /\ WF_vars(WorkerStep) /\ WF_vars(MainStep)
-----------------------------------------------------------------------------
MainPlace   == MainPlaces \cup {"deleteFree", "clearFree", "deleteList", "clearList"}
WorkerPlace == WorkerPlaces \cup {"source", "push", "putBack"}

TypeOK ==
    /\ main \in MainPlace
    /\ worker \in WorkerPlace
    /\ threadState \in RunStates
    /\ started \in BOOLEAN
    /\ clock \in 0 .. ClockDown
    /\ list \in Seq(Packet)
    /\ freeList \in Seq(Buffers)
    /\ hand \in Buffers \cup {NoBuffer}
    /\ image \in [Buffers -> 1 .. Torn]
    /\ pos \in 0 .. NumItems
    /\ out \in [pts : 0 .. NumItems, picture : 0 .. Torn]
    /\ ended \in BOOLEAN
    /\ freed \in SUBSET Buffers

(* Before the destructor starts to clear the lists.                        *)
Intact == main \notin {"clearFree", "deleteList", "clearList", "baseDtor", "join", "gone"}

HandCount == IF hand = NoBuffer THEN 0 ELSE 1

(* Every image is in exactly one place: on freeList, on list or in the     *)
(* worker's hand; getNextFrameAs and runAction move images between them in *)
(* separate critical sections.  Clearing the lists loses images, it never  *)
(* puts one in two places.                                                 *)
ImagesConserved ==
    /\ \A i, j \in DOMAIN freeList : freeList[i] = freeList[j] => i = j
    /\ \A i, j \in DOMAIN list : list[i].buf = list[j].buf => i = j
    /\ \A i \in DOMAIN freeList, j \in DOMAIN list : freeList[i] # list[j].buf
    /\ \A i \in DOMAIN freeList : freeList[i] # hand
    /\ \A j \in DOMAIN list : list[j].buf # hand
    /\ Intact => Len(freeList) + Len(list) + HandCount = NumBuffers

(* The queue holds exactly the frames produced and not yet delivered, in   *)
(* order, and the picture in each queued image is the frame its packet     *)
(* names, although the worker fills images outside of the mutex.           *)
QueueInOrder ==
    Intact =>
        /\ out.pts = out.picture
        /\ pos = out.pts + Len(list) + (IF worker = "push" THEN 1 ELSE 0)
        /\ \A i \in DOMAIN list :
              /\ list[i].pts = out.pts + i
              /\ image[list[i].buf] = list[i].pts

(* The worker never has an image that the destructor has deleted, although *)
(* stopThread() may return while it is still inside the previous filter.   *)
NoUseAfterDelete == hand \notin freed

(* The polling branch of ~ADM_threadQueue, whose loop has no exit but      *)
(* Stopped, is never entered: stopThread() has run before it, and no later *)
(* step of the thread brings Running back.                                 *)
BaseDtorNeverPolls == main = "baseDtor" /\ started => threadState # "Running"

(* The thread object outlives the thread: mutex and condition variable are *)
(* destroyed only when the worker cannot use them any more.                *)
ThreadGoneFirst == main = "gone" => worker \in {"none", "exited"}

(* The whole queue behaves as a bounded in-order stream.                   *)
Stream == INSTANCE BoundedStream
    WITH Capacity  <- NumBuffers,
         produced  <- pos,
         over      <- worker \in {"putBack", "finish", "exited"},
         delivered <- out.picture

StreamRefined == Stream!Spec

(* getNextFrameAs() always returns: the worker is woken when an image      *)
(* comes back, and the end of the source is seen.                          *)
GetReturns == main = "get" ~> main = "idle"

(* "Thread stopped, continuing dtor" (ADM_threadQueue.cpp): once the       *)
(* destructor has asked the thread to stop, the thread stops and the       *)
(* destructor completes.                                                   *)
DestructorCompletes == main = "stop" ~> main = "gone"
===========================================================================
