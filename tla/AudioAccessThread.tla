--------------------------- MODULE AudioAccessThread ---------------------------
(***************************************************************************)
(* ADM_audioAccess_thread: an audio access (the "son") wrapped in a worker *)
(* thread.  It differs from VideoFilterQueue where the two classes do:     *)
(* getPacket() copies the packet with the mutex released and takes it      *)
(* again to give the buffer back; runAction() does not look at the stop    *)
(* order under the mutex, and appends to freeList without it at the end of *)
(* the stream; the destructor deletes every buffer, wherever it is, and    *)
(* the son.                                                                *)
(*                                                                         *)
(* A packet's data and dts are its number in the son's stream; sizes are   *)
(* left out (getPacket() asserts that the packet fits the caller's buffer).*)
(***************************************************************************)
EXTENDS ThreadQueue, FiniteSets

VARIABLES
    list,      \* packets ready for the consumer
    freeList,  \* buffers the worker may fill
    hand,      \* the buffer the worker has taken off freeList
    taken,     \* the packet getPacket() has taken off list, or NoPacket
    chunk,     \* the packet each buffer holds, Torn while it is written
    pos,       \* packets the son has delivered
    out,       \* last answer of getPacket: dts and data
    ended,     \* getPacket has answered "no more data"
    loaded,    \* freeList as the append without the mutex found it
    sonAlive   \* the buffers and the son have not been deleted

clientVars == <<list, freeList, hand, taken, chunk, pos, out, ended, loaded, sonAlive>>
vars == <<queueVars, clientVars>>

Torn     == NumItems + 1
Packet   == [buf : Buffers, dts : 1 .. NumItems]
NoPacket == [buf |-> NoBuffer, dts |-> 0]

Init ==
    /\ QueueInit
    /\ list = <<>>
    /\ freeList = [i \in Buffers |-> i]
    /\ hand = NoBuffer
    /\ taken = NoPacket
    /\ chunk = [b \in Buffers |-> Torn]
    /\ pos = 0
    /\ out = [dts |-> 0, data |-> 0]
    /\ ended = FALSE
    /\ loaded = <<>>
    /\ sonAlive = TRUE

-----------------------------------------------------------------------------
(* The worker, in runAction() after the unlocked test of the stop order.   *)
WaitForBuffer ==
    /\ worker = "take" /\ MutexFree
    /\ freeList = <<>>
    /\ worker' = "blocked"
    /\ UNCHANGED <<ownerVars, clientVars>>

(* Mutant: the buffer is not removed from freeList.                        *)
TakeBufferNoPop ==
    /\ worker = "take" /\ MutexFree
    /\ freeList # <<>>
    /\ hand' = Head(freeList)
    /\ chunk' = [chunk EXCEPT ![Head(freeList)] = Torn]
    /\ worker' = "source"
    /\ UNCHANGED <<ownerVars, list, freeList, taken, pos, out, ended, loaded, sonAlive>>

TakeBuffer ==
    /\ worker = "take" /\ MutexFree
    /\ freeList # <<>>
    /\ hand' = Head(freeList)
    /\ freeList' = Tail(freeList)
    /\ chunk' = [chunk EXCEPT ![Head(freeList)] = Torn]
    /\ worker' = "source"
    /\ UNCHANGED <<ownerVars, list, taken, pos, out, ended, loaded, sonAlive>>

(* son->getPacket(): a packet, or none (end or error).                     *)
SourcePacket ==
    /\ worker = "source"
    /\ pos < NumItems
    /\ pos' = pos + 1
    /\ chunk' = [chunk EXCEPT ![hand] = pos + 1]
    /\ worker' = "push"
    /\ UNCHANGED <<ownerVars, list, freeList, hand, taken,
                   out, ended, loaded, sonAlive>>

SourceEnd ==
    /\ worker = "source"
    /\ worker' = "putBack"
    /\ UNCHANGED <<ownerVars, clientVars>>

PushPacket ==
    /\ worker = "push" /\ MutexFree
    /\ list' = Append(list, [buf |-> hand, dts |-> pos])
    /\ hand' = NoBuffer
    /\ worker' = "check"
    /\ UNCHANGED <<ownerVars, freeList, taken, chunk, pos,
                   out, ended, loaded, sonAlive>>

(* freeList.append(pkt) at the end of the stream, without the mutex:       *)
(* buffer[currentIndex++] of BVector is a load and a store, and the slots  *)
(* below currentIndex keep their contents until they are written again.    *)
PutBackLoad ==
    /\ worker = "putBack"
    /\ loaded' = freeList
    /\ worker' = "store"
    /\ UNCHANGED <<ownerVars, list, freeList, hand, taken,
                   chunk, pos, out, ended, sonAlive>>

(* If main changed freeList after the load, the two appends race: one may  *)
(* overwrite the other, or both survive.                                   *)
PutBackStore ==
    /\ worker = "store"
    /\ freeList' \in
          {Append(freeList, hand)} \cup
          (IF loaded = freeList THEN {} ELSE {freeList, Append(loaded, hand)})
    /\ hand' = NoBuffer
    /\ loaded' = <<>>
    /\ worker' = "finish"
    /\ UNCHANGED <<ownerVars, list, taken, chunk, pos, out, ended, sonAlive>>

-----------------------------------------------------------------------------
(* Mutant: the buffer is given back before it is copied.                   *)
PopPacketGiveBack ==
    /\ main = "get"
    /\ list # <<>>
    /\ taken' = Head(list)
    /\ list' = Tail(list)
    /\ freeList' = Append(freeList, Head(list).buf)
    /\ main' = "copy"
    /\ UNCHANGED <<workerVars, hand, chunk, pos, out, ended, loaded, sonAlive>>

(* getPacket(): take a packet under the mutex, copy it without, give the   *)
(* buffer back under the mutex.  A turn that finds nothing and the thread  *)
(* alive is a stuttering step.                                             *)
PopPacket ==
    /\ main = "get"
    /\ list # <<>>
    /\ taken' = Head(list)
    /\ list' = Tail(list)
    /\ main' = "copy"
    /\ UNCHANGED <<workerVars, freeList, hand, chunk, pos,
                   out, ended, loaded, sonAlive>>

CopyPacket ==
    /\ main = "copy"
    /\ out' = [dts |-> taken.dts, data |-> chunk[taken.buf]]
    /\ main' = "giveBack"
    /\ UNCHANGED <<workerVars, list, freeList, hand, taken,
                   chunk, pos, ended, loaded, sonAlive>>

GiveBack ==
    /\ main = "giveBack"
    /\ freeList' = Append(freeList, taken.buf)
    /\ taken' = NoPacket
    /\ worker' = Signalled
    /\ main' = "idle"
    /\ UNCHANGED <<threadState, started, clock, list, hand, chunk, pos, out, ended,
                   loaded, sonAlive>>

(* Mutant: the state of the thread is looked at before the list.           *)
NoMoreDataEarly ==
    /\ main = "get"
    /\ threadState = "Stopped"
    /\ ended' = TRUE
    /\ main' = "idle"
    /\ UNCHANGED <<workerVars, list, freeList, hand,
                   taken, chunk, pos, out, loaded, sonAlive>>

NoMoreData ==
    /\ main = "get"
    /\ list = <<>>
    /\ threadState = "Stopped"
    /\ ended' = TRUE
    /\ main' = "idle"
    /\ UNCHANGED <<workerVars, list, freeList, hand, taken,
                   chunk, pos, out, loaded, sonAlive>>

-----------------------------------------------------------------------------
(* ~ADM_audioAccess_thread() after stopThread(): clear both lists, delete  *)
(* all the buffers and the son, none of it under the mutex.                *)
EmptyLists ==
    /\ main = "emptyLists"
    /\ list' = <<>>
    /\ freeList' = <<>>
    /\ main' = "killSon"
    /\ UNCHANGED <<workerVars, hand, taken, chunk, pos, out, ended, loaded, sonAlive>>

KillSon ==
    /\ main = "killSon"
    /\ sonAlive' = FALSE
    /\ main' = "baseDtor"
    /\ UNCHANGED <<workerVars, list, freeList, hand, taken,
                   chunk, pos, out, ended, loaded>>

-----------------------------------------------------------------------------
WorkerStep ==
    \/ WorkerBaseStep /\ UNCHANGED clientVars
    \/ WaitForBuffer \/ TakeBuffer
    \/ SourcePacket \/ SourceEnd
    \/ PushPacket \/ PutBackLoad \/ PutBackStore

MainStep ==
    \/ MainBaseStep("emptyLists") /\ UNCHANGED clientVars
    \/ PopPacket \/ CopyPacket \/ GiveBack \/ NoMoreData
    \/ EmptyLists \/ KillSon

Next ==
    \/ WorkerStep
    \/ MainStep
    \/ (SpuriousWakeup \/ CallGet \/ BeginDestroy) /\ UNCHANGED clientVars

Spec == Init /\ [][Next]_vars

FairSpec == Spec /\ WF_vars(WorkerStep) /\ WF_vars(MainStep)
-----------------------------------------------------------------------------
MainPlace   == MainPlaces \cup {"copy", "giveBack", "emptyLists", "killSon"}
WorkerPlace == WorkerPlaces \cup {"source", "push", "putBack", "store"}

TypeOK ==
    /\ main \in MainPlace
    /\ worker \in WorkerPlace
    /\ threadState \in RunStates
    /\ started \in BOOLEAN
    /\ clock \in 0 .. ClockDown
    /\ list \in Seq(Packet)
    /\ freeList \in Seq(Buffers)
    /\ hand \in Buffers \cup {NoBuffer}
    /\ taken \in Packet \cup {NoPacket}
    /\ chunk \in [Buffers -> 1 .. Torn]
    /\ pos \in 0 .. NumItems
    /\ out \in [dts : 0 .. NumItems, data : 0 .. Torn]
    /\ ended \in BOOLEAN
    /\ loaded \in Seq(Buffers)
    /\ sonAlive \in BOOLEAN

(* The worker has not yet got past the append that takes no mutex, and the *)
(* destructor has not started to empty the lists.                          *)
Intact == main \notin {"killSon", "baseDtor", "join", "gone"}
Filling == worker \notin {"finish", "exited"}

HandCount == (IF hand = NoBuffer THEN 0 ELSE 1) + (IF taken = NoPacket THEN 0 ELSE 1)

(* No buffer is in two places at once, even after the race on freeList; as *)
(* long as the worker fills, none is lost either.                          *)
BuffersConserved ==
    Intact =>
        /\ \A i, j \in DOMAIN freeList : freeList[i] = freeList[j] => i = j
        /\ \A i, j \in DOMAIN list : list[i].buf = list[j].buf => i = j
        /\ \A i \in DOMAIN freeList, j \in DOMAIN list : freeList[i] # list[j].buf
        /\ \A i \in DOMAIN freeList : freeList[i] \notin {hand, taken.buf}
        /\ \A j \in DOMAIN list : list[j].buf \notin {hand, taken.buf}
        /\ taken # NoPacket => taken.buf # hand
        /\ Filling => Len(freeList) + Len(list) + HandCount = NumBuffers

(* The packet getPacket() copies with the mutex released is the next one   *)
(* of the son's stream, and the worker does not write its buffer meanwhile.*)
CopyIsStable ==
    main = "copy" =>
        /\ taken.buf # hand
        /\ chunk[taken.buf] = taken.dts
        /\ taken.dts = out.dts + 1

(* "Thread stopped, we can kill the son" (audiofilter_thread.cpp) holds    *)
(* unless stopThread() ran out of time (clockDown at 0): only then are the *)
(* son and the buffers deleted under a worker that still uses them.        *)
SonKilledEarlyOnlyAfterTimeout ==
    ~sonAlive /\ worker \notin {"none", "exited"} => started /\ clock = 0

(* The whole thread behaves as a bounded in-order stream.                  *)
Stream == INSTANCE BoundedStream
    WITH Capacity  <- NumBuffers,
         produced  <- pos,
         over      <- worker \in {"putBack", "store", "finish", "exited"},
         delivered <- out.data

StreamRefined == Stream!Spec

(* getPacket() always returns.                                             *)
GetReturns == main = "get" ~> main = "idle"
=============================================================================
