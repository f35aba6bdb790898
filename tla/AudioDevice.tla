----------------------------- MODULE AudioDevice -----------------------------
(***************************************************************************)
(* audioDeviceThreaded and its user, the playback loop of gui_play.cpp.    *)
(* The main thread appends samples to a flat buffer; a device thread hands *)
(* them, at most ten milliseconds at a time, to the sound server, which it *)
(* calls WITHOUT the mutex on a pointer into that buffer, while the main   *)
(* thread may move the buffer's content.  sendData() is the one of the     *)
(* PulseAudioSimple plugin; the ALSA, ESD and OSS ones follow the same     *)
(* pattern.                                                                *)
(*                                                                         *)
(* A sample is its number in the stream of its playback session; sessions  *)
(* follow one another and each starts a device thread of its own, which    *)
(* nothing joins: stop() waits for it three seconds at most.               *)
(***************************************************************************)
EXTENDS Integers, Sequences

CONSTANTS
    Size,          \* ADM_THREAD_BUFFER_SIZE
    Ten,           \* sizeOf10ms
    Preload,       \* AUDIO_PRELOAD, compared with getBufferFullness()
    InitialFill,   \* most samples initializeAudio() plays at once
    Chunk,         \* most samples one audioPump() fill returns
    IndexModulus,  \* 2^32: rdIndex and wrIndex are uint32_t
    CanTimeOut,    \* the sound server may keep a write longer than stop() waits
    MaxSessions,   \* bound: playback sessions
    MaxSamples,    \* bound: samples of the first session; of the n-th, 1/n of it
    ReadLimit      \* bound: rdIndex of a thread that reads past the buffer

(* The most the main thread ever leaves unplayed in the buffer.            *)
MaxFill == (Preload - 1) * Ten - 1 + Chunk

ASSUME SizeAssumption ==
    /\ Size \in Nat /\ Ten \in Nat \ {0} /\ Preload \in Nat \ {0, 1}
    /\ InitialFill \in Nat \ {0} /\ Chunk \in Nat \ {0}
    /\ IndexModulus \in Nat /\ ReadLimit \in Nat
    /\ MaxSessions \in Nat /\ MaxSamples \in Nat
    /\ Size < ReadLimit /\ ReadLimit + Ten < IndexModulus

(* A quarter of the buffer holds what is ever unplayed: 2 MB against one   *)
(* second of 16 bit sound, 768 kB for eight channels at 48 kHz.            *)
ASSUME FillAssumption == InitialFill <= MaxFill /\ 4 * MaxFill <= Size

VARIABLES
    stopRequest,  \* written by both threads without the mutex
    rdIndex, wrIndex,
    buffer,       \* audioBuffer: the sample in each cell, 0 for garbage
    opened,       \* localInit() has opened the device, localStop() not closed it
    main,         \* where the main thread is
    first,        \* the session has not played its initial fill yet
    session,      \* sessions begun: the number of the newest device thread
    written,      \* samples of this session given to writeData()
    dropped,      \* writeData() has refused samples
    timedOut,     \* some stop() has given up waiting
    pc, slice,    \* each device thread: where it is, the cells it is sending
    out           \* last samples sent to the sound server, and how many so far

mainVars   == <<main, first, session, written, dropped, timedOut>>
threadVars == <<pc, slice, out>>
vars == <<stopRequest, rdIndex, wrIndex, buffer, opened, mainVars, threadVars>>

Threads == 1 .. MaxSessions
Cells   == 0 .. Size - 1

(* wrIndex-rdIndex, as the unsigned number it is.                          *)
Avail == IF rdIndex <= wrIndex THEN wrIndex - rdIndex
                               ELSE wrIndex + IndexModulus - rdIndex

getBufferFullness == 1 + Avail \div Ten

NoSlice == [at |-> 0, len |-> 0]

CellAt(i) == IF i \in Cells THEN buffer[i] ELSE 0
Slice(at, len) == [i \in 1 .. len |-> CellAt(at + i - 1)]

Init ==
    /\ stopRequest = "Stopped"
    /\ rdIndex = 0 /\ wrIndex = 0
    /\ buffer = [i \in Cells |-> 0]
    /\ opened = FALSE
    /\ main = "idle" /\ first = TRUE
    /\ session = 0 /\ written = 0
    /\ dropped = FALSE /\ timedOut = FALSE
    /\ pc = [t \in Threads |-> "none"]
    /\ slice = [t \in Threads |-> NoSlice]
    /\ out = [upto |-> 0, samples |-> <<>>]

-----------------------------------------------------------------------------
(* The main thread: init(), up to localInit().                             *)
InitBuffer ==
    /\ main = "idle"
    /\ session < MaxSessions
    /\ session' = session + 1
    /\ rdIndex' = 0 /\ wrIndex' = 0
    /\ stopRequest' = "Stopped"
    /\ written' = 0 /\ first' = TRUE
    /\ out' = [upto |-> 0, samples |-> <<>>]
    /\ main' = "open"
    /\ UNCHANGED <<buffer, opened, dropped, timedOut, pc, slice>>

(* localInit() succeeds: the thread is created and the session plays.      *)
OpenDevice ==
    /\ main = "open"
    /\ opened' = TRUE
    /\ stopRequest' = "Started"
    /\ pc' = [pc EXCEPT ![session] = "test"]
    /\ main' = "playing"
    /\ UNCHANGED <<rdIndex, wrIndex, buffer, first, session, written, dropped,
                   timedOut, slice, out>>

(* localInit() fails: initializeAudio() calls cleanupAudio().              *)
OpenFails ==
    /\ main = "open"
    /\ main' = "stop"
    /\ UNCHANGED <<stopRequest, rdIndex, wrIndex, buffer, opened, first, session,
                   written, dropped, timedOut, threadVars>>

(* Mutants: compaction as soon as something was played; past the end.      *)
CompactEagerly  == rdIndex > 0
CompactPastEnd  == wrIndex > Size /\ rdIndex > Size \div 4

CompactionDue == wrIndex > Size \div 2 /\ rdIndex > Size \div 4

(* writeData(), under the mutex: what is not played yet is moved to the    *)
(* front when due, then the samples are appended, or refused.              *)
writeData(len) ==
    LET base  == IF CompactionDue THEN rdIndex ELSE 0
        moved == [i \in Cells |-> IF CompactionDue /\ i < wrIndex - rdIndex
                                  THEN buffer[i + rdIndex] ELSE buffer[i]]
        wr    == wrIndex - base
    IN  /\ rdIndex' = rdIndex - base
        /\ written' = written + len
        /\ IF wr + len > Size
           THEN /\ wrIndex' = wr
                /\ buffer' = moved
                /\ dropped' = TRUE
           ELSE /\ wrIndex' = wr + len
                /\ buffer' = [i \in Cells |-> IF i \in wr .. wr + len - 1
                                              THEN written + 1 + i - wr
                                              ELSE moved[i]]
                /\ UNCHANGED dropped

(* The 200 ms initializeAudio() plays, then one turn of audioPump().       *)
PlayInitialFill ==
    /\ main = "playing" /\ first
    /\ first' = FALSE
    /\ \E len \in 0 .. InitialFill : writeData(len)
    /\ UNCHANGED <<stopRequest, opened, main, session, timedOut, threadVars>>

audioPump ==
    /\ main = "playing" /\ ~first
    /\ getBufferFullness < Preload
    /\ \E len \in 1 .. Chunk : written + len <= MaxSamples \div session /\ writeData(len)
    /\ UNCHANGED <<stopRequest, opened, main, first, session, timedOut, threadVars>>

(* The end of playback, or the second cleanup, after a first one or a      *)
(* session that had no sound: cleanupAudio() always closes the device.     *)
cleanupAudio ==
    /\ \/ main = "playing" /\ ~first
       \/ main = "idle"
    /\ main' = "stop"
    /\ UNCHANGED <<stopRequest, rdIndex, wrIndex, buffer, opened, first, session,
                   written, dropped, timedOut, threadVars>>

(* stop(): the order, when the thread runs.                                *)
RequestStop ==
    /\ main = "stop"
    /\ IF stopRequest = "Started"
       THEN stopRequest' = "StopReq" /\ main' = "wait"
       ELSE UNCHANGED stopRequest /\ main' = "release"
    /\ UNCHANGED <<rdIndex, wrIndex, buffer, opened, first, session, written,
                   dropped, timedOut, threadVars>>

(* Mutant: it waits for nothing.                                           *)
StopGrantedAtOnce ==
    /\ main = "wait"
    /\ main' = "release"
    /\ UNCHANGED <<stopRequest, rdIndex, wrIndex, buffer, opened, first, session,
                   written, dropped, timedOut, threadVars>>

StopGranted ==
    /\ main = "wait"
    /\ stopRequest # "StopReq"
    /\ main' = "release"
    /\ UNCHANGED <<stopRequest, rdIndex, wrIndex, buffer, opened, first, session,
                   written, dropped, timedOut, threadVars>>

StopTimesOut ==
    /\ main = "wait"
    /\ CanTimeOut
    /\ timedOut' = TRUE
    /\ main' = "release"
    /\ UNCHANGED <<stopRequest, rdIndex, wrIndex, buffer, opened, first, session,
                   written, dropped, threadVars>>

(* localStop(), then the buffers are freed and the state is Stopped.       *)
localStop ==
    /\ main = "release"
    /\ opened' = FALSE
    /\ main' = "clean"
    /\ UNCHANGED <<stopRequest, rdIndex, wrIndex, buffer, first, session, written,
                   dropped, timedOut, threadVars>>

FreeBuffer ==
    /\ main = "clean"
    /\ buffer' = [i \in Cells |-> 0]
    /\ stopRequest' = "Stopped"
    /\ main' = "idle"
    /\ UNCHANGED <<rdIndex, wrIndex, opened, first, session, written, dropped,
                   timedOut, threadVars>>

-----------------------------------------------------------------------------
(* A device thread: Loop() and sendData().                                 *)
LoopTest(t) ==
    /\ pc[t] = "test"
    /\ pc' = [pc EXCEPT ![t] = IF stopRequest = "Started" THEN "take" ELSE "grant"]
    /\ UNCHANGED <<stopRequest, rdIndex, wrIndex, buffer, opened, mainVars, slice, out>>

(* Mutant: the thread leaves without a word.                               *)
GrantNothing(t) ==
    /\ pc[t] = "grant"
    /\ pc' = [pc EXCEPT ![t] = "done"]
    /\ UNCHANGED <<stopRequest, rdIndex, wrIndex, buffer, opened, mainVars, slice, out>>

GrantStop(t) ==
    /\ pc[t] = "grant"
    /\ stopRequest' = "StopGranted"
    /\ pc' = [pc EXCEPT ![t] = "done"]
    /\ UNCHANGED <<rdIndex, wrIndex, buffer, opened, mainVars, slice, out>>

(* The instance is gone: sendData() returns at once.                       *)
SendNothing(t) ==
    /\ pc[t] = "take" /\ ~opened
    /\ pc' = [pc EXCEPT ![t] = "test"]
    /\ UNCHANGED <<stopRequest, rdIndex, wrIndex, buffer, opened, mainVars, slice, out>>

(* Mutant: less than ten milliseconds are not sent.                        *)
WholeSlices == IF Avail < Ten THEN 0 ELSE Ten

SliceLength == IF Avail > Ten THEN Ten ELSE Avail

(* sendData() up to the unlock: the pointer and the length are taken; with *)
(* nothing to play it is silence that is sent.                             *)
TakeSlice(t) ==
    /\ pc[t] = "take" /\ opened
    /\ rdIndex <= ReadLimit
    /\ slice' = [slice EXCEPT ![t] = IF SliceLength = 0 THEN NoSlice
                                     ELSE [at |-> rdIndex, len |-> SliceLength]]
    /\ pc' = [pc EXCEPT ![t] = IF SliceLength = 0 THEN "silence" ELSE "write"]
    /\ UNCHANGED <<stopRequest, rdIndex, wrIndex, buffer, opened, mainVars, out>>

SendSilence(t) ==
    /\ pc[t] = "silence"
    /\ pc' = [pc EXCEPT ![t] = "test"]
    /\ UNCHANGED <<stopRequest, rdIndex, wrIndex, buffer, opened, mainVars, slice, out>>

(* The blocking write to the sound server ends.                            *)
SendSlice(t) ==
    /\ pc[t] = "write"
    /\ out' = [upto |-> out.upto + slice[t].len,
               samples |-> Slice(slice[t].at, slice[t].len)]
    /\ pc' = [pc EXCEPT ![t] = "advance"]
    /\ UNCHANGED <<stopRequest, rdIndex, wrIndex, buffer, opened, mainVars, slice>>

(* Mutant: ten milliseconds are skipped, whatever was sent.                *)
AdvanceByTen(t) ==
    /\ pc[t] = "advance"
    /\ rdIndex' = (rdIndex + Ten) % IndexModulus
    /\ slice' = [slice EXCEPT ![t] = NoSlice]
    /\ pc' = [pc EXCEPT ![t] = "test"]
    /\ UNCHANGED <<stopRequest, wrIndex, buffer, opened, mainVars, out>>

Advance(t) ==
    /\ pc[t] = "advance"
    /\ rdIndex' = (rdIndex + slice[t].len) % IndexModulus
    /\ slice' = [slice EXCEPT ![t] = NoSlice]
    /\ pc' = [pc EXCEPT ![t] = "test"]
    /\ UNCHANGED <<stopRequest, wrIndex, buffer, opened, mainVars, out>>

-----------------------------------------------------------------------------
Thread(t) ==
    \/ LoopTest(t) \/ GrantStop(t) \/ SendNothing(t) \/ TakeSlice(t)
    \/ SendSilence(t) \/ SendSlice(t) \/ Advance(t)

Stop == RequestStop \/ StopGranted \/ localStop \/ FreeBuffer

Main ==
    \/ InitBuffer \/ OpenDevice \/ OpenFails \/ PlayInitialFill \/ audioPump
    \/ cleanupAudio \/ Stop \/ StopTimesOut

Next == Main \/ \E t \in Threads : Thread(t)

Spec == Init /\ [][Next]_vars

(* Both threads are scheduled and a write to the sound server ends; the    *)
(* timeout need not come.                                                  *)
FairSpec == Spec /\ WF_vars(Stop) /\ \A t \in Threads : WF_vars(Thread(t))

-----------------------------------------------------------------------------
States == {"Stopped", "Started", "StopReq", "StopGranted"}

TypeOK ==
    /\ stopRequest \in States
    /\ rdIndex \in 0 .. IndexModulus - 1 /\ wrIndex \in 0 .. Size
    /\ buffer \in [Cells -> Nat]
    /\ opened \in BOOLEAN /\ first \in BOOLEAN
    /\ dropped \in BOOLEAN /\ timedOut \in BOOLEAN
    /\ main \in {"idle", "open", "playing", "stop", "wait", "release", "clean"}
    /\ session \in 0 .. MaxSessions /\ written \in Nat
    /\ pc \in [Threads -> {"none", "test", "take", "silence", "write", "advance",
                           "grant", "done"}]
    /\ slice \in [Threads -> [at : Nat, len : 0 .. Ten]]
    /\ out.upto \in Nat

Alive(t)   == pc[t] \notin {"none", "done"}
Sending(t) == pc[t] \in {"take", "silence", "write", "advance"}

(* What the sound server gets is the stream, every sample once and in      *)
(* order, although each write reads the buffer after the mutex is released *)
(* and rdIndex moves only afterwards.  (sendData, writeData)               *)
StreamInOrder ==
    ~timedOut => \A i \in DOMAIN out.samples :
                     out.samples[i] = out.upto - Len(out.samples) + i

(* The cells a thread is sending are not changed under it: the compaction  *)
(* of writeData() moves the samples elsewhere but leaves those cells.      *)
SliceIsStable ==
    [][\A t \in Threads :
          ~timedOut /\ pc[t] = "write" /\ pc'[t] = "write"
              => \A i \in slice[t].at .. slice[t].at + slice[t].len - 1 :
                     buffer'[i] = buffer[i]]_vars

(* writeData() never refuses samples: nobody looks at its answer, so they  *)
(* would be lost.                                                          *)
NothingDropped == ~timedOut => ~dropped

(* stop() closes the device and frees the buffers under a thread that uses *)
(* them only after a stop() has given up waiting.                          *)
ReleasedAfterThread ==
    main \in {"clean", "idle", "open"} /\ (\E t \in Threads : Sending(t)) => timedOut

(* One thread plays, unless a stop() has given up waiting.                 *)
OneThread == ~timedOut => \A t, u \in Threads : Alive(t) /\ Alive(u) => t = u

(* stop() does not need its three seconds: the thread answers the order.   *)
StopReturns == (main = "wait" /\ ~timedOut) ~> (main = "idle" \/ timedOut)

(* While the session plays, what was written is sent, to the last sample.  *)
Drains ==
    \A n \in 1 .. MaxSamples :
        (main = "playing" /\ written >= n) ~> (out.upto >= n \/ main # "playing" \/ timedOut)
=============================================================================
