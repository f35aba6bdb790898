------------------------------- MODULE VideoCache -------------------------------
(***************************************************************************)
(* The images a video filter looks at around the one it works on: a filter *)
(* that keeps a VideoCache (ADM_videoFilterCache.cpp), the bridge that     *)
(* numbers the pictures of the editor for it (ADM_videoFilterBridge.cpp),  *)
(* and the callers that take one frame after the other, or seek.           *)
(*                                                                         *)
(* The cache fetches what it has not, and the bridge can only deliver the  *)
(* next picture.  So a frame the filter asks for has to be in the cache or *)
(* to be the next one: getImageBase() asserts it.                          *)
(*                                                                         *)
(* The editor is external: picture k of the timeline is shown at time      *)
(* 2 * (k - 1), so that a time may also lie between two pictures; after a  *)
(* seek that fails it may or may not have the picture at its position, and *)
(* nextPicture() may fail before the end, when too much is damaged, and    *)
(* succeed when it is called again.                                        *)
(***************************************************************************)
EXTENDS Integers, Sequences, FiniteSets

CONSTANTS
    CacheSize,   \* nbEntry
    Filters,     \* the filters to try: back, ahead: how far it looks; window:
                 \* what it asks for, in order, relative to its frame; bob:
                 \* two output frames for each frame?
    NbPictures,  \* in the timeline
    Keys,        \* those that are keyframes
    Selections,  \* the pairs of start time and end time
    MaxFails,    \* bound on the fetches that fail, from one seek to the next
    MaxCounter   \* bound on counter

(* Every frame in reach is asked for once, later ones in their order, and  *)
(* there are entries for all of them and two more.                         *)
ASSUME CacheAssumption ==
    /\ CacheSize \in Nat
    /\ \A f \in Filters :
          /\ f.back \in Nat /\ f.ahead \in Nat /\ f.bob \in BOOLEAN
          /\ CacheSize >= f.back + f.ahead + 2
          /\ f.window \in Seq(-f.back .. f.ahead)
          /\ \A o \in -f.back .. f.ahead : \E i \in DOMAIN f.window : f.window[i] = o
          /\ \A i, j \in DOMAIN f.window :
                i < j => f.window[i] # f.window[j] /\ ~(0 <= f.window[j] /\ f.window[j] < f.window[i])
    /\ NbPictures \in Nat \ {0}
    /\ Keys \subseteq 1 .. NbPictures
    /\ Selections \subseteq Nat \X Nat
    /\ MaxFails \in Nat
    /\ MaxCounter \in Nat

VARIABLES
    bridge,    \* start, end; first: firstImage, next: nextFrame, fails: how
               \* many fetches have failed, pos: the editor's picture, held:
               \* does it have that picture?
    cache,     \* entry: frame, lock, lastUse, free; img is the picture in it
    counter,
    call,      \* of: the filter, n: the frame it works on, half: for the
               \* second output, at: what it asks for next (1: between calls)
    origin,    \* auxiliary: the picture the last seek has gone to
    stumbled,  \* auxiliary: the editor has failed, or skipped, since then
    aborted    \* an assertion has failed

vars == <<bridge, cache, counter, call, origin, stumbled, aborted>>

Window   == call.of.window
Entries  == 1 .. CacheSize
Pictures == 1 .. NbPictures
TimeOf(k) == 2 * (k - 1)

-----------------------------------------------------------------------------
(* VideoCache.                                                             *)
Empty == [frame |-> 0, lock |-> 0, lastUse |-> 0, free |-> TRUE, img |-> 0]

Taken(c) == {i \in Entries : ~c[i].free}

(* searchFrame().                                                          *)
Holding(f) == {i \in Taken(cache) : cache[i].frame = f}

(* searchFreeEntry(): a free entry, else the one of those not locked that  *)
(* has not been used for longest; none is an assertion that fails.         *)
FreeEntry ==
    LET free == Entries \ Taken(cache)
        open == {i \in Entries : cache[i].lock = 0 /\ cache[i].lastUse # counter}
    IN  IF free # {} THEN {i \in free : \A j \in free : i <= j}
        ELSE {i \in open : \A j \in open : cache[i].lastUse <= cache[j].lastUse}

(* Mutant: the use is not noted.                                           *)
UsedLocked(e) == [e EXCEPT !.lock = (@ + 1) % 256]

Used(e) == [e EXCEPT !.lock = (@ + 1) % 256, !.lastUse = counter]

(* unlockAll().                                                            *)
Unlocked == [i \in Entries |-> [cache[i] EXCEPT !.lock = 0]]

(* Mutant: nothing but the locks is forgotten.                             *)
FlushedLocks == Unlocked

(* flush(): the counter goes on, and the images stay where they are.       *)
Flushed == [i \in Entries |-> [Empty EXCEPT !.img = cache[i].img]]

-----------------------------------------------------------------------------
(* The bridge: getNextFrameBase().                                         *)
Early(k) == TimeOf(k) < bridge.start
Late(k)  == TimeOf(k) > bridge.end

Goal   == IF bridge.first THEN bridge.pos ELSE bridge.pos + 1
Number == IF bridge.first THEN 0 ELSE bridge.next + 1
Held   == ~bridge.first \/ bridge.held

(* Pictures that are too early are counted and skipped.                    *)
Reached(k) == k >= Goal /\ ~Early(k) /\ \A j \in Goal .. (k - 1) : Early(j)

(* The end of the timeline: only failures can follow.                      *)
Dry == \A k \in Pictures : k >= Goal => Late(k)

Fetched(k, nb, fails) ==
    bridge' = [bridge EXCEPT !.first = FALSE, !.pos = k, !.next = nb, !.fails = fails, !.held = TRUE]

(* Where the editor is after goToTimeVideo(): at the picture of that time, *)
(* or where it was.                                                        *)
Landing(t, from) ==
    LET there == {k \in Pictures : TimeOf(k) = t}
    IN  IF there # {} THEN there \X {TRUE} ELSE {from} \X BOOLEAN

-----------------------------------------------------------------------------
(* The filter: getNextFrame() of yadif and dgBob.                          *)
Asking == ~aborted /\ call.at \in DOMAIN Window /\ bridge.fails < MaxFails
              /\ counter < MaxCounter
Frame  == call.n + Window[call.at]

(* What precedes the first frame is not asked for.                         *)
Skip ==
    /\ Asking
    /\ Frame < 0
    /\ call' = [call EXCEPT !.at = @ + 1]
    /\ UNCHANGED <<bridge, cache, counter, origin, stumbled, aborted>>

(* getImageBase(): the frame is there.                                     *)
Hit ==
    /\ Asking
    /\ Frame >= 0
    /\ \E i \in Holding(Frame) : cache' = [cache EXCEPT ![i] = Used(@)]
    /\ counter' = counter + 1
    /\ call' = [call EXCEPT !.at = @ + 1]
    /\ UNCHANGED <<bridge, origin, stumbled, aborted>>

(* ... or has to be fetched, and becomes the image of an entry.            *)
Missing == Asking /\ Frame >= 0 /\ Holding(Frame) = {}

Fetch(i, k) ==
    /\ Missing
    /\ Held
    /\ i \in FreeEntry
    /\ Reached(k)
    /\ ~Late(k)
    /\ Frame = Number + k - Goal
    /\ Fetched(k, Frame, bridge.fails)
    /\ cache' = [cache EXCEPT ![i] = [Used(@) EXCEPT !.frame = Frame, !.free = FALSE, !.img = k]]
    /\ counter' = counter + 1
    /\ call' = [call EXCEPT !.at = @ + 1]
    /\ UNCHANGED <<origin, stumbled, aborted>>

(* There is no entry for it, or "Cache inconsistency": it is not the next. *)
AssertionFails ==
    /\ Missing
    /\ FreeEntry # {} =>
           \E k \in Pictures : Held /\ Reached(k) /\ ~Late(k) /\ Frame # Number + k - Goal
    /\ stumbled' = (stumbled \/ (FreeEntry # {} /\ Early(Goal)))
    /\ aborted' = TRUE
    /\ UNCHANGED <<bridge, cache, counter, call, origin>>

(* No image: the filter does without, or gives up if it is the one it      *)
(* works on.  A picture that is too late has been written all the same.    *)
NoImage ==
    call' = [call EXCEPT !.at = IF Window[@] = 0 THEN 1 ELSE @ + 1]

FetchTooLate(i, k) ==
    /\ Missing
    /\ Held
    /\ i \in FreeEntry
    /\ Reached(k)
    /\ Late(k)
    /\ Fetched(k, Number + k - Goal, bridge.fails + 1)
    /\ cache' = [cache EXCEPT ![i].img = k]
    /\ stumbled' = (stumbled \/ k # Goal)
    /\ NoImage
    /\ UNCHANGED <<counter, origin, aborted>>

(* nextPicture() has failed, or samePicture() has not found the picture.   *)
FetchFails ==
    /\ Missing
    /\ bridge.first => ~bridge.held \/ Early(bridge.pos)
    /\ FreeEntry # {}
    /\ Fetched(bridge.pos, Number, bridge.fails + 1)
    /\ stumbled' = (stumbled \/ ~Dry)
    /\ NoImage
    /\ UNCHANGED <<cache, counter, origin, aborted>>

(* The frame is done.                                                      *)
Done ==
    /\ ~aborted
    /\ call.at > Len(Window)
    /\ cache' = Unlocked
    /\ call' = [call EXCEPT !.n = IF call.of.bob /\ ~call.half THEN @ ELSE @ + 1,
                            !.half = call.of.bob /\ ~@, !.at = 1]
    /\ UNCHANGED <<bridge, counter, origin, stumbled, aborted>>

(* goToTime(), between two frames: to the start, or in the preview of the  *)
(* whole to any keyframe.                                                  *)
GoToTime(to) ==
    /\ ~aborted
    /\ call.at = 1
    /\ counter < MaxCounter
    /\ \/ to \in Landing(bridge.start, bridge.pos)
       \/ bridge.start = 0 /\ to \in Keys \X {TRUE}
    /\ bridge' = [bridge EXCEPT !.first = TRUE, !.pos = to[1], !.held = to[2], !.fails = 0]
    /\ origin' = to[1]
    /\ cache' = Flushed
    /\ call' = [call EXCEPT !.n = 0, !.half = FALSE, !.at = 1]
    /\ stumbled' = FALSE
    /\ UNCHANGED <<counter, aborted>>

-----------------------------------------------------------------------------
(* The bridge is made for a selection, while the editor shows any picture. *)
Init ==
    /\ \E s \in Selections, from \in Pictures : \E to \in Landing(s[1], from) :
          /\ bridge = [start |-> s[1], end |-> s[2], pos |-> to[1], held |-> to[2],
                       first |-> TRUE, next |-> 0, fails |-> 0]
          /\ origin = to[1]
    /\ cache = [i \in Entries |-> Empty]
    /\ counter = 0
    /\ call \in [of : Filters, n : {0}, half : {FALSE}, at : {1}]
    /\ stumbled = FALSE
    /\ aborted = FALSE

Next ==
    \/ Skip \/ Hit \/ FetchFails \/ AssertionFails \/ Done
    \/ \E i \in Entries, k \in Pictures : Fetch(i, k) \/ FetchTooLate(i, k)
    \/ \E to \in Pictures \X BOOLEAN : GoToTime(to)

Spec == Init /\ [][Next]_vars

-----------------------------------------------------------------------------
TypeOK ==
    /\ bridge \in [start : Nat, end : Nat, pos : Pictures, held : BOOLEAN,
                   first : BOOLEAN, next : Nat, fails : Nat]
    /\ cache \in [Entries -> [frame : Nat, lock : 0 .. 255, lastUse : Nat,
                              free : BOOLEAN, img : Nat]]
    /\ counter \in Nat
    /\ call \in [of : Filters, n : Nat, half : BOOLEAN, at : 1 .. Len(Window) + 1]
    /\ origin \in Pictures
    /\ stumbled \in BOOLEAN
    /\ aborted \in BOOLEAN

(* Whatever the filter has asked for in this call, and the timeline has,   *)
(* is still in the cache and is the picture that has this number: no image *)
(* it holds has been given to another frame, none is left of the time      *)
(* before a seek, and none was overwritten by a fetch that failed.         *)
ImagesAreRight ==
    ~stumbled =>
        \A j \in 1 .. (call.at - 1) :
            LET f == call.n + Window[j]
            IN  0 <= f /\ origin + f \in Pictures /\ ~Late(origin + f)
                    => \E i \in Holding(f) : cache[i].img = origin + f

(* "ADM_assert(nb==frame)" and "ADM_assert(target!=0xfff)" (ADM_video-     *)
(* FilterCache.cpp): the cache always has a frame the filter comes back    *)
(* to, and an entry for the next, however often frames are asked for again *)
(* at the end - unless the editor fails before the end, or is not at the   *)
(* start when the first frame is asked for.                                *)
AssertionsHold == aborted => stumbled
=============================================================================
