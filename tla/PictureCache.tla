------------------------------ MODULE PictureCache ------------------------------
(***************************************************************************)
(* What the editor keeps of each reference video to show its pictures: the *)
(* ring of decoded pictures (EditorCache) and the loop that fills it, over *)
(* a demuxer and a decoder.                                                *)
(*                                                                         *)
(* The decoder delivers pictures later than it is fed, in the order they   *)
(* are shown; pictures may be damaged or come without a time stamp.  All   *)
(* this runs in the thread of the user interface, one call at a time, so   *)
(* every function is an operator on the state e of the editor:             *)
(*   e.vid[v]   the state kept of video v,                                 *)
(*   e.eos      endOfStream, which all videos share,                       *)
(*   e.ok       what the last function called has returned,                *)
(*   e.img      the picture that is displayed, with the time it carries.   *)
(***************************************************************************)
EXTENDS Integers, Sequences, SequencesExt, FiniteSets

CONSTANTS
    Videos,     \* the files that can be loaded
    NbFrames,   \* _nb_video_frames
    FirstPts,   \* firstFramePts, in half frames
    CacheSize,  \* _nbImage: 8 to 16
    Coded,      \* the pictures in the order they are coded: 1 is shown first
    Keys,       \* the pictures that are keyframes
    Lost,       \* the pictures that cannot be decoded
    Untimed,    \* the pictures that carry no time stamp
    Delay       \* how many pictures the decoder holds back

ASSUME StreamAssumption ==
    /\ CacheSize \in Nat \ {0, 1}
    /\ \A v \in Videos :
          /\ Len(Coded[v]) = NbFrames[v]
          /\ ToSet(Coded[v]) = 1 .. NbFrames[v]
          /\ Keys[v] \cup Lost[v] \cup Untimed[v] \subseteq 1 .. NbFrames[v]
          /\ Delay[v] \in Nat

FrameTime == 2   \* timeIncrementInUs, in half frames
NoPts     == -1  \* ADM_NO_PTS

(* The time picture n is shown at, and the time stamp it carries.          *)
ShownAt(v, n) == FirstPts[v] + FrameTime * (n - 1)
Stamp(v, n)   == IF n \in Untimed[v] THEN NoPts ELSE ShownAt(v, n)

(* The frames of the demuxer are numbered as they are coded.               *)
Frames(v)      == 1 .. NbFrames[v]
FramePts(v, f) == Stamp(v, Coded[v][f])
IsKey(v, f)    == f \in Frames(v) /\ Coded[v][f] \in Keys[v]

(* Frames and positions in the ring are numbered from 1: 0 stands for none. *)
FirstOf(S) == IF S = {} THEN 0 ELSE Min(S)
LastOf(S)  == IF S = {} THEN 0 ELSE Max(S)

(* TimeToFrame(): 0 if there is none.                                      *)
FrameAt(v, t) == FirstOf({f \in Frames(v) : FramePts(v, f) = t})

IsKeyAt(v, t) == IsKey(v, FrameAt(v, t))

-----------------------------------------------------------------------------
(* EditorCache.  The ring holds the pictures from readIndex to writeIndex. *)

(* Mutant: the newest picture makes room.                                  *)
NewestGone(ring) == IF Len(ring) = CacheSize THEN Front(ring) ELSE ring

(* getFreeImage(): the oldest picture makes room, also for a picture that  *)
(* invalidate() takes back.                                                *)
MadeRoom(ring) == IF Len(ring) = CacheSize THEN Tail(ring) ELSE ring

ByPts(ring, pts) == FirstOf({i \in DOMAIN ring : ring[i].pts = pts})

(* getBefore(): the entry that precedes.                                   *)
Before(ring, pts) ==
    FirstOf({i \in 1 .. Len(ring) - 1 : ring[i + 1].pts = pts})

(* getAfter(): the entry that follows; if its time is not later, the next  *)
(* one that is, though never the last of the ring.                         *)
Later(ring, i, pts) ==
    IF ring[i + 1].pts > pts THEN {i + 1}
    ELSE {k \in i + 2 .. Len(ring) - 1 : ring[k].pts > pts}

After(ring, pts) ==
    LET From(found) == IF found = {} THEN 0 ELSE Min(Later(ring, Min(found), pts))
    IN  From({i \in 1 .. Len(ring) - 1 : ring[i].pts = pts /\ Later(ring, i, pts) # {}})

-----------------------------------------------------------------------------
(* The decoder: what it is fed is held back and comes out in the order it  *)
(* is shown.  After a flush it drops what precedes the keyframe it is fed. *)
Reset(v, f) == [held |-> <<>>, since |-> Coded[v][f], draining |-> FALSE, ended |-> FALSE]

Held(d, v, n) ==
    IF n \in Lost[v] \/ n < d.since THEN d.held
    ELSE SelectSeq(d.held, LAMBDA m : m <= n) \o <<n>> \o SelectSeq(d.held, LAMBDA m : m > n)

(* Fed picture n: [dec, out], out = 0 if nothing comes out.                *)
Fed(d, v, n) ==
    LET With(held) ==
            IF Len(held) > Delay[v]
            THEN [dec |-> [d EXCEPT !.held = Tail(held), !.ended = FALSE], out |-> Head(held)]
            ELSE [dec |-> [d EXCEPT !.held = held], out |-> 0]
    IN  With(Held(d, v, n))

(* Drained: at the end it says so and leaves the draining state.           *)
Drained(d) ==
    IF d.held = <<>>
    THEN [dec |-> [d EXCEPT !.ended = TRUE, !.draining = FALSE], out |-> 0]
    ELSE [dec |-> [d EXCEPT !.held = Tail(@), !.ended = FALSE], out |-> Head(d.held)]

-----------------------------------------------------------------------------
Failed(e)    == [e EXCEPT !.ok = FALSE]
Succeeded(e) == [e EXCEPT !.ok = TRUE]

(* out->duplicate(img).                                                    *)
Copied(e, v, entry) == [e EXCEPT !.img = [ref |-> v, pic |-> entry.pic, pts |-> entry.pts]]

(* The end of DecodeNextPicture(): a picture that goes back in time is     *)
(* dropped, but its time stays.                                            *)
KeptIfInOrder(e, v, out, ring, old, pts) ==
    [e EXCEPT !.vid[v].lastDecoded = pts,
              !.vid[v].ring = IF old > pts THEN ring ELSE Append(ring, [pts |-> pts, pic |-> out]),
              !.ok = (old <= pts)]

(* A picture without time stamp follows the one decoded before it.         *)
Guessed(v, out, old) == IF Stamp(v, out) = NoPts THEN old + FrameTime ELSE Stamp(v, out)

(* DecodeNextPicture().                                                    *)
DecodeNextPicture(e, v) ==
    LET s    == e.vid[v]
        sent == s.sent + 1
        got  == ~s.dec.draining /\ sent \in Frames(v)
        ring == MadeRoom(s.ring)
        Went(next, out) ==
            IF out = 0
            THEN Succeeded([next EXCEPT !.vid[v].ring = ring, !.eos = IF got THEN @ ELSE TRUE])
            ELSE KeptIfInOrder(next, v, out, ring, s.lastDecoded, Guessed(v, out, s.lastDecoded))
        With(res) ==
            Went([e EXCEPT !.vid[v].sent = sent, !.vid[v].dec = res.dec,
                           !.eos = IF got THEN FALSE ELSE @], res.out)
    IN  IF s.dec.ended THEN Failed(e)
        ELSE IF got THEN With(Fed(s.dec, v, Coded[v][sent]))
        ELSE With(Drained([s.dec EXCEPT !.draining = TRUE]))

(* nextPictureInternal(): decode until the ring holds a picture after the  *)
(* last one read, 20 times at most; wanted says if it is to be displayed,  *)
(* a limit > 0 that it has to be before that time.                         *)
RECURSIVE NextTry(_, _, _, _, _)
NextTry(e, v, wanted, limit, tries) ==
    LET Read(d, at) ==
            LET entry == d.vid[v].ring[at]
            IN  IF ~d.ok \/ at = 0 THEN NextTry(d, v, wanted, limit, tries - 1)
                ELSE IF limit > 0 /\ entry.pts >= limit THEN Failed(d)
                ELSE IF wanted THEN Copied([d EXCEPT !.vid[v].lastRead = entry.pts], v, entry)
                ELSE d
        Then(d) == Read(d, After(d.vid[v].ring, d.vid[v].lastRead))
    IN  IF tries = 0 \/ e.eos THEN Failed(e) ELSE Then(DecodeNextPicture(e, v))

NextPictureInternal(e, v, wanted, limit) == NextTry(e, v, wanted, limit, 20)

(* DecodePictureUpToIntra(): start again at frame f and decode until it    *)
(* comes out of the decoder, 22 times at most, the last frame of the video *)
(* as often as it takes.  Here pictures are kept in any order.             *)
RECURSIVE SyncTry(_, _, _, _, _)
SyncTry(e, v, wantedPts, synced, tries) ==
    LET s    == e.vid[v]
        sent == Min({s.sent, NbFrames[v]})
        Kept(d, pts) ==
            IF pts = wantedPts THEN Succeeded([d EXCEPT !.vid[v].lastRead = wantedPts])
            ELSE SyncTry([d EXCEPT !.vid[v].sent = sent + 1], v, wantedPts, TRUE, tries - 1)
        Out(d, out, pts) ==
            IF out # 0 /\ (Stamp(v, out) # NoPts \/ synced)
            THEN Kept([d EXCEPT !.vid[v].lastDecoded = pts,
                                !.vid[v].ring = Append(@, [pts |-> pts, pic |-> out])], pts)
            ELSE SyncTry([d EXCEPT !.vid[v].sent = sent + 1], v, wantedPts, synced, tries - 1)
        With(res) ==
            Out([e EXCEPT !.vid[v].sent = sent, !.vid[v].dec = res.dec,
                          !.vid[v].ring = MadeRoom(@)],
                res.out, Guessed(v, res.out, s.lastDecoded))
    IN  IF tries = 0 THEN Failed(e) ELSE With(Fed(s.dec, v, Coded[v][sent]))

DecodePictureUpToIntra(e, v, f) ==
    IF ~IsKey(v, f) /\ ~IsKey(v, f + 1) THEN Failed(e)
    ELSE SyncTry([e EXCEPT !.vid[v].sent = f, !.vid[v].ring = <<>>,
                           !.vid[v].dec = Reset(v, f), !.eos = FALSE],
                 v, FramePts(v, f), FALSE, 22)

-----------------------------------------------------------------------------
(* getFrameNumFromPtsOrBefore(): the frame at time t, or the last one      *)
(* before it, within 16 frames.                                            *)
FrameUpTo(v, t) ==
    LET Latest(fs) == FirstOf({f \in fs : \A g \in fs : FramePts(v, g) <= FramePts(v, f)})
        Or(f) ==
            IF f # 0 THEN f
            ELSE Latest({g \in Frames(v) : FramePts(v, g) # NoPts /\ FramePts(v, g) < t
                                           /\ FramePts(v, g) + 16 * FrameTime >= t})
    IN  IF t <= FirstPts[v] THEN 1 ELSE Or(FrameAt(v, t))

(* Mutant: the last keyframe that is coded before, whenever it is shown.   *)
KeyCodedBefore(v, t) ==
    IF t = 0 THEN 0 ELSE LastOf({f \in 1 .. FrameUpTo(v, t) : IsKey(v, f)})

(* searchPreviousKeyFrameInRef() and searchNextKeyFrameInRef(): the frame, *)
(* 0 if there is none.                                                     *)
KeyBefore(v, t) ==
    IF t = 0 THEN 0
    ELSE LastOf({f \in 1 .. FrameUpTo(v, t) :
                    IsKey(v, f) /\ FramePts(v, f) # NoPts /\ FramePts(v, f) < t})

KeyAfter(v, t) ==
    FirstOf({f \in Max({1, FrameUpTo(v, t) - 16}) .. NbFrames[v] :
                IsKey(v, f) /\ FramePts(v, f) # NoPts /\ FramePts(v, f) > t})

(* The end of seektoTime(): forward to time t, which has to be the time of *)
(* a picture.                                                              *)
Read(e, v) == [e EXCEPT !.vid[v].lastRead = e.vid[v].lastDecoded]

RECURSIVE ForwardTo(_, _, _)
ForwardTo(e, v, t) ==
    LET Then(d) ==
            IF ~d.ok THEN d
            ELSE IF d.vid[v].lastDecoded = t THEN Read(d, v)
            ELSE IF d.vid[v].lastDecoded > t THEN Failed(Read(d, v))
            ELSE ForwardTo(Read(d, v), v, t)
    IN  IF e.ok THEN Then(NextPictureInternal(e, v, FALSE, 0)) ELSE e

(* seektoTime(), when pictures are decoded.                                *)
SeekToTime(e, v, t) ==
    LET k == KeyBefore(v, t)
    IN  IF t > FirstPts[v] /\ ByPts(e.vid[v].ring, t) # 0
        THEN Succeeded([e EXCEPT !.vid[v].lastDecoded = t, !.vid[v].lastRead = t, !.eos = FALSE])
        ELSE IF IsKeyAt(v, t) THEN DecodePictureUpToIntra(e, v, FrameAt(v, t))
        ELSE IF k = 0 THEN Failed(e)
        ELSE ForwardTo(DecodePictureUpToIntra(e, v, k), v, t)

(* samePictureInternal().                                                  *)
SamePictureInternal(e, v) ==
    LET at == ByPts(e.vid[v].ring, e.vid[v].lastDecoded)
    IN  IF at = 0 THEN Failed(e) ELSE Copied(Succeeded(e), v, e.vid[v].ring[at])
=============================================================================
