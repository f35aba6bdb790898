------------------------------- MODULE Navigation -------------------------------
(***************************************************************************)
(* Moving through the timeline (ADM_edRender.cpp, ADM_edSearch.cpp) and    *)
(* the handlers of the user interface that call it (gui_navigate.cpp,      *)
(* ADM_previewNavigate.cpp, and the cut of gui_main.cpp).                  *)
(*                                                                         *)
(* The state of the editor is one record, which the functions called from  *)
(* a handler change one after the other:                                   *)
(*   editor.segs  _segments          editor.seg  _currentSegment           *)
(*   editor.pos   _currentPts        editor.videos   the reference videos  *)
(*   editor.cuts  how many cuts yet  editor.aborted  an assertion failed   *)
(* and the fields of PictureCache.  The loop of GUI_lastFrameBeforePts()   *)
(* is the only one that takes a step of the model for each of its rounds.  *)
(***************************************************************************)
EXTENDS PictureCache

CONSTANTS
    Loadings,  \* the sequences of videos that are loaded
    Stops,     \* the times that are typed in, picked with the slider, marked
    Jumps,     \* the distances of "forward 4 seconds", "backward 4 seconds"
    MaxCuts,   \* bound on the cuts of a behaviour
    MaxTotal,  \* bounds of Segments
    MaxLen

VARIABLES
    editor,
    walk,      \* the loop of GUI_lastFrameBeforePts(): pts, tmp
    turn       \* 0: no loop runs; else it changes with every round of it

vars == <<editor, walk, turn>>

NoTime == -1
NoWalk == [pts |-> NoTime, tmp |-> NoTime]

Timeline ==
    INSTANCE Segments WITH videos <- editor.videos, segments <- editor.segs, clipboard <- <<>>

SegAt(e, t) == Timeline!SegAt(e.segs, t)
Duration(e) == Timeline!End(Last(e.segs))
Current(e)  == e.segs[e.seg]

Linear(s, pts)  == Max({0, pts - s.refStart + s.start})  \* recalibrate()
RefTime(s, t)   == t - s.start + s.refStart              \* LinearToRefTime()
RefEnd(s)       == s.refStart + s.dur
Aborted(e)      == [e EXCEPT !.aborted = TRUE]

(* SET_CURRENT_PTS.                                                        *)
At(e, t) == [e EXCEPT !.pos = t]

(* updateImageTiming().                                                    *)
Timed(e, s) == [e EXCEPT !.img.pts = Linear(s, @)]

(* Mutant: the position stays where it was.                                *)
TimedOnly(e, s) == Timed(e, s)

(* ... and the position is that of the picture.                            *)
AtImage(e, s) == At(Timed(e, s), Linear(s, e.img.pts))

-----------------------------------------------------------------------------
(* goToTimeVideo(): the time of a picture.  A seek that fails is tried a   *)
(* second time.                                                            *)
Again(d, v, t)  == IF d.ok THEN d ELSE SeekToTime(d, v, t)
Sought(e, v, t) == Again(SeekToTime(e, v, t), v, t)

GoToTimeVideo(e, t) ==
    LET at    == SegAt(e, t)
        s     == e.segs[at]
        early == s.ref = e.videos[1] /\ t = s.start /\ s.refStart < FirstPts[s.ref]
        Then(d) ==
            IF d.ok THEN [d EXCEPT !.seg = at, !.pos = d.vid[s.ref].lastDecoded + s.start - s.refStart]
            ELSE d
    IN  IF at = 0 THEN Failed(e)
        ELSE Then(Sought(e, s.ref, s.refStart + IF early THEN FirstPts[s.ref] ELSE t - s.start))

(* switchToSegment().                                                      *)
SwitchToSegment(e, at) ==
    LET s       == e.segs[at]
        Then(d) == IF d.ok THEN [d EXCEPT !.seg = at] ELSE d
    IN  IF at \notin DOMAIN e.segs THEN Failed(e)
        ELSE Then(SeekToTime(e, s.ref, IF s.refStart = 0 THEN FirstPts[s.ref] ELSE s.refStart))

(* rewind().                                                               *)
Rewind(e) ==
    LET s       == e.segs[1]
        Then(d) == IF d.ok THEN At(d, d.vid[s.ref].lastDecoded + s.start - s.refStart) ELSE d
    IN  Then(SwitchToSegment(e, 1))

(* goToIntraTimeVideo().                                                   *)
GoToIntraTimeVideo(e, t) ==
    LET at == SegAt(e, t)
        s  == e.segs[at]
        f  == FrameAt(s.ref, s.refStart + t - s.start)
        Decoded(d)  == IF d.ok THEN At(d, d.vid[s.ref].lastDecoded + s.start - s.refStart) ELSE d
        Switched(d) == IF d.ok THEN Decoded(DecodePictureUpToIntra(d, s.ref, f)) ELSE d
    IN  IF at = 0 THEN Failed(e)
        ELSE IF f = 0 THEN Aborted(e)
        ELSE Switched(IF at = e.seg THEN Succeeded(e) ELSE SwitchToSegment(e, at))

-----------------------------------------------------------------------------
(* nextPicture(): from the ring, or decode the next one; past the end of   *)
(* the segment, the first picture of the next.                             *)
NextSegment(e, cross) ==
    LET Then(d) ==
            IF d.ok THEN Succeeded(AtImage(SamePictureInternal(d, Current(d).ref), Current(d))) ELSE d
    IN  IF ~cross \/ e.seg = Len(e.segs) THEN Failed(e) ELSE Then(SwitchToSegment(e, e.seg + 1))

(* The picture, if there is one, may still lie behind the segment.         *)
IfInSegment(e, cross) ==
    LET s == Current(e) IN
    IF e.ok /\ Linear(s, e.img.pts) < s.start + s.dur THEN AtImage(e, s)
    ELSE NextSegment(IF e.ok THEN Timed(e, s) ELSE e, cross)

(* When decoding fails: go on at the next keyframe.                        *)
SkipToKey(e, limit, from) ==
    LET s == Current(e)
        f == KeyAfter(s.ref, from)
        t == FramePts(s.ref, f)
        Then(d) ==
            LET at == ByPts(d.vid[s.ref].ring, t)
            IN  IF d.ok /\ at # 0 THEN Copied(d, s.ref, d.vid[s.ref].ring[at]) ELSE d
    IN  IF f <= 1 \/ t >= limit THEN e ELSE Then(DecodePictureUpToIntra(e, s.ref, f))

NextPicture(e, cross, skip) ==
    LET s     == Current(e)
        from  == RefTime(s, e.pos)
        ring  == e.vid[s.ref].ring
        at    == After(ring, from)
        limit == IF e.seg = Len(e.segs) THEN RefEnd(s) ELSE 0
        Else(d) == IF d.ok \/ ~skip THEN d ELSE SkipToKey(d, limit, from)
    IN  IfInSegment(
            IF at = 0 THEN Else(NextPictureInternal(e, s.ref, TRUE, limit))
            ELSE IF ring[at].pts - s.refStart >= s.dur THEN Failed(e)
            ELSE Succeeded(Copied([e EXCEPT !.vid[s.ref].lastRead = ring[at].pts], s.ref, ring[at])),
            cross)

-----------------------------------------------------------------------------
(* decodeTillPictureAtPts(): from the keyframe before the target forward,  *)
(* within the segment.  It answers "no", "ignore" or "found".  (One micro- *)
(* second before the target is, in half frames, any time before it.)       *)
RECURSIVE WalkTo(_, _)
WalkTo(e, target) ==
    LET Then(d) ==
            IF ~d.ok THEN [e |-> d, is |-> "ignore"]
            ELSE IF d.img.pts < target THEN WalkTo(d, target)
            ELSE [e |-> d, is |-> IF d.img.pts = target THEN "found" ELSE "ignore"]
    IN  IF e.ok THEN Then(NextPicture(e, FALSE, FALSE)) ELSE [e |-> e, is |-> "no"]

DecodeTillPictureAtPts(e, target) ==
    LET s == Current(e)
        t == RefTime(s, target)
        k == KeyBefore(s.ref, t)
    IN  IF t <= FirstPts[s.ref] \/ k = 0 THEN [e |-> e, is |-> "no"]
        ELSE WalkTo(SeekToTime(e, s.ref, FramePts(s.ref, k)), target)

(* The same, after a switch to another segment.                            *)
SwitchedTill(d, target) ==
    IF d.ok THEN DecodeTillPictureAtPts(d, target) ELSE [e |-> d, is |-> "no"]

(* previousPicture(): from the ring; or decode up to the picture that is   *)
(* displayed and take the one before; or the last one of the segment       *)
(* before.                                                                 *)
Displayed(e, entry) == Succeeded(AtImage(Copied(e, Current(e).ref, entry), Current(e)))

(* Back from the newest picture of the ring to one before the boundary.    *)
RECURSIVE Backwards(_, _, _)
Backwards(ring, at, t) ==
    IF ring[at].pts < t \/ Before(ring, ring[at].pts) = 0 THEN at
    ELSE Backwards(ring, Before(ring, ring[at].pts), t)

PreviousInSegment(e, target, from) ==
    LET s == Current(e)
        Then(res) ==
            LET ring == res.e.vid[s.ref].ring
                at   == IF res.is = "found" THEN Before(ring, from) ELSE Len(ring)
            IN  IF res.is = "no" \/ at = 0 THEN Failed(res.e)
                ELSE IF ring[at].pts >= s.refStart THEN Displayed(res.e, ring[at])
                ELSE Failed(res.e)
    IN  Then(DecodeTillPictureAtPts(e, target))

PreviousSegment(e, at, target) ==
    LET s == e.segs[at]
        Then(res) ==
            LET ring == res.e.vid[s.ref].ring
            IN  IF res.is = "no" \/ ring = <<>> THEN Failed(res.e)
                ELSE Displayed([res.e EXCEPT !.seg = at],
                               ring[Backwards(ring, Len(ring), RefTime(s, target))])
    IN  IF at + 1 # e.seg THEN Aborted(e) ELSE Then(SwitchedTill(SwitchToSegment(e, at), target))

PreviousPicture(e) ==
    LET s      == Current(e)
        from   == RefTime(s, e.pos)
        first  == from <= FirstPts[s.ref]
        target == IF first THEN s.start ELSE e.pos
        ring   == e.vid[s.ref].ring
        at     == Before(ring, from)
        in     == SegAt(e, target - 1)
    IN  IF e.pos = 0 \/ (first /\ e.seg = 1) THEN Failed(e)
        ELSE IF at # 0 /\ ring[at].pts < from /\ ring[at].pts >= s.refStart
        THEN Displayed(e, ring[at])
        ELSE IF in = 0 THEN Failed(e)
        ELSE IF in = e.seg THEN PreviousInSegment(e, target, from)
        ELSE PreviousSegment(e, in, target)

(* samePicture(): the picture at the position, which has to be in the ring.*)
SamePicture(e) ==
    LET at == SegAt(e, e.pos)
        s  == Current(e)
        i  == ByPts(e.vid[s.ref].ring, s.refStart + e.pos - e.segs[at].start)
    IN  IF at = 0 THEN Failed(e)
        ELSE IF at # e.seg THEN Aborted(e)
        ELSE IF i = 0 THEN Failed(e)
        ELSE Succeeded(Timed(Copied(e, s.ref, e.vid[s.ref].ring[i]), s))

-----------------------------------------------------------------------------
(* getNKFramePTS(): the next keyframe within the segment, or the first one *)
(* of a segment behind it.                                                 *)
NextKeyPts(e, t) ==
    LET at      == SegAt(e, t)
        From(i) == IF i = at THEN RefTime(e.segs[i], t) ELSE e.segs[i].refStart - 1
        Key(i)  == KeyAfter(e.segs[i].ref, From(i))
        Pts(i)  == FramePts(e.segs[i].ref, Key(i))
        First(has) == IF has = {} THEN NoTime ELSE Linear(e.segs[Min(has)], Pts(Min(has)))
    IN  IF at = 0 THEN NoTime
        ELSE First({i \in at .. Len(e.segs) : Key(i) # 0 /\ Pts(i) < RefEnd(e.segs[i])})

(* getPKFramePTS(): the keyframe before within the segment, or the last    *)
(* one of a segment before it.  Time 0 stands for the first picture.       *)
PrevKeyPts(e, time) ==
    LET shift   == time = 0 /\ e.segs[1].refStart = 0
        t       == IF shift THEN FirstPts[e.videos[1]] ELSE time
        at      == IF SegAt(e, t) = 0 THEN SegAt(e, time) ELSE SegAt(e, t)
        Key(i)  == KeyBefore(e.segs[i].ref, Min({RefTime(e.segs[i], t), RefEnd(e.segs[i])}))
        Pts(i)  == FramePts(e.segs[i].ref, Key(i))
        Latest(has) == IF has = {} THEN NoTime ELSE Linear(e.segs[Max(has)], Pts(Max(has)))
    IN  IF SegAt(e, time) = 0 THEN NoTime
        ELSE Latest({i \in 1 .. at : Key(i) # 0 /\ Pts(i) >= e.segs[i].refStart})

(* getLastKeyFramePts(): the last keyframe of the last segment that has    *)
(* one before its last frame.                                              *)
LastKeyPts(e) ==
    LET Upto(i) == LET f == FrameUpTo(e.segs[i].ref, RefEnd(e.segs[i]))
                   IN  IF f = 0 THEN NbFrames[e.segs[i].ref] ELSE f - 1
        Key(i)  == LET v  == e.segs[i].ref
                       ks == {f \in 1 .. Upto(i) : IsKey(v, f) /\ FramePts(v, f) < RefEnd(e.segs[i])}
                   IN  IF ks = {} THEN 0 ELSE Max(ks)
        Pts(i)  == FramePts(e.segs[i].ref, Key(i))
        Latest(has) ==
            IF has = {} THEN NoTime
            ELSE IF Upto(Max(has)) = 0 THEN NoTime
            ELSE Linear(e.segs[Max(has)], Pts(Max(has)))
    IN  Latest({i \in DOMAIN e.segs : Upto(i) = 0 \/ (Key(i) # 0 /\ Pts(i) >= e.segs[i].refStart)})

-----------------------------------------------------------------------------
(* What the handlers share: GUI_infiniteForward(), A_Rewind(), GUI_GoTo-   *)
(* Time() and admPreview::seekToIntraPts().                                *)
RECURSIVE Onward(_)
Onward(e) == IF e.ok THEN Onward(NextPicture(e, TRUE, TRUE)) ELSE e

OrKeyBefore(d, t) ==
    LET k == PrevKeyPts(d, t) IN IF d.ok \/ k = NoTime THEN d ELSE GoToTimeVideo(d, k)

InfiniteForward(e, t) == Onward(OrKeyBefore(GoToTimeVideo(e, t), t))

Rewound(e)     == SamePicture(Rewind(Rewind(e)))
GoToTime(e, t) == SamePicture(GoToTimeVideo(e, t))

SeekToIntraPts(e, t) ==
    LET Then(d) == IF d.ok THEN SamePicture(d) ELSE d
    IN  IF t = e.img.pts THEN Succeeded(e) ELSE Then(GoToIntraTimeVideo(e, t))

(* Where the pictures of the timeline are, and so where the markers can be *)
(* set; marker A is at 0 and marker B at the end if they never were.       *)
PicturesOf(s) == {n \in (1 .. NbFrames[s.ref]) \ Lost[s.ref] :
                     s.refStart <= ShownAt(s.ref, n) /\ ShownAt(s.ref, n) < RefEnd(s)}
Times(e) == UNION {{Linear(s, ShownAt(s.ref, n)) : n \in PicturesOf(s)} : s \in ToSet(e.segs)}
MarksA   == (Times(editor) \cap Stops) \cup {0}
MarksB   == (Times(editor) \cap Stops) \cup {Duration(editor)}

-----------------------------------------------------------------------------
(* The handlers.  They run one at a time, none while the loop of           *)
(* GUI_lastFrameBeforePts() does.                                          *)
Idle  == turn = 0
Do(e) == Idle /\ editor' = e /\ UNCHANGED <<walk, turn>>

NextFrame == Do(NextPicture(editor, TRUE, TRUE))
PrevFrame == Do(PreviousPicture(editor))

ToKey(t) == Do(IF t = NoTime THEN editor ELSE SeekToIntraPts(editor, t))

NextKeyFrame     == ToKey(NextKeyPts(editor, editor.img.pts))
PreviousKeyFrame == ToKey(PrevKeyPts(editor, editor.img.pts))

(* The slider: the keyframe before, or else the one after.                 *)
Scale(time) ==
    LET p == PrevKeyPts(editor, time) IN ToKey(IF p = NoTime THEN NextKeyPts(editor, time) ELSE p)

Begin == Do(SamePicture(Rewind(editor)))

ToEnd(e, k) == IF k = NoTime THEN e ELSE SamePicture(InfiniteForward(e, k))

GoToEnd == Do(ToEnd(editor, LastKeyPts(editor)))

GotoMarkA(t) == Do(GoToTime(editor, t))

OrEnd(d)      == IF d.ok THEN SamePicture(d) ELSE ToEnd(d, LastKeyPts(d))
ToMarkB(e, t) == OrEnd(GoToTimeVideo(e, t))

GotoMarkB(t) == Do(ToMarkB(editor, t))

(* GUI_lastFrameBeforePts(): to the keyframe before the target, unless the *)
(* picture that is displayed lies in between, and then picture by picture; *)
(* if that fails, its callers either rewind or stay.                       *)
LastFrameBeforePts(e, t, rewinds) ==
    LET Walk(d, tmp) ==
            IF d.ok THEN editor' = d /\ walk' = [pts |-> t, tmp |-> tmp] /\ turn' = 1
            ELSE Do(IF rewinds THEN SamePicture(Rewind(d)) ELSE d)
        Near(k) == k <= e.img.pts /\ t > e.img.pts
        From(k) ==
            Walk(IF k = NoTime THEN Failed(e)
                 ELSE IF Near(k) THEN Succeeded(e)
                 ELSE GoToTimeVideo(e, k), IF Near(k) THEN e.img.pts ELSE k)
    IN  From(PrevKeyPts(e, t))

(* Mutant: until the time itself is reached.                               *)
NotYetThere(w) == w.tmp # w.pts

NotYetBefore(w) == w.tmp + FrameTime <= w.pts

WalkOn ==
    /\ ~Idle
    /\ NotYetBefore(walk)
    /\ editor' = NextPicture(editor, TRUE, TRUE)
    /\ walk' = [walk EXCEPT !.tmp = editor'.img.pts]
    /\ turn' = 3 - turn

WalkDone ==
    /\ ~Idle
    /\ ~NotYetBefore(walk)
    /\ editor' = SamePicture(editor)
    /\ walk' = NoWalk
    /\ turn' = 0

(* GUI_SeekByTime().                                                       *)
SeekByTime(dt) ==
    /\ Idle
    /\ IF editor.img.pts + dt < 0
       THEN Do(SamePicture(Rewind(editor)))
       ELSE LastFrameBeforePts(editor, editor.img.pts + dt, FALSE)

(* A_jumpToTime(): behind the last keyframe, find out where the last       *)
(* picture is.                                                             *)
UpToLast(d, t) ==
    IF t >= d.img.pts THEN Do(GoToTime(d, d.img.pts)) ELSE LastFrameBeforePts(d, t, TRUE)

JumpToTime(t) ==
    LET k == PrevKeyPts(editor, t)
    IN  /\ Idle
        /\ IF NextKeyPts(editor, t) # NoTime THEN LastFrameBeforePts(editor, t, TRUE)
           ELSE IF k = NoTime THEN UNCHANGED vars
           ELSE UpToLast(InfiniteForward(editor, k), t)

(* Mutant: nothing is thought to be removed but the selection.             *)
NoGapRemoved(before, after, a, b) == 0

(* The time before the first picture that went with the selection.         *)
GapRemoved(before, after, a, b) == before - after + a - b

(* ACT_Cut: marker B behind the last picture means up to the end.  Then    *)
(* the position is moved to where its picture is now.                      *)
Removed(d, last, a, b) ==
    [d EXCEPT !.segs = IF last THEN Timeline!Truncated(@, a) ELSE Timeline!Cut(@, a, b),
              !.cuts = @ + 1]

AfterCut(d, last, a, b) ==
    LET done == Removed(d, last, a, b)
        c    == IF last THEN 0 ELSE GapRemoved(Duration(editor), Duration(done), a, b)
        to   == IF editor.pos < a THEN editor.pos
                ELSE IF editor.pos < b THEN a - c
                ELSE editor.pos - (b - a + c)
        Then(moved) == IF moved.ok THEN SamePicture(moved) ELSE Rewound(moved)
    IN  IF a = 0 /\ last THEN d ELSE Then(GoToTimeVideo(done, to))

CutUpToLast(d, a, b) == AfterCut(d, b >= d.pos, a, b)

Cut(a, b) ==
    LET k == LastKeyPts(editor)
    IN  /\ editor.cuts < MaxCuts
        /\ Do(IF b = Duration(editor) THEN AfterCut(editor, TRUE, a, b)
              ELSE IF k = NoTime \/ b < k THEN AfterCut(editor, FALSE, a, b)
              ELSE CutUpToLast(InfiniteForward(editor, k), a, b))

-----------------------------------------------------------------------------
Started(l) ==
    [videos |-> l, segs |-> Timeline!Retimed([i \in DOMAIN l |-> Timeline!WholeVideo(l[i])]), seg |-> 1, pos |-> 0,
     cuts |-> 0, aborted |-> FALSE, eos |-> FALSE, ok |-> TRUE,
     img |-> [ref |-> l[1], pic |-> 0, pts |-> 0],
     vid |-> [v \in Videos |-> [ring |-> <<>>, lastRead |-> 0, lastDecoded |-> 0, sent |-> 0,
                                dec |-> Reset(v, 1)]]]

Init == turn = 0 /\ walk = NoWalk /\ editor \in {Rewound(Started(l)) : l \in Loadings}

Next ==
    \/ NextFrame \/ PrevFrame \/ NextKeyFrame \/ PreviousKeyFrame
    \/ Begin \/ GoToEnd
    \/ Idle /\ \E t \in {t \in Stops : t <= Duration(editor)} : Scale(t) \/ JumpToTime(t)
    \/ Idle /\ \E t \in MarksA : GotoMarkA(t)
    \/ Idle /\ \E t \in MarksB : GotoMarkB(t)
    \/ Idle /\ \E dt \in Jumps : SeekByTime(dt)
    \/ Idle /\ editor.cuts < MaxCuts /\ \E a \in MarksA, b \in MarksB : a < b /\ Cut(a, b)
    \/ WalkOn \/ WalkDone

(* The loop of the walk goes on without waiting for anything.              *)
Round == ~Idle /\ turn' \in 0 .. 2

Spec == Init /\ [][Next]_vars /\ WF_turn(Round)

-----------------------------------------------------------------------------
(* The picture that is shown at time t of the timeline.                    *)
PictureAt(e, t) ==
    LET s == e.segs[SegAt(e, t)]
    IN  [ref |-> s.ref, pic |-> CHOOSE n \in PicturesOf(s) : Linear(s, ShownAt(s.ref, n)) = t]

(* Between two handlers no assertion has failed, the position lies in the  *)
(* current segment and is the time of the picture that is displayed, and   *)
(* this picture is the one the timeline has there.  samePicture() asserts  *)
(* the second (ADM_edRender.cpp:518), which a seek that fails, an edit or  *)
(* a wrong picture in the ring can break many handlers later.              *)
PictureShown ==
    Idle =>
        /\ ~editor.aborted
        /\ SegAt(editor, editor.pos) = editor.seg
        /\ editor.pos \in Times(editor)
        /\ editor.img.pts = editor.pos
        /\ [ref |-> editor.img.ref, pic |-> editor.img.pic] = PictureAt(editor, editor.pos)

(* From wherever the user has come, and whatever the ring still holds, the *)
(* next frame is the next picture that can be shown, and the previous      *)
(* frame the one before: across segments, open GOPs, damaged pictures and  *)
(* pictures that are no longer in the ring.                                *)
LaterTimes(e)   == {t \in Times(e) : t > e.pos}
EarlierTimes(e) == {t \in Times(e) : t < e.pos}

NeighboursReached ==
    Idle =>
        /\ LaterTimes(editor) # {} => NextPicture(editor, TRUE, TRUE).pos = Min(LaterTimes(editor))
        /\ LaterTimes(editor) = {} => NextPicture(editor, TRUE, TRUE).pos = editor.pos
        /\ EarlierTimes(editor) # {} => PreviousPicture(editor).pos = Max(EarlierTimes(editor))
        /\ EarlierTimes(editor) = {} => PreviousPicture(editor).pos = editor.pos

(* A marker that was set at a picture can be gone to from everywhere, and  *)
(* a marker B that was never set leads to the last picture, if there is a  *)
(* keyframe to start from.                                                 *)
MarkReached ==
    Idle =>
        /\ \A t \in Times(editor) : GoToTime(editor, t).img.pts = t
        /\ LastKeyPts(editor) # NoTime => ToMarkB(editor, Duration(editor)).img.pts = Max(Times(editor))

(* A jump ends at the last picture up to its target (over a gap, it may    *)
(* end at the first one behind); and a cut leaves the picture that is      *)
(* displayed where it was, if it is still in the timeline.                 *)
StillThere(e, img) == \E s \in ToSet(e.segs) : s.ref = img.ref /\ img.pic \in PicturesOf(s)

EndsWhereItShould ==
    [][/\ WalkDone =>
            \/ editor'.img.pts = Max({t \in Times(editor) : t <= walk.pts})
            \/ /\ editor'.img.pts = Min({t \in Times(editor) : t > walk.pts})
               /\ editor'.img.pts - FrameTime \notin Times(editor)
       /\ editor'.cuts # editor.cuts /\ StillThere(editor', editor.img)
            => editor'.img.ref = editor.img.ref /\ editor'.img.pic = editor.img.pic]_vars

(* A seek that aims at a time before the end of the timeline ends.         *)
SeekEnds == (~Idle /\ walk.pts < Duration(editor)) ~> Idle

(* "Starting from tmp, approach the last frame before pts" (gui_navigate.  *)
(* cpp:544): every seek ends.                                              *)
EverySeekEnds == ~Idle ~> Idle
=============================================================================
