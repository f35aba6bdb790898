-------------------------------- MODULE Segments --------------------------------
(***************************************************************************)
(* ADM_EditorSegment: the timeline is a sequence of segments, each a piece *)
(* of a reference video; cutting, copying and pasting rearrange the        *)
(* segments and never touch the videos.                                    *)
(*                                                                         *)
(* The unit of time is half the duration of a frame.  Video v has          *)
(* NbFrames[v] frames; the first is shown at FirstPts[v], which may be     *)
(* later than 0, and nothing is shown before it.                           *)
(***************************************************************************)
EXTENDS Integers, Sequences, SequencesExt

CONSTANTS
    Videos,    \* the files that can be loaded
    NbFrames,  \* _nb_video_frames
    FirstPts,  \* firstFramePts, in half frames
    MaxTotal,  \* bound on the duration of the timeline
    MaxLen     \* bound on the segments in the timeline and the clipboard

ASSUME VideosAssumption ==
    /\ NbFrames \in [Videos -> Nat \ {0}]
    /\ FirstPts \in [Videos -> Nat]
    /\ MaxTotal \in Nat
    /\ MaxLen \in Nat

VARIABLES
    videos,    \* the reference videos, in the order they were loaded
    segments,
    clipboard

segmentVars == <<videos, segments, clipboard>>

FrameTime == 2 \* timeIncrementInUs, in half frames

RefDuration(v) == FirstPts[v] + FrameTime * NbFrames[v]

(* A segment without _dropBframes and _refStartDts, which the editor uses  *)
(* to play and which every edit computes again.                            *)
Segment == [ref : Videos, refStart : Nat, start : Nat, dur : Nat]

(* The time that updateStartTime() counts up: how long the first of the    *)
(* segments last together.                                                 *)
Until(segs) ==
    LET sum[i \in 0 .. Len(segs)] == IF i = 0 THEN 0 ELSE sum[i - 1] + segs[i].dur
    IN  sum

Total(segs) == Until(segs)[Len(segs)]

(* Those members of a sequence that are in a set, in their order.          *)
Chosen(s, S) ==
    LET chosen[i \in 0 .. Len(s)] ==
            IF i = 0 THEN <<>>
            ELSE IF s[i] \in S THEN Append(chosen[i - 1], s[i]) ELSE chosen[i - 1]
    IN  chosen[Len(s)]

End(s) == s.start + s.dur

-----------------------------------------------------------------------------
(* updateStartTime().                                                      *)
Retimed(segs) == [i \in DOMAIN segs |-> [segs[i] EXCEPT !.start = Until(segs)[i - 1]]]

(* The segment addReferenceVideo() and resetSegment() make of a video.     *)
WholeVideo(v) == [ref |-> v, refStart |-> 0, start |-> 0, dur |-> RefDuration(v)]

(* removeEmptySegments(): a piece without duration, or with nothing but    *)
(* the time before the first frame of its video.                           *)
IsEmptySegment(s) == s.dur = 0 \/ (s.refStart = 0 /\ s.dur = FirstPts[s.ref])

NoEmpty(segs) == Chosen(segs, {s \in Segment : ~IsEmptySegment(s)})

(* convertLinearTimeToSeg(): the segment that holds time t, 0 if none.     *)
Holding(segs, t) == {i \in DOMAIN segs : segs[i].start <= t /\ t < End(segs[i])}

SegAt(segs, t) ==
    CASE t = 0 /\ segs # <<>>                        -> 1
      [] t > 0 /\ Holding(segs, t) # {}              -> Min(Holding(segs, t))
      [] t > 0 /\ Holding(segs, t) = {} /\ segs # <<>>
               /\ End(Last(segs)) = t                -> Len(segs)
      [] OTHER                                       -> 0

(* Mutant: a start that is not adjusted.                                   *)
FromSameStart(s, t) == [s EXCEPT !.dur = @ - (t - s.start)]

(* A segment up to, and from, time t of the timeline.                      *)
Upto(s, t) == [s EXCEPT !.dur = t - s.start]
From(s, t) == [s EXCEPT !.refStart = @ + (t - s.start), !.dur = @ - (t - s.start)]

(* removeChunk(): the segments that hold the two ends are shortened, those *)
(* in between go.  Cutting inside one segment splits it.                   *)
Cut(segs, from, to) ==
    LET first == SegAt(segs, from)
        last  == SegAt(segs, to)
    IN  Retimed(NoEmpty(
            SubSeq(segs, 1, first - 1)
            \o <<Upto(segs[first], from), From(segs[last], to)>>
            \o SubSeq(segs, last + 1, Len(segs))))

(* truncateVideo() leaves half a frame behind the given time.              *)
Truncated(segs, from) ==
    LET first == SegAt(segs, from)
    IN  Retimed(NoEmpty(
            Append(SubSeq(segs, 1, first - 1), Upto(segs[first], from + FrameTime \div 2))))

(* copyToClipBoard(): the segments from one end to the other, the first    *)
(* without what lies before, the last without what lies after.             *)
Piece(s, from, to) ==
    LET head == IF s.start <= from /\ End(s) > from
                THEN [From(s, from) EXCEPT !.start = from] ELSE s
    IN  IF s.start <= to /\ End(s) >= to
        THEN [head EXCEPT !.dur = to - head.start] ELSE head

Copied(segs, first, last, from, to) ==
    [i \in 1 .. last - first + 1 |-> Piece(segs[first + i - 1], from, to)]

(* It does not ask whether the segments were found: their numbers are then *)
(* uninitialised, and it copies whatever they are (or crashes).            *)
SegsAt(segs, t) == IF SegAt(segs, t) = 0 THEN DOMAIN segs ELSE {SegAt(segs, t)}

(* Mutant: the segment that is pasted into is not split.                   *)
PastedBefore(segs, clip, t) ==
    Retimed(NoEmpty(SubSeq(segs, 1, SegAt(segs, t) - 1) \o clip
                    \o SubSeq(segs, SegAt(segs, t), Len(segs))))

(* pasteFromClipBoard(): in front of the segment that begins at time t, or *)
(* between the two halves of the one that holds it.                        *)
Pasted(segs, clip, t) ==
    LET at == SegAt(segs, t)
        s  == segs[at]
    IN  Retimed(NoEmpty(
            SubSeq(segs, 1, at - 1)
            \o (IF s.start = t THEN Append(clip, s)
                ELSE <<Upto(s, t)>> \o clip \o <<From(s, t)>>)
            \o SubSeq(segs, at + 1, Len(segs))))

(* Mutant: the start times are not computed again.                         *)
AppendedAsIs(segs, clip) == segs \o clip

(* appendFromClipBoard() keeps the segments that are empty.                *)
Appended(segs, clip) == Retimed(segs \o clip)

-----------------------------------------------------------------------------
(* What is seen when the timeline is played: the frames of each segment,   *)
(* with the time each is shown at.                                         *)
FrameTimes(v) == [k \in 1 .. NbFrames[v] |-> FirstPts[v] + FrameTime * (k - 1)]

Covered(s) == s.refStart .. s.refStart + s.dur - 1

Picture == [at : Nat, ref : Videos, frame : Nat]

ShownAt(s, pts) == s.start + (pts - s.refStart)

PictureAt(s, pts) == [at |-> ShownAt(s, pts), ref |-> s.ref, frame |-> pts]

ShownIn(s) ==
    LET mine == Chosen(FrameTimes(s.ref), Covered(s))
    IN  [i \in DOMAIN mine |-> PictureAt(s, mine[i])]

Shown(segs) ==
    LET shown[i \in 0 .. Len(segs)] ==
            IF i = 0 THEN <<>> ELSE shown[i - 1] \o ShownIn(segs[i])
    IN  shown[Len(segs)]

Pictures(shown) == [i \in DOMAIN shown |-> [ref |-> shown[i].ref, frame |-> shown[i].frame]]

Before(t) == {p \in Picture : p.at < t}
Since(t)  == {p \in Picture : p.at >= t}

ShownBefore(segs, t) == Chosen(Shown(segs), Before(t))
ShownFrom(segs, t)   == Chosen(Shown(segs), Since(t))

TimesIn(s) == {ShownAt(s, pts) : pts \in ToSet(FrameTimes(s.ref)) \cap Covered(s)}

ShownTimes(segs) == UNION {TimesIn(segs[i]) : i \in DOMAIN segs}

-----------------------------------------------------------------------------
(* The operations on the timeline.  A cut that leaves nothing is undone.   *)
NoVideo ==
    /\ videos = <<>>
    /\ segments = <<>>
    /\ clipboard = <<>>

(* addReferenceVideo().                                                    *)
AddVideo(v) ==
    /\ videos' = Append(videos, v)
    /\ segments' = Appended(segments, <<WholeVideo(v)>>)
    /\ UNCHANGED clipboard

Rearrange(segs) ==
    /\ videos # <<>>
    /\ segments' = IF segs = <<>> THEN Retimed(segments) ELSE segs
    /\ UNCHANGED videos

RemoveChunk(from, to) == Rearrange(Cut(segments, from, to))
TruncateVideo(from)   == Rearrange(Truncated(segments, from))
Paste(t)              == Rearrange(Pasted(segments, clipboard, t))
AppendClip            == Rearrange(Appended(segments, clipboard))

Copy(from, to) ==
    /\ videos # <<>>
    /\ \E first \in SegsAt(segments, from), last \in SegsAt(segments, to) :
          clipboard' = Copied(segments, first, last, from, to)

ResetSegments ==
    /\ Rearrange(Retimed([i \in DOMAIN videos |-> WholeVideo(videos[i])]))
    /\ UNCHANGED clipboard

DeleteAll ==
    /\ videos # <<>>
    /\ videos' = <<>>
    /\ segments' = <<>>
    /\ clipboard' = <<>>

-----------------------------------------------------------------------------
(* The timeline alone, edited at the times a selection can have: it begins *)
(* at 0 or at a frame that is shown, it ends at one or at the very end.    *)
Starts == {0} \cup ShownTimes(segments)
Ends   == {Total(segments)} \cup ShownTimes(segments)

Fits ==
    /\ Total(segments) <= MaxTotal
    /\ Len(segments) + Len(clipboard) <= MaxLen

Load ==
    \E v \in Videos \ {videos[i] : i \in DOMAIN videos} :
        AddVideo(v) /\ Fits'

CutSome ==
    \E from \in Starts, to \in ShownTimes(segments) :
        from <= to /\ RemoveChunk(from, to) /\ UNCHANGED clipboard /\ Fits'

TruncateSome ==
    \E from \in ShownTimes(segments) \ {0} : TruncateVideo(from) /\ UNCHANGED clipboard

CopySome ==
    \E from \in Starts, to \in Ends :
        from <= to /\ Copy(from, to) /\ UNCHANGED <<videos, segments>> /\ Fits'

PasteSome ==
    /\ clipboard # <<>>
    /\ \/ \E t \in ShownTimes(segments) : Paste(t)
       \/ AppendClip
    /\ UNCHANGED clipboard
    /\ Fits'

Edits == CutSome \/ TruncateSome \/ CopySome \/ PasteSome \/ DeleteAll
         \/ (ResetSegments /\ Fits')

Init == NoVideo

Next == Load \/ Edits

Spec == Init /\ [][Next]_segmentVars
-----------------------------------------------------------------------------
TypeOK ==
    /\ videos \in Seq(Videos)
    /\ segments \in Seq(Segment)
    /\ clipboard \in Seq(Segment)

Contiguous ==
    \A i \in DOMAIN segments :
        segments[i].start = IF i = 1 THEN 0 ELSE End(segments[i - 1])

Within(segs) ==
    \A i \in DOMAIN segs :
        /\ segs[i].ref \in {videos[j] : j \in DOMAIN videos}
        /\ segs[i].refStart + segs[i].dur <= RefDuration(segs[i].ref)

InReference == Within(segments) /\ Within(clipboard)

(* Every segment begins where the one before it ends: the start times are  *)
(* computed again by every operation, whatever times the segments of the   *)
(* clipboard carry.  And no sequence of edits makes a segment reach out of *)
(* its reference video, though truncateVideo() may lengthen the segment it *)
(* shortens.                                                               *)
TimelineOK == TypeOK /\ Contiguous /\ InReference

(* Cutting removes exactly the pictures shown from one time up to the      *)
(* other, whatever segments they are in.                                   *)
CutIsExact ==
    [][clipboard' = clipboard =>
          \A from \in Starts, to \in ShownTimes(segments) :
              from <= to /\ RemoveChunk(from, to) =>
                  Pictures(Shown(segments'))
                    = Pictures(ShownBefore(segments, from) \o ShownFrom(segments, to))
      ]_segmentVars

(* Copying takes exactly those pictures.  Pasting puts the pictures of the *)
(* clipboard in front of the picture that is shown, appending at the end.  *)
ClipboardIsExact ==
    [][/\ clipboard' # clipboard =>
          \A from \in Starts, to \in Ends :
              from <= to /\ Copy(from, to) =>
                  Pictures(Shown(clipboard'))
                    = Pictures(Chosen(ShownFrom(segments, from), Before(to)))
       /\ clipboard # <<>> /\ clipboard' = clipboard =>
          /\ \A t \in ShownTimes(segments) :
                Paste(t) => Pictures(Shown(segments'))
                              = Pictures(ShownBefore(segments, t) \o Shown(clipboard)
                                           \o ShownFrom(segments, t))
          /\ AppendClip => Pictures(Shown(segments'))
                             = Pictures(Shown(segments) \o Shown(clipboard))
      ]_segmentVars
=============================================================================
