------------------------------ MODULE EditSession ------------------------------
(***************************************************************************)
(* The editing actions of the user interface (gui_main.cpp) over the       *)
(* timeline, the selection and the undo queue.  Each handler is one step,  *)
(* except that a deletion or a paste whose cut points are not clean stops  *)
(* at a question: "proceed anyway?".  "No" takes the edit back with undo() *)
(* and "Yes" completes it.                                                 *)
(***************************************************************************)
EXTENDS Segments

CONSTANTS
    MaxUndoSteps,    \* as in UndoQueue
    LeastUndoSteps,
    KeyFrames,       \* the frames of a video, counted from 1, that are keyframes
    PtsModulus,      \* 2^64: markers are unsigned
    MaxEdits         \* bound on the length of a session

ASSUME SessionAssumption ==
    /\ \A v \in Videos : KeyFrames[v] \subseteq 1 .. NbFrames[v]
    /\ PtsModulus \in Nat /\ PtsModulus > MaxTotal
    /\ MaxUndoSteps \in Nat /\ LeastUndoSteps \in Nat /\ LeastUndoSteps >= 2

VARIABLES
    markerA,         \* the selection; markerA may be the later one
    markerB,
    undoQueue,
    undo_counter,
    question,        \* the edit a question is open about
    edits            \* actions so far

undoVars == <<undoQueue, undo_counter>>

sessionVars == <<segmentVars, markerA, markerB, undoVars, question, edits>>

(* What undoQueueElem records.                                             *)
Snapshot == [segm |-> segments, a |-> markerA, b |-> markerB]

U == INSTANCE UndoQueue
    WITH current <- Snapshot, States <- [segm : Seq(Segment), a : Nat, b : Nat]

None == [kind |-> "none"]

Loaded == videos # <<>>

Earlier == IF markerA > markerB THEN markerB ELSE markerA
Later   == IF markerA > markerB THEN markerA ELSE markerB

-----------------------------------------------------------------------------
(* The pieces the handlers are made of.                                    *)
SetMarkers(a, b) ==
    /\ markerA' = a % PtsModulus
    /\ markerB' = b % PtsModulus

KeepMarkers == SetMarkers(markerA, markerB)

(* Mutant: the duration is read before the timeline changes.               *)
ResetMarkersEarly == SetMarkers(0, Total(segments))

(* A_ResetMarkers().                                                       *)
ResetMarkers == SetMarkers(0, Total(segments'))

SetSegments(segs) ==
    /\ segments' = segs
    /\ UNCHANGED videos

(* Mutant: undo and redo restore the segments alone.                       *)
RestoreSegments(rec) == SetSegments(rec.segm) /\ KeepMarkers

Restore(rec) ==
    /\ SetSegments(rec.segm)
    /\ SetMarkers(rec.a, rec.b)

(* Where the user may have stopped: on a picture.  An empty segment is     *)
(* still switched to and shows its first one.                              *)
Positions == ShownTimes(segments) \cup
             {segments[i].start : i \in {j \in DOMAIN segments : segments[j].dur = 0}}

LastPosition == Max(Positions)

(* A handler runs to its end unless it leaves a question open.             *)
Handler ==
    /\ question = None
    /\ edits < MaxEdits
    /\ edits' = edits + 1

Asks(q)   == question' = q
NoQuestion == question' = None

-----------------------------------------------------------------------------
(* Mutant: the records outlive the videos they refer to.                   *)
ClearUndoNever == UNCHANGED undoVars

(* A_openVideo(), GUI_close().                                             *)
ClearUndo == IF Loaded THEN U!ClearRecords ELSE UNCHANGED undoVars

Open(v) ==
    /\ Handler
    /\ ClearUndo
    /\ videos' = <<v>>
    /\ segments' = Retimed(<<WholeVideo(v)>>)
    /\ clipboard' = <<>>
    /\ ResetMarkers
    /\ NoQuestion

(* File > Close, and opening a file that cannot be loaded.                 *)
Close ==
    /\ Handler
    /\ U!ClearRecords
    /\ DeleteAll
    /\ SetMarkers(0, 0)
    /\ NoQuestion

(* A_appendVideo(): a selection that nobody has changed is extended.       *)
MarkersUntouched ==
    /\ markerB = Total(segments)
    /\ markerA \in {0, FirstPts[videos[1]]}

AppendVideo(v) ==
    /\ Handler
    /\ Loaded
    /\ U!AddRecord
    /\ \/ /\ AddVideo(v)
          /\ SetMarkers(markerA, IF MarkersUntouched THEN Total(segments') ELSE markerB)
       \/ UNCHANGED <<segmentVars, markerA, markerB>>
    /\ NoQuestion

(* ACT_MarkA, ACT_MarkB; swapit is a preference.                           *)
Mark(a, b) ==
    \E swapit \in BOOLEAN : IF a > b /\ swapit THEN SetMarkers(b, a) ELSE SetMarkers(a, b)

SetMarker ==
    /\ Handler
    /\ \E pts \in Positions : Mark(pts, markerB) \/ Mark(markerA, pts)
    /\ U!AddRecord
    /\ UNCHANGED segmentVars
    /\ NoQuestion

ResetSelection ==
    /\ Handler
    /\ Loaded
    /\ ~(markerA = 0 /\ markerB = Total(segments))
    /\ U!AddRecord
    /\ UNCHANGED segmentVars
    /\ ResetMarkers
    /\ NoQuestion

CopySelection ==
    /\ Handler
    /\ Copy(Earlier, Later)
    /\ UNCHANGED <<videos, segments, undoVars>>
    /\ KeepMarkers
    /\ NoQuestion

-----------------------------------------------------------------------------
(* getLastKeyFramePts() looks for the last keyframe, one segment after the *)
(* other from the end.  It never looks at the last frame of a segment, and *)
(* gives up at a segment that ends with the first frame of its video.      *)
LastFrameIn(s) ==
    Cardinality({k \in 1 .. NbFrames[s.ref] : FrameTimes(s.ref)[k] <= s.refStart + s.dur})

HasKeyFrame(s) ==
    \E k \in KeyFrames[s.ref] :
        /\ k < LastFrameIn(s)
        /\ s.refStart <= FrameTimes(s.ref)[k]
        /\ FrameTimes(s.ref)[k] < s.refStart + s.dur

LastKeyFrameFound ==
    \E i \in DOMAIN segments :
        /\ HasKeyFrame(segments[i])
        /\ \A j \in i + 1 .. Len(segments) : LastFrameIn(segments[j]) > 1

(* Playing on from the last keyframe shows where the last frame is.        *)
AtLastFrame(pts) == LastKeyFrameFound /\ pts >= LastPosition

(* ACT_Cut, ACT_Delete.                                                    *)

Without(lastFrame) ==
    IF SegAt(segments, Earlier) = 0 \/ SegAt(segments, Later) = 0 THEN <<>>
    ELSE IF lastFrame THEN Truncated(segments, Earlier)
    ELSE Cut(segments, Earlier, Later)

DeleteSelection ==
    LET lastFrame == Later = Total(segments) \/ AtLastFrame(Later)
        rest      == Without(lastFrame)
    IN  /\ Handler
        /\ Loaded
        /\ ~(Earlier = 0 /\ lastFrame)
        /\ Copy(Earlier, Later) \/ UNCHANGED clipboard
        /\ U!AddRecord
        /\ SetSegments(IF rest = <<>> THEN segments ELSE rest)
        /\ \/ rest = <<>> /\ KeepMarkers /\ NoQuestion
           \/ rest # <<>> /\ ResetMarkers /\ NoQuestion
           \/ rest # <<>> /\ ~lastFrame /\ KeepMarkers
                /\ Asks([kind |-> "delete", before |-> Snapshot])

(* Mutant: a selection that begins at the pasted frame is moved.           *)
ShiftedAtStart(pts, growth) ==
    SetMarkers(IF Earlier >= pts THEN Earlier + growth ELSE Earlier,
               IF pts <= Later THEN Later + growth ELSE Later)

(* ACT_Paste at the current frame.  The selection is read, in order, when  *)
(* the handler starts, and moved when it ends.                             *)
Shifted(pts, growth) ==
    LET behind == Earlier > pts
        a == (IF behind THEN Earlier + growth ELSE Earlier) % PtsModulus
        b == (IF behind THEN Later + growth ELSE Later) % PtsModulus
    IN  SetMarkers(a, IF a <= pts /\ pts <= b THEN b + growth ELSE b)

PasteAt(pts) ==
    /\ Handler
    /\ clipboard # <<>>
    /\ U!AddRecord
    /\ SetSegments(IF AtLastFrame(pts) THEN Appended(segments, clipboard)
                   ELSE Pasted(segments, clipboard, pts))
    /\ \/ Shifted(pts, Total(segments') - Total(segments)) /\ NoQuestion
       \/ KeepMarkers /\ Asks([kind |-> "paste", before |-> Snapshot,
                               pts |-> pts, lastFrame |-> AtLastFrame(pts)])
    /\ UNCHANGED clipboard

PasteClip == \E pts \in Positions : PasteAt(pts)

(* Mutant: the edit is not taken back.                                     *)
TakeBackNothing ==
    /\ question # None
    /\ NoQuestion
    /\ UNCHANGED <<segmentVars, undoVars, markerA, markerB, edits>>

(* The answer.                                                             *)
Proceed ==
    /\ question # None
    /\ UNCHANGED <<segmentVars, undoVars, edits>>
    /\ IF question.kind = "delete" THEN ResetMarkers
       ELSE Shifted(question.pts, Total(segments) - Total(question.before.segm))
    /\ NoQuestion

TakeBack ==
    /\ question # None
    /\ IF U!CanUndo(undoQueue, undo_counter)
       THEN U!UndoRecord /\ Restore(U!UndoTarget)
       ELSE UNCHANGED <<undoVars, videos, segments, markerA, markerB>>
    /\ NoQuestion
    /\ UNCHANGED <<clipboard, edits>>

-----------------------------------------------------------------------------
Undo ==
    /\ Handler
    /\ U!UndoRecord
    /\ Restore(U!UndoTarget)
    /\ UNCHANGED clipboard
    /\ NoQuestion

Redo ==
    /\ Handler
    /\ U!RedoRecord
    /\ Restore(U!RedoTarget)
    /\ UNCHANGED clipboard
    /\ NoQuestion

(* ACT_ResetSegments, offered once there is something to undo or to redo.  *)
ResetEdits ==
    /\ Handler
    /\ U!CanUndo(undoQueue, undo_counter) \/ U!CanRedo(undoQueue, undo_counter)
    /\ U!ClearRecords
    /\ ResetSegments
    /\ ResetMarkers
    /\ NoQuestion

SessionInit ==
    /\ NoVideo
    /\ markerA = 0
    /\ markerB = 0
    /\ undoQueue = <<>>
    /\ undo_counter = 0
    /\ question = None
    /\ edits = 0

UserAction ==
    \/ \E v \in Videos : Open(v) \/ AppendVideo(v)
    \/ Close
    \/ SetMarker
    \/ ResetSelection
    \/ CopySelection
    \/ DeleteSelection
    \/ PasteClip
    \/ Undo
    \/ Redo
    \/ ResetEdits

SessionNext == (UserAction /\ Fits') \/ Proceed \/ TakeBack

SessionSpec == SessionInit /\ [][SessionNext]_sessionVars

(* The sessions in which the user goes on with what has been begun.        *)
ProceedSpec ==
    SessionInit /\ [][(UserAction /\ Fits') \/ Proceed]_sessionVars
-----------------------------------------------------------------------------
SessionTypeOK ==
    /\ TypeOK
    /\ markerA \in Nat
    /\ markerB \in Nat
    /\ undoQueue \in Seq([segm : Seq(Segment), a : Nat, b : Nat])
    /\ undo_counter \in Nat
    /\ question.kind \in {"none", "delete", "paste"}

(* The selection never reaches past the end of the timeline, whatever was  *)
(* cut, pasted or undone since it was made: copyToClipBoard() depends on   *)
(* it, which uses the segments that hold the markers without asking        *)
(* whether there are any.                                                  *)
MarkersInTimeline ==
    question = None => markerA <= Total(segments) /\ markerB <= Total(segments)

(* Every recorded state can be restored: it is a timeline without holes of *)
(* the videos that are still loaded.                                       *)
RecordsArePlayable ==
    /\ SessionTypeOK
    /\ \A i \in DOMAIN undoQueue :
        LET segm == undoQueue[i].segm IN
        /\ segm # <<>>
        /\ \A j \in DOMAIN segm : segm[j].ref \in ToSet(videos)
        /\ segm = Retimed(segm)

(* Whoever answers "No" has the timeline and the selection from before,    *)
(* though undo() is all there is to take the edit back with.               *)
RefusalRestores ==
    [][question # None /\ TakeBack => Snapshot' = question.before]_sessionVars

(* The user can walk back through the edits, and forward again.            *)
UndoRefined == U!Spec

(* A paste leaves the selection on the pictures it was on, with those that *)
(* are pasted inside of it added.                                          *)
Selected(segs, from, to) ==
    Pictures(Chosen(Shown(segs), Since(from) \cap Before(to)))

SelectionMoved(old, pts) ==
    LET a == IF old.a > old.b THEN old.b ELSE old.a
        b == IF old.a > old.b THEN old.a ELSE old.b
    IN  Selected(segments', markerA', markerB') =
            IF a <= pts /\ pts <= b
            THEN Selected(old.segm, a, pts) \o Pictures(Shown(clipboard))
                 \o Selected(old.segm, pts, b)
            ELSE Selected(old.segm, a, b)

PasteKeepsSelection ==
    [][/\ question' = None
       => /\ \A pts \in Positions :
                PasteAt(pts) /\ ~AtLastFrame(pts) => SelectionMoved(Snapshot, pts)
          /\ Proceed /\ question.kind = "paste" /\ ~question.lastFrame
                => SelectionMoved(question.before, question.pts)
      ]_sessionVars
=============================================================================
