------------------------------- MODULE UndoQueue -------------------------------
(***************************************************************************)
(* The undo queue of ADM_Composer.  undoQueue is a vector of snapshots     *)
(* (segment layout and both markers); _undo_counter says where the present *)
(* state is in it:                                                         *)
(*   0      nowhere: the present state is recorded by the next call;       *)
(*   1      it is the last record (everything undone has been redone);     *)
(*   n > 1  n - 1 undo steps have been made, and the records behind it are *)
(*          what redo leads to.                                            *)
(* A snapshot is opaque here; EditSession gives it its contents.           *)
(***************************************************************************)
EXTENDS Integers, Sequences, SequencesExt

CONSTANTS
    States,          \* the snapshots
    MaxUndoSteps,    \* maxUndoSteps (50 in the code)
    LeastUndoSteps   \* "less than 10 undo steps is a bad idea" (10 in the code)

ASSUME StepsAssumption ==
    MaxUndoSteps \in Nat /\ LeastUndoSteps \in Nat /\ LeastUndoSteps >= 2

VARIABLES
    undoQueue,
    undo_counter,  \* _undo_counter
    current        \* the segments and markers of the composer

vars == <<undoQueue, undo_counter, current>>

Limit == IF MaxUndoSteps < LeastUndoSteps THEN LeastUndoSteps ELSE MaxUndoSteps

Init ==
    /\ undoQueue = <<>>
    /\ undo_counter = 0
    /\ current \in States

-----------------------------------------------------------------------------
(* The records that an edit made after undo steps makes unreachable.       *)
CutDead(queue, counter) ==
    IF counter > 1 /\ Len(queue) > 1
    THEN SubSeq(queue, 1, Len(queue) - counter)
    ELSE queue

(* Mutant: twice as many records as needed are erased.                     *)
TrimTooMuch(queue) ==
    IF Len(queue) > Limit
    THEN SubSeq(queue, 2 * (Len(queue) - Limit + 1), Len(queue))
    ELSE queue

(* Erase the oldest records, once there are more than Limit of them.       *)
Trim(queue) ==
    IF Len(queue) > Limit
    THEN SubSeq(queue, Len(queue) - Limit + 2, Len(queue))
    ELSE queue

(* The queue that addToUndoQueue() leaves.                                 *)
Recorded(queue, counter, state) == Append(Trim(CutDead(queue, counter)), state)

(* Mutant: redo is offered although everything has been redone.            *)
CanRedoAll(queue, counter) == counter >= 1 /\ Len(queue) >= counter

CanUndo(queue, counter) == queue # <<>> /\ Len(queue) >= counter + 1
CanRedo(queue, counter) == counter >= 2 /\ Len(queue) >= counter

(* The queue and the counter that undo() works on: the present state is    *)
(* recorded first unless it already is.                                    *)
UndoBase    == IF undo_counter = 0
               THEN Recorded(undoQueue, undo_counter, current) ELSE undoQueue
UndoCounter == IF undo_counter = 0 THEN 1 ELSE undo_counter

(* Mutant: undo() restores the record the counter points to.               *)
UndoTargetSame == UndoBase[Len(UndoBase) - UndoCounter + 1]

(* The records that undo() and redo() restore (at() counts from 0).        *)
UndoTarget == UndoBase[Len(UndoBase) - UndoCounter]
RedoTarget == undoQueue[Len(undoQueue) - undo_counter + 2]

-----------------------------------------------------------------------------
(* The bookkeeping of each operation, without the state it leads to.       *)
AddRecord ==
    /\ undoQueue' = Recorded(undoQueue, undo_counter, current)
    /\ undo_counter' = 0

UndoRecord ==
    /\ CanUndo(undoQueue, undo_counter)
    /\ undoQueue' = UndoBase
    /\ undo_counter' = UndoCounter + 1

RedoRecord ==
    /\ CanRedo(undoQueue, undo_counter)
    /\ undo_counter' = undo_counter - 1
    /\ UNCHANGED undoQueue

(* clearUndoQueue() leaves the counter as it is.                           *)
ClearRecords ==
    /\ undoQueue' = <<>>
    /\ UNCHANGED undo_counter

-----------------------------------------------------------------------------
(* Every undoable action of the user records the state, then changes it.   *)
Edit == AddRecord /\ current' \in States

(* Nothing has been undone: the last edit is the newest the queue knows.   *)
AtTheTip == undo_counter = 0 \/ undoQueue = <<>>

(* The rest of such an action, when a question to the user comes between,  *)
(* and a change that is not recorded.                                      *)
Amend ==
    /\ AtTheTip
    /\ current' \in States
    /\ UNCHANGED <<undoQueue, undo_counter>>

Undo  == UndoRecord /\ current' = UndoTarget
Redo  == RedoRecord /\ current' = RedoTarget
Clear == ClearRecords /\ current' \in States

Next == Edit \/ Amend \/ Undo \/ Redo \/ Clear

Spec == Init /\ [][Next]_vars
-----------------------------------------------------------------------------
TypeOK ==
    /\ undoQueue \in Seq(States)
    /\ Len(undoQueue) <= Limit + 1
    /\ undo_counter \in 0 .. Limit + 1
    /\ current \in States

(* Where the counter says the present state is recorded, it is: so the     *)
(* pop_back() loop never empties an empty vector, at() never throws, and   *)
(* redo never leads past a state the user has not seen.  It has to survive *)
(* the trimming that undo() does itself and a counter that                 *)
(* clearUndoQueue() left behind.                                           *)
PresentIsRecorded ==
    undoQueue # <<>> /\ undo_counter > 0 =>
        /\ undo_counter <= Len(undoQueue)
        /\ undoQueue[Len(undoQueue) - undo_counter + 1] = current

(* The history that queue and counter stand for.                           *)
Past ==
    IF AtTheTip THEN undoQueue
    ELSE SubSeq(undoQueue, 1, Len(undoQueue) - undo_counter)

Future ==
    IF AtTheTip THEN <<>>
    ELSE SubSeq(undoQueue, Len(undoQueue) - undo_counter + 2, Len(undoQueue))

(* Undo and Redo are offered in the menu exactly when there is something   *)
(* to undo or to redo.                                                     *)
MenuIsRight ==
    /\ CanUndo(undoQueue, undo_counter) <=> Past # <<>>
    /\ CanRedo(undoQueue, undo_counter) <=> Future # <<>>

(* Undo and redo walk a history: nothing is lost but the oldest steps, at  *)
(* least maxUndoSteps of them can be undone, "redo should not be available *)
(* after a new undo-able action has been performed".                       *)
History == INSTANCE EditHistory
    WITH Depth <- Limit, past <- Past, present <- current, future <- Future

HistoryRefined == History!Spec
=============================================================================
