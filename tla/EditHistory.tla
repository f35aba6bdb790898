------------------------------ MODULE EditHistory ------------------------------
(***************************************************************************)
(* What undo and redo promise to the user of the editor: the states before *)
(* the present one can be walked back to one by one, those walked back     *)
(* from can be walked forward to again, in order and unaltered, and an     *)
(* edit makes everything ahead unreachable.  Old states may be forgotten,  *)
(* but never so many that fewer than the promised number of steps remain.  *)
(***************************************************************************)
EXTENDS Integers, Sequences, SequencesExt

CONSTANTS
    States,  \* what an edit changes: segment layout and markers
    Depth    \* (a number) steps that stay undoable after an edit, if there were as many

VARIABLES
    past,    \* states that undo leads to, the oldest first
    present,
    future   \* states that redo leads to, the nearest first

vars == <<past, present, future>>

Init ==
    /\ past = <<>>
    /\ present \in States
    /\ future = <<>>

(* The oldest states of h may be dropped, as long as n are kept.           *)
Forgets(h, n) ==
    \E k \in 0 .. Len(h) :
        /\ past' = SubSeq(h, k + 1, Len(h))
        /\ k > 0 => Len(h) - k >= n

(* An edit makes the present the last of the past.  The state that undo    *)
(* and redo have just come back to may be recorded twice.                  *)
Edit ==
    /\ \/ Forgets(Append(past, present), Depth)
       \/ Forgets(Append(Append(past, present), present), Depth)
    /\ present' \in States
    /\ future' = <<>>

(* A change that completes the last edit, or is not worth an undo step.    *)
Amend ==
    /\ future = <<>>
    /\ present' \in States
    /\ UNCHANGED <<past, future>>

Undo ==
    /\ past # <<>>
    /\ present' = Last(past)
    /\ Forgets(Front(past), Depth - 2)
    /\ future' = <<present>> \o future

Redo ==
    /\ future # <<>>
    /\ past' = Append(past, present)
    /\ present' = Head(future)
    /\ future' = Tail(future)

Forget ==
    /\ past' = <<>>
    /\ present' \in States
    /\ future' = <<>>

Next == Edit \/ Amend \/ Undo \/ Redo \/ Forget

Spec == Init /\ [][Next]_vars
=============================================================================
