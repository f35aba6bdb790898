----------------------------- MODULE BoundedStream -----------------------------
(***************************************************************************)
(* What a threaded queue promises to the thread that pulls from it: the    *)
(* items of the source, in order, each exactly once and none altered, at   *)
(* most Capacity of them ahead of the consumer; the answer "no more data"  *)
(* only when the source is over and everything it gave was delivered.      *)
(***************************************************************************)
EXTENDS Naturals

CONSTANTS Capacity, NumItems

VARIABLES
    produced,   \* items taken from the source
    over,       \* no further item will be taken
    delivered,  \* items handed to the consumer: 1 .. delivered
    ended       \* the consumer was told that there is no more data

vars == <<produced, over, delivered, ended>>

Init ==
    /\ produced = 0
    /\ over = FALSE
    /\ delivered = 0
    /\ ended = FALSE

Produce ==
    /\ ~over
    /\ produced < NumItems
    /\ produced - delivered < Capacity
    /\ produced' = produced + 1
    /\ UNCHANGED <<over, delivered, ended>>

Finish ==
    /\ over' = TRUE
    /\ UNCHANGED <<produced, delivered, ended>>

Deliver ==
    /\ delivered < produced
    /\ ~ended
    /\ delivered' = delivered + 1
    /\ UNCHANGED <<produced, over, ended>>

EndOfData ==
    /\ over
    /\ delivered = produced
    /\ ended' = TRUE
    /\ UNCHANGED <<produced, over, delivered>>

Next == Produce \/ Finish \/ Deliver \/ EndOfData

Spec == Init /\ [][Next]_vars
=============================================================================
