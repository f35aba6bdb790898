------------------------------ MODULE MCVideoCache ------------------------------
(* kernelDeint, which has these four entries, and what yadif asks for, with *)
(* as few entries as it could do with.  The first selection is all of the   *)
(* timeline, the second ends before its last picture, the third starts      *)
(* between two pictures.                                                    *)
EXTENDS VideoCache

MCFilters ==
    {[back |-> 1, ahead |-> 0, window |-> <<0, -1>>, bob |-> FALSE],
     [back |-> 1, ahead |-> 1, window |-> <<0, -1, 1>>, bob |-> TRUE]}

MCSelections == {<<0, 11>>, <<2, 8>>, <<3, 11>>}
=============================================================================
