------------------------------ MODULE MCUndoQueue ------------------------------
(* A limit of four records: the queue is trimmed by edits and by undo      *)
(* itself, and branches of up to three records are cut off.                *)
EXTENDS UndoQueue
=============================================================================
