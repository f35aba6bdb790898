------------------------------ MODULE MCJobRunner ------------------------------
(* One or two jobs when the window is opened, and one more.                 *)
EXTENDS JobRunner

MCFirstJobs == {1, 2}
=============================================================================
