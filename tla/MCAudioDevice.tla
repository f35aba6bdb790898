---------------------------- MODULE MCAudioDevice ----------------------------
(* A buffer of eight samples of which at most two are unplayed, slices of  *)
(* one or two: nine samples make the buffer be compacted twice, with a     *)
(* write under way or not.  Two sessions, so that a thread which outlives  *)
(* its stop() meets the next one.                                          *)
EXTENDS AudioDevice
=============================================================================
