------------------------------- MODULE MCSegments -------------------------------
(* Two videos, the second of which starts with half a frame of nothing.     *)
EXTENDS Segments, TLC

CONSTANTS v1, v2

MCNbFrames == v1 :> 2 @@ v2 :> 1
MCFirstPts == v1 :> 0 @@ v2 :> 1
=============================================================================
