----------------------------- MODULE MCEditSession -----------------------------
(* Sessions of MaxEdits actions with a video of two pictures and one of    *)
(* one picture, which starts half a frame late or, in MCNoGap, at 0.       *)
EXTENDS EditSession, TLC

CONSTANTS v1, v2

MCNbFrames == v1 :> 2 @@ v2 :> 1
MCFirstPts == v1 :> 0 @@ v2 :> 1
MCKeys == v1 :> {1} @@ v2 :> {1}
MCNoGap == v1 :> 0 @@ v2 :> 0
=============================================================================
