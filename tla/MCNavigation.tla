------------------------------ MODULE MCNavigation ------------------------------
(***************************************************************************)
(* Three small videos:                                                     *)
(*   open    begins at time 0, with B pictures and an open GOP: picture 3  *)
(*           is coded behind keyframe 4 and shown before it,               *)
(*   late    nothing is shown before half a frame; one keyframe,           *)
(*   noisy   picture 2 carries no time stamp, picture 3 is damaged.        *)
(***************************************************************************)
EXTENDS Navigation

CONSTANTS open, late, noisy

MCNbFrames == (open :> 5) @@ (late :> 4) @@ (noisy :> 5)
MCFirstPts == (open :> 0) @@ (late :> 1) @@ (noisy :> 0)
MCCoded == (open :> <<1, 2, 4, 3, 5>>) @@ (late :> <<1, 2, 3, 4>>) @@ (noisy :> <<1, 2, 3, 4, 5>>)
MCKeys == (open :> {1, 4}) @@ (late :> {1}) @@ (noisy :> {1, 4})
MCLost == (open :> {}) @@ (late :> {}) @@ (noisy :> {3})
MCUntimed == (open :> {}) @@ (late :> {}) @@ (noisy :> {2})
MCDelay == (open :> 1) @@ (late :> 0) @@ (noisy :> 1)
MCLoadings == {<<late, open>>, <<noisy>>}
MCOne == {<<late>>}
MCJumps == {4, -4}
MCStops == {1, 5, 6}
=============================================================================
