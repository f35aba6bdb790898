-------------------------- MODULE MCAudioAccessThread --------------------------
(* Three buffers and five packets: both lists become empty and full, the   *)
(* worker blocks and is woken, and getPacket() is inside its unlocked copy *)
(* when the son ends.                                                      *)
EXTENDS AudioAccessThread
=============================================================================
