-------------------------- MODULE MCVideoFilterQueue --------------------------
(* Three images and five frames: the list and freeList both become         *)
(* empty and full, images are reused, the worker blocks and is woken.      *)
EXTENDS VideoFilterQueue
=============================================================================
