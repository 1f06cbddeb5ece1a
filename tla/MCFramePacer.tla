---------------------------- MODULE MCFramePacer ----------------------------
(* The pacer with the code's times in their order, a few units long.        *)
EXTENDS FramePacer
=============================================================================
