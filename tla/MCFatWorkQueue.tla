--------------------------- MODULE MCFatWorkQueue ---------------------------
(* A volume with two places, four requests to fill the overflow queue with *)
(* two, a mount request, and one worker more than the volume has places.   *)
EXTENDS FatWorkQueue, TLC

CONSTANTS r1, r2, r3, r4, m, w1, w2, w3
=============================================================================
