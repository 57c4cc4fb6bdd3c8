----------------------------- MODULE MCRingBuffer -----------------------------
(* Instances of RingBuffer for TLC.                                         *)
EXTENDS RingBuffer

CONSTANTS p1, p2, c1, c2, e1, e2
=============================================================================
