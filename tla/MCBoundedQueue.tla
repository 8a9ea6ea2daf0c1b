--------------------------- MODULE MCBoundedQueue ---------------------------
(* BoundedQueue for TLC: the threads and the values are model values.       *)
EXTENDS BoundedQueue

CONSTANTS t1, t2, t3, a, b
=============================================================================
