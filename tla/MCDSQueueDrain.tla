--------------------------- MODULE MCDSQueueDrain ---------------------------
(* Two producers with two items each, two consumers and an owner, on a ring  *)
(* of two slots.                                                             *)
EXTENDS DSQueueDrain

CONSTANTS p1, p2, c1, c2, main, m1, m2, n1, n2

MCSends == [p \in {p1, p2} |-> IF p = p1 THEN <<m1, m2>> ELSE <<n1, n2>>]
=============================================================================
