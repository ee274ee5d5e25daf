------------------------ MODULE MCWildPointerCatcher ------------------------
(* The crowd: three threads, of which one also purges, and one object more  *)
(* than the queue holds, all alike, and a small one.  The surplus: two threads and objects   *)
(* of different sizes, one of them too small to be caught.                  *)
EXTENDS WildPointerCatcher, TLC

CONSTANTS o1, o2, o3, o4, small, t1, t2, t3

Alike == {o1, o2, o3, o4}
CrowdItem == Alike \cup {small}
CrowdSize == [o \in CrowdItem |-> IF o = small THEN 1 ELSE 2]

MixedItem == {o1, o2, o3, small}
MixedSize == (o1 :> 2) @@ (o2 :> 2) @@ (o3 :> 3) @@ (small :> 1)

Symmetric == Permutations(Alike) \cup Permutations({t1, t2})
=============================================================================
