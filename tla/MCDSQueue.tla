------------------------------ MODULE MCDSQueue ------------------------------
(* DSQueue for three threads that make any call at any time, on a ring of    *)
(* two slots.                                                                *)
EXTENDS DSQueue, TLC

Symmetric == Permutations(Thread) \cup Permutations(Item)
=============================================================================
