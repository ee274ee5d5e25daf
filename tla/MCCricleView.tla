---------------------------- MODULE MCCricleView ----------------------------
(* The wheel of the application, with three positions from slot to slot. *)
EXTENDS CricleView
=============================================================================
