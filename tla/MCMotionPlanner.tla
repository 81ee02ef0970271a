--------------------------- MODULE MCMotionPlanner ---------------------------
(* Instances of MotionPlanner for TLC: two robots with one end effector. *)
EXTENDS MotionPlanner

CONSTANTS fa, fb, e1
=============================================================================
