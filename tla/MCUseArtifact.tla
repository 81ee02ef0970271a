---------------------------- MODULE MCUseArtifact ----------------------------
(* Instances of UseArtifact for TLC: one tab and one build from a terminal. *)
EXTENDS UseArtifact

CONSTANTS t1, p1
=============================================================================
