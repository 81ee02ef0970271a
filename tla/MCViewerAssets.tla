--------------------------- MODULE MCViewerAssets ---------------------------
(* Instances of ViewerAssets for TLC: an assembly and a plain mesh. *)
EXTENDS ViewerAssets

CONSTANTS p, m
=============================================================================
