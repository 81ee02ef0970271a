----------------------------- MODULE MCCadWorker -----------------------------
(* Instances of CadWorker for TLC: two requests for one artifact. *)
EXTENDS CadWorker, TLC

CONSTANTS r1, r2, a1, a2

OneArtifact == r1 :> a1 @@ r2 :> a1
=============================================================================
