--------------------------- MODULE MCCoordination ---------------------------
(* Instances of Coordination for TLC: two or three builds of one model, an export and
   one viewer poll, with the producers of the runs chosen per configuration. *)
EXTENDS Coordination, TLC

CONSTANTS b1, b2, b3, e1, q1

GenAndStep == b1 :> "gen" @@ b2 :> "step_artifact_cli"
GenAndStep3 == b1 :> "gen" @@ b2 :> "step_artifact_cli" @@ b3 :> "dxf_artifact"
=============================================================================
