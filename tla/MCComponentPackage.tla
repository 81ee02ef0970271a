------------------------ MODULE MCComponentPackage ------------------------
(* Instances of ComponentPackage for TLC: two contents, one with a component more. *)
EXTENDS ComponentPackage

CONSTANTS p1, p2, v1, v2, own, shared
MCComponentsOf == [v \in {v1, v2} |-> IF v = v1 THEN {own, shared} ELSE {shared}]
=============================================================================
