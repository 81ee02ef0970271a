-------------------------- MODULE MCImplicitBuilder --------------------------
(* Instances of ImplicitBuilder for TLC: a few builds of one model. *)
EXTENDS ImplicitBuilder

CONSTANTS b1, b2, b3
=============================================================================
