-------------------------- MODULE MCOverlayInput --------------------------
(* The bounds are in the configurations.                                   *)
EXTENDS OverlayInput
=============================================================================
