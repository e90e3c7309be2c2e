-------------------------- MODULE MCGameLifecycle --------------------------
(* GameLifecycle with two stop threads: two requests to exit that overlap. *)
EXTENDS GameLifecycle

CONSTANTS s1, s2

MCStoppers == {s1, s2}
=============================================================================
