--------------------------- MODULE MCWindowInput ---------------------------
(* Instances of WindowInput for TLC.                                       *)
EXTENDS WindowInput

Filtered == [rawInput |-> FALSE, forcedMode |-> "Unknown", overlay |-> FALSE]
Raw      == [Filtered EXCEPT !.rawInput = TRUE]
OnlyTouch == [Filtered EXCEPT !.forcedMode = "Touch"]

(* The overlay in its most talkative environment: nothing is filtered.     *)
RawOverlay == [Raw EXCEPT !.overlay = TRUE]

MCSettings == {Filtered, Raw, OnlyTouch, RawOverlay}
=============================================================================
