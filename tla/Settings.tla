------------------------------ MODULE Settings ------------------------------
(***************************************************************************)
(* The settings of the launcher (settings.cpp): the variables, the list of *)
(* properties save fills from them, and the file.  The window thread (F11) *)
(* and the render thread (the menu) change and save them without a lock,   *)
(* and the process may end anywhere: onClose calls _Exit.                  *)
(*                                                                         *)
(* Three settings stand for all: fullscreen, which save hands over after   *)
(* it truncated the file and which the window has to follow; scale, whose  *)
(* property has another default than the variable starts with; and the     *)
(* place of the HUDs, which a frame changes without a save.                *)
(***************************************************************************)
EXTENDS Naturals

CONSTANT Scales                  (* 0, which the variable starts with, 1, which
                                    is the default, and what the menu offers   *)

Threads == {"window", "render"}
Places  == {0, 1}                (* of the HUDs; 0 is where they start         *)

VARIABLES
  mem,                           (* the variables of Settings                  *)
  list,                          (* the properties                             *)
  file,                          (* {what it says}, or {} when it is empty     *)
  windowFullscreen,
  moving,                        (* movingMode: the user moves the HUDs        *)
  phase,                         (* "off", "up" (loaded) or "open"             *)
  pc,                            (* [at, fullscreen, text] for each thread     *)
  reset,                         (* the launcher was started to reset          *)
  overlapped,                    (* two changes overlapped, and no toggle since*)
  left                           (* [mem, busy, moving] when the process ended *)

settingsVars == <<mem, list, file>>
vars == <<settingsVars, windowFullscreen, moving, phase, pc, reset, overlapped, left>>

Statics  == [fullscreen |-> FALSE, scale |-> 0, hud |-> 0]
Defaults == [fullscreen |-> FALSE, scale |-> 1, hud |-> 0]
Idle     == [at |-> "idle", fullscreen |-> FALSE, text |-> {}]
Quiet    == \A t \in Threads : pc[t] = Idle

(* left, when the end was in the middle of a change or is long ago.         *)
Forgotten == [mem |-> Defaults, busy |-> TRUE, moving |-> FALSE]

Init ==
  /\ mem = Statics /\ list = Defaults /\ file = {}
  /\ windowFullscreen = FALSE /\ phase = "off"
  /\ pc = [t \in Threads |-> Idle]
  /\ reset = FALSE /\ overlapped = FALSE
  /\ moving = FALSE
  /\ left = [mem |-> Defaults, busy |-> FALSE, moving |-> FALSE]

Goto(t, at) == pc' = [pc EXCEPT ![t].at = at]

-----------------------------------------------------------------------------
(* The start of the process: the properties have their defaults, and those  *)
(* the file names are read.                                                 *)
load ==
  /\ phase = "off" /\ phase' = "up" /\ reset' = FALSE
  /\ list' = IF file = {} THEN Defaults ELSE CHOOSE text \in file : TRUE
  /\ mem' = list'
  /\ UNCHANGED <<file, windowFullscreen, moving, pc, overlapped, left>>

(* Nothing was loaded: save finds what the variables start with.            *)
ResetSettings ==
  /\ phase = "off" /\ phase' = "up" /\ reset' = TRUE
  /\ mem' = Statics /\ list' = Defaults
  /\ Goto("window", "save")
  /\ UNCHANGED <<file, windowFullscreen, moving, overlapped, left>>

(* Mutant: the window is opened as it was closed.                           *)
OpenWindowed ==
  /\ phase = "up" /\ Quiet /\ phase' = "open" /\ left' = Forgotten
  /\ UNCHANGED <<settingsVars, windowFullscreen, moving, pc, reset, overlapped>>

OpenWindow ==
  /\ phase = "up" /\ Quiet /\ phase' = "open" /\ left' = Forgotten
  /\ windowFullscreen' = mem.fullscreen
  /\ UNCHANGED <<settingsVars, moving, pc, reset, overlapped>>

Exit ==
  /\ phase # "off" /\ phase' = "off"
  /\ pc' = [t \in Threads |-> Idle]
  /\ windowFullscreen' = FALSE /\ overlapped' = FALSE /\ moving' = FALSE
  /\ left' = IF Quiet /\ ~overlapped
              THEN [mem |-> mem, busy |-> FALSE, moving |-> moving] ELSE Forgotten
  /\ UNCHANGED <<settingsVars, reset>>

-----------------------------------------------------------------------------
Begin(t, at, toggles) ==
  /\ phase = "open" /\ pc[t] = Idle
  /\ pc' = [pc EXCEPT ![t].at = at, ![t].fullscreen = ~mem.fullscreen]
  /\ overlapped' = (~Quiet \/ (overlapped /\ ~toggles))
  /\ reset' = FALSE

(* F11 on the window thread: setFullscreen(!Settings::fullscreen).          *)
PressF11 ==
  /\ Begin("window", "test", TRUE)
  /\ UNCHANGED <<settingsVars, windowFullscreen, moving, phase, left>>

setFullscreen ==
  /\ pc["window"].at = "test"
  /\ IF mem.fullscreen # pc["window"].fullscreen
     THEN windowFullscreen' = pc["window"].fullscreen /\ Goto("window", "assign")
     ELSE UNCHANGED windowFullscreen /\ pc' = [pc EXCEPT !["window"] = Idle]
  /\ UNCHANGED <<settingsVars, moving, phase, reset, overlapped, left>>

AssignFullscreen ==
  /\ pc["window"].at = "assign"
  /\ mem' = [mem EXCEPT !.fullscreen = pc["window"].fullscreen]
  /\ Goto("window", "save")
  /\ UNCHANGED <<list, file, windowFullscreen, moving, phase, reset, overlapped, left>>

(* The menu, on the render thread: it asks the setting another time after   *)
(* it told the window.                                                      *)
ToggleFullscreen ==
  /\ Begin("render", "flip", TRUE)
  /\ windowFullscreen' = ~mem.fullscreen
  /\ UNCHANGED <<settingsVars, moving, phase, left>>

FlipFullscreen ==
  /\ pc["render"].at = "flip"
  /\ mem' = [mem EXCEPT !.fullscreen = ~@]
  /\ Goto("render", "save")
  /\ UNCHANGED <<list, file, windowFullscreen, moving, phase, reset, overlapped, left>>

ChooseScale ==
  /\ Begin("render", "save", FALSE)
  /\ mem' \in {[mem EXCEPT !.scale = x] : x \in Scales \ {0}}
  /\ UNCHANGED <<list, file, windowFullscreen, moving, phase, left>>

(* "Move huds": every frame takes over where the HUDs are; they are saved   *)
(* when the user has done with it, and with any other setting.              *)
StartMoving ==
  /\ phase = "open" /\ pc["render"] = Idle /\ ~moving /\ moving' = TRUE
  /\ UNCHANGED <<settingsVars, windowFullscreen, phase, pc, reset, overlapped, left>>

MoveHud ==
  /\ phase = "open" /\ pc["render"] = Idle /\ moving
  /\ \E x \in Places : mem' = [mem EXCEPT !.hud = x]
  /\ UNCHANGED <<list, file, windowFullscreen, moving, phase, pc, reset, overlapped, left>>

(* Mutant: the save of line 721 is left out.                                *)
StopMovingOnly ==
  /\ phase = "open" /\ pc["render"] = Idle /\ moving /\ moving' = FALSE
  /\ UNCHANGED <<settingsVars, windowFullscreen, phase, pc, reset, overlapped, left>>

StopMoving ==
  /\ moving /\ moving' = FALSE
  /\ Begin("render", "save", FALSE)
  /\ UNCHANGED <<settingsVars, windowFullscreen, phase, left>>

-----------------------------------------------------------------------------
(* save.                                                                    *)
SetProperties(t) ==
  /\ pc[t].at = "save" /\ Goto(t, "truncate")
  /\ list' = [list EXCEPT !.scale = mem.scale, !.hud = mem.hud]
  /\ UNCHANGED <<mem, file, windowFullscreen, moving, phase, reset, overlapped, left>>

Truncate(t) ==
  /\ pc[t].at = "truncate" /\ Goto(t, "write")
  /\ file' = {}
  /\ list' = [list EXCEPT !.fullscreen = mem.fullscreen]
  /\ UNCHANGED <<mem, windowFullscreen, moving, phase, reset, overlapped, left>>

Write(t) ==                                        (* to the buffer         *)
  /\ pc[t].at = "write"
  /\ pc' = [pc EXCEPT ![t].at = "close", ![t].text = {list}]
  /\ UNCHANGED <<settingsVars, windowFullscreen, moving, phase, reset, overlapped, left>>

Close(t) ==                                        (* the buffer is flushed *)
  /\ pc[t].at = "close" /\ pc' = [pc EXCEPT ![t] = Idle]
  /\ file' = pc[t].text
  /\ UNCHANGED <<mem, list, windowFullscreen, moving, phase, reset, overlapped, left>>

save(t) == SetProperties(t) \/ Truncate(t) \/ Write(t) \/ Close(t)

Next ==
  \/ load \/ ResetSettings \/ OpenWindow \/ Exit
  \/ PressF11 \/ setFullscreen \/ AssignFullscreen
  \/ ToggleFullscreen \/ FlipFullscreen \/ ChooseScale
  \/ StartMoving \/ MoveHud \/ StopMoving
  \/ \E t \in Threads : save(t)

Spec == Init /\ [][Next]_vars

-----------------------------------------------------------------------------
Values == [fullscreen : BOOLEAN, scale : Scales, hud : Places]

(* The values of the variables.                                             *)
TypeOK ==
  /\ mem \in Values /\ list \in Values /\ file \subseteq Values
  /\ windowFullscreen \in BOOLEAN /\ phase \in {"off", "up", "open"}
  /\ \A t \in Threads :
       /\ pc[t].at \in {"idle", "test", "assign", "flip", "save", "truncate", "write", "close"}
       /\ pc[t].fullscreen \in BOOLEAN /\ pc[t].text \subseteq Values
  /\ reset \in BOOLEAN /\ overlapped \in BOOLEAN /\ moving \in BOOLEAN
  /\ left \in [mem : Values, busy : BOOLEAN, moving : BOOLEAN]

Same(v, w, exceptHud) ==
  /\ v.scale = w.scale /\ (v.fullscreen <=> w.fullscreen)
  /\ exceptHud \/ v.hud = w.hud

(* The next start finds the settings as they were when the process ended,   *)
(* unless it ended while they were changed or saved (save truncates the     *)
(* file first, so then all of them may be gone), or two saves had           *)
(* overlapped.  HUDs that were moved are saved when the user stops moving   *)
(* them: closing the window before that may lose their places, and nothing  *)
(* else.                                                                    *)
SettingsKept == phase = "up" /\ ~reset => Same(mem, left.mem, left.moving) \/ left.busy

(* The window is fullscreen exactly when the setting says so, whichever of  *)
(* menu and F11 toggled it, unless two toggles overlapped: then the two are *)
(* apart until the next one.                                                *)
FullscreenAgrees ==
  phase = "open" /\ Quiet /\ ~overlapped => windowFullscreen = mem.fullscreen

(* The help of --reset-settings: "Save the default Settings".               *)
ResetSavesDefaults == phase = "up" /\ reset /\ Quiet => file = {Defaults}
=============================================================================
